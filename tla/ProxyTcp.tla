------------------------------- MODULE ProxyTcp -------------------------------
(***************************************************************************)
(* proxy_tcp() of src/src/proxy.rs: the loop between a websocket and a TCP *)
(* upstream, with the client and the upstream around it.                   *)
(*                                                                         *)
(* The loop is one task.  It waits in select! for a websocket message or   *)
(* for upstream bytes, and awaits the write of what it took inside the     *)
(* branch: while it writes in one direction it reads in neither.  Each     *)
(* direction of each connection is a queue of bounded capacity (the socket *)
(* buffers).  A byte is a number: 1, 2, 3... in the order it was sent.     *)
(*                                                                         *)
(* Client and upstream are external, modelled by what the code relies on.  *)
(***************************************************************************)
EXTENDS Integers, Sequences, SequencesExt

CONSTANTS
    ClientBytes,     \* bytes the client sends
    UpstreamBytes,   \* bytes the upstream sends (when it is no echo server)
    MaxMessage,      \* bytes in a websocket message of the client
    buffer_size,     \* bytes one read from the upstream takes
    Capacity,        \* messages or bytes that fit a socket buffer
    MaxPings,        \* pings and pongs the client sends
    Echo,            \* may the upstream be an echo server, may it be none?
    Failures         \* may connections break?

ASSUME ProxyTcpAssumption ==
    /\ ClientBytes \in Nat /\ UpstreamBytes \in Nat /\ MaxPings \in Nat
    /\ MaxMessage \in Nat \ {0} /\ buffer_size \in Nat \ {0} /\ Capacity \in Nat \ {0}
    /\ Echo \subseteq BOOLEAN /\ Failures \in BOOLEAN

VARIABLES
    pc,          \* "select", a pending await, or how proxy_tcp ended
    pending,     \* what that await still has to write
    ws_in,       \* messages from the client
    ws_out,      \* messages to the client
    tcp_in,      \* bytes from the upstream, then an end
    tcp_out,     \* bytes to the upstream, then an end
    client,      \* the client: sent, closed, pings, got
    upstream     \* the upstream: echo (it sends back what it reads, and nothing else),
                 \* sent, closed, got, saw_eof

vars == <<pc, pending, ws_in, ws_out, tcp_in, tcp_out, client, upstream>>
router == <<pc, pending>>

-----------------------------------------------------------------------------
(* Messages *)

Data(bytes) == [kind |-> "Binary", bytes |-> bytes]   \* Text is forwarded alike

Control(kind) == [kind |-> kind, bytes |-> << >>]

\* A TCP stream ends in good order, or it is reset.
Eof == 0

Reset == -1

Numbers(a, b) == [i \in 1 .. b - a + 1 |-> a + i - 1]

\* A socket buffer takes more.
Room(queue) == Len(queue) < Capacity

\* The bytes of a queue of messages, and of a queue of bytes and an end.
Payload(messages) == FlattenSeq([i \in 1 .. Len(messages) |-> messages[i].bytes])

Bytes(queue) == IF queue # << >> /\ Last(queue) <= 0 THEN Front(queue) ELSE queue

Ended == {"done", "failed"}

-----------------------------------------------------------------------------
(* The client *)

ClientSend ==
    /\ ~client.closed /\ Room(ws_in) /\ client.sent < ClientBytes
    /\ \E n \in 1 .. MaxMessage :
          /\ client.sent + n <= ClientBytes
          /\ ws_in' = Append(ws_in, Data(Numbers(client.sent + 1, client.sent + n)))
          /\ client' = [client EXCEPT !.sent = @ + n]
    /\ UNCHANGED <<router, ws_out, tcp_in, tcp_out, upstream>>

\* A ping, or a pong nobody asked for.
ClientPing ==
    /\ ~client.closed /\ Room(ws_in) /\ client.pings < MaxPings
    /\ ws_in' \in {Append(ws_in, Control("Ping")), Append(ws_in, Control("Pong"))}
    /\ client' = [client EXCEPT !.pings = @ + 1]
    /\ UNCHANGED <<router, ws_out, tcp_in, tcp_out, upstream>>

\* The client sends a Close frame, ends its side without one, or is lost, at any time and
\* behind whatever it has sent.
ClientClose ==
    /\ ~client.closed
    /\ \E kind \in {"Close", "eof"} \cup (IF Failures THEN {"error"} ELSE {}) :
          ws_in' = Append(ws_in, Control(kind))
    /\ client' = [client EXCEPT !.closed = TRUE]
    /\ UNCHANGED <<router, ws_out, tcp_in, tcp_out, upstream>>

ClientReceive ==
    /\ ws_out # << >>
    /\ ws_out' = Tail(ws_out)
    /\ client' = [client EXCEPT !.got = @ \o Head(ws_out).bytes,
                                !.saw_close = @ \/ Head(ws_out).kind = "Close"]
    /\ UNCHANGED <<router, ws_in, tcp_in, tcp_out, upstream>>

-----------------------------------------------------------------------------
(* The upstream *)

UpstreamSend ==
    /\ ~upstream.echo /\ ~upstream.closed /\ Room(tcp_in) /\ upstream.sent < UpstreamBytes
    /\ tcp_in' = Append(tcp_in, upstream.sent + 1)
    /\ upstream' = [upstream EXCEPT !.sent = @ + 1]
    /\ UNCHANGED <<router, ws_in, ws_out, tcp_out, client>>

\* The upstream ends its side, or resets the connection; an echo server does so once it has
\* seen the end of what it echoes.
UpstreamClose ==
    /\ ~upstream.closed /\ Room(tcp_in)
    /\ upstream.echo => upstream.saw_eof
    /\ \E end \in {Eof} \cup (IF Failures THEN {Reset} ELSE {}) :
          tcp_in' = Append(tcp_in, end)
    /\ upstream' = [upstream EXCEPT !.closed = TRUE]
    /\ UNCHANGED <<router, ws_in, ws_out, tcp_out, client>>

\* An echo server that reads the next byte once it could send back the last one.
UpstreamReceive ==
    /\ tcp_out # << >>
    /\ tcp_out' = Tail(tcp_out)
    /\ \/ /\ Head(tcp_out) = Eof
          /\ upstream' = [upstream EXCEPT !.saw_eof = TRUE]
          /\ UNCHANGED tcp_in
       \/ /\ Head(tcp_out) = Reset
          /\ upstream' = [upstream EXCEPT !.closed = TRUE]
          /\ UNCHANGED tcp_in
       \/ /\ Head(tcp_out) > 0 /\ upstream.echo
          /\ ~upstream.closed /\ Room(tcp_in)
          /\ tcp_in' = Append(tcp_in, Head(tcp_out))
          /\ upstream' = [upstream EXCEPT !.sent = @ + 1, !.got = Append(@, Head(tcp_out))]
       \/ /\ Head(tcp_out) > 0 /\ ~upstream.echo
          /\ upstream' = [upstream EXCEPT !.got = Append(@, Head(tcp_out))]
          /\ UNCHANGED tcp_in
    /\ UNCHANGED <<router, ws_in, ws_out, client>>

-----------------------------------------------------------------------------
(* The loop *)

Await(where, what) == pc' = where /\ pending' = what

\* What a peer can still get of a queue once its socket is dropped: all of it and the end,
\* or, if that peer sent or sends what is not read any more, whatever the kernel delivered
\* before it reset the connection.
Dropped(queue, unread, end, reset) ==
    {Append(queue, end)} \cup
    (IF unread THEN {Append(SubSeq(queue, 1, n), reset) : n \in 0 .. Len(queue)} ELSE {})

\* proxy_tcp returns and drops both sockets, with "toClient" and "toUpstream" in them.
Finish(how, toClient, toUpstream) ==
    /\ pc' = how /\ pending' = << >>
    /\ ws_out' \in Dropped(toClient, ~client.closed \/ ws_in # << >>,
                           Control("eof"), Control("error"))
    /\ tcp_out' \in Dropped(toUpstream, ~upstream.closed \/ Bytes(tcp_in) # << >>, Eof, Reset)

\* The first branch of select!: the next websocket message.
ReadWebsocket ==
    /\ pc = "select" /\ ws_in # << >>
    /\ ws_in' = Tail(ws_in)
    /\ LET message == Head(ws_in)
       IN  \/ /\ \/ message.kind = "Binary" /\ Await("write_tcp", message.bytes)
                 \/ message.kind = "Ping" /\ Await("send_ws", <<Control("Pong")>>)
                 \/ message.kind = "Pong" /\ Await("select", << >>)
                 \/ message.kind \in {"Close", "eof"} /\ Await("shutdown", << >>)
              /\ UNCHANGED <<ws_out, tcp_out>>
           \/ message.kind = "error" /\ Finish("failed", ws_out, tcp_out)
    /\ UNCHANGED <<tcp_in, client, upstream>>

\* How much of the queue one read takes: what has arrived before the end, at most a buffer.
Available == LET n == Len(Bytes(tcp_in)) IN IF n <= buffer_size THEN n ELSE buffer_size

\* Mutant: the slice of the buffer ends one byte early.
Chunk_off_by_one == SubSeq(tcp_in, 1, IF Available > 1 THEN Available - 1 ELSE 1)

\* tcp_buffer[..n]
Chunk == SubSeq(tcp_in, 1, Available)

\* Mutant: a read that does not fill the buffer is taken for the end.
AtEnd_short_read == Head(tcp_in) # Reset /\ Available < buffer_size

\* n == 0
AtEnd == Head(tcp_in) = Eof

\* The second branch: a read from the upstream.
ReadUpstream ==
    /\ pc = "select" /\ tcp_in # << >>
    /\ \/ /\ Head(tcp_in) > 0 /\ ~AtEnd
          /\ tcp_in' = SubSeq(tcp_in, Available + 1, Len(tcp_in))
          /\ Await("send_ws", <<Data(Chunk)>>)
          /\ UNCHANGED <<ws_out, tcp_out>>
       \/ /\ AtEnd
          /\ tcp_in' = Tail(tcp_in)
          /\ Await("send_close", <<Control("Close")>>)
          /\ UNCHANGED <<ws_out, tcp_out>>
       \/ /\ Head(tcp_in) = Reset
          /\ tcp_in' = Tail(tcp_in)
          /\ Finish("failed", ws_out, tcp_out)
    /\ UNCHANGED <<ws_in, client, upstream>>

\* Mutant: write() instead of write_all().
Unwritten_forgotten == << >>

Unwritten == Tail(pending)

\* write_all(): one byte at a time, as far as there is room.
WriteUpstream ==
    /\ pc = "write_tcp" /\ Room(tcp_out)
    /\ tcp_out' = Append(tcp_out, Head(pending))
    /\ pending' = Unwritten
    /\ pc' = IF Unwritten = << >> THEN "select" ELSE pc
    /\ UNCHANGED <<ws_in, ws_out, tcp_in, client, upstream>>

\* send(): the message, or the Close after which the loop is left.
SendWebsocket ==
    /\ pc \in {"send_ws", "send_close"} /\ Room(ws_out)
    /\ \/ /\ pc = "send_ws"
          /\ ws_out' = ws_out \o pending
          /\ Await("select", << >>)
          /\ UNCHANGED tcp_out
       \/ /\ pc = "send_close"
          /\ Finish("done", ws_out \o pending, tcp_out)
    /\ UNCHANGED <<ws_in, tcp_in, client, upstream>>

\* Mutant: the loop goes on after the shutdown.
AfterShutdown_continues ==
    Await("select", << >>) /\ tcp_out' = Append(tcp_out, Eof) /\ UNCHANGED ws_out

\* break: the end that shutdown() has sent is the one that dropping the socket sends.
AfterShutdown == Finish("done", ws_out, tcp_out)

\* tcp_writer.shutdown()
ShutdownUpstream ==
    /\ pc = "shutdown"
    /\ AfterShutdown
    /\ UNCHANGED <<ws_in, tcp_in, client, upstream>>

\* A write fails once the peer is gone.  A failed Close is ignored.
WriteFails ==
    /\ Failures
    /\ \/ pc \in {"write_tcp", "shutdown"} /\ upstream.closed /\ Finish("failed", ws_out, tcp_out)
       \/ pc = "send_ws" /\ client.closed /\ Finish("failed", ws_out, tcp_out)
       \/ pc = "send_close" /\ client.closed /\ Finish("done", ws_out, tcp_out)
    /\ UNCHANGED <<ws_in, tcp_in, client, upstream>>

Loop == \/ ReadWebsocket \/ ReadUpstream \/ WriteUpstream \/ SendWebsocket
        \/ ShutdownUpstream \/ WriteFails

Init ==
    /\ pc = "select" /\ pending = << >>
    /\ ws_in = << >> /\ ws_out = << >> /\ tcp_in = << >> /\ tcp_out = << >>
    /\ client = [sent |-> 0, pings |-> 0, closed |-> FALSE, got |-> << >>, saw_close |-> FALSE]
    /\ upstream \in [echo : Echo, sent : {0}, closed : {FALSE}, got : {<< >>}, saw_eof : {FALSE}]

Next ==
    \/ Loop
    \/ ClientSend \/ ClientPing \/ ClientClose \/ ClientReceive
    \/ UpstreamSend \/ UpstreamClose \/ UpstreamReceive

\* Tokio runs a task that can go on, and select! picks among the ready branches at random.
\* Client and upstream read what arrives and send what they have to.
Spec ==
    /\ Init /\ [][Next]_vars
    /\ WF_vars(ReadWebsocket) /\ WF_vars(ReadUpstream) /\ WF_vars(WriteUpstream)
    /\ WF_vars(SendWebsocket) /\ WF_vars(ShutdownUpstream)
    /\ WF_vars(ClientReceive) /\ WF_vars(UpstreamReceive) /\ WF_vars(ClientSend)

-----------------------------------------------------------------------------
(* Properties *)

\* Towards the upstream: the bytes in the socket, in a write of the loop and in messages the
\* loop has not read.  When the loop is left only those in the socket can still arrive.
UpstreamTransit ==
    IF pc \in Ended THEN Bytes(tcp_out)
    ELSE Bytes(tcp_out) \o (IF pc = "write_tcp" THEN pending ELSE << >>) \o Payload(ws_in)

ToUpstream == INSTANCE Pipe WITH
    transit <- UpstreamTransit, got <- upstream.got, cut <- pc \in Ended

\* Towards the client, alike.
ClientTransit ==
    IF pc \in Ended THEN Payload(ws_out)
    ELSE Payload(ws_out) \o (IF pc = "send_ws" THEN Payload(pending) ELSE << >>) \o Bytes(tcp_in)

ToClient == INSTANCE Pipe WITH
    transit <- ClientTransit, got <- client.got, cut <- pc \in Ended

\* The tunnel implements a byte stream from the client to the upstream: over any split into
\* messages and partial writes nothing is lost, repeated, reordered or made up, and what the
\* end of the tunnel costs is the last part of what was on its way.
PipeToUpstream == ToUpstream!PipeSpec

\* And one from the upstream to the client, however the reads cut it into messages and
\* whatever pongs go between them.
PipeToClient == ToClient!PipeSpec

\* An orderly end comes after all of the stream, both ways.  An upstream that has not closed
\* sees the end of a tunnel that was closed in good order only after everything the client
\* sent; a client that is sent Close has everything the upstream sent.  (A tunnel that fails,
\* or that the upstream closed, also ends the upstream's stream, and may cut it.)
EndComesLast ==
    /\ upstream.saw_eof /\ pc = "done" /\ ~upstream.closed
          => upstream.got = Numbers(1, client.sent)
    /\ client.saw_close => client.got = Numbers(1, upstream.sent)

\* The loop waits in write_all() for an upstream that reads no more before it could send.
Stuck ==
    /\ pc = "write_tcp" /\ ~Room(tcp_out)
    /\ upstream.echo /\ ~Room(tcp_in)

\* Once a side has closed, the tunnel ends, if both sides go on reading; the one case in
\* which it does not is an echo server that waits for the loop while the loop waits for it,
\* where the Close that is queued is never read (proxy.rs:254).
CloseEndsTunnel == (client.closed \/ upstream.closed) ~> (pc \in Ended \/ Stuck)

\* "Bytes flow both ways": with an upstream that answers every byte, and a client that
\* reads, everything the client sends comes back, unless a side closes first.
BytesFlowBothWays ==
    <>(client.got = Numbers(1, ClientBytes) \/ client.closed \/ upstream.closed)
=============================================================================
