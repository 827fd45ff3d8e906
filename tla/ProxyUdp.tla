------------------------------- MODULE ProxyUdp -------------------------------
(***************************************************************************)
(* proxy_udp() of src/src/proxy.rs: the loop between a websocket and a     *)
(* connected UDP socket, which ends by an idle timeout.                    *)
(*                                                                         *)
(* Each pass through the loop starts both timeouts anew, so they expire    *)
(* together: one counter, "left".  It runs only while the loop waits in    *)
(* select!, not while it awaits a send.  When it has run out, select! may  *)
(* still pick the branch whose message has just arrived.                   *)
(*                                                                         *)
(* Messages and datagrams are numbered in the order they were sent; a      *)
(* message that exceeds a datagram is negative, and the numbers from Ping  *)
(* on are the other kinds.  Client, network and upstream are external,     *)
(* modelled by what the code relies on.                                    *)
(***************************************************************************)
EXTENDS Integers, Sequences, SequencesExt

CONSTANTS
    idle_timeout,    \* in ticks
    ClientMessages,  \* bound on the messages the client sends
    Datagrams,       \* bound on the datagrams the upstream sends
    Capacity,        \* messages or datagrams that fit a socket buffer
    Oversize         \* may the client send a message larger than a datagram?

\* args.validate() refuses a zero timeout.
ASSUME ProxyUdpAssumption ==
    /\ idle_timeout \in Nat \ {0} /\ Capacity \in Nat \ {0}
    /\ ClientMessages \in Nat /\ Datagrams \in Nat /\ Oversize \in BOOLEAN

VARIABLES
    pc,          \* "select", a pending await, or how proxy_udp ended
    pending,     \* the message that await has to send
    left,        \* ticks until the timeouts of this pass expire
    quiet,       \* history: ticks since the last message or datagram was handled
    ws_in,       \* messages from the client: numbers, Ping, Pong, Close, Lost
    ws_out,      \* messages to the client: numbers, Pong, Close
    udp_in,      \* datagrams in the receive buffer of the socket
    sent,        \* datagrams sent to the upstream, in order
    received,    \* history: datagrams taken from the socket, in order
    client,      \* the client: messages sent, closed, and what it got
    arrived      \* datagrams the upstream has sent

vars == <<pc, pending, left, quiet, ws_in, ws_out, udp_in, sent, received, client, arrived>>
network == <<ws_in, ws_out, udp_in, client, arrived>>

Ping == ClientMessages + Datagrams + 1

Pong == Ping + 1

Close == Ping + 2

Lost == Ping + 3

\* A socket buffer takes more.
Room(queue) == Len(queue) < Capacity

Ended == {"done", "failed"}

Earlier(a, b) == IF a <= b THEN a ELSE b

-----------------------------------------------------------------------------
(* Client, network and upstream *)

ClientSend ==
    /\ ~client.closed /\ Room(ws_in) /\ client.sent < ClientMessages
    /\ \E sign \in {1} \cup (IF Oversize THEN {-1} ELSE {}) :
          ws_in' = Append(ws_in, sign * (client.sent + 1))
    /\ client' = [client EXCEPT !.sent = @ + 1]
    /\ UNCHANGED <<pc, pending, left, quiet, ws_out, udp_in, sent, received, arrived>>

\* A ping or a pong, counted like a message to bound them.
ClientPing ==
    /\ ~client.closed /\ Room(ws_in) /\ client.sent + client.pings < ClientMessages
    /\ ws_in' \in {Append(ws_in, Ping), Append(ws_in, Pong)}
    /\ client' = [client EXCEPT !.pings = @ + 1]
    /\ UNCHANGED <<pc, pending, left, quiet, ws_out, udp_in, sent, received, arrived>>

ClientClose ==
    /\ ~client.closed /\ Room(ws_in)
    /\ ws_in' \in {Append(ws_in, Close), Append(ws_in, Lost)}
    /\ client' = [client EXCEPT !.closed = TRUE]
    /\ UNCHANGED <<pc, pending, left, quiet, ws_out, udp_in, sent, received, arrived>>

ClientReceive ==
    /\ ws_out # << >>
    /\ ws_out' = Tail(ws_out)
    /\ client' = [client EXCEPT !.got = Append(@, Head(ws_out))]
    /\ UNCHANGED <<pc, pending, left, quiet, ws_in, udp_in, sent, received, arrived>>

\* A datagram reaches the socket, or is lost on the way or in a full buffer.
UpstreamSend ==
    /\ arrived < Datagrams
    /\ arrived' = arrived + 1
    /\ udp_in' \in {udp_in} \cup (IF Room(udp_in) THEN {Append(udp_in, arrived + 1)} ELSE {})
    /\ UNCHANGED <<pc, pending, left, quiet, ws_in, ws_out, sent, received, client>>

-----------------------------------------------------------------------------
(* The loop *)

\* Mutant: the timeouts are created once, before the loop.
NextPass_keeps_timeout == left

\* timeout(idle_timeout, ...), twice, at the start of a pass.
NextPass == idle_timeout

Select == pc' = "select" /\ pending' = << >> /\ left' = NextPass

Finish(how) == pc' = how /\ pending' = << >> /\ left' = left

\* Sending a message to the client, then the next pass or the end.
AwaitSend(where, message) == pc' = where /\ pending' = <<message>> /\ left' = left

\* Mutant: a message that does not fit is cut to what fits.
Datagram_truncates(message) == <<message>>

\* What udp.send() puts on the network: one datagram, or nothing if it is too long.
Datagram(message) == IF message > 0 THEN <<message>> ELSE << >>

\* What the upstream's host answered to an earlier datagram (port closed) can be reported
\* by the next call on the socket.
Refused == sent # << >>

\* The first branch: a websocket message.  udp.send() does not wait; it fails when the
\* message is longer than a datagram can be, or to report a refusal.
HandleMessage ==
    /\ pc = "select" /\ ws_in # << >>
    /\ ws_in' = Tail(ws_in)
    /\ quiet' = 0
    /\ LET message == Head(ws_in)
       IN  \/ /\ message < Ping
              /\ sent' = sent \o Datagram(message)
              /\ IF Datagram(message) = << >> THEN Finish("failed") ELSE Select
           \/ message < Ping /\ Refused /\ Finish("failed") /\ UNCHANGED sent
           \/ message = Pong /\ Select /\ UNCHANGED sent
           \/ message = Ping /\ AwaitSend("send_ws", Pong) /\ UNCHANGED sent
           \/ message = Close /\ Finish("done") /\ UNCHANGED sent
           \/ message = Lost /\ Finish("failed") /\ UNCHANGED sent
    /\ UNCHANGED <<ws_out, udp_in, received, client, arrived>>

\* The second branch: a datagram.
HandleDatagram ==
    /\ pc = "select" /\ udp_in # << >>
    /\ udp_in' = Tail(udp_in)
    /\ received' = Append(received, Head(udp_in))
    /\ quiet' = 0
    /\ AwaitSend("send_ws", Head(udp_in))
    /\ UNCHANGED <<ws_in, ws_out, sent, client, arrived>>

\* recv() reports a refusal.
ReceiveFails ==
    /\ pc = "select" /\ Refused
    /\ Finish("failed")
    /\ UNCHANGED <<quiet, sent, received, network>>

\* Mutant: the loop goes on after the Close of the timeout.
AfterClose_continues == "select"

\* break
AfterClose == "done"

\* send() waits for room; a data message or a pong, or the Close of the timeout.
SendWebsocket ==
    /\ pc \in {"send_ws", "send_close"} /\ Room(ws_out)
    /\ ws_out' = ws_out \o pending
    /\ IF pc = "send_ws" THEN Select ELSE Finish(AfterClose)
    /\ UNCHANGED <<quiet, ws_in, udp_in, sent, received, client, arrived>>

\* A send fails when the client is gone; a failed Close is ignored.
SendFails ==
    /\ client.closed
    /\ \/ pc = "send_ws" /\ Finish("failed")
       \/ pc = "send_close" /\ Finish(AfterClose)
    /\ UNCHANGED <<quiet, sent, received, network>>

\* Either timeout has expired.
IdleTimeout ==
    /\ pc = "select" /\ left = 0
    /\ AwaitSend("send_close", Close)
    /\ UNCHANGED <<quiet, sent, received, network>>

\* Time passes; the timer stands still outside select!.
Tick ==
    /\ pc \notin Ended
    /\ left' = IF pc = "select" /\ left > 0 THEN left - 1 ELSE left
    /\ quiet' = Earlier(quiet + 1, idle_timeout)
    /\ UNCHANGED <<pc, pending, sent, received, network>>

Init ==
    /\ pc = "select" /\ pending = << >> /\ left = idle_timeout /\ quiet = 0
    /\ ws_in = << >> /\ ws_out = << >> /\ udp_in = << >> /\ sent = << >> /\ received = << >>
    /\ client = [sent |-> 0, pings |-> 0, closed |-> FALSE, got |-> << >>]
    /\ arrived = 0

Loop == HandleMessage \/ HandleDatagram \/ SendWebsocket \/ IdleTimeout

Next ==
    \/ Loop \/ ReceiveFails \/ SendFails \/ Tick
    \/ ClientSend \/ ClientPing \/ ClientClose \/ ClientReceive
    \/ UpstreamSend

\* Time passes, Tokio runs a task that can go on, and TCP reports a client that is gone.
\* Nothing is assumed of a client that is there.
Spec == Init /\ [][Next]_vars /\ WF_vars(Loop) /\ WF_vars(SendFails) /\ WF_vars(Tick)

\* A client that reads what it is sent.
ReadingClientSpec == Spec /\ WF_vars(ClientReceive)

-----------------------------------------------------------------------------
(* Properties *)

\* The numbered messages of the queue are "data", in order: "count" of them are among the
\* first i of the queue.
Carries(queue, data) ==
    \E count \in [0 .. Len(queue) -> 0 .. Len(data)] :
        /\ count[0] = 0 /\ count[Len(queue)] = Len(data)
        /\ \A i \in 1 .. Len(queue) :
              IF queue[i] < Ping THEN count[i] = count[i - 1] + 1 /\ queue[i] = data[count[i]]
              ELSE count[i] = count[i - 1]

\* Each websocket message becomes exactly one datagram, in order and of the same content,
\* and each datagram that was taken from the socket exactly one message.
OneForOne ==
    /\ \A i \in 1 .. Len(sent) : sent[i] = i
    /\ LET toClient == client.got \o ws_out \o pending
       IN  pc \notin Ended => Carries(toClient, received)

\* The session is closed as idle only when nothing was handled in either direction for the
\* whole timeout.
OnlyIdleSessionsTimeOut == [][pc' = "send_close" => quiet = idle_timeout]_vars

\* "The session is closed after --udp-idle-timeout seconds without traffic": both
\* sides fall silent at last (the traffic is bounded), and then the session ends.
IdleSessionsEnd == <>(pc \in Ended)
=============================================================================
