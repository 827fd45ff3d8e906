------------------------------ MODULE TcpProofs -------------------------------
(***************************************************************************)
(* Proofs about ProxyTcp, for any number of bytes, any split into messages *)
(* and any buffer sizes: each direction implements a byte stream, and an   *)
(* orderly end comes last.                                                 *)
(***************************************************************************)
EXTENDS ProxyTcp, SequenceFacts

Byte == Nat \ {0}

-----------------------------------------------------------------------------
(* Sequences of bytes *)

Kinds == {"Binary", "Ping", "Pong", "Close", "eof", "error"}

\* A message has bytes if it is one of data.
Messages ==
    {m \in [kind : Kinds, bytes : Seq(Byte)] : m.kind = "Binary" <=> m.bytes # << >>}

LEMMA Regroup ==
    ASSUME NEW a \in Seq(Byte), NEW b \in Seq(Byte), NEW c \in Seq(Byte)
    PROVE  (a \o b) \o c = a \o (b \o c)
  BY SMTT(30)

LEMMA EmptyEnds == ASSUME NEW a \in Seq(Byte) PROVE a \o << >> = a /\ << >> \o a = a
  OBVIOUS

\* The parts of the messages that Payload joins.
Parts(q) == [i \in 1 .. Len(q) |-> q[i].bytes]

LEMMA PartsType ==
    ASSUME NEW q \in Seq(Messages)
    PROVE  Parts(q) \in Seq(Seq(Byte)) /\ Len(Parts(q)) = Len(q)
  BY DEF Parts, Messages

LEMMA PayloadOf == ASSUME NEW q PROVE Payload(q) = FlattenSeq(Parts(q))
  BY DEF Payload, Parts

LEMMA PayloadType == ASSUME NEW q \in Seq(Messages) PROVE Payload(q) \in Seq(Byte)
  BY PartsType, PayloadOf, FlattenType

\* The bytes of two queues in a row.
LEMMA PayloadConcat ==
    ASSUME NEW q \in Seq(Messages), NEW r \in Seq(Messages)
    PROVE  Payload(q \o r) = Payload(q) \o Payload(r)
<1>. DEFINE both == q \o r
            l == Parts(both)
            p == Parts(q)
            t == Parts(r)
<1>1. /\ Len(q) \in Nat /\ Len(r) \in Nat /\ both \in Seq(Messages)
      /\ Len(both) = Len(q) + Len(r)
      /\ \A i \in 1 .. Len(q) : both[i] = q[i]
      /\ \A i \in 1 .. Len(r) : both[Len(q) + i] = r[i]
  OBVIOUS
<1>. HIDE DEF both
<1>2. /\ p \in Seq(Seq(Byte)) /\ Len(p) = Len(q)
      /\ t \in Seq(Seq(Byte)) /\ Len(t) = Len(r)
      /\ l \in Seq(Seq(Byte)) /\ Len(l) = Len(q) + Len(r)
  BY <1>1, PartsType
<1>3. /\ \A i \in 1 .. Len(q) : l[i] = p[i]
      /\ \A i \in 1 .. Len(r) : l[Len(q) + i] = t[i]
  <2>1. /\ \A i \in 1 .. Len(q) : i \in 1 .. Len(both)
        /\ \A i \in 1 .. Len(r) : Len(q) + i \in 1 .. Len(both)
    BY <1>1
  <2>. QED BY <1>1, <2>1 DEF Parts
<1>. HIDE DEF l, p, t
<1>4. l = p \o t
  <2>1. /\ Len(l) = Len(p) + Len(t)
        /\ \A i \in 1 .. Len(p) : l[i] = p[i]
        /\ \A i \in 1 .. Len(t) : l[Len(p) + i] = t[i]
    BY <1>2, <1>3
  <2>. QED BY ONLY <1>2, <2>1, InARow, ZenonT(30)
<1>5. Payload(both) = FlattenSeq(p \o t)
  BY <1>4, PayloadOf DEF l
<1>6. FlattenSeq(p \o t) = FlattenSeq(p) \o FlattenSeq(t)
  BY <1>2, FlattenConcat
<1>. QED BY <1>5, <1>6, PayloadOf DEF both, p, t

LEMMA PayloadNone == Payload(<< >>) = << >>
  BY DEF Payload, FlattenSeq

\* The bytes of one message.
LEMMA PayloadOne == ASSUME NEW m \in Messages PROVE Payload(<<m>>) = m.bytes
<1>1. m.bytes \in Seq(Byte)
  BY DEF Messages
<1>2. Parts(<<m>>) = <<m.bytes>>
  BY DEF Parts
<1>. QED BY <1>1, <1>2, PayloadOf, FlattenOne

LEMMA PayloadAppend ==
    ASSUME NEW q \in Seq(Messages), NEW m \in Messages
    PROVE  Payload(Append(q, m)) = Payload(q) \o m.bytes
<1>1. Append(q, m) = q \o <<m>> /\ <<m>> \in Seq(Messages)
  OBVIOUS
<1>. QED BY <1>1, PayloadConcat, PayloadOne

LEMMA PayloadTail ==
    ASSUME NEW q \in Seq(Messages), q # << >>
    PROVE  Payload(q) = Head(q).bytes \o Payload(Tail(q))
<1>1. q = <<Head(q)>> \o Tail(q) /\ <<Head(q)>> \in Seq(Messages) /\ Tail(q) \in Seq(Messages)
      /\ Head(q) \in Messages
  OBVIOUS
<1>. QED BY <1>1, PayloadConcat, PayloadOne
\* The first messages have the first bytes.
LEMMA PayloadPrefix ==
    ASSUME NEW q \in Seq(Messages), NEW n \in 0 .. Len(q)
    PROVE  \E rest \in Seq(Byte) : Payload(q) = Payload(SubSeq(q, 1, n)) \o rest
<1>. DEFINE a == SubSeq(q, 1, n)
            b == SubSeq(q, n + 1, Len(q))
<1>1. a \in Seq(Messages) /\ b \in Seq(Messages) /\ q = a \o b
  BY Halves
<1>. HIDE DEF a, b
<1>3. Payload(q) = Payload(a) \o Payload(b) /\ Payload(b) \in Seq(Byte)
  BY <1>1, PayloadConcat, PayloadType
<1>. QED BY <1>3 DEF a

\* A queue of bytes with and without an end.
LEMMA BytesOf ==
    ASSUME NEW b \in Seq(Byte), NEW end \in {Eof, Reset}
    PROVE  /\ Bytes(b) = b
           /\ Bytes(Append(b, end)) = b
<1>1. Bytes(b) = b
  BY DEF Bytes, Last, Byte
<1>2. /\ Append(b, end) # << >> /\ Len(Append(b, end)) = Len(b) + 1
      /\ Append(b, end)[Len(b) + 1] = end /\ end <= 0
  BY DEF Eof, Reset, Byte
<1>3. SubSeq(Append(b, end), 1, Len(b)) = b
  OBVIOUS
<1>4. (Len(b) + 1) - 1 = Len(b)
  OBVIOUS
<1>. QED BY <1>1, <1>2, <1>3, <1>4 DEF Bytes, Last, Front

\* A part of a stream that arrived, and the rest.
Splits(all, a, b) ==
    \E n \in 1 .. Len(all) : a = SubSeq(all, 1, n) /\ b = SubSeq(all, n + 1, Len(all))

LEMMA Arrives ==
    ASSUME NEW a \in Seq(Byte) \ {<< >>}, NEW b \in Seq(Byte), NEW all, all = a \o b
    PROVE  Splits(all, a, b)
<1>1. Len(a) \in 1 .. Len(a \o b)
  OBVIOUS
<1>2. a = SubSeq(a \o b, 1, Len(a))
  OBVIOUS
<1>3. b = SubSeq(a \o b, Len(a) + 1, Len(a \o b))
  <2>. DEFINE c == SubSeq(a \o b, Len(a) + 1, Len(a \o b))
  <2>1. c \in Seq(Byte) /\ Len(c) = Len(b)
    OBVIOUS
  <2>2. \A i \in 1 .. Len(b) : b[i] = c[i]
    OBVIOUS
  <2>. QED BY <2>1, <2>2, SeqEqual
<1>. QED BY <1>1, <1>2, <1>3 DEF Splits

LEMMA PrefixOf == ASSUME NEW a \in Seq(Byte), NEW b \in Seq(Byte) PROVE IsPrefix(a, a \o b)
<1>1. SubSeq(a \o b, 1, Len(a)) = SubSeq(a, 1, Len(a)) /\ Len(a) <= Len(a \o b)
  OBVIOUS
<1>. QED BY <1>1 DEF IsPrefix

\* The numbered bytes, and some more of them.
LEMMA MoreNumbers ==
    ASSUME NEW n \in Nat, NEW k \in Nat \ {0}
    PROVE  /\ Numbers(1, n) \in Seq(Byte) /\ Len(Numbers(1, n)) = n
           /\ Numbers(n + 1, n + k) \in Seq(Byte) \ {<< >>}
           /\ Numbers(1, n) \o Numbers(n + 1, n + k) = Numbers(1, n + k)
<1>1. /\ Numbers(1, n) = [i \in 1 .. n |-> i]
      /\ Numbers(n + 1, n + k) = [i \in 1 .. k |-> n + i]
      /\ Numbers(1, n + k) = [i \in 1 .. n + k |-> i]
  <2>1. Numbers(1, n) = [i \in 1 .. n |-> i]
    <3>1. n - 1 + 1 = n /\ \A i \in 1 .. n : 1 + i - 1 = i
      OBVIOUS
    <3>. QED BY <3>1 DEF Numbers
  <2>2. Numbers(n + 1, n + k) = [i \in 1 .. k |-> n + i]
    <3>1. n + k - (n + 1) + 1 = k /\ \A i \in 1 .. k : n + 1 + i - 1 = n + i
      OBVIOUS
    <3>. QED BY <3>1 DEF Numbers
  <2>3. Numbers(1, n + k) = [i \in 1 .. n + k |-> i]
    <3>1. n + k - 1 + 1 = n + k /\ \A i \in 1 .. n + k : 1 + i - 1 = i
      OBVIOUS
    <3>. QED BY <3>1 DEF Numbers
  <2>. QED BY <2>1, <2>2, <2>3
<1>. DEFINE a == [i \in 1 .. n |-> i]
            b == [i \in 1 .. k |-> n + i]
            c == [i \in 1 .. n + k |-> i]
<1>2. /\ a \in Seq(Byte) /\ Len(a) = n
      /\ b \in Seq(Byte) /\ Len(b) = k
      /\ c \in Seq(Byte) /\ Len(c) = n + k
  BY DEF Byte
<1>3. a \o b \in Seq(Byte) /\ Len(a \o b) = n + k
  BY <1>2
<1>4. ASSUME NEW i \in 1 .. n + k PROVE (a \o b)[i] = c[i]
  <2>1. CASE i <= n
    BY <1>2, <2>1
  <2>2. CASE i > n
    <3>1. (a \o b)[i] = b[i - n] /\ i - n \in 1 .. k
      BY <1>2, <2>2
    <3>. QED BY <3>1
  <2>. QED BY <2>1, <2>2
<1>. HIDE DEF a, b, c
<1>5. a \o b = c
  BY <1>2, <1>3, <1>4, SeqEqual
<1>6. b # << >>
  BY <1>2
<1>. QED BY <1>1, <1>2, <1>5, <1>6 DEF a, b, c
-----------------------------------------------------------------------------
(* The invariant *)

Working == {"select", "write_tcp", "send_ws", "send_close", "shutdown"}

\* A stream of bytes, perhaps with its end.
Queue(q) ==
    \/ q \in Seq(Byte)
    \/ \E b \in Seq(Byte), end \in {Eof, Reset} : q = Append(b, end)

PeersTyped ==
    /\ client \in [sent : Nat, pings : Nat, closed : BOOLEAN, got : Seq(Byte),
                   saw_close : BOOLEAN]
    /\ upstream \in [echo : BOOLEAN, sent : Nat, closed : BOOLEAN, got : Seq(Byte),
                     saw_eof : BOOLEAN]

QueuesTyped ==
    /\ ws_in \in Seq(Messages) /\ ws_out \in Seq(Messages)
    /\ Queue(tcp_in) /\ Queue(tcp_out)

\* What each await has to write.
LoopTyped ==
    /\ pc \in Working \cup Ended
    /\ pc = "write_tcp" => pending \in Seq(Byte) \ {<< >>}
    /\ pc = "send_ws" => \E m \in Messages : m.kind # "Close" /\ pending = <<m>>
    /\ pc = "send_close" => pending = <<Control("Close")>>

Typed == PeersTyped /\ QueuesTyped /\ LoopTyped

\* The end of a stream is the last thing in it, and the loop ends the other stream only
\* when it is left.
EndsOK ==
    /\ \A i \in 1 .. Len(ws_in) :
          ws_in[i].kind \in {"Close", "eof", "error"} => client.closed /\ i = Len(ws_in)
    /\ ~upstream.closed => tcp_in \in Seq(Byte)
    /\ pc = "shutdown" => client.closed /\ ws_in = << >>
    /\ pc = "send_close" => upstream.closed /\ tcp_in = << >>
    /\ pc \in Working =>
          /\ tcp_out \in Seq(Byte)
          /\ ~upstream.saw_eof /\ ~client.saw_close
          /\ \A i \in 1 .. Len(ws_out) : ws_out[i].kind # "Close"

\* While the loop runs, what arrived and what is on its way are all that was sent.
StreamsOK ==
    /\ upstream.echo => upstream.sent = Len(upstream.got)
    /\ pc \in Working => upstream.got \o UpstreamTransit = Numbers(1, client.sent)
    /\ pc \in Working => client.got \o ClientTransit = Numbers(1, upstream.sent)

\* After a shutdown the upstream gets everything and the end, or a reset.
UpstreamEnd ==
    \/ \E b \in Seq(Byte) :
          /\ tcp_out = Append(b, Eof) /\ ~upstream.saw_eof
          /\ upstream.got \o b = Numbers(1, client.sent)
    \/ \E b \in Seq(Byte) : tcp_out = Append(b, Reset) /\ ~upstream.saw_eof
    \/ tcp_out = << >> /\ upstream.saw_eof /\ upstream.got = Numbers(1, client.sent)

\* A Close is followed by the end of the connection only, and everything came before it.
ClientEnd ==
    /\ \A i \in 1 .. Len(ws_out) : ws_out[i].kind = "Close" =>
          /\ i = Len(ws_out) - 1 /\ ws_out[Len(ws_out)].bytes = << >>
          /\ upstream.closed /\ client.got \o Payload(ws_out) = Numbers(1, upstream.sent)
    /\ client.saw_close =>
          /\ upstream.closed /\ client.got = Numbers(1, upstream.sent)
          /\ \A i \in 1 .. Len(ws_out) : ws_out[i].bytes = << >>

AfterEnd ==
    /\ pc = "done" /\ ~upstream.closed => client.closed /\ UpstreamEnd
    /\ pc \in Ended => ClientEnd

Inv == Typed /\ EndsOK /\ StreamsOK /\ AfterEnd

-----------------------------------------------------------------------------
(* The operations of the loop *)

LEMMA MessageTypes ==
    /\ \A kind \in Kinds : kind # "Binary" => Control(kind) \in Messages
    /\ \A b \in Seq(Byte) \ {<< >>} : Data(b) \in Messages /\ Data(b).bytes = b
    /\ \A kind : Control(kind).bytes = << >> /\ Control(kind).kind = kind
    /\ \A b : Data(b).kind = "Binary"
    /\ \A m \in Messages : m.bytes \in Seq(Byte) /\ m.kind \in Kinds
    /\ \A m \in Messages : m.kind # "Binary" => m.bytes = << >>
    /\ \A m \in Messages : m.kind = "Binary" => m.bytes # << >>
<1>1. \A kind : Control(kind).bytes = << >> /\ Control(kind).kind = kind
  BY DEF Control
<1>2. \A b : Data(b).kind = "Binary" /\ Data(b).bytes = b
  BY DEF Data
<1>3. ASSUME NEW kind \in Kinds, kind # "Binary" PROVE Control(kind) \in Messages
  BY <1>3 DEF Control, Messages, Kinds
<1>4. ASSUME NEW b \in Seq(Byte) \ {<< >>} PROVE Data(b) \in Messages
  BY DEF Data, Messages, Kinds
<1>5. \A m \in Messages : /\ m.bytes \in Seq(Byte) /\ m.kind \in Kinds
                          /\ m.kind = "Binary" <=> m.bytes # << >>
  BY DEF Messages
<1>. QED BY <1>1, <1>2, <1>3, <1>4, <1>5

\* What is left of a stream of bytes when its socket is dropped.
LEMMA DropTcp ==
    ASSUME NEW q \in Seq(Byte), NEW unread, NEW r \in Dropped(q, unread, Eof, Reset)
    PROVE  \E b \in Seq(Byte), rest \in Seq(Byte), end \in {Eof, Reset} :
               r = Append(b, end) /\ q = b \o rest /\ (end = Eof => b = q)
<1>1. CASE r = Append(q, Eof)
  <2>1. q = q \o << >> /\ << >> \in Seq(Byte)
    BY EmptyEnds
  <2>. QED BY <1>1, <2>1
<1>2. CASE \E n \in 0 .. Len(q) : r = Append(SubSeq(q, 1, n), Reset)
  <2>1. PICK n \in 0 .. Len(q) : r = Append(SubSeq(q, 1, n), Reset)
    BY <1>2
  <2>. DEFINE a == SubSeq(q, 1, n)
              b == SubSeq(q, n + 1, Len(q))
  <2>2. a \in Seq(Byte) /\ b \in Seq(Byte) /\ q = a \o b
    BY Halves
  <2>3. Reset # Eof
    BY DEF Reset, Eof
  <2>. HIDE DEF b
  <2>. QED BY <2>1, <2>2, <2>3
<1>. QED BY <1>1, <1>2 DEF Dropped

\* What is left of a row of messages.
LEMMA DropWs ==
    ASSUME NEW q \in Seq(Messages), NEW unread,
           NEW r \in Dropped(q, unread, Control("eof"), Control("error"))
    PROVE  /\ \E n \in 0 .. Len(q), end \in {"eof", "error"} :
                 r = Append(SubSeq(q, 1, n), Control(end))
           /\ r \in Seq(Messages)
           /\ \E rest \in Seq(Byte) : Payload(q) = Payload(r) \o rest
<1>1. PICK n \in 0 .. Len(q), end \in {"eof", "error"} :
             r = Append(SubSeq(q, 1, n), Control(end))
  <2>1. CASE r = Append(q, Control("eof"))
    <3>1. q = SubSeq(q, 1, Len(q)) /\ Len(q) \in 0 .. Len(q)
      OBVIOUS
    <3>. QED BY <2>1, <3>1
  <2>2. CASE \E n \in 0 .. Len(q) : r = Append(SubSeq(q, 1, n), Control("error"))
    BY <2>2
  <2>. QED BY <2>1, <2>2 DEF Dropped
<1>2. SubSeq(q, 1, n) \in Seq(Messages)
  OBVIOUS
<1>3. Control(end) \in Messages /\ Control(end).bytes = << >>
  <2>1. end \in Kinds /\ end # "Binary"
    BY DEF Kinds
  <2>. QED BY <2>1, MessageTypes
<1>4. Payload(SubSeq(q, 1, n)) \in Seq(Byte)
  BY <1>2, PayloadType
<1>5. Payload(r) = Payload(SubSeq(q, 1, n)) \o << >>
  BY <1>1, <1>2, <1>3, PayloadAppend
<1>6. Payload(r) = Payload(SubSeq(q, 1, n))
  BY <1>4, <1>5, EmptyEnds
<1>7. \E rest \in Seq(Byte) : Payload(q) = Payload(r) \o rest
  BY <1>6, PayloadPrefix
<1>8. r \in Seq(Messages)
  BY <1>1, <1>2, <1>3
<1>. QED BY <1>1, <1>7, <1>8

\* The head of a stream of bytes with its end.
LEMMA QueueHead ==
    ASSUME NEW q, Queue(q), q # << >>
    PROVE  /\ Head(q) \in Byte \cup {Eof, Reset} /\ Queue(Tail(q))
           /\ Head(q) \in {Eof, Reset} => q = <<Head(q)>> /\ Tail(q) = << >> /\ Bytes(q) = << >>
           /\ Head(q) \in Byte => Bytes(q) = <<Head(q)>> \o Bytes(Tail(q))
           /\ Bytes(q) \in Seq(Byte) /\ Bytes(Tail(q)) \in Seq(Byte)
           /\ q \in Seq(Byte) => Tail(q) \in Seq(Byte)
<1>0. << >> \in Seq(Byte) /\ Byte \cap {Eof, Reset} = {}
  BY DEF Byte, Eof, Reset
<1>1. CASE q \in Seq(Byte)
  <2>1. Head(q) \in Byte /\ Tail(q) \in Seq(Byte) /\ q = <<Head(q)>> \o Tail(q)
    BY <1>1
  <2>2. Bytes(q) = q /\ Bytes(Tail(q)) = Tail(q)
    BY <1>1, <2>1, BytesOf
  <2>. QED BY <1>0, <1>1, <2>1, <2>2 DEF Queue
<1>2. CASE \E b \in Seq(Byte), end \in {Eof, Reset} : q = Append(b, end)
  <2>1. PICK b \in Seq(Byte), end \in {Eof, Reset} : q = Append(b, end)
    BY <1>2
  <2>2. Bytes(q) = b
    BY <2>1, BytesOf
  <2>3. q \notin Seq(Byte)
    <3>1. Len(q) = Len(b) + 1 /\ q[Len(b) + 1] = end /\ Len(b) + 1 \in 1 .. Len(b) + 1
      BY <2>1 DEF Eof, Reset
    <3>. QED BY <1>0, <3>1
  <2>4. CASE b = << >>
    <3>1. q = <<end>> /\ Head(q) = end /\ Tail(q) = << >>
      BY <2>1, <2>4
    <3>2. Bytes(Tail(q)) = << >>
      BY <1>0, <3>1, BytesOf
    <3>. QED BY <1>0, <2>2, <2>3, <2>4, <3>1, <3>2 DEF Queue
  <2>5. CASE b # << >>
    <3>1. Head(b) \in Byte /\ Tail(b) \in Seq(Byte) /\ b = <<Head(b)>> \o Tail(b)
      BY <2>5
    <3>2. Head(q) = Head(b) /\ Tail(q) = Append(Tail(b), end)
      BY <2>1, <2>5 DEF Eof, Reset
    <3>3. Bytes(Tail(q)) = Tail(b)
      BY <3>1, <3>2, BytesOf
    <3>. QED BY <1>0, <2>2, <2>3, <3>1, <3>2, <3>3 DEF Queue
  <2>. QED BY <2>4, <2>5
<1>. QED BY <1>1, <1>2 DEF Queue
\* What the last step of the loop leaves in the sockets.
LEMMA FinishFacts ==
    ASSUME tcp_out \in Seq(Byte), NEW how, NEW toClient \in Seq(Messages),
           Finish(how, toClient, tcp_out)
    PROVE  /\ pc' = how /\ ws_out' \in Seq(Messages)
           /\ \E n \in 0 .. Len(toClient), end \in {"eof", "error"} :
                 ws_out' = Append(SubSeq(toClient, 1, n), Control(end))
           /\ \E rest \in Seq(Byte) : Payload(toClient) = Payload(ws_out') \o rest
           /\ \E b \in Seq(Byte), rest \in Seq(Byte), end \in {Eof, Reset} :
                 /\ tcp_out' = Append(b, end) /\ tcp_out = b \o rest
                 /\ end = Eof => b = tcp_out
<1>1. PICK unread : ws_out' \in Dropped(toClient, unread, Control("eof"), Control("error"))
  BY DEF Finish
<1>2. PICK more : tcp_out' \in Dropped(tcp_out, more, Eof, Reset)
  BY DEF Finish
<1>3. pc' = how
  BY DEF Finish
<1>4. /\ ws_out' \in Seq(Messages)
      /\ \E n \in 0 .. Len(toClient), end \in {"eof", "error"} :
            ws_out' = Append(SubSeq(toClient, 1, n), Control(end))
      /\ \E rest \in Seq(Byte) : Payload(toClient) = Payload(ws_out') \o rest
  BY <1>1, DropWs, ZenonT(30)
<1>5. \E b \in Seq(Byte), rest \in Seq(Byte), end \in {Eof, Reset} :
         /\ tcp_out' = Append(b, end) /\ tcp_out = b \o rest
         /\ end = Eof => b = tcp_out
  BY <1>2, DropTcp
<1>. QED BY <1>3, <1>4, <1>5

\* The step that leaves the loop with this in the client's socket.
Leaves(toClient) ==
    /\ pc \in Working /\ pc' \in Ended
    /\ Finish(pc', toClient, tcp_out)
    /\ UNCHANGED <<client, upstream>>
    /\ pc' = "done" => pc \in {"send_close", "shutdown"}
    /\ \/ toClient = ws_out
       \/ pc = "send_close" /\ pc' = "done" /\ toClient = ws_out \o pending
    /\ \/ UNCHANGED <<ws_in, tcp_in>>
       \/ pc = "select" /\ ws_in # << >> /\ ws_in' = Tail(ws_in) /\ tcp_in' = tcp_in
       \/ pc = "select" /\ tcp_in # << >> /\ tcp_in' = Tail(tcp_in) /\ ws_in' = ws_in

\* A step of the task, taken apart.
LEMMA LoopStep ==
    ASSUME Loop
    PROVE  \/ \E toClient \in {ws_out, ws_out \o pending} : Leaves(toClient)
           \/ /\ pc = "select" /\ ws_in # << >> /\ ws_in' = Tail(ws_in)
              /\ \/ Head(ws_in).kind = "Binary" /\ Await("write_tcp", Head(ws_in).bytes)
                 \/ Head(ws_in).kind = "Ping" /\ Await("send_ws", <<Control("Pong")>>)
                 \/ Head(ws_in).kind = "Pong" /\ Await("select", << >>)
                 \/ Head(ws_in).kind \in {"Close", "eof"} /\ Await("shutdown", << >>)
              /\ UNCHANGED <<ws_out, tcp_out, tcp_in, client, upstream>>
           \/ /\ pc = "select" /\ tcp_in # << >> /\ Head(tcp_in) > 0
              /\ tcp_in' = SubSeq(tcp_in, Available + 1, Len(tcp_in))
              /\ Await("send_ws", <<Data(Chunk)>>)
              /\ UNCHANGED <<ws_in, ws_out, tcp_out, client, upstream>>
           \/ /\ pc = "select" /\ tcp_in # << >> /\ Head(tcp_in) = Eof
              /\ tcp_in' = Tail(tcp_in)
              /\ Await("send_close", <<Control("Close")>>)
              /\ UNCHANGED <<ws_in, ws_out, tcp_out, client, upstream>>
           \/ WriteUpstream
           \/ /\ pc = "send_ws" /\ ws_out' = ws_out \o pending /\ Await("select", << >>)
              /\ UNCHANGED <<ws_in, tcp_in, tcp_out, client, upstream>>
<1>. USE DEF Leaves, Working, Ended
<1>1. CASE ReadWebsocket
  <2>1. CASE Finish("failed", ws_out, tcp_out)
    <3>1. pc' = "failed"
      BY <2>1 DEF Finish
    <3>2. Leaves(ws_out)
      BY <1>1, <2>1, <3>1 DEF ReadWebsocket
    <3>. QED BY <3>2
  <2>. QED BY <1>1, <2>1 DEF ReadWebsocket
<1>2. CASE ReadUpstream
  <2>1. CASE Finish("failed", ws_out, tcp_out) /\ tcp_in' = Tail(tcp_in)
    <3>1. pc' = "failed"
      BY <2>1 DEF Finish
    <3>2. Leaves(ws_out)
      BY <1>2, <2>1, <3>1 DEF ReadUpstream
    <3>. QED BY <3>2
  <2>. QED BY <1>2, <2>1 DEF ReadUpstream, AtEnd
<1>3. CASE SendWebsocket
  <2>1. CASE Finish("done", ws_out \o pending, tcp_out) /\ pc = "send_close"
    <3>1. pc' = "done"
      BY <2>1 DEF Finish
    <3>2. Leaves(ws_out \o pending)
      BY <1>3, <2>1, <3>1 DEF SendWebsocket
    <3>. QED BY <3>2
  <2>. QED BY <1>3, <2>1 DEF SendWebsocket
<1>4. CASE ShutdownUpstream
  <2>1. Finish("done", ws_out, tcp_out) /\ pc' = "done"
    BY <1>4 DEF ShutdownUpstream, AfterShutdown, Finish
  <2>2. Leaves(ws_out)
    BY <1>4, <2>1 DEF ShutdownUpstream
  <2>. QED BY <2>2
<1>5. CASE WriteFails
  <2>1. \/ Finish("failed", ws_out, tcp_out) /\ pc' = "failed"
        \/ Finish("done", ws_out, tcp_out) /\ pc' = "done" /\ pc = "send_close"
    BY <1>5 DEF WriteFails, Finish
  <2>2. pc \in Working /\ UNCHANGED <<ws_in, tcp_in, client, upstream>>
    BY <1>5 DEF WriteFails
  <2>3. Leaves(ws_out)
    BY <2>1, <2>2
  <2>. QED BY <2>3
<1>. QED BY <1>1, <1>2, <1>3, <1>4, <1>5 DEF Loop
LEMMA EndOfAppend ==
    ASSUME NEW b \in Seq(Int), NEW end \in Int, NEW n \in Nat, n <= Len(b)
    PROVE  SubSeq(Append(b, end), n + 1, Len(b) + 1) = Append(SubSeq(b, n + 1, Len(b)), end)
<1>. DEFINE whole == Append(b, end)
            l == SubSeq(whole, n + 1, Len(b) + 1)
            part == SubSeq(b, n + 1, Len(b))
            r == Append(part, end)
<1>1. whole \in Seq(Int) /\ Len(whole) = Len(b) + 1
  OBVIOUS
<1>2. part \in Seq(Int) /\ Len(part) = Len(b) - n /\ \A i \in 1 .. Len(b) - n : part[i] = b[n + i]
  OBVIOUS
<1>3. l \in Seq(Int) /\ Len(l) = Len(b) - n + 1
  BY <1>1
<1>4. ASSUME NEW i \in 1 .. Len(b) - n + 1 PROVE l[i] = whole[n + i]
  <2>1. /\ n + 1 \in Int /\ Len(b) + 1 \in Int
        /\ i \in 1 .. (Len(b) + 1) - (n + 1) + 1 /\ (n + 1) + i - 1 = n + i
    OBVIOUS
  <2>2. \A j \in n + 1 .. Len(b) + 1 : whole[j] \in Int
    BY <1>1
  <2>. HIDE DEF whole
  <2>3. \A j \in 1 .. (Len(b) + 1) - (n + 1) + 1 : l[j] = whole[(n + 1) + j - 1]
    BY <1>1, <2>1, <2>2, SubSeqProperties, SMTT(30)
  <2>4. l[i] = whole[(n + 1) + i - 1]
    BY <2>1, <2>3, Zenon
  <2>. QED BY <2>1, <2>4, Zenon
<1>. HIDE DEF part, l
<1>5. r \in Seq(Int) /\ Len(r) = Len(b) - n + 1
  BY <1>2
<1>6. ASSUME NEW i \in 1 .. Len(b) - n + 1 PROVE l[i] = r[i]
  <2>1. CASE i <= Len(b) - n
    <3>1. l[i] = b[n + i]
      BY <1>4, <2>1, SMTT(30)
    <3>2. r[i] = part[i]
      BY <1>2, <2>1
    <3>. QED BY <1>2, <2>1, <3>1, <3>2
  <2>2. CASE i = Len(b) - n + 1
    <3>1. l[i] = end
      BY <1>4, <2>2
    <3>2. r[i] = end
      BY <1>2, <2>2
    <3>. QED BY <3>1, <3>2
  <2>3. Len(b) \in Nat /\ i \in Nat
    OBVIOUS
  <2>4. i <= Len(b) - n \/ i = Len(b) - n + 1
    BY <2>3
  <2>. QED BY <2>1, <2>2, <2>4
<1>. HIDE DEF r
<1>7. l = r
  BY <1>3, <1>5, <1>6, SeqEqual
<1>. QED BY <1>7 DEF l, r, part

\* What one read from the upstream takes.
LEMMA ChunkFacts ==
    ASSUME Queue(tcp_in), tcp_in # << >>, Head(tcp_in) > 0,
           NEW rest, rest = SubSeq(tcp_in, Available + 1, Len(tcp_in))
    PROVE  /\ Chunk \in Seq(Byte) \ {<< >>}
           /\ Queue(rest) /\ Bytes(rest) \in Seq(Byte)
           /\ Bytes(tcp_in) = Chunk \o Bytes(rest)
           /\ tcp_in \in Seq(Byte) => rest \in Seq(Byte)
<1>. DEFINE b == Bytes(tcp_in)
            n == Available
<1>1. /\ b \in Seq(Byte) /\ Len(b) \in Nat \ {0}
  <2>0. Head(tcp_in) \in Byte \cup {Eof, Reset}
    BY QueueHead
  <2>1. Head(tcp_in) \in Byte
    BY <2>0 DEF Eof, Reset
  <2>2. b = <<Head(tcp_in)>> \o Bytes(Tail(tcp_in)) /\ Bytes(Tail(tcp_in)) \in Seq(Byte)
        /\ b \in Seq(Byte)
    BY <2>1, QueueHead
  <2>3. Len(<<Head(tcp_in)>> \o Bytes(Tail(tcp_in))) = 1 + Len(Bytes(Tail(tcp_in)))
    BY <2>1, <2>2
  <2>4. Len(Bytes(Tail(tcp_in))) \in Nat
    BY <2>2
  <2>5. Len(b) = 1 + Len(Bytes(Tail(tcp_in)))
    BY <2>2, <2>3
  <2>. HIDE DEF b
  <2>. QED BY <2>2, <2>4, <2>5
<1>2. n \in 1 .. Len(b)
  BY <1>1, ProxyTcpAssumption DEF Available
<1>. HIDE DEF b, n
<1>3. /\ SubSeq(b, 1, n) \in Seq(Byte) /\ Len(SubSeq(b, 1, n)) = n
      /\ SubSeq(b, n + 1, Len(b)) \in Seq(Byte)
      /\ b = SubSeq(b, 1, n) \o SubSeq(b, n + 1, Len(b))
  <2>1. n \in 0 .. Len(b)
    BY <1>1, <1>2
  <2>. QED BY <1>1, <2>1, Halves
<1>4. SubSeq(b, 1, n) # << >>
  BY <1>2, <1>3
<1>5. CASE tcp_in \in Seq(Byte)
  <2>1. b = tcp_in
    BY <1>5, BytesOf DEF b
  <2>2. Chunk = SubSeq(b, 1, n) /\ rest = SubSeq(b, n + 1, Len(b))
    BY <2>1 DEF Chunk, n
  <2>3. Bytes(rest) = rest
    BY <1>3, <2>2, BytesOf
  <2>. QED BY <1>3, <1>4, <2>2, <2>3 DEF b, Queue
<1>6. CASE \E c \in Seq(Byte), end \in {Eof, Reset} : tcp_in = Append(c, end)
  <2>1. PICK end \in {Eof, Reset} : tcp_in = Append(b, end)
    BY <1>6, BytesOf DEF b
  <2>2. Chunk = SubSeq(b, 1, n)
    BY <1>1, <1>2, <2>1 DEF Chunk, n
  <2>. DEFINE c == SubSeq(b, n + 1, Len(b))
  <2>3. rest = Append(c, end)
    <3>1. n \in Nat /\ n <= Len(b) /\ end \in Int /\ b \in Seq(Int)
      BY <1>1, <1>2 DEF Eof, Reset, Byte
    <3>2. Len(Append(b, end)) = Len(b) + 1
      BY <3>1
    <3>3. rest = SubSeq(Append(b, end), n + 1, Len(b) + 1)
      BY <2>1, <3>2 DEF n
    <3>. QED BY <3>1, <3>3, EndOfAppend
  <2>4. Bytes(rest) = c
    BY <1>3, <2>3, BytesOf
  <2>5. tcp_in \notin Seq(Byte)
    <3>1. b \in Seq(Int) /\ end \in Int
      BY <1>1 DEF Eof, Reset, Byte
    <3>2. Len(tcp_in) = Len(b) + 1 /\ tcp_in[Len(b) + 1] = end /\ Len(b) + 1 \in 1 .. Len(b) + 1
      BY <2>1, <3>1
    <3>3. end \notin Byte
      BY DEF Eof, Reset, Byte
    <3>. QED BY <3>2, <3>3
  <2>. QED BY <1>3, <1>4, <2>2, <2>3, <2>4, <2>5 DEF b, Queue
<1>. QED BY <1>5, <1>6 DEF Queue

\* The peers, by action.
LEMMA PeersTypedStep == Inv /\ [Next]_vars => PeersTyped'
<1>. SUFFICES ASSUME Inv, [Next]_vars PROVE PeersTyped'
  OBVIOUS
<1>. USE DEF Inv, Typed, PeersTyped
<1>1. CASE ClientSend
  <2>1. PICK n \in 1 .. MaxMessage : client' = [client EXCEPT !.sent = @ + n]
    BY <1>1 DEF ClientSend
  <2>2. client.sent + n \in Nat /\ upstream' = upstream
    BY <1>1, ProxyTcpAssumption, SMTT(30) DEF ClientSend
  <2>. QED BY <2>1, <2>2
<1>2. CASE ClientPing
  <2>1. client.pings + 1 \in Nat
    OBVIOUS
  <2>. QED BY <1>2, <2>1 DEF ClientPing
<1>3. CASE ClientClose
  BY <1>3 DEF ClientClose
<1>4. CASE ClientReceive
  <2>1. Head(ws_out).bytes \in Seq(Byte)
    BY <1>4, MessageTypes DEF ClientReceive, QueuesTyped
  <2>2. client.got \o Head(ws_out).bytes \in Seq(Byte)
    BY <2>1
  <2>3. (client.saw_close \/ Head(ws_out).kind = "Close") \in BOOLEAN
    OBVIOUS
  <2>. QED BY <1>4, <2>2, <2>3 DEF ClientReceive
<1>5. CASE UpstreamSend
  <2>1. upstream.sent + 1 \in Nat
    OBVIOUS
  <2>. QED BY <1>5, <2>1 DEF UpstreamSend
<1>6. CASE UpstreamClose
  BY <1>6 DEF UpstreamClose
<1>7. CASE UpstreamReceive
  <2>1. Head(tcp_out) \in Byte \cup {Eof, Reset}
    BY <1>7, QueueHead DEF UpstreamReceive, QueuesTyped
  <2>2. ASSUME Head(tcp_out) > 0 PROVE Append(upstream.got, Head(tcp_out)) \in Seq(Byte)
    <3>1. Head(tcp_out) \in Byte
      BY <2>1, <2>2 DEF Eof, Reset
    <3>. QED BY <3>1
  <2>3. \/ upstream' = [upstream EXCEPT !.saw_eof = TRUE]
        \/ upstream' = [upstream EXCEPT !.closed = TRUE]
        \/ /\ Head(tcp_out) > 0
           /\ upstream' = [upstream EXCEPT !.sent = @ + 1, !.got = Append(@, Head(tcp_out))]
        \/ /\ Head(tcp_out) > 0
           /\ upstream' = [upstream EXCEPT !.got = Append(@, Head(tcp_out))]
    BY <1>7 DEF UpstreamReceive
  <2>4. client' = client
    BY <1>7 DEF UpstreamReceive
  <2>5. CASE upstream' = [upstream EXCEPT !.saw_eof = TRUE]
    BY <2>4, <2>5
  <2>6. CASE upstream' = [upstream EXCEPT !.closed = TRUE]
    BY <2>4, <2>6
  <2>7. CASE /\ Head(tcp_out) > 0
             /\ upstream' = [upstream EXCEPT !.sent = @ + 1, !.got = Append(@, Head(tcp_out))]
    <3>1. upstream.sent + 1 \in Nat
      OBVIOUS
    <3>. QED BY <2>2, <2>4, <2>7, <3>1
  <2>8. CASE /\ Head(tcp_out) > 0
             /\ upstream' = [upstream EXCEPT !.got = Append(@, Head(tcp_out))]
    BY <2>2, <2>4, <2>8
  <2>. QED BY <2>3, <2>5, <2>6, <2>7, <2>8
<1>8. CASE UNCHANGED <<client, upstream>>
  BY <1>8
<1>9. Loop => UNCHANGED <<client, upstream>>
  BY LoopStep DEF Leaves, WriteUpstream
<1>. QED BY <1>1, <1>2, <1>3, <1>4, <1>5, <1>6, <1>7, <1>8, <1>9 DEF Next, vars
\* What the step that leaves the loop puts into the sockets.
LEMMA LeaveFacts ==
    ASSUME Inv, NEW toClient, Leaves(toClient)
    PROVE  /\ toClient \in Seq(Messages) /\ Payload(toClient) = Payload(ws_out)
           /\ ws_out' \in Seq(Messages)
           /\ \E n \in 0 .. Len(toClient), end \in {"eof", "error"} :
                 ws_out' = Append(SubSeq(toClient, 1, n), Control(end))
           /\ \E rest \in Seq(Byte) : Payload(ws_out) = Payload(ws_out') \o rest
           /\ \E b \in Seq(Byte), rest \in Seq(Byte), end \in {Eof, Reset} :
                 /\ tcp_out' = Append(b, end) /\ tcp_out = b \o rest
                 /\ end = Eof => b = tcp_out
<1>1. ws_out \in Seq(Messages) /\ tcp_out \in Seq(Byte) /\ Payload(ws_out) \in Seq(Byte)
  BY PayloadType DEF Inv, Typed, QueuesTyped, EndsOK, Leaves
<1>2. toClient \in Seq(Messages) /\ Payload(toClient) = Payload(ws_out)
  <2>1. CASE toClient = ws_out
    BY <1>1, <2>1
  <2>2. CASE pc = "send_close" /\ toClient = ws_out \o pending
    <3>1. Control("Close") \in Messages /\ Control("Close").bytes = << >>
      <4>1. "Close" \in Kinds /\ "Close" # "Binary"
        BY DEF Kinds
      <4>. QED BY <4>1, MessageTypes
    <3>2. toClient = Append(ws_out, Control("Close"))
      <4>1. toClient = ws_out \o <<Control("Close")>>
        BY <2>2 DEF Inv, Typed, LoopTyped
      <4>. HIDE DEF Control
      <4>. QED BY <1>1, <3>1, <4>1
    <3>3. Payload(toClient) = Payload(ws_out) \o << >>
      BY <1>1, <3>1, <3>2, PayloadAppend
    <3>. QED BY <1>1, <3>1, <3>2, <3>3, EmptyEnds
  <2>. QED BY <2>1, <2>2 DEF Leaves
<1>3. Finish(pc', toClient, tcp_out)
  BY DEF Leaves
<1>. QED BY <1>1, <1>2, <1>3, FinishFacts

LEMMA ControlTypes ==
    \A kind \in {"Ping", "Pong", "Close", "eof", "error"} :
        /\ Control(kind) \in Messages /\ Control(kind).bytes = << >>
        /\ Control(kind).kind = kind
<1>. SUFFICES ASSUME NEW kind \in {"Ping", "Pong", "Close", "eof", "error"}
              PROVE  /\ Control(kind) \in Messages /\ Control(kind).bytes = << >>
                     /\ Control(kind).kind = kind
  OBVIOUS
<1>1. kind \in Kinds /\ kind # "Binary"
  BY DEF Kinds
<1>. QED BY <1>1, MessageTypes

\* The message that a client sends.
LEMMA SentMessage ==
    ASSUME Inv, NEW n \in 1 .. MaxMessage
    PROVE  LET m == Data(Numbers(client.sent + 1, client.sent + n))
           IN  /\ m \in Messages /\ m.kind = "Binary"
               /\ m.bytes = Numbers(client.sent + 1, client.sent + n)
<1>1. client.sent \in Nat /\ n \in Nat \ {0}
  BY ProxyTcpAssumption DEF Inv, Typed, PeersTyped
<1>2. Numbers(client.sent + 1, client.sent + n) \in Seq(Byte) \ {<< >>}
  BY <1>1, MoreNumbers
<1>. QED BY <1>2, MessageTypes

\* The queues, by action.
LEMMA QueuesTypedStep == Inv /\ [Next]_vars => QueuesTyped'
<1>. SUFFICES ASSUME Inv, [Next]_vars PROVE QueuesTyped'
  OBVIOUS
<1>. USE DEF Inv, Typed, QueuesTyped
<1>1. ASSUME NEW toClient, Leaves(toClient) PROVE QueuesTyped'
  <2>1. ws_out' \in Seq(Messages) /\ Queue(tcp_out')
    BY <1>1, LeaveFacts DEF Queue
  <2>2. ws_in' \in Seq(Messages)
    <3>1. ws_in' = ws_in \/ (ws_in # << >> /\ ws_in' = Tail(ws_in))
      BY <1>1 DEF Leaves
    <3>. QED BY <3>1
  <2>3. Queue(tcp_in')
    BY <1>1, QueueHead DEF Leaves
  <2>. QED BY <2>1, <2>2, <2>3
<1>2. CASE ws_in # << >> /\ ws_in' = Tail(ws_in) /\ UNCHANGED <<ws_out, tcp_out, tcp_in>>
  BY <1>2
<1>3. CASE /\ tcp_in # << >> /\ Head(tcp_in) > 0
           /\ tcp_in' = SubSeq(tcp_in, Available + 1, Len(tcp_in))
           /\ UNCHANGED <<ws_in, ws_out, tcp_out>>
  BY <1>3, ChunkFacts
<1>4. CASE tcp_in # << >> /\ tcp_in' = Tail(tcp_in) /\ UNCHANGED <<ws_in, ws_out, tcp_out>>
  BY <1>4, QueueHead
<1>5. CASE WriteUpstream
  <2>1. Head(pending) \in Byte /\ tcp_out \in Seq(Byte)
    BY <1>5 DEF WriteUpstream, LoopTyped, EndsOK, Working
  <2>2. Append(tcp_out, Head(pending)) \in Seq(Byte)
    BY <2>1
  <2>. QED BY <1>5, <2>2 DEF WriteUpstream, Queue
<1>6. CASE /\ pc = "send_ws" /\ ws_out' = ws_out \o pending
           /\ UNCHANGED <<ws_in, tcp_in, tcp_out>>
  <2>1. PICK m \in Messages : pending = <<m>>
    BY <1>6 DEF LoopTyped
  <2>. QED BY <1>6, <2>1
<1>7. CASE Loop
  BY <1>1, <1>2, <1>3, <1>4, <1>5, <1>6, <1>7, LoopStep
<1>8. CASE ClientSend
  <2>1. PICK n \in 1 .. MaxMessage :
               ws_in' = Append(ws_in, Data(Numbers(client.sent + 1, client.sent + n)))
    BY <1>8 DEF ClientSend
  <2>2. Data(Numbers(client.sent + 1, client.sent + n)) \in Messages
    BY SentMessage
  <2>. QED BY <1>8, <2>1, <2>2 DEF ClientSend
<1>9. CASE ClientPing \/ ClientClose
  <2>1. PICK kind \in {"Ping", "Pong", "Close", "eof", "error"} :
               ws_in' = Append(ws_in, Control(kind))
    BY <1>9 DEF ClientPing, ClientClose
  <2>2. Control(kind) \in Messages
    BY ControlTypes
  <2>3. UNCHANGED <<ws_out, tcp_in, tcp_out>>
    BY <1>9 DEF ClientPing, ClientClose
  <2>. QED BY <2>1, <2>2, <2>3
<1>10. CASE ClientReceive
  BY <1>10 DEF ClientReceive
<1>11. CASE UpstreamSend
  <2>1. tcp_in \in Seq(Byte) /\ upstream.sent + 1 \in Byte
    BY <1>11 DEF UpstreamSend, EndsOK, PeersTyped, Byte
  <2>2. Append(tcp_in, upstream.sent + 1) \in Seq(Byte)
    BY <2>1
  <2>. QED BY <1>11, <2>2 DEF UpstreamSend, Queue
<1>12. CASE UpstreamClose
  <2>1. tcp_in \in Seq(Byte)
    BY <1>12 DEF UpstreamClose, EndsOK
  <2>2. \E end \in {Eof, Reset} : tcp_in' = Append(tcp_in, end)
    BY <1>12 DEF UpstreamClose
  <2>3. Queue(tcp_in')
    BY <2>1, <2>2 DEF Queue
  <2>. QED BY <1>12, <2>3 DEF UpstreamClose
<1>13. CASE UpstreamReceive
  <2>1. tcp_out # << >> /\ tcp_out' = Tail(tcp_out) /\ UNCHANGED <<ws_in, ws_out>>
    BY <1>13 DEF UpstreamReceive
  <2>2. Head(tcp_out) \in Byte \cup {Eof, Reset} /\ Queue(Tail(tcp_out))
    BY <2>1, QueueHead
  <2>3. CASE tcp_in' = tcp_in
    BY <2>1, <2>2, <2>3
  <2>4. CASE /\ Head(tcp_out) > 0 /\ ~upstream.closed
             /\ tcp_in' = Append(tcp_in, Head(tcp_out))
    <3>1. Head(tcp_out) \in Byte /\ tcp_in \in Seq(Byte)
      BY <2>2, <2>4 DEF Eof, Reset, EndsOK
    <3>2. Append(tcp_in, Head(tcp_out)) \in Seq(Byte)
      BY <3>1
    <3>. QED BY <2>1, <2>2, <2>4, <3>2 DEF Queue
  <2>. QED BY <1>13, <2>3, <2>4 DEF UpstreamReceive
<1>14. CASE UNCHANGED vars
  BY <1>14 DEF vars
<1>. QED
  BY <1>7, <1>8, <1>9, <1>10, <1>11, <1>12, <1>13, <1>14 DEF Next

\* The loop, by action.
LEMMA LoopTypedStep == Inv /\ [Next]_vars => LoopTyped'
<1>. SUFFICES ASSUME Inv, [Next]_vars PROVE LoopTyped'
  OBVIOUS
<1>. USE DEF Inv, Typed, LoopTyped, Working, Ended
<1>1. ASSUME NEW toClient, Leaves(toClient) PROVE LoopTyped'
  BY <1>1 DEF Leaves
<1>2. CASE /\ pc = "select" /\ ws_in # << >>
           /\ \/ Head(ws_in).kind = "Binary" /\ Await("write_tcp", Head(ws_in).bytes)
              \/ Head(ws_in).kind = "Ping" /\ Await("send_ws", <<Control("Pong")>>)
              \/ Head(ws_in).kind = "Pong" /\ Await("select", << >>)
              \/ Head(ws_in).kind \in {"Close", "eof"} /\ Await("shutdown", << >>)
  <2>1. Head(ws_in) \in Messages
    BY <1>2 DEF QueuesTyped
  <2>2. Head(ws_in).kind = "Binary" => Head(ws_in).bytes \in Seq(Byte) \ {<< >>}
    BY <2>1, MessageTypes
  <2>3. Control("Pong") \in Messages /\ Control("Pong").kind # "Close"
    BY ControlTypes
  <2>. QED BY <1>2, <2>2, <2>3 DEF Await
<1>3. CASE /\ pc = "select" /\ tcp_in # << >> /\ Head(tcp_in) > 0
           /\ Await("send_ws", <<Data(Chunk)>>)
  <2>1. Chunk \in Seq(Byte) \ {<< >>}
    BY <1>3, ChunkFacts DEF QueuesTyped
  <2>2. Data(Chunk) \in Messages /\ Data(Chunk).kind # "Close"
    BY <2>1, MessageTypes
  <2>. QED BY <1>3, <2>2 DEF Await
<1>4. CASE Await("send_close", <<Control("Close")>>) \/ Await("select", << >>)
  BY <1>4 DEF Await
<1>5. CASE WriteUpstream
  <2>1. pending # << >> /\ pending \in Seq(Byte)
    BY <1>5 DEF WriteUpstream
  <2>2. Tail(pending) \in Seq(Byte)
    BY <2>1
  <2>. QED BY <1>5, <2>2 DEF WriteUpstream, Unwritten
<1>6. CASE Loop
  BY <1>1, <1>2, <1>3, <1>4, <1>5, <1>6, LoopStep
<1>7. CASE UNCHANGED router
  BY <1>7 DEF router
<1>. QED
  BY <1>6, <1>7 DEF Next, ClientSend, ClientPing, ClientClose, ClientReceive, UpstreamSend,
                    UpstreamClose, UpstreamReceive, vars, router
Closing == {"Close", "eof", "error"}

ClosesLast ==
    \A i \in 1 .. Len(ws_in) : ws_in[i].kind \in Closing => client.closed /\ i = Len(ws_in)

\* The client's end is the last of its messages.
LEMMA ClosesLastStep == Inv /\ [Next]_vars => ClosesLast'
<1>. SUFFICES ASSUME Inv, [Next]_vars PROVE ClosesLast'
  OBVIOUS
<1>. USE DEF Closing
<1>1. ClosesLast /\ ws_in \in Seq(Messages)
  BY DEF Inv, Typed, QueuesTyped, EndsOK, ClosesLast
<1>2. CASE ws_in # << >> /\ ws_in' = Tail(ws_in) /\ client'.closed = client.closed
  <2>1. /\ Len(ws_in') = Len(ws_in) - 1 /\ Len(ws_in) \in Nat
        /\ \A i \in 1 .. Len(ws_in') : ws_in'[i] = ws_in[i + 1] /\ i + 1 \in 1 .. Len(ws_in)
    BY <1>1, <1>2
  <2>2. ASSUME NEW i \in 1 .. Len(ws_in'), ws_in'[i].kind \in Closing
        PROVE  client'.closed /\ i = Len(ws_in')
    <3>1. i + 1 \in 1 .. Len(ws_in) /\ ws_in[i + 1].kind \in Closing
      BY <2>1, <2>2
    <3>2. client.closed /\ i + 1 = Len(ws_in)
      BY <1>1, <3>1 DEF ClosesLast
    <3>3. i \in Int
      OBVIOUS
    <3>4. i = Len(ws_in')
      BY <2>1, <3>2, <3>3
    <3>. QED BY <1>2, <3>2, <3>4
  <2>. QED BY <2>2 DEF ClosesLast
<1>3. ASSUME NEW m \in Messages, ws_in' = Append(ws_in, m), ~client.closed,
             m.kind \in Closing => client'.closed
      PROVE  ClosesLast'
  <2>1. /\ Len(ws_in') = Len(ws_in) + 1 /\ Len(ws_in) \in Nat /\ ws_in'[Len(ws_in) + 1] = m
        /\ \A i \in 1 .. Len(ws_in) : ws_in'[i] = ws_in[i]
    BY <1>1, <1>3
  <2>2. \A i \in 1 .. Len(ws_in) : ws_in[i].kind \notin Closing
    BY <1>1, <1>3 DEF ClosesLast
  <2>3. ASSUME NEW i \in 1 .. Len(ws_in'), ws_in'[i].kind \in Closing
        PROVE  client'.closed /\ i = Len(ws_in')
    <3>1. i \notin 1 .. Len(ws_in)
      BY <2>1, <2>2, <2>3
    <3>2. i = Len(ws_in) + 1
      BY <2>1, <3>1
    <3>. QED BY <1>3, <2>1, <2>3, <3>2
  <2>. QED BY <2>3 DEF ClosesLast
<1>4. CASE ws_in' = ws_in /\ client'.closed = client.closed
  BY <1>1, <1>4 DEF ClosesLast
<1>5. CASE Loop
  <2>1. client' = client
    BY <1>5, LoopStep DEF Leaves, WriteUpstream
  <2>2. ws_in' = ws_in \/ (ws_in # << >> /\ ws_in' = Tail(ws_in))
    BY <1>5, LoopStep DEF Leaves, WriteUpstream
  <2>. QED BY <1>2, <1>4, <2>1, <2>2
<1>6. CASE ClientSend
  <2>1. PICK n \in 1 .. MaxMessage :
               ws_in' = Append(ws_in, Data(Numbers(client.sent + 1, client.sent + n)))
    BY <1>6 DEF ClientSend
  <2>2. /\ Data(Numbers(client.sent + 1, client.sent + n)) \in Messages
        /\ Data(Numbers(client.sent + 1, client.sent + n)).kind = "Binary"
    BY SentMessage
  <2>3. ~client.closed
    BY <1>6 DEF ClientSend
  <2>. QED BY <1>3, <2>1, <2>2, <2>3
<1>7. CASE ClientPing
  <2>1. PICK kind \in {"Ping", "Pong"} : ws_in' = Append(ws_in, Control(kind))
    BY <1>7 DEF ClientPing
  <2>2. Control(kind) \in Messages /\ Control(kind).kind \notin Closing
    BY ControlTypes
  <2>3. ~client.closed
    BY <1>7 DEF ClientPing
  <2>. QED BY <1>3, <2>1, <2>2, <2>3
<1>8. CASE ClientClose
  <2>1. PICK kind \in {"Close", "eof", "error"} : ws_in' = Append(ws_in, Control(kind))
    BY <1>8 DEF ClientClose
  <2>2. Control(kind) \in Messages
    BY ControlTypes
  <2>3. ~client.closed /\ client'.closed
    BY <1>8 DEF ClientClose, Inv, Typed, PeersTyped
  <2>. QED BY <1>3, <2>1, <2>2, <2>3
<1>9. CASE ClientReceive \/ UpstreamSend \/ UpstreamClose \/ UpstreamReceive \/ UNCHANGED vars
  <2>1. ws_in' = ws_in
    BY <1>9 DEF ClientReceive, UpstreamSend, UpstreamClose, UpstreamReceive, vars
  <2>2. client'.closed = client.closed
    BY <1>9 DEF ClientReceive, UpstreamSend, UpstreamClose, UpstreamReceive, vars, Inv, Typed,
                PeersTyped
  <2>. QED BY <1>4, <2>1, <2>2
<1>. QED BY <1>5, <1>6, <1>7, <1>8, <1>9 DEF Next

\* An upstream that has not ended its stream has no end in it.
LEMMA OpenStep == Inv /\ [Next]_vars => (~upstream'.closed => tcp_in' \in Seq(Byte))
<1>. SUFFICES ASSUME Inv, [Next]_vars, ~upstream'.closed PROVE tcp_in' \in Seq(Byte)
  OBVIOUS
<1>. USE DEF Inv, Typed, QueuesTyped, PeersTyped, EndsOK
<1>1. CASE tcp_in' = tcp_in /\ upstream' = upstream
  BY <1>1
<1>2. CASE Loop
  <2>1. upstream' = upstream
    BY <1>2, LoopStep DEF Leaves, WriteUpstream
  <2>2. tcp_in \in Seq(Byte)
    BY <2>1
  <2>3. CASE tcp_in # << >> /\ tcp_in' = Tail(tcp_in)
    BY <2>2, <2>3, QueueHead
  <2>4. CASE /\ tcp_in # << >> /\ Head(tcp_in) > 0
             /\ tcp_in' = SubSeq(tcp_in, Available + 1, Len(tcp_in))
    BY <2>2, <2>4, ChunkFacts
  <2>. QED BY <1>1, <1>2, <2>1, <2>3, <2>4, LoopStep DEF Leaves, WriteUpstream
<1>3. CASE UpstreamSend
  <2>1. tcp_in \in Seq(Byte) /\ upstream.sent + 1 \in Byte
    BY <1>3 DEF UpstreamSend, Byte
  <2>. QED BY <1>3, <2>1 DEF UpstreamSend
<1>4. CASE UpstreamClose
  BY <1>4 DEF UpstreamClose
<1>5. CASE UpstreamReceive
  <2>1. Head(tcp_out) \in Byte \cup {Eof, Reset}
    BY <1>5, QueueHead DEF UpstreamReceive
  <2>2. CASE tcp_in' = tcp_in /\ upstream'.closed = upstream.closed
    BY <2>2
  <2>3. CASE Head(tcp_out) = Reset
    <3>1. upstream' = [upstream EXCEPT !.closed = TRUE]
      BY <1>5, <2>3 DEF UpstreamReceive, Reset, Eof
    <3>. QED BY <3>1
  <2>4. CASE Head(tcp_out) > 0 /\ ~upstream.closed /\ tcp_in' = Append(tcp_in, Head(tcp_out))
    <3>1. Head(tcp_out) \in Byte
      BY <2>1, <2>4 DEF Eof, Reset
    <3>. QED BY <2>4, <3>1
  <2>. QED BY <1>5, <2>2, <2>3, <2>4 DEF UpstreamReceive
<1>6. CASE ClientSend \/ ClientPing \/ ClientClose \/ ClientReceive \/ UNCHANGED vars
  BY <1>1, <1>6 DEF ClientSend, ClientPing, ClientClose, ClientReceive, vars
<1>. QED BY <1>2, <1>3, <1>4, <1>5, <1>6 DEF Next
\* The loop ends a stream only after the other one has ended.
LEMMA AwaitsStep ==
    Inv /\ [Next]_vars =>
        /\ pc' = "shutdown" => client'.closed /\ ws_in' = << >>
        /\ pc' = "send_close" => upstream'.closed /\ tcp_in' = << >>
<1>. SUFFICES ASSUME Inv, [Next]_vars
              PROVE  /\ pc' = "shutdown" => client'.closed /\ ws_in' = << >>
                     /\ pc' = "send_close" => upstream'.closed /\ tcp_in' = << >>
  OBVIOUS
<1>. USE DEF Inv, Typed, QueuesTyped, PeersTyped, EndsOK
<1>1. CASE Loop
  <2>1. UNCHANGED <<client, upstream>>
    BY <1>1, LoopStep DEF Leaves, WriteUpstream
  <2>2. ASSUME pc' = "shutdown" PROVE client'.closed /\ ws_in' = << >>
    <3>1. /\ ws_in # << >> /\ ws_in' = Tail(ws_in) /\ Head(ws_in).kind \in {"Close", "eof"}
      BY <1>1, <2>2, LoopStep DEF Leaves, WriteUpstream, Ended, Await
    <3>2. 1 \in 1 .. Len(ws_in) /\ Head(ws_in) = ws_in[1]
      BY <3>1
    <3>3. client.closed /\ Len(ws_in) = 1
      BY <3>1, <3>2
    <3>4. Tail(ws_in) = << >>
      BY <3>1, <3>3
    <3>. QED BY <2>1, <3>1, <3>3, <3>4
  <2>3. ASSUME pc' = "send_close" PROVE upstream'.closed /\ tcp_in' = << >>
    <3>1. tcp_in # << >> /\ tcp_in' = Tail(tcp_in) /\ Head(tcp_in) = Eof
      BY <1>1, <2>3, LoopStep DEF Leaves, WriteUpstream, Ended, Await
    <3>2. Tail(tcp_in) = << >>
      BY <3>1, QueueHead
    <3>3. tcp_in \notin Seq(Byte)
      <4>1. tcp_in \in Seq(Byte) => Head(tcp_in) \in Byte
        BY <3>1
      <4>. QED BY <3>1, <4>1 DEF Byte, Eof
    <3>. QED BY <2>1, <3>1, <3>2, <3>3
  <2>. QED BY <2>2, <2>3
<1>2. CASE ClientSend \/ ClientPing \/ ClientClose
  <2>1. ~client.closed /\ UNCHANGED <<pc, upstream, tcp_in>>
    BY <1>2 DEF ClientSend, ClientPing, ClientClose, router
  <2>. QED BY <2>1
<1>3. CASE UpstreamSend \/ UpstreamClose
  <2>1. ~upstream.closed /\ UNCHANGED <<pc, client, ws_in>>
    BY <1>3 DEF UpstreamSend, UpstreamClose, router
  <2>. QED BY <2>1
<1>4. CASE ClientReceive
  <2>1. client'.closed = client.closed /\ UNCHANGED <<pc, ws_in, upstream, tcp_in>>
    BY <1>4 DEF ClientReceive, router
  <2>. QED BY <2>1
<1>5. CASE UpstreamReceive
  <2>1. UNCHANGED <<pc, client, ws_in>>
    BY <1>5 DEF UpstreamReceive, router
  <2>2. upstream.closed => upstream'.closed /\ tcp_in' = tcp_in
    BY <1>5 DEF UpstreamReceive
  <2>. QED BY <2>1, <2>2
<1>6. CASE UNCHANGED vars
  BY <1>6 DEF vars
<1>. QED BY <1>1, <1>2, <1>3, <1>4, <1>5, <1>6 DEF Next

\* While the loop runs it has ended neither stream.
LEMMA WorkingStep ==
    ASSUME Inv, [Next]_vars, pc' \in Working
    PROVE  /\ pc \in Working
           /\ tcp_out' \in Seq(Byte)
           /\ ~upstream'.saw_eof /\ ~client'.saw_close
           /\ \A i \in 1 .. Len(ws_out') : ws_out'[i].kind # "Close"
<1>. USE DEF Inv, Typed, QueuesTyped, PeersTyped, EndsOK
<1>1. pc \in Working
  <2>1. pc \in Ended => pc' = pc
    BY LoopStep DEF Next, Leaves, WriteUpstream, Working, Ended, ClientSend, ClientPing,
       ClientClose, ClientReceive, UpstreamSend, UpstreamClose, UpstreamReceive, router, vars
  <2>. QED BY <2>1 DEF LoopTyped, Working, Ended
<1>2. /\ tcp_out \in Seq(Byte) /\ ~upstream.saw_eof /\ ~client.saw_close
      /\ \A i \in 1 .. Len(ws_out) : ws_out[i].kind # "Close"
  BY <1>1
<1>3. CASE UNCHANGED <<ws_out, tcp_out>> /\ upstream'.saw_eof = upstream.saw_eof
           /\ client'.saw_close = client.saw_close
  BY <1>1, <1>2, <1>3
<1>4. CASE Loop
  <2>1. \A toClient : ~Leaves(toClient)
    BY DEF Leaves, Working, Ended
  <2>2. CASE WriteUpstream
    <3>1. Head(pending) \in Byte
      BY <2>2 DEF WriteUpstream, LoopTyped
    <3>2. Append(tcp_out, Head(pending)) \in Seq(Byte)
      BY <1>2, <3>1
    <3>. QED BY <1>1, <1>2, <2>2, <3>2 DEF WriteUpstream
  <2>3. CASE /\ pc = "send_ws" /\ ws_out' = ws_out \o pending
             /\ UNCHANGED <<ws_in, tcp_in, tcp_out, client, upstream>>
    <3>1. PICK m \in Messages : m.kind # "Close" /\ pending = <<m>>
      BY <2>3 DEF LoopTyped
    <3>2. /\ Len(ws_out') = Len(ws_out) + 1 /\ Len(ws_out) \in Nat
          /\ ws_out'[Len(ws_out) + 1] = m
          /\ \A i \in 1 .. Len(ws_out) : ws_out'[i] = ws_out[i]
      BY <2>3, <3>1
    <3>3. ASSUME NEW i \in 1 .. Len(ws_out') PROVE ws_out'[i].kind # "Close"
      <4>1. i \in 1 .. Len(ws_out) \/ i = Len(ws_out) + 1
        BY <3>2
      <4>. QED BY <1>2, <3>1, <3>2, <4>1
    <3>. QED BY <1>1, <1>2, <2>3, <3>3
  <2>. QED BY <1>3, <1>4, <2>1, <2>2, <2>3, LoopStep
<1>5. CASE ClientReceive
  <2>1. ws_out # << >> /\ ws_out' = Tail(ws_out) /\ UNCHANGED <<tcp_out, upstream>>
    BY <1>5 DEF ClientReceive
  <2>2. /\ Len(ws_out') = Len(ws_out) - 1 /\ Head(ws_out) = ws_out[1] /\ 1 \in 1 .. Len(ws_out)
        /\ \A i \in 1 .. Len(ws_out') : ws_out'[i] = ws_out[i + 1] /\ i + 1 \in 1 .. Len(ws_out)
    BY <2>1
  <2>3. client'.saw_close = (client.saw_close \/ Head(ws_out).kind = "Close")
    BY <1>5 DEF ClientReceive
  <2>4. ~client'.saw_close
    BY <1>2, <2>2, <2>3
  <2>. QED BY <1>1, <1>2, <2>1, <2>2, <2>4
<1>6. CASE UpstreamReceive
  <2>1. Head(tcp_out) \in Byte /\ tcp_out' = Tail(tcp_out) /\ Tail(tcp_out) \in Seq(Byte)
        /\ UNCHANGED <<ws_out, client>>
    BY <1>2, <1>6 DEF UpstreamReceive
  <2>2. Head(tcp_out) # Eof
    BY <2>1 DEF Byte, Eof
  <2>3. upstream'.saw_eof = upstream.saw_eof
    BY <1>6, <2>2 DEF UpstreamReceive
  <2>. QED BY <1>1, <1>2, <2>1, <2>3
<1>7. ASSUME ClientSend \/ ClientPing \/ ClientClose \/ UpstreamSend \/ UpstreamClose
             \/ UNCHANGED vars
      PROVE  UNCHANGED <<ws_out, tcp_out>> /\ upstream'.saw_eof = upstream.saw_eof
             /\ client'.saw_close = client.saw_close
  BY <1>7 DEF ClientSend, ClientPing, ClientClose, UpstreamSend, UpstreamClose, vars
<1>. QED BY <1>3, <1>4, <1>5, <1>6, <1>7 DEF Next

LEMMA EndsStep == Inv /\ [Next]_vars => EndsOK'
<1>. SUFFICES ASSUME Inv, [Next]_vars PROVE EndsOK'
  OBVIOUS
<1>1. ClosesLast'
  BY ClosesLastStep
<1>2. ~upstream'.closed => tcp_in' \in Seq(Byte)
  BY OpenStep
<1>3. /\ pc' = "shutdown" => client'.closed /\ ws_in' = << >>
      /\ pc' = "send_close" => upstream'.closed /\ tcp_in' = << >>
  BY AwaitsStep
<1>4. pc' \in Working =>
        /\ tcp_out' \in Seq(Byte)
        /\ ~upstream'.saw_eof /\ ~client'.saw_close
        /\ \A i \in 1 .. Len(ws_out') : ws_out'[i].kind # "Close"
  BY WorkingStep
<1>. QED BY <1>1, <1>2, <1>3, <1>4 DEF EndsOK, ClosesLast, Closing
-----------------------------------------------------------------------------
(* Towards the upstream *)

\* What a step does to a stream: "got" and "transit" before and after.
Still(got, transit, newGot, newTransit) == newGot = got /\ newTransit = transit

Arrived(got, transit, newGot, newTransit) ==
    \E a \in Seq(Byte) \ {<< >>} :
        /\ newTransit \in Seq(Byte)
        /\ transit = a \o newTransit /\ newGot = got \o a

Added(got, transit, newGot, newTransit, from, k) ==
    /\ newGot = got /\ k \in Nat \ {0}
    /\ newTransit = transit \o Numbers(from + 1, from + k)

Shortened(got, transit, newGot, newTransit) ==
    newGot = got /\ \E rest \in Seq(Byte) : transit = newTransit \o rest

Written == IF pc = "write_tcp" THEN pending ELSE << >>

\* The parts of what is on its way to the upstream.
UpstreamParts ==
    /\ Payload(ws_in) \in Seq(Byte) /\ Written \in Seq(Byte)
    /\ Bytes(tcp_out) \in Seq(Byte) /\ UpstreamTransit \in Seq(Byte)
    /\ pc \in Working => UpstreamTransit = (tcp_out \o Written) \o Payload(ws_in)
    /\ pc \in Ended => UpstreamTransit = Bytes(tcp_out)

LEMMA UpstreamPartsOK == Typed /\ EndsOK => UpstreamParts
<1>. SUFFICES ASSUME Typed, EndsOK PROVE UpstreamParts
  OBVIOUS
<1>1. Payload(ws_in) \in Seq(Byte)
  BY PayloadType DEF Typed, QueuesTyped
<1>2. Written \in Seq(Byte)
  BY DEF Written, Typed, LoopTyped
<1>3. Bytes(tcp_out) \in Seq(Byte)
  <2>1. Queue(tcp_out)
    BY DEF Typed, QueuesTyped
  <2>2. CASE tcp_out \in Seq(Byte)
    BY <2>2, BytesOf, ZenonT(30)
  <2>3. CASE \E b \in Seq(Byte), end \in {Eof, Reset} : tcp_out = Append(b, end)
    BY <2>3, BytesOf, ZenonT(30)
  <2>. QED BY <2>1, <2>2, <2>3 DEF Queue
<1>4. (Bytes(tcp_out) \o Written) \o Payload(ws_in) \in Seq(Byte)
  BY <1>1, <1>2, <1>3
<1>5. UpstreamTransit \in Seq(Byte)
  BY <1>3, <1>4 DEF UpstreamTransit, Written
<1>6. ASSUME pc \in Working
      PROVE  UpstreamTransit = (tcp_out \o Written) \o Payload(ws_in)
  <2>1. Bytes(tcp_out) = tcp_out
    BY <1>6, BytesOf DEF EndsOK
  <2>. QED BY <1>6, <2>1 DEF UpstreamTransit, Written, Working, Ended
<1>. QED BY <1>1, <1>2, <1>3, <1>5, <1>6 DEF UpstreamTransit, UpstreamParts

LEMMA UpstreamPartsNext == Typed' /\ EndsOK' => UpstreamParts'
  BY UpstreamPartsOK, PTL

\* What a step does to the stream towards the upstream.
UpstreamMoves ==
    \/ /\ Still(upstream.got, UpstreamTransit, upstream'.got, UpstreamTransit')
       /\ pc \in Working => client'.sent = client.sent
       /\ pc \in Ended <=> pc' \in Ended
    \/ /\ Arrived(upstream.got, UpstreamTransit, upstream'.got, UpstreamTransit')
       /\ client'.sent = client.sent /\ pc' = pc
    \/ \E k \in Nat :
          /\ Added(upstream.got, UpstreamTransit, upstream'.got, UpstreamTransit', client.sent, k)
          /\ client'.sent = client.sent + k /\ pc' = pc /\ pc \in Working
    \/ /\ Shortened(upstream.got, UpstreamTransit, upstream'.got, UpstreamTransit')
       /\ pc \in Working /\ pc' \in Ended

\* The steps of the task, towards the upstream.
LEMMA LoopUpstream ==
    ASSUME Inv, Loop, Typed', EndsOK', UpstreamParts, UpstreamParts'
    PROVE  UpstreamMoves
<1>. USE DEF Inv, Typed
<1>0. UNCHANGED <<client, upstream>> /\ pc \in Working
  BY LoopStep DEF Leaves, WriteUpstream, Working
<1>. DEFINE W == Written
            P == Payload(ws_in)
<1>1. P \in Seq(Byte) /\ W \in Seq(Byte) /\ tcp_out \in Seq(Byte)
      /\ UpstreamTransit = (tcp_out \o W) \o P
  BY <1>0 DEF UpstreamParts, EndsOK
<1>2. ASSUME NEW toClient, Leaves(toClient) PROVE UpstreamMoves
  <2>1. PICK b \in Seq(Byte), rest \in Seq(Byte), end \in {Eof, Reset} :
               tcp_out' = Append(b, end) /\ tcp_out = b \o rest
    BY <1>2, LeaveFacts
  <2>2. UpstreamTransit' = b
    BY <1>2, <2>1, BytesOf DEF Leaves, UpstreamParts
  <2>. HIDE DEF W, P
  <2>3. UpstreamTransit = b \o ((rest \o W) \o P)
    <3>1. ((b \o rest) \o W) \o P = b \o ((rest \o W) \o P)
      <4>1. b \in Seq(Byte) /\ rest \in Seq(Byte) /\ W \in Seq(Byte) /\ P \in Seq(Byte)
        BY <1>1, <2>1
      <4>. QED BY ONLY <4>1, SMTT(30)
    <3>. QED BY <1>1, <2>1, <3>1
  <2>4. (rest \o W) \o P \in Seq(Byte)
    BY <1>1
  <2>. QED BY <1>0, <1>2, <2>2, <2>3, <2>4 DEF UpstreamMoves, Shortened, Leaves
<1>3. ASSUME pc' \in Working, UpstreamTransit' = UpstreamTransit PROVE UpstreamMoves
  BY <1>0, <1>3 DEF UpstreamMoves, Still, Working, Ended
<1>4. ASSUME tcp_out' = tcp_out, ws_in' = ws_in, Written' = W, pc' \in Working
      PROVE  UpstreamMoves
  BY <1>1, <1>3, <1>4 DEF UpstreamParts
<1>5. ASSUME tcp_out' = tcp_out, pc' \in Working, W = << >>, P = Written' \o Payload(ws_in')
      PROVE  UpstreamMoves
  <2>. DEFINE a == tcp_out
              b == Written'
              c == Payload(ws_in')
  <2>1. b \in Seq(Byte) /\ c \in Seq(Byte) /\ a \in Seq(Byte)
    BY <1>1 DEF UpstreamParts
  <2>2. a \o << >> = a
    BY <2>1, EmptyEnds
  <2>3. UpstreamTransit = a \o (b \o c)
    BY <1>1, <1>5, <2>2
  <2>4. UpstreamTransit' = (a \o b) \o c
    BY <1>5 DEF UpstreamParts
  <2>. HIDE DEF a, b, c
  <2>5. (a \o b) \o c = a \o (b \o c)
    BY <2>1, Regroup
  <2>. QED BY <1>3, <1>5, <2>3, <2>4, <2>5
<1>6. CASE /\ pc = "select" /\ ws_in # << >> /\ ws_in' = Tail(ws_in)
           /\ \/ Head(ws_in).kind = "Binary" /\ Await("write_tcp", Head(ws_in).bytes)
              \/ Head(ws_in).kind = "Ping" /\ Await("send_ws", <<Control("Pong")>>)
              \/ Head(ws_in).kind = "Pong" /\ Await("select", << >>)
              \/ Head(ws_in).kind \in {"Close", "eof"} /\ Await("shutdown", << >>)
           /\ UNCHANGED <<ws_out, tcp_out, tcp_in, client, upstream>>
  <2>1. Head(ws_in) \in Messages /\ P = Head(ws_in).bytes \o Payload(ws_in')
    BY <1>6, PayloadTail DEF QueuesTyped
  <2>2. Written' = Head(ws_in).bytes
    <3>1. CASE Head(ws_in).kind = "Binary"
      BY <1>6, <3>1 DEF Await, Written
    <3>2. CASE Head(ws_in).kind # "Binary"
      <4>1. Head(ws_in).bytes = << >>
        BY <2>1, <3>2, MessageTypes
      <4>2. pc' # "write_tcp"
        BY <1>6, <3>2 DEF Await
      <4>. QED BY <4>1, <4>2 DEF Written
    <3>. QED BY <3>1, <3>2
  <2>3. W = << >> /\ pc' \in Working /\ tcp_out' = tcp_out
    BY <1>6 DEF Written, Await, Working
  <2>. QED BY <1>5, <2>1, <2>2, <2>3
<1>7. CASE WriteUpstream
  <2>1. /\ pc = "write_tcp" /\ pending \in Seq(Byte) /\ pending # << >>
        /\ ws_in' = ws_in /\ tcp_out' = Append(tcp_out, Head(pending))
        /\ pending' = Tail(pending)
        /\ pc' = IF Tail(pending) = << >> THEN "select" ELSE pc
    BY <1>7 DEF WriteUpstream, Unwritten, LoopTyped
  <2>2. W = pending /\ Written' = Tail(pending) /\ pc' \in Working
    BY <2>1 DEF Written, Working
  <2>3. Append(tcp_out, Head(pending)) \o Tail(pending) = tcp_out \o pending
    <3>1. Head(pending) \in Byte /\ Tail(pending) \in Seq(Byte)
      BY <2>1
    <3>2. pending = <<Head(pending)>> \o Tail(pending) /\ <<Head(pending)>> \in Seq(Byte)
      BY <2>1
    <3>3. Append(tcp_out, Head(pending)) = tcp_out \o <<Head(pending)>>
      BY <1>1, <3>1
    <3>4. (tcp_out \o <<Head(pending)>>) \o Tail(pending)
             = tcp_out \o (<<Head(pending)>> \o Tail(pending))
      BY ONLY <1>1, <3>1, <3>2, Regroup, Zenon
    <3>. QED BY <3>2, <3>3, <3>4
  <2>4. UpstreamTransit' = (Append(tcp_out, Head(pending)) \o Tail(pending)) \o P
    BY <2>1, <2>2 DEF UpstreamParts
  <2>5. UpstreamTransit' = UpstreamTransit
    BY <1>1, <2>2, <2>3, <2>4
  <2>. QED BY <1>3, <2>2, <2>5
<1>8. CASE /\ \/ pc = "select" /\ (Await("send_ws", <<Data(Chunk)>>) \/
                                   Await("send_close", <<Control("Close")>>))
              \/ pc = "send_ws" /\ Await("select", << >>)
           /\ UNCHANGED <<ws_in, tcp_out>>
  <2>1. W = << >> /\ Written' = << >> /\ pc' \in Working
    BY <1>8 DEF Written, Await, Working
  <2>. QED BY <1>4, <1>8, <2>1
<1>. QED BY <1>2, <1>6, <1>7, <1>8, LoopStep

\* A message of the client's, towards the upstream.
LEMMA MessageUpstream ==
    ASSUME Inv, UpstreamParts, UpstreamParts', NEW m \in Messages, ws_in' = Append(ws_in, m),
           UNCHANGED <<pc, pending, tcp_out>>
    PROVE  /\ pc \in Working => UpstreamTransit' = UpstreamTransit \o m.bytes
           /\ pc \in Ended \/ m.bytes = << >> => UpstreamTransit' = UpstreamTransit
<1>. DEFINE W == Written
            P == Payload(ws_in)
            b == m.bytes
<1>1. b \in Seq(Byte) /\ ws_in \in Seq(Messages) /\ pc \in Working \cup Ended
  BY MessageTypes DEF Inv, Typed, QueuesTyped, LoopTyped
<1>2. Payload(ws_in') = P \o b
  BY <1>1, PayloadAppend
<1>3. ASSUME pc \in Ended PROVE UpstreamTransit' = UpstreamTransit
  BY <1>3 DEF UpstreamParts
<1>4. ASSUME pc \in Working PROVE UpstreamTransit' = UpstreamTransit \o b
  <2>1. /\ P \in Seq(Byte) /\ W \in Seq(Byte) /\ tcp_out \in Seq(Byte)
        /\ UpstreamTransit = (tcp_out \o W) \o P
    BY <1>4 DEF UpstreamParts, Inv, EndsOK
  <2>2. UpstreamTransit' = (tcp_out \o W) \o (P \o b)
    BY <1>2, <1>4 DEF UpstreamParts, Written
  <2>. DEFINE x == tcp_out \o W
  <2>3. x \in Seq(Byte)
    BY <2>1
  <2>. HIDE DEF x, P, W, b
  <2>4. (x \o P) \o b = x \o (P \o b)
    BY ONLY <1>1, <2>1, <2>3, Regroup, Zenon
  <2>. QED BY <2>1, <2>2, <2>4 DEF x
<1>5. UpstreamTransit \o << >> = UpstreamTransit
  BY EmptyEnds DEF UpstreamParts
<1>. QED BY <1>1, <1>3, <1>4, <1>5

\* The steps of the peers, towards the upstream.
LEMMA PeersUpstream ==
    ASSUME Inv, [Next]_vars, ~Loop, UpstreamParts, UpstreamParts'
    PROVE  UpstreamMoves
<1>. USE DEF Inv, Typed, PeersTyped
<1>0. UNCHANGED <<pc, pending>> /\ pc \in Working \cup Ended /\ Working \cap Ended = {}
  BY DEF Next, ClientSend, ClientPing, ClientClose, ClientReceive, UpstreamSend, UpstreamClose,
         UpstreamReceive, vars, router, LoopTyped, Working, Ended
<1>1. CASE ClientSend
  <2>1. PICK n \in 1 .. MaxMessage :
          /\ ws_in' = Append(ws_in, Data(Numbers(client.sent + 1, client.sent + n)))
          /\ client' = [client EXCEPT !.sent = @ + n]
    BY <1>1 DEF ClientSend
  <2>2. n \in Nat \ {0} /\ client'.sent = client.sent + n /\ UNCHANGED <<tcp_out, upstream>>
    BY <1>1, <2>1, ProxyTcpAssumption, SMTT(30) DEF ClientSend
  <2>. DEFINE m == Data(Numbers(client.sent + 1, client.sent + n))
  <2>3. m \in Messages /\ m.bytes = Numbers(client.sent + 1, client.sent + n)
    BY SentMessage
  <2>. HIDE DEF m
  <2>4. /\ pc \in Working => UpstreamTransit' = UpstreamTransit \o m.bytes
        /\ pc \in Ended => UpstreamTransit' = UpstreamTransit
    BY <1>0, <2>1, <2>2, <2>3, MessageUpstream DEF m
  <2>5. CASE pc \in Working
    <3>1. Added(upstream.got, UpstreamTransit, upstream'.got, UpstreamTransit', client.sent, n)
      BY <2>2, <2>3, <2>4, <2>5 DEF Added
    <3>. QED BY <1>0, <2>2, <2>5, <3>1 DEF UpstreamMoves
  <2>6. CASE pc \in Ended
    BY <1>0, <2>2, <2>4, <2>6 DEF UpstreamMoves, Still
  <2>. QED BY <1>0, <2>5, <2>6
<1>2. ASSUME upstream'.got = upstream.got, UpstreamTransit' = UpstreamTransit,
             client'.sent = client.sent
      PROVE  UpstreamMoves
  BY <1>0, <1>2 DEF UpstreamMoves, Still
<1>3. CASE ClientPing \/ ClientClose
  <2>1. PICK kind \in {"Ping", "Pong", "Close", "eof", "error"} :
               ws_in' = Append(ws_in, Control(kind))
    BY <1>3 DEF ClientPing, ClientClose
  <2>2. client'.sent = client.sent /\ UNCHANGED <<tcp_out, upstream>>
    BY <1>3 DEF ClientPing, ClientClose
  <2>3. Control(kind) \in Messages /\ Control(kind).bytes = << >>
    BY ControlTypes
  <2>4. UpstreamTransit' = UpstreamTransit
    BY <1>0, <2>1, <2>2, <2>3, MessageUpstream
  <2>. QED BY <1>2, <2>2, <2>4
<1>4. CASE ClientReceive \/ UpstreamSend \/ UpstreamClose \/ UNCHANGED vars
  <2>1. upstream'.got = upstream.got /\ client'.sent = client.sent /\ UNCHANGED <<ws_in, tcp_out>>
    BY <1>4 DEF ClientReceive, UpstreamSend, UpstreamClose, vars
  <2>2. UpstreamTransit' = UpstreamTransit
    BY <1>0, <2>1 DEF UpstreamTransit
  <2>. QED BY <1>2, <2>1, <2>2
<1>5. CASE UpstreamReceive
  <2>1. tcp_out # << >> /\ tcp_out' = Tail(tcp_out) /\ UNCHANGED <<ws_in, client>>
        /\ Queue(tcp_out)
    BY <1>5 DEF UpstreamReceive, QueuesTyped
  <2>. DEFINE h == Head(tcp_out)
  <2>2. h \in Byte \cup {Eof, Reset}
    BY <2>1, QueueHead
  <2>3. CASE h \in {Eof, Reset}
    <3>1. h \notin Byte /\ ~(h > 0)
      BY <2>3 DEF Byte, Eof, Reset
    <3>2. tcp_out \notin Seq(Byte)
      BY <2>1, <3>1
    <3>3. pc \in Ended
      BY <1>0, <3>2 DEF EndsOK
    <3>4. Bytes(tcp_out) = << >> /\ Tail(tcp_out) = << >>
      BY <2>1, <2>3, QueueHead
    <3>5. Bytes(<< >>) = << >>
      BY DEF Bytes
    <3>6. UpstreamTransit' = UpstreamTransit
      BY <1>0, <2>1, <3>3, <3>4, <3>5 DEF UpstreamParts
    <3>7. upstream'.got = upstream.got
      BY <1>5, <3>1 DEF UpstreamReceive
    <3>. QED BY <1>2, <2>1, <3>6, <3>7
  <2>4. CASE h \in Byte
    <3>1. h # Eof /\ h # Reset
      BY <2>4 DEF Byte, Eof, Reset
    <3>2. upstream'.got = Append(upstream.got, h)
      BY <1>5, <3>1 DEF UpstreamReceive
    <3>3. upstream'.got = upstream.got \o <<h>> /\ <<h>> \in Seq(Byte) \ {<< >>}
      <4>1. upstream.got \in Seq(Byte)
        OBVIOUS
      <4>. HIDE DEF h
      <4>. QED BY ONLY <2>4, <3>2, <4>1
    <3>4. UpstreamTransit = <<h>> \o UpstreamTransit'
      <4>1. CASE pc \in Ended
        BY <1>0, <2>1, <2>4, <4>1, QueueHead DEF UpstreamParts
      <4>2. CASE pc \in Working
        <5>. DEFINE W == Written
                    P == Payload(ws_in)
                    t == Tail(tcp_out)
                    a == <<h>>
        <5>1. /\ W \in Seq(Byte) /\ P \in Seq(Byte) /\ tcp_out \in Seq(Byte)
              /\ UpstreamTransit = (tcp_out \o W) \o P
          BY <4>2 DEF UpstreamParts, EndsOK
        <5>2. t \in Seq(Byte) /\ tcp_out = a \o t /\ a \in Seq(Byte)
          BY <2>1, <3>3, <5>1
        <5>3. UpstreamTransit' = (t \o W) \o P
          BY <1>0, <2>1, <4>2 DEF UpstreamParts, Written
        <5>. HIDE DEF W, P, t, a
        <5>4. ((a \o t) \o W) \o P = a \o ((t \o W) \o P)
          <6>1. a \in Seq(Byte) /\ t \in Seq(Byte) /\ W \in Seq(Byte) /\ P \in Seq(Byte)
            BY <5>1, <5>2
          <6>. QED BY ONLY <6>1, SMTT(30)
        <5>. QED BY <5>1, <5>2, <5>3, <5>4 DEF a
      <4>. QED BY <1>0, <4>1, <4>2
    <3>5. Arrived(upstream.got, UpstreamTransit, upstream'.got, UpstreamTransit')
      BY <3>3, <3>4 DEF Arrived, UpstreamParts
    <3>. QED BY <1>0, <2>1, <3>5 DEF UpstreamMoves
  <2>. QED BY <2>2, <2>3, <2>4
<1>. QED BY <1>1, <1>3, <1>4, <1>5 DEF Next

\* What every step does to the stream towards the upstream.
LEMMA StepUpstream ==
    ASSUME Inv, [Next]_vars, Typed', EndsOK'
    PROVE  UpstreamMoves
<1>1. UpstreamParts /\ UpstreamParts'
  BY UpstreamPartsOK, UpstreamPartsNext DEF Inv
<1>. QED BY <1>1, LoopUpstream, PeersUpstream

-----------------------------------------------------------------------------
(* Towards the client *)

Sent == IF pc = "send_ws" THEN Payload(pending) ELSE << >>

\* The parts of what is on its way to the client.
ClientParts ==
    /\ Payload(ws_out) \in Seq(Byte) /\ Sent \in Seq(Byte)
    /\ Bytes(tcp_in) \in Seq(Byte) /\ ClientTransit \in Seq(Byte)
    /\ pc \in Working => ClientTransit = (Payload(ws_out) \o Sent) \o Bytes(tcp_in)
    /\ pc \in Ended => ClientTransit = Payload(ws_out)

LEMMA ClientPartsOK == Typed => ClientParts
<1>. SUFFICES ASSUME Typed PROVE ClientParts
  OBVIOUS
<1>1. Payload(ws_out) \in Seq(Byte)
  BY PayloadType DEF Typed, QueuesTyped
<1>2. Sent \in Seq(Byte)
  <2>1. CASE pc = "send_ws"
    <3>1. PICK m \in Messages : pending = <<m>>
      BY <2>1 DEF Typed, LoopTyped
    <3>2. Payload(pending) \in Seq(Byte)
      BY <3>1, PayloadOne, MessageTypes
    <3>. QED BY <2>1, <3>2 DEF Sent
  <2>2. CASE pc # "send_ws"
    BY <2>2 DEF Sent
  <2>. QED BY <2>1, <2>2
<1>3. Bytes(tcp_in) \in Seq(Byte)
  BY BytesOf DEF Typed, QueuesTyped, Queue
<1>4. (Payload(ws_out) \o Sent) \o Bytes(tcp_in) \in Seq(Byte)
  BY <1>1, <1>2, <1>3
<1>5. /\ pc \in Ended => ClientTransit = Payload(ws_out)
      /\ pc \notin Ended => ClientTransit = (Payload(ws_out) \o Sent) \o Bytes(tcp_in)
  BY DEF ClientTransit, Sent
<1>6. pc \in Working => pc \notin Ended
  BY DEF Working, Ended
<1>. QED BY <1>1, <1>2, <1>3, <1>4, <1>5, <1>6 DEF ClientParts

LEMMA ClientPartsNext == Typed' => ClientParts'
  BY ClientPartsOK, PTL

\* What a step does to the stream towards the client.
ClientMoves ==
    \/ /\ Still(client.got, ClientTransit, client'.got, ClientTransit')
       /\ pc \in Working => upstream'.sent = upstream.sent
       /\ pc \in Ended <=> pc' \in Ended
    \/ /\ Arrived(client.got, ClientTransit, client'.got, ClientTransit')
       /\ upstream'.sent = upstream.sent /\ pc' = pc
    \/ /\ Added(client.got, ClientTransit, client'.got, ClientTransit', upstream.sent, 1)
       /\ upstream'.sent = upstream.sent + 1 /\ pc' = pc /\ pc \in Working
    \/ /\ Shortened(client.got, ClientTransit, client'.got, ClientTransit')
       /\ pc \in Working /\ pc' \in Ended

\* The steps of the task, towards the client.
LEMMA LoopClient ==
    ASSUME Inv, Loop, ClientParts, ClientParts'
    PROVE  ClientMoves
<1>. USE DEF Inv, Typed
<1>0. UNCHANGED <<client, upstream>> /\ pc \in Working
  BY LoopStep DEF Leaves, WriteUpstream, Working
<1>. DEFINE O == Payload(ws_out)
            S == Sent
            B == Bytes(tcp_in)
<1>1. O \in Seq(Byte) /\ S \in Seq(Byte) /\ B \in Seq(Byte) /\ ClientTransit = (O \o S) \o B
  BY <1>0 DEF ClientParts
<1>2. ASSUME NEW toClient, Leaves(toClient) PROVE ClientMoves
  <2>1. PICK rest \in Seq(Byte) : O = Payload(ws_out') \o rest
    BY <1>2, LeaveFacts
  <2>. DEFINE b == Payload(ws_out')
  <2>2. ClientTransit' = b /\ b \in Seq(Byte)
    BY <1>2 DEF Leaves, ClientParts
  <2>. HIDE DEF O, S, B, b
  <2>3. ((b \o rest) \o S) \o B = b \o ((rest \o S) \o B) /\ (rest \o S) \o B \in Seq(Byte)
    BY ONLY <1>1, <2>1, <2>2, SMTT(30)
  <2>. QED BY <1>0, <1>1, <1>2, <2>1, <2>2, <2>3 DEF ClientMoves, Shortened, Leaves, b
<1>3. ASSUME pc' \in Working, ClientTransit' = ClientTransit PROVE ClientMoves
  BY <1>0, <1>3 DEF ClientMoves, Still, Working, Ended
<1>4. ASSUME ws_out' = ws_out, tcp_in' = tcp_in, Sent' = S, pc' \in Working
      PROVE  ClientMoves
  BY <1>1, <1>3, <1>4 DEF ClientParts
<1>5. CASE /\ pc = "select"
           /\ \/ Await("write_tcp", Head(ws_in).bytes)
              \/ Await("send_ws", <<Control("Pong")>>)
              \/ Await("select", << >>)
              \/ Await("shutdown", << >>)
           /\ UNCHANGED <<ws_out, tcp_in>>
  <2>1. Control("Pong") \in Messages /\ Control("Pong").bytes = << >>
    BY ControlTypes
  <2>2. Payload(<<Control("Pong")>>) = << >>
    BY <2>1, PayloadOne
  <2>3. S = << >> /\ Sent' = << >> /\ pc' \in Working
    BY <1>5, <2>2 DEF Await, Sent, Working
  <2>. QED BY <1>4, <1>5, <2>3
<1>6. CASE WriteUpstream
  <2>1. S = << >> /\ Sent' = << >> /\ pc' \in Working /\ UNCHANGED <<ws_out, tcp_in>>
    BY <1>6 DEF WriteUpstream, Sent, Working
  <2>. QED BY <1>4, <2>1
<1>7. CASE /\ pc = "select" /\ tcp_in # << >> /\ Head(tcp_in) > 0
           /\ tcp_in' = SubSeq(tcp_in, Available + 1, Len(tcp_in))
           /\ Await("send_ws", <<Data(Chunk)>>) /\ ws_out' = ws_out
  <2>. DEFINE c == Chunk
              r == Bytes(tcp_in')
  <2>1. c \in Seq(Byte) /\ c # << >> /\ r \in Seq(Byte) /\ B = c \o r
    BY <1>7, ChunkFacts DEF QueuesTyped
  <2>2. Data(c) \in Messages /\ Data(c).bytes = c
    BY <2>1, MessageTypes
  <2>3. Payload(<<Data(c)>>) = c
    BY <2>2, PayloadOne
  <2>4. S = << >> /\ Sent' = c /\ pc' \in Working
    BY <1>7, <2>3 DEF Await, Sent, Working
  <2>5. ClientTransit' = (O \o c) \o r
    BY <1>7, <2>4 DEF ClientParts
  <2>. HIDE DEF O, S, B, c, r
  <2>6. (O \o << >>) \o (c \o r) = (O \o c) \o r
    <3>1. O \o << >> = O
      BY <1>1, EmptyEnds
    <3>2. O \o (c \o r) = (O \o c) \o r
      BY ONLY <1>1, <2>1, SMTT(30)
    <3>. QED BY <3>1, <3>2
  <2>. QED BY <1>1, <1>3, <2>1, <2>4, <2>5, <2>6
<1>8. CASE /\ pc = "select" /\ tcp_in # << >> /\ Head(tcp_in) = Eof /\ tcp_in' = Tail(tcp_in)
           /\ Await("send_close", <<Control("Close")>>) /\ ws_out' = ws_out
  <2>1. B = << >> /\ tcp_in' = << >>
    BY <1>8, QueueHead DEF QueuesTyped
  <2>2. Bytes(tcp_in') = << >>
    BY <2>1 DEF Bytes
  <2>3. S = << >> /\ Sent' = << >> /\ pc' \in Working
    BY <1>8 DEF Await, Sent, Working
  <2>4. ClientTransit' = (O \o << >>) \o << >>
    BY <1>8, <2>2, <2>3 DEF ClientParts
  <2>. QED BY <1>1, <1>3, <2>1, <2>3, <2>4
<1>9. CASE /\ pc = "send_ws" /\ ws_out' = ws_out \o pending /\ Await("select", << >>)
           /\ tcp_in' = tcp_in
  <2>1. PICK m \in Messages : pending = <<m>>
    BY <1>9 DEF LoopTyped
  <2>2. pending \in Seq(Messages) /\ ws_out \in Seq(Messages)
    BY <2>1 DEF QueuesTyped
  <2>3. Payload(ws_out') = O \o S
    BY <1>9, <2>2, PayloadConcat DEF Sent
  <2>4. Sent' = << >> /\ pc' \in Working
    BY <1>9 DEF Sent, Await, Working
  <2>5. ClientTransit' = ((O \o S) \o << >>) \o B
    BY <1>9, <2>3, <2>4 DEF ClientParts
  <2>. HIDE DEF O, S, B
  <2>6. (O \o S) \o << >> = O \o S
    BY ONLY <1>1
  <2>. QED BY <1>1, <1>3, <2>4, <2>5, <2>6
<1>. QED BY <1>2, <1>5, <1>6, <1>7, <1>8, <1>9, LoopStep

LEMMA OneNumber == ASSUME NEW n \in Nat PROVE Numbers(n + 1, n + 1) = <<n + 1>>
<1>1. (n + 1) - (n + 1) + 1 = 1 /\ \A i \in 1 .. 1 : (n + 1) + i - 1 = n + 1
  OBVIOUS
<1>. QED BY <1>1 DEF Numbers

\* The next byte that an echo server reads is the next one it sends.
LEMMA EchoNext ==
    ASSUME Inv, UpstreamParts, pc \in Working, upstream.echo, tcp_out # << >>
    PROVE  Head(tcp_out) = upstream.sent + 1
<1>. DEFINE g == upstream.got
            W == Written
            P == Payload(ws_in)
            q == tcp_out
            all == Numbers(1, client.sent)
<1>1. /\ g \in Seq(Byte) /\ W \in Seq(Byte) /\ P \in Seq(Byte) /\ q \in Seq(Byte)
      /\ g \o ((q \o W) \o P) = all /\ upstream.sent = Len(g) /\ client.sent \in Nat
  BY DEF Inv, Typed, PeersTyped, UpstreamParts, EndsOK, StreamsOK
<1>2. all = [i \in 1 .. client.sent |-> i]
  <2>1. client.sent - 1 + 1 = client.sent /\ \A i \in 1 .. client.sent : 1 + i - 1 = i
    BY <1>1
  <2>. QED BY <2>1 DEF Numbers
<1>. HIDE DEF g, W, P, q, all
<1>3. q # << >>
  BY DEF q
<1>. DEFINE t == (q \o W) \o P
<1>4. t \in Seq(Byte) /\ Len(t) >= 1 /\ t[1] = Head(q)
  BY ONLY <1>1, <1>3
<1>. HIDE DEF t
<1>5. /\ (g \o t)[Len(g) + 1] = t[1] /\ Len(g) + 1 \in 1 .. Len(g \o t) /\ g \o t = all
      /\ Len(g) \in Nat
  <2>1. g \o t = all
    BY <1>1 DEF t
  <2>. QED BY ONLY <1>1, <1>4, <2>1
<1>6. Len(all) = client.sent
  BY <1>1, <1>2
<1>7. all[Len(g) + 1] = Len(g) + 1
  BY <1>2, <1>5, <1>6
<1>. QED BY <1>1, <1>4, <1>5, <1>7 DEF q

\* A byte of the upstream's, towards the client.
LEMMA ByteClient ==
    ASSUME Inv, ClientParts, ClientParts', ~upstream.closed, NEW x \in Byte,
           tcp_in' = Append(tcp_in, x), UNCHANGED <<pc, pending, ws_out>>, client'.got = client.got,
           pc \in Working => x = upstream.sent + 1 /\ upstream'.sent = upstream.sent + 1
    PROVE  ClientMoves
<1>. DEFINE O == Payload(ws_out)
            S == Sent
            B == tcp_in
<1>0. pc \in Working \cup Ended
  BY DEF Inv, Typed, LoopTyped
<1>1. tcp_in \in Seq(Byte) /\ upstream.sent \in Nat
  BY DEF Inv, EndsOK, Typed, PeersTyped
<1>2. Append(tcp_in, x) \in Seq(Byte)
  BY <1>1
<1>3. Bytes(tcp_in) = tcp_in /\ Bytes(tcp_in') = tcp_in \o <<x>>
  <2>1. Bytes(tcp_in) = tcp_in /\ Bytes(Append(tcp_in, x)) = Append(tcp_in, x)
    BY <1>1, <1>2, BytesOf
  <2>. QED BY <1>1, <2>1
<1>4. CASE pc \in Ended
  BY <1>4 DEF ClientParts, ClientMoves, Still, Working, Ended
<1>5. CASE pc \in Working
  <2>. DEFINE a == <<x>>
  <2>1. /\ O \in Seq(Byte) /\ S \in Seq(Byte) /\ B \in Seq(Byte) /\ a \in Seq(Byte)
        /\ ClientTransit = (O \o S) \o B
    BY <1>1, <1>3, <1>5, SMTT(30) DEF ClientParts
  <2>2. ClientTransit' = (O \o S) \o (B \o a)
    BY <1>3, <1>5 DEF ClientParts, Sent
  <2>3. a = Numbers(upstream.sent + 1, upstream.sent + 1)
    BY <1>1, <1>5, OneNumber
  <2>. HIDE DEF O, S, B, a
  <2>4. (O \o S) \o (B \o a) = ((O \o S) \o B) \o a
    BY ONLY <2>1, SMTT(30)
  <2>5. Added(client.got, ClientTransit, client'.got, ClientTransit', upstream.sent, 1)
    <3>1. 1 \in Nat \ {0}
      OBVIOUS
    <3>2. ClientTransit' = ClientTransit \o a
      BY <2>1, <2>2, <2>4, Zenon
    <3>3. ClientTransit' = ClientTransit \o Numbers(upstream.sent + 1, upstream.sent + 1)
      BY <2>3, <3>2, Zenon
    <3>. QED BY <3>1, <3>3, Zenon DEF Added
  <2>. QED BY <1>5, <2>5 DEF ClientMoves
<1>. QED BY <1>0, <1>4, <1>5

\* The steps of the peers, towards the client.
LEMMA PeersClient ==
    ASSUME Inv, [Next]_vars, ~Loop, UpstreamParts, ClientParts, ClientParts'
    PROVE  ClientMoves
<1>. USE DEF Inv, Typed, PeersTyped
<1>0. UNCHANGED <<pc, pending>> /\ pc \in Working \cup Ended /\ Working \cap Ended = {}
  BY DEF Next, ClientSend, ClientPing, ClientClose, ClientReceive, UpstreamSend, UpstreamClose,
         UpstreamReceive, vars, router, LoopTyped, Working, Ended
<1>1. ASSUME client'.got = client.got, ClientTransit' = ClientTransit,
             upstream'.sent = upstream.sent
      PROVE  ClientMoves
  BY <1>0, <1>1 DEF ClientMoves, Still
<1>2. CASE /\ client'.got = client.got /\ upstream'.sent = upstream.sent
           /\ UNCHANGED <<ws_out, tcp_in>>
  <2>1. ClientTransit' = ClientTransit
    BY <1>0, <1>2 DEF ClientTransit
  <2>. QED BY <1>1, <1>2, <2>1
<1>3. CASE ClientSend \/ ClientPing \/ ClientClose \/ UNCHANGED vars
  <2>1. /\ client'.got = client.got /\ upstream'.sent = upstream.sent
        /\ UNCHANGED <<ws_out, tcp_in>>
    BY <1>3 DEF ClientSend, ClientPing, ClientClose, vars
  <2>. QED BY <1>2, <2>1
<1>4. CASE ClientReceive
  <2>1. ws_out # << >> /\ ws_out' = Tail(ws_out) /\ UNCHANGED <<tcp_in, upstream>>
    BY <1>4 DEF ClientReceive
  <2>. DEFINE a == Head(ws_out).bytes
              t == Payload(ws_out')
              S == Sent
              B == Bytes(tcp_in)
  <2>2. a \in Seq(Byte) /\ Payload(ws_out) = a \o t /\ client'.got = client.got \o a
    <3>1. Head(ws_out) \in Messages
      BY <2>1 DEF QueuesTyped
    <3>. QED BY <1>4, <2>1, <3>1, MessageTypes, PayloadTail DEF ClientReceive, QueuesTyped
  <2>3. t \in Seq(Byte) /\ S \in Seq(Byte) /\ B \in Seq(Byte) /\ ClientTransit' \in Seq(Byte)
    BY DEF ClientParts
  <2>4. ClientTransit = a \o ClientTransit'
    <3>1. CASE pc \in Ended
      BY <1>0, <2>2, <3>1 DEF ClientParts
    <3>2. CASE pc \in Working
      <4>1. ClientTransit = ((a \o t) \o S) \o B
        BY <2>2, <3>2 DEF ClientParts
      <4>2. ClientTransit' = (t \o S) \o B
        BY <1>0, <2>1, <3>2 DEF ClientParts, Sent
      <4>. HIDE DEF a, t, S, B
      <4>3. ((a \o t) \o S) \o B = a \o ((t \o S) \o B)
        <5>1. a \in Seq(Byte) /\ t \in Seq(Byte) /\ S \in Seq(Byte) /\ B \in Seq(Byte)
          BY <2>2, <2>3
        <5>. QED BY ONLY <5>1, SMTT(30)
      <4>. QED BY <4>1, <4>2, <4>3
    <3>. QED BY <1>0, <3>1, <3>2
  <2>5. CASE a = << >>
    <3>1. client'.got = client.got /\ ClientTransit = ClientTransit'
      <4>1. client.got \in Seq(Byte)
        OBVIOUS
      <4>. HIDE DEF a
      <4>. QED BY <2>2, <2>3, <2>4, <2>5, <4>1, EmptyEnds
    <3>. QED BY <1>1, <2>1, <3>1
  <2>6. CASE a # << >>
    <3>1. Arrived(client.got, ClientTransit, client'.got, ClientTransit')
      BY <2>2, <2>3, <2>4, <2>6 DEF Arrived
    <3>. QED BY <1>0, <2>1, <3>1 DEF ClientMoves
  <2>. QED BY <2>5, <2>6
<1>5. CASE UpstreamSend
  <2>1. /\ ~upstream.closed /\ tcp_in' = Append(tcp_in, upstream.sent + 1)
        /\ UNCHANGED <<ws_out, client>> /\ upstream'.sent = upstream.sent + 1
        /\ upstream.sent + 1 \in Byte
    BY <1>5 DEF UpstreamSend, Byte
  <2>. QED BY <1>0, <2>1, ByteClient
<1>6. CASE UpstreamClose
  <2>1. tcp_in \in Seq(Byte)
    BY <1>6 DEF UpstreamClose, EndsOK
  <2>2. PICK end \in {Eof, Reset} : tcp_in' = Append(tcp_in, end)
    BY <1>6 DEF UpstreamClose
  <2>3. Bytes(tcp_in') = Bytes(tcp_in)
    BY <2>1, <2>2, BytesOf
  <2>4. ws_out' = ws_out /\ client' = client /\ upstream'.sent = upstream.sent
    BY <1>6 DEF UpstreamClose
  <2>5. ClientTransit' = ClientTransit
    BY <1>0, <2>3, <2>4 DEF ClientTransit
  <2>. QED BY <1>1, <2>4, <2>5
<1>7. CASE UpstreamReceive
  <2>1. tcp_out # << >> /\ UNCHANGED <<ws_out, client>> /\ Queue(tcp_out)
    BY <1>7 DEF UpstreamReceive, QueuesTyped
  <2>2. \/ tcp_in' = tcp_in /\ upstream'.sent = upstream.sent
        \/ /\ Head(tcp_out) > 0 /\ upstream.echo /\ ~upstream.closed
           /\ tcp_in' = Append(tcp_in, Head(tcp_out)) /\ upstream'.sent = upstream.sent + 1
    BY <1>7 DEF UpstreamReceive
  <2>3. CASE /\ Head(tcp_out) > 0 /\ upstream.echo /\ ~upstream.closed
             /\ tcp_in' = Append(tcp_in, Head(tcp_out)) /\ upstream'.sent = upstream.sent + 1
    <3>1. Head(tcp_out) \in Byte \cup {Eof, Reset}
      BY <2>1, QueueHead
    <3>2. Head(tcp_out) \in Byte
      BY <2>3, <3>1 DEF Eof, Reset
    <3>3. pc \in Working => Head(tcp_out) = upstream.sent + 1
      BY <2>1, <2>3, EchoNext
    <3>. QED BY <1>0, <2>1, <2>3, <3>2, <3>3, ByteClient
  <2>. QED BY <1>2, <2>1, <2>2, <2>3
<1>. QED BY <1>3, <1>4, <1>5, <1>6, <1>7 DEF Next

\* What every step does to the stream towards the client.
LEMMA StepClient ==
    ASSUME Inv, [Next]_vars, Typed'
    PROVE  ClientMoves
<1>1. UpstreamParts /\ ClientParts /\ ClientParts'
  BY UpstreamPartsOK, ClientPartsOK, ClientPartsNext DEF Inv
<1>. QED BY <1>1, LoopClient, PeersClient

-----------------------------------------------------------------------------
(* What arrives is what was sent *)

\* A stream that moved still carries everything that was sent.
Whole(got, transit, sent) == got \o transit = Numbers(1, sent)

LEMMA ArrivedKept ==
    ASSUME NEW got \in Seq(Byte), NEW transit, NEW newGot, NEW newTransit, NEW sent,
           Whole(got, transit, sent), Arrived(got, transit, newGot, newTransit)
    PROVE  Whole(newGot, newTransit, sent)
<1>1. PICK a \in Seq(Byte) \ {<< >>} :
             /\ newTransit \in Seq(Byte)
             /\ transit = a \o newTransit /\ newGot = got \o a
  BY DEF Arrived
<1>2. (got \o a) \o newTransit = got \o (a \o newTransit)
  <2>1. a \in Seq(Byte) /\ newTransit \in Seq(Byte) /\ got \in Seq(Byte)
    BY <1>1
  <2>. QED BY ONLY <2>1, SMTT(30)
<1>. QED BY <1>1, <1>2, Zenon DEF Whole

LEMMA AddedKept ==
    ASSUME NEW got \in Seq(Byte), NEW transit \in Seq(Byte), NEW newGot, NEW newTransit,
           NEW sent \in Nat, NEW k, Whole(got, transit, sent),
           Added(got, transit, newGot, newTransit, sent, k)
    PROVE  Whole(newGot, newTransit, sent + k)
<1>. DEFINE m == Numbers(sent + 1, sent + k)
<1>1. k \in Nat \ {0} /\ newGot = got /\ newTransit = transit \o m
  BY Zenon DEF Added
<1>2. m \in Seq(Byte) /\ Numbers(1, sent) \o m = Numbers(1, sent + k)
  BY <1>1, MoreNumbers
<1>. HIDE DEF m
<1>3. got \o (transit \o m) = (got \o transit) \o m
  <2>1. m \in Seq(Byte) /\ got \in Seq(Byte) /\ transit \in Seq(Byte)
    BY <1>2
  <2>. QED BY ONLY <2>1, SMTT(30)
<1>. QED BY <1>1, <1>2, <1>3, Zenon DEF Whole

LEMMA StreamsStep ==
    ASSUME Inv, [Next]_vars, Typed', EndsOK', UpstreamMoves, ClientMoves
    PROVE  StreamsOK'
<1>1. upstream'.echo => upstream'.sent = Len(upstream'.got)
  <2>1. PeersTyped /\ (upstream.echo => upstream.sent = Len(upstream.got))
    BY DEF Inv, Typed, StreamsOK
  <2>2. CASE upstream'.echo = upstream.echo /\ upstream'.sent = upstream.sent
             /\ upstream'.got = upstream.got
    BY <2>1, <2>2
  <2>3. CASE UpstreamSend
    BY <2>1, <2>3 DEF UpstreamSend, PeersTyped
  <2>4. CASE UpstreamReceive
    <3>1. CASE /\ upstream' = [upstream EXCEPT !.sent = @ + 1, !.got = Append(@, Head(tcp_out))]
      <4>1. upstream'.sent = upstream.sent + 1 /\ upstream'.got = Append(upstream.got, Head(tcp_out))
            /\ upstream'.echo = upstream.echo
        BY <2>1, <3>1 DEF PeersTyped
      <4>2. Len(Append(upstream.got, Head(tcp_out))) = Len(upstream.got) + 1
        BY <2>1 DEF PeersTyped
      <4>. QED BY <2>1, <4>1, <4>2
    <3>2. CASE ~upstream.echo /\ upstream' = [upstream EXCEPT !.got = Append(@, Head(tcp_out))]
      BY <2>1, <3>2 DEF PeersTyped
    <3>3. CASE \/ upstream' = [upstream EXCEPT !.saw_eof = TRUE]
               \/ upstream' = [upstream EXCEPT !.closed = TRUE]
      BY <2>1, <2>2, <3>3 DEF PeersTyped
    <3>. QED BY <2>4, <3>1, <3>2, <3>3 DEF UpstreamReceive
  <2>5. CASE UpstreamClose
    BY <2>1, <2>2, <2>5 DEF UpstreamClose, PeersTyped
  <2>6. CASE upstream' = upstream
    BY <2>2, <2>6
  <2>7. Loop => upstream' = upstream
    BY LoopStep DEF Leaves, WriteUpstream
  <2>. QED BY <2>3, <2>4, <2>5, <2>6, <2>7
           DEF Next, ClientSend, ClientPing, ClientClose, ClientReceive, vars
<1>2. ASSUME pc' \in Working
      PROVE  /\ upstream'.got \o UpstreamTransit' = Numbers(1, client'.sent)
             /\ client'.got \o ClientTransit' = Numbers(1, upstream'.sent)
  <2>1. pc \in Working /\ pc' \notin Ended
    BY <1>2, WorkingStep DEF Working, Ended
  <2>2. /\ upstream.got \in Seq(Byte) /\ client.got \in Seq(Byte)
        /\ client.sent \in Nat /\ upstream.sent \in Nat
        /\ UpstreamTransit \in Seq(Byte) /\ ClientTransit \in Seq(Byte)
    BY UpstreamPartsOK, ClientPartsOK DEF Inv, Typed, PeersTyped, UpstreamParts, ClientParts
  <2>3. /\ upstream.got \o UpstreamTransit = Numbers(1, client.sent)
        /\ client.got \o ClientTransit = Numbers(1, upstream.sent)
    BY <2>1 DEF Inv, StreamsOK
  <2>4. upstream'.got \o UpstreamTransit' = Numbers(1, client'.sent)
    <3>. DEFINE got == upstream.got
                transit == UpstreamTransit
                newGot == upstream'.got
                newTransit == UpstreamTransit'
                sent == client.sent
    <3>1. got \in Seq(Byte) /\ transit \in Seq(Byte) /\ sent \in Nat
          /\ Whole(got, transit, sent)
      BY <2>2, <2>3 DEF Whole
    <3>2. \/ Still(got, transit, newGot, newTransit) /\ client'.sent = sent
          \/ Arrived(got, transit, newGot, newTransit) /\ client'.sent = sent
          \/ \E k \in Nat : Added(got, transit, newGot, newTransit, sent, k)
                            /\ client'.sent = sent + k
      BY <2>1, Zenon DEF UpstreamMoves
    <3>. HIDE DEF got, transit, newGot, newTransit, sent
    <3>3. CASE Still(got, transit, newGot, newTransit) /\ client'.sent = sent
      BY <3>1, <3>3, Zenon DEF Still, Whole, newGot, newTransit
    <3>4. CASE Arrived(got, transit, newGot, newTransit) /\ client'.sent = sent
      <4>1. Whole(newGot, newTransit, sent)
        BY <3>1, <3>4, ArrivedKept
      <4>. QED BY <3>4, <4>1, Zenon DEF Whole, newGot, newTransit
    <3>5. ASSUME NEW k \in Nat, Added(got, transit, newGot, newTransit, sent, k),
                 client'.sent = sent + k
          PROVE  upstream'.got \o UpstreamTransit' = Numbers(1, client'.sent)
      <4>1. Whole(newGot, newTransit, sent + k)
        BY <3>1, <3>5, AddedKept
      <4>. QED BY <3>5, <4>1, Zenon DEF Whole, newGot, newTransit
    <3>. QED BY <3>2, <3>3, <3>4, <3>5, Zenon
  <2>5. client'.got \o ClientTransit' = Numbers(1, upstream'.sent)
    <3>. DEFINE got == client.got
                transit == ClientTransit
                newGot == client'.got
                newTransit == ClientTransit'
                sent == upstream.sent
    <3>1. got \in Seq(Byte) /\ transit \in Seq(Byte) /\ sent \in Nat
          /\ Whole(got, transit, sent)
      BY <2>2, <2>3 DEF Whole
    <3>2. \/ Still(got, transit, newGot, newTransit) /\ upstream'.sent = sent
          \/ Arrived(got, transit, newGot, newTransit) /\ upstream'.sent = sent
          \/ Added(got, transit, newGot, newTransit, sent, 1) /\ upstream'.sent = sent + 1
      BY <2>1, Zenon DEF ClientMoves
    <3>. HIDE DEF got, transit, newGot, newTransit, sent
    <3>3. CASE Still(got, transit, newGot, newTransit) /\ upstream'.sent = sent
      BY <3>1, <3>3, Zenon DEF Still, Whole, newGot, newTransit
    <3>4. CASE Arrived(got, transit, newGot, newTransit) /\ upstream'.sent = sent
      <4>1. Whole(newGot, newTransit, sent)
        BY <3>1, <3>4, ArrivedKept
      <4>. QED BY <3>4, <4>1, Zenon DEF Whole, newGot, newTransit
    <3>5. CASE Added(got, transit, newGot, newTransit, sent, 1) /\ upstream'.sent = sent + 1
      <4>1. Whole(newGot, newTransit, sent + 1)
        BY <3>1, <3>5, AddedKept
      <4>. QED BY <3>5, <4>1, Zenon DEF Whole, newGot, newTransit
    <3>. QED BY <3>2, <3>3, <3>4, <3>5, Zenon
  <2>. QED BY <2>4, <2>5
<1>. QED BY <1>1, <1>2 DEF StreamsOK

-----------------------------------------------------------------------------
(* After the end *)

\* A peer that has closed stays closed and sends nothing more.
LEMMA ClosedStays ==
    ASSUME Inv, [Next]_vars
    PROVE  /\ client.closed => client'.closed /\ client'.sent = client.sent
           /\ upstream.closed => upstream'.closed /\ upstream'.sent = upstream.sent
<1>. USE DEF Inv, Typed, PeersTyped
<1>1. CASE UNCHANGED <<client, upstream>>
  BY <1>1
<1>2. CASE ClientSend \/ ClientPing \/ ClientClose
  BY <1>2 DEF ClientSend, ClientPing, ClientClose
<1>3. CASE ClientReceive
  BY <1>3 DEF ClientReceive
<1>4. CASE UpstreamSend \/ UpstreamClose
  BY <1>4 DEF UpstreamSend, UpstreamClose
<1>5. CASE UpstreamReceive
  BY <1>5 DEF UpstreamReceive
<1>6. Loop => UNCHANGED <<client, upstream>>
  BY LoopStep DEF Leaves, WriteUpstream
<1>. QED BY <1>1, <1>2, <1>3, <1>4, <1>5, <1>6 DEF Next, vars

\* The loop is left, or the peers go on after it.
LEMMA EndedStep ==
    ASSUME Inv, [Next]_vars, pc' \in Ended
    PROVE  \/ \E toClient : Leaves(toClient)
           \/ ~Loop /\ pc' = pc
<1>1. CASE Loop
  BY <1>1, LoopStep DEF WriteUpstream, Await, Ended
<1>2. CASE ~Loop
  BY <1>2 DEF Next, ClientSend, ClientPing, ClientClose, ClientReceive, UpstreamSend,
              UpstreamClose, UpstreamReceive, vars, router
<1>. QED BY <1>1, <1>2

\* The byte that an upstream reads from a stream that has ended.
LEMMA ReadBeforeEnd ==
    ASSUME Inv, UpstreamReceive, NEW b \in Seq(Byte), NEW end \in {Eof, Reset},
           tcp_out = Append(b, end), b # << >>
    PROVE  /\ tcp_out' = Append(Tail(b), end) /\ Tail(b) \in Seq(Byte)
           /\ upstream'.got \o Tail(b) = upstream.got \o b
           /\ upstream'.saw_eof = upstream.saw_eof
<1>1. Head(b) \in Byte /\ Tail(b) \in Seq(Byte) /\ b = <<Head(b)>> \o Tail(b)
  OBVIOUS
<1>2. Head(tcp_out) = Head(b) /\ tcp_out' = Append(Tail(b), end)
  BY DEF Eof, Reset, UpstreamReceive
<1>3. Head(tcp_out) # Eof /\ Head(tcp_out) # Reset
  BY <1>1, <1>2 DEF Byte, Eof, Reset
<1>4. upstream \in [echo : BOOLEAN, sent : Nat, closed : BOOLEAN, got : Seq(Byte),
                    saw_eof : BOOLEAN]
  BY DEF Inv, Typed, PeersTyped
<1>5. upstream'.got = Append(upstream.got, Head(b)) /\ upstream'.saw_eof = upstream.saw_eof
  <2>1. \/ upstream' = [upstream EXCEPT !.sent = @ + 1, !.got = Append(@, Head(tcp_out))]
        \/ upstream' = [upstream EXCEPT !.got = Append(@, Head(tcp_out))]
    BY <1>3 DEF UpstreamReceive
  <2>. QED BY <1>2, <1>4, <2>1
<1>. DEFINE g == upstream.got
            h == <<Head(b)>>
            t == Tail(b)
<1>6. g \in Seq(Byte) /\ h \in Seq(Byte) /\ t \in Seq(Byte) /\ b = h \o t
  BY <1>1, <1>4
<1>7. upstream'.got = g \o h
  BY <1>1, <1>4, <1>5
<1>. HIDE DEF g, h, t
<1>8. (g \o h) \o t = g \o (h \o t)
  BY ONLY <1>6, SMTT(30)
<1>9. upstream'.got \o t = g \o b
  BY <1>6, <1>7, <1>8, Zenon
<1>. QED BY <1>1, <1>2, <1>5, <1>9 DEF g, t

LEMMA UpstreamEndStep ==
    ASSUME Inv, [Next]_vars, pc' = "done", ~upstream'.closed
    PROVE  client'.closed /\ UpstreamEnd'
<1>. USE DEF Inv
<1>0. PeersTyped
  BY DEF Typed
<1>1. ASSUME NEW toClient, Leaves(toClient) PROVE client'.closed /\ UpstreamEnd'
  <2>1. pc \in {"send_close", "shutdown"} /\ pc \in Working /\ UNCHANGED <<client, upstream>>
    BY <1>1 DEF Leaves
  <2>2. pc = "shutdown" /\ client.closed /\ ws_in = << >>
    BY <2>1 DEF EndsOK
  <2>3. tcp_out \in Seq(Byte) /\ ~upstream.saw_eof
    BY <2>1 DEF EndsOK
  <2>4. UpstreamTransit = tcp_out
    <3>1. UpstreamTransit = (tcp_out \o Written) \o Payload(ws_in)
      BY <2>1, UpstreamPartsOK DEF UpstreamParts
    <3>2. Written = << >> /\ Payload(ws_in) = << >>
      BY <2>2, PayloadNone DEF Written
    <3>3. (tcp_out \o << >>) \o << >> = tcp_out
      BY <2>3
    <3>. QED BY <3>1, <3>2, <3>3
  <2>5. upstream.got \o tcp_out = Numbers(1, client.sent)
    BY <2>1, <2>4, Zenon DEF StreamsOK
  <2>6. PICK b \in Seq(Byte), rest \in Seq(Byte), end \in {Eof, Reset} :
               tcp_out' = Append(b, end) /\ (end = Eof => b = tcp_out)
    BY <1>1, LeaveFacts
  <2>7. CASE end = Eof
    <3>1. /\ tcp_out' = Append(b, Eof) /\ ~upstream'.saw_eof
          /\ upstream'.got \o b = Numbers(1, client'.sent)
      BY <2>1, <2>3, <2>5, <2>6, <2>7, Zenon
    <3>2. UpstreamEnd'
      BY <3>1, Zenon DEF UpstreamEnd
    <3>. QED BY <2>1, <2>2, <3>2
  <2>8. CASE end = Reset
    <3>1. tcp_out' = Append(b, Reset) /\ ~upstream'.saw_eof
      BY <2>1, <2>3, <2>6, <2>8, Zenon
    <3>2. UpstreamEnd'
      BY <3>1, Zenon DEF UpstreamEnd
    <3>. QED BY <2>1, <2>2, <3>2
  <2>. QED BY <2>7, <2>8
<1>2. CASE ~Loop /\ pc' = pc
  <2>1. ~upstream.closed /\ pc = "done"
    BY <1>2, ClosedStays
  <2>2. client.closed /\ UpstreamEnd
    BY <2>1 DEF AfterEnd
  <2>3. client'.closed /\ client'.sent = client.sent
    BY <2>2, ClosedStays
  <2>4. CASE UpstreamReceive
    <3>1. tcp_out # << >> /\ tcp_out' = Tail(tcp_out)
      BY <2>4 DEF UpstreamReceive
    <3>2. ASSUME NEW b \in Seq(Byte), tcp_out = Append(b, Eof), ~upstream.saw_eof,
                 upstream.got \o b = Numbers(1, client.sent)
          PROVE  UpstreamEnd'
      <4>1. CASE b = << >>
        <5>1. tcp_out = <<Eof>>
          BY <3>2, <4>1
        <5>2. Head(tcp_out) = Eof /\ tcp_out' = << >> /\ ~(Head(tcp_out) > 0) /\ Eof # Reset
          BY <3>1, <5>1 DEF Eof, Reset
        <5>3. upstream' = [upstream EXCEPT !.saw_eof = TRUE]
          BY <2>4, <5>2 DEF UpstreamReceive
        <5>4. upstream'.saw_eof /\ upstream'.got = upstream.got /\ upstream.got \in Seq(Byte)
          BY <1>0, <5>3 DEF PeersTyped
        <5>5. upstream.got \o << >> = upstream.got
          BY <5>4, EmptyEnds
        <5>6. upstream'.got = Numbers(1, client'.sent)
          BY <2>3, <3>2, <4>1, <5>4, <5>5, Zenon
        <5>. QED BY <5>2, <5>4, <5>6, Zenon DEF UpstreamEnd
      <4>2. CASE b # << >>
        <5>1. /\ tcp_out' = Append(Tail(b), Eof) /\ Tail(b) \in Seq(Byte)
              /\ upstream'.got \o Tail(b) = upstream.got \o b
              /\ upstream'.saw_eof = upstream.saw_eof
          BY <2>4, <3>2, <4>2, ReadBeforeEnd
        <5>2. upstream'.got \o Tail(b) = Numbers(1, client'.sent) /\ ~upstream'.saw_eof
          BY <2>3, <3>2, <5>1, Zenon
        <5>. QED BY <5>1, <5>2, Zenon DEF UpstreamEnd
      <4>. QED BY <4>1, <4>2
    <3>3. ASSUME NEW b \in Seq(Byte), tcp_out = Append(b, Reset), ~upstream.saw_eof
          PROVE  UpstreamEnd'
      <4>1. b # << >>
        <5>. SUFFICES ASSUME b = << >> PROVE FALSE
          OBVIOUS
        <5>1. tcp_out = <<Reset>>
          BY <3>3
        <5>2. Head(tcp_out) = Reset /\ ~(Head(tcp_out) > 0) /\ Eof # Reset
          BY <5>1 DEF Eof, Reset
        <5>3. upstream' = [upstream EXCEPT !.closed = TRUE]
          BY <2>4, <5>2 DEF UpstreamReceive
        <5>. QED BY <1>0, <5>3 DEF PeersTyped
      <4>2. /\ tcp_out' = Append(Tail(b), Reset) /\ Tail(b) \in Seq(Byte)
            /\ upstream'.saw_eof = upstream.saw_eof
        BY <2>4, <3>3, <4>1, ReadBeforeEnd
      <4>. QED BY <3>3, <4>2, Zenon DEF UpstreamEnd
    <3>4. UpstreamEnd'
      BY <2>2, <3>1, <3>2, <3>3, Zenon DEF UpstreamEnd
    <3>. QED BY <2>3, <3>4
  <2>5. CASE ~UpstreamReceive
    <3>1. tcp_out' = tcp_out /\ upstream'.got = upstream.got /\ upstream'.saw_eof = upstream.saw_eof
      BY <1>0, <1>2, <2>5 DEF Next, ClientSend, ClientPing, ClientClose, ClientReceive,
         UpstreamSend, UpstreamClose, vars, PeersTyped
    <3>2. UpstreamEnd'
      BY <2>2, <2>3, <3>1, Zenon DEF UpstreamEnd
    <3>. QED BY <2>3, <3>2
  <2>. QED BY <2>4, <2>5
<1>. QED BY <1>1, <1>2, EndedStep DEF Ended

\* The Close that the last step of the loop sends.
LEMMA ClientEndLeft ==
    ASSUME Inv, NEW toClient, Leaves(toClient)
    PROVE  ClientEnd'
<1>. USE DEF Inv
<1>1. /\ pc \in Working /\ UNCHANGED <<client, upstream>> /\ ~client.saw_close
      /\ ws_out \in Seq(Messages) /\ \A i \in 1 .. Len(ws_out) : ws_out[i].kind # "Close"
  BY DEF Leaves, EndsOK, Typed, QueuesTyped
<1>2. PICK n \in 0 .. Len(toClient), end \in {"eof", "error"} :
             ws_out' = Append(SubSeq(toClient, 1, n), Control(end))
  BY LeaveFacts
<1>3. toClient \in Seq(Messages) /\ Payload(toClient) = Payload(ws_out)
  BY LeaveFacts
<1>4. Control(end) \in Messages /\ Control(end).bytes = << >> /\ Control(end).kind # "Close"
  BY ControlTypes
<1>. DEFINE part == SubSeq(toClient, 1, n)
<1>5. part \in Seq(Messages) /\ Len(part) = n /\ \A i \in 1 .. n : part[i] = toClient[i]
  BY <1>3
<1>6. /\ Len(ws_out') = n + 1 /\ ws_out'[n + 1] = Control(end)
      /\ \A i \in 1 .. n : ws_out'[i] = toClient[i]
  <2>. HIDE DEF part
  <2>1. ws_out' = Append(part, Control(end))
    BY <1>2 DEF part
  <2>. QED BY <1>4, <1>5, <2>1
<1>7. ASSUME NEW i \in 1 .. Len(ws_out'), ws_out'[i].kind = "Close"
      PROVE  /\ i = Len(ws_out') - 1 /\ ws_out'[Len(ws_out')].bytes = << >>
             /\ upstream'.closed
             /\ client'.got \o Payload(ws_out') = Numbers(1, upstream'.sent)
  <2>1. i \in 1 .. n /\ toClient[i].kind = "Close"
    <3>1. i # n + 1
      BY <1>4, <1>6, <1>7
    <3>2. i \in 1 .. n
      BY <1>6, <3>1
    <3>. QED BY <1>6, <1>7, <3>2
  <2>2. toClient # ws_out
    <3>1. i \in 1 .. Len(toClient)
      BY <1>2, <2>1
    <3>. QED BY <1>1, <2>1, <3>1
  <2>3. pc = "send_close" /\ toClient = ws_out \o <<Control("Close")>>
    BY <2>2 DEF Leaves, Typed, LoopTyped
  <2>4. Len(toClient) = Len(ws_out) + 1 /\ \A j \in 1 .. Len(ws_out) : toClient[j] = ws_out[j]
    <3>1. Control("Close") \in Messages
      BY ControlTypes
    <3>. HIDE DEF Control
    <3>. QED BY <1>1, <2>3, <3>1
  <2>5. i = Len(ws_out) + 1 /\ n = Len(toClient) /\ i = n
    <3>1. i \notin 1 .. Len(ws_out)
      BY <1>1, <2>1, <2>4
    <3>2. Len(ws_out) \in Nat
      BY <1>1
    <3>. QED BY <2>1, <2>4, <3>1, <3>2
  <2>6. upstream.closed /\ tcp_in = << >>
    BY <2>3 DEF EndsOK
  <2>7. Payload(ws_out') = Payload(ws_out) /\ Payload(ws_out) \in Seq(Byte)
    <3>1. part = toClient
      BY <1>3, <2>5
    <3>2. Payload(ws_out') = Payload(toClient) \o << >>
      BY <1>2, <1>3, <1>4, <3>1, PayloadAppend
    <3>3. Payload(toClient) \in Seq(Byte)
      BY <1>3, PayloadType
    <3>. QED BY <1>3, <3>2, <3>3, EmptyEnds
  <2>8. ClientTransit = Payload(ws_out)
    <3>1. ClientTransit = (Payload(ws_out) \o Sent) \o Bytes(tcp_in)
      BY <1>1, ClientPartsOK DEF ClientParts
    <3>2. Sent = << >> /\ Bytes(tcp_in) = << >>
      BY <2>3, <2>6 DEF Sent, Bytes
    <3>3. (Payload(ws_out) \o << >>) \o << >> = Payload(ws_out)
      BY <2>7
    <3>. QED BY <3>1, <3>2, <3>3
  <2>9. client.got \o Payload(ws_out) = Numbers(1, upstream.sent)
    BY <1>1, <2>8, Zenon DEF StreamsOK
  <2>10. client'.got \o Payload(ws_out') = Numbers(1, upstream'.sent)
    BY <1>1, <2>7, <2>9, Zenon
  <2>11. i = Len(ws_out') - 1 /\ ws_out'[Len(ws_out')].bytes = << >>
    BY <1>4, <1>6, <2>5
  <2>. QED BY <1>1, <2>6, <2>10, <2>11
<1>8. ~client'.saw_close
  BY <1>1
<1>. QED BY <1>7, <1>8, Zenon DEF ClientEnd

\* What the client receives after the loop was left.
LEMMA ClientEndReceived ==
    ASSUME Inv, ClientReceive, ClientEnd
    PROVE  ClientEnd'
<1>. DEFINE h == Head(ws_out)
            t == Payload(ws_out')
            g == client.got
            n == Len(ws_out)
<1>1. /\ ws_out # << >> /\ ws_out' = Tail(ws_out) /\ upstream' = upstream
      /\ ws_out \in Seq(Messages) /\ g \in Seq(Byte)
      /\ client'.got = g \o h.bytes
      /\ client'.saw_close = (client.saw_close \/ h.kind = "Close")
  BY DEF ClientReceive, Inv, Typed, QueuesTyped, PeersTyped
<1>2. /\ h \in Messages /\ h = ws_out[1] /\ n \in Nat \ {0} /\ 1 \in 1 .. n
      /\ Tail(ws_out) \in Seq(Messages) /\ Len(ws_out') = n - 1
      /\ \A i \in 1 .. n - 1 : ws_out'[i] = ws_out[i + 1] /\ i + 1 \in 1 .. n
  BY <1>1
<1>3. /\ h.bytes \in Seq(Byte) /\ t \in Seq(Byte) /\ Payload(ws_out) = h.bytes \o t
  BY <1>1, <1>2, MessageTypes, PayloadTail, PayloadType
<1>4. client'.got \o t = g \o Payload(ws_out)
  <2>. DEFINE a == h.bytes
  <2>1. a \in Seq(Byte) /\ t \in Seq(Byte) /\ g \in Seq(Byte)
    BY <1>1, <1>3
  <2>2. client'.got = g \o a /\ Payload(ws_out) = a \o t
    BY <1>1, <1>3
  <2>. HIDE DEF a, g, t
  <2>3. (g \o a) \o t = g \o (a \o t)
    BY ONLY <2>1, SMTT(30)
  <2>. QED BY <2>2, <2>3, Zenon
<1>5. ASSUME NEW i \in 1 .. Len(ws_out'), ws_out'[i].kind = "Close"
      PROVE  /\ i = Len(ws_out') - 1 /\ ws_out'[Len(ws_out')].bytes = << >>
             /\ upstream'.closed
             /\ client'.got \o Payload(ws_out') = Numbers(1, upstream'.sent)
  <2>0. i \in 1 .. n - 1 /\ i \in Nat
    BY <1>2
  <2>1. i + 1 \in 1 .. n /\ ws_out[i + 1].kind = "Close"
    BY <1>2, <1>5, <2>0
  <2>2. /\ i + 1 = n - 1 /\ ws_out[n].bytes = << >> /\ upstream.closed
        /\ g \o Payload(ws_out) = Numbers(1, upstream.sent)
    BY <2>1, Zenon DEF ClientEnd
  <2>3. i = Len(ws_out') - 1
    BY <1>2, <2>0, <2>2
  <2>4. n - 1 \in 1 .. n - 1 /\ (n - 1) + 1 = n
    BY <1>2, <2>0
  <2>5. ws_out'[Len(ws_out')].bytes = << >>
    BY <1>2, <2>2, <2>4
  <2>6. client'.got \o Payload(ws_out') = Numbers(1, upstream'.sent)
    BY <1>1, <1>4, <2>2, Zenon
  <2>. QED BY <1>1, <2>2, <2>3, <2>5, <2>6
<1>6. ASSUME client'.saw_close
      PROVE  /\ upstream'.closed /\ client'.got = Numbers(1, upstream'.sent)
             /\ \A i \in 1 .. Len(ws_out') : ws_out'[i].bytes = << >>
  <2>1. g \o << >> = g
    BY <1>1, EmptyEnds
  <2>2. CASE client.saw_close
    <3>1. /\ upstream.closed /\ g = Numbers(1, upstream.sent)
          /\ \A i \in 1 .. n : ws_out[i].bytes = << >>
      BY <2>2 DEF ClientEnd
    <3>2. h.bytes = << >>
      BY <1>2, <3>1
    <3>3. client'.got = Numbers(1, upstream'.sent)
      BY <1>1, <2>1, <3>1, <3>2, Zenon
    <3>4. \A i \in 1 .. n - 1 : ws_out'[i].bytes = << >>
      BY <1>2, <3>1
    <3>. QED BY <1>1, <1>2, <3>1, <3>3, <3>4
  <2>3. CASE h.kind = "Close"
    <3>1. ws_out[1].kind = "Close"
      BY <1>2, <2>3
    <3>2. /\ 1 = n - 1 /\ ws_out[n].bytes = << >> /\ upstream.closed
          /\ g \o Payload(ws_out) = Numbers(1, upstream.sent)
      BY <1>2, <3>1, Zenon DEF ClientEnd
    <3>3. n = 2 /\ h.bytes = << >>
      <4>. HIDE DEF n, h
      <4>1. n = 2
        BY <1>2, <3>2
      <4>2. h.bytes = << >>
        BY <1>2, <2>3, MessageTypes
      <4>. QED BY <4>1, <4>2
    <3>4. \A i \in 1 .. n - 1 : ws_out'[i].bytes = << >>
      BY <1>2, <3>2, <3>3
    <3>5. ws_out' = <<ws_out'[1]>> /\ ws_out'[1] \in Messages /\ ws_out'[1].bytes = << >>
      <4>1. ws_out' \in Seq(Messages) /\ Len(ws_out') = 1
        BY <1>1, <1>2, <3>3
      <4>2. ws_out'[1] \in Messages /\ ws_out' = <<ws_out'[1]>>
        BY ONLY <4>1
      <4>. QED BY <3>3, <3>4, <4>2
    <3>6. t = << >>
      BY <3>5, PayloadOne
    <3>7. client'.got = Numbers(1, upstream'.sent)
      <4>1. client'.got = g
        BY <1>1, <2>1, <3>3, Zenon
      <4>. QED BY <1>1, <1>4, <2>1, <3>2, <3>6, <4>1, Zenon
    <3>. QED BY <1>1, <1>2, <3>2, <3>4, <3>7
  <2>. QED BY <1>1, <1>6, <2>2, <2>3
<1>. QED BY <1>5, <1>6, Zenon DEF ClientEnd

LEMMA ClientEndStep ==
    ASSUME Inv, [Next]_vars, pc' \in Ended
    PROVE  ClientEnd'
<1>1. CASE \E toClient : Leaves(toClient)
  BY <1>1, ClientEndLeft
<1>2. CASE ~Loop /\ pc' = pc
  <2>1. ClientEnd
    BY <1>2 DEF Inv, AfterEnd
  <2>2. CASE ClientReceive
    BY <2>1, <2>2, ClientEndReceived
  <2>3. CASE ~ClientReceive
    <3>1. ws_out' = ws_out /\ client'.got = client.got /\ client'.saw_close = client.saw_close
      BY <1>2, <2>3 DEF Next, ClientSend, ClientPing, ClientClose, UpstreamSend, UpstreamClose,
         UpstreamReceive, vars, Inv, Typed, PeersTyped
    <3>2. upstream.closed => upstream'.closed /\ upstream'.sent = upstream.sent
      BY ClosedStays
    <3>. QED BY <2>1, <3>1, <3>2, Zenon DEF ClientEnd
  <2>. QED BY <2>2, <2>3
<1>. QED BY <1>1, <1>2, EndedStep

-----------------------------------------------------------------------------
(* The theorems *)

LEMMA InitInv == Init => Inv
<1>. SUFFICES ASSUME Init PROVE Inv
  OBVIOUS
<1>1. << >> \in Seq(Byte) /\ << >> \in Seq(Messages)
  OBVIOUS
<1>2. Payload(<< >>) = << >> /\ Bytes(<< >>) = << >> /\ << >> \o << >> = << >>
  BY PayloadNone DEF Bytes
<1>3. Numbers(1, 0) = << >>
  <2>1. Numbers(1, 0) \in Seq(Byte) /\ Len(Numbers(1, 0)) = 0
    <3>1. 0 \in Nat /\ 1 \in Nat \ {0}
      OBVIOUS
    <3>. QED BY <3>1, MoreNumbers
  <2>. QED BY <2>1
<1>4. PeersTyped
  <2>1. client \in [sent : Nat, pings : Nat, closed : BOOLEAN, got : Seq(Byte),
                    saw_close : BOOLEAN]
    BY <1>1 DEF Init
  <2>2. PICK echo \in BOOLEAN :
               upstream = [echo |-> echo, sent |-> 0, closed |-> FALSE, got |-> << >>,
                           saw_eof |-> FALSE]
    BY ProxyTcpAssumption DEF Init
  <2>3. upstream \in [echo : BOOLEAN, sent : Nat, closed : BOOLEAN, got : Seq(Byte),
                      saw_eof : BOOLEAN]
    BY <1>1, <2>2
  <2>. QED BY <2>1, <2>3 DEF PeersTyped
<1>5. QueuesTyped /\ LoopTyped
  BY <1>1 DEF Init, QueuesTyped, LoopTyped, Queue, Working
<1>6. EndsOK
  <2>1. /\ ws_in = << >> /\ ws_out = << >> /\ tcp_in = << >> /\ tcp_out = << >> /\ pc = "select"
        /\ ~client.saw_close /\ ~upstream.saw_eof
    BY DEF Init
  <2>2. \A i \in 1 .. Len(<< >>) : FALSE
    OBVIOUS
  <2>. QED BY <1>1, <2>1, <2>2 DEF EndsOK
<1>7. UpstreamTransit = << >> /\ ClientTransit = << >>
  BY <1>2 DEF Init, UpstreamTransit, ClientTransit, Ended
<1>8. /\ upstream.got = << >> /\ client.got = << >> /\ upstream.sent = 0 /\ client.sent = 0
      /\ Len(<< >>) = 0
  BY DEF Init
<1>9. StreamsOK
  BY <1>2, <1>3, <1>7, <1>8, Zenon DEF StreamsOK
<1>10. AfterEnd
  BY DEF Init, AfterEnd, Ended
<1>. QED BY <1>4, <1>5, <1>6, <1>9, <1>10 DEF Inv, Typed

\* What a step preserves, and how it moves both streams.
LEMMA StepInv == Inv /\ [Next]_vars => Inv' /\ UpstreamMoves /\ ClientMoves
<1>. SUFFICES ASSUME Inv, [Next]_vars PROVE Inv' /\ UpstreamMoves /\ ClientMoves
  OBVIOUS
<1>1. Typed' /\ EndsOK'
  BY PeersTypedStep, QueuesTypedStep, LoopTypedStep, EndsStep DEF Typed
<1>2. UpstreamMoves /\ ClientMoves
  BY <1>1, StepUpstream, StepClient
<1>3. StreamsOK'
  BY <1>1, <1>2, StreamsStep
<1>4. AfterEnd'
  BY UpstreamEndStep, ClientEndStep DEF AfterEnd
<1>. QED BY <1>1, <1>2, <1>3, <1>4 DEF Inv

\* The invariant of the tunnel: while the loop of proxy_tcp() runs, what each side received
\* and what is on its way are all the other side sent, in order; the loop ends a stream only
\* when it is left; and after it was left in good order everything comes before the end.
THEOREM TcpInvariance == Spec => []Inv
<1>1. Inv /\ [Next]_vars => Inv'
  BY StepInv
<1>. QED BY <1>1, InitInv, PTL DEF Spec

\* Once a side has seen an orderly end of the tunnel it has everything the other side sent:
\* the upstream after shutdown(), the client after Close (proxy.rs, the breaks of proxy_tcp).
THEOREM OrderlyEndComesLast == Spec => []EndComesLast
<1>1. Inv => EndComesLast
  <2>. SUFFICES ASSUME Inv PROVE EndComesLast
    OBVIOUS
  <2>1. ASSUME upstream.saw_eof, pc = "done", ~upstream.closed
        PROVE  upstream.got = Numbers(1, client.sent)
    BY <2>1, Zenon DEF Inv, AfterEnd, UpstreamEnd
  <2>2. ASSUME client.saw_close PROVE client.got = Numbers(1, upstream.sent)
    <3>1. pc \in Ended
      BY <2>2 DEF Inv, EndsOK, Typed, LoopTyped
    <3>. QED BY <2>2, <3>1 DEF Inv, AfterEnd, ClientEnd
  <2>. QED BY <2>1, <2>2 DEF EndComesLast
<1>. QED BY <1>1, TcpInvariance, PTL

\* The tunnel is a byte stream from the client to the upstream: what arrives is what was
\* sent, in order, however messages and partial writes split it, and the end of the tunnel
\* costs only the last part of what was on its way.
THEOREM TunnelToUpstream == Spec => PipeToUpstream
<1>1. Init => ToUpstream!PipeInit
  <2>. SUFFICES ASSUME Init PROVE ToUpstream!PipeInit
    OBVIOUS
  <2>1. UpstreamTransit = << >>
    BY PayloadNone DEF Init, UpstreamTransit, Ended, Bytes
  <2>2. upstream.got = << >> /\ pc \notin Ended
    BY DEF Init, Ended
  <2>. QED BY <2>1, <2>2 DEF ToUpstream!PipeInit
<1>2. Inv /\ [Next]_vars =>
         [ToUpstream!Send \/ ToUpstream!Receive \/ ToUpstream!Cut]_<<UpstreamTransit, upstream.got, pc \in Ended>>
  <2>. SUFFICES ASSUME Inv, [Next]_vars
                PROVE  \/ ToUpstream!Send \/ ToUpstream!Receive \/ ToUpstream!Cut
                       \/ UNCHANGED <<UpstreamTransit, upstream.got, pc \in Ended>>
    OBVIOUS
  <2>1. UpstreamMoves /\ UpstreamTransit \in Seq(Byte) /\ UpstreamTransit' \in Seq(Byte)
        /\ client.sent \in Nat
    BY StepInv, UpstreamPartsOK, UpstreamPartsNext DEF Inv, UpstreamParts, Typed, PeersTyped
  <2>2. Working \cap Ended = {}
    BY DEF Working, Ended
  <2>3. CASE /\ Still(upstream.got, UpstreamTransit, upstream'.got, UpstreamTransit')
             /\ pc \in Ended <=> pc' \in Ended
    BY <2>3 DEF Still
  <2>4. CASE /\ Arrived(upstream.got, UpstreamTransit, upstream'.got, UpstreamTransit')
             /\ pc' = pc
    <3>1. PICK a \in Seq(Byte) \ {<< >>} :
                 /\ UpstreamTransit = a \o UpstreamTransit' /\ upstream'.got = upstream.got \o a
      BY <2>4 DEF Arrived
    <3>2. PICK n \in 1 .. Len(UpstreamTransit) :
                 /\ a = SubSeq(UpstreamTransit, 1, n)
                 /\ UpstreamTransit' = SubSeq(UpstreamTransit, n + 1, Len(UpstreamTransit))
      <4>1. Splits(UpstreamTransit, a, UpstreamTransit')
        BY <2>1, <3>1, Arrives
      <4>. QED BY <4>1, Zenon DEF Splits
    <3>. QED BY <2>4, <3>1, <3>2 DEF ToUpstream!Receive
  <2>5. ASSUME NEW k \in Nat, pc \in Working, pc' = pc,
               Added(upstream.got, UpstreamTransit, upstream'.got, UpstreamTransit', client.sent, k)
        PROVE  ToUpstream!Send
    <3>. DEFINE m == Numbers(client.sent + 1, client.sent + k)
    <3>1. m \in Seq(Byte) /\ UpstreamTransit' = UpstreamTransit \o m /\ upstream'.got = upstream.got
      BY <2>1, <2>5, MoreNumbers DEF Added
    <3>. HIDE DEF m
    <3>2. IsPrefix(UpstreamTransit, UpstreamTransit')
      BY <2>1, <3>1, PrefixOf
    <3>. QED BY <2>2, <2>5, <3>1, <3>2 DEF ToUpstream!Send, ToUpstream!IsPrefix, IsPrefix
  <2>6. CASE /\ Shortened(upstream.got, UpstreamTransit, upstream'.got, UpstreamTransit')
             /\ pc \in Working /\ pc' \in Ended
    <3>1. PICK rest \in Seq(Byte) : UpstreamTransit = UpstreamTransit' \o rest
      BY <2>6 DEF Shortened
    <3>2. IsPrefix(UpstreamTransit', UpstreamTransit)
      BY <2>1, <3>1, PrefixOf
    <3>. QED BY <2>2, <2>6, <3>2 DEF ToUpstream!Cut, ToUpstream!IsPrefix, IsPrefix, Shortened
  <2>. QED BY <2>1, <2>3, <2>4, <2>5, <2>6, Zenon DEF UpstreamMoves
<1>. QED BY <1>1, <1>2, TcpInvariance, PTL DEF Spec, PipeToUpstream, ToUpstream!PipeSpec

\* And one from the upstream to the client, however the reads cut it into messages and
\* whatever pongs go between them, with an upstream that echoes and one that does not.
THEOREM TunnelToClient == Spec => PipeToClient
<1>1. Init => ToClient!PipeInit
  <2>. SUFFICES ASSUME Init PROVE ToClient!PipeInit
    OBVIOUS
  <2>1. ClientTransit = << >>
    BY PayloadNone DEF Init, ClientTransit, Ended, Bytes
  <2>2. client.got = << >> /\ pc \notin Ended
    BY DEF Init, Ended
  <2>. QED BY <2>1, <2>2 DEF ToClient!PipeInit
<1>2. Inv /\ [Next]_vars =>
         [ToClient!Send \/ ToClient!Receive \/ ToClient!Cut]_<<ClientTransit, client.got, pc \in Ended>>
  <2>. SUFFICES ASSUME Inv, [Next]_vars
                PROVE  \/ ToClient!Send \/ ToClient!Receive \/ ToClient!Cut
                       \/ UNCHANGED <<ClientTransit, client.got, pc \in Ended>>
    OBVIOUS
  <2>1. ClientMoves /\ ClientTransit \in Seq(Byte) /\ ClientTransit' \in Seq(Byte)
        /\ upstream.sent \in Nat
    BY StepInv, ClientPartsOK, ClientPartsNext DEF Inv, ClientParts, Typed, PeersTyped
  <2>2. Working \cap Ended = {}
    BY DEF Working, Ended
  <2>3. CASE /\ Still(client.got, ClientTransit, client'.got, ClientTransit')
             /\ pc \in Ended <=> pc' \in Ended
    BY <2>3 DEF Still
  <2>4. CASE /\ Arrived(client.got, ClientTransit, client'.got, ClientTransit')
             /\ pc' = pc
    <3>1. PICK a \in Seq(Byte) \ {<< >>} :
                 /\ ClientTransit = a \o ClientTransit' /\ client'.got = client.got \o a
      BY <2>4 DEF Arrived
    <3>2. PICK n \in 1 .. Len(ClientTransit) :
                 /\ a = SubSeq(ClientTransit, 1, n)
                 /\ ClientTransit' = SubSeq(ClientTransit, n + 1, Len(ClientTransit))
      <4>1. Splits(ClientTransit, a, ClientTransit')
        BY <2>1, <3>1, Arrives
      <4>. QED BY <4>1, Zenon DEF Splits
    <3>. QED BY <2>4, <3>1, <3>2 DEF ToClient!Receive
  <2>5. CASE /\ pc \in Working /\ pc' = pc
             /\ Added(client.got, ClientTransit, client'.got, ClientTransit', upstream.sent, 1)
    <3>. DEFINE m == Numbers(upstream.sent + 1, upstream.sent + 1)
    <3>1. m \in Seq(Byte) /\ ClientTransit' = ClientTransit \o m /\ client'.got = client.got
      BY <2>1, <2>5, MoreNumbers DEF Added
    <3>. HIDE DEF m
    <3>2. IsPrefix(ClientTransit, ClientTransit')
      BY <2>1, <3>1, PrefixOf
    <3>3. ToClient!Send
      BY <2>2, <2>5, <3>1, <3>2 DEF ToClient!Send, ToClient!IsPrefix, IsPrefix
    <3>. QED BY <3>3
  <2>6. CASE /\ Shortened(client.got, ClientTransit, client'.got, ClientTransit')
             /\ pc \in Working /\ pc' \in Ended
    <3>1. PICK rest \in Seq(Byte) : ClientTransit = ClientTransit' \o rest
      BY <2>6 DEF Shortened
    <3>2. IsPrefix(ClientTransit', ClientTransit)
      BY <2>1, <3>1, PrefixOf
    <3>. QED BY <2>2, <2>6, <3>2 DEF ToClient!Cut, ToClient!IsPrefix, IsPrefix, Shortened
  <2>. QED BY <2>1, <2>3, <2>4, <2>5, <2>6, Zenon DEF ClientMoves
<1>. QED BY <1>1, <1>2, TcpInvariance, PTL DEF Spec, PipeToClient, ToClient!PipeSpec
=============================================================================
