------------------------------ MODULE UdpProofs -------------------------------
(***************************************************************************)
(* Proofs about ProxyUdp, for every timeout, number of messages and        *)
(* capacity: the messages become datagrams one for one in both directions, *)
(* and a session is closed as idle only after a whole timeout of silence.  *)
(***************************************************************************)
EXTENDS ProxyUdp, SequenceTheorems, TLAPS

Running == {"select", "send_ws", "send_close"}

LoopTyped ==
    /\ pc \in Running \cup Ended
    /\ left \in 0 .. idle_timeout /\ quiet \in 0 .. idle_timeout
    /\ pending \in Seq(Int) /\ sent \in Seq(Int) /\ received \in Seq(Int)

NetworkTyped ==
    /\ ws_in \in Seq(Int) /\ ws_out \in Seq(Int)
    /\ udp_in \in Seq(1 .. Datagrams) /\ arrived \in 0 .. Datagrams
    /\ client \in [sent : 0 .. ClientMessages, pings : Nat, closed : BOOLEAN, got : Seq(Int)]

Typed == LoopTyped /\ NetworkTyped

\* The timer of a pass is not ahead of the silence it measures: it stands still while the
\* loop awaits a send, and then it starts anew.
TimerOK ==
    /\ pc = "select" => pending = << >> /\ quiet + left >= idle_timeout
    /\ pc = "send_close" => quiet = idle_timeout

\* The data messages of the queue have the numbers after "from" up to "to", in order.
InOrder(queue, from, to) ==
    \E count \in [0 .. Len(queue) -> Int] :
        /\ count[0] = from /\ count[Len(queue)] = to
        /\ \A i \in 1 .. Len(queue) :
              IF queue[i] < Ping
              THEN count[i] = count[i - 1] + 1 /\ queue[i] \in {count[i], -count[i]}
              ELSE count[i] = count[i - 1]

\* The datagrams are the client's first messages; those that follow wait in ws_in.
SentOK ==
    /\ \A i \in 1 .. Len(sent) : sent[i] = i
    /\ pc \in Running => InOrder(ws_in, Len(sent), client.sent)

ToClient == (client.got \o ws_out) \o pending

ReceivedOK == pc \in Running => Carries(ToClient, received)

Inv == Typed /\ TimerOK /\ SentOK /\ ReceivedOK

-----------------------------------------------------------------------------
(* Queues *)

LEMMA PingIsLarge == Ping \in Nat /\ Ping > ClientMessages /\ Ping > Datagrams
  BY ProxyUdpAssumption DEF Ping

\* The client's next message keeps the order.
LEMMA InOrderData ==
    ASSUME NEW queue \in Seq(Int), NEW from \in Int, NEW to \in Int, InOrder(queue, from, to),
           NEW m \in {to + 1, -(to + 1)}, m < Ping
    PROVE  InOrder(Append(queue, m), from, to + 1)
<1>1. PICK count \in [0 .. Len(queue) -> Int] :
        /\ count[0] = from /\ count[Len(queue)] = to
        /\ \A i \in 1 .. Len(queue) :
              IF queue[i] < Ping
              THEN count[i] = count[i - 1] + 1 /\ queue[i] \in {count[i], -count[i]}
              ELSE count[i] = count[i - 1]
  BY DEF InOrder
<1>. DEFINE longer == Append(queue, m)
            more == [i \in 0 .. Len(longer) |-> IF i <= Len(queue) THEN count[i] ELSE to + 1]
<1>2. /\ Len(longer) = Len(queue) + 1 /\ longer[Len(queue) + 1] = m
      /\ \A i \in 1 .. Len(queue) : longer[i] = queue[i]
      /\ Len(queue) \in Nat
  OBVIOUS
<1>. HIDE DEF longer
<1>3. /\ more \in [0 .. Len(longer) -> Int]
      /\ more[0] = from /\ more[Len(longer)] = to + 1
  BY <1>1, <1>2
<1>4. ASSUME NEW i \in 1 .. Len(longer)
      PROVE  IF longer[i] < Ping
             THEN more[i] = more[i - 1] + 1 /\ longer[i] \in {more[i], -more[i]}
             ELSE more[i] = more[i - 1]
  <2>1. CASE i <= Len(queue)
    BY <1>1, <1>2, <2>1, SMTT(30)
  <2>2. CASE i = Len(queue) + 1
    BY <1>1, <1>2, <2>2
  <2>. QED BY <1>2, <2>1, <2>2
<1>. QED BY <1>3, <1>4 DEF InOrder, longer

\* So does any other message.
LEMMA InOrderOther ==
    ASSUME NEW queue \in Seq(Int), NEW from \in Int, NEW to \in Int, InOrder(queue, from, to),
           NEW m \in Int, ~(m < Ping)
    PROVE  InOrder(Append(queue, m), from, to)
<1>1. PICK count \in [0 .. Len(queue) -> Int] :
        /\ count[0] = from /\ count[Len(queue)] = to
        /\ \A i \in 1 .. Len(queue) :
              IF queue[i] < Ping
              THEN count[i] = count[i - 1] + 1 /\ queue[i] \in {count[i], -count[i]}
              ELSE count[i] = count[i - 1]
  BY DEF InOrder
<1>. DEFINE longer == Append(queue, m)
            more == [i \in 0 .. Len(longer) |-> IF i <= Len(queue) THEN count[i] ELSE to]
<1>2. /\ Len(longer) = Len(queue) + 1 /\ longer[Len(queue) + 1] = m
      /\ \A i \in 1 .. Len(queue) : longer[i] = queue[i]
      /\ Len(queue) \in Nat
  OBVIOUS
<1>. HIDE DEF longer
<1>3. /\ more \in [0 .. Len(longer) -> Int]
      /\ more[0] = from /\ more[Len(longer)] = to
  BY <1>1, <1>2
<1>4. ASSUME NEW i \in 1 .. Len(longer)
      PROVE  IF longer[i] < Ping
             THEN more[i] = more[i - 1] + 1 /\ longer[i] \in {more[i], -more[i]}
             ELSE more[i] = more[i - 1]
  <2>1. CASE i <= Len(queue)
    BY <1>1, <1>2, <2>1, SMTT(30)
  <2>2. CASE i = Len(queue) + 1
    BY <1>1, <1>2, <2>2
  <2>. QED BY <1>2, <2>1, <2>2
<1>. QED BY <1>3, <1>4 DEF InOrder, longer

\* The first message of a queue in order, and those after it.
LEMMA InOrderTail ==
    ASSUME NEW queue \in Seq(Int), queue # << >>, NEW from \in Int, NEW to \in Int,
           InOrder(queue, from, to)
    PROVE  IF Head(queue) < Ping
           THEN /\ Head(queue) \in {from + 1, -(from + 1)}
                /\ InOrder(Tail(queue), from + 1, to)
           ELSE InOrder(Tail(queue), from, to)
<1>1. PICK count \in [0 .. Len(queue) -> Int] :
        /\ count[0] = from /\ count[Len(queue)] = to
        /\ \A i \in 1 .. Len(queue) :
              IF queue[i] < Ping
              THEN count[i] = count[i - 1] + 1 /\ queue[i] \in {count[i], -count[i]}
              ELSE count[i] = count[i - 1]
  BY DEF InOrder
<1>. DEFINE rest == Tail(queue)
            fewer == [i \in 0 .. Len(rest) |-> count[i + 1]]
<1>2. /\ Len(queue) \in Nat \ {0} /\ Len(rest) = Len(queue) - 1 /\ Head(queue) = queue[1]
      /\ \A i \in 1 .. Len(rest) : rest[i] = queue[i + 1]
  OBVIOUS
<1>. HIDE DEF rest
<1>3. /\ fewer \in [0 .. Len(rest) -> Int]
      /\ fewer[0] = count[1] /\ fewer[Len(rest)] = to
  BY <1>1, <1>2
<1>4. ASSUME NEW i \in 1 .. Len(rest)
      PROVE  IF rest[i] < Ping
             THEN fewer[i] = fewer[i - 1] + 1 /\ rest[i] \in {fewer[i], -fewer[i]}
             ELSE fewer[i] = fewer[i - 1]
  <2>1. /\ i + 1 \in 1 .. Len(queue) /\ rest[i] = queue[i + 1] /\ (i + 1) - 1 = i
        /\ fewer[i] = count[i + 1] /\ fewer[i - 1] = count[i]
    BY <1>2
  <2>. QED BY <1>1, <2>1
<1>5. InOrder(rest, count[1], to)
  BY <1>3, <1>4 DEF InOrder
<1>6. IF queue[1] < Ping THEN count[1] = from + 1 /\ queue[1] \in {count[1], -count[1]}
      ELSE count[1] = from
  BY <1>1, <1>2
<1>. QED BY <1>2, <1>5, <1>6 DEF rest

\* A message to the client for each datagram.
LEMMA CarriesData ==
    ASSUME NEW queue \in Seq(Int), NEW data \in Seq(Int), Carries(queue, data),
           NEW m \in Int, m < Ping
    PROVE  Carries(Append(queue, m), Append(data, m))
<1>1. PICK count \in [0 .. Len(queue) -> 0 .. Len(data)] :
        /\ count[0] = 0 /\ count[Len(queue)] = Len(data)
        /\ \A i \in 1 .. Len(queue) :
              IF queue[i] < Ping THEN count[i] = count[i - 1] + 1 /\ queue[i] = data[count[i]]
              ELSE count[i] = count[i - 1]
  BY DEF Carries
<1>. DEFINE longer == Append(queue, m)
            all == Append(data, m)
            more == [i \in 0 .. Len(longer) |-> IF i <= Len(queue) THEN count[i] ELSE Len(all)]
<1>2. /\ Len(longer) = Len(queue) + 1 /\ longer[Len(queue) + 1] = m
      /\ \A i \in 1 .. Len(queue) : longer[i] = queue[i]
      /\ Len(queue) \in Nat
  OBVIOUS
<1>3. /\ Len(all) = Len(data) + 1 /\ all[Len(data) + 1] = m
      /\ \A i \in 1 .. Len(data) : all[i] = data[i]
      /\ Len(data) \in Nat
  OBVIOUS
<1>. HIDE DEF longer, all
<1>4. /\ more \in [0 .. Len(longer) -> 0 .. Len(all)]
      /\ more[0] = 0 /\ more[Len(longer)] = Len(all)
  BY <1>1, <1>2, <1>3
<1>5. ASSUME NEW i \in 1 .. Len(longer)
      PROVE  IF longer[i] < Ping THEN more[i] = more[i - 1] + 1 /\ longer[i] = all[more[i]]
             ELSE more[i] = more[i - 1]
  <2>1. CASE i <= Len(queue)
    <3>1. longer[i] = queue[i] /\ more[i] = count[i] /\ more[i - 1] = count[i - 1]
      BY <1>2, <2>1
    <3>2. count[i] \in 0 .. Len(data) /\ count[i - 1] \in 0 .. Len(data)
      <4>1. i \in 0 .. Len(queue) /\ i - 1 \in 0 .. Len(queue)
        BY <1>2, <2>1
      <4>. QED BY <4>1
    <3>3. IF queue[i] < Ping THEN count[i] = count[i - 1] + 1 /\ queue[i] = data[count[i]]
          ELSE count[i] = count[i - 1]
      BY <1>1, <1>2, <2>1
    <3>. QED BY <1>3, <3>1, <3>2, <3>3, SMTT(30)
  <2>2. CASE i = Len(queue) + 1
    BY <1>1, <1>2, <1>3, <2>2
  <2>. QED BY <1>2, <2>1, <2>2
<1>. QED BY <1>4, <1>5 DEF Carries, longer, all

\* Messages of other kinds carry no data.
LEMMA CarriesOther ==
    ASSUME NEW queue \in Seq(Int), NEW data \in Seq(Int), Carries(queue, data),
           NEW m \in Int, ~(m < Ping)
    PROVE  Carries(Append(queue, m), data)
<1>1. PICK count \in [0 .. Len(queue) -> 0 .. Len(data)] :
        /\ count[0] = 0 /\ count[Len(queue)] = Len(data)
        /\ \A i \in 1 .. Len(queue) :
              IF queue[i] < Ping THEN count[i] = count[i - 1] + 1 /\ queue[i] = data[count[i]]
              ELSE count[i] = count[i - 1]
  BY DEF Carries
<1>. DEFINE longer == Append(queue, m)
            more == [i \in 0 .. Len(longer) |-> IF i <= Len(queue) THEN count[i] ELSE Len(data)]
<1>2. /\ Len(longer) = Len(queue) + 1 /\ longer[Len(queue) + 1] = m
      /\ \A i \in 1 .. Len(queue) : longer[i] = queue[i]
      /\ Len(queue) \in Nat /\ Len(data) \in Nat
  OBVIOUS
<1>. HIDE DEF longer
<1>3. /\ more \in [0 .. Len(longer) -> 0 .. Len(data)]
      /\ more[0] = 0 /\ more[Len(longer)] = Len(data)
  BY <1>1, <1>2
<1>4. ASSUME NEW i \in 1 .. Len(longer)
      PROVE  IF longer[i] < Ping THEN more[i] = more[i - 1] + 1 /\ longer[i] = data[more[i]]
             ELSE more[i] = more[i - 1]
  <2>1. CASE i <= Len(queue)
    <3>1. longer[i] = queue[i] /\ more[i] = count[i] /\ more[i - 1] = count[i - 1]
      BY <1>2, <2>1
    <3>. QED BY <1>1, <1>2, <2>1, <3>1
  <2>2. CASE i = Len(queue) + 1
    BY <1>1, <1>2, <2>2
  <2>. QED BY <1>2, <2>1, <2>2
<1>. QED BY <1>3, <1>4 DEF Carries, longer
\* Queues of no message and of one, and one message more.
LEMMA Short ==
    /\ << >> \in Seq(Int)
    /\ \A m \in Int : <<m>> \in Seq(Int)
    /\ \A q \in Seq(Int), m \in Int : q \o <<m>> = Append(q, m) /\ Append(q, m) \in Seq(Int)
    /\ \A q \in Seq(Int) : q \o << >> = q
  OBVIOUS

\* Where a row of queues is divided makes no difference.
LEMMA Regroup ==
    ASSUME NEW a \in Seq(Int), NEW b \in Seq(Int), NEW c \in Seq(Int)
    PROVE  a \o (b \o c) = (a \o b) \o c
  BY SMTT(30)

\* One message moves from one end of a queue to the other.
LEMMA PassesOn ==
    ASSUME NEW a \in Seq(Int), NEW b \in Seq(Int), NEW c \in Seq(Int), b # << >>
    PROVE  (Append(a, Head(b)) \o Tail(b)) \o c = (a \o b) \o c
<1>1. /\ Head(b) \in Int /\ Tail(b) \in Seq(Int) /\ Append(a, Head(b)) \in Seq(Int)
      /\ a \o b \in Seq(Int) /\ Append(a, Head(b)) \o Tail(b) \in Seq(Int)
  OBVIOUS
<1>2. Len(Append(a, Head(b)) \o Tail(b)) = Len(a \o b)
  BY <1>1
<1>3. ASSUME NEW i \in 1 .. Len(a \o b)
      PROVE  (Append(a, Head(b)) \o Tail(b))[i] = (a \o b)[i]
  BY <1>1, SMTT(30)
<1>4. Append(a, Head(b)) \o Tail(b) = a \o b
  BY <1>1, <1>2, <1>3, SeqEqual
<1>. QED BY <1>4

-----------------------------------------------------------------------------
(* The invariant *)

\* The types of the loop, by action.
LEMMA LoopTypedStep == Inv /\ [Next]_vars => LoopTyped'
<1>. SUFFICES ASSUME Inv, [Next]_vars PROVE LoopTyped'
  OBVIOUS
<1>. USE ProxyUdpAssumption, PingIsLarge, Short DEF Inv, Typed, LoopTyped, NetworkTyped, Running, Ended
<1>1. Ping \in Int /\ Pong \in Int /\ Close \in Int
  BY DEF Pong, Close
<1>2. CASE HandleMessage
  <2>1. Head(ws_in) \in Int
    BY <1>2 DEF HandleMessage
  <2>2. Datagram(Head(ws_in)) \in Seq(Int)
    BY <2>1 DEF Datagram
  <2>3. sent' \in Seq(Int) /\ received' \in Seq(Int)
    <3>1. sent \o Datagram(Head(ws_in)) \in Seq(Int)
      BY <2>2
    <3>. QED BY <1>2, <3>1 DEF HandleMessage
  <2>4. \/ Select \/ Finish("failed") \/ Finish("done") \/ AwaitSend("send_ws", Pong)
    BY <1>2 DEF HandleMessage
  <2>5. pc' \in Running \cup Ended /\ left' \in 0 .. idle_timeout
    BY <2>4 DEF Select, Finish, AwaitSend, NextPass
  <2>6. pending' = << >> \/ pending' = <<Pong>>
    BY <2>4 DEF Select, Finish, AwaitSend
  <2>7. pending' \in Seq(Int)
    BY <1>1, <2>6
  <2>8. quiet' = 0
    BY <1>2 DEF HandleMessage
  <2>. QED BY <2>3, <2>5, <2>7, <2>8
<1>3. CASE HandleDatagram
  <2>1. Head(udp_in) \in Int
    BY <1>3, SMTT(30) DEF HandleDatagram
  <2>. QED BY <1>3, <2>1 DEF HandleDatagram, AwaitSend
<1>4. CASE SendWebsocket
  <2>1. pending' = << >>
    BY <1>4 DEF SendWebsocket, Select, Finish
  <2>2. pc' \in Running \cup Ended /\ left' \in 0 .. idle_timeout
    BY <1>4, SMTT(30) DEF SendWebsocket, Select, Finish, NextPass, AfterClose
  <2>. QED BY <1>4, <2>1, <2>2 DEF SendWebsocket
<1>5. CASE IdleTimeout \/ ReceiveFails \/ SendFails
  BY <1>1, <1>5 DEF IdleTimeout, ReceiveFails, SendFails, AwaitSend, Finish, AfterClose, network
<1>6. CASE Tick
  BY <1>6 DEF Tick, network, Earlier
<1>7. CASE UNCHANGED <<pc, pending, left, quiet, sent, received>>
  BY <1>7
<1>. QED
  BY <1>2, <1>3, <1>4, <1>5, <1>6, <1>7
  DEF Next, Loop, ClientSend, ClientPing, ClientClose, ClientReceive, UpstreamSend, vars

\* The types of the network, by action.
LEMMA NetworkTypedStep == Inv /\ [Next]_vars => NetworkTyped'
<1>. SUFFICES ASSUME Inv, [Next]_vars PROVE NetworkTyped'
  OBVIOUS
<1>. USE ProxyUdpAssumption, PingIsLarge, Short DEF Inv, Typed, LoopTyped, NetworkTyped
<1>1. CASE HandleMessage
  BY <1>1 DEF HandleMessage
<1>2. CASE HandleDatagram
  BY <1>2 DEF HandleDatagram
<1>3. CASE SendWebsocket
  BY <1>3 DEF SendWebsocket
<1>4. CASE UNCHANGED network
  BY <1>4 DEF network
<1>5. CASE ClientSend
  <2>1. PICK sign \in {1, -1} : ws_in' = Append(ws_in, sign * (client.sent + 1))
    BY <1>5 DEF ClientSend
  <2>2. client.sent \in 0 .. ClientMessages
    OBVIOUS
  <2>3. sign * (client.sent + 1) \in Int
    <3>. HIDE DEF Inv
    <3>1. CASE sign = 1
      BY <2>2, <3>1
    <3>2. CASE sign = -1
      BY <2>2, <3>2
    <3>. QED BY <3>1, <3>2
  <2>4. client.sent + 1 \in 0 .. ClientMessages /\ client' = [client EXCEPT !.sent = @ + 1]
    BY <1>5, <2>2, SMTT(30) DEF ClientSend
  <2>5. client' \in [sent : 0 .. ClientMessages, pings : Nat, closed : BOOLEAN, got : Seq(Int)]
    BY <2>4
  <2>6. ws_in' \in Seq(Int)
    BY <2>1, <2>3
  <2>. QED BY <1>5, <2>5, <2>6 DEF ClientSend
<1>6. CASE ClientPing \/ ClientClose
  <2>1. \E m \in {Ping, Pong, Close, Lost} : ws_in' = Append(ws_in, m)
    BY <1>6 DEF ClientPing, ClientClose
  <2>2. ws_in' \in Seq(Int)
    BY <2>1 DEF Pong, Close, Lost
  <2>3. client' \in [sent : 0 .. ClientMessages, pings : Nat, closed : BOOLEAN, got : Seq(Int)]
    <3>1. \/ client' = [client EXCEPT !.pings = @ + 1]
          \/ client' = [client EXCEPT !.closed = TRUE]
      BY <1>6 DEF ClientPing, ClientClose
    <3>2. CASE client' = [client EXCEPT !.pings = @ + 1]
      <4>1. client.pings + 1 \in Nat
        OBVIOUS
      <4>. QED BY <3>2, <4>1
    <3>3. CASE client' = [client EXCEPT !.closed = TRUE]
      BY <3>3
    <3>. QED BY <3>1, <3>2, <3>3
  <2>4. UNCHANGED <<ws_out, udp_in, arrived>>
    BY <1>6 DEF ClientPing, ClientClose
  <2>. QED BY <2>2, <2>3, <2>4
<1>7. CASE ClientReceive
  <2>1. Append(client.got, Head(ws_out)) \in Seq(Int) /\ Tail(ws_out) \in Seq(Int)
    BY <1>7, SMTT(30) DEF ClientReceive
  <2>2. client' \in [sent : 0 .. ClientMessages, pings : Nat, closed : BOOLEAN, got : Seq(Int)]
    BY <1>7, <2>1 DEF ClientReceive
  <2>. QED BY <1>7, <2>1, <2>2 DEF ClientReceive
<1>8. CASE UpstreamSend
  <2>1. arrived + 1 \in 1 .. Datagrams
    BY <1>8 DEF UpstreamSend
  <2>2. Append(udp_in, arrived + 1) \in Seq(1 .. Datagrams)
    BY <2>1
  <2>3. udp_in' \in {udp_in, Append(udp_in, arrived + 1)} /\ arrived' = arrived + 1
    BY <1>8 DEF UpstreamSend
  <2>4. udp_in' \in Seq(1 .. Datagrams)
    BY <2>2, <2>3
  <2>5. UNCHANGED <<ws_in, ws_out, client>>
    BY <1>8 DEF UpstreamSend
  <2>. QED BY <2>1, <2>3, <2>4, <2>5
<1>. QED
  BY <1>1, <1>2, <1>3, <1>4, <1>5, <1>6, <1>7, <1>8
  DEF Next, Loop, IdleTimeout, ReceiveFails, SendFails, Tick, vars, network

\* The timer, by action.
LEMMA TimerStep == Inv /\ [Next]_vars => TimerOK'
<1>. SUFFICES ASSUME Inv, [Next]_vars PROVE TimerOK'
  OBVIOUS
<1>. USE ProxyUdpAssumption DEF Inv, Typed, LoopTyped, NetworkTyped, Running, Ended, TimerOK
<1>1. CASE HandleMessage
  BY <1>1, SMTT(30) DEF HandleMessage, Select, Finish, AwaitSend, NextPass
<1>2. CASE HandleDatagram \/ SendWebsocket \/ IdleTimeout \/ ReceiveFails \/ SendFails
  BY <1>2, SMTT(30) DEF HandleDatagram, SendWebsocket, IdleTimeout, ReceiveFails, SendFails, Select,
              AwaitSend, Finish, NextPass, AfterClose
<1>3. CASE Tick
  BY <1>3 DEF Tick, Earlier
<1>4. CASE UNCHANGED <<pc, pending, left, quiet>>
  BY <1>4
<1>. QED
  BY <1>1, <1>2, <1>3, <1>4
  DEF Next, Loop, ClientSend, ClientPing, ClientClose, ClientReceive, UpstreamSend, vars

\* What goes to the upstream, by action.
LEMMA SentStep == Inv /\ [Next]_vars => SentOK'
<1>. SUFFICES ASSUME Inv, [Next]_vars PROVE SentOK'
  OBVIOUS
<1>. USE ProxyUdpAssumption, PingIsLarge, Short DEF Inv, Typed, LoopTyped, NetworkTyped, Running, Ended
<1>1. CASE HandleMessage
  <2>1. /\ ws_in # << >> /\ ws_in' = Tail(ws_in) /\ client' = client
        /\ Head(ws_in) \in Int /\ Tail(ws_in) \in Seq(Int)
        /\ InOrder(ws_in, Len(sent), client.sent)
    BY <1>1 DEF HandleMessage, SentOK
  <2>2. Len(sent) \in Int /\ client.sent \in Int
    OBVIOUS
  <2>3. IF Head(ws_in) < Ping
        THEN /\ Head(ws_in) \in {Len(sent) + 1, -(Len(sent) + 1)}
             /\ InOrder(Tail(ws_in), Len(sent) + 1, client.sent)
        ELSE InOrder(Tail(ws_in), Len(sent), client.sent)
    BY <2>1, <2>2, InOrderTail
  <2>4. CASE sent' = sent /\ pc' \in Ended
    BY <2>4 DEF SentOK
  <2>5. CASE sent' = sent /\ ~(Head(ws_in) < Ping)
    BY <2>1, <2>3, <2>5 DEF SentOK
  <2>6. CASE Head(ws_in) < Ping /\ sent' = Append(sent, Head(ws_in)) /\ Head(ws_in) > 0
    <3>1. Head(ws_in) = Len(sent) + 1
      BY <2>3, <2>6
    <3>2. Len(sent') = Len(sent) + 1
      BY <2>1, <2>6
    <3>3. \A i \in 1 .. Len(sent') : sent'[i] = i
      BY <2>1, <2>6, <3>1, <3>2, SMTT(30) DEF SentOK
    <3>. QED BY <2>1, <2>3, <2>6, <3>2, <3>3 DEF SentOK
  <2>7. \/ sent' = sent /\ pc' \in Ended
        \/ sent' = sent /\ ~(Head(ws_in) < Ping)
        \/ Head(ws_in) < Ping /\ sent' = Append(sent, Head(ws_in)) /\ Head(ws_in) > 0
    <3>1. CASE Head(ws_in) < Ping /\ sent' = sent \o Datagram(Head(ws_in))
               /\ IF Datagram(Head(ws_in)) = << >> THEN Finish("failed") ELSE Select
      <4>1. CASE Head(ws_in) > 0
        <5>1. Datagram(Head(ws_in)) = <<Head(ws_in)>>
          BY <4>1 DEF Datagram
        <5>2. sent \o <<Head(ws_in)>> = Append(sent, Head(ws_in))
          BY <2>1
        <5>. QED BY <3>1, <4>1, <5>1, <5>2
      <4>2. CASE ~(Head(ws_in) > 0)
        <5>1. Datagram(Head(ws_in)) = << >>
          BY <4>2 DEF Datagram
        <5>. QED BY <3>1, <5>1 DEF Finish
      <4>. QED BY <4>1, <4>2
    <3>2. CASE Head(ws_in) < Ping /\ Finish("failed") /\ UNCHANGED sent
      BY <3>2 DEF Finish
    <3>3. CASE Head(ws_in) \in {Ping, Pong, Close, Lost} /\ UNCHANGED sent
      BY <3>3, SMTT(30) DEF Pong, Close, Lost
    <3>. QED BY <1>1, <3>1, <3>2, <3>3 DEF HandleMessage
  <2>. QED BY <2>4, <2>5, <2>6, <2>7
<1>2. CASE ClientSend
  <2>1. PICK sign \in {1, -1} : ws_in' = Append(ws_in, sign * (client.sent + 1))
    BY <1>2 DEF ClientSend
  <2>2. /\ sign * (client.sent + 1) \in {client.sent + 1, -(client.sent + 1)}
        /\ sign * (client.sent + 1) < Ping
    <3>1. client.sent + 1 < Ping
      BY <1>2, SMTT(30) DEF ClientSend
    <3>2. CASE sign = 1
      BY <3>1, <3>2
    <3>3. CASE sign = -1
      BY <3>1, <3>3, SMTT(30)
    <3>. QED BY <3>2, <3>3
  <2>3. client'.sent = client.sent + 1 /\ pc' = pc /\ sent' = sent
    BY <1>2 DEF ClientSend
  <2>4. ASSUME pc \in Running
        PROVE  InOrder(Append(ws_in, sign * (client.sent + 1)), Len(sent), client.sent + 1)
    BY <2>2, <2>4, InOrderData, SMTT(30) DEF SentOK
  <2>. QED BY <2>1, <2>3, <2>4 DEF SentOK
<1>3. CASE ClientPing \/ ClientClose
  <2>1. PICK m \in {Ping, Pong, Close, Lost} : ws_in' = Append(ws_in, m)
    BY <1>3 DEF ClientPing, ClientClose
  <2>2. client'.sent = client.sent /\ pc' = pc /\ sent' = sent
    BY <1>3 DEF ClientPing, ClientClose
  <2>3. ASSUME pc \in Running PROVE InOrder(Append(ws_in, m), Len(sent), client.sent)
    <3>1. m \in Int /\ ~(m < Ping)
      BY DEF Pong, Close, Lost
    <3>. QED BY <2>3, <3>1, InOrderOther DEF SentOK
  <2>. QED BY <2>1, <2>2, <2>3 DEF SentOK
<1>4. CASE /\ sent' = sent /\ ws_in' = ws_in /\ client'.sent = client.sent
           /\ pc' \in Running => pc \in Running
  BY <1>4 DEF SentOK
<1>5. ASSUME HandleDatagram \/ SendWebsocket \/ IdleTimeout \/ ReceiveFails \/ SendFails
             \/ Tick \/ ClientReceive \/ UpstreamSend \/ UNCHANGED vars
      PROVE  /\ sent' = sent /\ ws_in' = ws_in /\ client'.sent = client.sent
             /\ pc' \in Running => pc \in Running
  BY <1>5 DEF HandleDatagram, SendWebsocket, IdleTimeout, ReceiveFails, SendFails, Tick,
              ClientReceive, UpstreamSend, vars, network
<1>. QED BY <1>1, <1>2, <1>3, <1>4, <1>5 DEF Next, Loop

\* What goes to the client, by action.
LEMMA ReceivedStep == Inv /\ [Next]_vars => ReceivedOK'
<1>. SUFFICES ASSUME Inv, [Next]_vars PROVE ReceivedOK'
  OBVIOUS
<1>. USE ProxyUdpAssumption, PingIsLarge, Short DEF Inv, Typed, LoopTyped, NetworkTyped, Running, Ended
<1>1. ASSUME pc = "select" PROVE ToClient = client.got \o ws_out
  BY <1>1, SMTT(30) DEF TimerOK, ToClient
<1>2. ASSUME NEW m \in Int, pc = "select", pending' = <<m>>, UNCHANGED <<client, ws_out>>
      PROVE  ToClient' = Append(ToClient, m)
  <2>1. client.got \o ws_out \in Seq(Int)
    OBVIOUS
  <2>2. ToClient' = (client.got \o ws_out) \o <<m>>
    BY <1>2 DEF ToClient
  <2>3. (client.got \o ws_out) \o <<m>> = Append(client.got \o ws_out, m)
    BY <2>1, Short
  <2>. QED BY <1>1, <1>2, <2>2, <2>3
<1>3. ToClient \in Seq(Int)
  BY DEF ToClient
<1>4. CASE UNCHANGED <<ToClient, received>> /\ (pc' \in Running => pc \in Running)
  BY <1>4 DEF ReceivedOK
<1>5. CASE pc' \in Ended
  BY <1>5 DEF ReceivedOK
<1>6. ASSUME NEW m \in Int, ~(m < Ping), pc = "select", pending' = <<m>>,
             UNCHANGED <<client, ws_out, received>>
      PROVE  ReceivedOK'
  <2>1. Carries(Append(ToClient, m), received)
    BY <1>3, <1>6, CarriesOther DEF ReceivedOK
  <2>. QED BY <1>2, <1>6, <2>1 DEF ReceivedOK
<1>7. CASE HandleMessage
  <2>1. UNCHANGED <<client, ws_out, received>> /\ pc = "select"
    BY <1>7 DEF HandleMessage
  <2>2. \/ Select \/ Finish("failed") \/ Finish("done") \/ AwaitSend("send_ws", Pong)
    BY <1>7 DEF HandleMessage
  <2>3. CASE Select
    BY <1>4, <2>1, <2>3 DEF Select, ToClient, TimerOK
  <2>4. CASE Finish("failed") \/ Finish("done")
    BY <1>5, <2>4 DEF Finish
  <2>5. CASE AwaitSend("send_ws", Pong)
    BY <1>6, <2>1, <2>5 DEF AwaitSend, Pong
  <2>. QED BY <2>2, <2>3, <2>4, <2>5
<1>8. CASE HandleDatagram
  <2>1. /\ Head(udp_in) \in Int /\ Head(udp_in) < Ping
        /\ pc = "select" /\ UNCHANGED <<client, ws_out>>
        /\ received' = Append(received, Head(udp_in)) /\ pending' = <<Head(udp_in)>>
    BY <1>8, SMTT(30) DEF HandleDatagram, AwaitSend
  <2>2. Carries(Append(ToClient, Head(udp_in)), Append(received, Head(udp_in)))
    BY <1>3, <2>1, CarriesData DEF ReceivedOK
  <2>. QED BY <1>2, <2>1, <2>2 DEF ReceivedOK
<1>9. CASE SendWebsocket
  <2>1. CASE pc = "send_ws"
    <3>1. ToClient' = ToClient
      <4>1. /\ client' = client /\ ws_out' = ws_out \o pending /\ pending' = << >>
        BY <1>9, <2>1 DEF SendWebsocket, Select
      <4>2. client.got \o (ws_out \o pending) = (client.got \o ws_out) \o pending
        <5>1. client.got \in Seq(Int) /\ ws_out \in Seq(Int) /\ pending \in Seq(Int)
          OBVIOUS
        <5>. QED BY ONLY <5>1, Regroup, Zenon
      <4>3. (client.got \o (ws_out \o pending)) \o << >> = client.got \o (ws_out \o pending)
        BY Short
      <4>. QED BY <4>1, <4>2, <4>3 DEF ToClient
    <3>. QED BY <1>4, <1>9, <2>1, <3>1 DEF SendWebsocket
  <2>2. CASE pc = "send_close"
    BY <1>5, <1>9, <2>2 DEF SendWebsocket, Finish, AfterClose
  <2>. QED BY <1>9, <2>1, <2>2 DEF SendWebsocket
<1>10. CASE IdleTimeout
  BY <1>6, <1>10 DEF IdleTimeout, AwaitSend, network, Close
<1>11. CASE ReceiveFails \/ SendFails
  BY <1>5, <1>11 DEF ReceiveFails, SendFails, Finish, AfterClose
<1>12. CASE ClientReceive
  <2>1. ToClient' = ToClient
    <3>1. /\ client'.got = Append(client.got, Head(ws_out)) /\ ws_out' = Tail(ws_out)
          /\ ws_out # << >> /\ pending' = pending
      BY <1>12 DEF ClientReceive
    <3>2. client.got \in Seq(Int) /\ ws_out \in Seq(Int) /\ pending \in Seq(Int)
      OBVIOUS
    <3>3. (Append(client.got, Head(ws_out)) \o Tail(ws_out)) \o pending
            = (client.got \o ws_out) \o pending
      BY ONLY <3>1, <3>2, PassesOn, Zenon
    <3>. QED BY <3>1, <3>3 DEF ToClient
  <2>. QED BY <1>4, <1>12, <2>1 DEF ClientReceive
<1>13. CASE UNCHANGED <<pc, pending, ws_out, received>> /\ client'.got = client.got
  BY <1>4, <1>13 DEF ToClient
<1>14. ASSUME Tick \/ ClientSend \/ ClientPing \/ ClientClose \/ UpstreamSend \/ UNCHANGED vars
       PROVE  UNCHANGED <<pc, pending, ws_out, received>> /\ client'.got = client.got
  BY <1>14 DEF Tick, ClientSend, ClientPing, ClientClose, UpstreamSend, vars, network
<1>. QED
  BY <1>7, <1>8, <1>9, <1>10, <1>11, <1>12, <1>13, <1>14 DEF Next, Loop

\* Nothing is in transit at the start.
LEMMA InitInv == Init => Inv
<1>. SUFFICES ASSUME Init PROVE Inv
  OBVIOUS
<1>. USE ProxyUdpAssumption DEF Init
<1>1. Typed /\ TimerOK
  BY DEF Typed, LoopTyped, NetworkTyped, TimerOK, Running
<1>. DEFINE none == [i \in 0 .. 0 |-> 0]
<1>2. Len(<< >>) = 0 /\ none \in [0 .. 0 -> 0 .. 0] /\ none \in [0 .. 0 -> Int] /\ none[0] = 0
  OBVIOUS
<1>. HIDE DEF none
<1>3. InOrder(<< >>, 0, 0)
  <2>1. \A i \in 1 .. 0 : FALSE
    OBVIOUS
  <2>. QED BY <1>2, <2>1 DEF InOrder
<1>4. Carries(<< >>, << >>)
  <2>1. \A i \in 1 .. 0 : FALSE
    OBVIOUS
  <2>. QED BY <1>2, <2>1 DEF Carries
<1>5. ToClient = << >>
  BY DEF ToClient
<1>. QED BY <1>1, <1>3, <1>4, <1>5 DEF Inv, SentOK, ReceivedOK

\* The invariant of the loop.
THEOREM UdpInvariance == Spec => []Inv
<1>1. Inv /\ [Next]_vars => Inv'
  BY LoopTypedStep, NetworkTypedStep, TimerStep, SentStep, ReceivedStep DEF Inv, Typed
<1>. QED BY <1>1, InitInv, PTL DEF Spec

\* Each websocket message becomes one datagram and each datagram one message, in order:
\* none is cut, joined, repeated or overtaken (proxy.rs, proxy_udp).
THEOREM MessagesOneForOne == Spec => []OneForOne
<1>1. Inv => OneForOne
  BY DEF Inv, Typed, LoopTyped, SentOK, ReceivedOK, ToClient, OneForOne, Running
<1>. QED BY <1>1, UdpInvariance, PTL

\* A session that is closed as idle was silent for a whole timeout: neither the traffic of
\* the other direction nor a send that took long counts against it (proxy.rs, proxy_udp).
THEOREM TimeoutsAreIdle == Spec => OnlyIdleSessionsTimeOut
<1>1. ASSUME Inv, [Next]_vars, pc' = "send_close" PROVE quiet = idle_timeout
  <2>. USE <1>1 DEF Inv, TimerOK, Typed, LoopTyped
  <2>1. CASE pc = "send_close"
    BY <2>1
  <2>2. CASE pc # "send_close"
    <3>1. IdleTimeout
      BY <2>2 DEF Next, Loop, HandleMessage, HandleDatagram, SendWebsocket, ReceiveFails,
                  SendFails, Tick, ClientSend, ClientPing, ClientClose, ClientReceive,
                  UpstreamSend, Select, Finish, AwaitSend, AfterClose, vars
    <3>. QED BY <3>1, ProxyUdpAssumption DEF IdleTimeout
  <2>. QED BY <2>1, <2>2
<1>2. Inv /\ [Next]_vars => [pc' = "send_close" => quiet = idle_timeout]_vars
  BY <1>1
<1>. QED BY <1>2, UdpInvariance, PTL DEF Spec, OnlyIdleSessionsTimeOut
=============================================================================
