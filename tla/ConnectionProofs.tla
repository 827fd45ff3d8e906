--------------------------- MODULE ConnectionProofs ---------------------------
(***************************************************************************)
(* Proofs about Connection, for every limit, chunk and buffer, and every   *)
(* set of requests.                                                        *)
(***************************************************************************)
EXTENDS Connection, SequenceFacts

-----------------------------------------------------------------------------
(* Targets (Target): for texts of any length, the parser finds the one way *)
(* to read a text as a target, and its normal form reads as that target.   *)

\* Where a text is cut, and the two sides.
Before(text, i) == SubSeq(text, 1, i - 1)

After(text, i) == SubSeq(text, i + 1, Len(text))

LEMMA CutFacts ==
    ASSUME NEW text \in Seq(STRING), NEW i \in 1 .. Len(text)
    PROVE  /\ Len(text) \in Nat
           /\ Before(text, i) \in Seq(STRING) /\ Len(Before(text, i)) = i - 1
           /\ \A k \in 1 .. i - 1 : Before(text, i)[k] = text[k]
           /\ After(text, i) \in Seq(STRING) /\ Len(After(text, i)) = Len(text) - i
           /\ \A k \in 1 .. Len(text) - i : After(text, i)[k] = text[i + k]
<1>0. Len(text) \in Nat /\ i \in Nat /\ \A k \in 1 .. Len(text) : text[k] \in STRING
  BY LenProperties, ElementOfSeq
<1>1. /\ Before(text, i) \in Seq(STRING) /\ Len(Before(text, i)) = i - 1
      /\ \A k \in 1 .. i - 1 : Before(text, i)[k] = text[k]
  <2>1. \A k \in 1 .. i - 1 : text[k] \in STRING
    BY <1>0
  <2> QED
    BY <1>0, <2>1, SubSeqProperties DEF Before
<1>2. /\ After(text, i) \in Seq(STRING) /\ Len(After(text, i)) = Len(text) - i
      /\ \A k \in 1 .. Len(text) - i : After(text, i)[k] = text[i + k]
  <2>1. \A k \in i + 1 .. Len(text) : text[k] \in STRING
    BY <1>0
  <2>2. \A k \in 1 .. Len(text) - i : k \in 1 .. Len(text) - (i + 1) + 1 /\ (i + 1) + k - 1 = i + k
    BY <1>0
  <2> QED
    BY <1>0, <2>1, <2>2, SubSeqProperties DEF After
<1> QED
  BY <1>0, <1>1, <1>2

\* A port is one token, so it follows the last place but one.
LEMMA PortFacts ==
    ASSUME NEW text \in Seq(STRING), NEW i \in 1 .. Len(text)
    PROVE  IsPort(After(text, i)) <=>
              /\ i + 1 = Len(text)
              /\ text[i + 1] \in DOMAIN NumberOf /\ NumberOf[text[i + 1]] <= MaxPort
<1>1. /\ Len(text) \in Nat /\ i \in Nat /\ Len(After(text, i)) = Len(text) - i
      /\ \A k \in 1 .. Len(text) - i : After(text, i)[k] = text[i + k]
  <2>1. /\ Len(text) \in Nat /\ Len(After(text, i)) = Len(text) - i
        /\ \A k \in 1 .. Len(text) - i : After(text, i)[k] = text[i + k]
    BY CutFacts, Zenon
  <2>2. i \in Nat
    OBVIOUS
  <2> QED BY <2>1, <2>2, Zenon
<1>2. i + 1 = Len(text) => After(text, i)[1] = text[i + 1]
  BY <1>1
<1>3. Len(After(text, i)) = 1 <=> i + 1 = Len(text)
  BY <1>1
<1> QED
  BY <1>2, <1>3 DEF IsPort

\* The places a text can be read at.
Places(text) ==
    {i \in 1 .. Len(text) - 1 : text[i] = ":" /\ IsHost(Before(text, i)) /\ IsPort(After(text, i))}

\* The places the parser cuts a text at, if what follows is a port.
Cuts(text) ==
    {i \in 1 .. Len(text) : /\ IsPort(After(text, i))
                            /\ IF text[1] = "[" THEN i - 1 \in BracketEnd(text)
                               ELSE i > 1 /\ Colons(text) = {i}}

LEMMA PlainPlaces ==
    ASSUME NEW text \in Seq(STRING), NEW i \in 1 .. Len(text), text[1] # "[",
           IsPort(After(text, i))
    PROVE  i \in Cuts(text) <=> i \in Places(text)
<1>1. /\ Len(text) \in Nat /\ i \in Nat /\ i + 1 = Len(text)
      /\ text[i + 1] \in DOMAIN NumberOf /\ text[i + 1] # ":"
  BY CutFacts, PortFacts, TargetAssumption
<1>2. /\ Len(Before(text, i)) = i - 1 /\ Before(text, i) \in Seq(STRING)
      /\ \A k \in 1 .. i - 1 : Before(text, i)[k] = text[k]
  BY CutFacts
<1>3. IsHost(Before(text, i)) <=> i > 1 /\ \A k \in 1 .. i - 1 : text[k] # ":"
  <2>1. i > 1 => Before(text, i)[1] = text[1] /\ Before(text, i) # << >>
    BY <1>1, <1>2, EmptySeq
  <2>2. ~(i > 1) => Before(text, i) = << >> /\ ~(Len(Before(text, i)) > 2)
    BY <1>1, <1>2, EmptySeq
  <2> QED
    BY <1>1, <1>2, <2>1, <2>2 DEF IsHost
<1>4. text[i] = ":" /\ (\A k \in 1 .. i - 1 : text[k] # ":") <=> Colons(text) = {i}
  BY <1>1 DEF Colons
<1> QED
  BY <1>1, <1>3, <1>4 DEF Cuts, Places

LEMMA BracketPlaces ==
    ASSUME NEW text \in Seq(STRING), NEW i \in 1 .. Len(text), text[1] = "[",
           IsPort(After(text, i))
    PROVE  i \in Cuts(text) <=> i \in Places(text)
<1>1. Len(text) \in Nat /\ i \in Nat /\ i + 1 = Len(text)
  BY CutFacts, PortFacts
<1>2. /\ Len(Before(text, i)) = i - 1 /\ Before(text, i) \in Seq(STRING)
      /\ \A k \in 1 .. i - 1 : Before(text, i)[k] = text[k]
  BY CutFacts
<1>3. IsHost(Before(text, i)) <=>
          /\ i > 3 /\ text[i - 1] = "]"
          /\ \A k \in 1 .. i - 2 : ~(text[k] = "]" /\ text[k + 1] = ":")
  <2>1. i > 1 => Before(text, i)[1] = "["
    BY <1>1, <1>2
  <2>2. ~(i > 1) => Before(text, i) = << >> /\ ~(Len(Before(text, i)) > 2)
    BY <1>1, <1>2, EmptySeq
  <2>3. i > 3 => Before(text, i)[Len(Before(text, i))] = text[i - 1]
    BY <1>1, <1>2
  <2>4. \A k \in 1 .. i - 2 : Before(text, i)[k] = text[k] /\ Before(text, i)[k + 1] = text[k + 1]
    BY <1>1, <1>2
  <2> QED
    BY <1>1, <1>2, <2>1, <2>2, <2>3, <2>4, SMTT(30) DEF IsHost
<1>4. i - 1 \in BracketEnd(text) <=>
          /\ i > 3 /\ text[i - 1] = "]" /\ text[i] = ":"
          /\ \A k \in 1 .. i - 2 : ~(text[k] = "]" /\ text[k + 1] = ":")
  BY <1>1 DEF BracketEnd
<1> QED
  BY <1>1, <1>3, <1>4 DEF Cuts, Places

LEMMA SamePlaces ==
    ASSUME NEW text \in Seq(STRING)
    PROVE  Cuts(text) = Places(text)
<1>1. \A i : i \in Cuts(text) \/ i \in Places(text) =>
                 i \in 1 .. Len(text) /\ IsPort(After(text, i))
  BY LenProperties DEF Cuts, Places
<1>2. \A i : i \in Cuts(text) <=> i \in Places(text)
  BY <1>1, PlainPlaces, BracketPlaces
<1> QED
  BY <1>2

\* The target that is read at a place.
TargetAt(text, i) == [host |-> Before(text, i), port |-> NumberOf[text[i + 1]]]

LEMMA ReadingsAtPlaces ==
    ASSUME NEW text
    PROVE  Readings(text) = {TargetAt(text, i) : i \in Places(text)}
  BY DEF Readings, Places, TargetAt, Before, After

LEMMA ParsedAtCuts ==
    ASSUME NEW text \in Seq(STRING)
    PROVE  parse_host_port(text) = {TargetAt(text, i) : i \in Cuts(text)}
<1> DEFINE Chosen == {i \in 1 .. Len(text) :
                         IF text[1] = "[" THEN i - 1 \in BracketEnd(text)
                         ELSE i > 1 /\ Colons(text) = {i}}
<1>0. Len(text) \in Nat
  BY LenProperties
<1>1. Split(text) = {SplitAt(text, i - 1, i + 1) : i \in Chosen}
  <2>1. CASE text = << >>
    <3>1. Len(text) = 0 /\ Chosen = {} /\ Colons(text) = {}
      BY <2>1, EmptySeq DEF Colons
    <3> QED
      BY <2>1, <3>1 DEF Split, PlainSplit
  <2>2. CASE text # << >> /\ text[1] # "["
    BY <1>0, <2>2 DEF Split, PlainSplit, Colons
  <2>3. CASE text # << >> /\ text[1] = "["
    <3>1. \A j \in BracketEnd(text) : /\ j \in Int /\ j + 1 \in Chosen
                                      /\ (j + 1) - 1 = j /\ (j + 1) + 1 = j + 2
      BY <1>0, <2>3 DEF BracketEnd
    <3>2. \A i \in Chosen : i - 1 \in BracketEnd(text) /\ (i - 1) + 2 = i + 1
      BY <1>0, <2>3
    <3> QED
      BY <2>3, <3>1, <3>2 DEF Split, BracketSplit
  <2> QED
    BY <2>1, <2>2, <2>3
<1>2. ASSUME NEW i \in Chosen
      PROVE  /\ SplitAt(text, i - 1, i + 1).host = Before(text, i)
             /\ SplitAt(text, i - 1, i + 1).port = After(text, i)
             /\ IsPort(After(text, i)) => After(text, i)[1] = text[i + 1]
  <2>1. i + 1 = Len(text) => 1 \in 1 .. Len(text) - i
    BY <1>0
  <2> QED
    BY <2>1, CutFacts, PortFacts DEF SplitAt, Before, After
<1>3. Cuts(text) = {i \in Chosen : IsPort(After(text, i))}
  BY DEF Cuts
<1> HIDE DEF Chosen
<1> QED
  BY <1>1, <1>2, <1>3 DEF parse_host_port, TargetAt

\* The parser finds every way to read a text as a target, and nothing else.
THEOREM ParserFindsReadings ==
    ASSUME NEW text \in Seq(STRING)
    PROVE  parse_host_port(text) = Readings(text)
  BY SamePlaces, ReadingsAtPlaces, ParsedAtCuts

\* What a reading is made of.
LEMMA ReadingFacts ==
    ASSUME NEW text \in Seq(STRING), NEW t \in Readings(text)
    PROVE  /\ t.host \in Seq(STRING) /\ IsHost(t.host)
           /\ t = [host |-> t.host, port |-> t.port]
           /\ \E word \in DOMAIN NumberOf : t.port = NumberOf[word] /\ t.port <= MaxPort
<1>1. PICK i \in Places(text) : t = TargetAt(text, i)
  BY ReadingsAtPlaces
<1>2. i \in 1 .. Len(text) /\ IsHost(Before(text, i)) /\ IsPort(After(text, i))
  BY LenProperties DEF Places
<1>3. text[i + 1] \in DOMAIN NumberOf /\ NumberOf[text[i + 1]] <= MaxPort
  BY <1>2, PortFacts
<1>4. Before(text, i) \in Seq(STRING)
  BY <1>2, CutFacts
<1> QED
  BY <1>1, <1>2, <1>3, <1>4 DEF TargetAt

\* The normal form of a target is read as that target, and in no other way.
LEMMA NormalFormReads ==
    ASSUME NEW text \in Seq(STRING), NEW t \in Readings(text)
    PROVE  addr(t) \in Seq(STRING) /\ Readings(addr(t)) = {t}
<1>1. PICK h \in Seq(STRING), d \in DOMAIN NumberOf :
          /\ h = t.host /\ IsHost(h) /\ d = Decimal(t.port)
          /\ NumberOf[d] = t.port /\ NumberOf[d] <= MaxPort
  BY ReadingFacts, TargetAssumption
<1>2. PICK end \in Seq(STRING) : end = <<":", d>>
  <2>1. d \in STRING /\ ":" \in STRING
    BY TargetAssumption
  <2>2. <<":", d>> \in Seq(STRING)
    BY <2>1
  <2> QED
    BY <2>2
<1>3. Len(end) = 2 /\ end[1] = ":" /\ end[2] = d
  BY <1>2
<1>4. PICK a \in Seq(STRING) : a = addr(t) /\ a = h \o end
  BY <1>1, <1>2, ConcatProperties DEF addr
<1>5. /\ Len(h) \in Nat /\ Len(a) = Len(h) + 2
      /\ \A k \in 1 .. Len(h) : a[k] = h[k]
      /\ a[Len(h) + 1] = ":" /\ a[Len(h) + 2] = d
  <2>1. Len(h) \in Nat
    BY LenProperties
  <2>2. /\ Len(a) = Len(h) + 2
        /\ \A k \in 1 .. Len(h) + 2 : a[k] = IF k <= Len(h) THEN h[k] ELSE end[k - Len(h)]
    <3>1. /\ Len(h \o end) = Len(h) + Len(end)
          /\ \A k \in 1 .. Len(h) + Len(end) :
                (h \o end)[k] = IF k <= Len(h) THEN h[k] ELSE end[k - Len(h)]
      BY ConcatProperties
    <3> QED
      BY <1>3, <1>4, <3>1
  <2>3. /\ Len(h) + 1 \in 1 .. Len(h) + 2 /\ (Len(h) + 1) - Len(h) = 1
        /\ Len(h) + 2 \in 1 .. Len(h) + 2 /\ (Len(h) + 2) - Len(h) = 2
    BY <2>1
  <2> QED
    BY <1>3, <2>1, <2>2, <2>3, SMTT(30)
<1>6. Before(a, Len(h) + 1) = h
  <2>1. /\ Len(h) + 1 \in 1 .. Len(a) /\ (Len(h) + 1) - 1 = Len(h)
    BY <1>5
  <2>2. /\ Before(a, Len(h) + 1) \in Seq(STRING) /\ Len(Before(a, Len(h) + 1)) = Len(h)
        /\ \A k \in 1 .. Len(h) : Before(a, Len(h) + 1)[k] = h[k]
    BY <1>5, <2>1, CutFacts
  <2> QED
    BY <2>2, SeqEqual
<1>7. Places(a) = {Len(h) + 1}
  <2>1. ASSUME NEW i \in Places(a) PROVE i = Len(h) + 1
    <3>1. i \in 1 .. Len(a) /\ IsPort(After(a, i))
      BY <1>5 DEF Places
    <3> QED
      BY <1>5, <3>1, PortFacts
  <2>2. Len(h) + 1 \in 1 .. Len(a) /\ (Len(h) + 1) + 1 = Len(a) /\ (Len(h) + 1) + 1 = Len(h) + 2
    BY <1>5
  <2>3. IsPort(After(a, Len(h) + 1))
    BY <1>1, <1>5, <2>2, PortFacts
  <2> QED
    BY <1>1, <1>5, <1>6, <2>1, <2>2, <2>3 DEF Places
<1>8. TargetAt(a, Len(h) + 1) = t
  <2>1. (Len(h) + 1) + 1 = Len(h) + 2
    BY <1>5
  <2> QED
    BY <1>1, <1>5, <1>6, <2>1, ReadingFacts DEF TargetAt
<1> QED
  BY <1>4, <1>7, <1>8, ReadingsAtPlaces

\* Two targets with the same normal form are the same target, whatever texts they were
\* read from: this is what comparing addr() of the request with that of an anonymous
\* target relies on.
THEOREM NormalFormsTellTargetsApart ==
    ASSUME NEW one \in Seq(STRING), NEW other \in Seq(STRING),
           NEW t \in parse_host_port(one), NEW u \in parse_host_port(other),
           addr(t) = addr(u)
    PROVE  t = u
<1>1. t \in Readings(one) /\ u \in Readings(other)
  BY ParserFindsReadings
<1>2. Readings(addr(t)) = {t} /\ Readings(addr(u)) = {u}
  BY <1>1, NormalFormReads
<1> QED
  BY <1>2

-----------------------------------------------------------------------------
(* Sequences *)

\* What a read of n bytes takes and leaves of a stream makes up the stream.
LEMMA RestFacts ==
    ASSUME NEW S, NEW s \in Seq(S), NEW n \in 0 .. Len(s)
    PROVE  /\ FirstOf(s, n) \in Seq(S) /\ Len(FirstOf(s, n)) = n
           /\ Rest(s, n) \in Seq(S) /\ Len(Rest(s, n)) = Len(s) - n
           /\ FirstOf(s, n) \o Rest(s, n) = s
<1>0. Len(s) \in Nat
  BY LenProperties
<1>1. FirstOf(s, n) \in Seq(S) /\ Len(FirstOf(s, n)) = n
  BY <1>0, ElementOfSeq, SubSeqProperties DEF FirstOf
<1>2. Rest(s, n) \in Seq(S) /\ Len(Rest(s, n)) = Len(s) - n
  BY <1>0, ElementOfSeq, SubSeqProperties DEF Rest
<1>3. SubSeq(s, 1, n) \o SubSeq(s, n + 1, Len(s)) = SubSeq(s, 1, Len(s))
  <2>1. 1 \in 1 .. Len(s) + 1 /\ n \in 1 - 1 .. Len(s) /\ Len(s) \in n .. Len(s)
    BY <1>0
  <2> QED
    BY ONLY s \in Seq(S), <2>1, ConcatAdjacentSubSeq, Zenon
<1> QED
  BY <1>1, <1>2, <1>3, SubSeqFull DEF FirstOf, Rest

\* A stream can be taken from a stream it is the beginning of.
LEMMA ConcatFacts ==
    ASSUME NEW S, NEW s \in Seq(S), NEW t \in Seq(S)
    PROVE  /\ s \o t \in Seq(S) /\ Len(s \o t) = Len(s) + Len(t)
           /\ FirstOf(s \o t, Len(s)) = s
           /\ Rest(s \o t, Len(s)) = t
<1>0. /\ Len(s) \in Nat /\ Len(t) \in Nat
      /\ s \o t \in Seq(S) /\ Len(s \o t) = Len(s) + Len(t)
      /\ \A i \in 1 .. Len(s) + Len(t) :
            (s \o t)[i] = IF i <= Len(s) THEN s[i] ELSE t[i - Len(s)]
  BY LenProperties, ConcatProperties
<1>e. \A i \in 1 .. Len(s \o t) : (s \o t)[i] \in S
  BY <1>0, ElementOfSeq
<1>1. /\ FirstOf(s \o t, Len(s)) \in Seq(S) /\ Len(FirstOf(s \o t, Len(s))) = Len(s)
      /\ \A i \in 1 .. Len(s) : FirstOf(s \o t, Len(s))[i] = (s \o t)[i]
  BY <1>0, <1>e, SubSeqProperties DEF FirstOf
<1>2. /\ Rest(s \o t, Len(s)) \in Seq(S) /\ Len(Rest(s \o t, Len(s))) = Len(t)
      /\ \A i \in 1 .. Len(t) : Rest(s \o t, Len(s))[i] = (s \o t)[Len(s) + i]
  <2>1. \A i \in Len(s) + 1 .. Len(s \o t) : (s \o t)[i] \in S
    BY <1>0, <1>e
  <2>2. \A i \in 1 .. Len(t) : Len(s) + 1 + i - 1 = Len(s) + i
    BY <1>0
  <2> QED
    BY <1>0, <2>1, <2>2, SubSeqProperties, SMTT(30) DEF Rest
<1>3. FirstOf(s \o t, Len(s)) = s
  <2>1. \A i \in 1 .. Len(s) : FirstOf(s \o t, Len(s))[i] = s[i]
    BY <1>0, <1>1
  <2> QED
    BY <1>1, <2>1, SeqEqual
<1>4. Rest(s \o t, Len(s)) = t
  <2>1. \A i \in 1 .. Len(t) : Rest(s \o t, Len(s))[i] = t[i]
    BY <1>0, <1>2
  <2> QED
    BY <1>2, <2>1, SeqEqual
<1> QED
  BY <1>0, <1>3, <1>4

\* Taking n bytes of the first part takes them of the whole.
LEMMA TakeFacts ==
    ASSUME NEW S, NEW h \in Seq(S), NEW s \in Seq(S), NEW n \in 0 .. Len(h)
    PROVE  /\ FirstOf(h \o s, n) = FirstOf(h, n)
           /\ Rest(h \o s, n) = Rest(h, n) \o s
<1>1. PICK a \in Seq(S), b \in Seq(S) : a = FirstOf(h, n) /\ b = Rest(h, n)
  BY RestFacts
<1>2. Len(a) = n /\ a \o b = h
  BY <1>1, RestFacts
<1>3. (a \o b) \o s = a \o (b \o s)
  BY ConcatAssociative, SMTT(30)
<1>4. b \o s \in Seq(S)
  BY ConcatProperties
<1>5. FirstOf(a \o (b \o s), Len(a)) = a /\ Rest(a \o (b \o s), Len(a)) = b \o s
  BY <1>4, ConcatFacts
<1> QED
  BY <1>1, <1>2, <1>3, <1>5

\* What is left of what is left.
LEMMA RestOfRest ==
    ASSUME NEW S, NEW h \in Seq(S), NEW p \in 0 .. Len(h), NEW n \in 0 .. Len(h) - p
    PROVE  /\ SubSeq(h, p + 1, p + n) = FirstOf(Rest(h, p), n)
           /\ Rest(h, p + n) = Rest(Rest(h, p), n)
<1>0. Len(h) \in Nat /\ p \in Nat /\ n \in Nat
  BY LenProperties
<1>1. PICK a \in Seq(S), b \in Seq(S), c \in Seq(S) :
          a = FirstOf(h, p) /\ b = SubSeq(h, p + 1, p + n) /\ c = Rest(h, p + n)
  <2>1. p + n \in 0 .. Len(h)
    BY <1>0
  <2>2. SubSeq(h, p + 1, p + n) \in Seq(S)
    BY <1>0, ElementOfSeq, SubSeqProperties
  <2> QED
    BY <2>1, <2>2, RestFacts
<1>2. Len(b) = n
  <2>1. \A i \in p + 1 .. p + n : h[i] \in S
    BY <1>0, ElementOfSeq
  <2> QED
    BY <1>0, <1>1, <2>1, SubSeqProperties
<1>3. b \o c = Rest(h, p)
  <2>1. PICK m \in 1 .. Len(h) + 1, k \in p .. Len(h) : m = p + 1 /\ k = p + n
    BY <1>0
  <2>a. k \in m - 1 .. Len(h) /\ Len(h) \in k .. Len(h)
    BY <1>0, <2>1
  <2>b. SubSeq(h, m, k) \o SubSeq(h, k + 1, Len(h)) = SubSeq(h, m, Len(h))
    BY ONLY h \in Seq(S), m \in 1 .. Len(h) + 1, <2>a, ConcatAdjacentSubSeq, Zenon
  <2>2. SubSeq(h, p + 1, p + n) \o SubSeq(h, p + n + 1, Len(h)) = SubSeq(h, p + 1, Len(h))
    BY <2>1, <2>b
  <2> QED
    BY <1>1, <2>2 DEF Rest
<1>4. FirstOf(b \o c, Len(b)) = b /\ Rest(b \o c, Len(b)) = c
  BY ConcatFacts
<1> QED
  BY <1>1, <1>2, <1>3, <1>4

\* Reading ahead moves bytes between the two parts of what is still to be handed on.
LEMMA MoveFacts ==
    ASSUME NEW S, NEW h \in Seq(S), NEW s \in Seq(S),
           NEW p \in 0 .. Len(h), NEW n \in 0 .. Len(s)
    PROVE  Rest(h \o FirstOf(s, n), p) \o Rest(s, n) = Rest(h, p) \o s
<1>1. PICK a \in Seq(S), b \in Seq(S), c \in Seq(S) :
          a = Rest(h, p) /\ b = FirstOf(s, n) /\ c = Rest(s, n)
  BY RestFacts
<1>2. b \o c = s
  BY <1>1, RestFacts
<1>3. Rest(h \o b, p) = a \o b
  BY <1>1, TakeFacts
<1>4. (a \o b) \o c = a \o (b \o c)
  BY ConcatAssociative, SMTT(30)
<1> QED
  BY <1>1, <1>2, <1>3, <1>4

-----------------------------------------------------------------------------
(* The streams of a connection *)

\* What the proofs know of the bytes: they are numbers, no more was replayed than was read
\* ahead, and the head that is still being read is one the loop goes on with.
Streams ==
    /\ request.head \in Nat /\ request.total \in Nat
    /\ client \in [sent : Nat, end : {"open", "eof", "lost"}]
    /\ socket \in Seq(Nat) /\ head \in Seq(Nat) /\ handed \in Seq(Nat)
    /\ position \in 0 .. Len(head)
    /\ pc = "read_head" => ~HeadEnough(head)

ConnInv == Streams /\ HeadBounded

LEMMA NumberedSeq ==
    ASSUME NEW a \in Nat, NEW b \in Nat
    PROVE  Numbered(a + 1, a + b) \in Seq(Nat)
<1>1. Numbered(a + 1, a + b) = [i \in 1 .. b |-> a + i]
  BY DEF Numbered
<1> QED
  BY <1>1

LEMMA ConnInitInv == ConnInit => ConnInv
<1> SUFFICES ASSUME ConnInit PROVE ConnInv
  OBVIOUS
<1>1. request.head \in Nat /\ request.total \in Nat
  BY ConnectionAssumption DEF ConnInit
<1>2. Len(<< >>) = 0 /\ << >> \in Seq(Nat)
  BY EmptySeq
<1> QED
  BY <1>1, <1>2, ConnectionAssumption
     DEF ConnInit, ConnInv, Streams, HeadBounded, HeadEnough, EndsWithin

\* poll_read takes bytes of what is read ahead and then of the socket, in their order.
LEMMA ReplayFacts ==
    ASSUME ConnInv, Replay
    PROVE  /\ socket' \in Seq(Nat) /\ handed' \in Seq(Nat) /\ head' = head
           /\ position' \in 0 .. Len(head)
           /\ \E n \in 1 .. Len(Rest(head, position) \o socket) :
                 /\ handed' = handed \o FirstOf(Rest(head, position) \o socket, n)
                 /\ Rest(head, position') \o socket' = Rest(Rest(head, position) \o socket, n)
<1>0. /\ head \in Seq(Nat) /\ socket \in Seq(Nat) /\ handed \in Seq(Nat)
      /\ Len(head) \in Nat /\ Len(socket) \in Nat /\ position \in 0 .. Len(head)
      /\ HANDSHAKE_BUFFER \in Nat \ {0}
  BY LenProperties, ConnectionAssumption DEF ConnInv, Streams
<1>1. PICK ahead \in Seq(Nat) : ahead = Rest(head, position) /\ Len(ahead) = Len(head) - position
  BY <1>0, RestFacts
<1>2. Len(ahead \o socket) = Len(ahead) + Len(socket)
  BY <1>0, ConcatProperties
<1>3. CASE Source = "prefix"
  <2>1. position < Len(head)
    BY <1>3 DEF Source
  <2>2. PICK n : n = Smaller(HANDSHAKE_BUFFER, Len(head) - position)
    OBVIOUS
  <2>3. n \in 1 .. Len(head) - position /\ n \in 0 .. Len(head) - position
    BY <1>0, <2>1, <2>2 DEF Smaller
  <2>4. /\ handed' = handed \o SubSeq(head, position + 1, position + n)
        /\ position' = position + n /\ UNCHANGED <<head, socket>>
    BY <1>3, <2>2 DEF Replay
  <2>5. SubSeq(head, position + 1, position + n) = FirstOf(ahead, n)
        /\ Rest(head, position + n) = Rest(ahead, n)
    BY <1>0, <1>1, <2>3, RestOfRest
  <2>6. n \in 0 .. Len(ahead)
    BY <1>0, <1>1, <2>3
  <2>7. /\ FirstOf(ahead \o socket, n) = FirstOf(ahead, n)
        /\ Rest(ahead \o socket, n) = Rest(ahead, n) \o socket
    BY <1>0, <2>6, TakeFacts
  <2>8. handed' \in Seq(Nat)
    BY <1>0, <2>4, <2>5, <2>6, RestFacts, ConcatProperties
  <2>9. n \in 1 .. Len(ahead \o socket) /\ position' \in 0 .. Len(head)
    BY <1>0, <1>1, <1>2, <2>3, <2>4
  <2> QED
    BY <1>0, <1>1, <2>4, <2>5, <2>7, <2>8, <2>9
<1>4. CASE Source = "socket"
  <2>1. position = Len(head) /\ ahead = << >>
    BY <1>0, <1>1, <1>4, EmptySeq DEF Source
  <2>2. PICK n : n = Smaller(HANDSHAKE_BUFFER, Len(socket))
    OBVIOUS
  <2>3. /\ handed' = handed \o FirstOf(socket, n) /\ socket' = Rest(socket, n)
        /\ UNCHANGED <<head, position>> /\ socket # << >>
    BY <1>4, <2>2 DEF Replay
  <2>4. n \in 1 .. Len(socket)
    BY <1>0, <2>2, <2>3, EmptySeq DEF Smaller
  <2>5. ahead \o socket = socket
    BY <1>0, <2>1, ConcatEmptySeq
  <2>6. n \in 0 .. Len(socket)
    BY <1>0, <2>4
  <2>7. FirstOf(socket, n) \in Seq(Nat) /\ Rest(socket, n) \in Seq(Nat)
    BY <1>0, <2>6, RestFacts
  <2>8. handed \o FirstOf(socket, n) \in Seq(Nat) /\ << >> \o Rest(socket, n) = Rest(socket, n)
    BY <1>0, <2>7, ConcatProperties, ConcatEmptySeq
  <2> QED
    BY <1>0, <1>1, <2>1, <2>3, <2>4, <2>5, <2>7, <2>8
<1> QED
  BY <1>3, <1>4 DEF Source

-----------------------------------------------------------------------------
(* Steps *)

\* What every step keeps, and what it is for the reader of the stream.
Reads == [Replayed!Send \/ Replayed!Receive \/ Replayed!Cut]_<<Rest(head, position) \o socket, handed, FALSE>>

\* The streams stay as they are and the head is not read any more, or not differently.
LEMMA StillStep ==
    ASSUME ConnInv, UNCHANGED <<stream_vars, request, client>>,
           pc' # "read_head" \/ UNCHANGED pc
    PROVE  ConnInv' /\ Reads
  BY DEF ConnInv, Streams, HeadBounded, HeadEnough, EndsWithin, stream_vars, Reads

LEMMA ReplayStep ==
    ASSUME ConnInv, Replay, pc' # "read_head", UNCHANGED <<request, client>>
    PROVE  ConnInv' /\ Reads
<1>1. ConnInv'
  BY ReplayFacts DEF ConnInv, Streams, HeadBounded
<1>2. Replayed!Receive
  BY ReplayFacts DEF Replayed!Receive, FirstOf, Rest
<1> QED
  BY <1>1, <1>2 DEF Reads

LEMMA SendStep ==
    ASSUME ConnInv, ClientSends
    PROVE  ConnInv' /\ Reads
<1>1. PICK n \in 1 .. request.total - client.sent :
          /\ socket' = socket \o Numbered(client.sent + 1, client.sent + n)
          /\ client' = [client EXCEPT !.sent = @ + n]
  BY DEF ClientSends
<1>2. client.sent \in Nat /\ n \in Nat /\ client' \in [sent : Nat, end : {"open", "eof", "lost"}]
  <2>1. client.sent \in Nat /\ request.total \in Nat
    BY DEF ConnInv, Streams
  <2>2. n \in Nat /\ client.sent + n \in Nat
    BY <2>1
  <2> QED
    BY <1>1, <2>1, <2>2 DEF ConnInv, Streams
<1>3. PICK more \in Seq(Nat) : more = Numbered(client.sent + 1, client.sent + n)
  BY <1>2, NumberedSeq
<1>4. /\ socket \in Seq(Nat) /\ head \in Seq(Nat) /\ position \in 0 .. Len(head)
      /\ socket' = socket \o more /\ socket' \in Seq(Nat)
  BY <1>1, <1>3, ConcatProperties DEF ConnInv, Streams
<1>5. UNCHANGED <<pc, request, head, position, handed>>
  BY DEF ClientSends
<1>6. ConnInv'
  BY <1>2, <1>4, <1>5 DEF ConnInv, Streams, HeadBounded, HeadEnough, EndsWithin
<1>7. PICK ahead \in Seq(Nat) : ahead = Rest(head, position)
  BY <1>4, RestFacts
<1>8. ahead \o (socket \o more) = (ahead \o socket) \o more /\ ahead \o socket \in Seq(Nat)
  BY <1>4, ConcatAssociative, ConcatProperties, SMTT(30)
<1>9. PICK transit \in Seq(Nat) : transit = ahead \o socket
  BY <1>8
<1>10. FirstOf(transit \o more, Len(transit)) = transit /\ Len(transit \o more) = Len(transit) + Len(more)
  BY ConcatFacts
<1>11. IsPrefix(transit, transit \o more)
  BY <1>10, LenProperties, SubSeqFull DEF IsPrefix, FirstOf
<1>12. Rest(head, position)' \o socket' = transit \o more
  BY <1>4, <1>5, <1>7, <1>8, <1>9 DEF Rest
<1>13. Replayed!Send
  BY <1>5, <1>7, <1>9, <1>11, <1>12 DEF Replayed!Send, Replayed!IsPrefix, IsPrefix
<1> QED
  BY <1>6, <1>13 DEF Reads

LEMMA ReadStep ==
    ASSUME ConnInv, pc = "read_head",
           NEW n \in Readable, head' = head \o FirstOf(socket, n), socket' = Rest(socket, n),
           HeadEnough(head') => pc' # "read_head",
           UNCHANGED <<position, handed, request, client>>
    PROVE  ConnInv' /\ Reads
<1>0. /\ socket \in Seq(Nat) /\ head \in Seq(Nat) /\ position \in 0 .. Len(head)
      /\ Len(socket) \in Nat /\ Len(head) \in Nat /\ CHUNK \in Nat \ {0}
      /\ ~HeadEnough(head) /\ request.head \in Nat /\ MAX_REQUEST_HEAD \in Nat
  BY LenProperties, ConnectionAssumption DEF ConnInv, Streams
<1>1. n \in 0 .. Len(socket) /\ n <= CHUNK
  BY <1>0 DEF Readable, Smaller
<1>2. /\ FirstOf(socket, n) \in Seq(Nat) /\ Len(FirstOf(socket, n)) = n
      /\ Rest(socket, n) \in Seq(Nat)
  BY <1>0, <1>1, RestFacts
<1>3. head' \in Seq(Nat) /\ Len(head') = Len(head) + n
  BY <1>0, <1>2, ConcatProperties
<1>4. Streams'
  BY <1>0, <1>1, <1>2, <1>3 DEF ConnInv, Streams, HeadEnough, EndsWithin
<1>5. HeadBounded'
  BY <1>0, <1>1, <1>3 DEF HeadBounded, HeadEnough, EndsWithin
<1>6. Rest(head, position)' \o socket' = Rest(head, position) \o socket
  BY <1>0, <1>1, MoveFacts
<1> QED
  BY <1>4, <1>5, <1>6 DEF ConnInv, Reads

LEMMA ConnStep ==
    ASSUME ConnInv, [ConnNext]_conn_vars
    PROVE  ConnInv' /\ Reads
<1>1. CASE ClientSends
  BY <1>1, SendStep
<1>2. CASE ClientEnds
  <2>1. client' \in [sent : Nat, end : {"open", "eof", "lost"}]
    BY <1>2 DEF ClientEnds, ConnInv, Streams
  <2>2. UNCHANGED <<pc, stream_vars, request>>
    BY <1>2 DEF ClientEnds
  <2> QED
    BY <2>1, <2>2
       DEF ConnInv, Streams, HeadBounded, HeadEnough, EndsWithin, stream_vars, Reads
<1>3. CASE read_request_head
  <2>1. ASSUME NEW n \in Readable, head' = head \o FirstOf(socket, n),
               socket' = Rest(socket, n),
               \/ HeadEnough(head') /\ Route(head')
               \/ ~HeadEnough(head') /\ UNCHANGED <<pc, reply>>
        PROVE  ConnInv' /\ Reads
    <3>1. HeadEnough(head') => pc' # "read_head"
      BY <2>1 DEF Route
    <3>2. UNCHANGED <<position, handed, request, client>> /\ pc = "read_head"
      BY <1>3 DEF read_request_head
    <3> QED
      BY <2>1, <3>1, <3>2, ReadStep
  <2>2. CASE pc' # "read_head" /\ UNCHANGED <<head, socket>>
    BY <1>3, <2>2, StillStep DEF read_request_head, stream_vars
  <2> QED
    BY <1>3, <2>1, <2>2 DEF read_request_head, Route
<1>4. CASE write_response \/ HandshakeReply \/ HealthCheck \/ ConnectTcp \/ ConnectUdp
  <2>1. pc' # "read_head" /\ UNCHANGED <<stream_vars, request, client>>
    BY <1>4 DEF write_response, HandshakeReply, AfterReply, HealthCheck, ConnectTcp, ConnectUdp
  <2> QED
    BY <2>1, StillStep
<1>5. CASE accept_hdr_async
  <2>1. pc' # "read_head" /\ UNCHANGED <<request, client>>
    BY <1>5 DEF accept_hdr_async
  <2> QED
    BY <1>5, <2>1, ReplayStep, StillStep DEF accept_hdr_async
<1>6. CASE Tunnel
  <2>1. pc' # "read_head" /\ UNCHANGED <<request, client>>
    BY <1>6 DEF Tunnel
  <2> QED
    BY <1>6, <2>1, ReplayStep, StillStep DEF Tunnel
<1>7. CASE UNCHANGED conn_vars
  BY <1>7, StillStep DEF conn_vars, stream_vars
<1> QED
  BY <1>1, <1>2, <1>3, <1>4, <1>5, <1>6, <1>7 DEF ConnNext, Task

\* However a request arrives, the head that read_request_head keeps stays below the limit
\* and one chunk.
THEOREM HeadStaysBounded == ConnSpec => []HeadBounded
<1>1. ConnInv /\ [ConnNext]_conn_vars => ConnInv'
  BY ConnStep
<1>2. ConnInv => HeadBounded
  BY DEF ConnInv
<1> QED
  BY ConnInitInv, <1>1, <1>2, PTL DEF ConnSpec

\* Reading ahead and ReplayStream together implement reading the client's stream.
THEOREM ReplayRefinement == ConnSpec => ReplayIsExact
<1>1. ConnInv /\ [ConnNext]_conn_vars => ConnInv'
  BY ConnStep
<1>2. ConnInv /\ [ConnNext]_conn_vars => Reads
  BY ConnStep
<1>3. ConnInit => Replayed!PipeInit
  <2> SUFFICES ASSUME ConnInit PROVE Replayed!PipeInit
    OBVIOUS
  <2>1. << >> \in Seq(Nat) /\ Len(<< >>) = 0 /\ 0 \in 0 .. 0
    BY EmptySeq
  <2>2. Rest(<< >>, 0) = << >>
    BY <2>1, SubSeqEmpty DEF Rest
  <2>3. << >> \o << >> = << >>
    BY <2>1, ConcatEmptySeq
  <2> QED
    BY <2>2, <2>3 DEF ConnInit, Replayed!PipeInit
<1> QED
  BY ConnInitInv, <1>1, <1>2, <1>3, PTL DEF ConnSpec, ReplayIsExact, Replayed!PipeSpec, Reads

-----------------------------------------------------------------------------
(* What is dialled *)

\* The steps of the task before anything is dialled, and those after the upgrade.
Early == {"read_head", "respond", "handshake", "reply", "health"}

Late == {"connect", "udp_bind", "udp_connect", "tunnel"}

\* The request was answered with the upgrade that its authorization and its path allow.
Upgraded ==
    /\ IsHandshake /\ authorized
    /\ answer = [status |-> 101, body |-> FALSE]

DialInv ==
    /\ request.path.text \in Seq(STRING)
    /\ pc \in Early \cup Late \cup {"closed"}
    /\ pc = "reply" => IsHandshake /\ reply = handshake_response
    /\ pc \in Early => dialled = {}
    /\ pc \in Late => Upgraded
    /\ dialled # {} => Upgraded /\ dialled = {addr(t) : t \in parse_target(request.path)}

\* A text has one reading at most, so a path names at most one address.
LEMMA OneTarget ==
    ASSUME request.path.text \in Seq(STRING), NEW t \in parse_target(request.path)
    PROVE  /\ [host |-> t.host, port |-> t.port] \in Readings(request.path.text)
           /\ {addr(u) : u \in parse_target(request.path)} = {addr(t)}
           /\ {addr(u) : u \in Readings(request.path.text)} = {addr(t)}
<1> DEFINE text == request.path.text
<1>1. PICK r \in Readings(text) : t.host = r.host /\ t.port = r.port
  BY ParserFindsReadings DEF parse_target
<1>2. ASSUME NEW u \in Readings(text) PROVE u = r
  <2>1. PICK i \in Places(text), j \in Places(text) : u = TargetAt(text, i) /\ r = TargetAt(text, j)
    BY ReadingsAtPlaces
  <2>2. i \in 1 .. Len(text) /\ j \in 1 .. Len(text) /\ IsPort(After(text, i)) /\ IsPort(After(text, j))
    BY LenProperties DEF Places
  <2>3. i = j
    BY <2>2, PortFacts, LenProperties
  <2> QED
    BY <2>1, <2>3
<1>3. r = [host |-> r.host, port |-> r.port]
  BY ReadingFacts
<1>4. addr(r) = addr(t)
  BY <1>1 DEF addr
<1>5. ASSUME NEW u \in parse_target(request.path) PROVE addr(u) = addr(t)
  <2>1. PICK v \in Readings(text) : u.host = v.host /\ u.port = v.port
    BY ParserFindsReadings DEF parse_target
  <2> QED
    BY <1>1, <1>2, <2>1 DEF addr
<1> QED
  BY <1>1, <1>2, <1>3, <1>4, <1>5

\* An anonymous target that the normal form of the request's target equals is a text that
\* reads as the same target.
LEMMA AnonymousIsRead ==
    ASSUME request.path.text \in Seq(STRING), allows_anonymous_target(request.path)
    PROVE  Anonymous
<1>1. PICK t \in parse_target(request.path), line \in AnonymousTargets :
          \E a \in parse_host_port(line) : addr(t) = addr(a)
  BY DEF allows_anonymous_target
<1>2. PICK a \in parse_host_port(line) : addr(t) = addr(a)
  BY <1>1
<1>3. PICK r \in parse_host_port(request.path.text) : t.host = r.host /\ t.port = r.port
  BY DEF parse_target
<1>4. addr(r) = addr(a)
  BY <1>2, <1>3 DEF addr
<1>5. line \in Seq(STRING)
  BY ConnectionAssumption
<1>6. r = a
  BY <1>4, <1>5, NormalFormsTellTargetsApart
<1>7. r \in Readings(request.path.text) /\ r \in Readings(line)
  BY <1>5, <1>6, ParserFindsReadings
<1> QED
  BY <1>7 DEF Anonymous

LEMMA DialInitInv == ConnInit => DialInv
<1> SUFFICES ASSUME ConnInit PROVE DialInv
  OBVIOUS
<1>1. request.path.text \in Seq(STRING)
  BY ConnectionAssumption DEF ConnInit
<1> QED
  BY <1>1 DEF ConnInit, DialInv, Early, Late

LEMMA DialStep ==
    ASSUME DialInv, [ConnNext]_conn_vars
    PROVE  DialInv'
<1> USE DEF Early, Late
<1>0. ASSUME UNCHANGED <<config, request>>
      PROVE  /\ authorized' = authorized /\ handshake_response' = handshake_response
             /\ parse_target(request.path)' = parse_target(request.path)
             /\ IsHandshake' = IsHandshake
  BY <1>0 DEF authorized, handshake_response, IsRoot, IsHandshake, allows_anonymous_target
<1>1. UNCHANGED <<config, request>>
  BY DEF ConnNext, Task, conn_vars, ClientSends, ClientEnds, read_request_head, write_response,
         accept_hdr_async, HandshakeReply, HealthCheck, ConnectTcp, ConnectUdp, Tunnel
<1>2. /\ authorized' = authorized /\ handshake_response' = handshake_response
      /\ parse_target(request.path)' = parse_target(request.path)
      /\ IsHandshake' = IsHandshake
  BY <1>0, <1>1
<1>3. CASE ClientSends \/ ClientEnds \/ UNCHANGED conn_vars
  <2>1. UNCHANGED <<pc, reply, answer, dialled>>
    BY <1>3 DEF ClientSends, ClientEnds, conn_vars
  <2> QED
    BY <1>1, <1>2, <2>1 DEF DialInv, Upgraded
<1>4. CASE read_request_head
  <2>1. /\ pc \in Early /\ pc' \in {"read_head", "respond", "handshake", "closed"}
        /\ UNCHANGED dialled
    BY <1>4 DEF read_request_head, Route
  <2> QED
    BY <1>1, <2>1 DEF DialInv
<1>5. CASE write_response \/ HealthCheck
  <2>1. pc \in Early /\ pc' = "closed" /\ UNCHANGED dialled
    BY <1>5 DEF write_response, HealthCheck
  <2> QED
    BY <1>1, <2>1 DEF DialInv
<1>6. CASE accept_hdr_async
  <2>1. /\ pc \in Early /\ pc' \in {"handshake", "reply", "closed"} /\ UNCHANGED dialled
        /\ pc' = "reply" => IsHandshake /\ reply' = handshake_response
    BY <1>6 DEF accept_hdr_async
  <2> QED
    BY <1>1, <1>2, <2>1 DEF DialInv
<1>7. CASE HandshakeReply
  <2>1. pc = "reply" /\ dialled = {} /\ UNCHANGED dialled /\ IsHandshake
        /\ reply = handshake_response
    BY <1>7 DEF HandshakeReply, DialInv
  <2>2. CASE client.end # "lost" /\ reply = 101
    <3>1. authorized
      BY <2>1, <2>2 DEF handshake_response
    <3>2. answer' = [status |-> 101, body |-> FALSE] /\ pc' \in {"health", "connect"}
      BY <1>7, <2>2 DEF HandshakeReply, AfterReply
    <3> QED
      BY <1>1, <1>2, <2>1, <3>1, <3>2 DEF DialInv, Upgraded
  <2>3. CASE ~(client.end # "lost" /\ reply = 101)
    <3>1. pc' = "closed"
      BY <1>7, <2>3 DEF HandshakeReply, AfterReply
    <3> QED
      BY <1>1, <2>1, <3>1 DEF DialInv
  <2> QED
    BY <2>2, <2>3
<1>8. CASE ConnectTcp \/ ConnectUdp
  <2>1. /\ pc \in Late /\ pc' \in Late \cup {"closed"} /\ UNCHANGED <<reply, answer>>
    BY <1>8 DEF ConnectTcp, ConnectUdp
  <2>2. dialled' = dialled \/ dialled' = {addr(t) : t \in parse_target(request.path)}
    <3>1. ASSUME NEW t \in parse_target(request.path), dialled' = dialled \cup {addr(t)}
          PROVE  dialled' = {addr(u) : u \in parse_target(request.path)}
      BY <3>1, OneTarget DEF DialInv
    <3>2. CASE dialled' = dialled \cup {addr(t) : t \in parse_target(request.path)}
      BY <3>2 DEF DialInv
    <3> QED
      BY <1>8, <3>1, <3>2 DEF ConnectTcp, ConnectUdp
  <2> QED
    BY <1>1, <1>2, <2>1, <2>2 DEF DialInv, Upgraded
<1>9. CASE Tunnel
  <2>1. pc \in Late /\ pc' \in {"tunnel", "closed"} /\ UNCHANGED <<reply, answer, dialled>>
    BY <1>9 DEF Tunnel
  <2> QED
    BY <1>1, <1>2, <2>1 DEF DialInv, Upgraded
<1> QED
  BY <1>3, <1>4, <1>5, <1>6, <1>7, <1>8, <1>9 DEF ConnNext, Task

\* What was authorized is what is dialled, for every request and every list of anonymous
\* targets.
THEOREM DialsOnlyAuthorized == ConnSpec => []DialsWhatWasAuthorized
<1>1. DialInv /\ [ConnNext]_conn_vars => DialInv'
  BY DialStep
<1>2. DialInv => DialsWhatWasAuthorized
  <2> SUFFICES ASSUME DialInv, dialled # {}
               PROVE  /\ IsHandshake /\ answer # None /\ answer.status = 101
                      /\ dialled = {addr(t) : t \in Readings(request.path.text)}
                      /\ ~config.auth \/ request.credentials \/ Anonymous
    BY DEF DialsWhatWasAuthorized
  <2>1. IsHandshake /\ authorized /\ answer = [status |-> 101, body |-> FALSE]
    BY DEF DialInv, Upgraded
  <2>2. answer # None /\ answer.status = 101
    <3>1. 101 \in 100 .. 599 /\ FALSE \in BOOLEAN
      OBVIOUS
    <3> QED
      BY <2>1, <3>1, NoneAssumption
  <2>3. dialled = {addr(t) : t \in Readings(request.path.text)}
    <3>1. PICK t \in parse_target(request.path) : TRUE
      BY DEF DialInv
    <3> QED
      BY <3>1, OneTarget DEF DialInv
  <2>4. ~config.auth \/ request.credentials \/ Anonymous
    BY <2>1, AnonymousIsRead DEF authorized, DialInv
  <2> QED
    BY <2>1, <2>2, <2>3, <2>4
<1> QED
  BY DialInitInv, <1>1, <1>2, PTL DEF ConnSpec

\* The target of any request has one reading, which the parser finds and which its normal
\* form has again.
THEOREM TargetsReadOneWay == ConnSpec => []TargetsHaveOneReading
<1>1. DialInv /\ [ConnNext]_conn_vars => DialInv'
  BY DialStep
<1>2. DialInv => TargetsHaveOneReading
  <2> SUFFICES ASSUME DialInv PROVE TargetsHaveOneReading
    OBVIOUS
  <2>1. request.path.text \in Seq(STRING)
    BY DEF DialInv
  <2>2. ASSUME NEW t \in Readings(request.path.text) PROVE parse_host_port(addr(t)) = {t}
    BY <2>1, NormalFormReads, ParserFindsReadings
  <2> QED
    BY <2>1, <2>2, ParserFindsReadings DEF TargetsHaveOneReading
<1> QED
  BY DialInitInv, <1>1, <1>2, PTL DEF ConnSpec

-----------------------------------------------------------------------------
(* Answers *)

\* authorize_request lets a request through exactly when its target is an anonymous one,
\* its credentials are good or none are asked for.
LEMMA AuthorizedFacts ==
    ASSUME request.path.text \in Seq(STRING)
    PROVE  /\ parse_target(request.path) # {} <=> IsTargetPath
           /\ authorized <=> ~config.auth \/ request.credentials \/ (IsTargetPath /\ Anonymous)
<1> DEFINE text == request.path.text
<1>0. ASSUME NEW p \in Protocol(request.path), NEW r \in Readings(text)
      PROVE  \E t \in parse_target(request.path) : t.host = r.host /\ t.port = r.port
  <2>1. PICK t : t = [protocol |-> p, host |-> r.host, port |-> r.port]
    OBVIOUS
  <2>2. r \in parse_host_port(text)
    BY ParserFindsReadings
  <2>3. t \in parse_target(request.path)
    BY <2>1, <2>2 DEF parse_target
  <2> QED
    BY <2>1, <2>3
<1>1. parse_target(request.path) # {} <=> IsTargetPath
  <2>1. IsTargetPath <=> Protocol(request.path) # {} /\ Readings(text) # {}
    BY DEF IsTargetPath, Protocol
  <2>2. parse_target(request.path) # {} => Protocol(request.path) # {} /\ Readings(text) # {}
    BY ParserFindsReadings DEF parse_target
  <2> QED
    BY <1>0, <2>1, <2>2
<1>2. allows_anonymous_target(request.path) => IsTargetPath /\ Anonymous
  BY <1>1, AnonymousIsRead DEF allows_anonymous_target
<1>3. ASSUME IsTargetPath, Anonymous PROVE allows_anonymous_target(request.path)
  <2>1. PICK r \in Readings(text), line \in AnonymousTargets : r \in Readings(line)
    BY <1>3 DEF Anonymous
  <2>2. r \in parse_host_port(text) /\ r \in parse_host_port(line)
    BY <2>1, ParserFindsReadings, ConnectionAssumption
  <2>3. PICK p \in Protocol(request.path) : TRUE
    BY <1>3 DEF IsTargetPath, Protocol
  <2>4. PICK t \in parse_target(request.path) : t.host = r.host /\ t.port = r.port
    BY <1>0, <2>3
  <2>5. addr(t) = addr(r)
    BY <2>4 DEF addr
  <2> QED
    BY <2>2, <2>5 DEF allows_anonymous_target
<1> QED
  BY <1>1, <1>2, <1>3 DEF authorized

\* A plain request that is being answered, and its answer.
PlainInv ==
    pc = "respond" => IsPlain /\ reply \in plain_response

LEMMA PlainIsDocumented ==
    ASSUME DialInv, PlainInv, pc = "respond"
    PROVE  reply \in Documented
<1>1. request.path.text \in Seq(STRING)
  BY DEF DialInv
<1>2. CASE IsRoot
  <2>1. ~IsTargetPath /\ ~IsTokenPath
    BY <1>2 DEF IsRoot, IsTargetPath, IsTokenPath
  <2> QED
    BY <1>1, <1>2, <2>1, AuthorizedFacts
    DEF PlainInv, IsPlain, IsHandshake, plain_response, Documented
<1>3. CASE ~IsRoot
  BY <1>3 DEF PlainInv, IsPlain, IsHandshake, plain_response, handle_auth_request, Documented
<1> QED
  BY <1>2, <1>3

LEMMA UpgradeIsDocumented ==
    ASSUME DialInv, pc = "reply"
    PROVE  reply \in Documented
<1>1. /\ request.path.text \in Seq(STRING)
      /\ IsHandshake /\ reply = handshake_response
  BY DEF DialInv
<1>2. IsTokenPath => ~IsRoot /\ ~IsTargetPath
  BY DEF IsRoot, IsTargetPath, IsTokenPath
<1> QED
  BY <1>1, <1>2, AuthorizedFacts DEF handshake_response, Documented

LEMMA AnswerStep ==
    ASSUME DialInv, PlainInv, AnsweredAsDocumented, [ConnNext]_conn_vars
    PROVE  PlainInv' /\ AnsweredAsDocumented'
<1>1. UNCHANGED <<config, request>>
  BY DEF ConnNext, Task, conn_vars, ClientSends, ClientEnds, read_request_head, write_response,
         accept_hdr_async, HandshakeReply, HealthCheck, ConnectTcp, ConnectUdp, Tunnel
<1>2. /\ Documented' = Documented /\ plain_response' = plain_response
      /\ IsPlain' = IsPlain /\ IsHandshake' = IsHandshake
  BY <1>1 DEF Documented, plain_response, handle_auth_request, authorized, IsRoot, IsTokenPath,
              IsTargetPath, Anonymous, allows_anonymous_target, IsPlain, IsHandshake
<1>3. CASE read_request_head
  <2>1. UNCHANGED answer
    BY <1>3 DEF read_request_head
  <2>2. ASSUME pc' = "respond" PROVE \E h : parse_plain_request(h) /\ reply' \in plain_response
    BY <1>3, <2>2 DEF read_request_head, Route
  <2> QED
    BY <1>1, <1>2, <2>1, <2>2 DEF PlainInv, IsPlain, AnsweredAsDocumented, parse_plain_request
<1>4. CASE write_response
  <2>1. pc = "respond" /\ pc' = "closed" /\ reply \in Documented
    BY <1>4, PlainIsDocumented DEF write_response
  <2>2. \/ answer' = [status |-> reply, body |-> reply # 204 /\ request.method # "HEAD"]
        \/ UNCHANGED answer
    BY <1>4 DEF write_response
  <2>3. IsPlain
    BY <2>1 DEF PlainInv
  <2>4. PlainInv'
    BY <2>1 DEF PlainInv
  <2>5. CASE answer' = [status |-> reply, body |-> reply # 204 /\ request.method # "HEAD"]
    <3>1. answer'.status = reply /\ (request.method = "HEAD" => ~answer'.body)
      BY <2>5
    <3> QED
      BY <1>1, <1>2, <2>1, <2>3, <2>4, <3>1 DEF AnsweredAsDocumented
  <2>6. CASE UNCHANGED answer
    BY <1>1, <1>2, <2>4, <2>6 DEF AnsweredAsDocumented
  <2> QED
    BY <2>2, <2>5, <2>6
<1>5. CASE HandshakeReply
  <2>1. pc = "reply" /\ pc' # "respond" /\ reply \in Documented /\ IsHandshake
        /\ ~IsPlain
    BY <1>5, UpgradeIsDocumented DEF HandshakeReply, AfterReply, DialInv, IsPlain, IsHandshake
  <2>2. answer' = [status |-> reply, body |-> reply # 101] \/ UNCHANGED answer
    BY <1>5 DEF HandshakeReply
  <2> QED
    BY <1>1, <1>2, <2>1, <2>2 DEF PlainInv, AnsweredAsDocumented
<1>6. CASE \/ ClientSends \/ ClientEnds \/ accept_hdr_async \/ HealthCheck \/ ConnectTcp
           \/ ConnectUdp \/ Tunnel \/ UNCHANGED conn_vars
  <2>1. UNCHANGED answer /\ (pc' = "respond" => UNCHANGED <<pc, reply>>)
    BY <1>6 DEF ClientSends, ClientEnds, accept_hdr_async, HealthCheck, ConnectTcp, ConnectUdp,
                Tunnel, conn_vars
  <2> QED
    BY <1>1, <1>2, <2>1 DEF PlainInv, AnsweredAsDocumented
<1> QED
  BY <1>3, <1>4, <1>5, <1>6 DEF ConnNext, Task

\* Every request gets the documented answer or none, for all requests, targets and splits.
THEOREM AnswersAreDocumented == ConnSpec => []AnsweredAsDocumented
<1>1. ConnInit => PlainInv /\ AnsweredAsDocumented
  BY DEF ConnInit, PlainInv, AnsweredAsDocumented
<1>2. DialInv /\ [ConnNext]_conn_vars => DialInv'
  BY DialStep
<1>3. DialInv /\ PlainInv /\ AnsweredAsDocumented /\ [ConnNext]_conn_vars
          => PlainInv' /\ AnsweredAsDocumented'
  BY AnswerStep
<1> QED
  BY DialInitInv, <1>1, <1>2, <1>3, PTL DEF ConnSpec

-----------------------------------------------------------------------------
(* Answers that arrive *)

\* Until the request is routed, what was read and what has arrived is what the client sent.
Counted ==
    /\ client.sent \in 0 .. request.total
    /\ pc \in {"read_head", "respond"} => Len(head) + Len(socket) = client.sent
    /\ pc = "respond" => EndsWithin(Len(head))

\* An answer is chosen when the request is routed, and one that was not given is not kept.
Chosen ==
    /\ pc \in {"read_head", "handshake"} => reply = 0
    /\ pc \in Late \cup {"health"} => reply = 101

ArriveInv == Counted /\ Chosen /\ TokenAnswersArrive

LEMMA ArriveInitInv == ConnInit => ArriveInv
<1> SUFFICES ASSUME ConnInit PROVE ArriveInv
  OBVIOUS
<1>1. request.total \in Nat /\ Len(<< >>) = 0
  BY ConnectionAssumption, EmptySeq DEF ConnInit
<1>2. Counted
  BY <1>1 DEF ConnInit, Counted
<1> QED
  BY <1>2 DEF ConnInit, ArriveInv, Chosen, Late, TokenAnswersArrive

LEMMA CountedStep ==
    ASSUME ConnInv, ArriveInv, [ConnNext]_conn_vars
    PROVE  Counted'
<1>0. /\ request' = request
      /\ request.total \in Nat /\ client.sent \in Nat /\ client.sent <= request.total
      /\ socket \in Seq(Nat) /\ head \in Seq(Nat) /\ Len(socket) \in Nat /\ Len(head) \in Nat
  <2>1. request' = request
    BY DEF ConnNext, Task, conn_vars, ClientSends, ClientEnds, read_request_head, write_response,
           accept_hdr_async, HandshakeReply, HealthCheck, ConnectTcp, ConnectUdp, Tunnel
  <2> QED
    BY <2>1, LenProperties DEF ArriveInv, Counted, ConnInv, Streams
<1>1. CASE ClientSends
  <2>1. PICK n \in 1 .. request.total - client.sent :
            /\ socket' = socket \o Numbered(client.sent + 1, client.sent + n)
            /\ client' = [client EXCEPT !.sent = @ + n]
    BY <1>1 DEF ClientSends
  <2>2. n \in Nat /\ client'.sent = client.sent + n /\ client.sent + n \in 0 .. request.total
        /\ UNCHANGED <<pc, head>>
    BY <1>0, <1>1, <2>1 DEF ClientSends, ConnInv, Streams
  <2>3. /\ Numbered(client.sent + 1, client.sent + n) \in Seq(Nat)
        /\ Len(Numbered(client.sent + 1, client.sent + n)) = n
    <3>1. Numbered(client.sent + 1, client.sent + n) = [i \in 1 .. n |-> client.sent + i]
      BY <1>0, <2>2 DEF Numbered
    <3> QED
      BY <1>0, <2>2, <3>1, SMTT(30)
  <2>4. Len(socket') = Len(socket) + n
    BY <1>0, <2>1, <2>3, ConcatProperties
  <2> QED
    BY <1>0, <2>2, <2>4 DEF ArriveInv, Counted, EndsWithin
<1>2. CASE read_request_head
  <2>1. client' = client /\ pc = "read_head"
    BY <1>2 DEF read_request_head
  <2>2. Len(head) + Len(socket) = client.sent
    BY <2>1 DEF ArriveInv, Counted
  <2>3. ASSUME NEW n \in Readable, head' = head \o FirstOf(socket, n), socket' = Rest(socket, n)
        PROVE  Len(head') + Len(socket') = client.sent
    <3>1. n \in 0 .. Len(socket)
      <4>1. CHUNK \in Nat
        BY ConnectionAssumption
      <4> QED
        BY <1>0, <4>1 DEF Readable, Smaller
    <3>2. /\ FirstOf(socket, n) \in Seq(Nat) /\ Len(FirstOf(socket, n)) = n
          /\ Len(Rest(socket, n)) = Len(socket) - n
      BY <1>0, <3>1, RestFacts
    <3>3. Len(head') = Len(head) + n
      <4>1. Len(head \o FirstOf(socket, n)) = Len(head) + Len(FirstOf(socket, n))
        BY <1>0, <3>2, ConcatProperties
      <4> QED
        BY <2>3, <3>2, <4>1
    <3> QED
      BY <1>0, <2>2, <2>3, <3>1, <3>2, <3>3
  <2>4. Len(head') + Len(socket') = client.sent
    BY <1>2, <2>2, <2>3 DEF read_request_head
  <2>5. ASSUME pc' = "respond" PROVE EndsWithin(Len(head'))
    BY <1>2, <2>5 DEF read_request_head, Route, parse_plain_request, Parsed
  <2> QED
    BY <1>0, <2>1, <2>4, <2>5 DEF Counted, EndsWithin
<1>3. CASE client'.sent = client.sent /\ pc' \notin {"read_head", "respond"}
  BY <1>0, <1>3 DEF Counted
<1>4. CASE client'.sent = client.sent /\ UNCHANGED <<pc, head, socket>>
  BY <1>0, <1>4 DEF ArriveInv, Counted, EndsWithin
<1>5. CASE \/ write_response \/ accept_hdr_async \/ HandshakeReply \/ HealthCheck
           \/ ConnectTcp \/ ConnectUdp \/ Tunnel
  BY <1>3, <1>5 DEF write_response, accept_hdr_async, HandshakeReply, AfterReply, HealthCheck,
                    ConnectTcp, ConnectUdp, Tunnel
<1>6. CASE ClientEnds \/ UNCHANGED conn_vars
  BY <1>4, <1>6 DEF ClientEnds, conn_vars, stream_vars, ConnInv, Streams
<1> QED
  BY <1>1, <1>2, <1>5, <1>6 DEF ConnNext, Task

LEMMA ChosenStep ==
    ASSUME ArriveInv, [ConnNext]_conn_vars
    PROVE  Chosen'
<1> USE DEF Late
<1>1. CASE ClientSends \/ ClientEnds \/ UNCHANGED conn_vars
  BY <1>1 DEF ClientSends, ClientEnds, conn_vars, ArriveInv, Chosen
<1>2. CASE read_request_head
  <2>1. /\ pc = "read_head" /\ pc' \in {"read_head", "respond", "handshake", "closed"}
        /\ pc' # "respond" => UNCHANGED reply
    BY <1>2 DEF read_request_head, Route
  <2> QED
    BY <2>1 DEF ArriveInv, Chosen
<1>3. CASE accept_hdr_async
  <2>1. /\ pc = "handshake" /\ pc' \in {"handshake", "reply", "closed"}
        /\ pc' = "handshake" => UNCHANGED reply
    BY <1>3 DEF accept_hdr_async
  <2> QED
    BY <2>1 DEF ArriveInv, Chosen
<1>4. CASE HandshakeReply
  <2>1. /\ pc' \in {"closed", "health", "connect"} /\ UNCHANGED reply
        /\ pc' # "closed" => reply = 101
    BY <1>4 DEF HandshakeReply, AfterReply
  <2> QED
    BY <2>1 DEF Chosen
<1>5. CASE write_response \/ HealthCheck
  <2>1. pc' = "closed"
    BY <1>5 DEF write_response, HealthCheck
  <2> QED
    BY <2>1 DEF Chosen
<1>6. CASE ConnectTcp \/ ConnectUdp \/ Tunnel
  <2>1. pc \in Late /\ pc' \in Late \cup {"closed"} /\ UNCHANGED reply
    BY <1>6 DEF ConnectTcp, ConnectUdp, Tunnel
  <2> QED
    BY <2>1 DEF ArriveInv, Chosen
<1> QED
  BY <1>1, <1>2, <1>3, <1>4, <1>5, <1>6 DEF ConnNext, Task

\* The statuses of the requests that reach the token service.
Served == {200, 204, 401, 500, 503}

LEMMA SomeAnswer ==
    ASSUME NEW s \in Served, NEW b \in BOOLEAN
    PROVE  [status |-> s, body |-> b] # None
<1>1. s \in 100 .. 599
  BY DEF Served
<1> QED
  BY <1>1, NoneAssumption

\* A token request without a body is all there is to read when it is answered.
LEMMA NothingUnread ==
    ASSUME ConnInv, ArriveInv, PlainInv, pc = "respond", IsTokenPath, reply \in Served,
           request.total > request.head => request.body
    PROVE  ~Unread
<1>1. reply \in handle_auth_request /\ ~IsRoot
  BY DEF PlainInv, plain_response, IsRoot, IsTokenPath
<1>2. ~request.body
  BY <1>1 DEF handle_auth_request, Served
<1>3. /\ request.total \in Nat /\ request.head \in Nat /\ request.head <= Len(head)
      /\ Len(head) + Len(socket) = client.sent /\ client.sent \in 0 .. request.total
      /\ socket \in Seq(Nat) /\ Len(head) \in Nat /\ Len(socket) \in Nat
  BY LenProperties DEF ArriveInv, Counted, EndsWithin, ConnInv, Streams
<1>4. Len(socket) = 0 /\ client.sent = request.total
  BY <1>2, <1>3
<1>5. socket = << >>
  BY <1>3, <1>4, EmptySeq
<1> QED
  BY <1>3, <1>4, <1>5 DEF Unread

LEMMA ArriveStep ==
    ASSUME ConnInv, PlainInv, ArriveInv, [ConnNext]_conn_vars
    PROVE  TokenAnswersArrive'
<1> SUFFICES ASSUME pc' = "closed", client'.end = "open", IsTokenPath, reply' \in Served,
                    request.total > request.head => request.body
             PROVE  answer' # None
  <2>1. UNCHANGED request
    BY DEF ConnNext, Task, conn_vars, ClientSends, ClientEnds, read_request_head, write_response,
           accept_hdr_async, HandshakeReply, HealthCheck, ConnectTcp, ConnectUdp, Tunnel
  <2> QED
    BY <2>1 DEF TokenAnswersArrive, IsTokenPath, Served
<1>1. client.end = "open"
  BY DEF ConnNext, Task, conn_vars, ClientSends, ClientEnds, read_request_head, write_response,
         accept_hdr_async, HandshakeReply, HealthCheck, ConnectTcp, ConnectUdp, Tunnel,
         ConnInv, Streams
<1>2. CASE UNCHANGED <<pc, reply, answer>>
  BY <1>1, <1>2 DEF ArriveInv, TokenAnswersArrive, Served
<1>3. CASE write_response
  <2>1. pc = "respond" /\ UNCHANGED reply
    BY <1>3 DEF write_response
  <2>2. ~Unread
    BY <2>1, NothingUnread
  <2>3. answer' = [status |-> reply, body |-> reply # 204 /\ request.method # "HEAD"]
    BY <1>1, <1>3, <2>2 DEF write_response
  <2> QED
    BY <2>1, <2>3, SomeAnswer
<1>4. CASE HandshakeReply
  <2>1. answer' = [status |-> reply, body |-> reply # 101] /\ UNCHANGED reply
    BY <1>1, <1>4 DEF HandshakeReply
  <2> QED
    BY <2>1, SomeAnswer
<1>5. CASE read_request_head \/ accept_hdr_async
  <2>1. pc \in {"read_head", "handshake"} /\ UNCHANGED reply
    BY <1>5 DEF read_request_head, Route, accept_hdr_async
  <2> QED
    BY <2>1 DEF ArriveInv, Chosen, Served
<1>6. CASE HealthCheck \/ ConnectTcp \/ ConnectUdp \/ Tunnel
  <2>1. pc \in Late \cup {"health"} /\ UNCHANGED reply
    BY <1>6 DEF HealthCheck, ConnectTcp, ConnectUdp, Tunnel, Late
  <2> QED
    BY <2>1 DEF ArriveInv, Chosen, Served
<1>7. CASE ClientSends \/ ClientEnds \/ UNCHANGED conn_vars
  BY <1>2, <1>7 DEF ClientSends, ClientEnds, conn_vars
<1> QED
  BY <1>3, <1>4, <1>5, <1>6, <1>7 DEF ConnNext, Task

\* "Refusing a body also means there is nothing left unread on the connection": the answer to
\* a request that reached the token service is never lost in a reset, however the bytes of
\* the request were split (token_api.rs, write_response in proxy.rs).
THEOREM TokenAnswersAreNotLost == ConnSpec => []TokenAnswersArrive
<1> DEFINE All == ConnInv /\ DialInv /\ PlainInv /\ AnsweredAsDocumented /\ ArriveInv
<1>1. ConnInit => All
  BY ConnInitInv, DialInitInv, ArriveInitInv DEF ConnInit, PlainInv, AnsweredAsDocumented
<1>2. All /\ [ConnNext]_conn_vars => All'
  <2> SUFFICES ASSUME All, [ConnNext]_conn_vars PROVE All'
    OBVIOUS
  <2>1. ConnInv' /\ DialInv' /\ PlainInv' /\ AnsweredAsDocumented'
    BY ConnStep, DialStep, AnswerStep
  <2>2. ArriveInv'
    BY CountedStep, ChosenStep, ArriveStep DEF ArriveInv
  <2> QED
    BY <2>1, <2>2
<1>3. All => TokenAnswersArrive
  BY DEF ArriveInv
<1> QED
  BY <1>1, <1>2, <1>3, PTL DEF ConnSpec

-----------------------------------------------------------------------------
(* Ranges of addresses (ClientAddr) *)

LEMMA AddressFacts ==
    ASSUME NEW ip \in Address
    PROVE  /\ ip.family \in {"v4", "v6"} /\ ip.bits \in Word(Width[ip.family])
           /\ Width[ip.family] \in Nat \ {0}
<1>1. PICK family \in {"v4", "v6"} : \E bits \in Word(Width[family]) : ip = Ip(family, bits)
  BY DEF Address
<1>2. PICK bits \in Word(Width[family]) : ip = Ip(family, bits)
  BY <1>1
<1>3. ip.family = family /\ ip.bits = bits
  BY <1>2 DEF Ip
<1> QED
  BY <1>3, ClientAddrAssumption

LEMMA CanonicalType ==
    ASSUME NEW ip \in Address
    PROVE  to_canonical(ip) \in Address
<1> DEFINE n == Width["v6"] - Width["v4"]
           low == [i \in 1 .. Width["v4"] |-> ip.bits[n + i]]
<1>1. CASE to_canonical(ip) = ip
  BY <1>1
<1>2. CASE ip.family = "v6" /\ to_canonical(ip) = Ip("v4", low)
  <2>1. ip.bits \in [1 .. Width["v6"] -> {0, 1}]
    BY <1>2, AddressFacts DEF Word
  <2>2. \A i \in 1 .. Width["v4"] : n + i \in 1 .. Width["v6"]
    BY ClientAddrAssumption
  <2>3. low \in Word(Width["v4"])
    BY <2>1, <2>2 DEF Word
  <2> HIDE DEF low
  <2> QED
    BY <1>2, <2>3 DEF Address
<1> QED
  BY <1>1, <1>2 DEF to_canonical

\* A range that from_str() returns has a prefix within the width of its family.
LEMMA RangeFacts ==
    ASSUME NEW range \in IpRange
    PROVE  range.addr \in Address /\ range.prefix \in 0 .. Width[range.addr.family]
<1>1. PICK ip \in Address, prefix \in {None} \cup 0 .. 255 : range \in from_str(ip, prefix)
  BY DEF IpRange
<1> DEFINE length == IF prefix = None THEN Width[ip.family] ELSE prefix
<1>2. range = [addr |-> ip, prefix |-> length] /\ length <= Width[ip.family]
  BY <1>1 DEF from_str
<1>3. Width[ip.family] \in Nat
  BY AddressFacts
<1>4. length \in 0 .. Width[ip.family]
  BY <1>2, <1>3
<1> QED
  BY <1>2, <1>4

\* The mask has the first "prefix" bits, at both ends of the range of prefixes too.
LEMMA MaskFacts ==
    ASSUME NEW w \in Nat \ {0}, NEW prefix \in 0 .. w
    PROVE  \A i \in 1 .. w : Mask(w, prefix)[i] = IF i <= prefix THEN 1 ELSE 0
<1> SUFFICES ASSUME NEW i \in 1 .. w
             PROVE  Mask(w, prefix)[i] = IF i <= prefix THEN 1 ELSE 0
  OBVIOUS
<1>1. i + (w - prefix) <= w <=> i <= prefix
  OBVIOUS
<1>2. CASE w - prefix < w
  BY <1>1, <1>2 DEF Mask, ShiftedOnes
<1>3. CASE ~(w - prefix < w)
  <2>1. ~(i <= prefix)
    BY <1>3
  <2> QED
    BY <1>3, <2>1 DEF Mask
<1> QED
  BY <1>2, <1>3

\* Masked words are equal if and only if the words agree in the first "prefix" bits.
LEMMA MaskedWords ==
    ASSUME NEW w \in Nat \ {0}, NEW prefix \in 0 .. w, NEW a \in Word(w), NEW b \in Word(w)
    PROVE  BitAnd(a, Mask(w, prefix), w) = BitAnd(b, Mask(w, prefix), w)
              <=> \A i \in 1 .. prefix : a[i] = b[i]
<1> DEFINE mask == Mask(w, prefix)
           l == BitAnd(a, mask, w)
           r == BitAnd(b, mask, w)
<1>1. \A i \in 1 .. w : mask[i] = IF i <= prefix THEN 1 ELSE 0
  BY MaskFacts
<1>2. \A i \in 1 .. w : a[i] \in {0, 1} /\ b[i] \in {0, 1}
  BY DEF Word
<1> HIDE DEF mask
<1>3. /\ l = [i \in 1 .. w |-> IF a[i] = 1 /\ mask[i] = 1 THEN 1 ELSE 0]
      /\ r = [i \in 1 .. w |-> IF b[i] = 1 /\ mask[i] = 1 THEN 1 ELSE 0]
  BY DEF BitAnd
<1>4. ASSUME NEW i \in 1 .. w PROVE l[i] = r[i] <=> (i <= prefix => a[i] = b[i])
  BY <1>1, <1>2, <1>3
<1>5. l = r <=> \A i \in 1 .. w : l[i] = r[i]
  BY <1>3
<1> HIDE DEF l, r
<1>6. \A i : i \in 1 .. prefix <=> i \in 1 .. w /\ i <= prefix
  OBVIOUS
<1>7. l = r <=> \A i \in 1 .. prefix : a[i] = b[i]
  BY <1>4, <1>5, <1>6
<1> QED
  BY <1>7 DEF l, r, mask

\* IpRange::contains() takes the addresses of the block and no others, for every width and
\* every prefix from 0 to the whole width (client_addr.rs:38-57).
THEOREM RangesAreBlocks ==
    ASSUME NEW range \in IpRange, NEW address \in Address
    PROVE  range_contains(range, address) <=> InBlock(range, address)
<1> DEFINE ip == to_canonical(address)
           w == Width[ip.family]
<1>1. ip.bits \in Word(w) /\ w \in Nat \ {0}
  BY CanonicalType, AddressFacts
<1>2. range.addr.bits \in Word(Width[range.addr.family])
      /\ range.prefix \in 0 .. Width[range.addr.family]
  BY RangeFacts, AddressFacts
<1> HIDE DEF ip
<1>3. CASE range.addr.family = ip.family
  <2>1. range.addr.bits \in Word(w) /\ range.prefix \in 0 .. w
    BY <1>2, <1>3
  <2> HIDE DEF w
  <2>2. BitAnd(range.addr.bits, Mask(w, range.prefix), w) = BitAnd(ip.bits, Mask(w, range.prefix), w)
          <=> \A i \in 1 .. range.prefix : range.addr.bits[i] = ip.bits[i]
    BY <1>1, <2>1, MaskedWords
  <2> QED
    BY <1>3, <2>2 DEF range_contains, InBlock, ip, w
<1>4. CASE range.addr.family # ip.family
  BY <1>4 DEF range_contains, InBlock, ip
<1> QED
  BY <1>3, <1>4

LEMMA ContainedIsTrusted ==
    ASSUME NEW ranges \in Seq(IpRange), NEW ip \in Address
    PROVE  contains(ranges, ip) <=> Trusted(ranges, ip)
<1>1. \A i \in 1 .. Len(ranges) : ranges[i] \in IpRange
  BY ElementOfSeq
<1>2. \A i \in 1 .. Len(ranges) : range_contains(ranges[i], ip) <=> InBlock(ranges[i], ip)
  BY <1>1, RangesAreBlocks
<1> QED
  BY <1>2 DEF contains, Trusted

-----------------------------------------------------------------------------
(* Entries of X-Forwarded-For (ClientAddr) *)

\* The entries that count.
Filled == {entry \in Entry : entry.form # "empty"}

LEMMA FilledFacts ==
    ASSUME NEW entry \in Filled
    PROVE  \/ entry.form \in AddressForms /\ entry.ip \in Address
           \/ entry.form = "other" /\ entry.form \notin AddressForms
  BY DEF Filled, Entry, AddressForms

\* The search stops at the entries that are no trusted proxies, and at no others.
LEMMA StopsIsForeign ==
    ASSUME NEW ranges \in Seq(IpRange), NEW entry \in Filled
    PROVE  Stops(ranges, entry) <=> Foreign(ranges, entry)
<1>1. CASE entry.form \in AddressForms /\ entry.ip \in Address
  <2>1. to_canonical(entry.ip) \in Address
    BY <1>1, CanonicalType
  <2>2. to_canonical(entry.ip) # None /\ entry.form # "other"
    BY <1>1, <2>1, ClientAddrAssumption DEF AddressForms
  <2>3. contains(ranges, to_canonical(entry.ip)) <=> Trusted(ranges, to_canonical(entry.ip))
    BY <2>1, ContainedIsTrusted
  <2> QED
    BY <1>1, <2>2, <2>3 DEF Stops, Foreign, parse_forwarded_address
<1>2. CASE entry.form = "other" /\ entry.form \notin AddressForms
  BY <1>2 DEF Stops, Foreign, parse_forwarded_address
<1> QED
  BY <1>1, <1>2, FilledFacts

LEMMA EntriesType ==
    ASSUME NEW line \in HeaderLine
    PROVE  EntriesOf(line) \in Seq(Filled)
<1> DEFINE e == line.entries
           ss == [i \in 1 .. Len(e) |-> NotEmpty(e[i])]
<1>1. e \in Seq(Entry)
  BY DEF HeaderLine
<1> HIDE DEF e
<1>2. ASSUME NEW i \in 1 .. Len(e) PROVE NotEmpty(e[i]) \in Seq(Filled)
  <2>1. e[i] \in Entry
    BY <1>1
  <2>2. CASE e[i].form = "empty"
    BY <2>2 DEF NotEmpty
  <2>3. CASE e[i].form # "empty"
    <3>1. e[i] \in Filled
      BY <2>1, <2>3 DEF Filled
    <3> QED
      BY <2>3, <3>1 DEF NotEmpty
  <2> QED
    BY <2>2, <2>3
<1>3. ss \in Seq(Seq(Filled))
  BY <1>1, <1>2
<1> HIDE DEF ss
<1>4. FlattenSeq(ss) \in Seq(Filled)
  BY <1>3, FlattenType
<1> QED
  BY <1>4 DEF EntriesOf, ss, e

\* What the lines hold, one after the other.
LEMMA ListParts ==
    ASSUME NEW lines \in Seq(HeaderLine)
    PROVE  [i \in 1 .. Len(lines) |-> EntriesOf(lines[i])] \in Seq(Seq(Filled))
<1>1. \A i \in 1 .. Len(lines) : lines[i] \in HeaderLine
  OBVIOUS
<1>2. \A i \in 1 .. Len(lines) : EntriesOf(lines[i]) \in Seq(Filled)
  BY <1>1, EntriesType
<1> QED
  BY <1>2

LEMMA ListType ==
    ASSUME NEW lines \in Seq(HeaderLine)
    PROVE  EntryList(lines) \in Seq(Filled)
  BY ListParts, FlattenType DEF EntryList

\* The entries of a line that is put before the others come before theirs.
LEMMA ListOfLonger ==
    ASSUME NEW line \in HeaderLine, NEW lines \in Seq(HeaderLine)
    PROVE  EntryList(<<line>> \o lines) = EntriesOf(line) \o EntryList(lines)
<1> DEFINE longer == <<line>> \o lines
           all == [i \in 1 .. Len(longer) |-> EntriesOf(longer[i])]
           one == <<EntriesOf(line)>>
           rest == [i \in 1 .. Len(lines) |-> EntriesOf(lines[i])]
           Lists == Seq(Filled)
<1>1. /\ longer \in Seq(HeaderLine) /\ Len(lines) \in Nat /\ Len(longer) = 1 + Len(lines)
      /\ longer[1] = line /\ \A i \in 1 .. Len(lines) : longer[1 + i] = lines[i]
  OBVIOUS
<1>2. EntriesOf(line) \in Lists
  BY EntriesType
<1>3. one \in Seq(Lists) /\ Len(one) = 1 /\ one[1] = EntriesOf(line)
  BY <1>2
<1>4. rest \in Seq(Lists) /\ Len(rest) = Len(lines)
  BY ListParts
<1> HIDE DEF longer
<1>5. all \in Seq(Lists) /\ Len(all) = 1 + Len(lines)
  <2>1. all \in Seq(Lists)
    BY <1>1, ListParts
  <2> QED
    BY <1>1, <2>1
<1>6. \A i \in 1 .. Len(one) : all[i] = one[i]
  <2>1. \A i \in 1 .. 1 : i = 1
    OBVIOUS
  <2>2. 1 \in 1 .. Len(longer)
    BY <1>1
  <2>3. all[1] = one[1]
    BY <1>1, <1>3, <2>2
  <2> QED
    BY <1>3, <2>1, <2>3
<1>7. \A i \in 1 .. Len(rest) : all[Len(one) + i] = rest[i]
  <2> SUFFICES ASSUME NEW i \in 1 .. Len(lines) PROVE all[1 + i] = rest[i]
    BY <1>3, <1>4
  <2>1. 1 + i \in 1 .. Len(longer)
    BY <1>1
  <2> QED
    BY <1>1, <2>1
<1>8. Len(all) = Len(one) + Len(rest)
  BY <1>3, <1>4, <1>5
<1>9. FlattenSeq(one) = EntriesOf(line)
  BY <1>2, FlattenOne
<1>10. FlattenSeq(all) = EntryList(longer) /\ FlattenSeq(rest) = EntryList(lines)
  BY DEF EntryList
<1> HIDE DEF all, one, rest
<1>11. all = one \o rest
  BY ONLY <1>3, <1>4, <1>5, <1>6, <1>7, <1>8, InARow, ZenonT(30)
<1>12. FlattenSeq(one \o rest) = FlattenSeq(one) \o FlattenSeq(rest)
  BY <1>3, <1>4, FlattenConcat
<1> QED
  BY ONLY <1>9, <1>10, <1>11, <1>12, Zenon DEF longer

\* The search ends at the last entry that is no trusted proxy, or nowhere.
LEMMA StopsAtLast ==
    ASSUME NEW ranges \in Seq(IpRange), NEW entries \in Seq(Filled)
    PROVE  \/ /\ StopAt(ranges, entries) = 0
              /\ \A i \in 1 .. Len(entries) : ~Foreign(ranges, entries[i])
           \/ /\ StopAt(ranges, entries) \in 1 .. Len(entries)
              /\ Foreign(ranges, entries[StopAt(ranges, entries)])
              /\ \A i \in StopAt(ranges, entries) + 1 .. Len(entries) : ~Foreign(ranges, entries[i])
<1> DEFINE T == {i \in 1 .. Len(entries) : Stops(ranges, entries[i])}
           latest == CHOOSE i \in T : \A j \in T : i >= j
<1>1. StopAt(ranges, entries) = IF T # {} THEN latest ELSE 0
  BY DEF StopAt, SelectLastInSeq, Max
<1>2. \A i \in 1 .. Len(entries) : i \in T <=> Foreign(ranges, entries[i])
  <2>1. \A i \in 1 .. Len(entries) : entries[i] \in Filled
    OBVIOUS
  <2> QED
    BY <2>1, StopsIsForeign
<1>3. T \in SUBSET (1 .. Len(entries)) /\ Len(entries) \in Nat
  OBVIOUS
<1> HIDE DEF T
<1>4. CASE T = {}
  BY <1>1, <1>2, <1>4
<1>5. CASE T # {}
  <2>1. \E i \in T : \A j \in T : i >= j
    BY <1>3, <1>5, Greatest
  <2>2. latest \in T /\ \A j \in T : latest >= j
    BY <2>1
  <2> HIDE DEF latest
  <2>3. latest \in 1 .. Len(entries) /\ Foreign(ranges, entries[latest])
    BY <1>2, <1>3, <2>2
  <2>4. ASSUME NEW i \in latest + 1 .. Len(entries) PROVE ~Foreign(ranges, entries[i])
    <3>1. i \in 1 .. Len(entries) /\ ~(latest >= i)
      BY <1>3, <2>3
    <3>2. i \notin T
      BY <2>2, <3>1
    <3> QED
      BY <1>2, <3>1, <3>2
  <2> QED
    BY <1>1, <1>5, <2>3, <2>4
<1> QED
  BY <1>4, <1>5

\* Entries that are put before a list with an entry that is no trusted proxy change nothing.
LEMMA ForgeriesAreNotReached ==
    ASSUME NEW ranges \in Seq(IpRange), NEW forged \in Seq(Filled), NEW entries \in Seq(Filled),
           NEW k \in 1 .. Len(entries), Foreign(ranges, entries[k])
    PROVE  select_client(ranges, forged \o entries) = select_client(ranges, entries)
<1> DEFINE both == forged \o entries
           f == Len(forged)
           n == Len(entries)
           m == StopAt(ranges, entries)
           s == StopAt(ranges, both)
<1>1. /\ both \in Seq(Filled) /\ f \in Nat /\ n \in Nat /\ Len(both) = f + n
      /\ \A i \in 1 .. n : both[f + i] = entries[i]
  OBVIOUS
<1>2. both # << >> /\ entries # << >>
  BY <1>1
<1> HIDE DEF both
<1>3. /\ m \in 1 .. n /\ Foreign(ranges, entries[m])
      /\ \A i \in m + 1 .. n : ~Foreign(ranges, entries[i])
  BY StopsAtLast
<1>4. f + k \in 1 .. Len(both) /\ Foreign(ranges, both[f + k])
  BY <1>1
<1>5. /\ s \in 1 .. Len(both) /\ Foreign(ranges, both[s])
      /\ \A i \in s + 1 .. Len(both) : ~Foreign(ranges, both[i])
  BY <1>1, <1>4, StopsAtLast
<1> HIDE DEF f, n, m, s
<1>6. s >= f + m
  <2> SUFFICES ASSUME s < f + m PROVE FALSE
    BY <1>1, <1>3, <1>5
  <2>1. f + m \in s + 1 .. Len(both)
    BY <1>1, <1>3, <1>5
  <2>2. Foreign(ranges, both[f + m])
    BY <1>1, <1>3
  <2> QED
    BY <1>5, <2>1, <2>2
<1>7. s <= f + m
  <2> SUFFICES ASSUME s > f + m PROVE FALSE
    BY <1>1, <1>3, <1>5
  <2>1. s - f \in m + 1 .. n /\ s - f \in 1 .. n /\ f + (s - f) = s
    BY <1>1, <1>3, <1>5
  <2>2. both[s] = entries[s - f]
    BY <1>1, <2>1
  <2> QED
    BY <1>3, <1>5, <2>1, <2>2
<1>8. s = f + m
  BY <1>1, <1>3, <1>5, <1>6, <1>7
<1>9. both[s] = entries[m] /\ s # 0 /\ m # 0
  BY <1>1, <1>3, <1>5, <1>8
<1>10. select_client(ranges, both) = parse_forwarded_address(both[s])
  BY <1>2, <1>9 DEF select_client, s
<1>11. select_client(ranges, entries) = parse_forwarded_address(entries[m])
  BY <1>2, <1>9 DEF select_client, m
<1> QED
  BY <1>9, <1>10, <1>11 DEF both

-----------------------------------------------------------------------------
(* The reported address *)

\* The configuration and what a request says never change.
AddrInv == \E c \in Cases : config = c[1] /\ request = c[2]

LEMMA AddrInitInv == ConnInit => AddrInv
  BY DEF ConnInit, AddrInv

LEMMA AddrStep ==
    ASSUME AddrInv, [ConnNext]_conn_vars
    PROVE  AddrInv'
<1>1. UNCHANGED <<config, request>>
  BY DEF ConnNext, Task, conn_vars, ClientSends, ClientEnds, read_request_head, write_response,
         accept_hdr_async, HandshakeReply, HealthCheck, ConnectTcp, ConnectUdp, Tunnel
<1> QED
  BY <1>1 DEF AddrInv

\* Without entries the peer is reported: so it is when the head does not parse.
LEMMA NoEntries ==
    ASSUME NEW ranges, NEW peer
    PROVE  client_addr(ranges, peer, << >>) = peer
<1> DEFINE parts == [i \in 1 .. Len(<< >>) |-> EntriesOf(<< >>[i])]
<1>1. parts = << >>
  OBVIOUS
<1>2. EntryList(<< >>) = << >>
  BY <1>1, FlattenEmpty DEF EntryList
<1> QED
  BY <1>2 DEF client_addr, forwarded_client, select_client

\* What the address is taken from.
LEMMA ReportedFacts ==
    ASSUME AddrInv
    PROVE  /\ config.trusted \in Seq(IpRange) /\ config.peer \in Address
           /\ request.lines \in Seq(HeaderLine) /\ Entries \in Seq(Filled)
           /\ contains(config.trusted, config.peer) <=> Trusted(config.trusted, config.peer)
           /\ Parsed(head) => reported = client_addr(config.trusted, config.peer, request.lines)
           /\ ~Parsed(head) => reported = config.peer
<1>1. /\ config.trusted \in Seq(IpRange) /\ config.peer \in Address
      /\ request.lines \in Seq(HeaderLine)
  BY ForwardingAssumption DEF AddrInv
<1>2. Entries \in Seq(Filled)
  BY <1>1, ListType DEF Entries
<1>3. contains(config.trusted, config.peer) <=> Trusted(config.trusted, config.peer)
  BY <1>1, ContainedIsTrusted
<1>4. /\ Parsed(head) => reported = client_addr(config.trusted, config.peer, request.lines)
      /\ ~Parsed(head) => reported = config.peer
  BY NoEntries DEF reported
<1> QED
  BY <1>1, <1>2, <1>3, <1>4

LEMMA NearestFromInv ==
    ASSUME AddrInv
    PROVE  ReportedIsNearest
<1> SUFFICES ASSUME reported # config.peer
             PROVE  /\ Trusted(config.trusted, config.peer)
                    /\ \E i \in 1 .. Len(Entries) :
                          /\ Entries[i].form # "other" /\ reported = to_canonical(Entries[i].ip)
                          /\ \A j \in i + 1 .. Len(Entries) : ~Foreign(config.trusted, Entries[j])
                          /\ i = 1 \/ Foreign(config.trusted, Entries[i])
  BY DEF ReportedIsNearest
<1> DEFINE ranges == config.trusted
           m == StopAt(ranges, Entries)
           i == IF m = 0 THEN 1 ELSE m
<1>1. /\ ranges \in Seq(IpRange) /\ Entries \in Seq(Filled)
      /\ contains(ranges, config.peer) <=> Trusted(ranges, config.peer)
      /\ reported = client_addr(ranges, config.peer, request.lines)
  BY ReportedFacts
<1>2. /\ contains(ranges, config.peer) /\ reported = select_client(ranges, Entries)
      /\ reported # None
  BY <1>1 DEF client_addr, forwarded_client, Entries
<1>3. Entries # << >> /\ reported = parse_forwarded_address(Entries[i])
  BY <1>2 DEF select_client
<1>4. \/ m = 0 /\ \A j \in 1 .. Len(Entries) : ~Foreign(ranges, Entries[j])
      \/ /\ m \in 1 .. Len(Entries) /\ Foreign(ranges, Entries[m])
         /\ \A j \in m + 1 .. Len(Entries) : ~Foreign(ranges, Entries[j])
  BY <1>1, StopsAtLast
<1> HIDE DEF m, ranges
<1>5. Len(Entries) \in Nat /\ 1 \in 1 .. Len(Entries)
  BY <1>1, <1>3
<1>6. /\ i \in 1 .. Len(Entries) /\ (i = 1 \/ Foreign(ranges, Entries[i]))
      /\ \A j \in i + 1 .. Len(Entries) : ~Foreign(ranges, Entries[j])
  BY <1>4, <1>5
<1> HIDE DEF i
<1>7. Entries[i] \in Filled
  BY <1>1, <1>6
<1>8. Entries[i].form # "other" /\ reported = to_canonical(Entries[i].ip)
  BY <1>2, <1>3, <1>7, FilledFacts DEF parse_forwarded_address, AddressForms
<1> QED
  BY <1>1, <1>2, <1>6, <1>8 DEF ranges

\* The lines that a client puts before the others are not reached.
LEMMA ForgedLineIsNotReached ==
    ASSUME AddrInv, Parsed(head), IsSettled, NEW line \in ForgedLines
    PROVE  client_addr(config.trusted, config.peer, <<line>> \o request.lines) = reported
<1> DEFINE ranges == config.trusted
<1>1. /\ ranges \in Seq(IpRange) /\ request.lines \in Seq(HeaderLine) /\ Entries \in Seq(Filled)
      /\ contains(ranges, config.peer) <=> Trusted(ranges, config.peer)
      /\ reported = client_addr(ranges, config.peer, request.lines)
      /\ line \in HeaderLine
  BY ReportedFacts, ForwardingAssumption
<1>0. ~Trusted(ranges, config.peer) \/ \E k \in 1 .. Len(Entries) : Foreign(ranges, Entries[k])
  BY DEF IsSettled
<1> DEFINE longer == <<line>> \o request.lines
<1>2. EntryList(longer) = EntriesOf(line) \o Entries
  BY <1>1, ListOfLonger DEF Entries
<1> HIDE DEF longer, ranges
<1>3. CASE ~Trusted(ranges, config.peer)
  <2>1. /\ client_addr(ranges, config.peer, longer) = config.peer
        /\ client_addr(ranges, config.peer, request.lines) = config.peer
    BY <1>1, <1>3 DEF client_addr
  <2> QED
    BY <1>1, <2>1 DEF longer, ranges
<1>4. CASE \E k \in 1 .. Len(Entries) : Foreign(ranges, Entries[k])
  <2>1. PICK k \in 1 .. Len(Entries) : Foreign(ranges, Entries[k])
    BY <1>4
  <2>2. EntriesOf(line) \in Seq(Filled)
    BY <1>1, EntriesType
  <2>3. select_client(ranges, EntriesOf(line) \o Entries) = select_client(ranges, Entries)
    BY <1>1, <2>1, <2>2, ForgeriesAreNotReached
  <2>4. forwarded_client(ranges, longer) = forwarded_client(ranges, request.lines)
    BY <1>2, <2>3, Zenon DEF forwarded_client, Entries
  <2>5. client_addr(ranges, config.peer, longer) = client_addr(ranges, config.peer, request.lines)
    BY <2>4 DEF client_addr
  <2> QED
    BY <1>1, <2>5 DEF longer, ranges
<1> QED
  BY <1>0, <1>3, <1>4 DEF longer, ranges

LEMMA ForgedFromInv ==
    ASSUME AddrInv
    PROVE  ForgedEntriesChangeNothing
<1> SUFFICES ASSUME Parsed(head), IsSettled,
                    NEW line \in ForgedLines, NEW bytes \in 1 .. MAX_REQUEST_HEAD
             PROVE  /\ ReportedBehind(line, bytes) \subseteq {reported, config.peer}
                    /\ request.headers < MAX_HEADERS /\ request.head + bytes <= MAX_REQUEST_HEAD
                          => ReportedBehind(line, bytes) = {reported}
                    /\ request.headers = MAX_HEADERS
                          => ReportedBehind(line, bytes) = {config.peer}
  BY DEF ForgedEntriesChangeNothing
<1> DEFINE parse == MayParse(request.headers + 1, request.head + bytes)
           longer == <<line>> \o request.lines
           at(b) == client_addr(config.trusted, config.peer, IF b THEN longer ELSE << >>)
<1>1. at(TRUE) = reported /\ at(FALSE) = config.peer
  BY ForgedLineIsNotReached, NoEntries
<1>2. ReportedBehind(line, bytes) = {at(b) : b \in parse}
  BY DEF ReportedBehind
<1>3. parse \subseteq BOOLEAN
  BY DEF MayParse
<1>0. /\ request.headers \in Nat /\ MAX_HEADERS \in Nat /\ request.head \in Nat
      /\ MAX_REQUEST_HEAD \in Nat /\ CHUNK \in Nat \ {0} /\ bytes \in Nat
  BY ConnectionAssumption, ForwardingAssumption DEF AddrInv
<1>4. ASSUME request.headers < MAX_HEADERS, request.head + bytes <= MAX_REQUEST_HEAD
      PROVE  parse = {TRUE}
  <2>2. /\ request.headers + 1 <= MAX_HEADERS
        /\ request.head + bytes < MAX_REQUEST_HEAD + CHUNK
        /\ ~(request.headers + 1 > MAX_HEADERS) /\ ~(request.head + bytes > MAX_REQUEST_HEAD)
    BY <1>0, <1>4
  <2>. QED BY <2>2 DEF MayParse
<1>6. ASSUME request.headers = MAX_HEADERS
      PROVE  parse = {FALSE}
  <2>1. ~(request.headers + 1 <= MAX_HEADERS) /\ request.headers + 1 > MAX_HEADERS
    BY <1>0, <1>6
  <2>. QED BY <2>1 DEF MayParse
<1> HIDE DEF at, parse
<1>5. ReportedBehind(line, bytes) \subseteq {reported, config.peer}
  BY <1>1, <1>2, <1>3
<1>7. parse = {TRUE} => ReportedBehind(line, bytes) = {reported}
  BY <1>1, <1>2
<1>8. parse = {FALSE} => ReportedBehind(line, bytes) = {config.peer}
  BY <1>1, <1>2
<1> QED
  BY <1>4, <1>5, <1>6, <1>7, <1>8

\* A client is reported under the peer's address, or under that of an entry of the header
\* right of which every entry is a trusted proxy, itself one only when all are; whatever the
\* ranges, the peer and the header lines are (client_addr.rs:120-165).
THEOREM NearestIsReported == ConnSpec => []ReportedIsNearest
<1>1. AddrInv /\ [ConnNext]_conn_vars => AddrInv'
  BY AddrStep
<1>2. AddrInv => ReportedIsNearest
  BY NearestFromInv
<1> QED
  BY AddrInitInv, <1>1, <1>2, PTL DEF ConnSpec

\* "Whatever a client puts to the left of that cannot change the outcome", within the limits:
\* a header line that is put before the others changes the address only if every entry of the
\* others is a trusted proxy, or to the peer's if the head outgrows MAX_REQUEST_HEAD or
\* MAX_HEADERS with it (client_addr.rs:129-165, http_probe.rs:30-46).
THEOREM ForgeriesChangeNothing == ConnSpec => []ForgedEntriesChangeNothing
<1>1. AddrInv /\ [ConnNext]_conn_vars => AddrInv'
  BY AddrStep
<1>2. AddrInv => ForgedEntriesChangeNothing
  BY ForgedFromInv
<1> QED
  BY AddrInitInv, <1>1, <1>2, PTL DEF ConnSpec
=============================================================================
