----------------------------- MODULE SequenceFacts -----------------------------
(***************************************************************************)
(* Facts about numbers and sequences that several proofs cite.             *)
(*                                                                         *)
(* FlattenSeq is defined by recursion.  What it computes is proved by      *)
(* taking the least length at which a claim fails.                         *)
(***************************************************************************)
EXTENDS Integers, SequencesExt, SequenceTheorems, WellFoundedInduction, TLAPS

-----------------------------------------------------------------------------
(* Numbers *)

\* A set of numbers that is not empty has a least member.
LEMMA Least ==
    ASSUME NEW T \in SUBSET Nat, T # {}
    PROVE  \E n \in T : \A m \in T : n <= m
<1>1. PICK n \in T : \A y \in T : ~(<<y, n>> \in OpToRel(<, Nat))
  BY NatLessThanWellFounded, WFMin, Zenon
<1>2. \A y \in Nat : <<y, n>> \in OpToRel(<, Nat) <=> y < n
  BY DEF OpToRel
<1>3. \A m \in T : n <= m
  <2>. SUFFICES ASSUME NEW m \in T PROVE n <= m
    OBVIOUS
  <2>1. ~(m < n)
    BY <1>1, <1>2
  <2>. QED BY <2>1
<1>. QED BY <1>3

\* And one that has a bound has a greatest.
LEMMA Greatest ==
    ASSUME NEW n \in Nat, NEW T \in SUBSET (1 .. n), T # {}
    PROVE  \E i \in T : \A j \in T : i >= j
<1>. DEFINE D == {m \in 0 .. n : n - m \in T}
<1>1. D \in SUBSET Nat /\ D # {}
  <2>1. PICK i \in T : TRUE
    OBVIOUS
  <2>2. n - i \in 0 .. n /\ n - (n - i) = i
    OBVIOUS
  <2>3. n - i \in D
    BY <2>2
  <2>4. \A m \in D : m \in Nat
    OBVIOUS
  <2>. HIDE DEF D
  <2>. QED BY <2>3, <2>4
<1>2. PICK m \in D : \A k \in D : m <= k
  BY <1>1, Least
<1>3. ASSUME NEW j \in T PROVE n - m >= j
  <2>1. n - j \in 0 .. n /\ n - (n - j) = j
    OBVIOUS
  <2>2. n - j \in D
    BY <2>1
  <2>3. m <= n - j
    BY <1>2, <2>2
  <2>. QED BY <1>2, <2>3
<1>4. n - m \in T
  BY <1>2
<1>. QED BY <1>3, <1>4

\* What holds of 0, and of each number up to n if it holds of the one before, holds up to n.
LEMMA UpTo ==
    ASSUME NEW n \in Nat, NEW G, 0 \in G, \A i \in 1 .. n : i - 1 \in G => i \in G
    PROVE  \A i \in 0 .. n : i \in G
<1>. SUFFICES ASSUME NEW j \in 0 .. n, j \notin G PROVE FALSE
  OBVIOUS
<1>. DEFINE T == {i \in 0 .. n : i \notin G}
<1>1. T \in SUBSET Nat /\ j \in T
  OBVIOUS
<1>2. PICK i \in T : \A m \in T : i <= m
  BY <1>1, Least
<1>3. i \in 1 .. n /\ i \notin G
  BY <1>2
<1>4. i - 1 \in 0 .. n /\ ~(i <= i - 1)
  BY <1>3
<1>5. i - 1 \in G
  BY <1>2, <1>4
<1>. QED BY <1>3, <1>5

-----------------------------------------------------------------------------
(* Sequences in a row *)

\* A sequence that has the members of two others, in their order, is both in a row.
LEMMA InARow ==
    ASSUME NEW S, NEW a \in Seq(S), NEW b \in Seq(S), NEW l \in Seq(S),
           Len(l) = Len(a) + Len(b),
           \A i \in 1 .. Len(a) : l[i] = a[i],
           \A i \in 1 .. Len(b) : l[Len(a) + i] = b[i]
    PROVE  l = a \o b
<1>1. a \o b \in Seq(S) /\ Len(a \o b) = Len(l) /\ Len(a) \in Nat /\ Len(b) \in Nat
  OBVIOUS
<1>2. ASSUME NEW i \in 1 .. Len(l) PROVE l[i] = (a \o b)[i]
  <2>1. CASE i <= Len(a)
    <3>1. i \in 1 .. Len(a) /\ (a \o b)[i] = a[i]
      BY <1>1, <2>1
    <3>. QED BY <3>1
  <2>2. CASE i > Len(a)
    <3>1. i - Len(a) \in 1 .. Len(b) /\ Len(a) + (i - Len(a)) = i
      BY <1>1, <2>2
    <3>2. (a \o b)[i] = b[i - Len(a)]
      BY <1>1, <2>2
    <3>3. l[Len(a) + (i - Len(a))] = b[i - Len(a)]
      BY <3>1
    <3>. QED BY <3>1, <3>2, <3>3
  <2>3. i <= Len(a) \/ i > Len(a)
    BY <1>1
  <2>. QED BY <2>1, <2>2, <2>3
<1>. QED BY <1>1, <1>2, SeqEqual

-----------------------------------------------------------------------------
(* The recursion *)

\* The partial results of joining the first n sequences of ss.
Joined(S, ss, n, f) ==
    /\ f \in [0 .. n -> Seq(S)]
    /\ f[0] = << >>
    /\ \A i \in 1 .. n : f[i] = f[i - 1] \o ss[i]

LEMMA JoinedExists ==
    ASSUME NEW S, NEW ss \in Seq(Seq(S))
    PROVE  \A n \in 0 .. Len(ss) : \E f : Joined(S, ss, n, f)
<1>. DEFINE G == {n \in Nat : \E f : Joined(S, ss, n, f)}
<1>1. 0 \in G
  <2>. DEFINE f == [i \in 0 .. 0 |-> << >>]
  <2>1. f \in [0 .. 0 -> Seq(S)] /\ f[0] = << >> /\ \A i \in 1 .. 0 : FALSE
    OBVIOUS
  <2>2. Joined(S, ss, 0, f)
    BY <2>1 DEF Joined
  <2>. QED BY <2>2
<1>2. ASSUME NEW n \in 1 .. Len(ss), n - 1 \in G
      PROVE  n \in G
  <2>1. PICK f : Joined(S, ss, n - 1, f)
    BY <1>2
  <2>. DEFINE g == [i \in 0 .. n |-> IF i < n THEN f[i] ELSE f[n - 1] \o ss[n]]
  <2>2. f[n - 1] \in Seq(S) /\ ss[n] \in Seq(S)
    BY <1>2, <2>1 DEF Joined
  <2>3. f[n - 1] \o ss[n] \in Seq(S)
    BY <2>2
  <2>4. g \in [0 .. n -> Seq(S)]
    <3>. SUFFICES ASSUME NEW i \in 0 .. n PROVE g[i] \in Seq(S)
      OBVIOUS
    <3>1. CASE i < n
      <4>1. i \in 0 .. n - 1
        BY <3>1
      <4>. QED BY <2>1, <3>1, <4>1 DEF Joined
    <3>2. CASE ~(i < n)
      BY <2>3, <3>2
    <3>. QED BY <3>1, <3>2
  <2>5. g[0] = << >>
    BY <1>2, <2>1 DEF Joined
  <2>6. ASSUME NEW i \in 1 .. n PROVE g[i] = g[i - 1] \o ss[i]
    <3>1. CASE i < n
      <4>1. i \in 1 .. n - 1 /\ g[i] = f[i] /\ g[i - 1] = f[i - 1]
        BY <3>1
      <4>. QED BY <2>1, <4>1 DEF Joined
    <3>2. CASE i = n
      <4>1. n \in 0 .. n /\ n - 1 \in 0 .. n /\ ~(n < n) /\ n - 1 < n
        OBVIOUS
      <4>2. g[n] = f[n - 1] \o ss[n] /\ g[n - 1] = f[n - 1]
        BY <4>1
      <4>. QED BY <3>2, <4>2
    <3>3. i < n \/ i = n
      OBVIOUS
    <3>. QED BY <3>1, <3>2, <3>3
  <2>7. Joined(S, ss, n, g)
    BY <2>4, <2>5, <2>6 DEF Joined
  <2>. QED BY <1>2, <2>7
<1>3. \A i \in 0 .. Len(ss) : i \in G
  <2>. HIDE DEF G
  <2>1. Len(ss) \in Nat
    OBVIOUS
  <2>. QED BY <1>1, <1>2, <2>1, UpTo
<1>. QED BY <1>3

\* The recursion of FlattenSeq.
Flattens(ss, g) == g = [i \in 1 .. Len(ss) |-> IF i = 1 THEN ss[i] ELSE g[i - 1] \o ss[i]]

\* Nothing joined is nothing.
LEMMA FlattenEmpty ==
    FlattenSeq(<< >>) = << >>
BY DEF FlattenSeq

LEMMA FlattenIsLast ==
    ASSUME NEW S, NEW ss \in Seq(Seq(S)), NEW f, Joined(S, ss, Len(ss), f)
    PROVE  FlattenSeq(ss) = f[Len(ss)]
<1>1. CASE Len(ss) = 0
  BY <1>1 DEF FlattenSeq, Joined
<1>2. CASE Len(ss) # 0
  <2>. DEFINE chosen == CHOOSE g : Flattens(ss, g)
              h == [i \in 1 .. Len(ss) |-> f[i]]
  <2>1. FlattenSeq(ss) = chosen[Len(ss)]
    BY <1>2 DEF FlattenSeq, Flattens
  <2>2. Flattens(ss, h)
    <3>1. ASSUME NEW i \in 1 .. Len(ss)
          PROVE  f[i] = IF i = 1 THEN ss[i] ELSE h[i - 1] \o ss[i]
      <4>1. f[i] = f[i - 1] \o ss[i] /\ ss[i] \in Seq(S) /\ f[0] = << >>
        BY DEF Joined
      <4>2. CASE i = 1
        <5>1. << >> \o ss[i] = ss[i] /\ f[i - 1] = << >>
          BY <4>1, <4>2
        <5>. QED BY <4>1, <4>2, <5>1
      <4>3. CASE i # 1
        <5>1. i - 1 \in 1 .. Len(ss)
          BY <4>3
        <5>. QED BY <4>1, <4>3, <5>1
      <4>. QED BY <4>2, <4>3
    <3>. QED BY <3>1 DEF Flattens
  <2>. HIDE DEF h
  <2>3. Flattens(ss, chosen)
    BY <2>2
  <2>. HIDE DEF chosen
  <2>. DEFINE G == {0} \cup {i \in 1 .. Len(ss) : chosen[i] = f[i]}
  <2>4. ASSUME NEW i \in 1 .. Len(ss), i - 1 \in G
        PROVE  i \in G
    <3>1. /\ chosen[i] = IF i = 1 THEN ss[i] ELSE chosen[i - 1] \o ss[i]
      BY <2>3 DEF Flattens
    <3>2. f[i] = f[i - 1] \o ss[i] /\ ss[i] \in Seq(S) /\ f[0] = << >>
      BY DEF Joined
    <3>3. CASE i = 1
      <4>1. << >> \o ss[i] = ss[i] /\ f[i - 1] = << >>
        BY <3>2, <3>3
      <4>2. chosen[i] = f[i]
        BY <3>1, <3>2, <3>3, <4>1
      <4>. QED BY <4>2
    <3>4. CASE i # 1
      <4>1. chosen[i - 1] = f[i - 1]
        BY <2>4, <3>4
      <4>2. chosen[i] = f[i]
        BY <3>1, <3>2, <3>4, <4>1
      <4>. QED BY <4>2
    <3>. QED BY <3>3, <3>4
  <2>5. \A i \in 0 .. Len(ss) : i \in G
    <3>1. 0 \in G /\ Len(ss) \in Nat
      OBVIOUS
    <3>. HIDE DEF G
    <3>. QED BY <2>4, <3>1, UpTo
  <2>6. Len(ss) \in 1 .. Len(ss) /\ Len(ss) \in 0 .. Len(ss)
    BY <1>2
  <2>. QED BY <2>1, <2>5, <2>6
<1>. QED BY <1>1, <1>2

-----------------------------------------------------------------------------
(* What FlattenSeq computes *)

LEMMA EmptyAround == ASSUME NEW S, NEW a \in Seq(S) PROVE a \o << >> = a /\ << >> \o a = a
  OBVIOUS

LEMMA FlattenType == ASSUME NEW S, NEW ss \in Seq(Seq(S)) PROVE FlattenSeq(ss) \in Seq(S)
<1>1. Len(ss) \in 0 .. Len(ss)
  OBVIOUS
<1>2. PICK f : Joined(S, ss, Len(ss), f)
  BY <1>1, JoinedExists
<1>3. f[Len(ss)] \in Seq(S)
  BY <1>1, <1>2 DEF Joined
<1>. QED BY <1>2, <1>3, FlattenIsLast

LEMMA FlattenOne == ASSUME NEW S, NEW s \in Seq(S) PROVE FlattenSeq(<<s>>) = s
<1>. DEFINE f == [i \in 0 .. 1 |-> IF i = 0 THEN << >> ELSE s]
<1>1. f[0] = << >> /\ f[1] = s /\ f \in [0 .. 1 -> Seq(S)]
  OBVIOUS
<1>2. <<s>> \in Seq(Seq(S)) /\ Len(<<s>>) = 1 /\ <<s>>[1] = s
  OBVIOUS
<1>3. f[1] = f[0] \o s
  BY <1>1, EmptyAround
<1>4. Joined(S, <<s>>, 1, f)
  <2>1. \A i \in 1 .. 1 : i = 1 /\ i - 1 = 0
    OBVIOUS
  <2>. HIDE DEF f
  <2>. QED BY <1>1, <1>2, <1>3, <2>1 DEF Joined
<1>. QED BY <1>1, <1>2, <1>4, FlattenIsLast

\* Two lists in a row.
LEMMA FlattenConcat ==
    ASSUME NEW S, NEW q \in Seq(Seq(S)), NEW r \in Seq(Seq(S))
    PROVE  FlattenSeq(q \o r) = FlattenSeq(q) \o FlattenSeq(r)
<1>. DEFINE n == Len(q)
            k == Len(r)
            both == q \o r
<1>1. /\ n \in Nat /\ k \in Nat /\ both \in Seq(Seq(S)) /\ Len(both) = n + k
      /\ \A i \in 1 .. n : both[i] = q[i]
      /\ \A i \in 1 .. k : both[n + i] = r[i]
  OBVIOUS
<1>. HIDE DEF both
<1>3. n + k \in 0 .. n + k /\ k \in 0 .. k
  BY <1>1
<1>4. PICK f : Joined(S, both, n + k, f)
  BY <1>1, <1>3, JoinedExists
<1>5. PICK g : Joined(S, r, k, g)
  BY <1>1, <1>3, JoinedExists
<1>6. FlattenSeq(both) = f[n + k] /\ FlattenSeq(r) = g[k]
  BY <1>1, <1>4, <1>5, FlattenIsLast
<1>7. FlattenSeq(q) = f[n]
  <2>. DEFINE e == [i \in 0 .. n |-> f[i]]
  <2>1. e \in [0 .. n -> Seq(S)] /\ e[0] = << >> /\ e[n] = f[n]
    BY <1>1, <1>4 DEF Joined
  <2>2. ASSUME NEW i \in 1 .. n PROVE e[i] = e[i - 1] \o q[i]
    <3>1. i \in 1 .. n + k /\ e[i] = f[i] /\ e[i - 1] = f[i - 1]
      BY <1>1
    <3>. QED BY <1>1, <1>4, <3>1 DEF Joined
  <2>3. Joined(S, q, n, e)
    BY <2>1, <2>2 DEF Joined
  <2>. QED BY <2>1, <2>3, FlattenIsLast
<1>8. f[n] \in Seq(S)
  BY <1>1, <1>4 DEF Joined
<1>. DEFINE G == {j \in 0 .. k : f[n + j] = f[n] \o g[j]}
<1>9. 0 \in G
  BY <1>1, <1>5, <1>8, EmptyAround DEF Joined
<1>10. ASSUME NEW j \in 1 .. k, j - 1 \in G
       PROVE  j \in G
  <2>1. n + j \in 1 .. n + k /\ (n + j) - 1 = n + (j - 1)
    BY <1>1
  <2>2. f[n + j] = f[n + (j - 1)] \o r[j]
    BY <1>1, <1>4, <2>1 DEF Joined
  <2>3. g[j] = g[j - 1] \o r[j]
    BY <1>5 DEF Joined
  <2>4. g[j - 1] \in Seq(S) /\ r[j] \in Seq(S)
    <3>1. j - 1 \in 0 .. k /\ j \in 1 .. Len(r)
      BY <1>1
    <3>2. g[j - 1] \in Seq(S)
      BY <1>5, <3>1 DEF Joined
    <3>3. r \in Seq(Seq(S))
      OBVIOUS
    <3>. QED BY <3>1, <3>2, <3>3
  <2>5. (f[n] \o g[j - 1]) \o r[j] = f[n] \o (g[j - 1] \o r[j])
    <3>. DEFINE u == f[n]
                v == g[j - 1]
                w == r[j]
    <3>1. u \in Seq(S) /\ v \in Seq(S) /\ w \in Seq(S)
      BY <1>8, <2>4
    <3>. HIDE DEF u, v, w
    <3>2. (u \o v) \o w = u \o (v \o w)
      BY ONLY <3>1, SMTT(30)
    <3>. QED BY <3>2, Zenon DEF u, v, w
  <2>6. f[n + j] = f[n] \o g[j]
    <3>1. f[n + (j - 1)] = f[n] \o g[j - 1]
      BY <1>10
    <3>. QED BY ONLY <2>2, <2>3, <2>5, <3>1, Zenon
  <2>7. j \in 0 .. k
    BY <1>1
  <2>. QED BY <2>6, <2>7
<1>11. \A j \in 0 .. k : j \in G
  <2>. HIDE DEF G
  <2>. QED BY <1>1, <1>9, <1>10, UpTo
<1>12. f[n + k] = f[n] \o g[k]
  BY <1>3, <1>11
<1>. QED BY <1>6, <1>7, <1>12 DEF both

\* A sequence is its first part and the rest.
LEMMA Halves ==
    ASSUME NEW S, NEW q \in Seq(S), NEW n \in 0 .. Len(q)
    PROVE  /\ SubSeq(q, 1, n) \in Seq(S) /\ Len(SubSeq(q, 1, n)) = n
           /\ SubSeq(q, n + 1, Len(q)) \in Seq(S)
           /\ q = SubSeq(q, 1, n) \o SubSeq(q, n + 1, Len(q))
<1>. DEFINE a == SubSeq(q, 1, n)
            b == SubSeq(q, n + 1, Len(q))
<1>1. /\ a \in Seq(S) /\ Len(a) = n /\ \A i \in 1 .. n : a[i] = q[i]
      /\ b \in Seq(S) /\ Len(b) = Len(q) - n /\ \A i \in 1 .. Len(q) - n : b[i] = q[n + i]
  OBVIOUS
<1>. HIDE DEF a, b
<1>2. q = a \o b
  <2>1. a \o b \in Seq(S) /\ Len(a \o b) = Len(q)
    BY <1>1, SMTT(30)
  <2>2. ASSUME NEW i \in 1 .. Len(q) PROVE q[i] = (a \o b)[i]
    <3>1. CASE i <= n
      BY <1>1, <3>1
    <3>2. CASE i > n
      <4>1. i - n \in 1 .. Len(q) - n /\ n + (i - n) = i
        BY <3>2
      <4>2. (a \o b)[i] = b[i - n]
        BY <1>1, <3>2
      <4>. QED BY <1>1, <4>1, <4>2
    <3>3. n \in Nat /\ i \in Nat
      OBVIOUS
    <3>4. i <= n \/ i > n
      BY <3>3
    <3>. QED BY <3>1, <3>2, <3>4
  <2>. QED BY <2>1, <2>2, SeqEqual
<1>. QED BY <1>1, <1>2 DEF a, b
=============================================================================
