-------------------------- MODULE TokenServiceProofs --------------------------
(***************************************************************************)
(* Proofs about TokenService, for every value of its constants.            *)
(*                                                                         *)
(* The inductive invariant Inv has a core, and two relations that rest on  *)
(* what the process remembers.  The core is TypeOK, the bound on the       *)
(* records, the relation of the stored refresh tokens to the history       *)
(* (StoreOK) and that of the access tokens to the clocks (MintedOK).  The  *)
(* other two say that a rotated token is remembered (SpentOK) and that a   *)
(* revoked family is (RevokedOK): each is kept by itself (Kept), because a *)
(* restart, which FaultProofs is about, loses them one by one.             *)
(* Those about State are stated for any record s of it because refresh()   *)
(* works on what sweep() and make_room() leave of "state" (Keeps).         *)
(***************************************************************************)
EXTENDS TokenService, FiniteSetTheorems, TLAPS

Deadline(family) == login_at[family] + Secs(MAX_FAMILY_LIFETIME)

\* What the history says of a live or a spent refresh token.
StoreOK(s) ==
    /\ \A t \in DOMAIN s.refresh :
          LET record == s.refresh[t]
          IN  /\ t \in DOMAIN issued \ rotated
              /\ issued[t].family = record.family /\ issued[t].expires = record.expires
              /\ record.family \in DOMAIN login_at \ dead
              /\ record.family_deadline = Deadline(record.family)
              /\ record.expires <= record.family_deadline
    /\ \A t \in DOMAIN s.spent :
          /\ t \in rotated
          /\ s.spent[t].family = issued[t].family
          /\ s.spent[t].expires = issued[t].expires
    /\ \A t1, t2 \in DOMAIN s.refresh :
          s.refresh[t1].family = s.refresh[t2].family => t1 = t2

\* A rotated token is remembered until it would have expired.
SpentOK(s) ==
    \A t \in rotated : now < issued[t].expires => t \in DOMAIN s.spent

\* The revoked entry of a family outlasts its access tokens, as far as they are signed with
\* the key in use.  "wall - now" is the distance of the two clocks.
RevokedOK(s) ==
    \A a \in minted :
        a.family \in dead /\ a.key = key =>
            \/ /\ a.family \in DOMAIN s.revoked
               /\ Secs(a.expires) <= s.revoked[a.family] + (wall - now)
            \/ a.expires <= UnixNow

MintedOK ==
    \A a \in minted :
        /\ a.family \in DOMAIN login_at
        /\ a.expires <= UnixNow + access_ttl
        /\ Secs(a.expires) < Deadline(a.family) + Secs(access_ttl) + (wall - now)

HistoryOK ==
    /\ dead \subseteq DOMAIN login_at
    /\ rotated \subseteq DOMAIN issued
    /\ \A t \in DOMAIN issued : issued[t].family \in DOMAIN login_at
    /\ now <= wall

Bounded(s) ==
    /\ IsFiniteSet(DOMAIN s.refresh) /\ IsFiniteSet(DOMAIN s.spent)
    /\ Records(s) <= MAX_RECORDS

StoreInv(s) == IsState(s) /\ Bounded(s) /\ StoreOK(s)

Core == TypeOK /\ StoreInv(state) /\ MintedOK /\ HistoryOK

Inv == Core /\ SpentOK(state) /\ RevokedOK(state)

\* What is left of the store s, namely r, is consistent and remembers what it has to.
Keeps(s, r) ==
    /\ StoreInv(r)
    /\ SpentOK(s) => SpentOK(r)
    /\ RevokedOK(s) => RevokedOK(r)

\* What a step keeps.
Kept ==
    /\ Core'
    /\ SpentOK(state) => SpentOK(state)'
    /\ RevokedOK(state) => RevokedOK(state)'

-----------------------------------------------------------------------------
(* Seconds and ticks *)

\* A duration in ticks is a natural number, and positive when the seconds are.
LEMMA SecsType ==
    ASSUME NEW a \in Nat
    PROVE  Secs(a) \in Nat /\ (a # 0 => Secs(a) > 0)
BY ConstantsAssumption DEF Secs

\* Durations add up, and are ordered as their seconds are.
LEMMA SecsFacts ==
    ASSUME NEW a \in Nat, NEW b \in Nat
    PROVE  /\ Secs(a + b) = Secs(a) + Secs(b)
           /\ a <= b => Secs(a) <= Secs(b)
<1>1. TicksPerSec \in Nat \ {0}
  BY ConstantsAssumption
<1>. QED BY <1>1 DEF Secs

\* unix_now() is the number of whole seconds.
LEMMA UnixNowFacts ==
    ASSUME NEW e \in Nat, wall \in Nat
    PROVE  /\ UnixNow \in Nat
           /\ e <= UnixNow <=> Secs(e) <= wall
<1>1. TicksPerSec \in Nat \ {0}
  BY ConstantsAssumption
<1>. DEFINE q == wall \div TicksPerSec
            r == wall % TicksPerSec
<1>2. /\ q \in Nat /\ r \in 0 .. TicksPerSec - 1
      /\ wall = TicksPerSec * q + r
  BY <1>1
<1>. HIDE DEF q, r
<1>3. CASE e <= q
  <2>1. TicksPerSec * e <= TicksPerSec * q
    BY <1>1, <1>2, <1>3
  <2>. QED BY <1>1, <1>2, <1>3, <2>1 DEF Secs, UnixNow, q
<1>4. CASE e >= q + 1
  <2>1. TicksPerSec * e >= TicksPerSec * (q + 1)
    BY <1>1, <1>2, <1>4
  <2>2. TicksPerSec * (q + 1) = TicksPerSec * q + TicksPerSec
    BY <1>1, <1>2
  <2>3. Secs(e) > wall
    BY <1>1, <1>2, <2>1, <2>2 DEF Secs
  <2>. QED BY <1>1, <1>2, <1>4, <2>3 DEF Secs, UnixNow, q
<1>. QED BY <1>2, <1>3, <1>4

-----------------------------------------------------------------------------
(* Maps *)

\* Inserting keeps a map of its type.
LEMMA InsertType ==
    ASSUME NEW K, NEW V, NEW f, IsMap(f, K, V), NEW k \in K, NEW v \in V
    PROVE  IsMap(Insert(f, k, v), K, V)
BY DEF IsMap, Insert

\* Retaining some of the keys keeps a map of its type.
LEMMA RestrictType ==
    ASSUME NEW K, NEW V, NEW f, IsMap(f, K, V), NEW S, S \subseteq DOMAIN f
    PROVE  IsMap(Restrict(f, S), K, V)
BY DEF IsMap, Restrict

-----------------------------------------------------------------------------
(* Sweeping *)

\* force_sweep() keeps the types of State.
LEMMA ForceSweepType ==
    ASSUME NEW s, IsState(s), now \in Nat
    PROVE  IsState(force_sweep(s))
<1>1. now + Secs(SWEEP_INTERVAL) \in Nat
  BY ConstantsAssumption, SecsType
<1>2. IsMap(force_sweep(s).refresh, Tokens, RefreshRecord)
  BY RestrictType DEF force_sweep, IsState
<1>3. IsMap(force_sweep(s).spent, Tokens, SpentRecord)
  BY RestrictType DEF force_sweep, IsState
<1>4. IsMap(force_sweep(s).revoked, Families, Nat)
  BY RestrictType DEF force_sweep, IsState
<1>. QED BY <1>1, <1>2, <1>3, <1>4 DEF IsState, force_sweep

\* Fewer entries, fewer records.
LEMMA ForceSweepBounded ==
    ASSUME NEW s, Bounded(s)
    PROVE  Bounded(force_sweep(s))
<1>1. /\ DOMAIN force_sweep(s).refresh \subseteq DOMAIN s.refresh
      /\ DOMAIN force_sweep(s).spent \subseteq DOMAIN s.spent
  BY DEF force_sweep, Restrict
<1>2. /\ IsFiniteSet(DOMAIN force_sweep(s).refresh)
      /\ Cardinality(DOMAIN force_sweep(s).refresh) <= Cardinality(DOMAIN s.refresh)
  BY <1>1, FS_Subset DEF Bounded
<1>3. /\ IsFiniteSet(DOMAIN force_sweep(s).spent)
      /\ Cardinality(DOMAIN force_sweep(s).spent) <= Cardinality(DOMAIN s.spent)
  BY <1>1, FS_Subset DEF Bounded
<1>. QED BY <1>2, <1>3, FS_CardinalityType, ConstantsAssumption DEF Bounded, Records

\* What a sweep forgets cannot matter any more: a spent token that has expired, a
\* revoked family whose access tokens all have.
LEMMA ForceSweepInv ==
    ASSUME NEW s, StoreInv(s), TypeOK
    PROVE  Keeps(s, force_sweep(s))
<1>. DEFINE f == force_sweep(s)
<1>1. IsState(f) /\ Bounded(f)
  BY ForceSweepType, ForceSweepBounded DEF StoreInv, TypeOK
<1>2. /\ DOMAIN f.refresh \subseteq DOMAIN s.refresh
      /\ \A t \in DOMAIN f.refresh : f.refresh[t] = s.refresh[t]
  BY DEF force_sweep, Restrict
<1>3. /\ DOMAIN f.spent = {t \in DOMAIN s.spent : now < s.spent[t].expires}
      /\ \A t \in DOMAIN f.spent : f.spent[t] = s.spent[t]
  BY DEF force_sweep, Restrict
<1>4. /\ DOMAIN f.revoked = {g \in DOMAIN s.revoked : now < s.revoked[g]}
      /\ \A g \in DOMAIN f.revoked : f.revoked[g] = s.revoked[g]
  BY DEF force_sweep, Restrict
<1>. HIDE DEF f
<1>5. StoreOK(f)
  BY <1>2, <1>3 DEF StoreInv, StoreOK
<1>6. SpentOK(s) => SpentOK(f)
  BY <1>3 DEF StoreInv, StoreOK, SpentOK
<1>7. ASSUME RevokedOK(s), NEW a \in minted, a.family \in dead, a.key = key
      PROVE  \/ /\ a.family \in DOMAIN f.revoked
                /\ Secs(a.expires) <= f.revoked[a.family] + (wall - now)
             \/ a.expires <= UnixNow
  <2>1. CASE a.family \in DOMAIN f.revoked \/ a.expires <= UnixNow
    BY <1>4, <1>7, <2>1 DEF RevokedOK
  <2>2. CASE a.family \notin DOMAIN f.revoked /\ ~(a.expires <= UnixNow)
    <3>1. /\ a.family \in DOMAIN s.revoked
          /\ Secs(a.expires) <= s.revoked[a.family] + (wall - now)
      BY <1>7, <2>2 DEF RevokedOK
    <3>2. a.expires \in Nat /\ now \in Nat /\ wall \in Nat /\ s.revoked[a.family] \in Nat
      BY <1>7, <3>1 DEF TypeOK, AccessToken, StoreInv, IsState, IsMap
    <3>3. s.revoked[a.family] <= now
      BY <1>4, <2>2, <3>1, <3>2
    <3>4. Secs(a.expires) <= wall
      BY <3>1, <3>2, <3>3, SecsType
    <3>. QED BY <3>2, <3>4, UnixNowFacts
  <2>. QED BY <2>1, <2>2
<1>8. RevokedOK(s) => RevokedOK(f)
  BY <1>7 DEF RevokedOK
<1>. QED BY <1>1, <1>5, <1>6, <1>8 DEF StoreInv, Keeps, f

\* make_room() is a sweep or nothing, so it keeps the store's invariant.
LEMMA MakeRoomInv ==
    ASSUME NEW s, StoreInv(s), TypeOK
    PROVE  Keeps(s, make_room(s))
BY ForceSweepInv DEF make_room, Keeps

\* So is sweep().
LEMMA SweepInv ==
    ASSUME NEW s, StoreInv(s), TypeOK
    PROVE  Keeps(s, sweep(s))
BY ForceSweepInv DEF sweep, Keeps

\* The state that refresh() works on.
LEMMA SweptInv ==
    ASSUME Core
    PROVE  /\ Keeps(state, make_room(sweep(state)))
           /\ StoreInv(make_room(sweep(state)))
<1>1. Keeps(state, sweep(state))
  BY SweepInv DEF Core
<1>2. Keeps(sweep(state), make_room(sweep(state)))
  BY <1>1, MakeRoomInv DEF Core, Keeps
<1>. QED BY <1>1, <1>2 DEF Keeps

-----------------------------------------------------------------------------
(* The records of one request *)

\* issue() records a token of the right type, that expires by the deadline of its login.
LEMMA IssueType ==
    ASSUME NEW s, IsState(s), now \in Nat, NEW t \in Tokens, NEW family \in Families,
           NEW user \in Users, NEW deadline \in Nat
    PROVE  /\ refresh_expires(deadline) \in Nat
           /\ refresh_expires(deadline) <= deadline
           /\ IsState(issue(s, t, family, user, deadline))
<1>1. /\ refresh_expires(deadline) \in Nat
      /\ refresh_expires(deadline) <= deadline
  BY ConstantsAssumption, SecsType DEF refresh_expires, Earlier
<1>. DEFINE record == [family |-> family, user |-> user,
                       expires |-> refresh_expires(deadline),
                       family_deadline |-> deadline]
<1>2. record \in RefreshRecord
  BY <1>1 DEF RefreshRecord
<1>3. IsMap(Insert(s.refresh, t, record), Tokens, RefreshRecord)
  BY <1>2, InsertType DEF IsState
<1>. QED BY <1>1, <1>3 DEF IsState, issue

\* issue() adds the new token to the live ones and removes none.
LEMMA IssueDomain ==
    ASSUME NEW s, IsState(s), NEW t, NEW family, NEW user, NEW deadline
    PROVE  DOMAIN issue(s, t, family, user, deadline).refresh = DOMAIN s.refresh \cup {t}
BY DEF IsState, issue, Insert

\* A store that is not full has room for the record issue() adds.
LEMMA IssueBounded ==
    ASSUME NEW s, IsState(s), Bounded(s), ~IsFull(s),
           NEW t, t \notin DOMAIN s.refresh, NEW family, NEW user, NEW deadline
    PROVE  Bounded(issue(s, t, family, user, deadline))
<1>. DEFINE i == issue(s, t, family, user, deadline)
<1>1. DOMAIN i.refresh = DOMAIN s.refresh \cup {t} /\ i.spent = s.spent
  BY DEF IsState, issue, Insert
<1>. HIDE DEF i
<1>2. /\ IsFiniteSet(DOMAIN i.refresh)
      /\ Cardinality(DOMAIN i.refresh) = Cardinality(DOMAIN s.refresh) + 1
  BY <1>1, FS_AddElement DEF Bounded
<1>. QED
  BY <1>1, <1>2, FS_CardinalityType, ConstantsAssumption DEF Bounded, Records, IsFull, i

\* Removing the presented token changes nothing else.
LEMMA ConsumeType ==
    ASSUME NEW s, IsState(s), NEW t
    PROVE  /\ IsState(Consume(s, t))
           /\ DOMAIN Consume(s, t).refresh = DOMAIN s.refresh \ {t}
           /\ \A h \in DOMAIN s.refresh \ {t} : Consume(s, t).refresh[h] = s.refresh[h]
           /\ Consume(s, t).spent = s.spent
           /\ Consume(s, t).revoked = s.revoked
<1>1. IsMap(Restrict(s.refresh, DOMAIN s.refresh \ {t}), Tokens, RefreshRecord)
  BY RestrictType DEF IsState
<1>. QED BY <1>1 DEF IsState, Consume, Restrict

\* A refused refresh, which removes the presented token, keeps the store's invariant.
LEMMA ConsumeInv ==
    ASSUME NEW s, StoreInv(s), NEW t
    PROVE  Keeps(s, Consume(s, t))
<1>. DEFINE c == Consume(s, t)
<1>1. /\ IsState(c)
      /\ DOMAIN c.refresh = DOMAIN s.refresh \ {t}
      /\ \A h \in DOMAIN s.refresh \ {t} : c.refresh[h] = s.refresh[h]
      /\ c.spent = s.spent /\ c.revoked = s.revoked
  BY ConsumeType DEF StoreInv
<1>. HIDE DEF c
<1>2. /\ IsFiniteSet(DOMAIN c.refresh)
      /\ Cardinality(DOMAIN c.refresh) <= Cardinality(DOMAIN s.refresh)
  BY <1>1, FS_Subset DEF StoreInv, Bounded
<1>3. Bounded(c)
  BY <1>1, <1>2, FS_CardinalityType, ConstantsAssumption DEF StoreInv, Bounded, Records
<1>4. /\ StoreOK(c)
      /\ SpentOK(s) => SpentOK(c)
      /\ RevokedOK(s) => RevokedOK(c)
  BY <1>1 DEF StoreInv, StoreOK, SpentOK, RevokedOK
<1>. QED BY <1>1, <1>3, <1>4 DEF StoreInv, Keeps, c

\* Retiring a live token moves one record: the store has as much room as before.
LEMMA RetireType ==
    ASSUME NEW s, StoreInv(s), ~IsFull(s), NEW t \in DOMAIN s.refresh
    PROVE  /\ IsState(Retire(s, t)) /\ Bounded(Retire(s, t)) /\ ~IsFull(Retire(s, t))
           /\ DOMAIN Retire(s, t).refresh = DOMAIN s.refresh \ {t}
           /\ \A h \in DOMAIN s.refresh \ {t} : Retire(s, t).refresh[h] = s.refresh[h]
           /\ DOMAIN Retire(s, t).spent = DOMAIN s.spent \cup {t}
           /\ \A h \in DOMAIN s.spent : Retire(s, t).spent[h] = s.spent[h]
           /\ Retire(s, t).spent[t] = [family |-> s.refresh[t].family,
                                       user |-> s.refresh[t].user,
                                       expires |-> s.refresh[t].expires]
           /\ Retire(s, t).revoked = s.revoked
<1>. DEFINE c == Consume(s, t)
            r == Retire(s, t)
            spent == [family |-> s.refresh[t].family, user |-> s.refresh[t].user,
                      expires |-> s.refresh[t].expires]
<1>1. /\ IsState(c)
      /\ DOMAIN c.refresh = DOMAIN s.refresh \ {t}
      /\ \A h \in DOMAIN s.refresh \ {t} : c.refresh[h] = s.refresh[h]
      /\ c.spent = s.spent /\ c.revoked = s.revoked
  BY ConsumeType DEF StoreInv
<1>2. t \in Tokens /\ spent \in SpentRecord
  BY DEF StoreInv, IsState, IsMap, RefreshRecord, SpentRecord
<1>3. t \notin DOMAIN s.spent
  BY DEF StoreInv, StoreOK
<1>4. r = [c EXCEPT !.spent = Insert(s.spent, t, spent)]
  BY <1>1 DEF Retire
<1>. HIDE DEF c, r, spent
<1>5. IsMap(Insert(s.spent, t, spent), Tokens, SpentRecord)
  BY <1>2, InsertType DEF StoreInv, IsState
<1>6. /\ r.refresh = c.refresh /\ r.revoked = c.revoked
      /\ r.spent = Insert(s.spent, t, spent)
      /\ IsState(r)
  BY <1>1, <1>4, <1>5 DEF IsState
<1>7. /\ DOMAIN r.spent = DOMAIN s.spent \cup {t}
      /\ r.spent[t] = spent
      /\ \A h \in DOMAIN s.spent : r.spent[h] = s.spent[h]
  BY <1>3, <1>6 DEF Insert
<1>8. /\ IsFiniteSet(DOMAIN r.refresh)
      /\ Cardinality(DOMAIN r.refresh) = Cardinality(DOMAIN s.refresh) - 1
  BY <1>1, <1>6, FS_RemoveElement DEF StoreInv, Bounded
<1>9. /\ IsFiniteSet(DOMAIN r.spent)
      /\ Cardinality(DOMAIN r.spent) = Cardinality(DOMAIN s.spent) + 1
  BY <1>3, <1>7, FS_AddElement DEF StoreInv, Bounded
<1>10. Records(r) = Records(s)
  BY <1>8, <1>9, FS_CardinalityType DEF StoreInv, Bounded, Records
<1>. QED BY <1>1, <1>6, <1>7, <1>8, <1>9, <1>10 DEF StoreInv, Bounded, IsFull, r, spent

-----------------------------------------------------------------------------
(* Requests *)

\* A step that only changes the store, and leaves one that is consistent.
LEMMA StoreStep ==
    ASSUME Core, Keeps(state, state'), answer' \in Answers, key' = key, UNCHANGED clocks,
           UNCHANGED minted, UNCHANGED history
    PROVE  Kept
<1>1. /\ now' = now /\ wall' = wall /\ minted' = minted
      /\ login_at' = login_at /\ issued' = issued /\ rotated' = rotated /\ dead' = dead
  BY DEF clocks, history
<1>2. TypeOK'
  BY <1>1 DEF Core, Keeps, StoreInv, TypeOK
<1>3. /\ StoreOK(state)'
      /\ SpentOK(state) => SpentOK(state)'
      /\ RevokedOK(state) => RevokedOK(state)'
  BY <1>1 DEF Keeps, StoreInv, StoreOK, SpentOK, RevokedOK, Deadline, UnixNow
<1>4. MintedOK' /\ HistoryOK'
  BY <1>1 DEF Core, MintedOK, HistoryOK, Deadline, UnixNow
<1>5. IsState(state') /\ Bounded(state')
  BY DEF Keeps, StoreInv
<1>. QED BY <1>2, <1>3, <1>4, <1>5 DEF Core, StoreInv, Kept

\* Revoking a family ends its refresh token, and its entry outlasts the access tokens.
LEMMA RevokeFamilyStep ==
    ASSUME Core, NEW s, Keeps(state, s), NEW f \in Families, f \in DOMAIN login_at,
           state' = revoke_family(s, f), dead' = dead \cup {f},
           answer' \in Answers, key' = key, UNCHANGED clocks,
           UNCHANGED <<minted, login_at, issued, rotated>>
    PROVE  Kept
<1>1. /\ now' = now /\ wall' = wall /\ now \in Nat /\ wall \in Nat /\ now <= wall
      /\ StoreInv(s)
  BY DEF clocks, Core, TypeOK, HistoryOK, Keeps
<1>2. now + Secs(access_ttl) \in Nat
  BY <1>1, ConstantsAssumption, SecsType
<1>. DEFINE kept == {h \in DOMAIN s.refresh : s.refresh[h].family # f}
<1>3. IsMap(Restrict(s.refresh, kept), Tokens, RefreshRecord)
  BY <1>1, RestrictType DEF StoreInv, IsState
<1>4. IsMap(Insert(s.revoked, f, now + Secs(access_ttl)), Families, Nat)
  BY <1>1, <1>2, InsertType DEF StoreInv, IsState
<1>5. state' = [refresh |-> Restrict(s.refresh, kept), spent |-> s.spent,
                revoked |-> Insert(s.revoked, f, now + Secs(access_ttl)),
                next_sweep |-> s.next_sweep]
  BY <1>1 DEF revoke_family, StoreInv, IsState
<1>6. IsState(state')
  BY <1>1, <1>3, <1>4, <1>5 DEF StoreInv, IsState
<1>7. /\ DOMAIN state'.refresh = kept
      /\ \A t \in kept : state'.refresh[t] = s.refresh[t]
      /\ state'.spent = s.spent
      /\ DOMAIN state'.revoked = DOMAIN s.revoked \cup {f}
      /\ state'.revoked[f] = now + Secs(access_ttl)
      /\ \A g \in DOMAIN s.revoked \ {f} : state'.revoked[g] = s.revoked[g]
  BY <1>5 DEF Restrict, Insert
<1>8. /\ IsFiniteSet(DOMAIN state'.refresh)
      /\ Cardinality(DOMAIN state'.refresh) <= Cardinality(DOMAIN s.refresh)
  BY <1>1, <1>7, FS_Subset DEF StoreInv, Bounded
<1>9. Bounded(state')
  BY <1>1, <1>7, <1>8, FS_CardinalityType, ConstantsAssumption DEF StoreInv, Bounded, Records
<1>10. TypeOK'
  BY <1>1, <1>6 DEF Core, TypeOK
<1>11. StoreOK(state)'
  BY <1>1, <1>7 DEF StoreInv, StoreOK, Deadline
<1>12. SpentOK(state) => SpentOK(state)'
  BY <1>1, <1>7 DEF Keeps, SpentOK
<1>13. RevokedOK(state) => RevokedOK(state)'
  <2>1. SUFFICES ASSUME RevokedOK(s), NEW a \in minted, a.family \in dead \cup {f}, a.key = key
                 PROVE  \/ /\ a.family \in DOMAIN state'.revoked
                           /\ Secs(a.expires) <= state'.revoked[a.family] + (wall - now)
                        \/ a.expires <= UnixNow
    BY <1>1 DEF Keeps, RevokedOK, UnixNow
  <2>2. CASE a.family # f
    BY <1>7, <2>1, <2>2 DEF RevokedOK
  <2>3. CASE a.family = f
    <3>1. a.expires \in Nat /\ UnixNow \in Nat /\ access_ttl \in Nat
      BY <1>1, <2>1, UnixNowFacts, ConstantsAssumption DEF Core, TypeOK, AccessToken
    <3>2. a.expires <= UnixNow + access_ttl
      BY <2>1 DEF Core, MintedOK
    <3>3. Secs(a.expires) <= Secs(UnixNow) + Secs(access_ttl)
      <4>1. Secs(a.expires) <= Secs(UnixNow + access_ttl)
        BY <3>1, <3>2, SecsFacts
      <4>. QED BY <3>1, <4>1, SecsFacts
    <3>4. Secs(UnixNow) <= wall
      BY <1>1, <3>1, UnixNowFacts
    <3>5. Secs(a.expires) <= now + Secs(access_ttl) + (wall - now)
      BY <1>1, <3>1, <3>3, <3>4, SecsType
    <3>. QED BY <1>7, <2>3, <3>5
  <2>. QED BY <2>2, <2>3
<1>14. MintedOK' /\ HistoryOK'
  BY <1>1 DEF Core, MintedOK, HistoryOK, Deadline, UnixNow
<1>. QED BY <1>6, <1>9, <1>10, <1>11, <1>12, <1>13, <1>14 DEF Core, StoreInv, Kept

\* mint_access() truncates to seconds, so a token never outlives access_ttl from now.
LEMMA MintFacts ==
    ASSUME TypeOK, NEW f \in Families, NEW u \in Users
    PROVE  /\ mint_access(f, u) \in AccessToken
           /\ mint_access(f, u).family = f
           /\ mint_access(f, u).expires = UnixNow + access_ttl
           /\ Secs(mint_access(f, u).expires) <= wall + Secs(access_ttl)
<1>1. UnixNow \in Nat /\ access_ttl \in Nat /\ wall \in Nat /\ key \in Nat
  BY UnixNowFacts, ConstantsAssumption DEF TypeOK
<1>2. Secs(UnixNow) <= wall
  BY <1>1, UnixNowFacts
<1>3. Secs(UnixNow + access_ttl) = Secs(UnixNow) + Secs(access_ttl)
  BY <1>1, SecsFacts
<1>4. /\ mint_access(f, u) \in AccessToken
      /\ mint_access(f, u).family = f
      /\ mint_access(f, u).expires = UnixNow + access_ttl
  BY <1>1 DEF mint_access, AccessToken
<1>. QED BY <1>1, <1>2, <1>3, <1>4, SecsType

\* A pair is handed out for a login that is neither revoked nor past its deadline.
LEMMA HandOutStep ==
    ASSUME Core, NEW t \in Tokens, NEW f \in Families, NEW u \in Users,
           NEW deadline \in Nat, HandOut(t, f, u, deadline),
           UNCHANGED clocks, key' = key, dead' = dead, f \notin dead,
           DOMAIN login_at \subseteq DOMAIN login_at',
           \A g \in DOMAIN login_at : login_at'[g] = login_at[g],
           f \in DOMAIN login_at',
           deadline = login_at'[f] + Secs(MAX_FAMILY_LIFETIME),
           now < deadline
    PROVE  /\ minted' \subseteq AccessToken
           /\ MintedOK'
           /\ \A s : RevokedOK(s) /\ state'.revoked = s.revoked => RevokedOK(state)'
<1>1. /\ now' = now /\ wall' = wall /\ UnixNow' = UnixNow
      /\ now \in Nat /\ wall \in Nat
  BY DEF clocks, Core, TypeOK, UnixNow
<1>. DEFINE a0 == mint_access(f, u)
<1>2. /\ a0 \in AccessToken
      /\ a0.family = f
      /\ a0.expires = UnixNow + access_ttl
      /\ Secs(a0.expires) <= wall + Secs(access_ttl)
  BY MintFacts DEF Core
<1>3. minted' = minted \cup {a0}
  BY DEF HandOut
<1>. HIDE DEF a0
<1>4. minted' \subseteq AccessToken
  BY <1>2, <1>3 DEF Core, TypeOK
<1>5. Secs(a0.expires) < deadline + Secs(access_ttl) + (wall - now)
  <2>1. Secs(a0.expires) \in Nat /\ Secs(access_ttl) \in Nat
    BY <1>2, SecsType, ConstantsAssumption DEF AccessToken
  <2>. QED BY <1>1, <1>2, <2>1
<1>6. UnixNow \in Nat /\ access_ttl \in Nat
  BY <1>1, UnixNowFacts, ConstantsAssumption
<1>7. MintedOK'
  <2>1. SUFFICES ASSUME NEW a \in minted \cup {a0}
                 PROVE  /\ a.family \in DOMAIN login_at'
                        /\ a.expires <= UnixNow + access_ttl
                        /\ Secs(a.expires) < login_at'[a.family] + Secs(MAX_FAMILY_LIFETIME)
                                             + Secs(access_ttl) + (wall - now)
    BY <1>1, <1>3 DEF MintedOK, Deadline
  <2>2. CASE a \in minted
    BY <2>2 DEF Core, MintedOK, Deadline
  <2>3. CASE a = a0
    BY <1>2, <1>5, <1>6, <2>3
  <2>. QED BY <2>2, <2>3
<1>8. ASSUME NEW s, RevokedOK(s), state'.revoked = s.revoked
      PROVE  RevokedOK(state)'
  BY <1>1, <1>2, <1>3, <1>8 DEF RevokedOK
<1>. QED BY <1>4, <1>7, <1>8

\* A login that succeeds keeps the invariant.
LEMMA LoginOkStep ==
    ASSUME Core, NEW s, Keeps(state, s), ~IsFull(s), NEW user \in Users,
           NEW f \in FreshFamilies, NEW t \in FreshTokens, NEW deadline,
           deadline = now + Secs(MAX_FAMILY_LIFETIME),
           state' = issue(s, t, f, user, deadline),
           HandOut(t, f, user, deadline),
           login_at' = Insert(login_at, f, now),
           answer' \in Answers, UNCHANGED <<key, clocks, rotated, dead>>
    PROVE  Kept
<1>1. /\ f \in Families /\ f \notin DOMAIN login_at /\ f \notin dead
      /\ t \in Tokens /\ t \notin DOMAIN issued /\ t \notin rotated
      /\ t \notin DOMAIN s.refresh
      /\ StoreInv(s)
  BY DEF FreshFamilies, FreshTokens, Core, HistoryOK, Keeps, StoreInv, StoreOK
<1>2. now' = now /\ wall' = wall /\ now \in Nat /\ wall \in Nat
  BY DEF clocks, Core, TypeOK
<1>3. deadline \in Nat /\ now < deadline
  BY <1>2, ConstantsAssumption, SecsType
<1>4. /\ refresh_expires(deadline) \in Nat
      /\ refresh_expires(deadline) <= deadline
      /\ IsState(state')
  BY <1>1, <1>2, <1>3, IssueType DEF StoreInv
<1>5. Bounded(state')
  BY <1>1, IssueBounded DEF StoreInv
<1>6. /\ DOMAIN login_at' = DOMAIN login_at \cup {f}
      /\ login_at'[f] = now
      /\ \A g \in DOMAIN login_at : login_at'[g] = login_at[g]
      /\ IsMap(login_at', Families, Nat)
  <2>1. IsMap(login_at', Families, Nat)
    BY <1>1, <1>2, InsertType DEF Core, TypeOK
  <2>. QED BY <1>1, <2>1 DEF Insert
<1>. DEFINE e == refresh_expires(deadline)
<1>7. /\ DOMAIN issued' = DOMAIN issued \cup {t}
      /\ issued'[t] = [family |-> f, expires |-> e]
      /\ \A h \in DOMAIN issued : issued'[h] = issued[h]
      /\ IsMap(issued', Tokens, [family : Families, expires : Nat])
  <2>1. [family |-> f, expires |-> e] \in [family : Families, expires : Nat]
    BY <1>1, <1>4
  <2>2. issued' = Insert(issued, t, [family |-> f, expires |-> e])
    BY DEF HandOut
  <2>3. IsMap(issued', Tokens, [family : Families, expires : Nat])
    BY <1>1, <2>1, <2>2, InsertType DEF Core, TypeOK
  <2>. QED BY <1>1, <2>2, <2>3 DEF Insert
<1>8. /\ DOMAIN state'.refresh = DOMAIN s.refresh \cup {t}
      /\ \A h \in DOMAIN s.refresh : state'.refresh[h] = s.refresh[h]
      /\ state'.refresh[t] = [family |-> f, user |-> user, expires |-> e,
                              family_deadline |-> deadline]
      /\ state'.spent = s.spent /\ state'.revoked = s.revoked
  BY <1>1 DEF issue, Insert, StoreInv, IsState
<1>. HIDE DEF e
<1>9. /\ minted' \subseteq AccessToken
      /\ MintedOK'
      /\ RevokedOK(state) => RevokedOK(state)'
  BY <1>1, <1>2, <1>3, <1>6, <1>8, HandOutStep DEF Keeps
<1>10. TypeOK'
  BY <1>2, <1>4, <1>6, <1>7, <1>9 DEF Core, TypeOK, clocks
<1>11. StoreOK(state)'
  <2>1. ASSUME NEW h \in DOMAIN s.refresh
        PROVE  /\ h \in DOMAIN issued \ rotated
               /\ issued[h].family = s.refresh[h].family
               /\ issued[h].expires = s.refresh[h].expires
               /\ s.refresh[h].family \in DOMAIN login_at \ dead
               /\ s.refresh[h].family_deadline
                     = login_at[s.refresh[h].family] + Secs(MAX_FAMILY_LIFETIME)
               /\ s.refresh[h].expires <= s.refresh[h].family_deadline
    BY <1>1 DEF StoreInv, StoreOK, Deadline
  <2>2. ASSUME NEW h \in DOMAIN s.spent
        PROVE  /\ h \in rotated /\ h \in DOMAIN issued
               /\ s.spent[h].family = issued[h].family
               /\ s.spent[h].expires = issued[h].expires
    BY <1>1 DEF StoreInv, StoreOK, Core, HistoryOK
  <2>3. \A h1, h2 \in DOMAIN s.refresh :
            s.refresh[h1].family = s.refresh[h2].family => h1 = h2
    BY <1>1 DEF StoreInv, StoreOK
  <2>. QED BY <1>1, <1>4, <1>6, <1>7, <1>8, <2>1, <2>2, <2>3 DEF StoreOK, Deadline, e
<1>12. SpentOK(state) => SpentOK(state)'
  BY <1>2, <1>7, <1>8 DEF SpentOK, Keeps, Core, HistoryOK
<1>13. HistoryOK'
  BY <1>2, <1>6, <1>7 DEF Core, HistoryOK
<1>. QED BY <1>4, <1>5, <1>9, <1>10, <1>11, <1>12, <1>13 DEF Core, StoreInv, Kept

\* The presented token leaves the live records.
LEMMA RotateStep ==
    ASSUME Core, NEW s, Keeps(state, s), ~IsFull(s), NEW t \in DOMAIN s.refresh,
           rotated' = rotated \cup {t}, login_at' = login_at, dead' = dead,
           UNCHANGED clocks, key' = key, answer' \in Answers
    PROVE  /\ state' = Retire(s, t) /\ UNCHANGED <<minted, issued>> => Kept
           /\ \A new \in FreshTokens :
                 /\ Unexpired(s.refresh[t])
                 /\ state' = issue(Retire(s, t), new, s.refresh[t].family,
                                   s.refresh[t].user, s.refresh[t].family_deadline)
                 /\ HandOut(new, s.refresh[t].family, s.refresh[t].user,
                            s.refresh[t].family_deadline)
                 => Kept
<1>. DEFINE r == Retire(s, t)
            record == s.refresh[t]
            f == record.family
            deadline == record.family_deadline
<1>0. StoreInv(s)
  BY DEF Keeps
<1>1. /\ IsState(r) /\ Bounded(r) /\ ~IsFull(r)
      /\ DOMAIN r.refresh = DOMAIN s.refresh \ {t}
      /\ \A h \in DOMAIN s.refresh \ {t} : r.refresh[h] = s.refresh[h]
      /\ DOMAIN r.spent = DOMAIN s.spent \cup {t}
      /\ \A h \in DOMAIN s.spent : r.spent[h] = s.spent[h]
      /\ r.spent[t] = [family |-> f, user |-> record.user, expires |-> record.expires]
      /\ r.revoked = s.revoked
  BY <1>0, RetireType
<1>2. now' = now /\ wall' = wall /\ now \in Nat /\ wall \in Nat
  BY DEF clocks, Core, TypeOK
<1>3. /\ t \in DOMAIN issued \ rotated
      /\ issued[t].family = f /\ issued[t].expires = record.expires
      /\ f \in DOMAIN login_at \ dead
      /\ deadline = login_at[f] + Secs(MAX_FAMILY_LIFETIME)
  BY <1>0 DEF StoreInv, StoreOK, Deadline
<1>4. /\ t \in Tokens /\ f \in Families /\ record.user \in Users
      /\ record.expires \in Nat /\ deadline \in Nat
  BY <1>0 DEF StoreInv, IsState, IsMap, RefreshRecord
<1>5. \A h \in DOMAIN s.refresh :
          /\ h \in DOMAIN issued \ rotated
          /\ issued[h].family = s.refresh[h].family
          /\ issued[h].expires = s.refresh[h].expires
          /\ s.refresh[h].family \in DOMAIN login_at \ dead
          /\ s.refresh[h].family_deadline
                = login_at[s.refresh[h].family] + Secs(MAX_FAMILY_LIFETIME)
          /\ s.refresh[h].expires <= s.refresh[h].family_deadline
  BY <1>0 DEF StoreInv, StoreOK, Deadline
<1>6. \A h \in DOMAIN s.spent :
          /\ h \in rotated /\ h \in DOMAIN issued
          /\ s.spent[h].family = issued[h].family
          /\ s.spent[h].expires = issued[h].expires
  BY <1>0 DEF StoreInv, StoreOK, Core, HistoryOK
<1>7. \A h \in DOMAIN r.refresh : s.refresh[h].family # f
  BY <1>0, <1>1 DEF StoreInv, StoreOK
<1>8. \A h1, h2 \in DOMAIN s.refresh :
          s.refresh[h1].family = s.refresh[h2].family => h1 = h2
  BY <1>0 DEF StoreInv, StoreOK
<1>. HIDE DEF r, record, f, deadline
<1>9. ASSUME state' = r, UNCHANGED <<minted, issued>>
      PROVE  Kept
  <2>1. TypeOK'
    BY <1>1, <1>2, <1>4, <1>9 DEF Core, TypeOK, IsState
  <2>2. StoreOK(state)'
    BY <1>1, <1>3, <1>5, <1>6, <1>7, <1>8, <1>9 DEF StoreOK, Deadline
  <2>3. SpentOK(state) => SpentOK(state)'
    BY <1>1, <1>2, <1>9 DEF SpentOK, Keeps
  <2>4. RevokedOK(state) => RevokedOK(state)'
    BY <1>1, <1>2, <1>9 DEF RevokedOK, Keeps, UnixNow
  <2>5. MintedOK' /\ HistoryOK'
    BY <1>2, <1>3, <1>9 DEF Core, MintedOK, HistoryOK, Deadline, UnixNow
  <2>. QED BY <1>1, <1>9, <2>1, <2>2, <2>3, <2>4, <2>5 DEF Core, StoreInv, Kept
<1>10. ASSUME NEW new \in FreshTokens, Unexpired(record),
              state' = issue(r, new, f, record.user, deadline),
              HandOut(new, f, record.user, deadline)
       PROVE  Kept
  <2>1. /\ new \in Tokens /\ new \notin DOMAIN issued /\ new \notin rotated
        /\ new \notin DOMAIN r.refresh /\ new # t
    BY <1>1, <1>3, <1>5 DEF FreshTokens, Core, HistoryOK
  <2>2. now < deadline
    BY <1>10 DEF Unexpired, deadline
  <2>. DEFINE e == refresh_expires(deadline)
  <2>3. e \in Nat /\ e <= deadline /\ IsState(state')
    BY <1>1, <1>2, <1>4, <1>10, <2>1, IssueType
  <2>4. Bounded(state')
    BY <1>1, <1>10, <2>1, IssueBounded
  <2>5. /\ DOMAIN issued' = DOMAIN issued \cup {new}
        /\ issued'[new] = [family |-> f, expires |-> e]
        /\ \A h \in DOMAIN issued : issued'[h] = issued[h]
        /\ IsMap(issued', Tokens, [family : Families, expires : Nat])
    <3>1. [family |-> f, expires |-> e] \in [family : Families, expires : Nat]
      BY <1>4, <2>3
    <3>2. issued' = Insert(issued, new, [family |-> f, expires |-> e])
      BY <1>10 DEF HandOut
    <3>3. IsMap(issued', Tokens, [family : Families, expires : Nat])
      BY <2>1, <3>1, <3>2, InsertType DEF Core, TypeOK
    <3>. QED BY <2>1, <3>2, <3>3 DEF Insert
  <2>6. /\ DOMAIN state'.refresh = DOMAIN r.refresh \cup {new}
        /\ \A h \in DOMAIN r.refresh : state'.refresh[h] = r.refresh[h]
        /\ state'.refresh[new] = [family |-> f, user |-> record.user, expires |-> e,
                                  family_deadline |-> deadline]
        /\ state'.spent = r.spent /\ state'.revoked = r.revoked
    BY <1>1, <1>10, <2>1 DEF issue, Insert, IsState
  <2>. HIDE DEF e
  <2>7. /\ minted' \subseteq AccessToken
        /\ MintedOK'
        /\ RevokedOK(state) => RevokedOK(state)'
    BY <1>1, <1>2, <1>3, <1>4, <1>10, <2>1, <2>2, <2>6, HandOutStep DEF Keeps
  <2>8. TypeOK'
    BY <1>2, <1>4, <2>3, <2>5, <2>7 DEF Core, TypeOK
  <2>9. StoreOK(state)'
    BY <1>1, <1>3, <1>5, <1>6, <1>7, <1>8, <2>1, <2>3, <2>5, <2>6 DEF StoreOK, Deadline
  <2>10. SpentOK(state) => SpentOK(state)'
    BY <1>1, <1>2, <1>3, <2>5, <2>6 DEF SpentOK, Keeps, Core, HistoryOK
  <2>11. HistoryOK'
    BY <1>2, <1>3, <2>5 DEF Core, HistoryOK
  <2>. QED BY <2>3, <2>4, <2>7, <2>8, <2>9, <2>10, <2>11 DEF Core, StoreInv, Kept
<1>. QED BY <1>9, <1>10 DEF r, record, f, deadline

\* Time passing keeps the invariant: what expires by one clock does by the other.
LEMMA TickStep ==
    ASSUME Core, Tick
    PROVE  Kept
<1>1. /\ now' = now + 1 /\ wall' = wall + 1 /\ now \in Nat /\ wall \in Nat
      /\ UNCHANGED <<state, key, minted, login_at, issued, rotated, dead>>
  BY DEF Tick, history, Core, TypeOK
<1>2. UnixNow \in Nat /\ UnixNow' \in Nat /\ UnixNow <= UnixNow'
  <2>1. TicksPerSec \in Nat \ {0}
    BY ConstantsAssumption
  <2>. QED BY <1>1, <2>1 DEF UnixNow
<1>3. TypeOK'
  BY <1>1 DEF Core, TypeOK, Tick, NoAnswer, Answers
<1>4. StoreOK(state)' /\ IsState(state') /\ Bounded(state')
  BY <1>1 DEF Core, StoreInv, StoreOK, Deadline
<1>5. SpentOK(state) => SpentOK(state)'
  <2>1. \A t \in rotated : issued[t].expires \in Nat
    BY DEF Core, TypeOK, HistoryOK, IsMap
  <2>. QED BY <1>1, <2>1 DEF Core, SpentOK
<1>6. \A a \in minted : a.expires \in Nat
  BY DEF Core, TypeOK, AccessToken
<1>7. RevokedOK(state) => RevokedOK(state)'
  <2>1. wall' - now' = wall - now
    BY <1>1
  <2>2. \A a \in minted : a.expires <= UnixNow => a.expires <= UnixNow'
    BY <1>2, <1>6
  <2>. QED BY <1>1, <2>1, <2>2 DEF RevokedOK
<1>8. MintedOK' /\ HistoryOK'
  <2>1. wall' - now' = wall - now
    BY <1>1
  <2>2. \A a \in minted : a.expires <= UnixNow + access_ttl
                          => a.expires <= UnixNow' + access_ttl
    BY <1>2, <1>6, ConstantsAssumption
  <2>. QED BY <1>1, <2>1, <2>2 DEF Core, MintedOK, HistoryOK, Deadline
<1>. QED BY <1>3, <1>4, <1>5, <1>7, <1>8 DEF Core, StoreInv, Kept

\* login(), whether it succeeds or not, keeps the invariant.
LEMMA LoginStep ==
    ASSUME Core, NEW user \in Users, Login(user)
    PROVE  Kept
<1>. DEFINE s == make_room(state)
            deadline == now + Secs(MAX_FAMILY_LIFETIME)
<1>1. Keeps(state, s) /\ Keeps(state, state)
  BY MakeRoomInv DEF Core, Keeps
<1>2. answer' \in Answers
  BY DEF Login, Answer, Answers, TokenErrors
<1>. HIDE DEF s
<1>3. CASE state' \in {state, s} /\ UNCHANGED <<minted, issued, login_at>>
  <2>1. UNCHANGED history /\ UNCHANGED clocks /\ UNCHANGED minted /\ key' = key
    BY <1>3 DEF Login, history
  <2>. QED BY <1>1, <1>2, <1>3, <2>1, StoreStep
<1>4. ASSUME ~IsFull(s), NEW f \in FreshFamilies, NEW t \in FreshTokens,
             state' = issue(s, t, f, user, deadline),
             HandOut(t, f, user, deadline),
             login_at' = Insert(login_at, f, now)
      PROVE  Kept
  <2>1. UNCHANGED <<key, clocks, rotated, dead>>
    BY DEF Login
  <2>. QED BY <1>1, <1>2, <1>4, <2>1, LoginOkStep
<1>. QED BY <1>3, <1>4 DEF Login, s

\* refresh(), in each of its branches, keeps the invariant.
LEMMA RefreshStep ==
    ASSUME Core, NEW t \in Tokens, NEW userExists \in BOOLEAN, Refresh(t, userExists)
    PROVE  Kept
<1>. DEFINE s == make_room(sweep(state))
<1>1. Keeps(state, s) /\ StoreInv(s)
  BY SweptInv
<1>2. answer' \in Answers
  BY DEF Refresh, RefreshFull, RefreshUnknown, RefreshRefused, RefreshRotates, Answer,
         Answers, TokenErrors
<1>3. UNCHANGED clocks /\ key' = key
  BY DEF Refresh
<1>4. \/ RefreshFull(t, s) \/ RefreshUnknown(t, s)
      \/ RefreshRefused(t, s, userExists) \/ RefreshRotates(t, s, userExists)
  BY DEF Refresh
<1>. HIDE DEF s
<1>5. CASE RefreshFull(t, s)
  <2>1. state' = s /\ UNCHANGED minted /\ UNCHANGED history
    BY <1>5 DEF RefreshFull
  <2>. QED BY <1>1, <1>2, <1>3, <2>1, StoreStep
<1>6. CASE RefreshUnknown(t, s)
  <2>1. CASE t \in DOMAIN s.spent /\ now < s.spent[t].expires
    <3>. DEFINE f == s.spent[t].family
    <3>1. /\ state' = revoke_family(s, f) /\ dead' = dead \cup {f}
          /\ UNCHANGED <<minted, login_at, issued, rotated>>
      BY <1>6, <2>1 DEF RefreshUnknown
    <3>2. f \in Families /\ f \in DOMAIN login_at
      BY <1>1, <2>1 DEF StoreInv, StoreOK, IsState, IsMap, SpentRecord, Core, HistoryOK
    <3>. HIDE DEF f
    <3>. QED BY <1>1, <1>2, <1>3, <3>1, <3>2, RevokeFamilyStep
  <2>2. CASE ~(t \in DOMAIN s.spent /\ now < s.spent[t].expires)
    <3>1. state' = s /\ UNCHANGED minted /\ UNCHANGED history
      BY <1>6, <2>2 DEF RefreshUnknown, history
    <3>. QED BY <1>1, <1>2, <1>3, <3>1, StoreStep
  <2>. QED BY <2>1, <2>2
<1>7. CASE RefreshRefused(t, s, userExists)
  <2>1. state' = Consume(s, t) /\ UNCHANGED minted /\ UNCHANGED history
    BY <1>7 DEF RefreshRefused
  <2>2. Keeps(state, state')
    BY <1>1, <2>1, ConsumeInv DEF Keeps
  <2>. QED BY <1>2, <1>3, <2>1, <2>2, StoreStep
<1>8. CASE RefreshRotates(t, s, userExists)
  <2>1. /\ ~IsFull(s) /\ t \in DOMAIN s.refresh /\ Unexpired(s.refresh[t])
        /\ rotated' = rotated \cup {t} /\ login_at' = login_at /\ dead' = dead
    BY <1>8 DEF RefreshRotates
  <2>. QED BY <1>1, <1>2, <1>3, <1>8, <2>1, RotateStep DEF RefreshRotates
<1>. QED BY <1>4, <1>5, <1>6, <1>7, <1>8

\* revoke(), of a known or an unknown token, keeps the invariant.
LEMMA RevokeStep ==
    ASSUME Core, NEW t \in Tokens, Revoke(t)
    PROVE  Kept
<1>1. /\ answer' \in Answers /\ UNCHANGED clocks /\ key' = key
      /\ UNCHANGED <<minted, login_at, issued, rotated>>
  BY DEF Revoke, Answer, Answers
<1>2. Keeps(state, state)
  BY DEF Core, Keeps
<1>3. CASE Known(t)
  <2>1. FamilyOf(t) \in Families /\ FamilyOf(t) \in DOMAIN login_at
    BY <1>3 DEF Known, FamilyOf, Core, StoreInv, StoreOK, IsState, IsMap, SpentRecord,
                RefreshRecord, HistoryOK
  <2>2. state' = revoke_family(state, FamilyOf(t)) /\ dead' = dead \cup {FamilyOf(t)}
    BY <1>3 DEF Revoke
  <2>. QED BY <1>1, <1>2, <2>1, <2>2, RevokeFamilyStep
<1>4. CASE ~Known(t)
  <2>1. state' = state /\ UNCHANGED history /\ UNCHANGED minted
    BY <1>1, <1>4 DEF Revoke, history
  <2>. QED BY <1>1, <1>2, <2>1, StoreStep
<1>. QED BY <1>3, <1>4

\* An empty store satisfies the invariant.
LEMMA InitInv == Init => Inv
<1>. SUFFICES ASSUME Init PROVE Inv
  OBVIOUS
<1>1. TypeOK
  BY ConstantsAssumption, SecsType
  DEF Init, TypeOK, IsState, IsMap, EmptyMap, NoAnswer, Answers
<1>2. Bounded(state)
  <2>1. DOMAIN state.refresh = {} /\ DOMAIN state.spent = {}
    BY DEF Init, EmptyMap
  <2>. QED BY <2>1, FS_EmptySet, ConstantsAssumption DEF Bounded, Records
<1>3. StoreOK(state) /\ SpentOK(state) /\ RevokedOK(state) /\ MintedOK /\ HistoryOK
  BY ConstantsAssumption
  DEF Init, EmptyMap, StoreOK, SpentOK, RevokedOK, MintedOK, HistoryOK
<1>. QED BY <1>1, <1>2, <1>3 DEF Inv, Core, StoreInv, TypeOK

\* One step per request, and the clock: each keeps the core and both memories.
LEMMA NextKept == Core /\ [Next]_vars => Kept
<1>. SUFFICES ASSUME Core, [Next]_vars PROVE Kept
  OBVIOUS
<1>1. CASE Next
  BY <1>1, LoginStep, RefreshStep, RevokeStep, TickStep DEF Next, Request
<1>2. CASE UNCHANGED vars
  <2>1. /\ Keeps(state, state') /\ answer' \in Answers /\ key' = key /\ UNCHANGED clocks
        /\ UNCHANGED minted /\ UNCHANGED history
    BY <1>2 DEF vars, history, clocks, Core, TypeOK, Keeps
  <2>. QED BY <2>1, StoreStep
<1>. QED BY <1>1, <1>2

\* So the invariant is inductive.
LEMMA NextInv == Inv /\ [Next]_vars => Inv'
BY NextKept DEF Inv, Kept

\* The inductive invariant holds of the token service throughout.
THEOREM Invariance == Spec => []Inv
BY InitInv, NextInv, PTL DEF Spec

-----------------------------------------------------------------------------
(* The properties *)

\* Every variable of the token service keeps its type: the maps of State hold records of
\* their kind, the clocks and the expiries are natural numbers.
THEOREM TypeCorrect == Spec => []TypeOK
<1>1. Inv => TypeOK
  BY DEF Inv, Core
<1>. QED BY <1>1, Invariance, PTL

\* make_room() keeps the live and the spent refresh tokens within MAX_RECORDS, whatever
\* the bound and however logins, refreshes and sweeps interleave.
THEOREM StoreIsBounded == Spec => []StoreBounded
<1>1. Inv => StoreBounded
  BY DEF Inv, Core, StoreInv, Bounded, StoreBounded
<1>. QED BY <1>1, Invariance, PTL

\* refresh() never leaves two refresh tokens of one login alive.
THEOREM OneLive == Spec => []OneLivePerFamily
<1>1. Inv => OneLivePerFamily
  BY DEF Inv, Core, StoreInv, StoreOK, OneLivePerFamily
<1>. QED BY <1>1, Invariance, PTL

\* A refresh token that refresh() consumed is never live again.
THEOREM RotatedOnce == Spec => []SingleUse
<1>1. Inv => SingleUse
  BY DEF Inv, Core, StoreInv, StoreOK, SingleUse
<1>. QED BY <1>1, Invariance, PTL

\* The invariant says what a revocation means for the tokens of the login.
LEMMA InvRevocation == Inv => RevocationHolds
<1>. SUFFICES ASSUME Inv PROVE RevocationHolds
  OBVIOUS
<1>1. \A t \in DOMAIN state.refresh : state.refresh[t].family \notin dead
  BY DEF Inv, Core, StoreInv, StoreOK
<1>2. ASSUME NEW a \in minted, a.family \in dead, a.key = key
      PROVE  ~verify_access(a)
  <2>1. a.family \in DOMAIN state.revoked \/ a.expires <= UnixNow
    BY <1>2 DEF Inv, RevokedOK
  <2>2. a.expires \in Nat /\ UnixNow \in Nat
    BY UnixNowFacts DEF Inv, Core, TypeOK, AccessToken
  <2>. QED BY <2>1, <2>2 DEF verify_access
<1>. QED BY <1>1, <1>2 DEF RevocationHolds, verify_access

\* An access token that is still good is at most access_ttl past the login's deadline.
LEMMA MintedLifetime ==
    ASSUME TypeOK, MintedOK, NEW a \in minted, verify_access(a)
    PROVE  now < login_at[a.family] + Secs(MAX_FAMILY_LIFETIME) + Secs(access_ttl)
<1>1. /\ a.expires \in Nat /\ now \in Nat /\ wall \in Nat /\ UnixNow \in Nat
      /\ a.family \in DOMAIN login_at
      /\ login_at[a.family] \in Nat
  BY UnixNowFacts DEF TypeOK, AccessToken, MintedOK, IsMap
<1>2. Secs(a.expires) < login_at[a.family] + Secs(MAX_FAMILY_LIFETIME)
                        + Secs(access_ttl) + (wall - now)
  BY DEF MintedOK, Deadline
<1>3. ~(a.expires <= UnixNow)
  BY <1>1 DEF verify_access
<1>4. wall < Secs(a.expires)
  BY <1>1, <1>3, UnixNowFacts, SecsType
<1>5. /\ Secs(a.expires) \in Nat /\ Secs(MAX_FAMILY_LIFETIME) \in Nat
      /\ Secs(access_ttl) \in Nat
  BY <1>1, SecsType, ConstantsAssumption
<1>. QED BY <1>1, <1>2, <1>4, <1>5

\* The invariant bounds the life of a login.
LEMMA InvLifetime == Inv => LoginLifetime
BY MintedLifetime DEF Inv, Core, StoreInv, StoreOK, Deadline, LoginLifetime

\* After a logout or a detected reuse nothing of the login works: although revoke_family()
\* remembers the family only for access_ttl on the monotonic clock, and access tokens
\* expire on the truncated system clock, no sweep forgets a family too early.
THEOREM RevocationIsFinal == Spec => []RevocationHolds
BY InvRevocation, Invariance, PTL

\* However often a client refreshes, its login ends MAX_FAMILY_LIFETIME after it began
\* (and the last access token access_ttl later).
THEOREM LoginsEnd == Spec => []LoginLifetime
BY InvLifetime, Invariance, PTL

\* What a refresh does with a rotated token that has not expired.
LEMMA ReuseStep ==
    ASSUME Inv, Next, NEW t \in DOMAIN issued, Replayed(t)
    PROVE  issued[t].family \in dead' \/ answer'.outcome = "Full"
<1>. DEFINE s == make_room(sweep(state))
<1>1. StoreInv(s) /\ Keeps(state, s)
  BY SweptInv DEF Inv
<1>2. PICK userExists \in BOOLEAN : Refresh(t, userExists)
  BY DEF Next, Request, Login, Refresh, RefreshFull, RefreshUnknown,
         RefreshRefused, RefreshRotates, Revoke, Tick, Answer, NoAnswer, Replayed
<1>3. \/ RefreshFull(t, s) \/ RefreshUnknown(t, s)
      \/ RefreshRefused(t, s, userExists) \/ RefreshRotates(t, s, userExists)
  BY <1>2 DEF Refresh
<1>. HIDE DEF s
<1>4. /\ t \notin DOMAIN s.refresh
      /\ t \in DOMAIN s.spent
      /\ s.spent[t].family = issued[t].family
      /\ now < s.spent[t].expires
  BY <1>1 DEF Inv, Keeps, StoreInv, StoreOK, SpentOK, Replayed
<1>5. CASE RefreshFull(t, s)
  BY <1>5 DEF RefreshFull, Answer
<1>6. CASE RefreshUnknown(t, s)
  BY <1>4, <1>6 DEF RefreshUnknown
<1>. QED BY <1>3, <1>4, <1>5, <1>6 DEF RefreshRefused, RefreshRotates

\* Presenting a rotated refresh token before it would have expired revokes its login,
\* unless the store is full: no sweep forgets a spent record that is still needed.
THEOREM ReuseIsDetected == Spec => ReuseDetected
<1>1. Inv /\ [Next]_vars
      => [\A t \in DOMAIN issued :
              Replayed(t) => \/ issued[t].family \in dead'
                             \/ answer'.outcome = "Full"]_vars
  BY ReuseStep
<1>. QED BY <1>1, Invariance, PTL DEF Spec, ReuseDetected

\* Neither sweep() nor make_room() drops a refresh token that can still be exchanged.
LEMMA SweepKeepsUnexpired ==
    ASSUME NEW s, NEW t \in DOMAIN s.refresh, Unexpired(s.refresh[t])
    PROVE  /\ t \in DOMAIN make_room(s).refresh /\ t \in DOMAIN sweep(s).refresh
           /\ make_room(s).refresh[t] = s.refresh[t]
           /\ sweep(s).refresh[t] = s.refresh[t]
BY DEF make_room, sweep, force_sweep, Restrict

\* Which steps can cost a client a refresh token it could still exchange.
LEMMA LossStep ==
    ASSUME Inv, Next, NEW t \in DOMAIN state.refresh \ DOMAIN state'.refresh,
           Unexpired(state.refresh[t])
    PROVE  /\ answer'.token \in DOMAIN issued
           /\ issued[answer'.token].family = state.refresh[t].family
           /\ answer'.outcome \notin {"Full", "Unknown"}
<1>. DEFINE f == state.refresh[t].family
<1>1. t \in DOMAIN issued /\ issued[t].family = f
  BY DEF Inv, Core, StoreInv, StoreOK
<1>2. ASSUME NEW user \in Users, Login(user) PROVE FALSE
  <2>1. t \in DOMAIN make_room(state).refresh
    BY SweepKeepsUnexpired
  <2>2. ASSUME NEW u, NEW g, NEW h, NEW deadline,
               state' = issue(make_room(state), h, g, u, deadline)
        PROVE  t \in DOMAIN state'.refresh
    <3>1. IsState(make_room(state))
      BY MakeRoomInv DEF Inv, Core, Keeps, StoreInv
    <3>. QED BY <2>1, <2>2, <3>1, IssueDomain
  <2>3. \/ state' = state
        \/ state' = make_room(state)
        \/ \E g \in FreshFamilies, h \in FreshTokens :
              state' = issue(make_room(state), h, g, user,
                             now + Secs(MAX_FAMILY_LIFETIME))
    BY <1>2 DEF Login
  <2>. QED BY <2>1, <2>2, <2>3
<1>3. ASSUME NEW h \in Tokens, NEW userExists \in BOOLEAN, Refresh(h, userExists)
      PROVE  /\ answer'.token \in DOMAIN issued
             /\ issued[answer'.token].family = f
             /\ answer'.outcome \notin {"Full", "Unknown"}
  <2>. DEFINE s == make_room(sweep(state))
  <2>1. StoreInv(s) /\ IsState(s)
    BY SweptInv DEF Inv, StoreInv
  <2>2. t \in DOMAIN s.refresh /\ s.refresh[t] = state.refresh[t]
    BY SweepKeepsUnexpired
  <2>3. \/ RefreshFull(h, s) \/ RefreshUnknown(h, s)
        \/ RefreshRefused(h, s, userExists) \/ RefreshRotates(h, s, userExists)
    BY <1>3 DEF Refresh
  <2>. HIDE DEF s, f
  <2>4. ~RefreshFull(h, s)
    BY <2>2 DEF RefreshFull
  <2>5. CASE RefreshUnknown(h, s)
    <3>1. h \in DOMAIN s.spent /\ state' = revoke_family(s, s.spent[h].family)
          /\ answer' = [op |-> "refresh", token |-> h, outcome |-> "Reused"]
      BY <2>2, <2>5 DEF RefreshUnknown, Answer
    <3>2. s.spent[h].family = f
      BY <2>1, <2>2, <3>1 DEF revoke_family, Restrict, IsState, f
    <3>3. h \in DOMAIN issued /\ issued[h].family = f
      BY <2>1, <3>1, <3>2 DEF StoreInv, StoreOK, Inv, Core, HistoryOK
    <3>. QED BY <3>1, <3>3
  <2>6. CASE RefreshRefused(h, s, userExists)
    <3>1. /\ state' = Consume(s, h)
          /\ answer' = [op |-> "refresh", token |-> h, outcome |-> "Invalid"]
      BY <2>6 DEF RefreshRefused, Answer
    <3>2. h = t
      BY <2>1, <2>2, <3>1, ConsumeType
    <3>. QED BY <1>1, <3>1, <3>2
  <2>7. CASE RefreshRotates(h, s, userExists)
    <3>1. /\ answer'.token = h
          /\ answer'.outcome \in {"Ok", "Random"}
          /\ ~IsFull(s) /\ h \in DOMAIN s.refresh
          /\ \/ state' = Retire(s, h)
             \/ \E new \in FreshTokens :
                   state' = issue(Retire(s, h), new, s.refresh[h].family,
                                  s.refresh[h].user, s.refresh[h].family_deadline)
      BY <2>7 DEF RefreshRotates, Answer
    <3>2. IsState(Retire(s, h)) /\ DOMAIN Retire(s, h).refresh = DOMAIN s.refresh \ {h}
      BY <2>1, <3>1, RetireType, ZenonT(30)
    <3>3. DOMAIN s.refresh \ {h} \subseteq DOMAIN state'.refresh
      BY <3>1, <3>2, IssueDomain
    <3>4. h = t
      BY <2>2, <3>3
    <3>. QED BY <1>1, <3>1, <3>4
  <2>. QED BY <2>3, <2>4, <2>5, <2>6, <2>7
<1>4. ASSUME NEW h \in Tokens, Revoke(h)
      PROVE  /\ answer'.token \in DOMAIN issued
             /\ issued[answer'.token].family = f
             /\ answer'.outcome \notin {"Full", "Unknown"}
  <2>1. /\ Known(h) /\ state' = revoke_family(state, FamilyOf(h))
        /\ answer' = [op |-> "revoke", token |-> h, outcome |-> "Ok"]
    BY <1>4 DEF Revoke, Answer
  <2>2. FamilyOf(h) = f
    BY <2>1 DEF revoke_family, Restrict, Inv, Core, StoreInv, IsState
  <2>3. h \in DOMAIN issued /\ issued[h].family = FamilyOf(h)
    BY <2>1 DEF Known, FamilyOf, Inv, Core, StoreInv, StoreOK, HistoryOK
  <2>. QED BY <2>1, <2>2, <2>3
<1>5. ~Tick
  BY DEF Tick
<1>. QED BY <1>2, <1>3, <1>4, <1>5 DEF Next, Request

\* A client loses a refresh token it could still exchange only to a request that presents
\* a token of the same login, and never to one that is answered "full" or "unknown".
THEOREM OnlyItsLogin == Spec => OnlyItsLoginEndsIt
<1>1. Inv /\ [Next]_vars
      => [\A t \in DOMAIN state.refresh \ DOMAIN state'.refresh :
              Unexpired(state.refresh[t]) =>
                  /\ answer'.token \in DOMAIN issued
                  /\ issued[answer'.token].family = state.refresh[t].family
                  /\ answer'.outcome \notin {"Full", "Unknown"}]_vars
  BY LossStep
<1>. QED BY <1>1, Invariance, PTL DEF Spec, OnlyItsLoginEndsIt

-----------------------------------------------------------------------------
(* The service implements Sessions.  The mapping takes a login to its refresh tokens that *)
(* can be exchanged now, so that a sweep is a stutter: what it drops had stopped working.  *)

\* The tokens of login f that work in a state s of the store; Working(f) is this of "state".
WorksIn(s, f) ==
    {t \in DOMAIN s.refresh : s.refresh[t].family = f /\ Unexpired(s.refresh[t])}

-----------------------------------------------------------------------------
(* What the functions on State do to the tokens that work *)

\* Sweeping drops no token that works and makes none work.
LEMMA SweepWorks ==
    ASSUME NEW s, NEW f
    PROVE  WorksIn(sweep(s), f) = WorksIn(s, f) /\ WorksIn(make_room(s), f) = WorksIn(s, f)
<1>1. WorksIn(force_sweep(s), f) = WorksIn(s, f)
  BY DEF WorksIn, force_sweep, Restrict
<1>. QED BY <1>1 DEF sweep, make_room

\* issue() gives one login one more token, which works at once.
LEMMA IssueWorks ==
    ASSUME NEW s, IsState(s), now \in Nat, NEW t, t \notin DOMAIN s.refresh,
           NEW family, NEW user, NEW deadline \in Nat, now < deadline
    PROVE  /\ WorksIn(issue(s, t, family, user, deadline), family)
                 = WorksIn(s, family) \cup {t}
           /\ \A g : g # family =>
                 WorksIn(issue(s, t, family, user, deadline), g) = WorksIn(s, g)
<1>. DEFINE i == issue(s, t, family, user, deadline)
            record == [family |-> family, user |-> user,
                       expires |-> refresh_expires(deadline),
                       family_deadline |-> deadline]
<1>1. Secs(refresh_ttl) \in Nat /\ Secs(refresh_ttl) > 0
  BY ConstantsAssumption, SecsType
<1>2. now < refresh_expires(deadline)
  BY <1>1 DEF refresh_expires, Earlier
<1>3. Unexpired(record)
  BY <1>2 DEF Unexpired
<1>4. i.refresh = Insert(s.refresh, t, record)
  BY DEF issue, IsState
<1>5. /\ DOMAIN i.refresh = DOMAIN s.refresh \cup {t}
      /\ i.refresh[t] = record
      /\ \A h \in DOMAIN s.refresh : i.refresh[h] = s.refresh[h]
  BY <1>4 DEF Insert
<1>6. record.family = family
  OBVIOUS
<1>. HIDE DEF i, record
<1>7. WorksIn(i, family) = WorksIn(s, family) \cup {t}
  BY <1>3, <1>5, <1>6 DEF WorksIn
<1>8. ASSUME NEW g, g # family PROVE WorksIn(i, g) = WorksIn(s, g)
  BY <1>5, <1>6, <1>8 DEF WorksIn
<1>. QED BY <1>7, <1>8 DEF i

\* revoke_family() takes its token from one login and leaves the others alone.
LEMMA RevokeWorks ==
    ASSUME NEW s, IsState(s), NEW f
    PROVE  /\ WorksIn(revoke_family(s, f), f) = {}
           /\ \A g : g # f => WorksIn(revoke_family(s, f), g) = WorksIn(s, g)
<1>. DEFINE r == revoke_family(s, f)
            kept == {h \in DOMAIN s.refresh : s.refresh[h].family # f}
<1>1. r.refresh = Restrict(s.refresh, kept)
  BY DEF revoke_family, IsState
<1>2. DOMAIN r.refresh = kept /\ \A h \in kept : r.refresh[h] = s.refresh[h]
  BY <1>1 DEF Restrict
<1>. HIDE DEF r
<1>. QED BY <1>2 DEF WorksIn, r

\* Removing the token of a login, which has only one, leaves it with none.
LEMMA ConsumeWorks ==
    ASSUME NEW s, StoreInv(s), NEW c, NEW t \in DOMAIN s.refresh,
           DOMAIN c.refresh = DOMAIN s.refresh \ {t},
           \A h \in DOMAIN s.refresh \ {t} : c.refresh[h] = s.refresh[h]
    PROVE  /\ WorksIn(c, s.refresh[t].family) = {}
           /\ \A g : g # s.refresh[t].family => WorksIn(c, g) = WorksIn(s, g)
<1>1. \A h \in DOMAIN s.refresh : s.refresh[h].family = s.refresh[t].family => h = t
  BY DEF StoreInv, StoreOK
<1>. QED BY <1>1 DEF WorksIn

-----------------------------------------------------------------------------
(* Steps *)

\* A step that changes the tokens of no login is a stutter of Sessions.
LEMMA StutterStep ==
    ASSUME \A f \in DOMAIN login_at : WorksIn(state', f) = WorksIn(state, f),
           now' = now, login_at' = login_at, issued' = issued
    PROVE  UNCHANGED Logins!session_vars
BY DEF Logins!session_vars, Working, WorksIn, Unexpired

\* A step that changes the tokens of one login changes the mapped variable at that login.
LEMMA MoveStep ==
    ASSUME NEW f, NEW v, WorksIn(state', f) = v,
           \A g : g # f => WorksIn(state', g) = WorksIn(state, g),
           now' = now, login_at' = login_at
    PROVE  [g \in DOMAIN login_at |-> Working(g)]'
               = [[g \in DOMAIN login_at |-> Working(g)] EXCEPT ![f] = v]
<1>1. [g \in DOMAIN login_at |-> Working(g)]'
        = [g \in DOMAIN login_at |-> IF g = f THEN v ELSE Working(g)]
  BY DEF Working, WorksIn, Unexpired
<1>. QED BY <1>1, Zenon

\* A step that leaves one login without a token is an End of Sessions.
LEMMA EndStep ==
    ASSUME NEW f \in Families, f \in DOMAIN login_at, WorksIn(state', f) = {},
           \A g : g # f => WorksIn(state', g) = WorksIn(state, g),
           now' = now, login_at' = login_at, issued' = issued
    PROVE  Logins!SessionNext
<1>1. Logins!End(f)
  BY MoveStep DEF Logins!End
<1>. QED BY <1>1 DEF Logins!SessionNext

\* A login that is answered with tokens is an Open of Sessions.
LEMMA OpenStep ==
    ASSUME Inv, NEW s, IsState(s), \A g : WorksIn(s, g) = WorksIn(state, g),
           NEW f \in FreshFamilies, NEW t \in FreshTokens, NEW user,
           t \notin DOMAIN s.refresh,
           state' = issue(s, t, f, user, now + Secs(MAX_FAMILY_LIFETIME)),
           DOMAIN issued' = DOMAIN issued \cup {t}, login_at' = Insert(login_at, f, now),
           now' = now
    PROVE  Logins!SessionNext
<1>. DEFINE h == [g \in DOMAIN login_at |-> Working(g)]
<1>1. /\ now \in Nat /\ now + Secs(MAX_FAMILY_LIFETIME) \in Nat
      /\ now < now + Secs(MAX_FAMILY_LIFETIME)
  BY ConstantsAssumption, SecsType DEF Inv, Core, TypeOK
<1>2. /\ WorksIn(state', f) = WorksIn(state, f) \cup {t}
      /\ \A g : g # f => WorksIn(state', g) = WorksIn(state, g)
  BY <1>1, IssueWorks
<1>3. f \in Families /\ f \notin DOMAIN login_at /\ t \in Tokens /\ t \notin DOMAIN issued
  BY DEF FreshFamilies, FreshTokens
<1>4. WorksIn(state, f) = {}
  BY <1>3 DEF WorksIn, Inv, Core, StoreInv, StoreOK
<1>5. DOMAIN login_at' = DOMAIN login_at \cup {f}
  BY DEF Insert
<1>6. h' = [g \in DOMAIN login_at \cup {f} |-> IF g = f THEN {t} ELSE Working(g)]
  BY <1>2, <1>4, <1>5 DEF Working, WorksIn, Unexpired
<1>7. h' = [g \in DOMAIN h \cup {f} |-> IF g = f THEN {t} ELSE h[g]]
  BY <1>6
<1>8. Logins!Open(f, t)
  BY <1>3, <1>7 DEF Logins!Open, Insert
<1>. QED BY <1>3, <1>8 DEF Logins!SessionNext

\* A refresh that is answered with tokens is a Renew of Sessions.
LEMMA RenewStep ==
    ASSUME Inv, NEW s, StoreInv(s), \A g : WorksIn(s, g) = WorksIn(state, g), ~IsFull(s),
           NEW t \in DOMAIN s.refresh, Unexpired(s.refresh[t]), NEW new \in FreshTokens,
           state' = issue(Retire(s, t), new, s.refresh[t].family, s.refresh[t].user,
                          s.refresh[t].family_deadline),
           DOMAIN issued' = DOMAIN issued \cup {new}, login_at' = login_at, now' = now
    PROVE  Logins!SessionNext
<1>. DEFINE h == [g \in DOMAIN login_at |-> Working(g)]
            f == s.refresh[t].family
            r == Retire(s, t)
<1>1. /\ f \in Families /\ f \in DOMAIN login_at
      /\ s.refresh[t].family_deadline \in Nat /\ now < s.refresh[t].family_deadline
      /\ now \in Nat
  BY DEF StoreInv, StoreOK, IsState, IsMap, RefreshRecord, Unexpired, Inv, Core, TypeOK
<1>2. new \in Tokens /\ new \notin DOMAIN issued /\ new \notin DOMAIN s.refresh
  BY DEF FreshTokens, StoreInv, StoreOK
<1>3. /\ IsState(r) /\ DOMAIN r.refresh = DOMAIN s.refresh \ {t}
      /\ \A k \in DOMAIN s.refresh \ {t} : r.refresh[k] = s.refresh[k]
  BY RetireType
<1>. HIDE DEF r
<1>4. WorksIn(r, f) = {} /\ \A g : g # f => WorksIn(r, g) = WorksIn(s, g)
  BY <1>3, ConsumeWorks
<1>5. new \notin DOMAIN r.refresh
  BY <1>2, <1>3
<1>6. /\ WorksIn(state', f) = {new}
      /\ \A g : g # f => WorksIn(state', g) = WorksIn(state, g)
  BY <1>1, <1>3, <1>4, <1>5, IssueWorks DEF r
<1>7. t \in WorksIn(state, f)
  BY DEF WorksIn
<1>8. h[f] # {}
  BY <1>1, <1>7 DEF WorksIn, Working
<1>. HIDE DEF f
<1>9. h' = [h EXCEPT ![f] = {new}]
  BY <1>6, MoveStep
<1>10. Logins!Renew(f, new)
  BY <1>1, <1>2, <1>8, <1>9 DEF Logins!Renew, f
<1>. QED BY <1>1, <1>2, <1>10 DEF Logins!SessionNext

-----------------------------------------------------------------------------
(* Requests *)

\* login() opens a login or changes none.
LEMMA LoginRefines ==
    ASSUME Inv, NEW user \in Users, Login(user)
    PROVE  Logins!SessionNext \/ UNCHANGED Logins!session_vars
<1>. DEFINE s == make_room(state)
            deadline == now + Secs(MAX_FAMILY_LIFETIME)
<1>1. IsState(s) /\ StoreInv(s) /\ \A g : WorksIn(s, g) = WorksIn(state, g)
  BY MakeRoomInv, SweepWorks DEF Inv, Core, Keeps, StoreInv
<1>2. now' = now
  BY DEF Login, clocks
<1>. HIDE DEF s
<1>3. CASE state' \in {state, s} /\ UNCHANGED <<minted, issued, login_at>>
  BY <1>1, <1>2, <1>3, StutterStep
<1>4. ASSUME NEW f \in FreshFamilies, NEW t \in FreshTokens,
             state' = issue(s, t, f, user, deadline),
             HandOut(t, f, user, deadline),
             login_at' = Insert(login_at, f, now)
      PROVE  Logins!SessionNext
  <2>1. DOMAIN issued' = DOMAIN issued \cup {t}
    BY <1>4 DEF HandOut, Insert
  <2>2. t \notin DOMAIN s.refresh
    BY <1>1 DEF StoreInv, StoreOK, FreshTokens
  <2>. QED BY <1>1, <1>2, <1>4, <2>1, <2>2, OpenStep
<1>. QED BY <1>3, <1>4 DEF Login, s

\* refresh() renews a login, ends one or changes none.
LEMMA RefreshRefines ==
    ASSUME Inv, NEW t \in Tokens, NEW userExists \in BOOLEAN, Refresh(t, userExists)
    PROVE  Logins!SessionNext \/ UNCHANGED Logins!session_vars
<1>. DEFINE s == make_room(sweep(state))
<1>1. StoreInv(s) /\ IsState(s) /\ \A g : WorksIn(s, g) = WorksIn(state, g)
  BY SweptInv, SweepWorks DEF Inv, StoreInv
<1>2. now' = now
  BY DEF Refresh, clocks
<1>3. \/ RefreshFull(t, s) \/ RefreshUnknown(t, s)
      \/ RefreshRefused(t, s, userExists) \/ RefreshRotates(t, s, userExists)
  BY DEF Refresh
<1>. HIDE DEF s
<1>4. CASE state' = s /\ login_at' = login_at /\ issued' = issued
  BY <1>1, <1>2, <1>4, StutterStep
<1>5. CASE RefreshUnknown(t, s) /\ state' # s
  <2>. DEFINE f == s.spent[t].family
  <2>1. /\ t \in DOMAIN s.spent /\ state' = revoke_family(s, f)
        /\ UNCHANGED <<login_at, issued>>
    BY <1>5 DEF RefreshUnknown
  <2>2. f \in Families /\ f \in DOMAIN login_at
    BY <1>1, <2>1 DEF StoreInv, StoreOK, IsState, IsMap, SpentRecord, Inv, Core, HistoryOK
  <2>. HIDE DEF f
  <2>3. /\ WorksIn(state', f) = {}
        /\ \A g : g # f => WorksIn(state', g) = WorksIn(state, g)
    BY <1>1, <2>1, RevokeWorks
  <2>. QED BY <1>2, <2>1, <2>2, <2>3, EndStep
<1>6. CASE t \in DOMAIN s.refresh /\ state' \in {Consume(s, t), Retire(s, t)} /\ ~IsFull(s)
           /\ UNCHANGED <<login_at, issued>>
  <2>1. /\ DOMAIN state'.refresh = DOMAIN s.refresh \ {t}
        /\ \A h \in DOMAIN s.refresh \ {t} : state'.refresh[h] = s.refresh[h]
    <3>1. CASE state' = Consume(s, t)
      BY <1>1, <3>1, ConsumeType
    <3>2. CASE state' = Retire(s, t)
      <4>1. t \in DOMAIN s.refresh /\ ~IsFull(s)
        BY <1>6
      <4>2. /\ DOMAIN Retire(s, t).refresh = DOMAIN s.refresh \ {t}
            /\ \A h \in DOMAIN s.refresh \ {t} : Retire(s, t).refresh[h] = s.refresh[h]
        BY <1>1, <4>1, RetireType
      <4>. QED BY <3>2, <4>2
    <3>. QED BY <1>6, <3>1, <3>2
  <2>2. s.refresh[t].family \in Families /\ s.refresh[t].family \in DOMAIN login_at
    BY <1>1, <1>6 DEF StoreInv, StoreOK, IsState, IsMap, RefreshRecord
  <2>3. /\ WorksIn(state', s.refresh[t].family) = {}
        /\ \A g : g # s.refresh[t].family => WorksIn(state', g) = WorksIn(state, g)
    BY <1>1, <1>6, <2>1, ConsumeWorks, SMTT(30)
  <2>. QED BY <1>2, <1>6, <2>2, <2>3, EndStep
<1>7. CASE RefreshRotates(t, s, userExists) /\ state' # Retire(s, t)
  <2>1. /\ ~IsFull(s) /\ t \in DOMAIN s.refresh /\ Unexpired(s.refresh[t])
        /\ login_at' = login_at
    BY <1>7 DEF RefreshRotates
  <2>2. PICK new \in FreshTokens :
           /\ state' = issue(Retire(s, t), new, s.refresh[t].family, s.refresh[t].user,
                             s.refresh[t].family_deadline)
           /\ HandOut(new, s.refresh[t].family, s.refresh[t].user,
                      s.refresh[t].family_deadline)
    BY <1>7 DEF RefreshRotates
  <2>3. DOMAIN issued' = DOMAIN issued \cup {new}
    BY <2>2 DEF HandOut, Insert
  <2>. QED BY <1>1, <1>2, <2>1, <2>2, <2>3, RenewStep
<1>8. CASE RefreshRotates(t, s, userExists) /\ state' = Retire(s, t)
  <2>1. CASE issued' = issued
    BY <1>6, <1>8, <2>1 DEF RefreshRotates
  <2>2. CASE issued' # issued
    <3>1. /\ ~IsFull(s) /\ t \in DOMAIN s.refresh /\ Unexpired(s.refresh[t])
          /\ login_at' = login_at
      BY <1>8 DEF RefreshRotates
    <3>2. PICK new \in FreshTokens :
             /\ state' = issue(Retire(s, t), new, s.refresh[t].family, s.refresh[t].user,
                               s.refresh[t].family_deadline)
             /\ HandOut(new, s.refresh[t].family, s.refresh[t].user,
                        s.refresh[t].family_deadline)
      BY <1>8, <2>2 DEF RefreshRotates
    <3>3. DOMAIN issued' = DOMAIN issued \cup {new}
      BY <3>2 DEF HandOut, Insert
    <3>. QED BY <1>1, <1>2, <3>1, <3>2, <3>3, RenewStep
  <2>. QED BY <2>1, <2>2
<1>. QED
  BY <1>3, <1>4, <1>5, <1>6, <1>7, <1>8
  DEF RefreshFull, RefreshUnknown, RefreshRefused, history

\* revoke() ends a login or changes none.
LEMMA RevokeRefines ==
    ASSUME Inv, NEW t \in Tokens, Revoke(t)
    PROVE  Logins!SessionNext \/ UNCHANGED Logins!session_vars
<1>1. now' = now /\ UNCHANGED <<login_at, issued>>
  BY DEF Revoke, clocks
<1>2. CASE Known(t)
  <2>. DEFINE f == FamilyOf(t)
  <2>1. f \in Families /\ f \in DOMAIN login_at
    BY <1>2 DEF Known, FamilyOf, Inv, Core, StoreInv, StoreOK, IsState, IsMap, SpentRecord,
                RefreshRecord, HistoryOK
  <2>2. state' = revoke_family(state, f) /\ IsState(state)
    BY <1>2 DEF Revoke, Inv, Core, StoreInv
  <2>. HIDE DEF f
  <2>3. /\ WorksIn(state', f) = {}
        /\ \A g : g # f => WorksIn(state', g) = WorksIn(state, g)
    BY <2>2, RevokeWorks
  <2>. QED BY <1>1, <2>1, <2>3, EndStep
<1>3. CASE ~Known(t)
  <2>1. state' = state
    BY <1>3 DEF Revoke
  <2>. QED BY <1>1, <2>1, StutterStep
<1>. QED BY <1>2, <1>3

\* The clock only makes tokens stop working, all of them by the deadline of their login.
LEMMA TickRefines ==
    ASSUME Inv, Tick
    PROVE  Logins!SessionNext
<1>. DEFINE h == [g \in DOMAIN login_at |-> Working(g)]
<1>1. /\ now \in Nat /\ now' = now + 1
      /\ UNCHANGED <<state, login_at, issued>>
  BY DEF Tick, history, Inv, Core, TypeOK
<1>2. \A t1, t2 \in DOMAIN state.refresh :
         state.refresh[t1].family = state.refresh[t2].family => t1 = t2
  BY DEF Inv, Core, StoreInv, StoreOK
<1>3. \A t \in DOMAIN state.refresh :
         /\ state.refresh[t].expires \in Nat /\ state.refresh[t].family_deadline \in Nat
         /\ state.refresh[t].family_deadline
               = login_at[state.refresh[t].family] + Secs(MAX_FAMILY_LIFETIME)
  BY DEF Inv, Core, StoreInv, StoreOK, IsState, IsMap, RefreshRecord, Deadline
<1>4. ASSUME NEW f \in DOMAIN login_at PROVE h'[f] \in {h[f], {}}
  BY <1>1, <1>2, <1>3 DEF Working, Unexpired
<1>5. ASSUME NEW f \in DOMAIN login_at, h'[f] # {}
      PROVE  now' < login_at'[f] + Secs(MAX_FAMILY_LIFETIME)
  BY <1>1, <1>3, <1>5 DEF Working, Unexpired
<1>6. DOMAIN h' = DOMAIN h /\ DOMAIN h = DOMAIN login_at
  BY <1>1
<1>7. Logins!Expire
  BY <1>1, <1>4, <1>5, <1>6 DEF Logins!Expire, Logins!Young
<1>. QED BY <1>7 DEF Logins!SessionNext

\* Every step of the service is a step of Sessions or a stutter.
LEMMA SessionStep == Inv /\ [Next]_vars => [Logins!SessionNext]_(Logins!session_vars)
<1>. SUFFICES ASSUME Inv, [Next]_vars
              PROVE  Logins!SessionNext \/ UNCHANGED Logins!session_vars
  OBVIOUS
<1>1. CASE Next
  BY <1>1, LoginRefines, RefreshRefines, RevokeRefines, TickRefines DEF Next, Request
<1>2. CASE UNCHANGED vars
  BY <1>2 DEF vars, Logins!session_vars, Working, Unexpired
<1>. QED BY <1>1, <1>2

LEMMA SessionInitStep == Init => Logins!SessionInit
BY DEF Init, Logins!SessionInit, EmptyMap, Working

\* The token service implements Sessions: each request is a step of one login or none, and
\* only the clock ends several at once (property ImplementsSessions, token.rs:153-310).
THEOREM SessionRefinement == Spec => ImplementsSessions
BY SessionInitStep, SessionStep, Invariance, PTL DEF Spec, ImplementsSessions, Logins!SessionSpec
=============================================================================
