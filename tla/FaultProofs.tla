------------------------------ MODULE FaultProofs ------------------------------
(***************************************************************************)
(* Proofs about TokenFaults: what restarts and a system clock that is set  *)
(* ahead leave of the token service's promises, for every number of        *)
(* restarts and of settings of the clock.                                  *)
(*                                                                         *)
(* The core of the invariant of TokenService survives both, because it     *)
(* relates what is stored to the history and asks nothing of what is not   *)
(* stored.  What a restart forgets is made up for by the new key, if there *)
(* is one: no access token of the time before is signed with it.           *)
(***************************************************************************)
EXTENDS TokenFaults, TokenServiceProofs

\* The system clock is not set back.  (It would let an access token outlive the entry of
\* its revoked login.)
NeverSetBack == MaxStepBack = 0

\* No key was used before it was drawn.
KeysInOrder == \A a \in minted : a.key <= key

FaultInv ==
    /\ Core
    /\ secret_file \in BOOLEAN
    /\ ~secret_file => RevokedOK(state) /\ KeysInOrder

-----------------------------------------------------------------------------
(* Faults *)

\* A store that was just made satisfies what is asked of a store.
LEMMA RestartStep ==
    ASSUME FaultInv, Restart
    PROVE  FaultInv'
<1>1. /\ now' = now /\ wall' = wall /\ minted' = minted /\ secret_file' = secret_file
      /\ login_at' = login_at /\ issued' = issued /\ rotated' = rotated /\ dead' = dead
      /\ key' = NewKey /\ answer' = NoAnswer
      /\ state' = [refresh |-> EmptyMap, spent |-> EmptyMap, revoked |-> EmptyMap,
                   next_sweep |-> now + Secs(SWEEP_INTERVAL)]
  BY DEF Restart, clocks, history, EmptyState
<1>2. key \in Nat /\ now \in Nat /\ \A a \in minted : a.key \in Nat
  BY DEF FaultInv, Core, TypeOK, AccessToken
<1>3. /\ DOMAIN state'.refresh = {} /\ DOMAIN state'.spent = {}
      /\ IsState(state')
  <2>1. now + Secs(SWEEP_INTERVAL) \in Nat
    BY <1>2, SecsType, ConstantsAssumption
  <2>. QED BY <1>1, <2>1 DEF IsState, IsMap, EmptyMap
<1>4. Bounded(state')
  BY <1>3, FS_EmptySet, ConstantsAssumption DEF Bounded, Records
<1>5. StoreOK(state)'
  BY <1>3 DEF StoreOK
<1>6. TypeOK'
  BY <1>1, <1>2, <1>3 DEF FaultInv, Core, TypeOK, NewKey, NoAnswer, Answers
<1>7. MintedOK' /\ HistoryOK'
  BY <1>1 DEF FaultInv, Core, MintedOK, HistoryOK, Deadline, UnixNow
<1>8. ASSUME ~secret_file PROVE RevokedOK(state)' /\ KeysInOrder'
  <2>1. key' = key + 1
    BY <1>1, <1>8 DEF NewKey
  <2>2. \A a \in minted' : a.key <= key
    BY <1>1, <1>8 DEF FaultInv, KeysInOrder
  <2>3. \A a \in minted' : a.key # key' /\ a.key <= key'
    BY <1>1, <1>2, <2>1, <2>2
  <2>. QED BY <2>3 DEF RevokedOK, KeysInOrder
<1>. QED BY <1>1, <1>3, <1>4, <1>5, <1>6, <1>7, <1>8 DEF FaultInv, Core, StoreInv

\* Ticks are whole seconds and a part of one.
LEMMA SecondsAndTicks ==
    ASSUME NEW n \in Nat
    PROVE  /\ n \div TicksPerSec \in Nat
           /\ \E r \in 0 .. TicksPerSec - 1 : n = TicksPerSec * (n \div TicksPerSec) + r
<1>1. TicksPerSec \in Nat \ {0}
  BY ConstantsAssumption
<1>. QED BY <1>1

\* Whole seconds are ordered as the ticks are.
LEMMA WholeSeconds ==
    ASSUME NEW a \in Nat, NEW b \in Nat, a <= b
    PROVE  /\ a \div TicksPerSec \in Nat /\ b \div TicksPerSec \in Nat
           /\ a \div TicksPerSec <= b \div TicksPerSec
<1>1. TicksPerSec \in Nat \ {0}
  BY ConstantsAssumption
<1>. DEFINE q == a \div TicksPerSec
            p == b \div TicksPerSec
<1>2. q \in Nat /\ \E r \in 0 .. TicksPerSec - 1 : a = TicksPerSec * q + r
  BY SecondsAndTicks
<1>3. p \in Nat /\ \E r \in 0 .. TicksPerSec - 1 : b = TicksPerSec * p + r
  BY SecondsAndTicks
<1>. HIDE DEF q, p
<1>4. ASSUME q >= p + 1 PROVE FALSE
  <2>1. TicksPerSec * q >= TicksPerSec * (p + 1)
    BY <1>1, <1>2, <1>3, <1>4
  <2>2. TicksPerSec * (p + 1) = TicksPerSec * p + TicksPerSec
    BY <1>1, <1>3
  <2>. QED BY <1>1, <1>2, <1>3, <2>1, <2>2
<1>. QED BY <1>2, <1>3, <1>4 DEF q, p

\* A clock that is set ahead only ends access tokens sooner.
LEMMA SetClockStep ==
    ASSUME NeverSetBack, FaultInv, SetClock
    PROVE  FaultInv'
<1>1. /\ now' = now /\ minted' = minted /\ secret_file' = secret_file /\ key' = key
      /\ login_at' = login_at /\ issued' = issued /\ rotated' = rotated /\ dead' = dead
      /\ state' = state /\ answer' = NoAnswer
  BY DEF SetClock, history
<1>2. now \in Nat /\ wall \in Nat /\ now <= wall /\ \A a \in minted : a.expires \in Nat
  BY DEF FaultInv, Core, TypeOK, HistoryOK, AccessToken
<1>3. wall' \in Nat /\ wall <= wall'
  BY <1>2, FaultsAssumption DEF SetClock, NeverSetBack
<1>4. UnixNow \in Nat /\ UnixNow' \in Nat /\ UnixNow <= UnixNow'
  BY <1>2, <1>3, WholeSeconds DEF UnixNow
<1>5. TypeOK'
  BY <1>1, <1>3 DEF FaultInv, Core, TypeOK, NoAnswer, Answers
<1>6. StoreInv(state)' /\ KeysInOrder' = KeysInOrder
  BY <1>1 DEF FaultInv, Core, StoreInv, StoreOK, Deadline, KeysInOrder
<1>7. \A a \in minted : Secs(a.expires) \in Nat
  BY <1>2, SecsType
<1>8. MintedOK' /\ HistoryOK'
  <2>1. ASSUME NEW a \in minted
        PROVE  /\ a.family \in DOMAIN login_at
               /\ a.expires <= UnixNow' + access_ttl
               /\ Secs(a.expires) < Deadline(a.family) + Secs(access_ttl) + (wall' - now)
    <3>1. /\ a.family \in DOMAIN login_at
          /\ a.expires <= UnixNow + access_ttl
          /\ Secs(a.expires) < Deadline(a.family) + Secs(access_ttl) + (wall - now)
      BY DEF FaultInv, Core, MintedOK
    <3>2. Deadline(a.family) \in Nat /\ Secs(access_ttl) \in Nat /\ access_ttl \in Nat
      BY <3>1, SecsType, ConstantsAssumption DEF Deadline, FaultInv, Core, TypeOK, IsMap
    <3>. QED BY <1>2, <1>3, <1>4, <1>7, <3>1, <3>2
  <2>2. MintedOK'
    BY <1>1, <2>1 DEF MintedOK, Deadline
  <2>3. HistoryOK'
    BY <1>1, <1>2, <1>3 DEF FaultInv, Core, HistoryOK
  <2>. QED BY <2>2, <2>3
<1>9. RevokedOK(state) => RevokedOK(state)'
  <2>1. ASSUME NEW a \in minted, NEW f \in DOMAIN state.revoked,
               Secs(a.expires) <= state.revoked[f] + (wall - now)
        PROVE  Secs(a.expires) <= state.revoked[f] + (wall' - now)
    <3>1. state.revoked[f] \in Nat
      BY DEF FaultInv, Core, TypeOK, IsState, IsMap
    <3>. QED BY <1>2, <1>3, <1>7, <2>1, <3>1
  <2>2. \A a \in minted : a.expires <= UnixNow => a.expires <= UnixNow'
    BY <1>2, <1>4
  <2>. QED BY <1>1, <2>1, <2>2 DEF RevokedOK
<1>. QED BY <1>1, <1>5, <1>6, <1>8, <1>9 DEF FaultInv, Core, StoreInv

-----------------------------------------------------------------------------
(* The invariant *)

\* A request signs with the key in use, and keeps it.
LEMMA RequestKeys ==
    ASSUME Next
    PROVE  key' = key /\ \A a \in minted' \ minted : a.key = key
<1>1. ASSUME NEW user \in Users, Login(user)
      PROVE  key' = key /\ \A a \in minted' \ minted : a.key = key
  <2>1. key' = key /\ (minted' = minted \/ \E f : minted' = minted \cup {mint_access(f, user)})
    BY <1>1 DEF Login, HandOut
  <2>. QED BY <2>1 DEF mint_access
<1>2. CASE \E t \in Tokens, userExists \in BOOLEAN : Refresh(t, userExists)
  BY <1>2 DEF Refresh, RefreshFull, RefreshUnknown, RefreshRefused, RefreshRotates,
              HandOut, mint_access
<1>3. CASE (\E t \in Tokens : Revoke(t)) \/ Tick
  BY <1>3 DEF Revoke, Tick
<1>. QED BY <1>1, <1>2, <1>3 DEF Next, Request

\* Requests, restarts and clock settings keep the invariant.
LEMMA FaultNextInv ==
    ASSUME NeverSetBack
    PROVE  FaultInv /\ [FaultNext]_fault_vars => FaultInv'
<1>. SUFFICES ASSUME FaultInv, [FaultNext]_fault_vars PROVE FaultInv'
  OBVIOUS
<1>1. CASE Next /\ UNCHANGED <<secret_file, restarts, clock_sets>>
  <2>1. Kept
    BY <1>1, NextKept DEF FaultInv
  <2>2. key' = key /\ \A a \in minted' \ minted : a.key = key
    BY <1>1, RequestKeys
  <2>3. key \in Nat
    BY DEF FaultInv, Core, TypeOK
  <2>4. KeysInOrder => KeysInOrder'
    BY <2>2, <2>3 DEF KeysInOrder
  <2>. QED BY <1>1, <2>1, <2>4 DEF FaultInv, Kept
<1>2. CASE UNCHANGED fault_vars
  <2>1. Kept
    BY <1>2, NextKept DEF FaultInv, fault_vars
  <2>2. KeysInOrder' = KeysInOrder
    BY <1>2 DEF fault_vars, vars, KeysInOrder
  <2>. QED BY <1>2, <2>1, <2>2 DEF FaultInv, Kept, fault_vars
<1>. QED BY <1>1, <1>2, RestartStep, SetClockStep DEF FaultNext

\* The invariant holds however often the router is restarted and its clock set ahead.
THEOREM FaultInvariance ==
    ASSUME NeverSetBack
    PROVE  FaultSpec => []FaultInv
<1>1. FaultInit => FaultInv
  <2>. SUFFICES ASSUME FaultInit PROVE FaultInv
    OBVIOUS
  <2>1. Core /\ RevokedOK(state)
    BY InitInv DEF FaultInit, Inv
  <2>2. KeysInOrder
    BY DEF FaultInit, Init, KeysInOrder
  <2>. QED BY <2>1, <2>2, FaultsAssumption DEF FaultInit, FaultInv
<1>2. FaultInv /\ [FaultNext]_fault_vars => FaultInv'
  BY FaultNextInv
<1>. QED BY <1>1, <1>2, PTL DEF FaultSpec

-----------------------------------------------------------------------------
(* The properties *)

\* Without a secret file, from_args() draws a new key at each start, so that a restart,
\* which forgets the revoked families, brings no token of theirs back to life.
THEOREM RestartsReviveNothing ==
    ASSUME NeverSetBack
    PROVE  FaultSpec => []RestartRevivesNothing
<1>1. ASSUME FaultInv, ~secret_file PROVE RevocationHolds
  <2>1. \A t \in DOMAIN state.refresh : state.refresh[t].family \notin dead
    BY <1>1 DEF FaultInv, Core, StoreInv, StoreOK
  <2>2. ASSUME NEW a \in minted, a.family \in dead, a.key = key PROVE ~verify_access(a)
    <3>1. a.family \in DOMAIN state.revoked \/ a.expires <= UnixNow
      BY <1>1, <2>2 DEF FaultInv, RevokedOK
    <3>2. a.expires \in Nat /\ UnixNow \in Nat
      BY <1>1, UnixNowFacts DEF FaultInv, Core, TypeOK, AccessToken
    <3>. QED BY <3>1, <3>2 DEF verify_access
  <2>. QED BY <2>1, <2>2 DEF RevocationHolds, verify_access
<1>2. FaultInv => RestartRevivesNothing
  BY <1>1 DEF RestartRevivesNothing
<1>. QED BY <1>2, FaultInvariance, PTL

\* With or without a secret file, no login outlives MAX_FAMILY_LIFETIME (and its last
\* access token access_ttl more) over restarts and a clock that is set ahead.
THEOREM LoginsEndOverRestarts ==
    ASSUME NeverSetBack
    PROVE  FaultSpec => []LoginLifetime
<1>1. FaultInv => LoginLifetime
  BY MintedLifetime DEF FaultInv, Core, StoreInv, StoreOK, Deadline, LoginLifetime
<1>. QED BY <1>1, FaultInvariance, PTL

\* What verify_access() asks of a token beside its expiry: only families that were logged
\* out or reused are listed as revoked, and with a secret file every token has the key.
SurviveInv ==
    /\ DOMAIN state.revoked \subseteq dead
    /\ secret_file => \A a \in minted : a.key = key

\* No sweep lists a family as revoked, and neither does an exchange or a new token.
LEMMA RevokedFamilies ==
    ASSUME NEW s, IsState(s)
    PROVE  /\ DOMAIN sweep(s).revoked \subseteq DOMAIN s.revoked
           /\ DOMAIN make_room(s).revoked \subseteq DOMAIN s.revoked
           /\ \A t : Consume(s, t).revoked = s.revoked
           /\ \A t : Retire(s, t).revoked = s.revoked
           /\ \A t, f, u, d : issue(s, t, f, u, d).revoked = s.revoked
           /\ \A t, r, f, u, d : issue(Retire(s, r), t, f, u, d).revoked = s.revoked
           /\ \A f : DOMAIN revoke_family(s, f).revoked = DOMAIN s.revoked \cup {f}
BY DEF IsState, sweep, make_room, force_sweep, Consume, Retire, issue, revoke_family, Insert,
       Restrict

\* A request lists a family as revoked only when it logs it out or finds it reused.
LEMMA RequestRevokes ==
    ASSUME Core, Next
    PROVE  dead \subseteq dead' /\ DOMAIN state'.revoked \subseteq DOMAIN state.revoked \cup dead'
<1>. DEFINE Good == /\ dead \subseteq dead'
                    /\ DOMAIN state'.revoked \subseteq DOMAIN state.revoked \cup dead'
<1>0. IsState(state)
  BY DEF Core, StoreInv
<1>1. ASSUME NEW user \in Users, Login(user) PROVE Good
  <2>. DEFINE s == make_room(state)
  <2>1. IsState(s) /\ DOMAIN s.revoked \subseteq DOMAIN state.revoked
    BY <1>0, MakeRoomInv, RevokedFamilies DEF Core, Keeps, StoreInv
  <2>. HIDE DEF s
  <2>2. /\ dead' = dead
        /\ \/ state' \in {state, s}
           \/ \E t, f, d : state' = issue(s, t, f, user, d)
    BY <1>1 DEF Login, s
  <2>. QED BY <2>1, <2>2, RevokedFamilies
<1>2. ASSUME NEW t \in Tokens, NEW userExists \in BOOLEAN, Refresh(t, userExists) PROVE Good
  <2>. DEFINE s == make_room(sweep(state))
  <2>1. IsState(sweep(state))
    BY SweepInv DEF Core, Keeps, StoreInv
  <2>2. IsState(s) /\ DOMAIN s.revoked \subseteq DOMAIN state.revoked
    BY <1>0, <2>1, SweptInv, RevokedFamilies DEF Core, StoreInv
  <2>3. \/ RefreshFull(t, s) \/ RefreshUnknown(t, s)
        \/ RefreshRefused(t, s, userExists) \/ RefreshRotates(t, s, userExists)
    BY <1>2 DEF Refresh
  <2>. HIDE DEF s
  <2>4. CASE RefreshUnknown(t, s)
    <3>1. \/ state' = s /\ dead' = dead
          \/ \E f : state' = revoke_family(s, f) /\ dead' = dead \cup {f}
      BY <2>4 DEF RefreshUnknown
    <3>. QED BY <2>2, <3>1, RevokedFamilies
  <2>5. CASE RefreshFull(t, s) \/ RefreshRefused(t, s, userExists)
    <3>1. dead' = dead /\ state' \in {s, Consume(s, t)}
      BY <2>5 DEF RefreshFull, RefreshRefused, history
    <3>. QED BY <2>2, <3>1, RevokedFamilies
  <2>6. CASE RefreshRotates(t, s, userExists)
    <3>1. /\ dead' = dead
          /\ \/ state' = Retire(s, t)
             \/ \E new, f, u, d : state' = issue(Retire(s, t), new, f, u, d)
      BY <2>6 DEF RefreshRotates
    <3>. QED BY <2>2, <3>1, RevokedFamilies
  <2>. QED BY <2>3, <2>4, <2>5, <2>6
<1>3. ASSUME NEW t \in Tokens, Revoke(t) PROVE Good
  <2>1. \/ state' = state /\ dead' = dead
        \/ \E f : state' = revoke_family(state, f) /\ dead' = dead \cup {f}
    BY <1>3 DEF Revoke
  <2>. QED BY <1>0, <2>1, RevokedFamilies
<1>4. CASE Tick
  BY <1>4 DEF Tick, history
<1>. QED BY <1>1, <1>2, <1>3, <1>4 DEF Next, Request

\* load_secret() returns the same key at every start and no revocation is made up: with a
\* secret file, an access token works until it expires unless its login was revoked.
THEOREM TokensSurvive ==
    ASSUME NeverSetBack
    PROVE  FaultSpec => []TokensSurviveRestarts
<1>1. FaultInit => SurviveInv
  BY DEF FaultInit, Init, SurviveInv, EmptyMap
<1>2. FaultInv /\ SurviveInv /\ [FaultNext]_fault_vars => SurviveInv'
  <2>. SUFFICES ASSUME FaultInv, SurviveInv, [FaultNext]_fault_vars PROVE SurviveInv'
    OBVIOUS
  <2>1. CASE Next /\ UNCHANGED <<secret_file, restarts, clock_sets>>
    <3>1. dead \subseteq dead' /\ DOMAIN state'.revoked \subseteq DOMAIN state.revoked \cup dead'
      BY <2>1, RequestRevokes DEF FaultInv
    <3>2. key' = key /\ \A a \in minted' \ minted : a.key = key
      BY <2>1, RequestKeys
    <3>3. DOMAIN state'.revoked \subseteq dead'
      BY <3>1 DEF SurviveInv
    <3>4. secret_file' => \A a \in minted' : a.key = key'
      BY <2>1, <3>2 DEF SurviveInv
    <3>. QED BY <3>3, <3>4 DEF SurviveInv
  <2>2. CASE Restart
    BY <2>2 DEF Restart, EmptyState, EmptyMap, NewKey, SurviveInv, history
  <2>3. CASE SetClock
    BY <2>3 DEF SetClock, SurviveInv, history
  <2>4. CASE UNCHANGED fault_vars
    BY <2>4 DEF fault_vars, vars, history, SurviveInv
  <2>. QED BY <2>1, <2>2, <2>3, <2>4 DEF FaultNext
<1>3. SurviveInv => TokensSurviveRestarts
  BY DEF SurviveInv, TokensSurviveRestarts, verify_access
<1>. QED BY <1>1, <1>2, <1>3, FaultInvariance, PTL DEF FaultSpec

\* What is promised of refresh tokens survives restarts: the store is bounded, a login has
\* one live token, and one that was exchanged is never live again.
THEOREM RefreshTokensOverRestarts ==
    ASSUME NeverSetBack
    PROVE  FaultSpec => [](StoreBounded /\ OneLivePerFamily /\ SingleUse)
<1>1. FaultInv => StoreBounded /\ OneLivePerFamily /\ SingleUse
  BY DEF FaultInv, Core, StoreInv, StoreOK, Bounded, StoreBounded, OneLivePerFamily, SingleUse
<1>. QED BY <1>1, FaultInvariance, PTL
=============================================================================
