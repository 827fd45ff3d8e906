----------------------------- MODULE GatewayProofs -----------------------------
(***************************************************************************)
(* Proofs about Gateway: the token service and the credentials behind the  *)
(* router's requests, for every value of the constants.                    *)
(*                                                                         *)
(* A request does to the token service what login(), refresh() or revoke() *)
(* does, or nothing, and a poll of the files is a step of AuthConfig alone *)
(* (GatewayStep).  So the invariants of both components hold side by side, *)
(* and what a request may do follows from them.                            *)
(***************************************************************************)
EXTENDS Gateway, TokenServiceProofs

-----------------------------------------------------------------------------
(* The credentials (AuthConfig), for any files and any number of writes *)

\* OneWholeVersion is inductive once "versions" is known to hold the content the file has
\* now: a poll can only take over that content.
AuthInv ==
    /\ AuthTypeOK
    /\ auth_file \in versions
    /\ OneWholeVersion

\* A credentials file that loads is valid as a whole and is taken over as it is.
LEMMA LoadFacts ==
    ASSUME NEW file
    PROVE  load_auth_file(file) # NoFile =>
               Loadable(file, Credentials) /\ load_auth_file(file) = file
BY DEF load_auth_file

\* What an anonymous target file adds are normalised addresses.
LEMMA TargetFacts ==
    ASSUME NEW file
    PROVE  load_anonymous_target_file(file) # NoFile =>
               load_anonymous_target_file(file) \subseteq {Addr(line) : line \in TargetLines}
BY DEF load_anonymous_target_file, Loadable

\* build_auth_config() starts the router with one whole valid file.
LEMMA AuthInitInv == AuthInit => AuthInv
<1>. SUFFICES ASSUME AuthInit PROVE AuthInv
  OBVIOUS
<1>1. Loadable(auth_file, Credentials) /\ load_auth_file(auth_file) = auth_file
  BY LoadFacts DEF AuthInit
<1>2. auth_file \in AuthFiles /\ target_file \in TargetFiles
  BY DEF AuthInit, AuthFiles, TargetFiles
<1>3. anonymous_targets \subseteq {Addr(line) : line \in TargetLines}
  <2>1. load_anonymous_target_file(target_file) \subseteq {Addr(line) : line \in TargetLines}
    BY TargetFacts DEF AuthInit
  <2>2. fixed_anonymous_targets \subseteq {Addr(line) : line \in TargetLines}
    BY AuthAssumption DEF fixed_anonymous_targets
  <2>. QED BY <2>1, <2>2 DEF AuthInit
<1>4. OneWholeVersion
  BY <1>1 DEF AuthInit, OneWholeVersion
<1>5. expected \subseteq Credentials
  BY <1>1, AuthAssumption DEF AuthInit, Loadable
<1>. QED BY <1>2, <1>3, <1>4, <1>5, AuthAssumption DEF AuthInit, AuthInv, AuthTypeOK

\* No poll and no write of a file disturbs the invariant.
LEMMA AuthNextInv == AuthInv /\ [AuthNext]_auth_vars => AuthInv'
<1>. SUFFICES ASSUME AuthInv, [AuthNext]_auth_vars PROVE AuthInv'
  OBVIOUS
<1>1. CASE reload_auth_file
  <2>1. /\ UNCHANGED <<auth_file, target_file, anonymous_targets, writes, versions>>
        /\ \/ expected' = expected
           \/ /\ load_auth_file(auth_file) # NoFile
              /\ expected' = FixedAuthorizations \cup load_auth_file(auth_file)
              /\ expected' # {}
    BY <1>1 DEF reload_auth_file
  <2>2. CASE expected' = expected
    BY <2>1, <2>2 DEF AuthInv, AuthTypeOK, OneWholeVersion
  <2>3. CASE /\ load_auth_file(auth_file) # NoFile
             /\ expected' = FixedAuthorizations \cup load_auth_file(auth_file)
             /\ expected' # {}
    <3>1. Loadable(auth_file, Credentials) /\ expected' = FixedAuthorizations \cup auth_file
      BY <2>3, LoadFacts
    <3>2. expected' \subseteq Credentials
      BY <3>1, AuthAssumption DEF Loadable
    <3>3. OneWholeVersion'
      BY <2>1, <2>3, <3>1 DEF OneWholeVersion, AuthInv
    <3>. QED BY <2>1, <3>2, <3>3 DEF AuthInv, AuthTypeOK
  <2>. QED BY <2>1, <2>2, <2>3
<1>2. CASE reload_anonymous_target_file
  <2>1. /\ UNCHANGED <<auth_file, target_file, expected, writes, versions>>
        /\ \/ anonymous_targets' = anonymous_targets
           \/ /\ load_anonymous_target_file(target_file) # NoFile
              /\ anonymous_targets' = fixed_anonymous_targets
                                      \cup load_anonymous_target_file(target_file)
    BY <1>2 DEF reload_anonymous_target_file
  <2>2. fixed_anonymous_targets \subseteq {Addr(line) : line \in TargetLines}
    BY AuthAssumption DEF fixed_anonymous_targets
  <2>3. anonymous_targets' \subseteq {Addr(line) : line \in TargetLines}
    BY <2>1, <2>2, TargetFacts DEF AuthInv, AuthTypeOK
  <2>. QED BY <2>1, <2>3 DEF AuthInv, AuthTypeOK, OneWholeVersion
<1>3. CASE WriteAuthFile
  <2>1. auth_file' \in AuthFiles /\ versions' = versions \cup {auth_file'}
    BY <1>3 DEF WriteAuthFile
  <2>2. writes' \in 0 .. MaxWrites
    BY <1>3, AuthAssumption DEF WriteAuthFile, AuthInv, AuthTypeOK
  <2>. QED BY <1>3, <2>1, <2>2 DEF WriteAuthFile, AuthInv, AuthTypeOK, OneWholeVersion
<1>4. CASE WriteTargetFile
  <2>1. target_file' \in TargetFiles
    BY <1>4 DEF WriteTargetFile
  <2>2. writes' \in 0 .. MaxWrites
    BY <1>4, AuthAssumption DEF WriteTargetFile, AuthInv, AuthTypeOK
  <2>. QED BY <1>4, <2>1, <2>2 DEF WriteTargetFile, AuthInv, AuthTypeOK, OneWholeVersion
<1>5. CASE UNCHANGED auth_vars
  BY <1>5 DEF auth_vars, AuthInv, AuthTypeOK, OneWholeVersion
<1>. QED BY <1>1, <1>2, <1>3, <1>4, <1>5 DEF AuthNext

\* What is in effect has the types of its maps, and the anonymous targets in effect are
\* normalised addresses, wherever they came from (auth.rs:83-115, 359-372).
THEOREM AuthTypes == AuthSpec => []AuthTypeOK
<1>1. AuthInv => AuthTypeOK
  BY DEF AuthInv
<1>. QED BY <1>1, AuthInitInv, AuthNextInv, PTL DEF AuthSpec

\* Whatever is written to the files and whenever they are polled, the credentials in effect
\* are the fixed ones plus one whole valid version of the file, and never none: this is
\* what reload_auth_file() keeps by refusing a bad or an empty list as a whole.
THEOREM CredentialsAreOneVersion == AuthSpec => []OneWholeVersion
<1>1. AuthInv => OneWholeVersion
  BY DEF AuthInv
<1>. QED BY <1>1, AuthInitInv, AuthNextInv, PTL DEF AuthSpec

-----------------------------------------------------------------------------
(* The router *)

GatewayInv == Inv /\ AuthInv

-----------------------------------------------------------------------------
(* The two components side by side *)

\* A step that only forgets the last answer.
LEMMA AnswerStep ==
    ASSUME Inv, answer' \in Answers, UNCHANGED <<state, key, clocks, minted, history>>
    PROVE  Inv'
<1>1. /\ Keeps(state, state') /\ key' = key /\ UNCHANGED clocks
      /\ UNCHANGED minted /\ UNCHANGED history
  BY DEF Inv, Core, Keeps
<1>. QED BY <1>1, StoreStep DEF Inv, Kept

\* A credential that is in effect names a user.
LEMMA UserFacts ==
    ASSUME AuthInv, NEW credential, basic_user(credential)
    PROVE  credential.user \in Users /\ has_user(credential.user)
BY GatewayAssumption DEF basic_user, has_user, AuthInv, AuthTypeOK

\* Nothing but the last answer changes for the token service.
Quiet == answer' = NoAnswer /\ UNCHANGED <<state, key, clocks, minted, history>>

\* The steps of the token service that a request or the clock can take.
TokenStep ==
    \/ \E user \in Users : Login(user)
    \/ \E t \in Tokens, userExists \in BOOLEAN : Refresh(t, userExists)
    \/ \E t \in Tokens : Revoke(t)
    \/ Tick
    \/ Quiet

\* Every request, poll and tick is a step of one of the two components, or of none.
LEMMA GatewaySteps ==
    ASSUME GatewayInv, GatewayNext
    PROVE  TokenStep /\ [AuthNext]_auth_vars
<1>1. ASSUME NEW header \in Headers, PostToken(header)
      PROVE  TokenStep /\ [AuthNext]_auth_vars
  BY <1>1, UserFacts DEF PostToken, TokenStep, Quiet, GatewayInv
<1>2. ASSUME NEW header \in Headers, HealthCheck(header)
      PROVE  TokenStep /\ [AuthNext]_auth_vars
  BY <1>2 DEF HealthCheck, TokenStep, Quiet
<1>3. ASSUME NEW t \in Tokens, PostRefresh(t)
      PROVE  TokenStep /\ [AuthNext]_auth_vars
  <2>1. RecordUserExists(t) \in BOOLEAN
    BY DEF RecordUserExists, has_user
  <2>. QED BY <1>3, <2>1 DEF PostRefresh, TokenStep, Quiet
<1>4. ASSUME NEW t \in Tokens, PostRevoke(t)
      PROVE  TokenStep /\ [AuthNext]_auth_vars
  BY <1>4 DEF PostRevoke, TokenStep, Quiet
<1>5. CASE AuthRefused
  BY <1>5 DEF AuthRefused, TokenStep, Quiet
<1>6. ASSUME NEW line \in Paths, NEW header \in Headers, Handshake(line, header)
      PROVE  TokenStep /\ [AuthNext]_auth_vars
  BY <1>6 DEF Handshake, TokenStep, Quiet
<1>7. ASSUME NEW tunnel \in tunnels, CloseTunnel(tunnel)
      PROVE  TokenStep /\ [AuthNext]_auth_vars
  BY <1>7 DEF CloseTunnel, TokenStep, Quiet
<1>8. ASSUME NEW tunnel \in tunnels, ConnectTunnel(tunnel)
      PROVE  TokenStep /\ [AuthNext]_auth_vars
  BY <1>8 DEF ConnectTunnel, TokenStep, Quiet
<1>9. CASE TimePasses
  BY <1>9 DEF TimePasses, TokenStep, Quiet
<1>10. CASE FilesMove
  BY <1>10 DEF FilesMove, TokenStep, Quiet
<1>. QED
  BY <1>1, <1>2, <1>3, <1>4, <1>5, <1>6, <1>7, <1>8, <1>9, <1>10 DEF GatewayNext

\* The invariants of the two components hold side by side.
LEMMA GatewayNextInv == GatewayInv /\ [GatewayNext]_all_vars => GatewayInv'
<1>. SUFFICES ASSUME GatewayInv, [GatewayNext]_all_vars PROVE GatewayInv'
  OBVIOUS
<1>1. CASE GatewayNext
  <2>1. TokenStep /\ [AuthNext]_auth_vars
    BY <1>1, GatewaySteps
  <2>2. NoAnswer \in Answers
    BY DEF NoAnswer, Answers
  <2>3. Inv'
    BY <2>1, <2>2, LoginStep, RefreshStep, RevokeStep, TickStep, AnswerStep
    DEF TokenStep, Quiet, GatewayInv, Inv, Kept
  <2>. QED BY <2>1, <2>3, AuthNextInv DEF GatewayInv
<1>2. CASE UNCHANGED all_vars
  BY <1>2, NextInv, AuthNextInv DEF all_vars, GatewayInv
<1>. QED BY <1>1, <1>2

\* The token service keeps its invariant behind the requests, and so do the credentials.
THEOREM GatewayInvariance == GatewaySpec => []GatewayInv
<1>1. GatewayInit => GatewayInv
  BY InitInv, AuthInitInv DEF GatewayInit, GatewayInv
<1>. QED BY <1>1, GatewayNextInv, PTL DEF GatewaySpec

-----------------------------------------------------------------------------
(* What the components promise, behind the requests *)

\* So to the token service a step of the router is one of its own, or a quiet one.
LEMMA RouterStep ==
    ASSUME GatewayInv, [GatewayNext]_all_vars
    PROVE  [Next]_vars \/ Quiet
<1>1. CASE GatewayNext
  BY <1>1, GatewaySteps DEF TokenStep, Quiet, Next, Request
<1>2. CASE UNCHANGED all_vars
  BY <1>2 DEF all_vars
<1>. QED BY <1>1, <1>2

\* Whatever mix of requests, polls of the files and edits of them the router sees, the store
\* is bounded, a login has one live refresh token, a rotated one is never live again, what a
\* logout or a reuse revoked stays revoked, no login outlives its deadline, and the
\* credentials are one whole version of the file (token_api.rs:36-124, auth.rs:83-115).
THEOREM PromisesBehindRequests ==
    GatewaySpec => [](/\ StoreBounded /\ OneLivePerFamily /\ SingleUse /\ RevocationHolds
                      /\ LoginLifetime /\ OneWholeVersion)
<1>1. GatewayInv => StoreBounded /\ OneLivePerFamily /\ SingleUse
  BY DEF GatewayInv, Inv, Core, StoreInv, Bounded, StoreBounded, StoreOK, OneLivePerFamily,
         SingleUse
<1>2. GatewayInv => RevocationHolds /\ LoginLifetime
  BY InvRevocation, InvLifetime DEF GatewayInv
<1>3. GatewayInv => OneWholeVersion
  BY DEF GatewayInv, AuthInv
<1>. QED BY <1>1, <1>2, <1>3, GatewayInvariance, PTL

\* Behind the router's requests the token service still implements Sessions: no endpoint
\* does more to the logins than one call of login(), refresh() or revoke() does.
THEOREM RouterKeepsSessions == GatewaySpec => ImplementsSessions
<1>1. GatewayInit => Logins!SessionInit
  BY SessionInitStep DEF GatewayInit
<1>2. GatewayInv /\ [GatewayNext]_all_vars => [Logins!SessionNext]_(Logins!session_vars)
  <2>. SUFFICES ASSUME GatewayInv, [GatewayNext]_all_vars
                PROVE  [Logins!SessionNext]_(Logins!session_vars)
    OBVIOUS
  <2>1. CASE [Next]_vars
    BY <2>1, SessionStep DEF GatewayInv
  <2>2. CASE Quiet
    <3>1. UNCHANGED <<state, now, login_at, issued>>
      BY <2>2 DEF Quiet, clocks, history
    <3>2. \A f \in DOMAIN login_at : WorksIn(state', f) = WorksIn(state, f)
      BY <3>1
    <3>. QED BY <3>1, <3>2, StutterStep
  <2>. QED BY <2>1, <2>2, RouterStep
<1>. QED
  BY <1>1, <1>2, GatewayInvariance, PTL
  DEF GatewaySpec, ImplementsSessions, Logins!SessionSpec

\* A rotated refresh token that is presented to POST /auth/refresh ends its login unless the
\* store is full, whether or not the user is still listed (token_api.rs:89-112).
THEOREM RouterDetectsReuse == GatewaySpec => ReuseDetected
<1>1. GatewayInv /\ [GatewayNext]_all_vars
      => [\A t \in DOMAIN issued :
              Replayed(t) => \/ issued[t].family \in dead'
                             \/ answer'.outcome = "Full"]_vars
  <2>. SUFFICES ASSUME GatewayInv, [GatewayNext]_all_vars, ~UNCHANGED vars,
                       NEW t \in DOMAIN issued, Replayed(t)
                PROVE  issued[t].family \in dead' \/ answer'.outcome = "Full"
    OBVIOUS
  <2>1. ~Quiet
    BY DEF Quiet, Replayed, NoAnswer
  <2>. QED BY <2>1, RouterStep, ReuseStep DEF GatewayInv
<1>. QED BY <1>1, GatewayInvariance, PTL DEF GatewaySpec, ReuseDetected

\* No request costs another login its refresh token: it is lost to a request that presents a
\* token of its own login, and not to one that is answered 503 or, for a logout, is unknown.
THEOREM RouterKeepsLoginsApart == GatewaySpec => OnlyItsLoginEndsIt
<1>1. GatewayInv /\ [GatewayNext]_all_vars
      => [\A t \in DOMAIN state.refresh \ DOMAIN state'.refresh :
              Unexpired(state.refresh[t]) =>
                  /\ answer'.token \in DOMAIN issued
                  /\ issued[answer'.token].family = state.refresh[t].family
                  /\ answer'.outcome \notin {"Full", "Unknown"}]_vars
  <2>. SUFFICES ASSUME GatewayInv, [GatewayNext]_all_vars, ~UNCHANGED vars,
                       NEW t \in DOMAIN state.refresh \ DOMAIN state'.refresh,
                       Unexpired(state.refresh[t])
                PROVE  /\ answer'.token \in DOMAIN issued
                       /\ issued[answer'.token].family = state.refresh[t].family
                       /\ answer'.outcome \notin {"Full", "Unknown"}
    OBVIOUS
  <2>1. ~Quiet
    BY DEF Quiet
  <2>. QED BY <2>1, RouterStep, LossStep DEF GatewayInv
<1>. QED BY <1>1, GatewayInvariance, PTL DEF GatewaySpec, OnlyItsLoginEndsIt

-----------------------------------------------------------------------------
(* Tunnels *)

\* Whoever is let through to a target that needs credentials is a user, with a token of a
\* login that is neither dead nor over, or with a credential in effect; and no tunnel opens
\* for anything else than what was let through, though the world moves on in between
\* (proxy.rs:100-165).
THEOREM EntitledTunnels == GatewaySpec => TunnelsAreEntitled
<1>. DEFINE Accepted(tunnel) ==
              \/ tunnel.stage = "connecting" /\ Entitled(tunnel)
              \/ \E accepted \in tunnels :
                    /\ accepted.stage = "connecting"
                    /\ tunnel = [accepted EXCEPT !.stage = "open"]
<1>1. ASSUME GatewayInv, NEW tunnel \in tunnels' \ tunnels,
             NEW line \in Paths, NEW header \in Headers, Handshake(line, header)
      PROVE  tunnel.stage = "connecting" /\ Entitled(tunnel)
  <2>2. /\ Authorized(line, header) /\ line \in TargetLines
        /\ tunnel = [user |-> authorize_request(line, header), addr |-> Addr(line),
                     login |-> LoginOf(line, header), stage |-> "connecting"]
    BY <1>1 DEF Handshake
  <2>3. CASE allows_anonymous_target(line)
    BY <2>2, <2>3 DEF allows_anonymous_target, authorize_request, Entitled
  <2>4. CASE ~allows_anonymous_target(line) /\ IsBearer(header)
    <3>. DEFINE a == header.bearer
    <3>1. a \in minted /\ ~IsBasic(header)
      BY <2>4 DEF Headers, IsBearer, IsBasic
    <3>2. verify_access(a) /\ has_user(a.user)
      BY <2>2, <2>4, <3>1 DEF Authorized, verify_access_token
    <3>3. tunnel.user = a.user /\ tunnel.login = {a.family}
      BY <2>2, <2>4 DEF authorize_request, LoginOf
    <3>4. a.family \notin dead
      BY <1>1, <3>1, <3>2, InvRevocation DEF GatewayInv, RevocationHolds
    <3>5. now < login_at[a.family] + Secs(MAX_FAMILY_LIFETIME) + Secs(access_ttl)
      BY <1>1, <3>1, <3>2, MintedLifetime DEF GatewayInv, Inv, Core
    <3>. HIDE DEF a
    <3>. QED BY <2>2, <3>2, <3>3, <3>4, <3>5 DEF Entitled
  <2>5. CASE ~allows_anonymous_target(line) /\ ~IsBearer(header)
    <3>1. IsBasic(header) /\ basic_user(header.basic)
      BY <2>2, <2>5 DEF Authorized
    <3>2. tunnel.user = header.basic.user /\ tunnel.login = {}
      BY <2>2, <2>5 DEF authorize_request, LoginOf
    <3>3. has_user(header.basic.user)
      BY <1>1, <3>1, UserFacts DEF GatewayInv
    <3>. QED BY <2>2, <3>2, <3>3 DEF Entitled
  <2>. QED BY <2>3, <2>4, <2>5
<1>2. ASSUME NEW tunnel \in tunnels' \ tunnels, NEW old \in tunnels, ConnectTunnel(old)
      PROVE  old.stage = "connecting" /\ tunnel = [old EXCEPT !.stage = "open"]
  BY <1>2 DEF ConnectTunnel
<1>3. GatewayInv /\ [GatewayNext]_all_vars
      => [\A tunnel \in tunnels' \ tunnels : Accepted(tunnel)]_all_vars
  BY <1>1, <1>2
  DEF GatewayNext, PostToken, HealthCheck, PostRefresh, PostRevoke, AuthRefused,
      CloseTunnel, TimePasses, FilesMove
<1>. QED BY <1>3, GatewayInvariance, PTL DEF GatewaySpec, TunnelsAreEntitled

-----------------------------------------------------------------------------
(* Tokens *)

\* sweep() and make_room() add no refresh token and change none.
LEMMA SweepDomain ==
    ASSUME NEW s
    PROVE  /\ DOMAIN make_room(s).refresh \subseteq DOMAIN s.refresh
           /\ \A t \in DOMAIN make_room(s).refresh : make_room(s).refresh[t] = s.refresh[t]
           /\ DOMAIN sweep(s).refresh \subseteq DOMAIN s.refresh
           /\ \A t \in DOMAIN sweep(s).refresh : sweep(s).refresh[t] = s.refresh[t]
BY DEF make_room, sweep, force_sweep, Restrict

\* What issue() records for the new token, and that it leaves the others.
LEMMA IssueRecord ==
    ASSUME NEW s, IsState(s), NEW t, NEW family, NEW user, NEW deadline
    PROVE  /\ issue(s, t, family, user, deadline).refresh[t].user = user
           /\ DOMAIN issue(s, t, family, user, deadline).refresh = DOMAIN s.refresh \cup {t}
BY DEF IsState, issue, Insert

\* The live tokens after a refresh: those of before, without the presented one or the
\* revoked login, and the new one, which has the user of the presented one.
LEMMA RefreshLive ==
    ASSUME Inv, NEW t \in Tokens, NEW userExists \in BOOLEAN, Refresh(t, userExists)
    PROVE  \/ /\ issued' = issued
              /\ DOMAIN state'.refresh \subseteq DOMAIN state.refresh
              /\ answer'.token = t
              /\ answer'.outcome \in {"Invalid", "Reused"} => t \notin DOMAIN state'.refresh
           \/ /\ userExists /\ t \in DOMAIN state.refresh
              /\ answer'.outcome = "Ok" /\ answer'.token = t
              /\ \E new \in FreshTokens :
                    /\ DOMAIN issued' = DOMAIN issued \cup {new}
                    /\ DOMAIN state'.refresh \subseteq DOMAIN state.refresh \cup {new}
                    /\ state'.refresh[new].user = state.refresh[t].user
<1>. DEFINE s == make_room(sweep(state))
<1>1. StoreInv(s) /\ IsState(s)
  BY SweptInv DEF Inv, StoreInv
<1>2. /\ DOMAIN s.refresh \subseteq DOMAIN state.refresh
      /\ \A h \in DOMAIN s.refresh : s.refresh[h] = state.refresh[h]
  BY SweepDomain
<1>3. \/ RefreshFull(t, s) \/ RefreshUnknown(t, s)
      \/ RefreshRefused(t, s, userExists) \/ RefreshRotates(t, s, userExists)
  BY DEF Refresh
<1>. HIDE DEF s
<1>4. CASE RefreshFull(t, s)
  BY <1>2, <1>4 DEF RefreshFull, Answer, history
<1>5. CASE RefreshUnknown(t, s)
  <2>1. /\ issued' = issued /\ t \notin DOMAIN s.refresh /\ answer'.token = t
        /\ state' = s \/ \E f : state' = revoke_family(s, f)
    BY <1>5 DEF RefreshUnknown, Answer
  <2>2. \A f : DOMAIN revoke_family(s, f).refresh \subseteq DOMAIN s.refresh
    BY <1>1 DEF revoke_family, Restrict, IsState
  <2>. QED BY <1>2, <2>1, <2>2
<1>6. CASE RefreshRefused(t, s, userExists)
  <2>1. issued' = issued /\ state' = Consume(s, t) /\ answer'.token = t
    BY <1>6 DEF RefreshRefused, Answer, history
  <2>2. DOMAIN state'.refresh = DOMAIN s.refresh \ {t}
    BY <1>1, <2>1, ConsumeType
  <2>. QED BY <1>2, <2>1, <2>2
<1>7. CASE RefreshRotates(t, s, userExists)
  <2>1. ~IsFull(s) /\ t \in DOMAIN s.refresh /\ userExists
    BY <1>7 DEF RefreshRotates
  <2>2. IsState(Retire(s, t)) /\ DOMAIN Retire(s, t).refresh = DOMAIN s.refresh \ {t}
    BY <1>1, <2>1, RetireType
  <2>3. CASE state' = Retire(s, t) /\ issued' = issued
             /\ answer' = [op |-> "refresh", token |-> t, outcome |-> "Random"]
    BY <1>2, <2>2, <2>3
  <2>4. ASSUME NEW new \in FreshTokens,
               state' = issue(Retire(s, t), new, s.refresh[t].family, s.refresh[t].user,
                              s.refresh[t].family_deadline),
               HandOut(new, s.refresh[t].family, s.refresh[t].user,
                       s.refresh[t].family_deadline)
        PROVE  /\ DOMAIN issued' = DOMAIN issued \cup {new}
               /\ DOMAIN state'.refresh \subseteq DOMAIN state.refresh \cup {new}
               /\ state'.refresh[new].user = state.refresh[t].user
    <3>1. DOMAIN issued' = DOMAIN issued \cup {new}
      BY <2>4 DEF HandOut, Insert
    <3>2. /\ DOMAIN state'.refresh = (DOMAIN s.refresh \ {t}) \cup {new}
          /\ state'.refresh[new].user = s.refresh[t].user
      BY <2>2, <2>4, IssueRecord
    <3>. QED BY <1>2, <2>1, <3>1, <3>2
  <2>. QED BY <1>2, <1>7, <2>1, <2>3, <2>4 DEF RefreshRotates, Answer
<1>. QED BY <1>3, <1>4, <1>5, <1>6, <1>7

\* The live tokens after a login: those of before, fewer after a sweep, and the new one.
LEMMA LoginLive ==
    ASSUME Inv, NEW user \in Users, Login(user)
    PROVE  \/ /\ issued' = issued
              /\ DOMAIN state'.refresh \subseteq DOMAIN state.refresh
           \/ \E new \in FreshTokens :
                 /\ DOMAIN issued' = DOMAIN issued \cup {new}
                 /\ DOMAIN state'.refresh \subseteq DOMAIN state.refresh \cup {new}
                 /\ state'.refresh[new].user = user
<1>. DEFINE s == make_room(state)
<1>1. IsState(s) /\ DOMAIN s.refresh \subseteq DOMAIN state.refresh
  BY MakeRoomInv, SweepDomain DEF Inv, Core, Keeps, StoreInv
<1>. HIDE DEF s
<1>2. CASE state' \in {state, s} /\ issued' = issued
  BY <1>1, <1>2
<1>3. ASSUME NEW family, NEW new \in FreshTokens, NEW deadline,
             state' = issue(s, new, family, user, deadline),
             HandOut(new, family, user, deadline)
      PROVE  /\ DOMAIN issued' = DOMAIN issued \cup {new}
             /\ DOMAIN state'.refresh \subseteq DOMAIN state.refresh \cup {new}
             /\ state'.refresh[new].user = user
  <2>1. DOMAIN issued' = DOMAIN issued \cup {new}
    BY <1>3 DEF HandOut, Insert
  <2>. QED BY <1>1, <1>3, <2>1, IssueRecord
<1>. QED BY <1>2, <1>3 DEF Login, s

\* No request hands out a token but POST /auth/token with a credential in effect and POST
\* /auth/refresh with a token whose user is still listed.
THEOREM ListedUsersOnly == GatewaySpec => OnlyListedUsersGetTokens
<1>1. ASSUME GatewayInv, GatewayNext, NEW t \in DOMAIN issued' \ DOMAIN issued
      PROVE  has_user(state'.refresh[t].user)
  <2>1. ASSUME NEW header \in Headers, PostToken(header)
        PROVE  has_user(state'.refresh[t].user)
    <3>1. basic_user(header.basic) /\ Login(header.basic.user)
      BY <1>1, <2>1 DEF PostToken, history
    <3>2. header.basic.user \in Users /\ has_user(header.basic.user)
      BY <1>1, <3>1, UserFacts DEF GatewayInv
    <3>. QED BY <1>1, <3>1, <3>2, LoginLive DEF GatewayInv
  <2>2. ASSUME NEW h \in Tokens, PostRefresh(h)
        PROVE  has_user(state'.refresh[t].user)
    <3>1. RecordUserExists(h) \in BOOLEAN
      BY DEF RecordUserExists, has_user
    <3>2. Refresh(h, RecordUserExists(h))
      BY <2>2 DEF PostRefresh
    <3>3. /\ RecordUserExists(h) /\ h \in DOMAIN state.refresh
          /\ state'.refresh[t].user = state.refresh[h].user
      BY <1>1, <3>1, <3>2, RefreshLive DEF GatewayInv
    <3>. QED BY <3>3 DEF RecordUserExists
  <2>. QED
    BY <1>1, <2>1, <2>2
    DEF GatewayNext, HealthCheck, PostRevoke, Revoke, AuthRefused, Handshake,
        ConnectTunnel, CloseTunnel, TimePasses, Tick, FilesMove, history
<1>2. GatewayInv /\ [GatewayNext]_all_vars
      => [\A t \in DOMAIN issued' \ DOMAIN issued :
              has_user(state'.refresh[t].user)]_all_vars
  BY <1>1
<1>. QED BY <1>2, GatewayInvariance, PTL DEF GatewaySpec, OnlyListedUsersGetTokens

\* A refresh answered 401 leaves the client without a live token, and no request brings
\* an old token back to life.
THEOREM RefusalsAreFinal == GatewaySpec => RefusalIsFinal
<1>. DEFINE Final ==
              /\ status' = 401 /\ answer'.op = "refresh"
                    => answer'.token \notin DOMAIN state'.refresh
              /\ DOMAIN issued \cap DOMAIN state'.refresh \subseteq DOMAIN state.refresh
<1>1. ASSUME GatewayInv, GatewayNext
      PROVE  Final
  <2>1. ASSUME NEW header \in Headers, PostToken(header)
        PROVE  Final
    <3>1. CASE basic_user(header.basic) /\ Login(header.basic.user)
      <4>1. header.basic.user \in Users
        BY <1>1, <3>1, UserFacts DEF GatewayInv
      <4>2. answer'.op = "login"
        BY <3>1 DEF Login, Answer
      <4>3. DOMAIN issued \cap DOMAIN state'.refresh \subseteq DOMAIN state.refresh
        BY <1>1, <3>1, <4>1, LoginLive DEF GatewayInv, FreshTokens
      <4>. QED BY <4>2, <4>3
    <3>2. CASE answer' = NoAnswer /\ state' = state
      BY <3>2 DEF NoAnswer
    <3>. QED BY <2>1, <3>1, <3>2 DEF PostToken
  <2>2. ASSUME NEW h \in Tokens, PostRefresh(h)
        PROVE  Final
    <3>1. RecordUserExists(h) \in BOOLEAN
      BY DEF RecordUserExists, has_user
    <3>2. /\ Refresh(h, RecordUserExists(h))
          /\ status' = HttpStatus[answer'.outcome]
      BY <2>2 DEF PostRefresh
    <3>3. answer'.outcome \in {"Ok", "Invalid", "Reused", "Full", "Random"}
      BY <3>2 DEF Refresh, RefreshFull, RefreshUnknown, RefreshRefused, RefreshRotates, Answer
    <3>4. status' = 401 => answer'.outcome \in {"Invalid", "Reused"}
      BY <3>2, <3>3 DEF HttpStatus
    <3>5. /\ DOMAIN issued \cap DOMAIN state'.refresh \subseteq DOMAIN state.refresh
          /\ answer'.token = h
          /\ answer'.outcome \in {"Invalid", "Reused"} => h \notin DOMAIN state'.refresh
      BY <1>1, <3>1, <3>2, RefreshLive DEF GatewayInv, FreshTokens
    <3>. QED BY <3>4, <3>5
  <2>3. ASSUME NEW h \in Tokens, PostRevoke(h)
        PROVE  Final
    <3>1. answer'.op = "revoke" /\ (state' = state \/ \E f : state' = revoke_family(state, f))
      BY <2>3 DEF PostRevoke, Revoke, Answer
    <3>2. IsState(state)
      BY <1>1 DEF GatewayInv, Inv, Core, StoreInv
    <3>3. \A f : DOMAIN revoke_family(state, f).refresh \subseteq DOMAIN state.refresh
      BY <3>2 DEF revoke_family, Restrict, IsState
    <3>. QED BY <3>1, <3>3
  <2>4. CASE answer' = NoAnswer /\ state' = state
    BY <2>4 DEF NoAnswer
  <2>. QED
    BY <1>1, <2>1, <2>2, <2>3, <2>4
    DEF GatewayNext, HealthCheck, AuthRefused, Handshake, ConnectTunnel, CloseTunnel,
        TimePasses, Tick, FilesMove
<1>2. GatewayInv /\ [GatewayNext]_all_vars => [Final]_all_vars
  BY <1>1
<1>. QED BY <1>2, GatewayInvariance, PTL DEF GatewaySpec, RefusalIsFinal
=============================================================================
