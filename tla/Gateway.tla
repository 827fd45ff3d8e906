------------------------------- MODULE Gateway -------------------------------
(***************************************************************************)
(* The requests the router answers, on the token service and the           *)
(* credentials together: the token endpoints (src/src/token_api.rs), the   *)
(* authorization of a health check or a tunnel (auth.rs) and the routing   *)
(* of a request head between them (proxy.rs, http_probe.rs).               *)
(*                                                                         *)
(* A request head is answered in one step: from the parsed head to the     *)
(* decision nothing awaits, so no reload of the credentials and no other   *)
(* request comes between the checks of one request.  A tunnel opens later: *)
(* the 101 reply, the resolution of the target and the connection to it    *)
(* are awaited after the decision, and anything may happen meanwhile.      *)
(***************************************************************************)
EXTENDS TokenService, AuthConfig

CONSTANTS
    Anonymous,     \* the user of a request without credentials
    MaxTunnels     \* bound on the tunnels being connected or open

ASSUME GatewayAssumption ==
    /\ \A credential \in Credentials : credential.user \in Users
    /\ Anonymous \notin Users
    /\ MaxTunnels \in Nat

VARIABLES
    status,        \* of the last request: 0, or the HTTP status of the answer
    tunnels        \* the accepted websockets: user, target, the login they used, and stage

gate_vars == <<status, tunnels>>
all_vars == <<vars, auth_vars, gate_vars>>

-----------------------------------------------------------------------------
(* Requests *)

\* An Authorization header: a Basic credential, an access token, or nothing usable (no
\* header, or one that is neither).  A forged token is one that verify_access rejects.
Headers == [basic : Credentials] \cup [bearer : minted] \cup {[none |-> TRUE]}

IsBasic(header) == "basic" \in DOMAIN header

IsBearer(header) == "bearer" \in DOMAIN header

\* Mutant: the token is trusted whoever its user is.
verify_access_token_any_user(a) == verify_access(a)

\* The token is good and its user is still one of the configured ones.
verify_access_token(a) == verify_access(a) /\ has_user(a.user)

\* authorize_request(): may this request go through?
Authorized(line, header) ==
    \/ allows_anonymous_target(line)
    \/ IsBearer(header) /\ verify_access_token(header.bearer)
    \/ IsBasic(header) /\ basic_user(header.basic)

\* The user the tunnel is reported under.
authorize_request(line, header) ==
    IF allows_anonymous_target(line) THEN Anonymous
    ELSE IF IsBearer(header) THEN header.bearer.user ELSE header.basic.user

\* parse_target(): a path that is not a target is written BadLine.
Paths == TargetLines \cup {BadLine}

-----------------------------------------------------------------------------
(* Token endpoints *)

HttpStatus == [Ok |-> 200, Invalid |-> 401, Reused |-> 401, Full |-> 503, Random |-> 500]

\* POST /auth/token.
PostToken(header) ==
    /\ \/ /\ IsBasic(header) /\ basic_user(header.basic)
          /\ Login(header.basic.user)
          /\ status' = HttpStatus[answer'.outcome]
       \/ /\ ~(IsBasic(header) /\ basic_user(header.basic))
          /\ status' = 401
          /\ answer' = NoAnswer
          /\ UNCHANGED <<state, key, clocks, minted, history>>
    /\ UNCHANGED <<auth_vars, tunnels>>

\* Mutant: the user of a refresh token is not looked up again.
RecordUserExists_always(t) == TRUE

\* The closure that refresh() calls on the user of the live record.
RecordUserExists(t) == t \in DOMAIN state.refresh => has_user(state.refresh[t].user)

\* POST /auth/refresh with a refresh token.
PostRefresh(t) ==
    /\ Refresh(t, RecordUserExists(t))
    /\ status' = HttpStatus[answer'.outcome]
    /\ UNCHANGED <<auth_vars, tunnels>>

\* POST /auth/revoke answers the same whether or not the token was known.
PostRevoke(t) ==
    /\ Revoke(t)
    /\ status' = 204
    /\ UNCHANGED <<auth_vars, tunnels>>

\* Requests that change nothing: a refresh or a revoke without a bearer token (401), a
\* method other than POST (405), a body (400), another path under /auth/ (404).
AuthRefused ==
    /\ status' \in {400, 401, 404, 405}
    /\ answer' = NoAnswer
    /\ UNCHANGED <<state, key, clocks, minted, history, auth_vars, tunnels>>

-----------------------------------------------------------------------------
(* Health checks and tunnels *)

\* GET / as plain HTTP or as a websocket that is closed at once; "/" is no target.
HealthCheck(header) ==
    /\ status' \in IF Authorized(BadLine, header) THEN {101, 200} ELSE {401}
    /\ answer' = NoAnswer
    /\ UNCHANGED <<state, key, clocks, minted, history, auth_vars, tunnels>>

LoginOf(line, header) ==
    IF IsBearer(header) /\ ~allows_anonymous_target(line)
    THEN {header.bearer.family} ELSE {}

\* The callback of the handshake of a websocket request: authorized first, then the path is
\* parsed.  Neither is looked at again.
Handshake(line, header) ==
    /\ Cardinality(tunnels) < MaxTunnels
    /\ IF Authorized(line, header)
       THEN IF line \in TargetLines
            THEN /\ status' = 101
                 /\ tunnels' = tunnels \cup {[user   |-> authorize_request(line, header),
                                              addr   |-> Addr(line),
                                              login  |-> LoginOf(line, header),
                                              stage  |-> "connecting"]}
            ELSE status' = 400 /\ UNCHANGED tunnels
       ELSE status' = 401 /\ UNCHANGED tunnels
    /\ answer' = NoAnswer
    /\ UNCHANGED <<state, key, clocks, minted, history, auth_vars>>

\* The reply has been written and the upstream is connected: the proxy loop begins.
ConnectTunnel(tunnel) ==
    /\ tunnel.stage = "connecting"
    /\ tunnels' = (tunnels \ {tunnel}) \cup {[tunnel EXCEPT !.stage = "open"]}
    /\ status' = 0
    /\ answer' = NoAnswer
    /\ UNCHANGED <<state, key, clocks, minted, history, auth_vars>>

\* The reply cannot be written, the upstream cannot be reached, or either end closes.
CloseTunnel(tunnel) ==
    /\ tunnels' = tunnels \ {tunnel}
    /\ status' = 0
    /\ answer' = NoAnswer
    /\ UNCHANGED <<state, key, clocks, minted, history, auth_vars>>

-----------------------------------------------------------------------------
(* The rest of the world *)

TimePasses == Tick /\ status' = 0 /\ UNCHANGED <<auth_vars, tunnels>>

\* A reload of either file, or an edit.
FilesMove ==
    /\ AuthNext
    /\ status' = 0
    /\ answer' = NoAnswer
    /\ UNCHANGED <<state, key, clocks, minted, history, tunnels>>

GatewayInit == Init /\ AuthInit /\ status = 0 /\ tunnels = {}

GatewayNext ==
    \/ \E header \in Headers : PostToken(header) \/ HealthCheck(header)
    \/ \E t \in Tokens : PostRefresh(t) \/ PostRevoke(t)
    \/ AuthRefused
    \/ \E line \in Paths, header \in Headers : Handshake(line, header)
    \/ \E tunnel \in tunnels : ConnectTunnel(tunnel) \/ CloseTunnel(tunnel)
    \/ TimePasses
    \/ FilesMove

GatewaySpec == GatewayInit /\ [][GatewayNext]_all_vars

-----------------------------------------------------------------------------
(* Properties *)

\* The target needs no credentials; or the user is in the credentials in effect and the
\* login behind the token, if there was one, is not logged out, reused or outlived.
Entitled(tunnel) ==
    \/ tunnel.user = Anonymous /\ tunnel.addr \in anonymous_targets
    \/ /\ has_user(tunnel.user)
       /\ tunnel.login \cap dead = {}
       /\ \A f \in tunnel.login :
             now < login_at[f] + Secs(MAX_FAMILY_LIFETIME) + Secs(access_ttl)

\* A websocket is accepted only for a user who is entitled to its target at that moment,
\* whatever was reloaded, refreshed, swept or revoked before; and a tunnel opens only for
\* the user, target and login that were accepted, even when the user is removed or logged
\* out while the reply and the connection are awaited ("the token is checked at the
\* handshake only", src/README.md:570).
TunnelsAreEntitled ==
    [][\A tunnel \in tunnels' \ tunnels :
          \/ tunnel.stage = "connecting" /\ Entitled(tunnel)
          \/ \E accepted \in tunnels :
                /\ accepted.stage = "connecting"
                /\ tunnel = [accepted EXCEPT !.stage = "open"]]_all_vars

\* No token is handed out to a user who is not in the credentials in effect, neither at
\* login nor when a refresh token from before the removal is presented.
OnlyListedUsersGetTokens ==
    [][\A t \in DOMAIN issued' \ DOMAIN issued : has_user(state'.refresh[t].user)]_all_vars

\* A refresh that is answered 401 is final: the token is not live afterwards and no token
\* that was issued before becomes live again, so the client has to log in (and an answer
\* 503 or 500 says something else).
RefusalIsFinal ==
    [][/\ status' = 401 /\ answer'.op = "refresh" => answer'.token \notin DOMAIN state'.refresh
       /\ DOMAIN issued \cap DOMAIN state'.refresh \subseteq DOMAIN state.refresh]_all_vars
=============================================================================
