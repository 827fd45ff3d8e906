----------------------------- MODULE TokenService -----------------------------
(***************************************************************************)
(* The access and refresh tokens of src/src/token.rs.                      *)
(*                                                                         *)
(* The mutex-protected State of the service is the record "state"; the     *)
(* functions that take "&mut State" are operators from one such record to  *)
(* the next, and the three public calls that change it (login, refresh,    *)
(* revoke) are actions.  The router runs on a current-thread Tokio runtime *)
(* and none of these calls awaits, so each is one atomic step.             *)
(*                                                                         *)
(* Two clocks: "now" is Instant::now() (monotonic), "wall" is the system   *)
(* clock.  Both count ticks, TicksPerSec of them to a second, because      *)
(* unix_now() truncates to whole seconds and Instant does not.             *)
(*                                                                         *)
(* A refresh token stands for itself and for its SHA-256: 256 random bits  *)
(* never repeat, so a new token (and a new 64-bit family) is one that was  *)
(* not used before.                                                        *)
(***************************************************************************)
EXTENDS Integers, FiniteSets, Functions

CONSTANTS
    Users,               \* names that can log in
    Families,            \* the identifiers random_family() draws from
    Tokens,              \* the refresh tokens generate_token() draws from
    NoToken,             \* the token field of an answer to a login
    access_ttl,          \* seconds an access token lives
    refresh_ttl,         \* seconds a refresh token lives
    MAX_FAMILY_LIFETIME, \* seconds a login can be kept alive by refreshing
    SWEEP_INTERVAL,      \* seconds between two sweeps
    MAX_RECORDS,         \* bound on live and spent refresh tokens
    TicksPerSec,         \* clock resolution
    MaxTime              \* bound: the last instant of the monotonic clock

\* args.validate() refuses a zero time to live (args.rs:167-173).
ASSUME ConstantsAssumption ==
    /\ access_ttl \in Nat \ {0} /\ refresh_ttl \in Nat \ {0}
    /\ MAX_FAMILY_LIFETIME \in Nat \ {0} /\ SWEEP_INTERVAL \in Nat \ {0}
    /\ MAX_RECORDS \in Nat \ {0} /\ TicksPerSec \in Nat \ {0}
    /\ MaxTime \in Nat
    /\ NoToken \notin Tokens

VARIABLES
    state,      \* TokenService.state: refresh, spent, revoked, next_sweep
    key,        \* TokenService.key: which secret signs the access tokens
    now,        \* the monotonic clock, in ticks
    wall,       \* the system clock, in ticks
    minted,     \* the access tokens that clients hold
    answer,     \* what the last request was told
    \* History of the logins, kept to state properties:
    login_at,   \* family -> the instant of its login
    issued,     \* refresh token -> its family and expiry, for all ever issued
    rotated,    \* the refresh tokens that a refresh consumed
    dead        \* the families that a logout or a reuse revoked

history == <<login_at, issued, rotated, dead>>
clocks == <<now, wall>>
vars == <<state, key, now, wall, minted, answer, login_at, issued, rotated, dead>>

-----------------------------------------------------------------------------
(* Types *)

\* f is a HashMap with keys in K and values in V.
IsMap(f, K, V) == DOMAIN f \subseteq K /\ f \in [DOMAIN f -> V]

EmptyMap == [x \in {} |-> 0]

\* HashMap::insert, which replaces the value of a key that is there.
Insert(f, k, v) == [x \in DOMAIN f \cup {k} |-> IF x = k THEN v ELSE f[x]]

RefreshRecord == [family : Families, user : Users, expires : Nat, family_deadline : Nat]

SpentRecord == [family : Families, user : Users, expires : Nat]

AccessToken == [family : Families, user : Users, expires : Nat, key : Nat]

IsState(s) ==
    /\ s = [refresh |-> s.refresh, spent |-> s.spent, revoked |-> s.revoked,
            next_sweep |-> s.next_sweep]
    /\ IsMap(s.refresh, Tokens, RefreshRecord)
    /\ IsMap(s.spent, Tokens, SpentRecord)
    /\ IsMap(s.revoked, Families, Nat)
    /\ s.next_sweep \in Nat

TokenErrors == {"Invalid", "Reused", "Full", "Random"}

Answers == [op : {"none", "login", "refresh", "revoke"},
            token : Tokens \cup {NoToken},
            outcome : {"none", "Ok", "Unknown"} \cup TokenErrors]

NoAnswer == [op |-> "none", token |-> NoToken, outcome |-> "none"]

Answer(o, t, out) == answer' = [op |-> o, token |-> t, outcome |-> out]

-----------------------------------------------------------------------------
(* The functions on State *)

Secs(n) == n * TicksPerSec

UnixNow == wall \div TicksPerSec

\* A refresh record that can still be exchanged.
Unexpired(record) == now < record.expires /\ now < record.family_deadline

\* Mutant: a sweep forgets every rotated token instead of the expired ones.
force_sweep_clears_spent(s) ==
    [refresh    |-> Restrict(s.refresh, {h \in DOMAIN s.refresh : Unexpired(s.refresh[h])}),
     spent      |-> EmptyMap,
     revoked    |-> Restrict(s.revoked, {f \in DOMAIN s.revoked : now < s.revoked[f]}),
     next_sweep |-> now + Secs(SWEEP_INTERVAL)]

force_sweep(s) ==
    [refresh    |-> Restrict(s.refresh, {h \in DOMAIN s.refresh : Unexpired(s.refresh[h])}),
     spent      |-> Restrict(s.spent, {h \in DOMAIN s.spent : now < s.spent[h].expires}),
     revoked    |-> Restrict(s.revoked, {f \in DOMAIN s.revoked : now < s.revoked[f]}),
     next_sweep |-> now + Secs(SWEEP_INTERVAL)]

sweep(s) == IF now < s.next_sweep THEN s ELSE force_sweep(s)

Records(s) == Cardinality(DOMAIN s.refresh) + Cardinality(DOMAIN s.spent)

\* The state make_room leaves; the call fails when that state IsFull.
make_room(s) == IF Records(s) >= MAX_RECORDS THEN force_sweep(s) ELSE s

\* Mutant: the bound is compared with ">".
IsFull_off_by_one(s) == Records(s) > MAX_RECORDS

IsFull(s) == Records(s) >= MAX_RECORDS

\* Mutant: every refresh token is dropped, of whatever login.
revoke_family_all(s, family) ==
    [s EXCEPT !.refresh = EmptyMap,
              !.revoked = Insert(@, family, now + Secs(access_ttl))]

\* Mutant: the entry is dated back instead of ahead, to an Instant there may not be.
revoke_family_dated_back(s, family) ==
    [s EXCEPT !.refresh = Restrict(@, {h \in DOMAIN @ : @[h].family # family}),
              !.revoked = Insert(@, family, now - Secs(access_ttl))]

revoke_family(s, family) ==
    [s EXCEPT !.refresh = Restrict(@, {h \in DOMAIN @ : @[h].family # family}),
              !.revoked = Insert(@, family, now + Secs(access_ttl))]

Earlier(a, b) == IF a <= b THEN a ELSE b

\* Mutant: the expiry is not capped by the deadline of the login.
refresh_expires_uncapped(family_deadline) == now + Secs(refresh_ttl)

refresh_expires(family_deadline) == Earlier(now + Secs(refresh_ttl), family_deadline)

\* The part of issue() that records refresh token t.
issue(s, t, family, user, family_deadline) ==
    [s EXCEPT !.refresh = Insert(@, t, [family |-> family, user |-> user,
                                        expires |-> refresh_expires(family_deadline),
                                        family_deadline |-> family_deadline])]

\* Mutant: the current second is rounded up instead of down.
mint_access_rounds_up(family, user) ==
    [family |-> family, user |-> user, expires |-> UnixNow + 1 + access_ttl, key |-> key]

mint_access(family, user) ==
    [family |-> family, user |-> user, expires |-> UnixNow + access_ttl, key |-> key]

\* The signature is good, the token has not expired and its login was not revoked.
verify_access(a) ==
    /\ a.key = key
    /\ UnixNow < a.expires
    /\ a.family \notin DOMAIN state.revoked

\* Mutant: the record is looked up and not removed.
Consume_only_reads(s, t) == s

\* remove(&hash) on the live records.
Consume(s, t) == [s EXCEPT !.refresh = Restrict(@, DOMAIN @ \ {t})]

\* Mutant: the spent record is added and the live one stays.
Retire_keeps_live(s, t) ==
    LET record == s.refresh[t]
    IN  [s EXCEPT !.spent = Insert(@, t, [family |-> record.family, user |-> record.user,
                                          expires |-> record.expires])]

\* The presented token leaves the live records and is remembered as spent.
Retire(s, t) ==
    LET record == s.refresh[t]
    IN  [Consume(s, t) EXCEPT !.spent =
            Insert(@, t, [family |-> record.family, user |-> record.user,
                          expires |-> record.expires])]

\* The lookup of revoke(): the live records first, then the spent ones.
Known(t) == t \in DOMAIN state.refresh \cup DOMAIN state.spent

FamilyOf(t) == IF t \in DOMAIN state.refresh THEN state.refresh[t].family
                                             ELSE state.spent[t].family

FreshTokens == Tokens \ DOMAIN issued

FreshFamilies == Families \ DOMAIN login_at

-----------------------------------------------------------------------------
(* Actions *)

\* What both login and refresh do once a pair is issued: the client gets the tokens.
HandOut(t, family, user, family_deadline) ==
    /\ minted' = minted \cup {mint_access(family, user)}
    /\ issued' = Insert(issued, t, [family |-> family,
                                    expires |-> refresh_expires(family_deadline)])

\* login(): the random generator can fail before the store is touched
\* (random_family) and again once room was made (generate_token).
Login(user) ==
    LET s == make_room(state)
        deadline == now + Secs(MAX_FAMILY_LIFETIME)
    IN  /\ UNCHANGED <<key, clocks, rotated, dead>>
        /\ \/ /\ Answer("login", NoToken, "Random")
              /\ UNCHANGED <<state, minted, issued, login_at>>
           \/ /\ ~IsFull(s)
              /\ Answer("login", NoToken, "Random")
              /\ state' = s
              /\ UNCHANGED <<minted, issued, login_at>>
           \/ /\ IsFull(s)
              /\ Answer("login", NoToken, "Full")
              /\ state' = s
              /\ UNCHANGED <<minted, issued, login_at>>
           \/ /\ ~IsFull(s)
              /\ Answer("login", NoToken, "Ok")
              /\ \E family \in FreshFamilies, t \in FreshTokens :
                    /\ state' = issue(s, t, family, user, deadline)
                    /\ HandOut(t, family, user, deadline)
                    /\ login_at' = Insert(login_at, family, now)

\* Mutant: the presented token is consumed before room is made.
RefreshFull_consumes(t, s) ==
    /\ IsFull(s)
    /\ state' = Consume(s, t)
    /\ Answer("refresh", t, "Full")
    /\ UNCHANGED <<minted, history>>

\* The branches of refresh(t), on the state s that sweep and make_room left.
RefreshFull(t, s) ==
    /\ IsFull(s)
    /\ state' = s
    /\ Answer("refresh", t, "Full")
    /\ UNCHANGED <<minted, history>>

RefreshUnknown(t, s) ==
    /\ ~IsFull(s) /\ t \notin DOMAIN s.refresh
    /\ IF t \in DOMAIN s.spent /\ now < s.spent[t].expires
       THEN /\ state' = revoke_family(s, s.spent[t].family)
            /\ dead' = dead \cup {s.spent[t].family}
            /\ Answer("refresh", t, "Reused")
       ELSE /\ state' = s
            /\ dead' = dead
            /\ Answer("refresh", t, "Invalid")
    /\ UNCHANGED <<minted, login_at, issued, rotated>>

RefreshRefused(t, s, userExists) ==
    /\ ~IsFull(s) /\ t \in DOMAIN s.refresh
    /\ ~Unexpired(s.refresh[t]) \/ ~userExists
    /\ state' = Consume(s, t)
    /\ Answer("refresh", t, "Invalid")
    /\ UNCHANGED <<minted, history>>

\* The presented token is retired first: if generate_token() then fails it stays retired.
RefreshRotates(t, s, userExists) ==
    /\ ~IsFull(s) /\ t \in DOMAIN s.refresh
    /\ Unexpired(s.refresh[t]) /\ userExists
    /\ LET record == s.refresh[t]
       IN  \/ /\ state' = Retire(s, t)
              /\ Answer("refresh", t, "Random")
              /\ UNCHANGED <<minted, issued>>
           \/ \E new \in FreshTokens :
                 /\ state' = issue(Retire(s, t), new, record.family, record.user,
                                   record.family_deadline)
                 /\ HandOut(new, record.family, record.user, record.family_deadline)
                 /\ Answer("refresh", t, "Ok")
    /\ rotated' = rotated \cup {t}
    /\ UNCHANGED <<login_at, dead>>

\* refresh(t, user_exists): sweep when it is due, make room, then exchange t.
Refresh(t, userExists) ==
    LET s == make_room(sweep(state))
    IN  /\ \/ RefreshFull(t, s)
           \/ RefreshUnknown(t, s)
           \/ RefreshRefused(t, s, userExists)
           \/ RefreshRotates(t, s, userExists)
        /\ UNCHANGED <<key, clocks>>

\* revoke(t): logs out the family of t, live or spent, expired or not.
Revoke(t) ==
    /\ \/ /\ Known(t)
          /\ state' = revoke_family(state, FamilyOf(t))
          /\ dead' = dead \cup {FamilyOf(t)}
          /\ Answer("revoke", t, "Ok")
       \/ /\ ~Known(t)
          /\ Answer("revoke", t, "Unknown")
          /\ UNCHANGED <<state, dead>>
    /\ UNCHANGED <<key, clocks, minted, login_at, issued, rotated>>

\* Both clocks advance together.
Tick ==
    /\ now < MaxTime
    /\ now' = now + 1
    /\ wall' = wall + 1
    /\ answer' = NoAnswer
    /\ UNCHANGED <<state, key, minted, history>>

\* new(): an empty store.  The system clock is anywhere within its first second.
Init ==
    /\ state = [refresh |-> EmptyMap, spent |-> EmptyMap, revoked |-> EmptyMap,
                next_sweep |-> Secs(SWEEP_INTERVAL)]
    /\ key = 0
    /\ now = 0
    /\ wall \in 0 .. TicksPerSec - 1
    /\ minted = {}
    /\ answer = NoAnswer
    /\ login_at = EmptyMap
    /\ issued = EmptyMap
    /\ rotated = {}
    /\ dead = {}

Request ==
    \/ \E user \in Users : Login(user)
    \/ \E t \in Tokens, userExists \in BOOLEAN : Refresh(t, userExists)
    \/ \E t \in Tokens : Revoke(t)

Next == Request \/ Tick

Spec == Init /\ [][Next]_vars

-----------------------------------------------------------------------------
(* Properties *)

\* The types of the maps of State, of the clocks and of what clients were given.
TypeOK ==
    /\ IsState(state)
    /\ key \in Nat
    /\ now \in Nat
    /\ wall \in Nat
    /\ minted \subseteq AccessToken
    /\ answer \in Answers
    /\ IsMap(login_at, Families, Nat)
    /\ IsMap(issued, Tokens, [family : Families, expires : Nat])
    /\ rotated \subseteq Tokens
    /\ dead \subseteq Families

\* make_room() is checked once per request, and a refresh retires one record and
\* adds another: the live and the spent records together never exceed MAX_RECORDS.
StoreBounded == Records(state) <= MAX_RECORDS

\* Rotation keeps one live refresh token per login: whoever refreshes last holds the
\* only token that works.
OneLivePerFamily ==
    \A t1, t2 \in DOMAIN state.refresh :
        state.refresh[t1].family = state.refresh[t2].family => t1 = t2

\* "Logging out or detecting reuse kills the refresh token and (until they expire) the
\* access tokens of that login": no sweep, refresh or later login brings one back.
RevocationHolds ==
    /\ \A t \in DOMAIN state.refresh : state.refresh[t].family \notin dead
    /\ \A a \in minted : a.family \in dead => ~verify_access(a)

\* A refresh token that was exchanged is never live again, so it is exchanged once.
SingleUse == rotated \cap DOMAIN state.refresh = {}

\* However often a client refreshes, nothing of a login works once MAX_FAMILY_LIFETIME
\* (plus the life of the last access token) has passed since it.
LoginLifetime ==
    /\ \A t \in DOMAIN state.refresh :
          LET record == state.refresh[t]
          IN  record.expires <= login_at[record.family] + Secs(MAX_FAMILY_LIFETIME)
    /\ \A a \in minted :
          verify_access(a) =>
              now < login_at[a.family] + Secs(MAX_FAMILY_LIFETIME) + Secs(access_ttl)

\* A refresh token that can still be exchanged disappears only when a token of its own
\* login is presented, and never when the answer is that the store is full or that the
\* token is unknown: sweeping and other logins do not cost a client its token.
OnlyItsLoginEndsIt ==
    [][\A t \in DOMAIN state.refresh \ DOMAIN state'.refresh :
          Unexpired(state.refresh[t]) =>
              /\ answer'.token \in DOMAIN issued
              /\ issued[answer'.token].family = state.refresh[t].family
              /\ answer'.outcome \notin {"Full", "Unknown"}]_vars

\* t is presented to refresh() in this step, after an earlier refresh consumed it and
\* before it would have expired.
Replayed(t) ==
    /\ answer'.op = "refresh" /\ answer'.token = t
    /\ t \in rotated /\ now < issued[t].expires

\* The spent record of a rotated token survives every sweep until the token would have
\* expired, so its reuse revokes the login (unless the store is full).
ReuseDetected ==
    [][\A t \in DOMAIN issued :
          Replayed(t) => \/ issued[t].family \in dead'
                         \/ answer'.outcome = "Full"]_vars

\* The refresh tokens of a login that can be exchanged.
Working(f) ==
    {t \in DOMAIN state.refresh : state.refresh[t].family = f /\ Unexpired(state.refresh[t])}

Logins == INSTANCE Sessions WITH
    holds    <- [f \in DOMAIN login_at |-> Working(f)],
    used     <- DOMAIN issued,
    opened   <- login_at,
    time     <- now,
    Lifetime <- Secs(MAX_FAMILY_LIFETIME)

\* The three maps of State together implement what Sessions promises about a login: one
\* token that works at a time, exchanged or lost only by a request of its own, none after
\* none, and none after MAX_FAMILY_LIFETIME.
ImplementsSessions == Logins!SessionSpec

\* The module comment of token.rs, without the exception for a full store: presenting a
\* token that was already rotated always revokes the whole family.
ReuseAlwaysRevokes ==
    [][\A t \in DOMAIN issued : Replayed(t) => issued[t].family \in dead']_vars
=============================================================================
