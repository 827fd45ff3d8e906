------------------------------- MODULE Sessions -------------------------------
(***************************************************************************)
(* What the token service promises about logins: a login holds at most one *)
(* refresh token that works, a request ends or moves at most one login, a  *)
(* login that holds none never gets one again, and only time ends several  *)
(* at once.  No token is given out twice, and no login outlives Lifetime.  *)
(***************************************************************************)
EXTENDS Integers

CONSTANTS
    Families,  \* what identifies a login
    Tokens,    \* refresh tokens
    Lifetime   \* ticks a login can be kept alive

VARIABLES
    holds,     \* login -> the refresh tokens of it that work
    used,      \* every token that was given out
    opened,    \* login -> when it was opened
    time

session_vars == <<holds, used, opened, time>>

\* A login that still works is younger than Lifetime.
Young == \A f \in DOMAIN holds : holds[f] # {} => time < opened[f] + Lifetime

Open(f, t) ==
    /\ f \notin DOMAIN holds /\ t \notin used
    /\ holds' = [g \in DOMAIN holds \cup {f} |-> IF g = f THEN {t} ELSE holds[g]]
    /\ opened' = [g \in DOMAIN opened \cup {f} |-> IF g = f THEN time ELSE opened[g]]
    /\ used' = used \cup {t}
    /\ UNCHANGED time

\* The token is exchanged for another.
Renew(f, t) ==
    /\ f \in DOMAIN holds /\ holds[f] # {} /\ t \notin used
    /\ holds' = [holds EXCEPT ![f] = {t}]
    /\ used' = used \cup {t}
    /\ UNCHANGED <<opened, time>>

\* Logged out, reused, refused, or exchanged for a token that could not be made.
End(f) ==
    /\ f \in DOMAIN holds
    /\ holds' = [holds EXCEPT ![f] = {}]
    /\ UNCHANGED <<used, opened, time>>

Expire ==
    /\ time' = time + 1
    /\ DOMAIN holds' = DOMAIN holds
    /\ \A f \in DOMAIN holds : holds'[f] \in {holds[f], {}}
    /\ Young'
    /\ UNCHANGED <<used, opened>>

SessionInit == holds = [f \in {} |-> {}] /\ used = {} /\ opened = [f \in {} |-> 0] /\ time = 0

SessionNext ==
    \/ \E f \in Families, t \in Tokens : Open(f, t) \/ Renew(f, t)
    \/ \E f \in Families : End(f)
    \/ Expire

SessionSpec == SessionInit /\ [][SessionNext]_session_vars
=============================================================================
