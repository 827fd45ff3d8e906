----------------------------- MODULE TokenFaults -----------------------------
(***************************************************************************)
(* TokenService with the events its process does not control: it is        *)
(* restarted, and the system clock is set.                                 *)
(*                                                                         *)
(* Nothing of State is written to disk.  The signing key is read from      *)
(* --token-secret-file when there is one and drawn at random otherwise     *)
(* (from_args), so access tokens outlive a restart exactly with a file.    *)
(***************************************************************************)
EXTENDS TokenService

CONSTANTS
    SecretFile,    \* may args.token_secret_file be set, may it be unset?
    MaxRestarts,   \* bound on the restarts
    MaxJump,       \* ticks the system clock can be set ahead by
    MaxStepBack,   \* ticks the system clock can be set back by
    MaxClockSets   \* bound on how often it is set

ASSUME FaultsAssumption ==
    /\ SecretFile \subseteq BOOLEAN
    /\ MaxRestarts \in Nat /\ MaxClockSets \in Nat
    /\ MaxJump \in Nat /\ MaxStepBack \in Nat

VARIABLES
    secret_file, \* is args.token_secret_file set?
    restarts,    \* restarts so far
    clock_sets   \* how often the system clock was set

fault_vars == <<vars, secret_file, restarts, clock_sets>>

-----------------------------------------------------------------------------

EmptyState == [refresh |-> EmptyMap, spent |-> EmptyMap, revoked |-> EmptyMap,
               next_sweep |-> now + Secs(SWEEP_INTERVAL)]

\* Mutant: a restart without a secret file finds the old key again.
NewKey_reuses == key

\* Mutant: a restart draws a new key though there is a secret file.
NewKey_always_drawn == key + 1

\* from_args(): the secret of the file, or a random one that was never used before.
NewKey == IF secret_file THEN key ELSE key + 1

\* The process ends, with every connection, and new() runs again.
Restart ==
    /\ restarts < MaxRestarts
    /\ restarts' = restarts + 1
    /\ state' = EmptyState
    /\ key' = NewKey
    /\ answer' = NoAnswer
    /\ UNCHANGED <<clocks, minted, history, secret_file, clock_sets>>

\* The system clock is set; Instant does not notice.
SetClock ==
    /\ clock_sets < MaxClockSets
    /\ clock_sets' = clock_sets + 1
    /\ wall' \in {w \in wall - MaxStepBack .. wall + MaxJump : w >= 0 /\ w # wall}
    /\ answer' = NoAnswer
    /\ UNCHANGED <<state, key, now, minted, history, secret_file, restarts>>

FaultInit == Init /\ secret_file \in SecretFile /\ restarts = 0 /\ clock_sets = 0

FaultNext ==
    \/ Next /\ UNCHANGED <<secret_file, restarts, clock_sets>>
    \/ Restart
    \/ SetClock

FaultSpec == FaultInit /\ [][FaultNext]_fault_vars

-----------------------------------------------------------------------------
(* Properties *)

\* A router without a secret file draws a new key when it starts, so that forgetting the
\* revoked families brings no token of a revoked login back, and neither does a system clock
\* that is set ahead.
RestartRevivesNothing == ~secret_file => RevocationHolds

\* "Access tokens survive a restart only when --token-secret-file is set"
\* (src/README.md:573): with the file, an access token that has not expired is good however
\* often the router restarts, its clock is set and other logins are revoked and swept, as
\* long as its own login was neither logged out nor reused.
TokensSurviveRestarts ==
    secret_file =>
        \A a \in minted : a.family \notin dead /\ UnixNow < a.expires => verify_access(a)
=============================================================================
