------------------------------ MODULE AuthConfig ------------------------------
(***************************************************************************)
(* The credentials and the anonymous targets of src/src/auth.rs: loaded at *)
(* start, and polled once a second from files that somebody else edits.    *)
(*                                                                         *)
(* A file is its set of lines that are neither blank nor comments: their   *)
(* order and repetitions matter to nothing but the log.  BadLine stands    *)
(* for a line that does not parse, NoFile for a file that cannot be read   *)
(* (missing, or not UTF-8).  A writer that does not replace the file in    *)
(* one step writes several versions one after the other.                   *)
(***************************************************************************)
EXTENDS Naturals, FiniteSets

CONSTANTS
    Credentials,          \* the USER:PASS pairs, as records [user, password]
    BadLine,              \* a line that is neither a credential nor a target
    NoFile,               \* the content of a file that cannot be read
    FixedAuthorizations,  \* --basic-auth
    HasAuthFile,          \* is --basic-auth-file given?
    TargetLines,          \* ways to write a target
    Addr(_),              \* what parse_host_port makes of one, as Target::addr()
    FixedTargetLines,     \* --anonymous-target
    HasTargetFile,        \* is --anonymous-target-file given?
    MaxWrites             \* bound: how often somebody writes a file

ASSUME AuthAssumption ==
    /\ FixedAuthorizations \subseteq Credentials
    /\ FixedTargetLines \subseteq TargetLines
    /\ BadLine \notin Credentials \cup TargetLines
    /\ HasAuthFile \in BOOLEAN /\ HasTargetFile \in BOOLEAN /\ MaxWrites \in Nat

VARIABLES
    auth_file,         \* what the credentials file holds now
    target_file,       \* what the anonymous target file holds now
    expected,          \* expected_authorizations
    anonymous_targets, \* normalised addresses
    writes,            \* writes so far
    versions           \* history: every content the credentials file has had

auth_vars == <<auth_file, target_file, expected, anonymous_targets, writes, versions>>

-----------------------------------------------------------------------------
(* Loading *)

Loadable(file, Lines) == file # NoFile /\ file \subseteq Lines

\* Mutant: bad lines are skipped, and the rest of the file is used.
load_auth_file_skips_bad(file) == IF file = NoFile THEN NoFile ELSE file \cap Credentials

\* One invalid line makes the whole file fail.
load_auth_file(file) == IF Loadable(file, Credentials) THEN file ELSE NoFile

\* Mutant: the lines of the file are not normalised.
load_anonymous_target_file_raw(file) == IF Loadable(file, TargetLines) THEN file ELSE NoFile

load_anonymous_target_file(file) ==
    IF Loadable(file, TargetLines) THEN {Addr(line) : line \in file} ELSE NoFile

fixed_anonymous_targets == {Addr(line) : line \in FixedTargetLines}

auth_enabled == FixedAuthorizations # {} \/ HasAuthFile

AuthFiles == {NoFile} \cup SUBSET (Credentials \cup {BadLine})

TargetFiles == {NoFile} \cup SUBSET (TargetLines \cup {BadLine})

\* build_auth_config(): the router does not start on a file it cannot load, nor without
\* any credential.
AuthInit ==
    /\ auth_enabled
    /\ auth_file \in IF HasAuthFile THEN AuthFiles ELSE {{}}
    /\ target_file \in IF HasTargetFile THEN TargetFiles ELSE {{}}
    /\ load_auth_file(auth_file) # NoFile
    /\ load_anonymous_target_file(target_file) # NoFile
    /\ expected = FixedAuthorizations \cup load_auth_file(auth_file)
    /\ expected # {}
    /\ anonymous_targets = fixed_anonymous_targets \cup load_anonymous_target_file(target_file)
    /\ writes = 0
    /\ versions = {auth_file}

-----------------------------------------------------------------------------
(* Polling *)

\* Mutant: the credentials that were in effect stay in effect.
reload_auth_file_only_adds ==
    /\ HasAuthFile
    /\ LET file == load_auth_file(auth_file)
       IN  expected' = IF file = NoFile THEN expected ELSE expected \cup file
    /\ UNCHANGED <<auth_file, target_file, anonymous_targets, writes, versions>>

\* A poll of the credentials file; an error keeps the previous credentials.
reload_auth_file ==
    /\ HasAuthFile
    /\ LET file == load_auth_file(auth_file)
           next == FixedAuthorizations \cup file
       IN  expected' = IF file = NoFile \/ next = {} THEN expected ELSE next
    /\ UNCHANGED <<auth_file, target_file, anonymous_targets, writes, versions>>

\* A poll of the anonymous target file; here an empty list is fine.
reload_anonymous_target_file ==
    /\ HasTargetFile
    /\ LET file == load_anonymous_target_file(target_file)
       IN  anonymous_targets' = IF file = NoFile THEN anonymous_targets
                                ELSE fixed_anonymous_targets \cup file
    /\ UNCHANGED <<auth_file, target_file, expected, writes, versions>>

\* Somebody edits the files.
WriteAuthFile ==
    /\ HasAuthFile /\ writes < MaxWrites
    /\ auth_file' \in AuthFiles \ {auth_file}
    /\ versions' = versions \cup {auth_file'}
    /\ writes' = writes + 1
    /\ UNCHANGED <<target_file, expected, anonymous_targets>>

WriteTargetFile ==
    /\ HasTargetFile /\ writes < MaxWrites
    /\ target_file' \in TargetFiles \ {target_file}
    /\ writes' = writes + 1
    /\ UNCHANGED <<auth_file, expected, anonymous_targets, versions>>

AuthNext ==
    \/ reload_auth_file
    \/ reload_anonymous_target_file
    \/ WriteAuthFile
    \/ WriteTargetFile

\* The two polling tasks run forever, once a second (poll_file_reload never returns).
AuthSpec ==
    /\ AuthInit /\ [][AuthNext]_auth_vars
    /\ WF_auth_vars(reload_auth_file)
    /\ WF_auth_vars(reload_anonymous_target_file)

-----------------------------------------------------------------------------
(* Queries *)

basic_user(credential) == credential \in expected

has_user(user) == \E credential \in expected : credential.user = user

allows_anonymous_target(line) == line \in TargetLines /\ Addr(line) \in anonymous_targets

-----------------------------------------------------------------------------
(* Properties *)

\* Types; the anonymous targets in effect are normalised addresses, wherever they came from.
AuthTypeOK ==
    /\ auth_file \in AuthFiles
    /\ target_file \in TargetFiles
    /\ expected \subseteq Credentials
    /\ anonymous_targets \subseteq {Addr(line) : line \in TargetLines}
    /\ writes \in 0 .. MaxWrites
    /\ versions \subseteq AuthFiles

\* Whatever is written to the files, and whenever they are polled, the credentials in
\* effect are the fixed ones and those of one whole valid version of the file: never none,
\* never a mixture of two versions, never the good lines of a bad file.
OneWholeVersion ==
    /\ expected # {}
    /\ \E file \in versions : /\ Loadable(file, Credentials)
                              /\ expected = FixedAuthorizations \cup file

\* Once nobody edits the credentials file any more, and it is valid, what it says is in
\* effect for good: a user who is not in it is out, a new one is in.
ReloadTakesEffect ==
    \A file \in SUBSET Credentials :
        <>[](auth_file = file) /\ HasAuthFile /\ FixedAuthorizations \cup file # {}
            => <>[](expected = FixedAuthorizations \cup file)

\* The same for the targets that need no credentials, compared after normalisation.
TargetsTakeEffect ==
    \A file \in SUBSET TargetLines :
        <>[](target_file = file) /\ HasTargetFile
            => <>[](\A line \in TargetLines :
                        allows_anonymous_target(line) <=>
                            Addr(line) \in {Addr(l) : l \in file \cup FixedTargetLines})
=============================================================================
