---------------------------- MODULE MCAuthConfig ----------------------------
(* AuthConfig for TLC. *)
EXTENDS AuthConfig

CONSTANTS alice, bob, secret

MCCredentials == [user : {alice, bob}, password : {secret}]

\* Port 80 can be written in two ways; a tunnel to 443 is another target.
MCTargetLines == {"a:80", "a:080", "a:443"}

MCAddr(line) == IF line = "a:080" THEN "a:80" ELSE line
=============================================================================
