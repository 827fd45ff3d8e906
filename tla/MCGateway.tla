------------------------------ MODULE MCGateway ------------------------------
(* Gateway for TLC. *)
EXTENDS Gateway, TLC

CONSTANTS alice, bob, secret

MCUsers == {alice, bob}

MCCredentials == [user : MCUsers, password : {secret}]

MCAddr(line) == line

Symmetry == Permutations(Tokens)
=============================================================================
