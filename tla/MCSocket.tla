------------------------------ MODULE MCSocket ------------------------------
(* Socket on a few nodes: the small instances TLC checks. *)
EXTENDS Socket, TLC

CONSTANTS alice, bob, carol     \* the sockets

Pair == Permutations({alice, bob})
=============================================================================
