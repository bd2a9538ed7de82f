---------------------------- MODULE MCServerLife ----------------------------
(* The life of each server, with a socket that gets packets of a sender. *)
EXTENDS ServerLife

CONSTANTS ann, ben     \* senders
=============================================================================
