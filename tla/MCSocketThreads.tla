--------------------------- MODULE MCSocketThreads ---------------------------
(* The two threads of a socket, for TLC. *)
EXTENDS SocketThreads

CONSTANTS ann, ben     \* senders
=============================================================================
