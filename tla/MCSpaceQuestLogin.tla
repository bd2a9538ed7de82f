-------------------------- MODULE MCSpaceQuestLogin --------------------------
(* SpaceQuest with the login server and a few clients, for TLC. *)
EXTENDS SpaceQuestLogin, TLC

CONSTANTS ann, ben     \* clients
=============================================================================
