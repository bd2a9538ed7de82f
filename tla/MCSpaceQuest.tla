---------------------------- MODULE MCSpaceQuest ----------------------------
(* SpaceQuest with a few clients: the small instances TLC checks. *)
EXTENDS SpaceQuest, TLC

CONSTANTS ann, ben     \* clients

ClientSymmetry == Permutations(Client)
=============================================================================
