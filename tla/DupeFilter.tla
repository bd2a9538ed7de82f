----------------------------- MODULE DupeFilter -----------------------------
(***************************************************************************)
(* What the dupe detection of a socket promises, with neither threads nor  *)
(* clocks: a packet is handed to the application exactly when it is not    *)
(* known, and known packets may be forgotten at any time.                  *)
(***************************************************************************)
CONSTANT Packet

VARIABLES known,     \* the packets that count as received
          packet,    \* the packet the socket took last
          verdict    \* what became of it

Undecided == "undecided"

Init == /\ known = {}
        /\ packet \in Packet
        /\ verdict = "accepted"

Take(p) == /\ verdict # Undecided
           /\ packet' = p
           /\ verdict' = Undecided
           /\ UNCHANGED known

Accept == /\ verdict = Undecided
          /\ packet \notin known
          /\ known' = known \cup {packet}
          /\ verdict' = "accepted"
          /\ UNCHANGED packet

Drop == /\ verdict = Undecided
        /\ packet \in known
        /\ verdict' = "dropped"
        /\ UNCHANGED <<known, packet>>

Forget == /\ known' \in SUBSET known
          /\ UNCHANGED <<packet, verdict>>

Next == \/ \E p \in Packet : Take(p)
        \/ Accept
        \/ Drop
        \/ Forget

Spec == Init /\ [][Next]_<<known, packet, verdict>>
=============================================================================
