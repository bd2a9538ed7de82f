--------------------------- MODULE ReliableChannel ---------------------------
(***************************************************************************)
(* What Socket::SendReliable promises its callers, stated without ids,     *)
(* acknowledgements or timers: a message handed to it is kept until it has *)
(* reached the application at the other end, and it does reach it.  The    *)
(* promise is at-least-once: delivering a message again is a stuttering    *)
(* step here.                                                              *)
(***************************************************************************)
CONSTANT Message         \* the identities of the messages that can be sent

VARIABLES accepted,      \* messages handed to SendReliable
          pending,       \* messages the sender still answers for
          got            \* messages that reached the receiving application

vars == <<accepted, pending, got>>

Init == accepted = {} /\ pending = {} /\ got = {}

(* The caller hands over a message. *)
Accept(m) ==
    /\ m \notin accepted
    /\ accepted' = accepted \cup {m}
    /\ pending' = pending \cup {m}
    /\ UNCHANGED got

(* The receiving application gets the message. *)
Deliver(m) ==
    /\ m \in accepted
    /\ got' = got \cup {m}
    /\ UNCHANGED <<accepted, pending>>

(* The sender forgets the message: only one that was delivered. *)
Settle(m) ==
    /\ m \in pending
    /\ m \in got
    /\ pending' = pending \ {m}
    /\ UNCHANGED <<accepted, got>>

Next == \E m \in Message : Accept(m) \/ Deliver(m) \/ Settle(m)

Safety == Init /\ [][Next]_vars

Spec == /\ Safety
        /\ \A m \in Message : WF_vars(Deliver(m)) /\ WF_vars(Settle(m))
=============================================================================
