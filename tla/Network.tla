------------------------------- MODULE Network -------------------------------
(***************************************************************************)
(* The messages in flight between the processes, as the handlers see them: *)
(* above the sockets.  What was sent with SendReliable is delivered at     *)
(* least once (ReliableChannel), in any order; what plain Send sent may be *)
(* lost.  The network is a bag, since two equal messages are two messages. *)
(***************************************************************************)
EXTENDS Integers, Sequences, FiniteSets, Bags

CONSTANTS Client,      \* the addresses clients run at
          MaxShip,     \* bound: the largest ship id
          MaxCopies,   \* bound: equal messages in flight
          Lossy,       \* may plain messages be lost?
          Redelivered  \* commands whose messages may be delivered again

(* The commands of packet.h that the modelled processes exchange. *)
Command == {"INITIALIZE", "REQUEST_ADDRESS", "ADDRESS", "JOIN", "JOINED", "ID",
            "DISCONNECT", "SELECT_SHIP", "FIRE", "USE", "READY"}

Server == {"master", "login", "user", "game"}

ASSUME NetworkAssumption ==
    /\ Client \cap Server = {}
    /\ MaxShip \in Nat
    /\ MaxCopies \in Nat \ {0}
    /\ Lossy \in BOOLEAN
    /\ Redelivered \subseteq Command

VARIABLE net

(* about is the client, or the server (in what servers ask of the master), *)
(* that a message is about: its sender, or the key it carries.             *)
Message == [to : Server \cup Client, command : Command,
            about : Server \cup Client \cup {"nobody"}, id : 0..MaxShip,
            reliable : BOOLEAN]

Plain(to, command, about, id) ==
    [to |-> to, command |-> command, about |-> about, id |-> id,
     reliable |-> FALSE]
Reliable(to, command, about, id) ==
    [to |-> to, command |-> command, about |-> about, id |-> id,
     reliable |-> TRUE]

InFlight  == BagToSet(net)
Copies(m) == IF m \in InFlight THEN net[m] ELSE 0

(* What is left of the network once m has been received: m may have been   *)
(* acknowledged in vain, and comes again.                                  *)
AfterReceiving(m) ==
    {net (-) SetToBag({m})}
        \cup (IF m.reliable /\ m.command \in Redelivered THEN {net} ELSE {})

RoomFor(out) == \A m \in out : Copies(m) < MaxCopies

(* Receive m and send the messages of out. *)
Handle(m, out) ==
    /\ m \in InFlight
    /\ RoomFor(out)
    /\ \E rest \in AfterReceiving(m) : net' = rest (+) SetToBag(out)

(* Send on one's own initiative. *)
Emit(out) ==
    /\ RoomFor(out)
    /\ net' = net (+) SetToBag(out)

Drop(m) ==
    /\ m \in InFlight
    /\ net' = net (-) SetToBag({m})

NetworkTypeOK == IsABag(net) /\ InFlight \subseteq Message
=============================================================================
