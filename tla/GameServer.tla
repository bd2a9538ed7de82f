----------------------------- MODULE GameServer -----------------------------
(***************************************************************************)
(* The game server (src/server-game.cpp): a vector of entities, each known *)
(* by its index plus one, and a queue of the indexes whose ships were left *)
(* by a client.  The physics and the 625 ships it spawns matter here only  *)
(* by the places they take.                                                *)
(***************************************************************************)
EXTENDS Network

CONSTANTS Spawned,     \* ships in the vector at the start
          MaxBullets   \* bound: bullets in the vector

ASSUME GameAssumption ==
    /\ Spawned \in 0..MaxShip
    /\ MaxBullets \in Nat

VARIABLES entities,    \* whose ship is at each place
          available,   \* places to be used again, first come first served
          users,       \* the keys of the clients that joined
          fired        \* has the ship with id 1 fired its first shot?

gameVars == <<entities, available, users, fired>>

Entity == Client \cup {"spawned", "bullet"}

GameTypeOK ==
    /\ entities \in Seq(Entity)
    /\ Len(entities) <= MaxShip
    /\ available \in Seq(-1..(MaxShip - 1))
    /\ users \subseteq Client
    /\ fired \in BOOLEAN

GameInit ==
    /\ entities = [i \in 1..Spawned |-> "spawned"]
    /\ available = <<>>
    /\ users = {}
    /\ fired = FALSE

-----------------------------------------------------------------------------
(* The place that becomes available when the ship with this id is left. *)
MutPlaceOffByOne(id) == IF id = 0 THEN -1 ELSE id
Place(id) == id - 1

(* The id of the ship at this place. *)
MutIdAtPlace(place) == place
IdAt(place) == place + 1

(* available.pop() *)
MutOthersAvailableAll == available
OthersAvailable == Tail(available)

(* What the user server is told of a client, by plain Send: that it joined *)
(* (sendJoined), and which ship is its own (sendID).                       *)
JoinedPacket(c) == Plain("user", "JOINED", c, 0)
IDPacket(c, id) == Plain("user", "ID", c, id)

(* getEntity, and the cast to a ship: ids 0 and beyond the vector name none.*)
IsShip(id) == id \in DOMAIN entities /\ entities[id] # "bullet"

(* The client may pick a ship. *)
Join(m) ==
    /\ m.command = "JOIN"
    /\ Handle(m, {JoinedPacket(m.about)})
    /\ users' = users \cup {m.about}
    /\ UNCHANGED <<entities, available, fired>>

(* A ship for a client without one takes the first place that was left, if *)
(* that is one, and else a new place at the end.                           *)
TakePlace(m) ==
    LET n == Head(available)
    IN  /\ m.command = "SELECT_SHIP" /\ m.id = 0
        /\ available # <<>> /\ n >= 0
        /\ available' = OthersAvailable
        /\ entities' = [entities EXCEPT ![n + 1] = m.about]
        /\ Handle(m, {IDPacket(m.about, IdAt(n))})
        /\ UNCHANGED <<users, fired>>

AddPlace(m) ==
    /\ m.command = "SELECT_SHIP" /\ m.id = 0
    /\ Len(entities) < MaxShip
    /\ \/ available = <<>> /\ UNCHANGED available
       \/ available # <<>> /\ Head(available) < 0 /\ available' = OthersAvailable
    /\ entities' = Append(entities, m.about)
    /\ Handle(m, {IDPacket(m.about, IdAt(Len(entities)))})
    /\ UNCHANGED <<users, fired>>

(* A client that has a ship gets no other one. *)
KeepShip(m) ==
    /\ m.command = "SELECT_SHIP" /\ m.id # 0
    /\ Handle(m, {})
    /\ UNCHANGED gameVars

(* The ship stays; its place may be taken over.  Id 0 leaves the place -1. *)
Leave(m) ==
    /\ m.command = "DISCONNECT"
    /\ available' = Append(available, Place(m.id))
    /\ Handle(m, {})
    /\ UNCHANGED <<entities, users, fired>>

(* handleFire: if the id is a ship's and its weapon is ready, a bullet     *)
(* joins the entities.                                                     *)
Shoot(id) ==
    \/ UNCHANGED entities
    \/ /\ IsShip(id)
       /\ Cardinality({i \in DOMAIN entities : entities[i] = "bullet"}) < MaxBullets
       /\ Len(entities) < MaxShip
       /\ entities' = Append(entities, "bullet")

HandleFire(m) ==
    /\ m.command = "FIRE"
    /\ Handle(m, {})
    /\ Shoot(m.id)
    /\ UNCHANGED <<available, users, fired>>

(* After its 60th frame the server itself makes the ship with id 1 fire.   *)
FireOnce ==
    /\ ~fired
    /\ fired' = TRUE
    /\ Shoot(1)
    /\ UNCHANGED <<available, users, net>>

GameHandler(m) ==
    /\ m.to = "game"
    /\ \/ Join(m)
       \/ TakePlace(m)
       \/ AddPlace(m)
       \/ KeepShip(m)
       \/ Leave(m)
       \/ HandleFire(m)
=============================================================================
