------------------------------ MODULE Universe ------------------------------
(***************************************************************************)
(* The entities of the game server (src/server-game.cpp) in motion: ships  *)
(* that were spawned, ships of clients and bullets, moved once a frame and *)
(* written to Redis as the string "universe", which the user server sends  *)
(* to the clients.                                                         *)
(***************************************************************************)
EXTENDS Ship, SequencesExt

CONSTANTS Spawned,       \* ships in the vector at the start: 625
          MaxEntities,   \* bound: entities in the vector
          Byte           \* values of a byte: 256

ASSUME UniverseAssumption ==
    /\ Spawned \in Nat
    /\ MaxEntities \in Nat /\ Spawned <= MaxEntities
    /\ Byte \in Nat /\ Byte >= 4        \* the status bits fit in one
    /\ Circle <= Byte * Byte         \* angles fit in two

VARIABLE entities      \* per place: the id, the ship if it is one, and, for a
                       \* bullet, whose shot it is and its age up to FireRate

Spawn(i) == [kind |-> "ship", id |-> i - 1,
             ship |-> Turn(NewShip, ((i - 1) % 2) + 1)]
ClientShip(place) == [kind |-> "ship", id |-> place, ship |-> NewShip]
MutBulletIndex(place, from) ==
    [kind |-> "bullet", id |-> place - 1, from |-> from, age |-> 0]
Bullet(place, from) ==
    [kind |-> "bullet", id |-> place, from |-> from, age |-> 0]

IsShip(place) == place \in DOMAIN entities /\ entities[place].kind = "ship"
ShipAt(place) == entities[place].ship
Bullets == {p \in DOMAIN entities : entities[p].kind = "bullet"}

UniverseTypeOK ==
    /\ Len(entities) <= MaxEntities
    /\ \A p \in DOMAIN entities :
          \/ entities[p] \in [kind : {"ship"}, id : Nat, ship : ShipState]
          \/ entities[p] \in [kind : {"bullet"}, id : Nat, from : 1..MaxEntities,
                              age : 0..FireRate]

UniverseInit == entities = [i \in 1..Spawned |-> Spawn(i)]

-----------------------------------------------------------------------------
(* A control reaches the ship with this id, which is its place: getEntity. *)
Steer(id, control(_)) ==
    entities' = IF IsShip(id) THEN [entities EXCEPT ![id].ship = control(@)]
                              ELSE entities

(* handleFire.  A bullet beyond the bound is left out. *)
Shoot(id, weapon) ==
    IF IsShip(id) /\ MayFire(ShipAt(id))
    THEN LET noted == [entities EXCEPT ![id].ship = Fired(@)]
         IN  entities' = IF weapon \in Weapon /\ Len(entities) < MaxEntities
                         THEN Append(noted, Bullet(Len(entities) + 1, id))
                         ELSE noted
    ELSE UNCHANGED entities

(* updateUniverse: every ship moves, at one of the speeds it may take. *)
Ships(es) == {p \in DOMAIN es : es[p].kind = "ship"}
Motions(es) ==
    {[p \in DOMAIN es |-> IF p \in Ships(es) THEN [es[p] EXCEPT !.ship = Moved(@, v[p])]
                                             ELSE es[p]] :
        v \in {v \in [Ships(es) -> 0..MaxSpeed] :
                  \A p \in Ships(es) : v[p] \in Speeds(es[p].ship)}}

(* Time passes while the frame sleeps. *)
Aged(e) == IF e.kind = "ship" THEN [e EXCEPT !.ship = Waited(@)]
           ELSE [e EXCEPT !.age = IF @ < FireRate THEN @ + 1 ELSE @]

(* The rest of a frame once no packet is left: updateUniverse and          *)
(* buildState, whose string (below) says what the entities are then.       *)
UniverseFrame ==
    \E f \in Motions(entities) : entities' = [p \in DOMAIN f |-> Aged(f[p])]

-----------------------------------------------------------------------------
(* buildState.  look gives what the model leaves out of an entity: its     *)
(* type, and its place x, y and, for a bullet, its status, which nothing   *)
(* initialises, and its angle.  Places are in hundredths.                  *)
Low(n)  == n % Byte
High(n) == (n \div Byte) % Byte

Bit(b) == IF b THEN 1 ELSE 0
Status(e, look) == IF e.kind = "ship"
                   THEN Bit(e.ship.turning) + 2 * Bit(e.ship.accelerating)
                   ELSE look.status
Angle(e, look) == IF e.kind = "ship" THEN e.ship.angle ELSE look.angle

MutChunkWithoutStatus(e, look) ==
    <<Low(e.id), High(e.id), Low(look.type), High(look.type),
      Low(look.x), High(look.x), Low(look.y), High(look.y),
      Low(Angle(e, look)), High(Angle(e, look))>>
Chunk(e, look) ==
    <<Low(e.id), High(e.id), Low(Status(e, look)),
      Low(look.type), High(look.type), Low(look.x), High(look.x),
      Low(look.y), High(look.y), Low(Angle(e, look)), High(Angle(e, look))>>

UniverseString(look) ==
    FlattenSeq([p \in DOMAIN entities |-> Chunk(entities[p], look)])
=============================================================================
