------------------------------- MODULE Flight -------------------------------
(***************************************************************************)
(* One player flies a ship: the controls are pressed and released, each    *)
(* with a reliable packet to the user server, which passes it on under the *)
(* id of the ship to the game server, which moves the ship frame by frame. *)
(* Reliable packets arrive at least once, in any order (ReliableChannel).  *)
(***************************************************************************)
EXTENDS Universe

CONSTANTS Control,     \* the controls the player uses
          MaxOnWay,    \* bound: packets on their way
          MaxRepeats   \* bound: packets that come once more

(* The controls of packet.h; dir is 0 where the packet has none. *)
Turning(dir)      == [command |-> "TURN", dir |-> dir]
Accelerating(dir) == [command |-> "ACCELERATE", dir |-> dir]
Braking           == [command |-> "DECELERATE", dir |-> 0]
AllControls == {Turning(1), Turning(2), Accelerating(1), Accelerating(2), Braking}

ASSUME FlightAssumption ==
    /\ Control \subseteq AllControls
    /\ MaxOnWay \in Nat \ {0}
    /\ MaxRepeats \in Nat
    /\ Spawned < MaxEntities

VARIABLES held,        \* the controls the player holds
          toUser,      \* packets to the user server, oldest first
          toGame,      \* packets to the game server, oldest first
          overtaken,   \* history: did a packet overtake another?
          repeats      \* history: how often did a packet come once more?

vars == <<entities, held, toUser, toGame, overtaken, repeats>>

(* The player's ship has been selected: its id is its place. *)
Mine == Spawned + 1

Press(c)   == [act |-> "press", control |-> c]
Release(c) == [act |-> "release", control |-> c]
Fire(w)    == [act |-> "fire", weapon |-> w]

(* A weapon byte: one that makes a bullet (as does 2), and one that does not. *)
WeaponByte == {0, 1}
Packet == {Press(c) : c \in Control} \cup {Release(c) : c \in Control}
            \cup {Fire(w) : w \in WeaponByte}

Init ==
    /\ entities = Append([i \in 1..Spawned |-> Spawn(i)], ClientShip(Mine))
    /\ held = {}
    /\ toUser = <<>> /\ toGame = <<>>
    /\ overtaken = FALSE /\ repeats = 0

-----------------------------------------------------------------------------
RoomOnWay == Len(toUser) + Len(toGame) < MaxOnWay

(* The player. *)
PressControl(c) ==
    /\ c \in Control \ held /\ RoomOnWay
    /\ held' = held \cup {c}
    /\ toUser' = Append(toUser, Press(c))
    /\ UNCHANGED <<entities, toGame, overtaken, repeats>>

ReleaseControl(c) ==
    /\ c \in held /\ RoomOnWay
    /\ held' = held \ {c}
    /\ toUser' = Append(toUser, Release(c))
    /\ UNCHANGED <<entities, toGame, overtaken, repeats>>

(* sendFire: two bytes without a weapon.  No more once the bullets reach   *)
(* their bound.                                                            *)
PullTrigger ==
    /\ RoomOnWay /\ Len(entities) < MaxEntities
    /\ toUser' = Append(toUser, Fire(0))
    /\ UNCHANGED <<entities, held, toGame, overtaken, repeats>>

(* Taking the i-th packet of a way may leave it there: its ACK was lost,   *)
(* and it comes again when it is tracked no more.                          *)
Take(way, i) ==
    /\ i \in DOMAIN way
    /\ overtaken' = (overtaken \/ i > 1)
Left(way, i, way2) ==
    \/ way2 = RemoveAt(way, i) /\ UNCHANGED repeats
    \/ way2 = way /\ repeats < MaxRepeats /\ repeats' = repeats + 1

(* The user server: sendTurn, ..., sendFire.  The weapon is the third byte *)
(* of a buffer that holds two: whatever an earlier packet left there.      *)
PassedOn(p) == IF p.act = "fire" THEN {Fire(w) : w \in WeaponByte} ELSE {p}
PassOn(i) ==
    /\ Take(toUser, i)
    /\ Left(toUser, i, toUser')
    /\ Len(toUser') + Len(toGame) < MaxOnWay
    /\ \E p \in PassedOn(toUser[i]) : toGame' = Append(toGame, p)
    /\ UNCHANGED <<entities, held>>

(* The game server's switch: what a packet does to the ship. *)
Pressed(s, c) == CASE c.command = "TURN" -> Turn(s, c.dir)
                   [] c.command = "ACCELERATE" -> Accelerate(s, c.dir)
                   [] c.command = "DECELERATE" -> Decelerate(s)
Released(s, c) == CASE c.command = "TURN" -> StopTurn(s, c.dir)
                    [] c.command = "ACCELERATE" -> StopAccelerate(s, c.dir)
                    [] c.command = "DECELERATE" -> StopDecelerate(s)

Obey(i) ==
    LET p == toGame[i]
    IN  /\ Take(toGame, i)
        /\ Left(toGame, i, toGame')
        /\ \/ p.act = "press" /\ Steer(Mine, LAMBDA s : Pressed(s, p.control))
           \/ p.act = "release" /\ Steer(Mine, LAMBDA s : Released(s, p.control))
           \/ p.act = "fire" /\ Shoot(Mine, p.weapon)
        /\ UNCHANGED <<held, toUser>>

Frame == UniverseFrame /\ UNCHANGED <<held, toUser, toGame, overtaken, repeats>>

Next == \/ \E c \in Control : PressControl(c) \/ ReleaseControl(c)
        \/ PullTrigger
        \/ \E i \in DOMAIN toUser : PassOn(i)
        \/ \E i \in DOMAIN toGame : Obey(i)
        \/ Frame

Spec == Init /\ [][Next]_vars

(* The servers poll their sockets in every frame, and what was sent        *)
(* reliably is resent until it is there.                                   *)
FairSpec == Spec /\ WF_vars(Frame) /\ WF_vars(PassOn(1)) /\ WF_vars(Obey(1))

-----------------------------------------------------------------------------
(* Properties. *)

(* Types: the ships keep to their angles and speeds, as long as the packets*)
(* on their way and the repeated ones add up to no more than one turn.     *)
TypeOK ==
    /\ UniverseTypeOK
    /\ held \subseteq Control
    /\ toUser \in Seq(Packet) /\ toGame \in Seq(Packet)
    /\ Len(toUser) + Len(toGame) <= MaxOnWay
    /\ overtaken \in BOOLEAN /\ repeats \in 0..MaxRepeats

(* What the controls of a kind add to: held ones count, packets on their   *)
(* way are still to be counted.  A press one way does as a release of the  *)
(* other.                                                                  *)
Kind(command, dir) == [command |-> command, dir |-> dir]
Ahead(command) == {Press(Kind(command, 1)), Release(Kind(command, 2))}
Back(command)  == {Press(Kind(command, 2)), Release(Kind(command, 1))}
Count(way, packets) == Cardinality({i \in DOMAIN way : way[i] \in packets})
OnWay(packets) == Count(toUser, packets) + Count(toGame, packets)
HeldWay(command) ==
    Bit(Kind(command, 1) \in held) - Bit(Kind(command, 2) \in held)
Due(command) == HeldWay(command) - OnWay(Ahead(command)) + OnWay(Back(command))

(* The sum Turn and StopTurn keep agrees with the player's hands in        *)
(* whatever order the packets come, and is off by no more than one step for*)
(* each packet that came once more.                                        *)
TurnsBalance == ShipAt(Mine).va - Due("TURN") \in -repeats..repeats

(* So does the sum Accelerate and StopAccelerate keep while no packet comes*)
(* twice and the packets on their way are too few to make a float round.   *)
ThrustBalances ==
    repeats = 0 => ShipAt(Mine).acc = Due("ACCELERATE") * DeltaSpeed

(* "Are we accelerating?": a ship is not, once the player has released the *)
(* thrust and every packet came, each of them once.                        *)
ThrustEnds ==
    repeats = 0 /\ toUser = <<>> /\ toGame = <<>> /\ HeldWay("ACCELERATE") = 0
        => ShipAt(Mine).acc = 0

(* The brake is no sum: it does as the last packet handled says, and so    *)
(* agrees with the player only if no packet overtook another.              *)
BrakeFollowsInOrder ==
    ~overtaken /\ repeats = 0 /\ toUser = <<>> /\ toGame = <<>>
        => ShipAt(Mine).braking = (Braking \in held)

(* No ship makes two bullets within fireRate, although FIRE packets come   *)
(* late, in bunches and twice, with whatever weapon the buffer held.       *)
ShotsAreSpaced ==
    \A p, q \in Bullets :
        p # q /\ entities[p].from = entities[q].from
            => entities[p].age >= FireRate \/ entities[q].age >= FireRate

(* Reading the string by the table of buildState's comment: bytes 1-2 are  *)
(* the id, 3 the status, 4-5 the type, 6-7 x, 8-9 y, 10-11 the angle.      *)
ChunkSize == 11
Byte16(s, p, b) == LET i == (p - 1) * ChunkSize + b IN s[i] + Byte * s[i + 1]
Read(s, p) == [id |-> Byte16(s, p, 1), status |-> s[(p - 1) * ChunkSize + 3],
               type |-> Byte16(s, p, 4), x |-> Byte16(s, p, 6),
               y |-> Byte16(s, p, 8), angle |-> Byte16(s, p, 10)]

(* Values at the edges of a byte and of two, and beyond. *)
Looks == {[type |-> n % 3, x |-> Byte * Byte - n, y |-> n + 1, status |-> n % Byte,
           angle |-> n % Circle] : n \in {Byte - 1, Byte * Byte - 1}}

(* The universe the clients get is the one the game server keeps: as many  *)
(* entities, in its order, with their status, types and angles; ids and    *)
(* places are cut to two bytes.                                            *)
UniverseIsReadable ==
    \A look \in Looks :
        LET s == UniverseString(look)
        IN  /\ Len(s) = ChunkSize * Len(entities)
            /\ \A p \in DOMAIN entities :
                  Read(s, p) = [id |-> entities[p].id % (Byte * Byte),
                                status |-> Status(entities[p], look),
                                type |-> look.type,
                                x |-> look.x % (Byte * Byte),
                                y |-> look.y % (Byte * Byte),
                                angle |-> Angle(entities[p], look)]

(* No two entities of the universe have the same id, although spawned      *)
(* ships are numbered from 0 and the others from 1; and the id of the      *)
(* player's ship is the place where getEntity looks for it.                *)
UniverseIdsAreDistinct ==
    /\ \A p, q \in DOMAIN entities : p # q => entities[p].id # entities[q].id
    /\ entities[Mine].id = Mine

(* A player who at last holds the brake and nothing else comes to rest,    *)
(* unless the packets were shuffled or repeated.                           *)
HeldBrakeStops ==
    <>[](held = {Braking} /\ ~overtaken /\ repeats = 0)
        => <>[](ShipAt(Mine).speed = 0)
=============================================================================
