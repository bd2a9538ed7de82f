---------------------------- MODULE FlightProofs ----------------------------
(***************************************************************************)
(* Proofs about the flight of a ship, for any circle, speeds, fire rate,   *)
(* number of spawned ships, controls and packets on their way.             *)
(***************************************************************************)
EXTENDS Flight, SequenceTheorems, FiniteSetTheorems, FunctionTheorems,
        WellFoundedInduction, TLAPS

(* The shape of a ship, without the ranges that its angle takes part in.   *)
ShapeOfShip == [angle : Int, va : Int, acc : Int, braking : BOOLEAN,
                turning : BOOLEAN, accelerating : BOOLEAN,
                speed : 0..MaxSpeed, waited : 0..FireRate]

(* What the controls have set.                                             *)
Settings(s) == <<s.va, s.acc, s.braking>>

-----------------------------------------------------------------------------
(* Floats.                                                                 *)

(* The least of some numbers, for floats and for induction over entities.  *)
LEMMA LeastNatural ==
    ASSUME NEW T \in SUBSET Nat, T # {}
    PROVE  \E x \in T : \A y \in T : x <= y
<1>1. PICK x \in T : \A y \in T : <<y, x>> \notin OpToRel(<, Nat)
  BY NatLessThanWellFounded, WFMin
<1>2. ASSUME NEW y \in T PROVE x <= y
  <2>1. ~(y < x)
    BY <1>1 DEF OpToRel
  <2> QED BY <2>1
<1> QED BY <1>2

LEMMA GrainType ==
    ASSUME NEW n \in Int
    PROVE  Grain(n) \in Nat \ {0}
<1>1. CASE Fits(n) = {}
  BY <1>1 DEF Grain
<1>2. CASE Fits(n) # {}
  <2>1. Fits(n) \in SUBSET Nat /\ Fits(n) \subseteq Grains
    BY ShipAssumption DEF Fits
  <2>2. \E x \in Fits(n) : \A y \in Fits(n) : x =< y
    BY <1>2, <2>1, LeastNatural
  <2>3. Min(Fits(n)) \in Fits(n)
    BY <2>2 DEF Min
  <2> QED BY <1>2, <2>1, <2>3, ShipAssumption DEF Grain
<1> QED BY <1>1, <1>2

LEMMA NearestType ==
    ASSUME NEW n \in Int, NEW g \in Nat \ {0}
    PROVE  Nearest(n, g) \in Int
<1> DEFINE q == n \div g
<1>1. q \in Int
  OBVIOUS
<1>2. Nearest(n, g) = q * g \/ Nearest(n, g) = (q + 1) * g
  BY Zenon DEF Nearest
<1> HIDE DEF q
<1>3. q * g \in Int /\ (q + 1) * g \in Int
  BY <1>1
<1> QED BY <1>2, <1>3

LEMMA RoundedType == \A n \in Int : Rounded(n) \in Int
BY GrainType, NearestType DEF Rounded

(* A sum that fits the mantissa is exact.                                  *)
LEMMA RoundedExact ==
    ASSUME NEW n \in Int, -Mantissa <= n, n <= Mantissa
    PROVE  Rounded(n) = n
<1>1. Mantissa \in Nat \ {0} /\ Magnitude(n) <= Mantissa * 1
  BY ShipAssumption DEF Magnitude
<1>2. 1 \in Fits(n) /\ Fits(n) \subseteq Nat \ {0}
  BY <1>1, ShipAssumption DEF Fits
<1>3. \A x \in Fits(n) : (\A y \in Fits(n) : x =< y) => x = 1
  BY <1>2
<1>4. \A y \in Fits(n) : 1 =< y
  BY <1>2
<1>5. Min(Fits(n)) = 1
  BY <1>2, <1>3, <1>4 DEF Min
<1>6. Grain(n) = 1
  BY <1>2, <1>5 DEF Grain
<1>7. n \div 1 = n /\ n % 1 = 0 /\ n * 1 = n
  OBVIOUS
<1>8. Nearest(n, 1) = n
  <2>1. 2 * (n % 1) < 1
    BY <1>7
  <2>2. Nearest(n, 1) = (n \div 1) * 1
    BY <2>1, Zenon DEF Nearest
  <2> QED BY <1>7, <2>2
<1> QED BY <1>6, <1>8 DEF Rounded

-----------------------------------------------------------------------------
(* The controls, one by one.                                               *)

LEMMA WayType == \A dir : Way(dir) \in Int
<1> SUFFICES ASSUME NEW dir PROVE Way(dir) \in Int
  OBVIOUS
<1>1. CASE dir = 1
  <2>1. Way(dir) = 1
    BY <1>1 DEF Way
  <2> QED BY <2>1
<1>2. CASE dir = 2
  <2>1. Way(dir) = -1
    BY <1>2 DEF Way
  <2> QED BY <2>1
<1>3. CASE dir # 1 /\ dir # 2
  <2>1. Way(dir) = 0
    BY <1>3 DEF Way
  <2> QED BY <2>1
<1> QED BY <1>1, <1>2, <1>3

(* A control leaves a ship a ship, and does not say when it fired.         *)
LEMMA SteeredKeepsShape ==
    ASSUME NEW s \in ShapeOfShip, NEW c \in Control
    PROVE  /\ Pressed(s, c) \in ShapeOfShip /\ Pressed(s, c).waited = s.waited
           /\ Released(s, c) \in ShapeOfShip /\ Released(s, c).waited = s.waited
<1>1. Way(c.dir) \in Int /\ s.va \in Int /\ s.acc \in Int
  BY WayType DEF ShapeOfShip
<1>2. c.command \in {"TURN", "ACCELERATE", "DECELERATE"}
  BY FlightAssumption DEF AllControls, Turning, Accelerating, Braking
<1>3. CASE c.command = "TURN"
  <2>1. Pressed(s, c) = Turn(s, c.dir) /\ Released(s, c) = StopTurn(s, c.dir)
    BY <1>3, Zenon DEF Pressed, Released
  <2> DEFINE p == [s EXCEPT !.va = s.va + Way(c.dir)]
             r == [s EXCEPT !.va = s.va - Way(c.dir)]
  <2>2. /\ Turn(s, c.dir) = [p EXCEPT !.turning = TRUE]
        /\ StopTurn(s, c.dir) = [r EXCEPT !.turning = FALSE]
    BY Zenon DEF Turn, StopTurn
  <2>3. /\ p \in ShapeOfShip /\ p.waited = s.waited
        /\ r \in ShapeOfShip /\ r.waited = s.waited
    BY <1>1 DEF ShapeOfShip
  <2> HIDE DEF p, r
  <2>4. /\ [p EXCEPT !.turning = TRUE] \in ShapeOfShip
        /\ [p EXCEPT !.turning = TRUE].waited = p.waited
    BY <2>3 DEF ShapeOfShip
  <2>5. /\ [r EXCEPT !.turning = FALSE] \in ShapeOfShip
        /\ [r EXCEPT !.turning = FALSE].waited = r.waited
    BY <2>3 DEF ShapeOfShip
  <2> QED BY <2>1, <2>2, <2>3, <2>4, <2>5
<1>4. CASE c.command = "ACCELERATE"
  <2>1. /\ Pressed(s, c) = Accelerate(s, c.dir)
        /\ Released(s, c) = StopAccelerate(s, c.dir)
    BY <1>4, Zenon DEF Pressed, Released
  <2> DEFINE more == Rounded(s.acc + Way(c.dir) * DeltaSpeed)
             less == Rounded(s.acc - Way(c.dir) * DeltaSpeed)
             p == [s EXCEPT !.acc = more]
             r == [s EXCEPT !.acc = less]
  <2>2. /\ Accelerate(s, c.dir) = [p EXCEPT !.accelerating = TRUE]
        /\ StopAccelerate(s, c.dir) = [r EXCEPT !.accelerating = FALSE]
    BY Zenon DEF Accelerate, StopAccelerate
  <2>a. more \in Int /\ less \in Int
    <3>1. DeltaSpeed \in Int
      BY ShipAssumption
    <3>2. Way(c.dir) * DeltaSpeed \in Int
      BY <1>1, <3>1
    <3> QED BY <1>1, <3>2, RoundedType
  <2> HIDE DEF more, less
  <2>3. /\ p \in ShapeOfShip /\ p.waited = s.waited
        /\ r \in ShapeOfShip /\ r.waited = s.waited
    BY <2>a DEF ShapeOfShip
  <2> HIDE DEF p, r
  <2>4. /\ [p EXCEPT !.accelerating = TRUE] \in ShapeOfShip
        /\ [p EXCEPT !.accelerating = TRUE].waited = p.waited
    BY <2>3 DEF ShapeOfShip
  <2>5. /\ [r EXCEPT !.accelerating = FALSE] \in ShapeOfShip
        /\ [r EXCEPT !.accelerating = FALSE].waited = r.waited
    BY <2>3 DEF ShapeOfShip
  <2> QED BY <2>1, <2>2, <2>3, <2>4, <2>5
<1>5. CASE c.command = "DECELERATE"
  <2>1. Pressed(s, c) = Decelerate(s) /\ Released(s, c) = StopDecelerate(s)
    BY <1>5, Zenon DEF Pressed, Released
  <2> QED BY <2>1 DEF ShapeOfShip, Decelerate, StopDecelerate
<1> QED BY <1>2, <1>3, <1>4, <1>5

-----------------------------------------------------------------------------
(* The entities.                                                           *)

ShipEntity   == [kind : {"ship"}, id : Int, ship : ShapeOfShip]
BulletEntity == [kind : {"bullet"}, id : Int, from : Int, age : 0..FireRate]
Entity       == ShipEntity \cup BulletEntity

(* Spawned ships are numbered from 0, what comes later by its place, and   *)
(* every bullet is a shot of the player's that is older than the time its  *)
(* ship has waited since the last one.                                     *)
EntitiesInv ==
    /\ entities \in Seq(Entity)
    /\ Mine \in DOMAIN entities
    /\ entities[Mine].kind = "ship"
    /\ \A p \in DOMAIN entities : entities[p].id = IF p <= Spawned THEN p - 1 ELSE p
    /\ \A p \in Bullets : /\ entities[p].from = Mine
                          /\ entities[p].age >= entities[Mine].ship.waited
    /\ ShotsAreSpaced

WayInv == toUser \in Seq(Packet) /\ toGame \in Seq(Packet)

LEMMA EntityFields ==
    ASSUME EntitiesInv
    PROVE  /\ DOMAIN entities = 1..Len(entities) /\ Len(entities) \in Nat
           /\ \A p \in DOMAIN entities :
                 /\ entities[p] \in Entity
                 /\ entities[p].kind = "ship" => entities[p] \in ShipEntity
                 /\ entities[p].kind = "bullet" => entities[p] \in BulletEntity
           /\ Spawned \in Nat /\ Mine = Spawned + 1
<1>1. /\ DOMAIN entities = 1..Len(entities) /\ Len(entities) \in Nat
      /\ \A p \in DOMAIN entities : entities[p] \in Entity
  BY LenProperties, ElementOfSeq DEF EntitiesInv
<1> QED BY <1>1, UniverseAssumption DEF Entity, ShipEntity, BulletEntity, Mine

(* Entities that stay what they are, with shots that only grow older.      *)
LEMMA EntitiesStay ==
    ASSUME EntitiesInv, entities' \in Seq(Entity), DOMAIN entities' = DOMAIN entities,
           \A p \in DOMAIN entities : /\ entities'[p].kind = entities[p].kind
                                      /\ entities'[p].id = entities[p].id,
           \A p \in Bullets : /\ entities'[p].from = entities[p].from
                              /\ entities'[p].age >= entities[p].age
                              /\ entities'[p].age \in 0..FireRate
                              /\ entities'[p].age >= entities'[Mine].ship.waited
    PROVE  EntitiesInv'
<1>1. Mine \in DOMAIN entities' /\ entities'[Mine].kind = "ship" /\ Mine' = Mine
  BY DEF EntitiesInv, Mine
<1>2. Bullets' = Bullets
  BY DEF Bullets
<1>3. ASSUME NEW p \in Bullets, NEW q \in Bullets, p # q,
             entities'[p].from = entities'[q].from
      PROVE  entities'[p].age >= FireRate \/ entities'[q].age >= FireRate
  <2>1. entities[p].age >= FireRate \/ entities[q].age >= FireRate
    BY <1>3 DEF EntitiesInv, ShotsAreSpaced
  <2>2. /\ entities[p].age \in 0..FireRate /\ entities[q].age \in 0..FireRate
        /\ entities'[p].age \in 0..FireRate /\ entities'[q].age \in 0..FireRate
        /\ entities'[p].age >= entities[p].age /\ entities'[q].age >= entities[q].age
    BY EntityFields DEF Bullets, BulletEntity
  <2> QED BY <2>1, <2>2, ShipAssumption
<1>4. ShotsAreSpaced'
  BY <1>2, <1>3 DEF ShotsAreSpaced
<1> QED BY <1>1, <1>2, <1>4 DEF EntitiesInv

(* One ship changes.                                                       *)
LEMMA OneShip ==
    ASSUME EntitiesInv, NEW s \in ShapeOfShip, s.waited <= entities[Mine].ship.waited
    PROVE  LET es == [entities EXCEPT ![Mine].ship = s]
           IN  /\ es \in Seq(Entity) /\ DOMAIN es = DOMAIN entities
               /\ es[Mine].ship = s
               /\ \A p \in DOMAIN entities : /\ es[p].kind = entities[p].kind
                                             /\ es[p].id = entities[p].id
               /\ \A p \in Bullets : es[p] = entities[p]
<1> DEFINE e == [entities[Mine] EXCEPT !.ship = s]
           es == [entities EXCEPT ![Mine].ship = s]
<1>1. entities[Mine] \in ShipEntity /\ Mine \in DOMAIN entities
  BY EntityFields DEF EntitiesInv
<1>2. e \in ShipEntity /\ e.ship = s /\ e.kind = "ship" /\ e.id = entities[Mine].id
  BY <1>1 DEF ShipEntity
<1>3. es = [entities EXCEPT ![Mine] = e]
  OBVIOUS
<1> HIDE DEF e
<1>4. /\ DOMAIN es = DOMAIN entities /\ es[Mine] = e
      /\ \A p \in DOMAIN entities : p # Mine => es[p] = entities[p]
  BY <1>1, <1>3
<1>5. es \in Seq(Entity)
  BY <1>1, <1>2, <1>3, ExceptSeq DEF Entity, EntitiesInv
<1> HIDE DEF es
<1>6. \A p \in Bullets : p # Mine /\ p \in DOMAIN entities
  BY DEF EntitiesInv, Bullets
<1>7. entities[Mine].kind = "ship"
  BY DEF EntitiesInv
<1>8. /\ es[Mine].ship = s
      /\ \A p \in DOMAIN entities : /\ es[p].kind = entities[p].kind
                                    /\ es[p].id = entities[p].id
      /\ \A p \in Bullets : es[p] = entities[p]
  BY <1>2, <1>4, <1>6, <1>7
<1> QED BY <1>4, <1>5, <1>8 DEF es

(* The ship of the player changes, and has not waited longer since a shot. *)
LEMMA ShipChanges ==
    ASSUME EntitiesInv, NEW s \in ShapeOfShip, s.waited <= entities[Mine].ship.waited,
           entities' = [entities EXCEPT ![Mine].ship = s]
    PROVE  EntitiesInv'
<1> DEFINE es == [entities EXCEPT ![Mine].ship = s]
<1>1. /\ es \in Seq(Entity) /\ DOMAIN es = DOMAIN entities
      /\ es[Mine].ship = s
      /\ \A p \in DOMAIN entities : es[p].kind = entities[p].kind /\ es[p].id = entities[p].id
      /\ \A p \in Bullets : es[p] = entities[p]
  BY OneShip
<1>2. entities' = es
  OBVIOUS
<1> HIDE DEF es
<1>3. entities[Mine] \in ShipEntity /\ s.waited \in 0..FireRate
      /\ entities[Mine].ship.waited \in 0..FireRate
  BY EntityFields DEF EntitiesInv, ShipEntity, ShapeOfShip
<1>4. ASSUME NEW p \in Bullets
      PROVE  /\ es[p].age >= entities[p].age /\ es[p].age \in 0..FireRate
             /\ es[p].age >= s.waited
  <2>1. /\ entities[p].age \in 0..FireRate /\ es[p] = entities[p]
        /\ entities[p].age >= entities[Mine].ship.waited
    BY <1>1, EntityFields DEF Bullets, BulletEntity, EntitiesInv
  <2> QED BY <1>3, <2>1, ShipAssumption
<1> QED BY <1>1, <1>2, <1>4, EntitiesStay

LEMMA ObeyKeepsShips ==
    ASSUME EntitiesInv, NEW c \in Control,
           \/ Steer(Mine, LAMBDA s : Pressed(s, c))
           \/ Steer(Mine, LAMBDA s : Released(s, c))
    PROVE  EntitiesInv'
<1> DEFINE s == entities[Mine].ship
<1>1. entities[Mine] \in ShipEntity /\ s \in ShapeOfShip /\ IsShip(Mine)
  BY EntityFields DEF EntitiesInv, IsShip, ShipEntity
<1>2. s.waited <= s.waited
  BY <1>1 DEF ShapeOfShip
<1>3. \/ entities' = [entities EXCEPT ![Mine].ship = Pressed(s, c)]
      \/ entities' = [entities EXCEPT ![Mine].ship = Released(s, c)]
  BY <1>1 DEF Steer
<1>4. /\ Pressed(s, c) \in ShapeOfShip /\ Pressed(s, c).waited = s.waited
      /\ Released(s, c) \in ShapeOfShip /\ Released(s, c).waited = s.waited
  BY <1>1, SteeredKeepsShape
<1> QED BY <1>2, <1>3, <1>4, ShipChanges

(* A new bullet, of a ship that has just fired and had waited long enough. *)
LEMMA BulletJoins ==
    ASSUME EntitiesInv, NEW s \in ShapeOfShip, s.waited = 0,
           entities[Mine].ship.waited = FireRate,
           entities' = Append([entities EXCEPT ![Mine].ship = s],
                              Bullet(Len(entities) + 1, Mine))
    PROVE  EntitiesInv'
<1> DEFINE es  == [entities EXCEPT ![Mine].ship = s]
           n   == Len(entities)
           new == Bullet(n + 1, Mine)
<1>1. /\ DOMAIN entities = 1..n /\ n \in Nat /\ Spawned \in Nat /\ Mine = Spawned + 1
      /\ Mine \in 1..n
      /\ entities[Mine].ship.waited \in 0..FireRate
  BY EntityFields DEF EntitiesInv, ShipEntity, ShapeOfShip
<1>2. s.waited <= entities[Mine].ship.waited
  BY ShipAssumption
<1>3. /\ es \in Seq(Entity) /\ DOMAIN es = DOMAIN entities
      /\ es[Mine].ship = s
      /\ \A p \in DOMAIN entities : es[p].kind = entities[p].kind /\ es[p].id = entities[p].id
      /\ \A p \in Bullets : es[p] = entities[p]
  BY <1>2, OneShip
<1>4. /\ new \in Entity /\ new.kind = "bullet" /\ new.id = n + 1
      /\ new.from = Mine /\ new.age = 0
  BY <1>1, ShipAssumption DEF Bullet, Entity, BulletEntity
<1>5. entities' = Append(es, new)
  OBVIOUS
<1> HIDE DEF es, new
<1>6. Len(es) = n
  BY <1>1, <1>3, LenProperties
<1>7. /\ entities' \in Seq(Entity) /\ Len(entities') = n + 1
      /\ \A p \in 1..n : entities'[p] = es[p]
      /\ entities'[n + 1] = new
  <2>1. /\ Append(es, new) \in Seq(Entity)
        /\ Len(Append(es, new)) = Len(es) + 1
        /\ \A p \in 1..Len(es) : Append(es, new)[p] = es[p]
        /\ Append(es, new)[Len(es) + 1] = new
    BY <1>3, <1>4, AppendProperties
  <2> HIDE DEF n
  <2> QED BY <1>5, <1>6, <2>1
<1>8. DOMAIN entities' = 1..(n + 1)
  BY <1>7, LenProperties
<1> HIDE DEF n
<1>9. Bullets' = Bullets \cup {n + 1}
  <2>1. \A p \in 1..(n + 1) : p \in 1..n \/ p = n + 1
    BY <1>1
  <2>2. 1..n \subseteq 1..(n + 1) /\ n + 1 \in 1..(n + 1) /\ n + 1 \notin 1..n
    BY <1>1
  <2> QED BY <1>1, <1>3, <1>4, <1>7, <1>8, <2>1, <2>2 DEF Bullets
<1>10. ASSUME NEW p \in Bullets
       PROVE  /\ entities'[p] = entities[p] /\ entities[p].age \in 0..FireRate
              /\ entities[p].age >= FireRate /\ entities[p].from = Mine
  <2>1. /\ entities[p].age >= entities[Mine].ship.waited /\ p \in 1..n
        /\ entities[p].from = Mine
    BY <1>1 DEF EntitiesInv, Bullets
  <2>2. entities[p].age \in 0..FireRate
    BY EntityFields DEF Bullets, BulletEntity
  <2> QED BY <1>3, <1>7, <2>1, <2>2
<1>11. /\ Mine' = Mine /\ entities'[Mine].ship = s /\ Mine \in DOMAIN entities'
       /\ entities'[Mine].kind = "ship"
  <2>1. Mine \in 1..(n + 1)
    BY <1>1
  <2> QED BY <1>1, <1>3, <1>7, <1>8, <2>1 DEF Mine, EntitiesInv
<1>12. \A p \in DOMAIN entities' :
           entities'[p].id = IF p <= Spawned THEN p - 1 ELSE p
  <2>1. \A p \in 1..n : entities'[p].id = IF p <= Spawned THEN p - 1 ELSE p
    BY <1>1, <1>3, <1>7 DEF EntitiesInv
  <2>2. entities'[n + 1].id = n + 1 /\ ~(n + 1 <= Spawned)
    BY <1>1, <1>4, <1>7
  <2>3. \A p \in 1..(n + 1) : p \in 1..n \/ p = n + 1
    BY <1>1
  <2> QED BY <1>8, <2>1, <2>2, <2>3
<1>13. \A p \in Bullets' : /\ entities'[p].from = Mine
                           /\ entities'[p].age >= entities'[Mine].ship.waited
  <2>1. entities'[Mine].ship.waited = 0
    BY <1>11
  <2>2. entities'[n + 1].from = Mine /\ entities'[n + 1].age >= 0
    BY <1>4, <1>7
  <2>3. ASSUME NEW p \in Bullets
        PROVE  entities'[p].from = Mine /\ entities'[p].age >= 0
    <3>1. /\ entities'[p] = entities[p] /\ entities[p].age \in 0..FireRate
          /\ entities[p].from = Mine
      BY <1>10
    <3>2. entities'[p].age \in 0..FireRate /\ entities'[p].from = Mine
      BY <3>1
    <3>3. \A a \in 0..FireRate : a >= 0
      BY ShipAssumption
    <3> QED BY <3>2, <3>3, Zenon
  <2>4. ASSUME NEW p \in Bullets'
        PROVE  entities'[p].from = Mine /\ entities'[p].age >= 0
    <3>1. p \in Bullets \/ p = n + 1
      BY <1>9, <2>4
    <3> QED BY <2>2, <2>3, <3>1, Zenon
  <2> QED BY <2>1, <2>4
<1>14. ShotsAreSpaced'
  <2>1. \A p, q \in Bullets' : p # q => entities'[p].age >= FireRate \/ entities'[q].age >= FireRate
    BY <1>9, <1>10
  <2> QED BY <2>1 DEF ShotsAreSpaced
<1> QED BY <1>7, <1>11, <1>12, <1>13, <1>14 DEF EntitiesInv

LEMMA ShootKeepsSpacing ==
    ASSUME EntitiesInv, NEW w, Shoot(Mine, w)
    PROVE  EntitiesInv'
<1> DEFINE s == entities[Mine].ship
<1>1. entities[Mine] \in ShipEntity /\ s \in ShapeOfShip /\ IsShip(Mine)
  BY EntityFields DEF EntitiesInv, IsShip, ShipEntity
<1>2. s.waited \in 0..FireRate /\ Fired(s) \in ShapeOfShip /\ Fired(s).waited = 0
  BY <1>1, ShipAssumption DEF Fired, ShapeOfShip
<1>3. CASE UNCHANGED entities
  BY <1>3 DEF EntitiesInv, Mine, Bullets, ShotsAreSpaced
<1>4. CASE s.waited >= FireRate /\ entities' = [entities EXCEPT ![Mine].ship = Fired(s)]
  <2>1. Fired(s).waited <= s.waited
    BY <1>2
  <2> QED BY <1>2, <1>4, <2>1, ShipChanges
<1>5. CASE /\ s.waited >= FireRate
           /\ entities' = Append([entities EXCEPT ![Mine].ship = Fired(s)],
                                 Bullet(Len(entities) + 1, Mine))
  <2>1. s.waited = FireRate
    BY <1>2, <1>5, ShipAssumption
  <2> QED BY <1>2, <1>5, <2>1, BulletJoins
<1> QED BY <1>1, <1>3, <1>4, <1>5 DEF Shoot, ShipAt, MayFire

(* A frame moves every ship and lets time pass for ships and bullets.      *)
LEMMA FrameAges ==
    ASSUME EntitiesInv, UniverseFrame
    PROVE  /\ EntitiesInv' /\ DOMAIN entities' = DOMAIN entities
           /\ \A p \in DOMAIN entities :
                 LET s == entities[p].ship
                 IN  /\ entities'[p].kind = entities[p].kind
                     /\ entities[p].kind = "ship" =>
                           /\ Settings(entities'[p].ship) = Settings(s)
                           /\ entities'[p].ship.angle = Normal(s.angle + s.va)
<1>1. PICK v \in [Ships(entities) -> 0..MaxSpeed] :
          LET f == [p \in DOMAIN entities |->
                        IF p \in Ships(entities)
                        THEN [entities[p] EXCEPT !.ship = Moved(@, v[p])]
                        ELSE entities[p]]
          IN  entities' = [p \in DOMAIN f |-> Aged(f[p])]
  <2>1. PICK f \in Motions(entities) : entities' = [p \in DOMAIN f |-> Aged(f[p])]
    BY DEF UniverseFrame
  <2>2. PICK v \in [Ships(entities) -> 0..MaxSpeed] :
            f = [p \in DOMAIN entities |->
                    IF p \in Ships(entities)
                    THEN [entities[p] EXCEPT !.ship = Moved(@, v[p])]
                    ELSE entities[p]]
    BY Zenon DEF Motions
  <2> QED BY <2>1, <2>2
<1> DEFINE moved(p) == [entities[p] EXCEPT !.ship = Moved(entities[p].ship, v[p])]
<1>2. /\ DOMAIN entities' = DOMAIN entities
      /\ \A p \in DOMAIN entities :
            entities'[p] = IF entities[p].kind = "ship" THEN Aged(moved(p))
                                                        ELSE Aged(entities[p])
  BY <1>1 DEF Ships
<1>3. /\ DOMAIN entities = 1..Len(entities) /\ Len(entities) \in Nat
      /\ Mine \in DOMAIN entities /\ entities[Mine].kind = "ship"
      /\ entities[Mine] \in ShipEntity
      /\ entities[Mine].ship.waited \in 0..FireRate
  BY EntityFields DEF EntitiesInv, ShipEntity, ShapeOfShip
<1>4. ASSUME NEW p \in DOMAIN entities, entities[p].kind = "ship"
      PROVE  /\ entities'[p] \in ShipEntity /\ entities'[p].id = entities[p].id
             /\ entities'[p].ship.waited
                  = IF entities[p].ship.waited < FireRate
                    THEN entities[p].ship.waited + 1 ELSE entities[p].ship.waited
             /\ Settings(entities'[p].ship) = Settings(entities[p].ship)
             /\ entities'[p].ship.angle
                  = Normal(entities[p].ship.angle + entities[p].ship.va)
  <2> DEFINE s == entities[p].ship
             a == Normal(s.angle + s.va)
             t == [s EXCEPT !.speed = v[p]]
             u == [t EXCEPT !.angle = a]
             e == moved(p)
             w == Waited(u)
  <2>1. entities[p] \in ShipEntity /\ s \in ShapeOfShip /\ v[p] \in 0..MaxSpeed
    BY <1>4, EntityFields DEF ShipEntity, Ships
  <2>2. a \in Int
    BY <2>1, ShipAssumption DEF Normal, ShapeOfShip
  <2> HIDE DEF a
  <2>3. /\ t \in ShapeOfShip /\ t.waited = s.waited
        /\ Settings(t) = Settings(s)
    BY <2>1 DEF ShapeOfShip, Settings
  <2>4. /\ u \in ShapeOfShip /\ u.waited = s.waited
        /\ Settings(u) = Settings(s) /\ u.angle = a
    <3> HIDE DEF t
    <3> QED BY <2>2, <2>3 DEF ShapeOfShip, Settings
  <2>5. Moved(s, v[p]) = u
    BY Zenon DEF Moved, a
  <2> HIDE DEF u
  <2>6. e \in ShipEntity /\ e.ship = u /\ e.kind = "ship" /\ e.id = entities[p].id
    BY <2>1, <2>4, <2>5 DEF ShipEntity
  <2>7. /\ w \in ShapeOfShip
        /\ w.waited = IF u.waited < FireRate THEN u.waited + 1 ELSE u.waited
        /\ Settings(w) = Settings(u) /\ w.angle = u.angle
    <3>1. (IF u.waited < FireRate THEN u.waited + 1 ELSE u.waited) \in 0..FireRate
      BY <2>4, ShipAssumption DEF ShapeOfShip
    <3> QED BY <2>4, <3>1 DEF Waited, ShapeOfShip, Settings
  <2> HIDE DEF w, e
  <2>8. Aged(e) = [e EXCEPT !.ship = w]
    BY <2>6 DEF Aged, w
  <2>9. Aged(e) \in ShipEntity /\ Aged(e).id = e.id /\ Aged(e).ship = w
    BY <2>6, <2>7, <2>8 DEF ShipEntity
  <2>10. entities'[p] = Aged(e)
    BY <1>2, <1>4 DEF e
  <2> QED BY <2>4, <2>6, <2>7, <2>9, <2>10 DEF a
<1>5. ASSUME NEW p \in Bullets
      PROVE  /\ p \in DOMAIN entities /\ entities[p] \in BulletEntity
             /\ entities'[p] \in BulletEntity /\ entities'[p].id = entities[p].id
             /\ entities'[p].from = entities[p].from
             /\ entities'[p].age = IF entities[p].age < FireRate
                                   THEN entities[p].age + 1 ELSE entities[p].age
  <2> DEFINE b == entities[p]
             k == IF b.age < FireRate THEN b.age + 1 ELSE b.age
  <2>1. p \in DOMAIN entities /\ b \in BulletEntity /\ b.kind = "bullet"
    BY EntityFields DEF Bullets
  <2>2. entities'[p] = [b EXCEPT !.age = k]
    BY <1>2, <2>1 DEF Aged
  <2>3. k \in 0..FireRate
    BY <2>1, ShipAssumption DEF BulletEntity
  <2> HIDE DEF k
  <2>4. /\ entities'[p] \in BulletEntity /\ entities'[p].id = b.id
        /\ entities'[p].from = b.from /\ entities'[p].age = k
    BY <2>1, <2>2, <2>3 DEF BulletEntity
  <2> QED BY <2>1, <2>4 DEF k
<1>6. \A p \in DOMAIN entities : entities[p].kind = "ship" \/ p \in Bullets
  BY EntityFields DEF Entity, ShipEntity, BulletEntity, Bullets
<1>7. \A p \in DOMAIN entities : /\ entities'[p] \in Entity
                                 /\ entities'[p].kind = entities[p].kind
                                 /\ entities'[p].id = entities[p].id
  BY <1>4, <1>5, <1>6 DEF Entity, ShipEntity, BulletEntity
<1>8. entities' \in Seq(Entity)
  <2>1. entities' = [p \in DOMAIN entities |-> entities'[p]]
    BY <1>1
  <2>2. \A p \in 1..Len(entities) : entities'[p] \in Entity
    BY <1>3, <1>7
  <2> QED BY <1>3, <2>1, <2>2, SeqDef
<1>9. ASSUME NEW p \in Bullets
      PROVE  /\ entities'[p].age >= entities[p].age
             /\ entities'[p].age \in 0..FireRate
             /\ entities'[p].age >= entities'[Mine].ship.waited
  <2> DEFINE a == entities[p].age
             w == entities[Mine].ship.waited
  <2>1. a \in 0..FireRate /\ w \in 0..FireRate /\ a >= w
    BY <1>3, <1>5 DEF BulletEntity, EntitiesInv
  <2>2. /\ entities'[p].age = IF a < FireRate THEN a + 1 ELSE a
        /\ entities'[Mine].ship.waited = IF w < FireRate THEN w + 1 ELSE w
    BY <1>3, <1>4, <1>5
  <2> HIDE DEF a, w
  <2>3. LET k == IF a < FireRate THEN a + 1 ELSE a
        IN  k >= a /\ k \in 0..FireRate /\ k >= IF w < FireRate THEN w + 1 ELSE w
    BY <2>1, ShipAssumption
  <2> QED BY <2>2, <2>3 DEF a
<1>10. EntitiesInv'
  BY <1>2, <1>5, <1>7, <1>8, <1>9, EntitiesStay
<1> QED BY <1>2, <1>4, <1>7, <1>10

-----------------------------------------------------------------------------
(* The packets.                                                            *)

LEMMA TakenWay ==
    ASSUME NEW way \in Seq(Packet), NEW i \in DOMAIN way
    PROVE  way[i] \in Packet /\ RemoveAt(way, i) \in Seq(Packet)
<1>1. Len(way) \in Nat /\ i \in 1..Len(way) /\ way[i] \in Packet
  BY LenProperties, ElementOfSeq
<1>2. SubSeq(way, 1, i - 1) \in Seq(Packet)
  <2>1. \A k \in 1..(i - 1) : way[k] \in Packet
    BY <1>1, ElementOfSeq
  <2> QED BY <1>1, <2>1, SubSeqProperties
<1>3. SubSeq(way, i + 1, Len(way)) \in Seq(Packet)
  BY <1>1, SubSeqProperties
<1> QED BY <1>1, <1>2, <1>3, ConcatProperties DEF RemoveAt

LEMMA LeftWay ==
    ASSUME NEW way \in Seq(Packet), NEW i \in DOMAIN way, NEW way2, Left(way, i, way2)
    PROVE  way2 \in Seq(Packet)
BY TakenWay DEF Left

(* Before the flight: the spawned ships, and the player's.                 *)
LEMMA FirstEntities ==
    ASSUME Init
    PROVE  /\ entities \in Seq(Entity) /\ DOMAIN entities = 1..Mine
           /\ Len(entities) = Mine
           /\ \A p \in 1..Spawned : /\ entities[p] = Spawn(p)
                                    /\ Spawn(p).kind = "ship" /\ Spawn(p).id = p - 1
                                    /\ Spawn(p).ship.angle = 0
                                    /\ Spawn(p).ship.va \in -1..1
           /\ entities[Mine] = ClientShip(Mine)
<1> DEFINE spawned == [i \in 1..Spawned |-> Spawn(i)]
           mine    == ClientShip(Mine)
<1>1. Spawned \in Nat /\ Mine = Spawned + 1
  BY UniverseAssumption DEF Mine
<1>2. NewShip \in ShapeOfShip
  BY ShipAssumption DEF NewShip, ShapeOfShip
<1>3. ASSUME NEW i \in 1..Spawned
      PROVE  /\ Spawn(i) \in Entity /\ Spawn(i).kind = "ship" /\ Spawn(i).id = i - 1
             /\ Spawn(i).ship.angle = 0 /\ Spawn(i).ship.va \in -1..1
  <2> DEFINE dir == ((i - 1) % 2) + 1
             t   == [NewShip EXCEPT !.va = NewShip.va + Way(dir)]
  <2>1. Way(dir) \in Int /\ NewShip.va \in Int
    BY <1>2, WayType DEF ShapeOfShip
  <2>2. t \in ShapeOfShip
    <3> HIDE DEF dir
    <3> QED BY <1>2, <2>1 DEF ShapeOfShip
  <2>3. Turn(NewShip, dir) = [t EXCEPT !.turning = TRUE]
    BY Zenon DEF Turn
  <2>4. Turn(NewShip, dir) \in ShapeOfShip
    <3> HIDE DEF t, dir
    <3> QED BY <2>2, <2>3 DEF ShapeOfShip
  <2>5. Spawn(i) = [kind |-> "ship", id |-> i - 1, ship |-> Turn(NewShip, dir)]
    BY DEF Spawn
  <2>6. dir \in {1, 2}
    BY <1>1
  <2> HIDE DEF dir
  <2>7. Way(dir) \in -1..1
    <3>1. Way(1) = 1 /\ Way(2) = -1
      BY DEF Way
    <3> QED BY <2>6, <3>1
  <2>8. Turn(NewShip, dir).angle = 0 /\ Turn(NewShip, dir).va = 0 + Way(dir)
    BY DEF Turn, NewShip
  <2> QED BY <1>1, <2>1, <2>4, <2>5, <2>7, <2>8 DEF Entity, ShipEntity
<1>4. /\ mine \in Entity /\ mine.kind = "ship" /\ mine.id = Mine
  BY <1>1, <1>2 DEF ClientShip, Entity, ShipEntity
<1>5. spawned \in Seq(Entity) /\ Len(spawned) = Spawned
  BY <1>1, <1>3, SeqDef, LenProperties
<1>6. /\ Append(spawned, mine) \in Seq(Entity)
      /\ Len(Append(spawned, mine)) = Len(spawned) + 1
      /\ \A p \in 1..Len(spawned) : Append(spawned, mine)[p] = spawned[p]
      /\ Append(spawned, mine)[Len(spawned) + 1] = mine
  <2> HIDE DEF spawned, mine
  <2> QED BY <1>4, <1>5, AppendProperties
<1>7. entities = Append(spawned, mine)
  BY DEF Init
<1>8. entities \in Seq(Entity) /\ Len(entities) = Mine
  <2> HIDE DEF spawned, mine
  <2> QED BY <1>1, <1>5, <1>6, <1>7
<1>9. /\ DOMAIN entities = 1..Mine
      /\ \A p \in 1..Spawned : entities[p] = Spawn(p)
      /\ entities[Mine] = mine
  BY <1>1, <1>5, <1>6, <1>7, <1>8, LenProperties
<1> QED BY <1>3, <1>8, <1>9

LEMMA FlightInit == Init => EntitiesInv /\ WayInv
<1> SUFFICES ASSUME Init PROVE EntitiesInv /\ WayInv
  OBVIOUS
<1>1. Spawned \in Nat /\ Mine = Spawned + 1
  BY UniverseAssumption DEF Mine
<1>8. /\ entities \in Seq(Entity) /\ DOMAIN entities = 1..Mine
      /\ \A p \in 1..Spawned : entities[p].kind = "ship" /\ entities[p].id = p - 1
      /\ entities[Mine].kind = "ship" /\ entities[Mine].id = Mine
  BY FirstEntities DEF ClientShip
<1>9. \A p \in DOMAIN entities :
          /\ entities[p].kind = "ship"
          /\ entities[p].id = IF p <= Spawned THEN p - 1 ELSE p
  <2>1. ASSUME NEW p \in 1..(Spawned + 1)
        PROVE  \/ p \in 1..Spawned /\ p <= Spawned
               \/ p = Spawned + 1 /\ ~(p <= Spawned)
    <3>1. p \in Nat /\ 1 <= p /\ p <= Spawned + 1
      BY <1>1
    <3>2. CASE p <= Spawned
      BY <1>1, <3>1, <3>2
    <3>3. CASE ~(p <= Spawned)
      BY <1>1, <3>1, <3>3
    <3> QED BY <3>2, <3>3
  <2>2. ASSUME NEW p \in 1..Spawned
        PROVE  entities[p].kind = "ship" /\ entities[p].id = p - 1
    BY <1>8
  <2>3. entities[Mine].kind = "ship" /\ entities[Mine].id = Mine
    BY <1>8
  <2> QED BY <1>1, <1>8, <2>1, <2>2, <2>3
<1>10. Bullets = {}
  BY <1>9 DEF Bullets
<1>11. Mine \in DOMAIN entities
  BY <1>1, <1>8
<1>12. WayInv
  BY DEF Init, WayInv
<1> QED BY <1>8, <1>9, <1>10, <1>11, <1>12 DEF EntitiesInv, ShotsAreSpaced

LEMMA FlightNext == EntitiesInv /\ WayInv /\ [Next]_vars => EntitiesInv' /\ WayInv'
<1> SUFFICES ASSUME EntitiesInv, WayInv, [Next]_vars
             PROVE  EntitiesInv' /\ WayInv'
  OBVIOUS
<1>0. ASSUME UNCHANGED entities PROVE EntitiesInv'
  BY <1>0 DEF EntitiesInv, Mine, Bullets, ShotsAreSpaced
<1>1. ASSUME NEW c \in Control, PressControl(c) \/ ReleaseControl(c)
      PROVE  EntitiesInv' /\ WayInv'
  <2>1. {Press(c), Release(c)} \subseteq Packet
    BY DEF Packet
  <2>2. /\ \E p \in Packet : toUser' = Append(toUser, p)
        /\ UNCHANGED <<entities, toGame>>
    BY <1>1, <2>1 DEF PressControl, ReleaseControl
  <2>3. WayInv'
    BY <2>2, AppendProperties DEF WayInv
  <2> QED BY <1>0, <2>2, <2>3
<1>2. CASE PullTrigger
  <2>1. Fire(0) \in Packet
    BY DEF Packet, WeaponByte
  <2> QED BY <1>0, <1>2, <2>1, AppendProperties DEF PullTrigger, WayInv
<1>3. ASSUME NEW i \in DOMAIN toUser, PassOn(i) PROVE EntitiesInv' /\ WayInv'
  <2>1. toUser' \in Seq(Packet) /\ toUser[i] \in Packet
    BY <1>3, LeftWay, TakenWay DEF PassOn, WayInv
  <2>2. PassedOn(toUser[i]) \subseteq Packet
    BY <2>1 DEF PassedOn, Packet
  <2>3. PICK p \in Packet : toGame' = Append(toGame, p)
    BY <1>3, <2>2 DEF PassOn
  <2>4. toGame' \in Seq(Packet)
    BY <2>3, AppendProperties DEF WayInv
  <2> QED BY <1>0, <1>3, <2>1, <2>4 DEF PassOn, WayInv
<1>4. ASSUME NEW i \in DOMAIN toGame, Obey(i) PROVE EntitiesInv' /\ WayInv'
  <2> DEFINE p == toGame[i]
  <2>1. toGame' \in Seq(Packet) /\ p \in Packet /\ UNCHANGED toUser
    BY <1>4, LeftWay, TakenWay DEF Obey, WayInv
  <2>2. p.act \in {"press", "release"} => p.control \in Control
    BY <2>1 DEF Packet, Press, Release, Fire
  <2>3. \/ /\ p.act \in {"press", "release"}
           /\ \/ Steer(Mine, LAMBDA s : Pressed(s, p.control))
              \/ Steer(Mine, LAMBDA s : Released(s, p.control))
        \/ Shoot(Mine, p.weapon)
    BY <1>4 DEF Obey
  <2> HIDE DEF p
  <2>4. EntitiesInv'
    BY <2>2, <2>3, ObeyKeepsShips, ShootKeepsSpacing
  <2> QED BY <2>1, <2>4 DEF WayInv
<1>5. CASE Frame
  BY <1>5, FrameAges DEF Frame, UniverseFrame, WayInv
<1>6. CASE UNCHANGED vars
  BY <1>0, <1>6 DEF vars, WayInv
<1> QED BY <1>1, <1>2, <1>3, <1>4, <1>5, <1>6 DEF Next

LEMMA FlightInvariant == Spec => []EntitiesInv
<1>1. Spec => [](EntitiesInv /\ WayInv)
  BY FlightInit, FlightNext, PTL DEF Spec
<1> QED BY <1>1, PTL

(* Whatever a player does and however the packets arrive, all entities of  *)
(* the universe have ids of their own, and the player's ship is the one    *)
(* that its id finds.                                                      *)
THEOREM IdsAreDistinct == Spec => []UniverseIdsAreDistinct
<1>1. EntitiesInv => UniverseIdsAreDistinct
  <2> SUFFICES ASSUME EntitiesInv PROVE UniverseIdsAreDistinct
    OBVIOUS
  <2>1. \A p \in DOMAIN entities : p \in Nat /\ entities[p].id = IF p <= Spawned THEN p - 1 ELSE p
    BY EntityFields DEF EntitiesInv
  <2>2. Spawned \in Nat /\ Mine = Spawned + 1 /\ Mine \in DOMAIN entities
    BY EntityFields DEF EntitiesInv
  <2>3. ASSUME NEW p \in DOMAIN entities, NEW q \in DOMAIN entities, p # q
        PROVE  entities[p].id # entities[q].id
    BY <2>1, <2>2, <2>3
  <2>4. entities[Mine].id = Mine
    BY <2>1, <2>2
  <2> QED BY <2>3, <2>4 DEF UniverseIdsAreDistinct
<1> QED BY <1>1, FlightInvariant, PTL

(* No two shots of a ship are closer than fireRate, in whatever order, how *)
(* late and how often the FIRE packets come.                               *)
THEOREM ShotsKeepTheirDistance == Spec => []ShotsAreSpaced
<1>1. EntitiesInv => ShotsAreSpaced
  BY DEF EntitiesInv
<1> QED BY <1>1, FlightInvariant, PTL

-----------------------------------------------------------------------------
(* How many packets of a kind are on a way.                                *)

LEMMA CountBound ==
    ASSUME NEW S, NEW way \in Seq(S), NEW packets
    PROVE  Count(way, packets) \in 0..Len(way)
<1> DEFINE places == {i \in DOMAIN way : way[i] \in packets}
<1>1. Len(way) \in Nat /\ places \subseteq 1..Len(way)
  BY LenProperties
<1>2. IsFiniteSet(1..Len(way)) /\ Cardinality(1..Len(way)) = Len(way)
  BY <1>1, FS_Interval
<1>3. /\ IsFiniteSet(places) /\ Cardinality(places) \in Nat
      /\ Cardinality(places) <= Cardinality(1..Len(way))
  <2> HIDE DEF places
  <2> QED BY <1>1, <1>2, FS_Subset, FS_CardinalityType
<1> QED BY <1>1, <1>2, <1>3 DEF Count

LEMMA CountOfAppend ==
    ASSUME NEW S, NEW way \in Seq(S), NEW p \in S, NEW packets
    PROVE  Count(Append(way, p), packets)
               = Count(way, packets) + (IF p \in packets THEN 1 ELSE 0)
<1> DEFINE places == {i \in DOMAIN way : way[i] \in packets}
           more   == {i \in DOMAIN Append(way, p) : Append(way, p)[i] \in packets}
<1>1. /\ Len(way) \in Nat /\ DOMAIN way = 1..Len(way)
      /\ DOMAIN Append(way, p) = 1..(Len(way) + 1)
      /\ \A i \in 1..Len(way) : Append(way, p)[i] = way[i]
      /\ Append(way, p)[Len(way) + 1] = p
  BY AppendProperties, LenProperties
<1>2. more = IF p \in packets THEN places \cup {Len(way) + 1} ELSE places
  BY <1>1
<1>3. /\ IsFiniteSet(places) /\ Cardinality(places) \in Nat
      /\ Len(way) + 1 \notin places
  <2>1. IsFiniteSet(1..Len(way)) /\ places \subseteq 1..Len(way)
    BY <1>1, FS_Interval
  <2>2. IsFiniteSet(places) /\ Cardinality(places) \in Nat
    <3> HIDE DEF places
    <3> QED BY <2>1, FS_Subset, FS_CardinalityType
  <2> QED BY <1>1, <2>2
<1>4. Cardinality(places \cup {Len(way) + 1}) = Cardinality(places) + 1
  <2> HIDE DEF places
  <2> QED BY <1>3, FS_AddElement
<1>5. Count(Append(way, p), packets) = Cardinality(more)
      /\ Count(way, packets) = Cardinality(places)
  BY DEF Count
<1> HIDE DEF places, more
<1> QED BY <1>2, <1>3, <1>4, <1>5

LEMMA RemovedPlaces ==
    ASSUME NEW S, NEW way \in Seq(S), NEW i \in DOMAIN way
    PROVE  /\ Len(way) \in Nat /\ DOMAIN way = 1..Len(way)
           /\ DOMAIN RemoveAt(way, i) = 1..(Len(way) - 1)
           /\ Len(RemoveAt(way, i)) = Len(way) - 1
           /\ \A j \in 1..(Len(way) - 1) :
                 RemoveAt(way, i)[j] = way[IF j < i THEN j ELSE j + 1]
<1> DEFINE a == SubSeq(way, 1, i - 1)
           b == SubSeq(way, i + 1, Len(way))
<1>1. Len(way) \in Nat /\ DOMAIN way = 1..Len(way) /\ i \in 1..Len(way)
  BY LenProperties
<1>2. /\ a \in Seq(S) /\ Len(a) = i - 1
      /\ \A j \in 1..(i - 1) : a[j] = way[j]
  <2>1. \A k \in 1..(i - 1) : way[k] \in S
    BY <1>1, ElementOfSeq
  <2> QED BY <1>1, <2>1, SubSeqProperties
<1>3. /\ b \in Seq(S) /\ Len(b) = Len(way) - i
      /\ \A j \in 1..(Len(way) - i) : b[j] = way[i + j]
  <2>1. /\ Len(way) - (i + 1) + 1 = Len(way) - i
        /\ \A j \in Int : (i + 1) + j - 1 = i + j
    BY <1>1
  <2>2. \A k \in (i + 1)..Len(way) : way[k] \in S
    BY <1>1, ElementOfSeq
  <2>3. /\ b \in Seq(S)
        /\ Len(b) = IF i + 1 <= Len(way) THEN Len(way) - (i + 1) + 1 ELSE 0
        /\ \A j \in 1..(Len(way) - (i + 1) + 1) : b[j] = way[(i + 1) + j - 1]
    BY <1>1, <2>2, SubSeqProperties
  <2> HIDE DEF b
  <2>4. Len(b) = Len(way) - i
    BY <1>1, <2>3
  <2>5. ASSUME NEW j \in 1..(Len(way) - i) PROVE b[j] = way[i + j]
    <3>1. j \in 1..(Len(way) - (i + 1) + 1) /\ j \in Int
      BY <2>1
    <3>2. (i + 1) + j - 1 = i + j
      BY <1>1, <3>1
    <3> QED BY <2>3, <3>1, <3>2
  <2> QED BY <2>3, <2>4, <2>5
<1> HIDE DEF a, b
<1>4. /\ a \o b \in Seq(S) /\ Len(a \o b) = Len(way) - 1
      /\ \A j \in 1..(Len(way) - 1) :
            (a \o b)[j] = IF j < i THEN way[j] ELSE way[j + 1]
  <2>1. /\ a \o b \in Seq(S) /\ Len(a \o b) = Len(a) + Len(b)
        /\ \A j \in 1..(Len(a) + Len(b)) :
              (a \o b)[j] = IF j <= Len(a) THEN a[j] ELSE b[j - Len(a)]
    BY <1>2, <1>3, ConcatProperties
  <2>2. ASSUME NEW j \in 1..(Len(way) - 1)
        PROVE  (a \o b)[j] = IF j < i THEN way[j] ELSE way[j + 1]
    <3>1. CASE j < i
      BY <1>1, <1>2, <1>3, <2>1, <3>1
    <3>2. CASE ~(j < i)
      <4>1. j - (i - 1) \in 1..(Len(way) - i) /\ i + (j - (i - 1)) = j + 1
        BY <1>1, <3>2
      <4>2. Len(a) = i - 1 /\ j \in 1..(Len(a) + Len(b)) /\ ~(j <= Len(a))
        BY <1>1, <1>2, <1>3, <3>2
      <4>3. (a \o b)[j] = b[j - Len(a)]
        BY <2>1, <4>2
      <4> QED BY <1>3, <3>2, <4>1, <4>2, <4>3
    <3> QED BY <3>1, <3>2
  <2> QED BY <1>1, <1>2, <1>3, <2>1, <2>2
<1>5. RemoveAt(way, i) = a \o b
  BY DEF RemoveAt, a, b
<1> QED BY <1>1, <1>4, <1>5, LenProperties

LEMMA CountOfRemoved ==
    ASSUME NEW S, NEW way \in Seq(S), NEW i \in DOMAIN way, NEW packets
    PROVE  Count(RemoveAt(way, i), packets)
               = Count(way, packets) - (IF way[i] \in packets THEN 1 ELSE 0)
<1> DEFINE places == {j \in DOMAIN way : way[j] \in packets}
           rest   == {j \in DOMAIN RemoveAt(way, i) : RemoveAt(way, i)[j] \in packets}
           T      == places \ {i}
           f      == [j \in T |-> IF j < i THEN j ELSE j - 1]
<1>1. /\ Len(way) \in Nat /\ DOMAIN way = 1..Len(way) /\ i \in 1..Len(way)
      /\ DOMAIN RemoveAt(way, i) = 1..(Len(way) - 1)
      /\ \A j \in 1..(Len(way) - 1) :
            RemoveAt(way, i)[j] = way[IF j < i THEN j ELSE j + 1]
  BY RemovedPlaces
<1>2. f \in Bijection(T, rest)
  <2>1. T \subseteq 1..Len(way) /\ i \notin T
    BY <1>1
  <2>2. ASSUME NEW j \in T PROVE (IF j < i THEN j ELSE j - 1) \in rest
    <3>1. j \in 1..Len(way) /\ j # i /\ way[j] \in packets
      BY <1>1
    <3>2. CASE j < i
      BY <1>1, <3>1, <3>2
    <3>3. CASE ~(j < i)
      <4>1. j - 1 \in 1..(Len(way) - 1) /\ ~(j - 1 < i) /\ (j - 1) + 1 = j
        BY <1>1, <3>1, <3>3
      <4>2. RemoveAt(way, i)[j - 1] = way[j]
        BY <1>1, <4>1
      <4> QED BY <1>1, <3>1, <3>3, <4>1, <4>2
    <3> QED BY <3>2, <3>3
  <2>3. ASSUME NEW k \in rest
        PROVE  \E j \in T : (IF j < i THEN j ELSE j - 1) = k
    <3>1. k \in 1..(Len(way) - 1) /\ RemoveAt(way, i)[k] \in packets
      BY <1>1
    <3>2. CASE k < i
      <4>1. k \in T
        BY <1>1, <3>1, <3>2
      <4> QED BY <3>2, <4>1
    <3>3. CASE ~(k < i)
      <4>1. k + 1 \in T /\ ~(k + 1 < i) /\ (k + 1) - 1 = k
        BY <1>1, <3>1, <3>3
      <4> QED BY <4>1
    <3> QED BY <3>2, <3>3
  <2>4. \A j, k \in T : (IF j < i THEN j ELSE j - 1) = (IF k < i THEN k ELSE k - 1)
                            => j = k
    BY <1>1, <2>1
  <2> HIDE DEF T, rest
  <2>5. f \in [T -> rest]
    BY <2>2
  <2>6. \A k \in rest : \E j \in T : f[j] = k
    BY <2>3
  <2>7. \A j, k \in T : f[j] = f[k] => j = k
    BY <2>4
  <2> QED BY <2>5, <2>6, <2>7, Fun_IsBij
<1>3. IsFiniteSet(places) /\ Cardinality(places) \in Nat
  <2>1. IsFiniteSet(1..Len(way)) /\ places \subseteq 1..Len(way)
    BY <1>1, FS_Interval
  <2> HIDE DEF places
  <2> QED BY <2>1, FS_Subset, FS_CardinalityType
<1>4. /\ IsFiniteSet(T)
      /\ Cardinality(T) = Cardinality(places) - (IF i \in places THEN 1 ELSE 0)
  <2> HIDE DEF places
  <2> QED BY <1>3, FS_RemoveElement
<1>5. Cardinality(rest) = Cardinality(T)
  <2> HIDE DEF T, rest
  <2> QED BY <1>2, <1>4, FS_Bijection DEF ExistsBijection
<1>6. i \in places <=> way[i] \in packets
  BY <1>1
<1> QED BY <1>4, <1>5, <1>6 DEF Count

-----------------------------------------------------------------------------
(* The controls: what the ship was told, and what the player holds.        *)

Steering == {"TURN", "ACCELERATE"}

(* What a packet adds to the sum of a kind, and what that does to a thrust.*)
Effect(p, command) ==
    (IF p \in Ahead(command) THEN 1 ELSE 0) - (IF p \in Back(command) THEN 1 ELSE 0)
Thrust(acc, e) == IF e = 0 THEN acc ELSE Rounded(acc + e * DeltaSpeed)

LEMMA ControlKinds ==
    ASSUME NEW c \in Control
    PROVE  /\ c.command \in {"TURN", "ACCELERATE", "DECELERATE"}
           /\ c.command \in Steering => c.dir \in {1, 2}
           /\ c = Kind(c.command, c.dir)
           /\ c = Braking <=> c.command = "DECELERATE"
BY FlightAssumption
   DEF AllControls, Turning, Accelerating, Braking, Kind, Steering

LEMMA PacketEffects ==
    ASSUME NEW c \in Control, NEW command \in Steering
    PROVE  /\ Press(c) \in Ahead(command) <=> c = Kind(command, 1)
           /\ Press(c) \in Back(command) <=> c = Kind(command, 2)
           /\ Release(c) \in Ahead(command) <=> c = Kind(command, 2)
           /\ Release(c) \in Back(command) <=> c = Kind(command, 1)
           /\ Kind(command, 1) # Kind(command, 2)
           /\ Effect(Press(c), command)
                  = IF c.command = command THEN Way(c.dir) ELSE 0
           /\ Effect(Release(c), command)
                  = IF c.command = command THEN -Way(c.dir) ELSE 0
<1>1. /\ Press(c) \in Ahead(command) <=> c = Kind(command, 1)
      /\ Press(c) \in Back(command) <=> c = Kind(command, 2)
      /\ Release(c) \in Ahead(command) <=> c = Kind(command, 2)
      /\ Release(c) \in Back(command) <=> c = Kind(command, 1)
      /\ Kind(command, 1) # Kind(command, 2)
  BY DEF Ahead, Back, Press, Release, Kind
<1>2. Way(1) = 1 /\ Way(2) = -1
  BY DEF Way
<1>3. CASE c.command = command
  <2>1. c.dir \in {1, 2} /\ c = Kind(command, c.dir)
    BY <1>3, ControlKinds
  <2>2. \A d \in {1, 2} : c = Kind(command, d) <=> c.dir = d
    BY <2>1 DEF Kind
  <2> QED BY <1>1, <1>2, <1>3, <2>1, <2>2 DEF Effect
<1>4. CASE c.command # command
  <2>1. \A d : c # Kind(command, d)
    BY <1>4 DEF Kind
  <2> QED BY <1>1, <1>4, <2>1 DEF Effect
<1> QED BY <1>1, <1>3, <1>4

(* A control adds its way to its kind, or sets the brake.                  *)
LEMMA SteeredAdds ==
    ASSUME NEW s \in ShapeOfShip, NEW c \in Control
    PROVE  /\ Pressed(s, c).va = s.va + Effect(Press(c), "TURN")
           /\ Released(s, c).va = s.va + Effect(Release(c), "TURN")
           /\ Pressed(s, c).acc = Thrust(s.acc, Effect(Press(c), "ACCELERATE"))
           /\ Released(s, c).acc = Thrust(s.acc, Effect(Release(c), "ACCELERATE"))
           /\ Pressed(s, c).braking = IF c = Braking THEN TRUE ELSE s.braking
           /\ Released(s, c).braking = IF c = Braking THEN FALSE ELSE s.braking
           /\ Pressed(s, c).angle = s.angle /\ Released(s, c).angle = s.angle
<1>0. Way(c.dir) \in Int /\ s.va \in Int /\ s.acc \in Int
  BY WayType DEF ShapeOfShip
<1>1. \A command \in Steering :
         /\ Effect(Press(c), command)
                = IF c.command = command THEN Way(c.dir) ELSE 0
         /\ Effect(Release(c), command)
                = IF c.command = command THEN -Way(c.dir) ELSE 0
  BY PacketEffects
<1>2. CASE c.command = "TURN"
  <2>1. Pressed(s, c) = Turn(s, c.dir) /\ Released(s, c) = StopTurn(s, c.dir)
    BY <1>2, Zenon DEF Pressed, Released
  <2>2. /\ Pressed(s, c).va = s.va + Way(c.dir) /\ Pressed(s, c).acc = s.acc
        /\ Released(s, c).va = s.va - Way(c.dir) /\ Released(s, c).acc = s.acc
        /\ Pressed(s, c).braking = s.braking /\ Released(s, c).braking = s.braking
        /\ Pressed(s, c).angle = s.angle /\ Released(s, c).angle = s.angle
    BY <2>1 DEF Turn, StopTurn, ShapeOfShip
  <2>3. c # Braking
    BY <1>2, ControlKinds
  <2>4. /\ Effect(Press(c), "TURN") = Way(c.dir)
        /\ Effect(Release(c), "TURN") = -Way(c.dir)
        /\ Effect(Press(c), "ACCELERATE") = 0
        /\ Effect(Release(c), "ACCELERATE") = 0
    BY <1>1, <1>2 DEF Steering
  <2>5. /\ Pressed(s, c).acc = Thrust(s.acc, Effect(Press(c), "ACCELERATE"))
        /\ Released(s, c).acc = Thrust(s.acc, Effect(Release(c), "ACCELERATE"))
    BY <2>2, <2>4 DEF Thrust
  <2> QED BY <1>0, <2>2, <2>3, <2>4, <2>5
<1>3. CASE c.command = "ACCELERATE"
  <2>1. /\ Pressed(s, c) = Accelerate(s, c.dir)
        /\ Released(s, c) = StopAccelerate(s, c.dir)
    BY <1>3, Zenon DEF Pressed, Released
  <2>2. /\ Pressed(s, c).acc = Rounded(s.acc + Way(c.dir) * DeltaSpeed)
        /\ Released(s, c).acc = Rounded(s.acc - Way(c.dir) * DeltaSpeed)
        /\ Pressed(s, c).va = s.va /\ Released(s, c).va = s.va
        /\ Pressed(s, c).braking = s.braking /\ Released(s, c).braking = s.braking
        /\ Pressed(s, c).angle = s.angle /\ Released(s, c).angle = s.angle
    BY <2>1 DEF Accelerate, StopAccelerate, ShapeOfShip
  <2>3. c # Braking /\ c.dir \in {1, 2}
    BY <1>3, ControlKinds DEF Steering
  <2>4. /\ Effect(Press(c), "TURN") = 0 /\ Effect(Release(c), "TURN") = 0
        /\ Effect(Press(c), "ACCELERATE") = Way(c.dir)
        /\ Effect(Release(c), "ACCELERATE") = -Way(c.dir)
    BY <1>1, <1>3 DEF Steering
  <2>5. Way(c.dir) \in {-1, 1}
    BY <2>3 DEF Way
  <2> DEFINE w == Way(c.dir)
  <2>6. /\ Thrust(s.acc, w) = Rounded(s.acc + w * DeltaSpeed)
        /\ Thrust(s.acc, -w) = Rounded(s.acc - w * DeltaSpeed)
    <3>1. w \in {-1, 1} /\ DeltaSpeed \in Nat
      BY <2>5, ShipAssumption
    <3> HIDE DEF w
    <3>2. w # 0 /\ -w # 0 /\ s.acc + (-w) * DeltaSpeed = s.acc - w * DeltaSpeed
      BY <1>0, <3>1
    <3> QED BY <3>2 DEF Thrust
  <2>7. /\ Pressed(s, c).acc = Thrust(s.acc, Effect(Press(c), "ACCELERATE"))
        /\ Released(s, c).acc = Thrust(s.acc, Effect(Release(c), "ACCELERATE"))
    BY <2>2, <2>4, <2>6
  <2>8. s.va = s.va + 0
    BY <1>0
  <2> QED BY <2>2, <2>3, <2>4, <2>7, <2>8
<1>4. CASE c.command = "DECELERATE"
  <2>1. Pressed(s, c) = Decelerate(s) /\ Released(s, c) = StopDecelerate(s)
    BY <1>4, Zenon DEF Pressed, Released
  <2>2. /\ Pressed(s, c).acc = s.acc /\ Pressed(s, c).va = s.va
        /\ Released(s, c).acc = s.acc /\ Released(s, c).va = s.va
        /\ Pressed(s, c).braking = TRUE /\ Released(s, c).braking = FALSE
        /\ Pressed(s, c).angle = s.angle /\ Released(s, c).angle = s.angle
    BY <2>1 DEF Decelerate, StopDecelerate, ShapeOfShip
  <2>3. c = Braking
    BY <1>4, ControlKinds
  <2>4. \A command \in Steering :
           Effect(Press(c), command) = 0 /\ Effect(Release(c), command) = 0
    BY <1>1, <1>4 DEF Steering
  <2>5. s.va = s.va + 0
    BY <1>0
  <2> QED BY <2>2, <2>3, <2>4, <2>5, Zenon DEF Thrust, Steering
<1> QED BY <1>2, <1>3, <1>4, ControlKinds

(* What a packet does to the entities: a control to the player's ship, and *)
(* a shot nothing but to note its time, and to add a bullet.               *)
LEMMA SteerMoves ==
    ASSUME EntitiesInv, NEW c \in Control,
           \/ Steer(Mine, LAMBDA s : Pressed(s, c))
           \/ Steer(Mine, LAMBDA s : Released(s, c))
    PROVE  /\ DOMAIN entities' = DOMAIN entities
           /\ \A p \in DOMAIN entities : /\ entities'[p].kind = entities[p].kind
                                         /\ p # Mine => entities'[p] = entities[p]
           /\ Steer(Mine, LAMBDA s : Pressed(s, c))
                => entities'[Mine].ship = Pressed(ShipAt(Mine), c)
           /\ Steer(Mine, LAMBDA s : Released(s, c))
                => entities'[Mine].ship = Released(ShipAt(Mine), c)
<1>1. entities[Mine] \in ShipEntity /\ IsShip(Mine) /\ Mine \in DOMAIN entities
  BY EntityFields DEF EntitiesInv, IsShip
<1>2. ASSUME NEW s, entities' = [entities EXCEPT ![Mine].ship = s]
      PROVE  /\ DOMAIN entities' = DOMAIN entities
             /\ \A p \in DOMAIN entities : /\ entities'[p].kind = entities[p].kind
                                           /\ p # Mine => entities'[p] = entities[p]
             /\ entities'[Mine].ship = s
  <2> DEFINE e == [entities[Mine] EXCEPT !.ship = s]
  <2>1. e.ship = s /\ e.kind = entities[Mine].kind
    BY <1>1 DEF ShipEntity
  <2>2. entities' = [entities EXCEPT ![Mine] = e]
    BY <1>2
  <2> HIDE DEF e
  <2> QED BY <1>1, <2>1, <2>2
<1>3. /\ Steer(Mine, LAMBDA s : Pressed(s, c))
           => entities' = [entities EXCEPT ![Mine].ship = Pressed(ShipAt(Mine), c)]
      /\ Steer(Mine, LAMBDA s : Released(s, c))
           => entities' = [entities EXCEPT ![Mine].ship = Released(ShipAt(Mine), c)]
  BY <1>1 DEF Steer, ShipAt
<1> QED BY <1>2, <1>3

LEMMA ShootMoves ==
    ASSUME EntitiesInv, NEW w, Shoot(Mine, w)
    PROVE  /\ \A p \in DOMAIN entities :
                 /\ p \in DOMAIN entities' /\ entities'[p].kind = entities[p].kind
                 /\ entities[p].kind = "ship" =>
                       /\ Settings(entities'[p].ship) = Settings(entities[p].ship)
                       /\ entities'[p].ship.angle = entities[p].ship.angle
           /\ \A p \in DOMAIN entities' :
                 p \in DOMAIN entities \/ entities'[p].kind = "bullet"
           /\ Len(entities') <= MaxEntities \/ Len(entities') = Len(entities)
<1> DEFINE s == entities[Mine].ship
           n == Len(entities)
<1>0. entities[Mine] \in ShipEntity /\ s \in ShapeOfShip /\ IsShip(Mine)
      /\ DOMAIN entities = 1..n /\ n \in Nat /\ Mine \in 1..n
      /\ MaxEntities \in Nat
  BY EntityFields, UniverseAssumption DEF EntitiesInv, IsShip, ShipEntity
<1>1. /\ Fired(s) \in ShapeOfShip /\ Fired(s).waited = 0
      /\ Settings(Fired(s)) = Settings(s) /\ Fired(s).angle = s.angle
  <2>1. 0 \in 0..FireRate
    BY ShipAssumption
  <2> HIDE DEF s
  <2> QED BY <1>0, <2>1 DEF Fired, ShapeOfShip, Settings
<1> DEFINE es == [entities EXCEPT ![Mine].ship = Fired(s)]
<1>2. /\ es \in Seq(Entity) /\ DOMAIN es = DOMAIN entities
      /\ es[Mine].ship = Fired(s)
      /\ \A p \in DOMAIN entities : /\ es[p].kind = entities[p].kind
                                    /\ p # Mine => es[p] = entities[p]
  <2> DEFINE e == [entities[Mine] EXCEPT !.ship = Fired(s)]
  <2>1. e.ship = Fired(s) /\ e.kind = entities[Mine].kind
    BY <1>0 DEF ShipEntity
  <2>2. es = [entities EXCEPT ![Mine] = e]
    OBVIOUS
  <2>3. Fired(s).waited <= s.waited
    BY <1>0, <1>1, ShipAssumption DEF ShapeOfShip
  <2>4. es \in Seq(Entity)
    BY <1>1, <2>3, OneShip
  <2> HIDE DEF e
  <2>5. \A p \in DOMAIN entities : /\ es[p].kind = entities[p].kind
                                   /\ p # Mine => es[p] = entities[p]
    BY <1>0, <2>1, <2>2
  <2>6. DOMAIN es = DOMAIN entities /\ es[Mine] = e
    BY <1>0, <2>2
  <2> QED BY <2>1, <2>4, <2>5, <2>6
<1> HIDE DEF es
<1>3. Len(es) = n
  BY <1>0, <1>2, LenProperties
<1>4. ASSUME NEW p \in DOMAIN entities
      PROVE  /\ es[p].kind = entities[p].kind
             /\ entities[p].kind = "ship" =>
                   /\ Settings(es[p].ship) = Settings(entities[p].ship)
                   /\ es[p].ship.angle = entities[p].ship.angle
  BY <1>1, <1>2
<1>5. CASE UNCHANGED entities
  BY <1>5
<1>6. CASE entities' = es
  BY <1>2, <1>3, <1>4, <1>6
<1>7. CASE /\ Len(entities) < MaxEntities
           /\ entities' = Append(es, Bullet(Len(entities) + 1, Mine))
  <2> DEFINE new == Bullet(Len(entities) + 1, Mine)
  <2>1. new.kind = "bullet" /\ new \in Entity
    BY <1>0, ShipAssumption DEF Bullet, Entity, BulletEntity
  <2>2. entities' = Append(es, new)
    BY <1>7
  <2> HIDE DEF new
  <2>3. /\ entities' \in Seq(Entity) /\ Len(entities') = n + 1
        /\ \A p \in 1..n : entities'[p] = es[p]
        /\ entities'[n + 1] = new
    BY <1>2, <1>3, <2>1, <2>2, AppendProperties
  <2>4. DOMAIN entities' = 1..(n + 1)
    BY <2>3, LenProperties
  <2> HIDE DEF n
  <2>5. 1..n \subseteq 1..(n + 1) /\ \A p \in 1..(n + 1) : p \in 1..n \/ p = n + 1
    BY <1>0
  <2>6. n + 1 <= MaxEntities
    BY <1>0, <1>7 DEF n
  <2> QED BY <1>0, <1>4, <2>1, <2>3, <2>4, <2>5, <2>6
<1> QED BY <1>0, <1>5, <1>6, <1>7 DEF Shoot, ShipAt, es

BoundsInv == /\ Len(entities) <= MaxEntities
             /\ Len(toUser) + Len(toGame) <= MaxOnWay
             /\ held \subseteq Control
             /\ overtaken \in BOOLEAN /\ repeats \in 0..MaxRepeats

(* A sum agrees with what the player does but for the packets on their way,*)
(* and but for a step for each that came once more.  It stays within the   *)
(* packets there is room for: the more of them are still to turn the ship  *)
(* back, the less is held.                                                 *)
Balanced(h, e, ahead, back, r) ==
    /\ e \in -r..r
    /\ h + e + back <= MaxOnWay + r
    /\ h + e - ahead >= -(MaxOnWay + r)
Agrees(sum, command) ==
    Balanced(HeldWay(command), sum - Due(command),
             OnWay(Ahead(command)), OnWay(Back(command)), repeats)
AgreesNext(sum, command) ==
    Balanced(HeldWay(command)', sum - Due(command)',
             OnWay(Ahead(command))', OnWay(Back(command))', repeats')

LEMMA ControlNumbers ==
    ASSUME EntitiesInv, WayInv, BoundsInv, NEW command \in Steering
    PROVE  /\ HeldWay(command) \in {-1, 0, 1}
           /\ \A packets : OnWay(packets) \in 0..(Len(toUser) + Len(toGame))
           /\ ShipAt(Mine) \in ShapeOfShip
           /\ repeats \in Nat
<1>1. HeldWay(command) \in {-1, 0, 1}
  BY DEF HeldWay, Bit
<1>2. ASSUME NEW packets PROVE OnWay(packets) \in 0..(Len(toUser) + Len(toGame))
  <2>1. /\ Count(toUser, packets) \in 0..Len(toUser)
        /\ Count(toGame, packets) \in 0..Len(toGame)
    BY CountBound DEF WayInv
  <2>2. Len(toUser) \in Nat /\ Len(toGame) \in Nat
    BY LenProperties DEF WayInv
  <2> QED BY <2>1, <2>2 DEF OnWay
<1>3. ShipAt(Mine) \in ShapeOfShip
  BY EntityFields DEF EntitiesInv, ShipEntity, ShipAt
<1>4. repeats \in Nat
  BY FlightAssumption DEF BoundsInv
<1> QED BY <1>1, <1>2, <1>3, <1>4

(* Taking a packet takes one of its kind, or leaves it there once more.    *)
LEMMA LeftCounts ==
    ASSUME NEW way \in Seq(Packet), NEW i \in DOMAIN way, NEW way2,
           Left(way, i, way2), NEW packets
    PROVE  \/ /\ Count(way2, packets)
                     = Count(way, packets) - (IF way[i] \in packets THEN 1 ELSE 0)
              /\ repeats' = repeats
           \/ /\ Count(way2, packets) = Count(way, packets)
              /\ repeats' = repeats + 1
BY CountOfRemoved DEF Left

LEMMA FirePackets ==
    \A w, command : Fire(w) \notin Ahead(command) /\ Fire(w) \notin Back(command)
BY DEF Fire, Ahead, Back, Press, Release

(* The player presses and releases controls.                               *)
LEMMA HandsKeepBalance ==
    ASSUME EntitiesInv, WayInv, BoundsInv, NEW c \in Control,
           PressControl(c) \/ ReleaseControl(c),
           NEW command \in Steering, NEW a \in Int, Agrees(a, command)
    PROVE  AgreesNext(a, command)
<1> DEFINE h == HeldWay(command)
           ahead == OnWay(Ahead(command))
           back  == OnWay(Back(command))
           first  == IF c = Kind(command, 1) THEN 1 ELSE 0
           second == IF c = Kind(command, 2) THEN 1 ELSE 0
<1>1. /\ h \in {-1, 0, 1} /\ repeats \in Nat
      /\ ahead \in 0..(Len(toUser) + Len(toGame))
      /\ back \in 0..(Len(toUser) + Len(toGame))
      /\ Len(toUser) \in Nat /\ Len(toGame) \in Nat /\ MaxOnWay \in Nat
      /\ first + second <= 1 /\ first \in {0, 1} /\ second \in {0, 1}
      /\ h' \in {-1, 0, 1}
  <2>1. HeldWay(command)' \in {-1, 0, 1}
    BY DEF HeldWay, Bit
  <2> QED BY <2>1, ControlNumbers, LenProperties, FlightAssumption, PacketEffects
          DEF WayInv
<1>2. Len(toUser) + Len(toGame) < MaxOnWay /\ repeats' = repeats
  BY DEF PressControl, ReleaseControl, RoomOnWay
<1>3. /\ Balanced(h, a - (h - ahead + back), ahead, back, repeats)
      /\ Due(command)' = h' - ahead' + back'
  BY DEF Agrees, Due
<1>4. {Press(c), Release(c)} \subseteq Packet
  BY DEF Packet
<1>5. /\ Count(toUser, Ahead(command)) \in Nat
      /\ Count(toGame, Ahead(command)) \in Nat
      /\ Count(toUser, Back(command)) \in Nat
      /\ Count(toGame, Back(command)) \in Nat
      /\ Count(toGame, Ahead(command))' = Count(toGame, Ahead(command))
      /\ Count(toGame, Back(command))' = Count(toGame, Back(command))
  <2>1. /\ toUser \in Seq(Packet) /\ toGame \in Seq(Packet) /\ UNCHANGED toGame
        /\ \A n \in Nat : 0..n \subseteq Nat
    BY DEF WayInv, PressControl, ReleaseControl
  <2>2. /\ Count(toGame, Ahead(command))' = Count(toGame, Ahead(command))
        /\ Count(toGame, Back(command))' = Count(toGame, Back(command))
    BY <2>1 DEF Count, Ahead, Back, Kind, Press, Release
  <2>3. ASSUME NEW packets
        PROVE  Count(toUser, packets) \in Nat /\ Count(toGame, packets) \in Nat
    BY <1>1, <2>1, CountBound
  <2> QED BY <2>2, <2>3
<1>6. CASE PressControl(c)
  <2>1. h' = h + first - second
    BY <1>6, PacketEffects DEF PressControl, HeldWay, Bit
  <2>2. /\ Count(toUser, Ahead(command))' = Count(toUser, Ahead(command)) + first
        /\ Count(toUser, Back(command))' = Count(toUser, Back(command)) + second
    BY <1>4, <1>6, CountOfAppend, PacketEffects DEF PressControl, WayInv
  <2>3. ahead' = ahead + first /\ back' = back + second
    BY <1>5, <2>2 DEF OnWay
  <2> DEFINE e == a - (h - ahead + back)
  <2> HIDE DEF h, ahead, back, first, second
  <2>4. /\ h \in Int /\ ahead \in Int /\ back \in Int /\ e \in Int
        /\ h' - ahead' + back' = h - ahead + back
    BY <1>1, <2>1, <2>3
  <2>5. a - Due(command)' = e
    BY <1>3, <2>4
  <2>6. /\ e \in -repeats..repeats
        /\ h + e + back <= MaxOnWay + repeats
        /\ h + e - ahead >= -(MaxOnWay + repeats)
    BY <1>3 DEF Balanced
  <2> HIDE DEF e
  <2>7. /\ h' + e + back' <= MaxOnWay + repeats
        /\ h' + e - ahead' >= -(MaxOnWay + repeats)
    BY <1>1, <1>2, <2>1, <2>3, <2>4, <2>6
  <2> QED BY <1>2, <2>5, <2>6, <2>7 DEF AgreesNext, Balanced, h, ahead, back
<1>7. CASE ReleaseControl(c)
  <2>1. h' = h - first + second
    BY <1>7, PacketEffects DEF ReleaseControl, HeldWay, Bit
  <2>2. /\ Count(toUser, Ahead(command))' = Count(toUser, Ahead(command)) + second
        /\ Count(toUser, Back(command))' = Count(toUser, Back(command)) + first
    BY <1>4, <1>7, CountOfAppend, PacketEffects DEF ReleaseControl, WayInv
  <2>3. ahead' = ahead + second /\ back' = back + first
    BY <1>5, <2>2 DEF OnWay
  <2> DEFINE e == a - (h - ahead + back)
  <2> HIDE DEF h, ahead, back, first, second
  <2>4. /\ h \in Int /\ ahead \in Int /\ back \in Int /\ e \in Int
        /\ h' - ahead' + back' = h - ahead + back
    BY <1>1, <2>1, <2>3
  <2>5. a - Due(command)' = e
    BY <1>3, <2>4
  <2>6. /\ e \in -repeats..repeats
        /\ h + e + back <= MaxOnWay + repeats
        /\ h + e - ahead >= -(MaxOnWay + repeats)
    BY <1>3 DEF Balanced
  <2> HIDE DEF e
  <2>7. /\ h' + e + back' <= MaxOnWay + repeats
        /\ h' + e - ahead' >= -(MaxOnWay + repeats)
    BY <1>1, <1>2, <2>1, <2>3, <2>4, <2>6
  <2> QED BY <1>2, <2>5, <2>6, <2>7 DEF AgreesNext, Balanced, h, ahead, back
<1> QED BY <1>6, <1>7

(* The user server passes a packet on: a fire as a fire, a control as it is.*)
LEMMA PassingKeepsBalance ==
    ASSUME EntitiesInv, WayInv, BoundsInv, NEW i \in DOMAIN toUser, PassOn(i),
           NEW command \in Steering, NEW a \in Int, Agrees(a, command)
    PROVE  AgreesNext(a, command)
<1> DEFINE h == HeldWay(command)
           ahead == OnWay(Ahead(command))
           back  == OnWay(Back(command))
           p == toUser[i]
           first  == IF p \in Ahead(command) THEN 1 ELSE 0
           second == IF p \in Back(command) THEN 1 ELSE 0
<1>1. /\ h \in Int /\ ahead \in Int /\ back \in Int
      /\ MaxOnWay \in Int /\ repeats \in Nat
  <2>1. /\ ahead \in 0..(Len(toUser) + Len(toGame)) /\ h \in {-1, 0, 1}
        /\ back \in 0..(Len(toUser) + Len(toGame)) /\ repeats \in Nat
    BY ControlNumbers
  <2> HIDE DEF h, ahead, back
  <2> QED BY <2>1, FlightAssumption
<1>2. first \in {0, 1} /\ second \in {0, 1} /\ first + second <= 1
  BY PacketEffects DEF Ahead, Back, Press, Release, Kind
<1>3. /\ Balanced(h, a - (h - ahead + back), ahead, back, repeats)
      /\ Due(command)' = h' - ahead' + back' /\ h' = h
  <2>1. h' = h
    BY DEF PassOn, HeldWay, Bit, Kind
  <2> QED BY <2>1 DEF Agrees, Due
<1>4. PICK q \in Packet :
         /\ toGame' = Append(toGame, q)
         /\ q \in Ahead(command) <=> p \in Ahead(command)
         /\ q \in Back(command) <=> p \in Back(command)
  <2>1. PICK q \in PassedOn(p) : toGame' = Append(toGame, q)
    BY DEF PassOn
  <2>2. p \in Packet /\ p.act \in {"press", "release", "fire"}
    BY TakenWay DEF WayInv, Packet, Press, Release, Fire
  <2>3. CASE p.act = "fire"
    <3>1. PICK w \in WeaponByte : q = Fire(w)
      BY <2>1, <2>3 DEF PassedOn
    <3>2. PICK v : p = Fire(v)
      BY <2>2, <2>3 DEF Packet, Press, Release, Fire
    <3> QED BY <2>1, <3>1, <3>2, FirePackets DEF Packet
  <2>4. CASE p.act # "fire"
    BY <2>1, <2>2, <2>4 DEF PassedOn
  <2> QED BY <2>3, <2>4
<1>5. /\ Count(toUser, Ahead(command)) \in Nat
      /\ Count(toGame, Ahead(command)) \in Nat
      /\ Count(toUser, Back(command)) \in Nat
      /\ Count(toGame, Back(command)) \in Nat
  <2>1. ASSUME NEW packets
        PROVE  Count(toUser, packets) \in Nat /\ Count(toGame, packets) \in Nat
    BY CountBound, LenProperties DEF WayInv
  <2> QED BY <2>1
<1>6. /\ Count(toGame, Ahead(command))' = Count(toGame, Ahead(command)) + first
      /\ Count(toGame, Back(command))' = Count(toGame, Back(command)) + second
  <2>1. /\ Count(Append(toGame, q), Ahead(command))
                = Count(toGame, Ahead(command)) + first
        /\ Count(Append(toGame, q), Back(command))
                = Count(toGame, Back(command)) + second
    BY <1>4, CountOfAppend DEF WayInv
  <2> QED BY <1>4, <2>1
<1>7. \/ /\ Count(toUser, Ahead(command))' = Count(toUser, Ahead(command)) - first
         /\ Count(toUser, Back(command))' = Count(toUser, Back(command)) - second
         /\ repeats' = repeats
      \/ /\ Count(toUser, Ahead(command))' = Count(toUser, Ahead(command))
         /\ Count(toUser, Back(command))' = Count(toUser, Back(command))
         /\ repeats' = repeats + 1
  <2>1. Left(toUser, i, toUser') /\ toUser \in Seq(Packet)
    BY DEF PassOn, WayInv
  <2>2. repeats + 1 # repeats
    BY <1>1
  <2> QED BY <2>1, <2>2, LeftCounts
<1>8. \/ ahead' = ahead /\ back' = back /\ repeats' = repeats
      \/ ahead' = ahead + first /\ back' = back + second /\ repeats' = repeats + 1
  <2>1. /\ ahead = Count(toUser, Ahead(command)) + Count(toGame, Ahead(command))
        /\ back = Count(toUser, Back(command)) + Count(toGame, Back(command))
        /\ ahead' = Count(toUser, Ahead(command))' + Count(toGame, Ahead(command))'
        /\ back' = Count(toUser, Back(command))' + Count(toGame, Back(command))'
    BY DEF OnWay
  <2> HIDE DEF h, ahead, back, first, second
  <2>2. /\ Count(toUser, Ahead(command))' = Count(toUser, Ahead(command)) - first
            => ahead' = ahead
        /\ Count(toUser, Back(command))' = Count(toUser, Back(command)) - second
            => back' = back
        /\ Count(toUser, Ahead(command))' = Count(toUser, Ahead(command))
            => ahead' = ahead + first
        /\ Count(toUser, Back(command))' = Count(toUser, Back(command))
            => back' = back + second
    BY <1>2, <1>5, <1>6, <2>1
  <2> QED BY <1>7, <2>2, Zenon
<1> DEFINE e == a - (h - ahead + back)
<1>9. /\ e \in -repeats..repeats
      /\ h + e + back <= MaxOnWay + repeats
      /\ h + e - ahead >= -(MaxOnWay + repeats)
  BY <1>3 DEF Balanced
<1> HIDE DEF h, ahead, back, first, second
<1>10. e \in Int
  BY <1>1
<1>11. CASE ahead' = ahead /\ back' = back /\ repeats' = repeats
  <2>1. a - Due(command)' = e
    BY <1>1, <1>2, <1>3, <1>11
  <2> HIDE DEF e
  <2>2. h' + e + back' <= MaxOnWay + repeats /\ h' + e - ahead' >= -(MaxOnWay + repeats)
    BY <1>1, <1>2, <1>3, <1>9, <1>10, <1>11
  <2>3. Balanced(h', a - Due(command)', ahead', back', repeats')
    BY <1>9, <1>11, <2>1, <2>2 DEF Balanced
  <2> QED BY <2>3, Zenon DEF AgreesNext, h, ahead, back
<1>12. CASE ahead' = ahead + first /\ back' = back + second /\ repeats' = repeats + 1
  <2> DEFINE f == e + (first - second)
             r == repeats + 1
  <2>1. a - Due(command)' = f
    BY <1>1, <1>2, <1>3, <1>12
  <2> HIDE DEF e
  <2>2. f \in -r..r
    BY <1>1, <1>2, <1>9, <1>10
  <2>3. h' + f + back' <= MaxOnWay + r /\ h' + f - ahead' >= -(MaxOnWay + r)
    BY <1>1, <1>2, <1>3, <1>9, <1>10, <1>12
  <2>4. repeats' = r
    BY <1>12
  <2> HIDE DEF f, r
  <2>5. Balanced(h', a - Due(command)', ahead', back', repeats')
    BY <2>1, <2>2, <2>3, <2>4 DEF Balanced
  <2> QED BY <2>5, Zenon DEF AgreesNext, h, ahead, back
<1> QED BY <1>8, <1>11, <1>12

(* The game server does what a packet says.                                *)
LEMMA ObeyAdds ==
    ASSUME EntitiesInv, WayInv, NEW i \in DOMAIN toGame, Obey(i)
    PROVE  /\ ShipAt(Mine).va' = ShipAt(Mine).va + Effect(toGame[i], "TURN")
           /\ ShipAt(Mine).acc' = Thrust(ShipAt(Mine).acc, Effect(toGame[i], "ACCELERATE"))
<1> DEFINE p == toGame[i]
           s == ShipAt(Mine)
<1>1. /\ p \in Packet /\ s \in ShapeOfShip /\ s.va \in Int
      /\ Mine \in DOMAIN entities /\ Mine' = Mine /\ entities[Mine].kind = "ship"
  <2>1. s \in ShapeOfShip
    BY EntityFields DEF EntitiesInv, ShipEntity, ShipAt
  <2> QED BY <2>1, TakenWay DEF WayInv, EntitiesInv, Mine, ShapeOfShip
<1>2. ShipAt(Mine)' = entities'[Mine].ship
  BY <1>1 DEF ShipAt
<1>3. CASE p.act = "press" /\ Steer(Mine, LAMBDA x : Pressed(x, p.control))
  <2>1. PICK c \in Control : p = Press(c) /\ p.control = c
    BY <1>1, <1>3 DEF Packet, Press, Release, Fire
  <2>2. Steer(Mine, LAMBDA x : Pressed(x, c))
    BY <1>3, <2>1
  <2>3. entities'[Mine].ship = Pressed(s, c)
    BY <2>2, SteerMoves
  <2> HIDE DEF s
  <2>4. /\ Pressed(s, c).va = s.va + Effect(Press(c), "TURN")
        /\ Pressed(s, c).acc = Thrust(s.acc, Effect(Press(c), "ACCELERATE"))
    BY <1>1, SteeredAdds, Zenon
  <2> HIDE DEF p
  <2> QED BY <1>2, <2>1, <2>3, <2>4, Zenon DEF p, s
<1>4. CASE p.act = "release" /\ Steer(Mine, LAMBDA x : Released(x, p.control))
  <2>1. PICK c \in Control : p = Release(c) /\ p.control = c
    BY <1>1, <1>4 DEF Packet, Press, Release, Fire
  <2>2. Steer(Mine, LAMBDA x : Released(x, c))
    BY <1>4, <2>1
  <2>3. entities'[Mine].ship = Released(s, c)
    BY <2>2, SteerMoves
  <2> HIDE DEF s
  <2>4. /\ Released(s, c).va = s.va + Effect(Release(c), "TURN")
        /\ Released(s, c).acc = Thrust(s.acc, Effect(Release(c), "ACCELERATE"))
    BY <1>1, SteeredAdds, Zenon
  <2> HIDE DEF p
  <2> QED BY <1>2, <2>1, <2>3, <2>4, Zenon DEF p, s
<1>5. CASE p.act = "fire" /\ Shoot(Mine, p.weapon)
  <2>1. PICK w : p = Fire(w)
    BY <1>1, <1>5 DEF Packet, Press, Release, Fire
  <2>2. Effect(p, "TURN") = 0 /\ Effect(p, "ACCELERATE") = 0
    BY <2>1, FirePackets DEF Effect
  <2>3. Settings(entities'[Mine].ship) = Settings(s)
    BY <1>1, <1>5, ShootMoves DEF ShipAt
  <2>4. entities'[Mine].ship.va = s.va /\ entities'[Mine].ship.acc = s.acc
    BY <2>3 DEF Settings
  <2>5. s.va + 0 = s.va
    BY <1>1
  <2> QED BY <1>2, <2>2, <2>4, <2>5 DEF Thrust
<1> QED BY <1>3, <1>4, <1>5 DEF Obey

LEMMA ObeyingKeepsBalance ==
    ASSUME EntitiesInv, WayInv, BoundsInv, NEW i \in DOMAIN toGame, Obey(i),
           NEW command \in Steering, NEW a \in Int, Agrees(a, command)
    PROVE  AgreesNext(a + Effect(toGame[i], command), command)
<1> DEFINE h == HeldWay(command)
           ahead == OnWay(Ahead(command))
           back  == OnWay(Back(command))
           p == toGame[i]
           first  == IF p \in Ahead(command) THEN 1 ELSE 0
           second == IF p \in Back(command) THEN 1 ELSE 0
<1>1. /\ h \in Int /\ ahead \in Int /\ back \in Int
      /\ MaxOnWay \in Int /\ repeats \in Nat
  <2>1. /\ ahead \in 0..(Len(toUser) + Len(toGame)) /\ h \in {-1, 0, 1}
        /\ back \in 0..(Len(toUser) + Len(toGame)) /\ repeats \in Nat
    BY ControlNumbers
  <2> HIDE DEF h, ahead, back
  <2> QED BY <2>1, FlightAssumption
<1>2. first \in {0, 1} /\ second \in {0, 1} /\ first + second <= 1
  BY PacketEffects DEF Ahead, Back, Press, Release, Kind
<1>3. /\ Balanced(h, a - (h - ahead + back), ahead, back, repeats)
      /\ Due(command)' = h' - ahead' + back' /\ h' = h
      /\ Effect(p, command) = first - second
  <2>1. h' = h
    BY DEF Obey, HeldWay, Bit, Kind
  <2> QED BY <2>1 DEF Agrees, Due, Effect
<1>4. UNCHANGED toUser
  BY DEF Obey
<1>5. /\ Count(toUser, Ahead(command)) \in Nat
      /\ Count(toGame, Ahead(command)) \in Nat
      /\ Count(toUser, Back(command)) \in Nat
      /\ Count(toGame, Back(command)) \in Nat
  <2>1. ASSUME NEW packets
        PROVE  Count(toUser, packets) \in Nat /\ Count(toGame, packets) \in Nat
    BY CountBound, LenProperties DEF WayInv
  <2> QED BY <2>1
<1>6. /\ Count(toUser, Ahead(command))' = Count(toUser, Ahead(command))
      /\ Count(toUser, Back(command))' = Count(toUser, Back(command))
  BY <1>4 DEF Count, Ahead, Back, Kind, Press, Release
<1>7. \/ /\ Count(toGame, Ahead(command))' = Count(toGame, Ahead(command)) - first
         /\ Count(toGame, Back(command))' = Count(toGame, Back(command)) - second
         /\ repeats' = repeats
      \/ /\ Count(toGame, Ahead(command))' = Count(toGame, Ahead(command))
         /\ Count(toGame, Back(command))' = Count(toGame, Back(command))
         /\ repeats' = repeats + 1
  <2>1. Left(toGame, i, toGame') /\ toGame \in Seq(Packet)
    BY DEF Obey, WayInv
  <2>2. repeats + 1 # repeats
    BY <1>1
  <2> QED BY <2>1, <2>2, LeftCounts
<1>8. \/ ahead' = ahead - first /\ back' = back - second /\ repeats' = repeats
      \/ ahead' = ahead /\ back' = back /\ repeats' = repeats + 1
  <2>1. /\ ahead = Count(toUser, Ahead(command)) + Count(toGame, Ahead(command))
        /\ back = Count(toUser, Back(command)) + Count(toGame, Back(command))
        /\ ahead' = Count(toUser, Ahead(command))' + Count(toGame, Ahead(command))'
        /\ back' = Count(toUser, Back(command))' + Count(toGame, Back(command))'
    BY DEF OnWay
  <2> HIDE DEF h, ahead, back, first, second
  <2>2. /\ Count(toGame, Ahead(command))' = Count(toGame, Ahead(command)) - first
            => ahead' = ahead - first
        /\ Count(toGame, Back(command))' = Count(toGame, Back(command)) - second
            => back' = back - second
        /\ Count(toGame, Ahead(command))' = Count(toGame, Ahead(command))
            => ahead' = ahead
        /\ Count(toGame, Back(command))' = Count(toGame, Back(command))
            => back' = back
    BY <1>2, <1>5, <1>6, <2>1
  <2> QED BY <1>7, <2>2, Zenon
<1> DEFINE e == a - (h - ahead + back)
<1>9. /\ e \in -repeats..repeats
      /\ h + e + back <= MaxOnWay + repeats
      /\ h + e - ahead >= -(MaxOnWay + repeats)
  BY <1>3 DEF Balanced
<1> HIDE DEF h, ahead, back, first, second
<1>10. e \in Int
  BY <1>1
<1>11. CASE ahead' = ahead - first /\ back' = back - second /\ repeats' = repeats
  <2>1. (a + Effect(p, command)) - Due(command)' = e
    BY <1>1, <1>2, <1>3, <1>11
  <2> HIDE DEF e
  <2>2. h' + e + back' <= MaxOnWay + repeats /\ h' + e - ahead' >= -(MaxOnWay + repeats)
    BY <1>1, <1>2, <1>3, <1>9, <1>10, <1>11
  <2>3. Balanced(h', (a + Effect(p, command)) - Due(command)', ahead', back', repeats')
    BY <1>9, <1>11, <2>1, <2>2 DEF Balanced
  <2> QED BY <2>3, Zenon DEF AgreesNext, h, ahead, back
<1>12. CASE ahead' = ahead /\ back' = back /\ repeats' = repeats + 1
  <2> DEFINE f == e + (first - second)
             r == repeats + 1
  <2>1. (a + Effect(p, command)) - Due(command)' = f
    BY <1>1, <1>2, <1>3, <1>12
  <2> HIDE DEF e
  <2>2. f \in -r..r
    BY <1>1, <1>2, <1>9, <1>10
  <2>3. h' + f + back' <= MaxOnWay + r /\ h' + f - ahead' >= -(MaxOnWay + r)
    BY <1>1, <1>2, <1>3, <1>9, <1>10, <1>12
  <2>4. repeats' = r
    BY <1>12
  <2> HIDE DEF f, r
  <2>5. Balanced(h', (a + Effect(p, command)) - Due(command)', ahead', back', repeats')
    BY <2>1, <2>2, <2>3, <2>4 DEF Balanced
  <2> QED BY <2>5, Zenon DEF AgreesNext, h, ahead, back
<1> QED BY <1>8, <1>11, <1>12

(* Nothing that is not a control moves the balance.                        *)
LEMMA BalanceStays ==
    ASSUME NEW command \in Steering, NEW a \in Int, Agrees(a, command),
           UNCHANGED <<held, repeats>>,
           OnWay(Ahead(command))' = OnWay(Ahead(command)),
           OnWay(Back(command))' = OnWay(Back(command))
    PROVE  AgreesNext(a, command)
<1>1. HeldWay(command)' = HeldWay(command)
  BY DEF HeldWay, Bit, Kind
<1>2. Due(command)' = Due(command)
  <2>1. /\ Due(command)' = HeldWay(command)' - OnWay(Ahead(command))' + OnWay(Back(command))'
        /\ Due(command) = HeldWay(command) - OnWay(Ahead(command)) + OnWay(Back(command))
    BY DEF Due
  <2> QED BY <1>1, <2>1, Zenon
<1> QED BY <1>1, <1>2, Zenon DEF Agrees, AgreesNext

(* A step keeps the controls in balance with the sum a, and either leaves  *)
(* the settings of the ship alone or adds to them what a packet says.      *)
LEMMA BalanceNext ==
    ASSUME EntitiesInv, WayInv, BoundsInv, [Next]_vars,
           NEW command \in Steering, NEW a \in Int, Agrees(a, command)
    PROVE  \/ /\ AgreesNext(a, command)
              /\ Settings(ShipAt(Mine))' = Settings(ShipAt(Mine))
           \/ \E i \in DOMAIN toGame :
                 Obey(i) /\ AgreesNext(a + Effect(toGame[i], command), command)
<1>0. ASSUME UNCHANGED <<toUser, toGame>>, NEW packets
      PROVE  Count(toUser', packets) + Count(toGame', packets) = OnWay(packets)
  BY <1>0 DEF OnWay
<1>a. ASSUME UNCHANGED entities
      PROVE  Settings(ShipAt(Mine))' = Settings(ShipAt(Mine))
  BY <1>a DEF Settings, ShipAt, Mine
<1>1. CASE PullTrigger
  <2>1. ASSUME NEW packets, \A w : Fire(w) \notin packets
        PROVE  Count(toUser', packets) + Count(toGame', packets) = OnWay(packets)
    <3>1. Fire(0) \in Packet
      BY DEF Packet, WeaponByte
    <3>2. Count(Append(toUser, Fire(0)), packets) = Count(toUser, packets) + 0
      BY <2>1, <3>1, CountOfAppend DEF WayInv
    <3>3. Count(toUser, packets) \in Nat
      BY CountBound, LenProperties DEF WayInv
    <3>4. Count(toUser', packets) = Count(toUser, packets) /\ toGame' = toGame
      BY <1>1, <3>2, <3>3 DEF PullTrigger
    <3> QED BY <3>4 DEF OnWay
  <2>2. /\ OnWay(Ahead(command))' = OnWay(Ahead(command))
        /\ OnWay(Back(command))' = OnWay(Back(command))
    BY <2>1, FirePackets DEF OnWay
  <2>3. UNCHANGED <<entities, held, repeats>>
    BY <1>1 DEF PullTrigger
  <2> QED BY <1>a, <2>2, <2>3, BalanceStays
<1>2. CASE Frame
  <2>1. Settings(ShipAt(Mine))' = Settings(ShipAt(Mine))
    BY <1>2, FrameAges DEF Frame, EntitiesInv, ShipAt, Mine
  <2>2. UNCHANGED <<held, repeats, toUser, toGame>>
    BY <1>2 DEF Frame
  <2>3. /\ OnWay(Ahead(command))' = OnWay(Ahead(command))
        /\ OnWay(Back(command))' = OnWay(Back(command))
    BY <1>0, <2>2 DEF OnWay
  <2> QED BY <2>1, <2>2, <2>3, BalanceStays
<1>3. CASE UNCHANGED vars
  <2>1. UNCHANGED <<entities, held, repeats, toUser, toGame>>
    BY <1>3 DEF vars
  <2>2. /\ OnWay(Ahead(command))' = OnWay(Ahead(command))
        /\ OnWay(Back(command))' = OnWay(Back(command))
    BY <1>0, <2>1 DEF OnWay
  <2> QED BY <1>a, <2>1, <2>2, BalanceStays
<1>4. ASSUME NEW c \in Control, PressControl(c) \/ ReleaseControl(c)
      PROVE  AgreesNext(a, command) /\ UNCHANGED entities
  <2>1. UNCHANGED entities
    BY <1>4 DEF PressControl, ReleaseControl
  <2> QED BY <1>4, <2>1, HandsKeepBalance
<1>5. ASSUME NEW i \in DOMAIN toUser, PassOn(i)
      PROVE  AgreesNext(a, command) /\ UNCHANGED entities
  <2>1. UNCHANGED entities
    BY <1>5 DEF PassOn
  <2> QED BY <1>5, <2>1, PassingKeepsBalance
<1>6. ASSUME NEW i \in DOMAIN toGame, Obey(i)
      PROVE  AgreesNext(a + Effect(toGame[i], command), command)
  BY <1>6, ObeyingKeepsBalance
<1> QED BY <1>a, <1>1, <1>2, <1>3, <1>4, <1>5, <1>6 DEF Next

LEMMA BalanceInit ==
    ASSUME Init, NEW command \in Steering
    PROVE  Agrees(0, command) /\ Due(command) = 0
<1>1. HeldWay(command) = 0
  BY DEF Init, HeldWay, Bit
<1>2. ASSUME NEW packets PROVE OnWay(packets) = 0
  <2>1. <<>> \in Seq(Packet) /\ Len(<<>>) = 0
    OBVIOUS
  <2>2. Count(<<>>, packets) \in 0..0
    BY <2>1, CountBound
  <2> QED BY <2>2 DEF Init, OnWay
<1>3. Due(command) = 0
  <2>1. OnWay(Ahead(command)) = 0 /\ OnWay(Back(command)) = 0
    BY <1>2
  <2> QED BY <1>1, <2>1 DEF Due
<1>4. repeats = 0 /\ MaxOnWay \in Nat
  BY FlightAssumption DEF Init
<1>5. Balanced(0, 0, 0, 0, 0)
  BY <1>4 DEF Balanced
<1>6. Agrees(0, command)
  <2>1. 0 - Due(command) = 0
    BY <1>3
  <2> QED BY <1>1, <1>2, <1>4, <1>5, <2>1, Zenon DEF Agrees
<1> QED BY <1>3, <1>6

(* Turning: the sum is the one the ship keeps.                             *)
TurnInv == Agrees(ShipAt(Mine).va, "TURN")

LEMMA TurnInit == Init => TurnInv
<1> SUFFICES ASSUME Init PROVE TurnInv
  OBVIOUS
<1>1. ShipAt(Mine).va = 0
  BY FirstEntities DEF ShipAt, ClientShip, NewShip
<1>2. "TURN" \in Steering
  BY DEF Steering
<1> QED BY <1>1, <1>2, BalanceInit DEF TurnInv

LEMMA TurnNext ==
    ASSUME EntitiesInv, WayInv, BoundsInv, TurnInv, [Next]_vars
    PROVE  TurnInv'
<1> DEFINE a == ShipAt(Mine).va
<1>1. "TURN" \in Steering /\ a \in Int
  BY ControlNumbers DEF Steering, ShapeOfShip
<1>2. Agrees(a, "TURN")
  BY DEF TurnInv
<1>3. CASE AgreesNext(a, "TURN") /\ Settings(ShipAt(Mine))' = Settings(ShipAt(Mine))
  <2>1. ShipAt(Mine).va' = a
    BY <1>3 DEF Settings
  <2> QED BY <1>3, <2>1 DEF TurnInv, Agrees, AgreesNext
<1>4. ASSUME NEW i \in DOMAIN toGame, Obey(i),
             AgreesNext(a + Effect(toGame[i], "TURN"), "TURN")
      PROVE  TurnInv'
  <2>1. ShipAt(Mine).va' = a + Effect(toGame[i], "TURN")
    BY <1>4, ObeyAdds
  <2> QED BY <1>4, <2>1 DEF TurnInv, Agrees, AgreesNext
<1> HIDE DEF a
<1> QED BY <1>1, <1>2, <1>3, <1>4, BalanceNext

(* Thrust: while no packet came twice, the sum is what is due, and what the*)
(* ship keeps is that many times deltaSpeed.                               *)
ThrustInv ==
    repeats = 0 => /\ Agrees(Due("ACCELERATE"), "ACCELERATE")
                   /\ ShipAt(Mine).acc = Due("ACCELERATE") * DeltaSpeed

LEMMA ThrustInit == Init => ThrustInv
<1> SUFFICES ASSUME Init PROVE ThrustInv
  OBVIOUS
<1>1. ShipAt(Mine).acc = 0
  BY FirstEntities DEF ShipAt, ClientShip, NewShip
<1>2. "ACCELERATE" \in Steering /\ 0 * DeltaSpeed = 0
  BY ShipAssumption DEF Steering
<1>3. Agrees(0, "ACCELERATE") /\ Due("ACCELERATE") = 0
  BY <1>2, BalanceInit
<1> QED BY <1>1, <1>2, <1>3 DEF ThrustInv

(* So few steps of thrust that they fit the mantissa add up exactly.       *)
LEMMA FewStepsAreExact ==
    ASSUME MaxOnWay * DeltaSpeed <= Mantissa,
           NEW n \in -MaxOnWay..MaxOnWay
    PROVE  Rounded(n * DeltaSpeed) = n * DeltaSpeed
<1>1. DeltaSpeed \in Nat /\ MaxOnWay \in Nat /\ Mantissa \in Nat /\ n \in Int
  BY ShipAssumption, FlightAssumption
<1>2. MaxOnWay - n \in Nat /\ MaxOnWay + n \in Nat
  BY <1>1
<1>3. (MaxOnWay - n) * DeltaSpeed \in Nat /\ (MaxOnWay + n) * DeltaSpeed \in Nat
  BY <1>1, <1>2
<1>4. /\ (MaxOnWay - n) * DeltaSpeed = MaxOnWay * DeltaSpeed - n * DeltaSpeed
      /\ (MaxOnWay + n) * DeltaSpeed = MaxOnWay * DeltaSpeed + n * DeltaSpeed
      /\ n * DeltaSpeed \in Int /\ MaxOnWay * DeltaSpeed \in Int
  BY <1>1
<1> DEFINE x == n * DeltaSpeed
           m == MaxOnWay * DeltaSpeed
<1>5. x \in Int /\ m \in Int /\ m - x \in Nat /\ m + x \in Nat /\ m <= Mantissa
  BY <1>3, <1>4
<1> HIDE DEF x, m
<1>6. -Mantissa <= x /\ x <= Mantissa
  BY <1>1, <1>5
<1> QED BY <1>5, <1>6, RoundedExact DEF x

LEMMA WaysAreNatural ==
    ASSUME WayInv, WayInv', NEW command
    PROVE  /\ HeldWay(command) \in Int /\ HeldWay(command)' \in Int
           /\ OnWay(Ahead(command)) \in Nat /\ OnWay(Back(command)) \in Nat
           /\ OnWay(Ahead(command))' \in Nat /\ OnWay(Back(command))' \in Nat
<1>1. HeldWay(command) \in Int /\ HeldWay(command)' \in Int
  BY DEF HeldWay, Bit
<1>2. \A n \in Nat : 0..n \subseteq Nat
  OBVIOUS
<1>3. ASSUME NEW way \in Seq(Packet), NEW packets PROVE Count(way, packets) \in Nat
  BY <1>2, CountBound, LenProperties
<1>4. /\ toUser \in Seq(Packet) /\ toGame \in Seq(Packet)
      /\ toUser' \in Seq(Packet) /\ toGame' \in Seq(Packet)
  BY DEF WayInv, Packet, Press, Release, Fire, WeaponByte
<1>5. ASSUME NEW packets
      PROVE  /\ Count(toUser, packets) + Count(toGame, packets) \in Nat
             /\ Count(toUser', packets) + Count(toGame', packets) \in Nat
  BY <1>3, <1>4
<1> QED BY <1>1, <1>5 DEF OnWay

LEMMA ExactSum ==
    ASSUME NEW h \in Int, NEW ahead \in Nat, NEW back \in Nat, NEW b \in Int,
           NEW due, due = h - ahead + back, Balanced(h, b - due, ahead, back, 0)
    PROVE  due = b /\ b \in -MaxOnWay..MaxOnWay
<1>1. MaxOnWay \in Nat /\ due \in Int
  BY FlightAssumption
<1>2. b - due \in 0..0
  BY DEF Balanced
<1>3. due = b /\ b - due = 0
  BY <1>1, <1>2
<1>4. h + 0 + back <= MaxOnWay + 0 /\ h + 0 - ahead >= -(MaxOnWay + 0)
  BY <1>3 DEF Balanced
<1> QED BY <1>1, <1>3, <1>4

LEMMA ThrustNext ==
    ASSUME MaxOnWay * DeltaSpeed <= Mantissa,
           EntitiesInv, WayInv, BoundsInv, BoundsInv', EntitiesInv', WayInv',
           ThrustInv, [Next]_vars
    PROVE  ThrustInv'
<1> SUFFICES ASSUME repeats' = 0
             PROVE  ThrustInv'
  BY DEF ThrustInv
<1> DEFINE A == "ACCELERATE"
           a == Due(A)
           acc == ShipAt(Mine).acc
<1>1. A \in Steering /\ acc \in Int /\ repeats \in Nat
  BY ControlNumbers DEF Steering, ShapeOfShip
<1>2. repeats = 0
  <2>1. repeats' = repeats \/ repeats' = repeats + 1
    BY DEF Next, vars, PressControl, ReleaseControl, PullTrigger, PassOn, Obey, Left,
           Frame
  <2> QED BY <1>1, <2>1
<1>3. Agrees(a, A) /\ acc = a * DeltaSpeed
  BY <1>2 DEF ThrustInv
<1>4. a \in Int /\ a' \in Int
  BY WaysAreNatural DEF Due
<1>5. ASSUME NEW b \in Int, AgreesNext(b, A)
      PROVE  /\ a' = b /\ Agrees(a, A)'
             /\ b \in -MaxOnWay..MaxOnWay
  <2>1. a' = HeldWay(A)' - OnWay(Ahead(A))' + OnWay(Back(A))'
    BY DEF Due
  <2>2. Balanced(HeldWay(A)', b - a', OnWay(Ahead(A))', OnWay(Back(A))', 0)
    BY <1>5 DEF AgreesNext
  <2>3. /\ HeldWay(A)' \in Int
        /\ OnWay(Ahead(A))' \in Nat /\ OnWay(Back(A))' \in Nat
    BY WaysAreNatural
  <2> HIDE DEF a
  <2>4. a' = b /\ b \in -MaxOnWay..MaxOnWay
    BY <1>5, <2>1, <2>2, <2>3, ExactSum
  <2> USE DEF a
  <2>5. Agrees(a, A)'
    BY <1>5, <2>4 DEF Agrees, AgreesNext
  <2> QED BY <2>4, <2>5
<1>6. CASE AgreesNext(a, A) /\ Settings(ShipAt(Mine))' = Settings(ShipAt(Mine))
  <2>1. acc' = acc
    BY <1>6 DEF Settings
  <2>2. a' = a /\ Agrees(a, A)'
    BY <1>4, <1>5, <1>6
  <2> QED BY <1>3, <2>1, <2>2 DEF ThrustInv
<1>7. ASSUME NEW i \in DOMAIN toGame, Obey(i), AgreesNext(a + Effect(toGame[i], A), A)
      PROVE  ThrustInv'
  <2> DEFINE e == Effect(toGame[i], A)
  <2>1. e \in {-1, 0, 1}
    BY DEF Effect, Ahead, Back, Kind, Press, Release
  <2>2. acc' = Thrust(acc, e)
    BY <1>7, ObeyAdds
  <2> DEFINE b == a + e
  <2>3. b \in Int
    <3> HIDE DEF a, e
    <3> QED BY <1>4, <2>1
  <2>4. a' = b /\ Agrees(a, A)' /\ b \in -MaxOnWay..MaxOnWay
    BY <1>5, <1>7, <2>3
  <2>5. acc' = b * DeltaSpeed
    <3> HIDE DEF a, e
    <3>1. DeltaSpeed \in Nat
      BY ShipAssumption
    <3>2. CASE e = 0
      <4>1. b = a
        BY <1>4, <3>2
      <4> QED BY <1>3, <2>2, <3>2, <4>1 DEF Thrust
    <3>3. CASE e # 0
      <4>1. acc + e * DeltaSpeed = b * DeltaSpeed
        <5>1. acc = a * DeltaSpeed /\ e \in {-1, 1}
          BY <1>3, <2>1, <3>3
        <5>2. CASE e = 1
          BY <1>4, <3>1, <5>1, <5>2
        <5>3. CASE e = -1
          BY <1>4, <3>1, <5>1, <5>3
        <5> QED BY <5>1, <5>2, <5>3
      <4>2. acc' = Rounded(acc + e * DeltaSpeed)
        BY <2>2, <3>3 DEF Thrust
      <4> HIDE DEF b
      <4> QED BY <2>4, <4>1, <4>2, FewStepsAreExact
    <3> QED BY <3>2, <3>3
  <2> HIDE DEF b
  <2> QED BY <2>4, <2>5 DEF ThrustInv
<1> HIDE DEF a, acc
<1> QED BY <1>1, <1>3, <1>4, <1>6, <1>7, BalanceNext

-----------------------------------------------------------------------------
(* The bounds, and the angles they keep.                                   *)

LEMMA BoundsInit == Init => BoundsInv
<1> SUFFICES ASSUME Init PROVE BoundsInv
  OBVIOUS
<1>2. Len(entities) = Mine /\ Mine <= MaxEntities
  BY FirstEntities, UniverseAssumption, FlightAssumption DEF Mine
<1>3. Len(<<>>) = 0 /\ MaxOnWay \in Nat
  BY FlightAssumption
<1>4. /\ toUser = <<>> /\ toGame = <<>> /\ held = {}
      /\ overtaken = FALSE /\ repeats = 0
  BY DEF Init
<1>5. Len(toUser) + Len(toGame) <= MaxOnWay
  BY <1>3, <1>4
<1>6. held \subseteq Control /\ overtaken \in BOOLEAN
  BY <1>4
<1>7. repeats \in 0..MaxRepeats
  BY <1>4, FlightAssumption
<1> QED BY <1>2, <1>5, <1>6, <1>7 DEF BoundsInv

LEMMA LeftLength ==
    ASSUME NEW way \in Seq(Packet), NEW i \in DOMAIN way, NEW way2, Left(way, i, way2)
    PROVE  Len(way2) \in Nat /\ Len(way2) <= Len(way) /\ way2 \in Seq(Packet)
<1>1. Len(way) \in Nat /\ Len(RemoveAt(way, i)) = Len(way) - 1
  BY RemovedPlaces
<1>2. way2 \in Seq(Packet)
  BY LeftWay
<1>3. way2 = RemoveAt(way, i) \/ way2 = way
  BY DEF Left
<1> QED BY <1>1, <1>2, <1>3, LenProperties

LEMMA BoundsNext ==
    ASSUME EntitiesInv, WayInv, BoundsInv, [Next]_vars
    PROVE  BoundsInv'
<1> USE DEF BoundsInv
<1>0. /\ Len(toUser) \in Nat /\ Len(toGame) \in Nat /\ MaxOnWay \in Nat
      /\ Len(entities) \in Nat /\ MaxEntities \in Nat
  BY LenProperties, EntityFields, FlightAssumption, UniverseAssumption DEF WayInv
<1>1. ASSUME NEW c \in Control, PressControl(c) \/ ReleaseControl(c)
      PROVE  BoundsInv'
  <2>1. /\ \E p \in Packet : toUser' = Append(toUser, p)
        /\ UNCHANGED <<entities, toGame, overtaken, repeats>>
        /\ Len(toUser) + Len(toGame) < MaxOnWay
        /\ held' \subseteq Control
    BY <1>1 DEF PressControl, ReleaseControl, RoomOnWay, Packet
  <2>2. Len(toUser') = Len(toUser) + 1
    BY <2>1, AppendProperties DEF WayInv
  <2> QED BY <1>0, <2>1, <2>2
<1>2. CASE PullTrigger
  <2>1. Fire(0) \in Packet
    BY DEF Packet, WeaponByte
  <2>2. Len(toUser') = Len(toUser) + 1
    BY <1>2, <2>1, AppendProperties DEF WayInv, PullTrigger
  <2> QED BY <1>0, <1>2, <2>2 DEF PullTrigger, RoomOnWay
<1>3. ASSUME NEW i \in DOMAIN toUser, PassOn(i) PROVE BoundsInv'
  <2>1. Len(toUser') \in Nat /\ toUser' \in Seq(Packet)
    BY <1>3, LeftLength DEF PassOn, WayInv
  <2>2. \E p \in Packet : toGame' = Append(toGame, p)
    <3>1. toUser[i] \in Packet
      BY TakenWay DEF WayInv
    <3>2. PassedOn(toUser[i]) \subseteq Packet
      BY <3>1 DEF PassedOn, Packet
    <3> QED BY <1>3, <3>2 DEF PassOn
  <2>3. Len(toGame') = Len(toGame) + 1
    BY <2>2, AppendProperties DEF WayInv
  <2>4. Len(toUser') + Len(toGame) < MaxOnWay /\ UNCHANGED <<entities, held>>
    BY <1>3 DEF PassOn
  <2>5. overtaken' \in BOOLEAN /\ repeats' \in 0..MaxRepeats
    BY <1>3, FlightAssumption DEF PassOn, Take, Left
  <2> QED BY <1>0, <2>1, <2>3, <2>4, <2>5
<1>4. ASSUME NEW i \in DOMAIN toGame, Obey(i) PROVE BoundsInv'
  <2> DEFINE p == toGame[i]
  <2>1. Len(toGame') \in Nat /\ Len(toGame') <= Len(toGame)
    BY <1>4, LeftLength DEF Obey, WayInv
  <2>2. /\ UNCHANGED <<held, toUser>>
        /\ overtaken' \in BOOLEAN /\ repeats' \in 0..MaxRepeats
    BY <1>4, FlightAssumption DEF Obey, Take, Left
  <2>3. EntitiesInv' /\ p \in Packet
    BY <1>4, FlightNext, TakenWay DEF Next, WayInv
  <2>4. Len(entities') = Len(entities) \/ Len(entities') <= MaxEntities
    <3>1. CASE Shoot(Mine, p.weapon)
      BY <3>1, ShootMoves
    <3>2. CASE DOMAIN entities' = DOMAIN entities
      BY <2>3, <3>2, LenProperties DEF EntitiesInv
    <3>3. p.act \in {"press", "release"} => p.control \in Control
      BY <2>3 DEF Packet, Press, Release, Fire
    <3>4. \/ /\ p.act \in {"press", "release"}
             /\ \/ Steer(Mine, LAMBDA s : Pressed(s, p.control))
                \/ Steer(Mine, LAMBDA s : Released(s, p.control))
          \/ Shoot(Mine, p.weapon)
      BY <1>4 DEF Obey
    <3> HIDE DEF p
    <3>5. p.act \in {"press", "release"} /\ ~Shoot(Mine, p.weapon)
             => DOMAIN entities' = DOMAIN entities
      BY <3>3, <3>4, SteerMoves
    <3> QED BY <3>1, <3>2, <3>4, <3>5
  <2> QED BY <1>0, <2>1, <2>2, <2>4
<1>5. CASE Frame
  <2>1. Len(entities') = Len(entities)
    BY <1>5, FrameAges, LenProperties DEF Frame, EntitiesInv
  <2> QED BY <1>5, <2>1 DEF Frame
<1>6. CASE UNCHANGED vars
  BY <1>6 DEF vars
<1> QED BY <1>1, <1>2, <1>3, <1>4, <1>5, <1>6 DEF Next

(* Every ship keeps to the circle: the spawned ones turn by their one step,*)
(* the player's by no more than the packets there is room for.             *)
AnglesInv ==
    \A p \in DOMAIN entities :
        entities[p].kind = "ship" =>
            /\ entities[p].ship.angle \in 0..(Circle - 1)
            /\ p # Mine => entities[p].ship.va \in -1..1

LEMMA MineTurnsSlowly ==
    ASSUME EntitiesInv, WayInv, BoundsInv, TurnInv
    PROVE  ShipAt(Mine).va \in -(MaxOnWay + MaxRepeats)..(MaxOnWay + MaxRepeats)
<1> DEFINE h == HeldWay("TURN")
           a == ShipAt(Mine).va
           ahead == OnWay(Ahead("TURN"))
           back  == OnWay(Back("TURN"))
           e == a - (h - ahead + back)
<1>1. "TURN" \in Steering
  BY DEF Steering
<1>2. /\ ahead \in 0..(Len(toUser) + Len(toGame)) /\ h \in {-1, 0, 1} /\ a \in Int
      /\ back \in 0..(Len(toUser) + Len(toGame))
      /\ MaxOnWay \in Nat /\ MaxRepeats \in Nat /\ repeats \in 0..MaxRepeats
  BY <1>1, ControlNumbers, FlightAssumption DEF ShapeOfShip, BoundsInv
<1>3. Balanced(h, e, ahead, back, repeats)
  BY DEF TurnInv, Agrees, Due
<1>4. h + e + back <= MaxOnWay + repeats /\ h + e - ahead >= -(MaxOnWay + repeats)
  BY <1>3 DEF Balanced
<1> HIDE DEF h, a, ahead, back
<1>5. ahead \in Int /\ back \in Int /\ ahead >= 0 /\ back >= 0 /\ h \in Int
  BY <1>2
<1>6. e \in Int /\ a = h + e - ahead + back
  BY <1>2, <1>5
<1> HIDE DEF e
<1>7. a <= MaxOnWay + MaxRepeats /\ a >= -(MaxOnWay + MaxRepeats)
  BY <1>2, <1>4, <1>5, <1>6
<1> QED BY <1>2, <1>7 DEF a

LEMMA NormalStays ==
    ASSUME MaxOnWay + MaxRepeats <= Circle, NEW a \in 0..(Circle - 1),
           NEW va \in -(MaxOnWay + MaxRepeats)..(MaxOnWay + MaxRepeats)
    PROVE  Normal(a + va) \in 0..(Circle - 1)
BY FlightAssumption, ShipAssumption DEF Normal

LEMMA AnglesNext ==
    ASSUME MaxOnWay + MaxRepeats <= Circle,
           EntitiesInv, WayInv, BoundsInv, TurnInv, AnglesInv, [Next]_vars
    PROVE  AnglesInv'
<1>1. CASE UNCHANGED entities
  BY <1>1 DEF AnglesInv, Mine
<1>2. CASE Frame
  <2> SUFFICES ASSUME NEW p \in DOMAIN entities, entities[p].kind = "ship"
               PROVE  /\ entities'[p].ship.angle \in 0..(Circle - 1)
                      /\ p # Mine => entities'[p].ship.va \in -1..1
    BY <1>2, FrameAges DEF AnglesInv, Mine, Frame
  <2> DEFINE s == entities[p].ship
  <2>1. /\ entities'[p].ship.angle = Normal(s.angle + s.va)
        /\ Settings(entities'[p].ship) = Settings(s)
    BY <1>2, FrameAges DEF Frame
  <2>2. s.angle \in 0..(Circle - 1) /\ (p # Mine => s.va \in -1..1)
    BY DEF AnglesInv
  <2>3. s.va \in -(MaxOnWay + MaxRepeats)..(MaxOnWay + MaxRepeats)
    <3>1. CASE p = Mine
      BY <3>1, MineTurnsSlowly DEF ShipAt
    <3>2. CASE p # Mine
      BY <2>2, <3>2, FlightAssumption
    <3> QED BY <3>1, <3>2
  <2>4. Normal(s.angle + s.va) \in 0..(Circle - 1)
    BY <2>2, <2>3, NormalStays
  <2>5. entities'[p].ship.va = s.va
    BY <2>1 DEF Settings
  <2> QED BY <2>1, <2>2, <2>4, <2>5
<1>3. ASSUME NEW i \in DOMAIN toGame, Obey(i) PROVE AnglesInv'
  <2> DEFINE p == toGame[i]
  <2>1. /\ p \in Packet /\ Mine' = Mine /\ Mine \in DOMAIN entities
        /\ entities[Mine].kind = "ship" /\ ShipAt(Mine) \in ShapeOfShip
    BY TakenWay, EntityFields DEF WayInv, EntitiesInv, Mine, ShipEntity, ShipAt
  <2>2. ASSUME NEW c \in Control,
               \/ Steer(Mine, LAMBDA s : Pressed(s, c))
               \/ Steer(Mine, LAMBDA s : Released(s, c))
        PROVE  AnglesInv'
    <3>1. /\ DOMAIN entities' = DOMAIN entities
          /\ \A q \in DOMAIN entities : /\ entities'[q].kind = entities[q].kind
                                        /\ q # Mine => entities'[q] = entities[q]
      BY <2>2, SteerMoves
    <3>2. entities'[Mine].ship.angle = entities[Mine].ship.angle
      <4>1. /\ Pressed(ShipAt(Mine), c).angle = ShipAt(Mine).angle
            /\ Released(ShipAt(Mine), c).angle = ShipAt(Mine).angle
        BY <2>1, SteeredAdds, Zenon
      <4>2. \/ entities'[Mine].ship = Pressed(ShipAt(Mine), c)
            \/ entities'[Mine].ship = Released(ShipAt(Mine), c)
        BY <2>2, SteerMoves
      <4> QED BY <4>1, <4>2 DEF ShipAt
    <3> QED BY <2>1, <3>1, <3>2 DEF AnglesInv
  <2>3. CASE Shoot(Mine, p.weapon)
    <3>1. /\ \A q \in DOMAIN entities :
                /\ q \in DOMAIN entities' /\ entities'[q].kind = entities[q].kind
                /\ entities[q].kind = "ship" =>
                      /\ Settings(entities'[q].ship) = Settings(entities[q].ship)
                      /\ entities'[q].ship.angle = entities[q].ship.angle
          /\ \A q \in DOMAIN entities' :
                q \in DOMAIN entities \/ entities'[q].kind = "bullet"
      BY <2>3, ShootMoves
    <3> SUFFICES ASSUME NEW q \in DOMAIN entities', entities'[q].kind = "ship"
                 PROVE  /\ entities'[q].ship.angle \in 0..(Circle - 1)
                        /\ q # Mine => entities'[q].ship.va \in -1..1
      BY <2>1 DEF AnglesInv
    <3>2. q \in DOMAIN entities /\ entities[q].kind = "ship"
      BY <3>1
    <3>3. entities'[q].ship.va = entities[q].ship.va
      BY <3>1, <3>2 DEF Settings
    <3> QED BY <3>1, <3>2, <3>3 DEF AnglesInv
  <2>4. \/ /\ p.act \in {"press", "release"}
           /\ \/ Steer(Mine, LAMBDA s : Pressed(s, p.control))
              \/ Steer(Mine, LAMBDA s : Released(s, p.control))
        \/ Shoot(Mine, p.weapon)
    BY <1>3 DEF Obey
  <2>5. p.act \in {"press", "release"} => p.control \in Control
    BY <2>1 DEF Packet, Press, Release, Fire
  <2> HIDE DEF p
  <2> QED BY <2>2, <2>3, <2>4, <2>5
<1>4. [Next]_vars => \/ UNCHANGED entities \/ Frame
                     \/ \E i \in DOMAIN toGame : Obey(i)
  BY DEF Next, vars, PressControl, ReleaseControl, PullTrigger, PassOn
<1> QED BY <1>1, <1>2, <1>3, <1>4

LEMMA AnglesInit == Init => AnglesInv
<1> SUFFICES ASSUME Init, NEW p \in DOMAIN entities
             PROVE  /\ entities[p].ship.angle \in 0..(Circle - 1)
                    /\ p # Mine => entities[p].ship.va \in -1..1
  BY DEF AnglesInv
<1>1. 0 \in 0..(Circle - 1)
  BY ShipAssumption
<1>2. p \in 1..Spawned \/ p = Mine
  BY FirstEntities, UniverseAssumption DEF Mine
<1>3. CASE p = Mine
  BY <1>1, <1>3, FirstEntities DEF ClientShip, NewShip
<1>4. CASE p \in 1..Spawned
  BY <1>1, <1>4, FirstEntities
<1> QED BY <1>2, <1>3, <1>4

-----------------------------------------------------------------------------

FlightInv == EntitiesInv /\ WayInv /\ BoundsInv /\ TurnInv

LEMMA FlightIsBalanced == Spec => []FlightInv
<1>1. Init => FlightInv
  BY FlightInit, BoundsInit, TurnInit DEF FlightInv
<1>2. FlightInv /\ [Next]_vars => FlightInv'
  BY FlightNext, BoundsNext, TurnNext DEF FlightInv
<1> QED BY <1>1, <1>2, PTL DEF Spec

LEMMA AnglesAreKept ==
    ASSUME MaxOnWay + MaxRepeats <= Circle
    PROVE  Spec => []AnglesInv
<1>1. FlightInv /\ AnglesInv /\ [Next]_vars => AnglesInv'
  BY AnglesNext DEF FlightInv
<1> QED BY <1>1, AnglesInit, FlightIsBalanced, PTL DEF Spec

(* In whatever order the packets of the controls come, the turn the ship   *)
(* keeps is what the player holds and what is still on its way, off by no  *)
(* more than a step for each packet that came once more.                   *)
THEOREM TurnsAgree == Spec => []TurnsBalance
<1>1. FlightInv => TurnsBalance
  BY DEF FlightInv, TurnInv, Agrees, Balanced, TurnsBalance
<1> QED BY <1>1, FlightIsBalanced, PTL

(* If as many steps of thrust as packets may be on their way fit the       *)
(* mantissa of a float, which for deltaSpeed are two, the thrust agrees too*)
(* while no packet comes twice; with more of them it need not.             *)
THEOREM ThrustAgrees ==
    ASSUME MaxOnWay * DeltaSpeed <= Mantissa
    PROVE  Spec => []ThrustBalances
<1>1. FlightInv /\ FlightInv' /\ ThrustInv /\ [Next]_vars => ThrustInv'
  BY ThrustNext DEF FlightInv
<1>2. ThrustInv => ThrustBalances
  BY DEF ThrustInv, ThrustBalances
<1> QED BY <1>1, <1>2, ThrustInit, FlightIsBalanced, PTL DEF Spec

(* The ships keep to their circle, speeds and times, and ids and packets to*)
(* what they are, if the packets on their way and the repeated ones are no *)
(* more than a circle has steps: updateUniverse corrects an angle but once.*)
THEOREM FlightTypeCorrect ==
    ASSUME MaxOnWay + MaxRepeats <= Circle
    PROVE  Spec => []TypeOK
<1>1. FlightInv /\ AnglesInv => TypeOK
  <2> SUFFICES ASSUME FlightInv, AnglesInv PROVE TypeOK
    OBVIOUS
  <2> USE DEF FlightInv
  <2>1. ASSUME NEW p \in DOMAIN entities
        PROVE  \/ entities[p] \in [kind : {"ship"}, id : Nat, ship : ShipState]
               \/ entities[p] \in [kind : {"bullet"}, id : Nat, from : 1..MaxEntities,
                                   age : 0..FireRate]
    <3>1. entities[p].id \in Nat
      BY EntityFields DEF EntitiesInv
    <3>2. CASE entities[p].kind = "ship"
      <4>1. entities[p] \in ShipEntity /\ entities[p].ship.angle \in 0..(Circle - 1)
        BY <3>2, EntityFields DEF AnglesInv
      <4>2. entities[p].ship \in ShipState
        BY <4>1 DEF ShipEntity, ShapeOfShip, ShipState
      <4> QED BY <3>1, <4>1, <4>2 DEF ShipEntity
    <3>3. CASE entities[p].kind = "bullet"
      <4>1. entities[p] \in BulletEntity /\ entities[p].from = Mine
        BY <3>3, EntityFields DEF EntitiesInv, Bullets
      <4>2. Mine \in 1..MaxEntities
        BY EntityFields, UniverseAssumption, FlightAssumption
      <4> QED BY <3>1, <4>1, <4>2 DEF BulletEntity
    <3> QED BY <3>2, <3>3, EntityFields DEF Entity, ShipEntity, BulletEntity
  <2>2. UniverseTypeOK
    BY <2>1 DEF UniverseTypeOK, BoundsInv
  <2> QED BY <2>2 DEF TypeOK, WayInv, BoundsInv
<1> QED BY <1>1, AnglesAreKept, FlightIsBalanced, PTL

-----------------------------------------------------------------------------
(* The brake, while no packet overtakes another and none comes twice: the  *)
(* last brake packet says what the player does, the ones on their way to   *)
(* the user server before the others; if there is none, the ship does it.  *)

Brakes == {Press(Braking), Release(Braking)}
NoBrake(way) == \A i \in DOMAIN way : way[i] \notin Brakes
Tells(way, holds) ==
    \A i \in DOMAIN way :
        /\ way[i] \in Brakes
        /\ \A j \in DOMAIN way : j > i => way[j] \notin Brakes
        => (way[i] = Press(Braking) <=> holds)

BrakeInv ==
    ~overtaken /\ repeats = 0 =>
        /\ Tells(toUser, Braking \in held)
        /\ NoBrake(toUser) =>
              /\ Tells(toGame, Braking \in held)
              /\ NoBrake(toGame) => (ShipAt(Mine).braking <=> Braking \in held)

LEMMA TellsAppended ==
    ASSUME NEW way \in Seq(Packet), NEW p \in Packet, NEW holds
    PROVE  /\ p \in Brakes /\ (p = Press(Braking) <=> holds)
                => Tells(Append(way, p), holds) /\ ~NoBrake(Append(way, p))
           /\ p \notin Brakes /\ Tells(way, holds) => Tells(Append(way, p), holds)
           /\ p \notin Brakes => (NoBrake(Append(way, p)) <=> NoBrake(way))
           /\ p \in Brakes => ~NoBrake(Append(way, p))
<1> DEFINE more == Append(way, p)
           n == Len(way)
<1>1. /\ n \in Nat /\ DOMAIN way = 1..n /\ DOMAIN more = 1..(n + 1)
      /\ \A i \in 1..n : more[i] = way[i]
      /\ more[n + 1] = p
  BY AppendProperties, LenProperties
<1> HIDE DEF more, n
<1>2. n + 1 \in 1..(n + 1) /\ \A i \in 1..n : i \in 1..(n + 1) /\ n + 1 > i
  BY <1>1
<1>3. \A i \in 1..(n + 1) : i \in 1..n \/ i = n + 1
  BY <1>1
<1>4. p \in Brakes => ~NoBrake(more)
  BY <1>1, <1>2 DEF NoBrake
<1>5. p \notin Brakes => (NoBrake(more) <=> NoBrake(way))
  BY <1>1, <1>2, <1>3 DEF NoBrake
<1>6. ASSUME p \in Brakes, p = Press(Braking) <=> holds PROVE Tells(more, holds)
  <2> SUFFICES ASSUME NEW i \in DOMAIN more, more[i] \in Brakes,
                      \A j \in DOMAIN more : j > i => more[j] \notin Brakes
               PROVE  more[i] = Press(Braking) <=> holds
    BY DEF Tells
  <2>1. i = n + 1
    BY <1>1, <1>2, <1>3, <1>6
  <2> QED BY <1>1, <1>6, <2>1
<1>7. ASSUME p \notin Brakes, Tells(way, holds) PROVE Tells(more, holds)
  <2> SUFFICES ASSUME NEW i \in DOMAIN more, more[i] \in Brakes,
                      \A j \in DOMAIN more : j > i => more[j] \notin Brakes
               PROVE  more[i] = Press(Braking) <=> holds
    BY DEF Tells
  <2>1. i \in DOMAIN way /\ more[i] = way[i]
    BY <1>1, <1>3, <1>7
  <2>2. \A j \in DOMAIN way : j > i => way[j] \notin Brakes
    BY <1>1, <1>2
  <2> QED BY <1>7, <2>1, <2>2 DEF Tells
<1> QED BY <1>4, <1>5, <1>6, <1>7 DEF more

LEMMA TellsTaken ==
    ASSUME NEW way \in Seq(Packet), 1 \in DOMAIN way, NEW holds, Tells(way, holds)
    PROVE  /\ Tells(RemoveAt(way, 1), holds)
           /\ NoBrake(RemoveAt(way, 1)) /\ way[1] \in Brakes
                => (way[1] = Press(Braking) <=> holds)
           /\ NoBrake(RemoveAt(way, 1)) /\ way[1] \notin Brakes => NoBrake(way)
<1> DEFINE rest == RemoveAt(way, 1)
           n == Len(way)
<1>1. /\ n \in Nat /\ DOMAIN way = 1..n /\ DOMAIN rest = 1..(n - 1)
      /\ \A j \in 1..(n - 1) : rest[j] = way[j + 1]
  <2>1. \A j \in 1..(n - 1) : ~(j < 1)
    BY RemovedPlaces
  <2> QED BY <2>1, RemovedPlaces
<1> HIDE DEF rest, n
<1>2. \A j \in 1..n : j # 1 => j - 1 \in 1..(n - 1) /\ rest[j - 1] = way[j]
  <2> SUFFICES ASSUME NEW j \in 1..n, j # 1
               PROVE  j - 1 \in 1..(n - 1) /\ rest[j - 1] = way[j]
    OBVIOUS
  <2>1. j - 1 \in 1..(n - 1) /\ (j - 1) + 1 = j
    BY <1>1
  <2>2. rest[j - 1] = way[(j - 1) + 1]
    BY <1>1, <2>1
  <2> QED BY <2>1, <2>2
<1>3. Tells(rest, holds)
  <2> SUFFICES ASSUME NEW i \in DOMAIN rest, rest[i] \in Brakes,
                      \A j \in DOMAIN rest : j > i => rest[j] \notin Brakes
               PROVE  rest[i] = Press(Braking) <=> holds
    BY DEF Tells
  <2>1. i + 1 \in DOMAIN way /\ rest[i] = way[i + 1] /\ i \in Int
    BY <1>1
  <2>2. ASSUME NEW j \in DOMAIN way, j > i + 1 PROVE way[j] \notin Brakes
    <3>1. j # 1 /\ j - 1 > i /\ j \in 1..n
      BY <1>1, <2>1, <2>2
    <3>2. j - 1 \in DOMAIN rest /\ rest[j - 1] = way[j]
      BY <1>1, <1>2, <3>1
    <3> QED BY <3>1, <3>2
  <2> QED BY <2>1, <2>2 DEF Tells
<1>4. ASSUME NoBrake(rest), NEW j \in DOMAIN way, j # 1 PROVE way[j] \notin Brakes
  BY <1>1, <1>2, <1>4 DEF NoBrake
<1>5. ASSUME NoBrake(rest), way[1] \in Brakes PROVE way[1] = Press(Braking) <=> holds
  <2>1. \A j \in DOMAIN way : j > 1 => way[j] \notin Brakes
    BY <1>1, <1>4, <1>5
  <2> QED BY <1>5, <2>1 DEF Tells
<1>6. NoBrake(rest) /\ way[1] \notin Brakes => NoBrake(way)
  BY <1>4 DEF NoBrake
<1> QED BY <1>3, <1>5, <1>6 DEF rest

(* What a packet does to the brake.                                        *)
LEMMA ObeySetsBrake ==
    ASSUME EntitiesInv, WayInv, NEW i \in DOMAIN toGame, Obey(i)
    PROVE  /\ toGame[i] \in Brakes
                => (entities'[Mine].ship.braking <=> toGame[i] = Press(Braking))
           /\ toGame[i] \notin Brakes
                => entities'[Mine].ship.braking = ShipAt(Mine).braking
<1> DEFINE p == toGame[i]
<1>1. p \in Packet /\ ShipAt(Mine) \in ShapeOfShip
      /\ Mine \in DOMAIN entities /\ entities[Mine].kind = "ship"
  BY TakenWay, EntityFields DEF WayInv, EntitiesInv, ShipAt, ShipEntity
<1>2. CASE p.act = "press" /\ Steer(Mine, LAMBDA s : Pressed(s, p.control))
  <2>1. PICK c \in Control : p = Press(c) /\ p.control = c
    BY <1>1, <1>2 DEF Packet, Press, Release, Fire
  <2>2. Steer(Mine, LAMBDA s : Pressed(s, c))
    BY <1>2, <2>1
  <2>3. entities'[Mine].ship = Pressed(ShipAt(Mine), c)
    BY <2>2, SteerMoves
  <2>4. Pressed(ShipAt(Mine), c).braking
            = IF c = Braking THEN TRUE ELSE ShipAt(Mine).braking
    BY <1>1, SteeredAdds, Zenon
  <2>5. (p \in Brakes <=> c = Braking) /\ (p \in Brakes => p = Press(Braking))
    BY <2>1 DEF Brakes, Press, Release
  <2> HIDE DEF p
  <2> QED BY <2>3, <2>4, <2>5, Zenon DEF p
<1>3. CASE p.act = "release" /\ Steer(Mine, LAMBDA s : Released(s, p.control))
  <2>1. PICK c \in Control : p = Release(c) /\ p.control = c
    BY <1>1, <1>3 DEF Packet, Press, Release, Fire
  <2>2. Steer(Mine, LAMBDA s : Released(s, c))
    BY <1>3, <2>1
  <2>3. entities'[Mine].ship = Released(ShipAt(Mine), c)
    BY <2>2, SteerMoves
  <2>4. Released(ShipAt(Mine), c).braking
            = IF c = Braking THEN FALSE ELSE ShipAt(Mine).braking
    BY <1>1, SteeredAdds, Zenon
  <2>5. (p \in Brakes <=> c = Braking) /\ p # Press(Braking)
    BY <2>1 DEF Brakes, Press, Release
  <2> HIDE DEF p
  <2> QED BY <2>3, <2>4, <2>5, Zenon DEF p
<1>4. CASE p.act = "fire" /\ Shoot(Mine, p.weapon)
  <2>1. p \notin Brakes
    BY <1>4 DEF Brakes, Press, Release
  <2>2. Settings(entities'[Mine].ship) = Settings(ShipAt(Mine))
    BY <1>1, <1>4, ShootMoves DEF ShipAt
  <2> QED BY <2>1, <2>2 DEF Settings
<1> QED BY <1>2, <1>3, <1>4 DEF Obey

(* In order and once: only the first packet of a way is taken, and it goes.*)
LEMMA TakenInOrder ==
    ASSUME NEW way, NEW i \in DOMAIN way, NEW way2, Take(way, i), Left(way, i, way2),
           DOMAIN way \subseteq Nat \ {0}, repeats \in Nat, ~overtaken', repeats' = 0
    PROVE  i = 1 /\ way2 = RemoveAt(way, 1) /\ ~overtaken /\ repeats = 0
<1>1. ~overtaken /\ ~(i > 1)
  BY DEF Take
<1>2. i = 1
  BY <1>1
<1> QED BY <1>1, <1>2 DEF Left

LEMMA BrakeNext ==
    ASSUME EntitiesInv, WayInv, BoundsInv, BrakeInv, [Next]_vars
    PROVE  BrakeInv'
<1> DEFINE b == Braking \in held
<1>0. /\ DOMAIN toUser \subseteq Nat \ {0} /\ DOMAIN toGame \subseteq Nat \ {0}
      /\ repeats \in Nat
  BY LenProperties, FlightAssumption DEF WayInv, BoundsInv
<1> SUFFICES ASSUME ~overtaken', repeats' = 0
             PROVE  /\ Tells(toUser', b')
                    /\ NoBrake(toUser') =>
                          /\ Tells(toGame', b')
                          /\ NoBrake(toGame') => (entities'[Mine].ship.braking <=> b')
  BY DEF BrakeInv, Tells, NoBrake, ShipAt, Mine, Brakes, Press, Release, Braking
<1>1. ASSUME ~overtaken, repeats = 0
      PROVE  /\ Tells(toUser, b)
             /\ NoBrake(toUser) =>
                   /\ Tells(toGame, b)
                   /\ NoBrake(toGame) => (ShipAt(Mine).braking <=> b)
  BY <1>1 DEF BrakeInv
<1>2. ASSUME NEW c \in Control, PressControl(c) \/ ReleaseControl(c)
      PROVE  /\ Tells(toUser', b')
             /\ NoBrake(toUser') =>
                   /\ Tells(toGame', b')
                   /\ NoBrake(toGame') => (entities'[Mine].ship.braking <=> b')
  <2>1. /\ UNCHANGED <<entities, toGame>> /\ ~overtaken /\ repeats = 0
        /\ \/ toUser' = Append(toUser, Press(c)) /\ held' = held \cup {c}
           \/ toUser' = Append(toUser, Release(c)) /\ held' = held \ {c}
    BY <1>2 DEF PressControl, ReleaseControl
  <2>2. /\ Press(c) \in Packet /\ Release(c) \in Packet
        /\ Press(c) \in Brakes <=> c = Braking
        /\ Release(c) \in Brakes <=> c = Braking
        /\ Release(c) # Press(Braking)
    BY DEF Packet, Brakes, Press, Release
  <2>3. CASE c = Braking
    <3>1. \/ toUser' = Append(toUser, Press(c)) /\ b'
          \/ toUser' = Append(toUser, Release(c)) /\ ~b'
      BY <2>1, <2>3
    <3> HIDE DEF b
    <3>2. Tells(toUser', b') /\ ~NoBrake(toUser')
      <4>1. CASE toUser' = Append(toUser, Press(c)) /\ b'
        BY <2>2, <2>3, <4>1, TellsAppended DEF WayInv
      <4>2. CASE toUser' = Append(toUser, Release(c)) /\ ~b'
        BY <2>2, <2>3, <4>2, TellsAppended DEF WayInv
      <4> QED BY <3>1, <4>1, <4>2
    <3> QED BY <3>2
  <2>4. CASE c # Braking
    <3>1. b' <=> b
      BY <2>1, <2>4
    <3>2. PICK p \in Packet : p \notin Brakes /\ toUser' = Append(toUser, p)
      BY <2>1, <2>2, <2>4
    <3> HIDE DEF b
    <3>3. Tells(toUser, b) /\ Tells(toUser', b) /\ (NoBrake(toUser') <=> NoBrake(toUser))
      BY <1>1, <2>1, <3>2, TellsAppended DEF WayInv
    <3>4. Tells(toUser', b') /\ (Tells(toGame', b') <=> Tells(toGame, b))
      BY <2>1, <3>1, <3>3 DEF Tells
    <3>5. NoBrake(toGame') <=> NoBrake(toGame)
      BY <2>1 DEF NoBrake
    <3>6. entities'[Mine].ship.braking = ShipAt(Mine).braking
      BY <2>1 DEF ShipAt
    <3> QED BY <1>1, <2>1, <3>1, <3>3, <3>4, <3>5, <3>6
  <2> QED BY <2>3, <2>4
<1>3. CASE PullTrigger
  <2>1. /\ Fire(0) \in Packet /\ Fire(0) \notin Brakes
        /\ toUser' = Append(toUser, Fire(0))
        /\ UNCHANGED <<entities, held, toGame>> /\ ~overtaken /\ repeats = 0
    BY <1>3 DEF PullTrigger, Packet, WeaponByte, Brakes, Press, Release, Fire
  <2>2. b' = b
    BY <2>1
  <2> HIDE DEF b
  <2>3. Tells(toUser, b) /\ Tells(toUser', b) /\ (NoBrake(toUser') <=> NoBrake(toUser))
    BY <1>1, <2>1, TellsAppended DEF WayInv
  <2>4. entities'[Mine].ship.braking = ShipAt(Mine).braking
    BY <2>1 DEF ShipAt
  <2> QED BY <1>1, <2>1, <2>2, <2>3, <2>4
<1>4. ASSUME NEW i \in DOMAIN toUser, PassOn(i)
      PROVE  /\ Tells(toUser', b')
             /\ NoBrake(toUser') =>
                   /\ Tells(toGame', b')
                   /\ NoBrake(toGame') => (entities'[Mine].ship.braking <=> b')
  <2>1. /\ i = 1 /\ toUser' = RemoveAt(toUser, 1) /\ ~overtaken /\ repeats = 0
        /\ 1 \in DOMAIN toUser /\ UNCHANGED <<entities, held>>
    BY <1>0, <1>4, TakenInOrder DEF PassOn
  <2> DEFINE p == toUser[1]
  <2>2. PICK q \in Packet : /\ toGame' = Append(toGame, q)
                            /\ q \in Brakes <=> p \in Brakes
                            /\ p \in Brakes => q = p
    <3>1. PICK q \in PassedOn(p) : toGame' = Append(toGame, q)
      BY <1>4, <2>1 DEF PassOn
    <3>2. p \in Packet
      BY <2>1, TakenWay DEF WayInv
    <3>3. CASE p.act = "fire"
      <4>1. q \in Packet /\ q.act = "fire"
        BY <3>1, <3>3 DEF PassedOn, Packet, Fire
      <4>2. \A k \in Brakes : k.act # "fire"
        BY DEF Brakes, Press, Release
      <4> QED BY <3>1, <3>3, <4>1, <4>2
    <3>4. CASE p.act # "fire"
      BY <3>1, <3>2, <3>4 DEF PassedOn
    <3> QED BY <3>3, <3>4
  <2>3. b' = b
    BY <2>1
  <2> HIDE DEF b, p
  <2>4. /\ Tells(toUser, b) /\ Tells(toUser', b)
        /\ NoBrake(toUser') /\ p \in Brakes => (p = Press(Braking) <=> b)
        /\ NoBrake(toUser') /\ p \notin Brakes => NoBrake(toUser)
    BY <1>1, <2>1, TellsTaken DEF WayInv, p
  <2>5. entities'[Mine].ship.braking = ShipAt(Mine).braking
    BY <2>1 DEF ShipAt
  <2>6. CASE p \in Brakes
    BY <2>2, <2>3, <2>4, <2>6, TellsAppended DEF WayInv
  <2>7. CASE p \notin Brakes
    BY <1>1, <2>1, <2>2, <2>3, <2>4, <2>5, <2>7, TellsAppended DEF WayInv
  <2> QED BY <2>6, <2>7
<1>5. ASSUME NEW i \in DOMAIN toGame, Obey(i)
      PROVE  /\ Tells(toUser', b')
             /\ NoBrake(toUser') =>
                   /\ Tells(toGame', b')
                   /\ NoBrake(toGame') => (entities'[Mine].ship.braking <=> b')
  <2>1. /\ i = 1 /\ toGame' = RemoveAt(toGame, 1) /\ ~overtaken /\ repeats = 0
        /\ 1 \in DOMAIN toGame /\ UNCHANGED <<held, toUser>>
    BY <1>0, <1>5, TakenInOrder DEF Obey
  <2> DEFINE p == toGame[1]
  <2>2. /\ p \in Brakes => (entities'[Mine].ship.braking <=> p = Press(Braking))
        /\ p \notin Brakes => entities'[Mine].ship.braking = ShipAt(Mine).braking
    BY <1>5, <2>1, ObeySetsBrake
  <2>3. b' = b
    BY <2>1
  <2> HIDE DEF b, p
  <2>4. Tells(toUser', b') /\ (NoBrake(toUser') => NoBrake(toUser))
    BY <1>1, <2>1, <2>3
  <2>5. ASSUME Tells(toGame, b)
        PROVE  /\ Tells(toGame', b)
               /\ NoBrake(toGame') /\ p \in Brakes => (p = Press(Braking) <=> b)
               /\ NoBrake(toGame') /\ p \notin Brakes => NoBrake(toGame)
    BY <2>1, <2>5, TellsTaken DEF WayInv, p
  <2> QED BY <1>1, <2>1, <2>2, <2>3, <2>4, <2>5, Zenon
<1>6. CASE Frame \/ UNCHANGED vars
  <2>1. /\ UNCHANGED <<held, toUser, toGame, overtaken, repeats>>
        /\ Settings(entities'[Mine].ship) = Settings(ShipAt(Mine))
    <3>1. CASE Frame
      BY <3>1, FrameAges DEF Frame, EntitiesInv, ShipAt
    <3>2. CASE UNCHANGED vars
      BY <3>2 DEF vars, ShipAt
    <3> QED BY <1>6, <3>1, <3>2
  <2>2. entities'[Mine].ship.braking = ShipAt(Mine).braking
    BY <2>1 DEF Settings
  <2>3. b' = b /\ ~overtaken /\ repeats = 0
    BY <2>1
  <2> HIDE DEF b
  <2> QED BY <1>1, <2>1, <2>2, <2>3
<1> HIDE DEF b
<1> QED BY <1>2, <1>3, <1>4, <1>5, <1>6 DEF Next

LEMMA BrakeInit == Init => BrakeInv
<1> SUFFICES ASSUME Init PROVE BrakeInv
  OBVIOUS
<1>1. toUser = <<>> /\ toGame = <<>> /\ held = {}
  BY DEF Init
<1>2. DOMAIN <<>> = {}
  OBVIOUS
<1>3. ~ShipAt(Mine).braking
  BY FirstEntities DEF ShipAt, ClientShip, NewShip
<1> QED BY <1>1, <1>2, <1>3 DEF BrakeInv, Tells, NoBrake

(* Once every packet has arrived, in order and once, the ship brakes just  *)
(* if the player holds the brake.                                          *)
THEOREM BrakeFollows == Spec => []BrakeFollowsInOrder
<1>1. FlightInv /\ BrakeInv /\ [Next]_vars => BrakeInv'
  BY BrakeNext DEF FlightInv
<1>2. FlightInv => EntitiesInv
  BY DEF FlightInv
<1>3. EntitiesInv /\ BrakeInv => BrakeFollowsInOrder
  <2> SUFFICES ASSUME EntitiesInv, BrakeInv, ~overtaken, repeats = 0,
                      toUser = <<>>, toGame = <<>>
               PROVE  ShipAt(Mine).braking = (Braking \in held)
    BY DEF BrakeFollowsInOrder
  <2>1. DOMAIN <<>> = {}
    OBVIOUS
  <2>2. ShipAt(Mine).braking <=> Braking \in held
    BY <2>1 DEF BrakeInv, NoBrake
  <2>3. ShipAt(Mine).braking \in BOOLEAN
    BY EntityFields DEF EntitiesInv, ShipAt, ShipEntity, ShapeOfShip
  <2> QED BY <2>2, <2>3
<1> QED BY <1>1, <1>2, <1>3, BrakeInit, FlightIsBalanced, PTL DEF Spec

-----------------------------------------------------------------------------
(* The string of the universe: a chunk for each entity, one after the      *)
(* other, and two bytes for each number.                                   *)

(* The recursive function inside FlattenSeq, and that there is one.        *)
LEMMA FlattenIs ==
    ASSUME NEW seqs, Len(seqs) # 0
    PROVE  FlattenSeq(seqs)
             = (CHOOSE f : f = [i \in 1..Len(seqs) |->
                                  IF i = 1 THEN seqs[i] ELSE f[i - 1] \o seqs[i]])[Len(seqs)]
BY Zenon DEF FlattenSeq

LEMMA FlattenExists ==
    ASSUME NEW seqs, NEW n \in Nat
    PROVE  \E f : f = [i \in 1..n |-> IF i = 1 THEN seqs[i] ELSE f[i - 1] \o seqs[i]]
<1> DEFINE Good(k) ==
        \E f : f = [i \in 1..k |-> IF i = 1 THEN seqs[i] ELSE f[i - 1] \o seqs[i]]
           T == {k \in Nat : ~Good(k)}
<1>1. Good(0)
  <2>1. <<>> = [i \in 1..0 |-> IF i = 1 THEN seqs[i] ELSE <<>>[i - 1] \o seqs[i]]
    OBVIOUS
  <2> QED BY <2>1
<1>2. ASSUME NEW m \in Nat, Good(m) PROVE Good(m + 1)
  <2>1. PICK f : f = [i \in 1..m |-> IF i = 1 THEN seqs[i] ELSE f[i - 1] \o seqs[i]]
    BY <1>2
  <2> DEFINE last == IF m + 1 = 1 THEN seqs[m + 1] ELSE f[m] \o seqs[m + 1]
             g == [i \in 1..(m + 1) |-> IF i = m + 1 THEN last ELSE f[i]]
  <2> HIDE DEF last
  <2>2. ASSUME NEW i \in 1..(m + 1)
        PROVE  g[i] = IF i = 1 THEN seqs[i] ELSE g[i - 1] \o seqs[i]
    <3>1. CASE i = m + 1
      <4>1. CASE m = 0
        BY <3>1, <4>1 DEF last
      <4>2. CASE m # 0
        <5>1. m \in 1..(m + 1) /\ m # m + 1 /\ i - 1 = m /\ i # 1
          BY <3>1, <4>2
        <5>2. g[m] = f[m] /\ g[i] = last
          BY <3>1, <5>1
        <5>3. last = f[m] \o seqs[m + 1]
          <6>1. m + 1 # 1
            BY <4>2
          <6> QED BY <6>1, Zenon DEF last
        <5> HIDE DEF g
        <5> QED BY <3>1, <5>1, <5>2, <5>3
      <4> QED BY <4>1, <4>2
    <3>2. CASE i # m + 1
      <4>1. i \in 1..m /\ g[i] = f[i]
        BY <3>2
      <4>2. f[i] = IF i = 1 THEN seqs[i] ELSE f[i - 1] \o seqs[i]
        BY <2>1, <4>1, Zenon
      <4>3. i # 1 => i - 1 \in 1..(m + 1) /\ i - 1 # m + 1
        BY <3>2
      <4>4. i # 1 => g[i - 1] = f[i - 1]
        BY <4>3
      <4> HIDE DEF g
      <4> QED BY <4>1, <4>2, <4>4
    <3> QED BY <3>1, <3>2
  <2>3. g = [i \in 1..(m + 1) |-> g[i]]
    OBVIOUS
  <2> HIDE DEF g
  <2>4. g = [i \in 1..(m + 1) |-> IF i = 1 THEN seqs[i] ELSE g[i - 1] \o seqs[i]]
    BY <2>2, <2>3
  <2> QED BY <2>4
<1> HIDE DEF Good
<1>3. T = {}
  <2> SUFFICES ASSUME T # {} PROVE FALSE
    OBVIOUS
  <2>1. PICK x \in T : \A y \in T : x <= y
    BY LeastNatural
  <2>2. x \in Nat /\ ~Good(x) /\ x # 0
    BY <1>1
  <2>3. x - 1 \in Nat /\ x - 1 \notin T /\ (x - 1) + 1 = x
    BY <2>1, <2>2
  <2> QED BY <1>2, <2>2, <2>3
<1> QED BY <1>3 DEF Good

(* Two digits to the base Byte, and what is left beyond them.              *)
LEMMA Division ==
    ASSUME NEW n \in Nat, NEW m \in Nat \ {0}
    PROVE  /\ n \div m \in Nat /\ n % m \in 0..(m - 1)
           /\ n = m * (n \div m) + (n % m)
<1>1. n % m \in 0..(m - 1)
  OBVIOUS
<1>2. n \div m \in Nat
  OBVIOUS
<1>3. n = m * (n \div m) + (n % m)
  OBVIOUS
<1> QED BY <1>1, <1>2, <1>3

LEMMA DivisionUnique ==
    ASSUME NEW m \in Nat \ {0}, NEW k \in Nat, NEW r \in 0..(m - 1)
    PROVE  (m * k + r) % m = r
OBVIOUS

LEMMA Digits ==
    ASSUME NEW b \in Nat \ {0}, NEW k \in Nat, NEW x \in 0..(b - 1), NEW y \in 0..(b - 1)
    PROVE  /\ b * b \in Nat \ {0} /\ b * y + x \in 0..(b * b - 1)
           /\ b * (b * k + y) + x = (b * b) * k + (b * y + x)
<1>1. b * b \in Nat \ {0}
  OBVIOUS
<1>2. b * (b * k + y) + x = (b * b) * k + (b * y + x)
  OBVIOUS
<1>3. b * y \in Nat /\ b * y <= b * (b - 1) /\ b * (b - 1) = b * b - b
  OBVIOUS
<1> QED BY <1>1, <1>2, <1>3

LEMMA TwoBytes ==
    ASSUME NEW n \in Nat
    PROVE  Low(n) + Byte * High(n) = n % (Byte * Byte)
<1> DEFINE q == n \div Byte
           k == q \div Byte
           x == n % Byte
           y == q % Byte
<1>0. Byte \in Nat \ {0}
  BY UniverseAssumption
<1>1. q \in Nat /\ x \in 0..(Byte - 1) /\ n = Byte * q + x
  BY <1>0, Division
<1>2. k \in Nat /\ y \in 0..(Byte - 1) /\ q = Byte * k + y
  <2> HIDE DEF q
  <2> QED BY <1>0, <1>1, Division
<1>3. Low(n) + Byte * High(n) = x + Byte * y
  BY DEF Low, High
<1> HIDE DEF q, k, x, y
<1>4. /\ Byte * Byte \in Nat \ {0} /\ Byte * y + x \in 0..(Byte * Byte - 1)
      /\ Byte * (Byte * k + y) + x = (Byte * Byte) * k + (Byte * y + x)
  BY <1>0, <1>1, <1>2, Digits
<1>5. n = (Byte * Byte) * k + (Byte * y + x)
  BY <1>1, <1>2, <1>4
<1>6. n % (Byte * Byte) = Byte * y + x
  <2> DEFINE m == Byte * Byte
             r == Byte * y + x
  <2>1. m \in Nat \ {0} /\ r \in 0..(m - 1) /\ n = m * k + r /\ k \in Nat
    BY <1>2, <1>4, <1>5
  <2> HIDE DEF m, r
  <2>2. n % m = r
    BY <2>1, DivisionUnique
  <2> QED BY <2>2 DEF m, r
<1>7. x \in Int /\ Byte * y \in Int
  BY <1>0, <1>1, <1>2
<1> QED BY <1>3, <1>6, <1>7

LEMMA SmallRest ==
    ASSUME NEW m \in Nat \ {0}, NEW n \in 0..(m - 1)
    PROVE  n % m = n
<1>1. (m * 0 + n) % m = n
  BY DivisionUnique
<1>2. m * 0 + n = n
  OBVIOUS
<1> QED BY <1>1, <1>2

(* Chunks of one size lie where a reader looks for them.                   *)
LEMMA FlattenChunks ==
    ASSUME NEW S, NEW n \in Nat \ {0}, NEW seqs, Len(seqs) = n,
           \A i \in 1..n : seqs[i] \in Seq(S) /\ Len(seqs[i]) = ChunkSize
    PROVE  /\ Len(FlattenSeq(seqs)) = ChunkSize * n
           /\ \A p \in 1..n, j \in 1..ChunkSize :
                 FlattenSeq(seqs)[(p - 1) * ChunkSize + j] = seqs[p][j]
<1> DEFINE f == CHOOSE f : f = [i \in 1..n |->
                                  IF i = 1 THEN seqs[i] ELSE f[i - 1] \o seqs[i]]
           Good(k) == /\ f[k] \in Seq(S) /\ Len(f[k]) = ChunkSize * k
                      /\ \A p \in 1..k, j \in 1..ChunkSize :
                            f[k][(p - 1) * ChunkSize + j] = seqs[p][j]
           T == {k \in Nat : k \in 1..n /\ ~Good(k)}
<1>1. f = [i \in 1..n |-> IF i = 1 THEN seqs[i] ELSE f[i - 1] \o seqs[i]]
  BY FlattenExists
<1>2. FlattenSeq(seqs) = f[n]
  BY FlattenIs
<1> HIDE DEF f
<1>3. /\ f[1] = seqs[1]
      /\ \A k \in 1..(n - 1) : f[k + 1] = f[k] \o seqs[k + 1]
  <2>1. \A i \in 1..n : f[i] = IF i = 1 THEN seqs[i] ELSE f[i - 1] \o seqs[i]
    BY <1>1
  <2>2. 1 \in 1..n
    OBVIOUS
  <2>3. ASSUME NEW k \in 1..(n - 1) PROVE f[k + 1] = f[k] \o seqs[k + 1]
    <3>1. k + 1 \in 1..n /\ k + 1 # 1 /\ (k + 1) - 1 = k
      OBVIOUS
    <3> QED BY <2>1, <3>1
  <2> QED BY <2>1, <2>2, <2>3
<1>4. Good(1)
  <2>1. 1 \in 1..n /\ f[1] \in Seq(S) /\ Len(f[1]) = ChunkSize
    BY <1>3
  <2>2. ASSUME NEW p \in 1..1, NEW j \in 1..ChunkSize
        PROVE  f[1][(p - 1) * ChunkSize + j] = seqs[p][j]
    <3>1. p = 1 /\ (p - 1) * ChunkSize + j = j
      BY DEF ChunkSize
    <3> QED BY <1>3, <3>1
  <2>3. ChunkSize * 1 = ChunkSize
    BY DEF ChunkSize
  <2> QED BY <2>1, <2>2, <2>3
<1>5. ASSUME NEW k \in 1..(n - 1), Good(k) PROVE Good(k + 1)
  <2>1. k \in Nat /\ k + 1 \in 1..n
    OBVIOUS
  <2>2. f[k + 1] = f[k] \o seqs[k + 1]
    BY <1>3
  <2>3. /\ f[k + 1] \in Seq(S) /\ Len(f[k + 1]) = Len(f[k]) + Len(seqs[k + 1])
        /\ \A i \in 1..(Len(f[k]) + Len(seqs[k + 1])) :
              f[k + 1][i] = IF i <= Len(f[k]) THEN f[k][i]
                                              ELSE seqs[k + 1][i - Len(f[k])]
    <3>1. f[k] \in Seq(S) /\ seqs[k + 1] \in Seq(S)
      BY <1>5, <2>1
    <3> DEFINE a == f[k]
               b == seqs[k + 1]
    <3>2. f[k + 1] = a \o b /\ a \in Seq(S) /\ b \in Seq(S)
      BY <2>2, <3>1
    <3> HIDE DEF a, b, Good
    <3>3. /\ a \o b \in Seq(S) /\ Len(a \o b) = Len(a) + Len(b)
          /\ \A i \in 1..(Len(a) + Len(b)) :
                (a \o b)[i] = IF i <= Len(a) THEN a[i] ELSE b[i - Len(a)]
      BY <3>2, ConcatProperties
    <3> QED BY <3>2, <3>3 DEF a, b
  <2>4. Len(f[k]) = 11 * k /\ Len(seqs[k + 1]) = 11
    BY <1>5, <2>1 DEF ChunkSize
  <2>5. Len(f[k + 1]) = ChunkSize * (k + 1)
    BY <2>1, <2>3, <2>4 DEF ChunkSize
  <2>6. ASSUME NEW p \in 1..(k + 1), NEW j \in 1..ChunkSize
        PROVE  f[k + 1][(p - 1) * ChunkSize + j] = seqs[p][j]
    <3> DEFINE i == (p - 1) * 11 + j
    <3>0. j \in 1..11 /\ (p - 1) * ChunkSize + j = i
      BY DEF ChunkSize
    <3>1. i \in 1..(11 * k + 11)
      BY <2>1, <3>0
    <3>2. f[k + 1][i] = IF i <= 11 * k THEN f[k][i] ELSE seqs[k + 1][i - 11 * k]
      BY <2>3, <2>4, <3>1
    <3>3. CASE p \in 1..k
      <4>1. i <= 11 * k
        BY <2>1, <3>0, <3>3
      <4>2. f[k][i] = seqs[p][j]
        BY <1>5, <3>0, <3>3
      <4> HIDE DEF i
      <4> QED BY <3>0, <3>2, <4>1, <4>2
    <3>4. CASE p = k + 1
      <4>1. ~(i <= 11 * k) /\ i - 11 * k = j
        BY <2>1, <3>0, <3>4
      <4> HIDE DEF i
      <4> QED BY <3>0, <3>2, <3>4, <4>1
    <3>5. p \in 1..k \/ p = k + 1
      BY <2>1
    <3> QED BY <3>3, <3>4, <3>5
  <2> QED BY <2>3, <2>5, <2>6
<1> HIDE DEF Good
<1>6. T = {}
  <2> SUFFICES ASSUME T # {} PROVE FALSE
    OBVIOUS
  <2>1. PICK x \in T : \A y \in T : x <= y
    BY LeastNatural
  <2>2. x \in 1..n /\ ~Good(x) /\ x # 1
    BY <1>4
  <2>3. /\ x - 1 \in Nat /\ x - 1 \in 1..(n - 1) /\ x - 1 \in 1..n
        /\ x - 1 \notin T /\ (x - 1) + 1 = x
    BY <2>1, <2>2
  <2> QED BY <1>5, <2>2, <2>3
<1>7. Good(n)
  BY <1>6
<1> QED BY <1>2, <1>7 DEF Good

(* What is written of one entity, and read again.                          *)
LEMMA ChunkIs ==
    ASSUME NEW e, NEW look
    PROVE  LET c == Chunk(e, look)
           IN  /\ Len(c) = ChunkSize /\ \A S : (\A j \in 1..11 : c[j] \in S) => c \in Seq(S)
               /\ c[1] = Low(e.id) /\ c[2] = High(e.id) /\ c[3] = Low(Status(e, look))
               /\ c[4] = Low(look.type) /\ c[5] = High(look.type)
               /\ c[6] = Low(look.x) /\ c[7] = High(look.x)
               /\ c[8] = Low(look.y) /\ c[9] = High(look.y)
               /\ c[10] = Low(Angle(e, look)) /\ c[11] = High(Angle(e, look))
<1> DEFINE c == Chunk(e, look)
<1>1. /\ Len(c) = ChunkSize
      /\ c[1] = Low(e.id) /\ c[2] = High(e.id) /\ c[3] = Low(Status(e, look))
      /\ c[4] = Low(look.type) /\ c[5] = High(look.type)
      /\ c[6] = Low(look.x) /\ c[7] = High(look.x)
      /\ c[8] = Low(look.y) /\ c[9] = High(look.y)
      /\ c[10] = Low(Angle(e, look)) /\ c[11] = High(Angle(e, look))
  BY DEF Chunk, ChunkSize
<1>2. c = [j \in 1..11 |-> c[j]]
  BY DEF Chunk
<1>3. ASSUME NEW S, \A j \in 1..11 : c[j] \in S PROVE c \in Seq(S)
  <2> HIDE DEF c
  <2> QED BY <1>2, <1>3, SeqDef
<1> QED BY <1>1, <1>3

Reading(e, look) == [id |-> e.id % (Byte * Byte), status |-> Status(e, look),
                     type |-> look.type,
                     x |-> look.x % (Byte * Byte), y |-> look.y % (Byte * Byte),
                     angle |-> Angle(e, look)]

LEMMA LooksAreBytes ==
    ASSUME NEW look \in Looks
    PROVE  /\ look.type \in 0..(Byte * Byte - 1) /\ look.x \in Nat /\ look.y \in Nat
           /\ look.status \in 0..(Byte - 1) /\ look.angle \in 0..(Byte * Byte - 1)
<1> DEFINE B == Byte * Byte
<1>0. Byte \in Nat \ {0} /\ Byte >= 4 /\ B \in Nat /\ B >= 4
      /\ Circle \in Nat \ {0} /\ Circle <= B /\ Byte <= B
  BY UniverseAssumption, ShipAssumption
<1>1. PICK n \in {Byte - 1, B - 1} :
          look = [type |-> n % 3, x |-> B - n, y |-> n + 1, status |-> n % Byte,
                  angle |-> n % Circle]
  BY DEF Looks
<1>2. n \in Nat /\ n <= B - 1
  <2> HIDE DEF B
  <2> QED BY <1>0, <1>1
<1>3. n % 3 \in 0..2 /\ n % Byte \in 0..(Byte - 1) /\ n % Circle \in 0..(Circle - 1)
  BY <1>0, <1>2, Division
<1> HIDE DEF B
<1>4. n % 3 \in 0..(B - 1) /\ B - n \in Nat /\ n + 1 \in Nat
      /\ n % Circle \in 0..(B - 1)
  BY <1>0, <1>2, <1>3
<1> QED BY <1>1, <1>3, <1>4 DEF B

LEMMA TwoSmallBytes ==
    ASSUME NEW n \in 0..(Byte * Byte - 1)
    PROVE  n \in Nat /\ Low(n) + Byte * High(n) = n
<1>1. Byte * Byte \in Nat \ {0}
  BY UniverseAssumption
<1>2. n \in Nat /\ n % (Byte * Byte) = n
  <2> DEFINE B == Byte * Byte
  <2> HIDE DEF B
  <2> QED BY <1>1, SmallRest DEF B
<1> QED BY <1>2, TwoBytes

LEMMA EntityNumbers ==
    ASSUME EntitiesInv, AnglesInv, NEW look \in Looks, NEW p \in DOMAIN entities
    PROVE  /\ entities[p].id \in Nat
           /\ Status(entities[p], look) \in 0..(Byte - 1)
           /\ Angle(entities[p], look) \in 0..(Byte * Byte - 1)
<1> DEFINE B == Byte * Byte
<1>0. Byte \in Nat \ {0} /\ Byte >= 4 /\ B \in Nat
      /\ Circle \in Nat \ {0} /\ Circle <= B
  BY UniverseAssumption, ShipAssumption
<1>1. entities[p].id \in Nat
  <2>1. /\ p \in 1..Len(entities) /\ Len(entities) \in Nat
        /\ Spawned \in Nat /\ entities[p].id = IF p <= Spawned THEN p - 1 ELSE p
    BY EntityFields DEF EntitiesInv
  <2> HIDE DEF B
  <2> QED BY <1>0, <2>1
<1>2. Status(entities[p], look) \in 0..(Byte - 1)
  <2>1. CASE entities[p].kind = "ship"
    <3> DEFINE s == entities[p].ship
    <3>1. /\ Bit(s.turning) \in {0, 1} /\ Bit(s.accelerating) \in {0, 1}
      BY DEF Bit
    <3>2. Status(entities[p], look) = Bit(s.turning) + 2 * Bit(s.accelerating)
      BY <2>1 DEF Status
    <3> QED BY <1>0, <3>1, <3>2
  <2>2. CASE entities[p].kind # "ship"
    BY <2>2, LooksAreBytes DEF Status
  <2> QED BY <2>1, <2>2
<1>3. Angle(entities[p], look) \in 0..(B - 1)
  <2>1. CASE entities[p].kind = "ship"
    <3>1. entities[p].ship.angle \in 0..(Circle - 1)
      BY <2>1 DEF AnglesInv
    <3> HIDE DEF B
    <3> QED BY <1>0, <2>1, <3>1 DEF Angle
  <2>2. CASE entities[p].kind # "ship"
    BY <2>2, LooksAreBytes DEF Angle
  <2> QED BY <2>1, <2>2
<1> QED BY <1>1, <1>2, <1>3

LEMMA UniverseReads ==
    ASSUME EntitiesInv, AnglesInv, NEW look \in Looks
    PROVE  LET s == UniverseString(look)
           IN  /\ Len(s) = ChunkSize * Len(entities)
               /\ \A p \in DOMAIN entities : Read(s, p) = Reading(entities[p], look)
<1> DEFINE n == Len(entities)
           seqs == [p \in DOMAIN entities |-> Chunk(entities[p], look)]
           S == {seqs[p][j] : p \in 1..n, j \in 1..11}
           s == FlattenSeq(seqs)
<1>1. n \in Nat \ {0} /\ DOMAIN entities = 1..n
  BY EntityFields DEF EntitiesInv
<1>2. Len(seqs) = n
  BY <1>1, LenProperties
<1>3. ASSUME NEW p \in 1..n
      PROVE  seqs[p] \in Seq(S) /\ Len(seqs[p]) = ChunkSize
  <2>1. seqs[p] = Chunk(entities[p], look)
    BY <1>1
  <2>2. \A j \in 1..11 : seqs[p][j] \in S
    OBVIOUS
  <2> HIDE DEF S, seqs
  <2> QED BY <2>1, <2>2, ChunkIs
<1>4. /\ Len(s) = ChunkSize * n
      /\ \A p \in 1..n, j \in 1..ChunkSize :
            s[(p - 1) * ChunkSize + j] = seqs[p][j]
  <2> HIDE DEF n, seqs, S
  <2> QED BY <1>1, <1>2, <1>3, FlattenChunks
<1>5. ASSUME NEW p \in DOMAIN entities
      PROVE  Read(s, p) = Reading(entities[p], look)
  <2> DEFINE e == entities[p]
             c == Chunk(e, look)
             q == (p - 1) * ChunkSize
  <2>1. p \in 1..n /\ seqs[p] = c
    BY <1>1
  <2> HIDE DEF s, seqs, n
  <2>2. \A j \in 1..11 : s[q + j] = c[j]
    BY <1>4, <2>1 DEF ChunkSize
  <2>3. q \in Int
    BY <1>1, <2>1 DEF ChunkSize
  <2> HIDE DEF q, c
  <2>4. ASSUME NEW b \in {1, 4, 6, 8, 10} PROVE Byte16(s, p, b) = c[b] + Byte * c[b + 1]
    <3>1. b \in 1..11 /\ b + 1 \in 1..11 /\ (q + b) + 1 = q + (b + 1)
      BY <2>3
    <3>2. Byte16(s, p, b) = s[q + b] + Byte * s[(q + b) + 1]
      BY DEF Byte16, q
    <3> QED BY <2>2, <3>1, <3>2
  <2>5. s[q + 3] = c[3]
    BY <2>2
  <2>6. /\ Byte16(s, p, 1) = Low(e.id) + Byte * High(e.id)
        /\ Byte16(s, p, 4) = Low(look.type) + Byte * High(look.type)
        /\ Byte16(s, p, 6) = Low(look.x) + Byte * High(look.x)
        /\ Byte16(s, p, 8) = Low(look.y) + Byte * High(look.y)
        /\ Byte16(s, p, 10) = Low(Angle(e, look)) + Byte * High(Angle(e, look))
        /\ s[q + 3] = Low(Status(e, look))
    <3>1. /\ c[1] = Low(e.id) /\ c[2] = High(e.id) /\ c[3] = Low(Status(e, look))
          /\ c[4] = Low(look.type) /\ c[5] = High(look.type)
          /\ c[6] = Low(look.x) /\ c[7] = High(look.x)
          /\ c[8] = Low(look.y) /\ c[9] = High(look.y)
          /\ c[10] = Low(Angle(e, look)) /\ c[11] = High(Angle(e, look))
      BY ChunkIs DEF c
    <3>2. /\ Byte16(s, p, 1) = c[1] + Byte * c[2]
          /\ Byte16(s, p, 4) = c[4] + Byte * c[5]
          /\ Byte16(s, p, 6) = c[6] + Byte * c[7]
          /\ Byte16(s, p, 8) = c[8] + Byte * c[9]
          /\ Byte16(s, p, 10) = c[10] + Byte * c[11]
      <4>1. 1 + 1 = 2 /\ 4 + 1 = 5 /\ 6 + 1 = 7 /\ 8 + 1 = 9 /\ 10 + 1 = 11
        OBVIOUS
      <4> QED BY <2>4, <4>1
    <3> QED BY <2>5, <3>1, <3>2, Zenon
  <2>7. /\ Low(e.id) + Byte * High(e.id) = e.id % (Byte * Byte)
        /\ Low(look.type) + Byte * High(look.type) = look.type
        /\ Low(look.x) + Byte * High(look.x) = look.x % (Byte * Byte)
        /\ Low(look.y) + Byte * High(look.y) = look.y % (Byte * Byte)
        /\ Low(Angle(e, look)) + Byte * High(Angle(e, look)) = Angle(e, look)
    BY EntityNumbers, LooksAreBytes, TwoBytes, TwoSmallBytes, Zenon
  <2>8. Low(Status(e, look)) = Status(e, look)
    BY EntityNumbers, SmallRest, UniverseAssumption DEF Low
  <2>9. Read(s, p) = [id |-> Byte16(s, p, 1), status |-> s[q + 3],
                      type |-> Byte16(s, p, 4), x |-> Byte16(s, p, 6),
                      y |-> Byte16(s, p, 8), angle |-> Byte16(s, p, 10)]
    BY Zenon DEF Read, q
  <2> QED BY <2>6, <2>7, <2>8, <2>9, Zenon DEF Reading
<1> QED BY <1>4, <1>5 DEF UniverseString

(* The clients read the universe the game server keeps, if the packets on  *)
(* their way and the repeated ones are no more than a circle has steps:    *)
(* however many entities, types and angles come back as they were written, *)
(* and ids modulo two bytes.                                               *)
THEOREM UniverseCanBeRead ==
    ASSUME MaxOnWay + MaxRepeats <= Circle
    PROVE  Spec => []UniverseIsReadable
<1>1. FlightInv /\ AnglesInv => UniverseIsReadable
  BY UniverseReads DEF FlightInv, UniverseIsReadable, Reading
<1> QED BY <1>1, AnglesAreKept, FlightIsBalanced, PTL
=============================================================================
