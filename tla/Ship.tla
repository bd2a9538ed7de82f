-------------------------------- MODULE Ship --------------------------------
(***************************************************************************)
(* A ship (src/ship.cpp) as its controls see it.  Angles are counted in    *)
(* steps of turnSpeed and time in frames; speeds and accelerations, which  *)
(* are floats, in units of the last place of deltaSpeed (2^-31).  Where a  *)
(* ship is and which way it drifts is left out: speed is the length of its *)
(* velocity, in whole units.                                               *)
(***************************************************************************)
EXTENDS Integers, FiniteSetsExt

CONSTANTS Circle,      \* 360 degrees in steps of turnSpeed: 180
          MaxSpeed,    \* maxSpeed, 0.1f, in units: 214748368
          DeltaSpeed,  \* deltaSpeed, 0.003f, in units: 6442451
          Mantissa,    \* the units a float holds one by one: 2^24
          Grains,      \* the distances of floats, in units: 1, 2, 4, ...
          FireRate     \* fireRate in frames: 60

ASSUME ShipAssumption ==
    /\ Circle \in Nat \ {0}
    /\ MaxSpeed \in Nat \ {0}
    /\ DeltaSpeed \in Nat \ {0}
    /\ Mantissa \in Nat \ {0}
    /\ Grains \subseteq Nat \ {0} /\ 1 \in Grains
    /\ FireRate \in Nat \ {0}

(* va and acc (accSpeed) are the sums of what the controls added; waited   *)
(* is the time since firedTime, up to FireRate.  va is a float of whole    *)
(* degrees, exact below 2^23 steps, and taken for an integer.              *)
ShipState == [angle : 0..(Circle - 1), va : Int, acc : Int, braking : BOOLEAN,
              turning : BOOLEAN, accelerating : BOOLEAN,
              speed : 0..MaxSpeed, waited : 0..FireRate]

NewShip == [angle |-> 0, va |-> 0, acc |-> 0, braking |-> FALSE,
            turning |-> FALSE, accelerating |-> FALSE,
            speed |-> 0, waited |-> 0]

-----------------------------------------------------------------------------
(* The way a direction byte goes; other bytes than 1 and 2 go nowhere. *)
Way(dir) == CASE dir = 1 -> 1 [] dir = 2 -> -1 [] OTHER -> 0

Turn(s, dir) == [s EXCEPT !.va = @ + Way(dir), !.turning = TRUE]
MutStopTurnKeeps(s, dir) == [s EXCEPT !.turning = FALSE]
StopTurn(s, dir) == [s EXCEPT !.va = @ - Way(dir), !.turning = FALSE]

(* A float sum is the nearest of the floats, which lie the further apart   *)
(* the larger they are; of two as near, the one with the even mantissa.    *)
(* Beyond the last of Grains, a bound, sums are left as they are.          *)
Magnitude(a) == IF a < 0 THEN -a ELSE a
Fits(n) == {g \in Grains : Magnitude(n) <= Mantissa * g}
Grain(n) == IF Fits(n) = {} THEN 1 ELSE Min(Fits(n))
Nearest(n, g) ==
    LET q == n \div g
        r == n % g
    IN  IF 2 * r < g \/ (2 * r = g /\ q % 2 = 0) THEN q * g ELSE (q + 1) * g
Rounded(n) == Nearest(n, Grain(n))

Accelerate(s, dir) ==
    [s EXCEPT !.acc = Rounded(@ + Way(dir) * DeltaSpeed), !.accelerating = TRUE]
MutStopAccelerateKeeps(s, dir) == [s EXCEPT !.accelerating = FALSE]
StopAccelerate(s, dir) ==
    [s EXCEPT !.acc = Rounded(@ - Way(dir) * DeltaSpeed), !.accelerating = FALSE]

Decelerate(s) == [s EXCEPT !.braking = TRUE]
MutStopDecelerateNot(s) == s
StopDecelerate(s) == [s EXCEPT !.braking = FALSE]

(* Fire: the time is noted before the weapon is looked at, so an unknown   *)
(* one is reloaded too; the weapons 1 and 2 make bullets.                  *)
MayFire(s) == s.waited >= FireRate
MutFiredUnnoted(s) == s
Fired(s) == [s EXCEPT !.waited = 0]
Weapon == {1, 2}

-----------------------------------------------------------------------------
(* UpdateSpeed: thrust along the heading changes the speed by no more than *)
(* the thrust, up to maxSpeed; the brake takes deltaSpeed off, down to 0.  *)
Thrusted(s) ==
    {v \in 0..MaxSpeed : Magnitude(v - s.speed) <= Magnitude(s.acc)}
MutSlowerKeepsLast(v) == IF v <= DeltaSpeed THEN v ELSE v - DeltaSpeed
Slower(v) == IF v < DeltaSpeed THEN 0 ELSE v - DeltaSpeed
Speeds(s) == IF s.braking THEN {Slower(v) : v \in Thrusted(s)} ELSE Thrusted(s)

(* updateUniverse turns the ship, and corrects an angle that left the      *)
(* circle once.                                                            *)
MutNormalAboveOnly(a) == IF a > Circle THEN a - Circle ELSE IF a < 0 THEN a + Circle ELSE a
Normal(a) == IF a >= Circle THEN a - Circle ELSE IF a < 0 THEN a + Circle ELSE a

Moved(s, v) == [s EXCEPT !.speed = v, !.angle = Normal(@ + s.va)]

(* A frame goes by. *)
Waited(s) == [s EXCEPT !.waited = IF @ < FireRate THEN @ + 1 ELSE @]
=============================================================================
