------------------------------ MODULE MCFlight ------------------------------
(* Flight with a small circle, small bytes and floats of three bits, for    *)
(* TLC: a player who uses all kinds of controls, and one who only thrusts.  *)
EXTENDS Flight

MCControl  == {Turning(1), Accelerating(1), Braking}
ThrustOnly == {Accelerating(1)}
=============================================================================
