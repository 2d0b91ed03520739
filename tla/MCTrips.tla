-------------------------------- MODULE MCTrips --------------------------------
(* Trips on small instances.                                               *)
EXTENDS Trips

CONSTANTS t1, f1, r1, w1
=============================================================================
