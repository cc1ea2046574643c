----------------------- MODULE MCLeaseCoordination -----------------------
(* Model values for LeaseCoordination. *)
EXTENDS LeaseCoordination, TLC

CONSTANTS b1, r1, r2

OneBench == {b1}
Two      == {r1, r2}
One      == {r1}
Behind   == -1
Symmetry == Permutations(Two)
==========================================================================
