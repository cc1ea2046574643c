------------------------ MODULE MCRemoteCommands ------------------------
(* Model values for RemoteCommands. *)
EXTENDS RemoteCommands, TLC

CONSTANTS c1, c2

One      == {c1}
Two      == {c1, c2}
Symmetry == Permutations(Two)
=========================================================================
