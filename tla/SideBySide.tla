----------------------------- MODULE SideBySide -----------------------------
(***************************************************************************)
(* Components that share no state are checked side by side in one run: a   *)
(* behaviour consists of the steps of one component, which `focus' names,  *)
(* and the fairness of a component is that of its steps while it has the   *)
(* focus.  A component by itself is the case in which it always has it.    *)
(***************************************************************************)
VARIABLE focus

=============================================================================
