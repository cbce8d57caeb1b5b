----------------------------- MODULE MCGrantor -----------------------------
(* Model values and bounds under which TLC checks Grantor. *)
EXTENDS Grantor, TLC

CONSTANTS a, b

MCNode == {a, b}
Symmetry == Permutations(MCNode)
============================================================================
