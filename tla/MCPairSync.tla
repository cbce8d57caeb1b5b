----------------------------- MODULE MCPairSync -----------------------------
(* One requester and one grantor, with bounds that keep every action possible. *)
EXTENDS PairSync

CONSTANT a

MCNode == {a}
============================================================================
