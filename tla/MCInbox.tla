------------------------------ MODULE MCInbox ------------------------------
(* Bounds under which TLC checks Inbox: every upload asks for the same name, *)
(* which the owner may already share.                                        *)
EXTENDS Inbox, TLC

CONSTANTS u1, u2, o1, o2

MCUpload == {u1, u2}
MCOp == {o1, o2}
Symmetry == Permutations(MCUpload) \cup Permutations(MCOp)
============================================================================
