---------------------------- MODULE MCLocalPrint ----------------------------
(* Two jobs, two ports, two installations; the days around the end of a       *)
(* February with a 29th and of one without, in a century year.               *)
EXTENDS LocalPrint, TLC

CONSTANTS j1, j2, c1, c2

MCJob == {j1, j2}
MCCert == {c1, c2}
MCStart == {<<2100, 2, 28>>, <<2024, 2, 28>>}
Symmetry == Permutations(MCJob) \cup Permutations(MCCert)
============================================================================
