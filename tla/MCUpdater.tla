----------------------------- MODULE MCUpdater -----------------------------
(* Releases whose order as text is not their order as versions, one of them  *)
(* older than the installed program, one without a zip and one that is no    *)
(* version; the first may be taken back for an older one or followed by a    *)
(* newer one.  One budget is for overlapping settings calls, one for applies *)
(* that overlap with each other and with new releases, one for an apply with *)
(* checks and faults.                                                        *)
EXTENDS Updater

CONSTANTS first, second, pid1, pid2

MCFirst == <<0, 9, 0>>

MCPublished == [tag |-> <<0, 10, 1>>, zip |-> TRUE]

MCRelease ==
  {MCPublished, [tag |-> <<0, 10>>, zip |-> TRUE], [tag |-> <<0, 11>>, zip |-> TRUE],
   [tag |-> <<0, 8, 7>>, zip |-> TRUE], [tag |-> <<0, 11, Junk>>, zip |-> TRUE],
   [tag |-> <<0, 12>>, zip |-> FALSE]}

MCBudget ==
  {[calls |-> 2, faults |-> 1, news |-> 0, checks |-> 0, applies |-> 0],
   [calls |-> 0, faults |-> 0, news |-> 1, checks |-> 0, applies |-> 2],
   [calls |-> 0, faults |-> 2, news |-> 0, checks |-> 1, applies |-> 1]}
============================================================================
