--------------------------- MODULE MCReplayCache ---------------------------
(* Bounds under which TLC checks ReplayCache: the clock runs past the end of *)
(* the window of the latest timestamp and past the life of its cache entry.  *)
EXTENDS ReplayCache, TLC

CONSTANTS s1, s2

MCSig == {s1, s2}
Symmetry == Permutations(MCSig)
============================================================================
