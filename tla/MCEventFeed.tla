---------------------------- MODULE MCEventFeed ----------------------------
(* The feed with a polling shell: a ring of two, events enough to overflow it *)
(* after a restart of the daemon.  Two calls of one requester that overlap.   *)
(* Time for two grants to lapse.                                              *)
EXTENDS Notices

CONSTANTS h1, h2

MCHandler == {h1, h2}

MCDurations == {0, 3}

MCScenes ==
  { [time |-> 0, events |-> 4, calls |-> {}, polls |-> TRUE],
    [time |-> 1, events |-> 3, calls |-> {h1, h2}, polls |-> FALSE],
    [time |-> 4, events |-> 4, calls |-> {h1}, polls |-> FALSE],
    [time |-> 0, events |-> 2, calls |-> {h1}, polls |-> TRUE] }
============================================================================
