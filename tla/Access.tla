------------------------------- MODULE Access -------------------------------
(***************************************************************************)
(* What a grantor promises, without its queues, clock, files and locks:    *)
(* who may read the share is the owner's doing.  A requester gets in when  *)
(* the owner approves a request it made, each request is good for one      *)
(* decision, nobody loses access by a step about somebody else, and a      *)
(* restart changes nothing except for those whose last change was answered *)
(* with an error.                                                          *)
(*                                                                         *)
(* Module Grantor implements this specification (Grantor!ImplementsAccess).*)
(***************************************************************************)
EXTENDS Naturals

CONSTANT Node

VARIABLES
  asking,   \* requesters with a request under way
  asked,    \* how many requests of each requester wait for the owner's word
  granted,  \* who may read
  inDoubt   \* those for whom the owner was last answered with an error

accessVars == <<asking, asked, granted, inDoubt>>

AccessInit ==
  /\ asking = {}
  /\ asked = [n \in Node |-> 0]
  /\ granted = {}
  /\ inDoubt = {}

\* One request less from everyone in `who`.
Less(who) == [n \in Node |-> IF n \in who THEN asked[n] - 1 ELSE asked[n]]

Waiting == {n \in Node : asked[n] > 0}

Ask(n) ==
  /\ n \notin asking
  /\ asking' = asking \cup {n}
  /\ UNCHANGED <<asked, granted, inDoubt>>

\* A request arrives: it is queued or turned away.  Old ones may lapse, the
\* requester's own earlier one with them.
Arrive(n) ==
  /\ asking' = asking \ {n}
  /\ \E late \in SUBSET Waiting, admitted \in BOOLEAN :
       asked' = [Less(late) EXCEPT ![n] = IF admitted THEN @ + 1 ELSE @]
  /\ UNCHANGED <<granted, inDoubt>>

\* The owner refuses, or the request is dropped.
Refuse(n) ==
  /\ asked' = Less({n})
  /\ UNCHANGED <<asking, granted, inDoubt>>

\* The owner lets n in.  It costs one request of n; `ok` is the owner's answer.
Approve(n, ok) ==
  /\ asked' = Less({n})
  /\ granted' = granted \cup {n}
  /\ inDoubt' = IF ok THEN inDoubt \ {n} ELSE inDoubt \cup {n}
  /\ UNCHANGED asking

Revoke(n, ok) ==
  /\ granted' = granted \ {n}
  /\ inDoubt' = IF ok THEN inDoubt \ {n} ELSE inDoubt \cup {n}
  /\ UNCHANGED <<asking, asked>>

\* Edits change what those with access see, not who they are.
Adjust(who, ok) ==
  /\ UNCHANGED <<asking, asked, granted>>
  /\ inDoubt' = IF ok THEN inDoubt \ who ELSE inDoubt \cup who

\* Deadlines pass.
Expire(who) ==
  /\ granted' = granted \ who
  /\ UNCHANGED <<asking, asked, inDoubt>>

\* Requests are forgotten; only those in doubt may come back or drop out.
Reboot(who) ==
  /\ granted' = (granted \ inDoubt) \cup who
  /\ asking' = {}
  /\ asked' = [n \in Node |-> 0]
  /\ UNCHANGED inDoubt

AccessNext ==
  \/ \E who \in SUBSET Node, ok \in BOOLEAN : Adjust(who, ok)
  \/ \E n \in Node : Ask(n)
  \/ \E n \in Waiting : Refuse(n)
  \/ \E n \in asking : Arrive(n)
  \/ \E n \in Waiting, ok \in BOOLEAN : Approve(n, ok)
  \/ \E n \in granted, ok \in BOOLEAN : Revoke(n, ok)
  \/ \E who \in SUBSET granted : Expire(who)
  \/ \E who \in SUBSET inDoubt : Reboot(who)

AccessSpec == AccessInit /\ [][AccessNext]_accessVars
=============================================================================
