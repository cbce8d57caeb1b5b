-------------------------- MODULE DiscoveryProofs --------------------------
(***************************************************************************)
(* Theorems about Discovery, for every set of addresses, every life of a   *)
(* registry entry and every length of a keepalive round that leaves room   *)
(* for two of them in it.                                                  *)
(***************************************************************************)
EXTENDS Discovery, TLAPS

USE DiscoveryAssumption

----------------------------------------------------------------------------
(* Types *)

\* The calls, whatever came of them.
Call ==
  [at : {"idle", "wait", "send", "verify", "ok", "failed"}, addr : Addr \cup {NONE},
   by : {Self, Other, NONE}, pinned : BOOLEAN, calm : BOOLEAN]

\* The keepalive's rounds.
Round ==
  [at : {"idle", "due", "probe", "others"}, addr : Addr \cup {NONE}, took : 0..Slack]

\* Nothing is being called or probed.
LEMMA IdleTypes == NoCall \in Call /\ NoCall.at = "idle" /\ NoRound \in Round
BY DEF NoCall, Call, NoRound, Round

\* A change of the observation keeps a call a call.
LEMMA CalmType ==
  ASSUME NEW c \in Call, NEW b \in BOOLEAN
  PROVE  [c EXCEPT !.calm = b] \in Call
BY DEF Call

\* A contact that is up has an address.
LEMMA WhereType == Up => Where \in Addr
BY DEF Up, Where

\* Every step keeps every variable in its type.
LEMMA TypeStep == TypeOK /\ [Next]_vars => TypeOK'
<1> SUFFICES ASSUME TypeOK, [Next]_vars PROVE TypeOK'
  OBVIOUS
<1>1. CASE Announce
  BY <1>1, WhereType DEF Announce, TypeOK
<1>2. CASE RecordEnds
  BY <1>2 DEF RecordEnds, TypeOK
<1>3. CASE Browse
  <2>1. Head(queue) \in Addr \cup {NONE} /\ Tail(queue) \in Seq(Addr \cup {NONE})
        /\ Len(Tail(queue)) <= MaxQueue
    BY <1>3 DEF Browse, TypeOK
  <2>2. steady' \in BOOLEAN
    BY <1>3 DEF Browse
  <2>3. call' = [call EXCEPT !.calm = call.calm /\ steady'] /\ call \in Call
    BY <1>3 DEF Browse, TypeOK, Call
  <2>4. call' \in Call /\ call'.at = call.at /\ call'.addr = call.addr
    BY <2>2, <2>3, CalmType DEF Call
  <2>5. peer' \in [addr : Addr, age : 0..(Ttl + 1)] \cup {Lost}
    BY <1>3, <2>1 DEF Browse
  <2>6. UNCHANGED <<host, shown, cache, round>> /\ queue' = Tail(queue)
    BY <1>3 DEF Browse
  <2> QED
    BY <2>1, <2>2, <2>4, <2>5, <2>6 DEF TypeOK, Call
<1>4. CASE RoundStarts
  <2>1. peer' \in [addr : Addr, age : 0..(Ttl + 1)] \cup {Lost}
    BY <1>4 DEF RoundStarts, TypeOK, Snapshot
  <2>2. round' \in Round
    BY <1>4, <2>1 DEF RoundStarts, TypeOK, Round, Lost
  <2>3. UNCHANGED <<host, shown, cache, queue, call, steady>>
    BY <1>4 DEF RoundStarts
  <2> QED
    BY <2>1, <2>2, <2>3 DEF TypeOK, Round
<1>5. CASE Probe
  <2>1. peer' = peer \/ peer' = [peer EXCEPT !.age = 0]
    BY <1>5 DEF Probe, Touch
  <2>2. peer' # peer => peer # Lost
    BY <1>5 DEF Probe, Touch
  <2>3. peer' \in [addr : Addr, age : 0..(Ttl + 1)] \cup {Lost}
    BY <2>1, <2>2 DEF TypeOK
  <2>4. round' = [round EXCEPT !.at = "others"]
    BY <1>5 DEF Probe
  <2> QED
    BY <1>5, <2>3, <2>4 DEF Probe, TypeOK
<1>6. CASE RoundEnds
  BY <1>6 DEF RoundEnds, TypeOK, NoRound
<1>7. CASE Tick
  <2>1. round' \in Round
    BY <1>7 DEF Tick, TypeOK, NoRound, Round
  <2>2. peer' \in [addr : Addr, age : 0..(Ttl + 1)] \cup {Lost}
    <3>1. CASE peer' = peer
      BY <3>1 DEF TypeOK
    <3>2. CASE peer.addr # NONE /\ peer.age <= Ttl /\ peer' = [peer EXCEPT !.age = peer.age + 1]
      <4>1. peer \in [addr : Addr, age : 0..(Ttl + 1)]
        BY <3>2 DEF TypeOK, Lost
      <4>2. peer.age + 1 \in 0..(Ttl + 1)
        BY <3>2, <4>1
      <4> QED
        BY <3>2, <4>1, <4>2
    <3> QED
      BY <1>7, <3>1, <3>2 DEF Tick
  <2>3. UNCHANGED <<host, shown, cache, queue, call, steady>>
    BY <1>7 DEF Tick
  <2> QED
    BY <2>1, <2>2, <2>3 DEF TypeOK, Round
<1>8. ASSUME NEW m \in Addr \cup {NONE}, PeerLookup(m) PROVE TypeOK'
  BY <1>8 DEF PeerLookup, TypeOK, NoCall, Snapshot, Lost
<1>9. ASSUME NEW m \in Addr \cup {NONE}, ResolvePeerBase(m) PROVE TypeOK'
  BY <1>9 DEF ResolvePeerBase, TypeOK, NoCall
<1>10. CASE ResolveFound
  BY <1>10 DEF ResolveFound, TypeOK, Snapshot, Lost
<1>11. ASSUME NEW b \in BOOLEAN, ResolveScans(b) PROVE TypeOK'
  BY <1>11 DEF ResolveScans, TypeOK
<1>12. CASE Send
  <2>1. call \in Call /\ host[call.addr] \in {Self, Other, NONE}
    BY <1>12 DEF Send, TypeOK, Call
  <2>2. call' \in Call /\ call'.at \in {"ok", "failed"}
    BY <1>12, <2>1 DEF Send, Call
  <2> QED
    BY <1>12, <2>2 DEF Send, TypeOK, Call
<1>13. CASE ContactFingerprint
  BY <1>13 DEF ContactFingerprint, TypeOK
<1>14. CASE CallEnds
  BY <1>14 DEF CallEnds, TypeOK, NoCall
<1>15. CASE Hide
  <2>1. call \in Call /\ call' = [call EXCEPT !.calm = FALSE]
    BY <1>15 DEF Hide, TypeOK, Call
  <2>2. call' \in Call /\ call'.at = call.at /\ call'.addr = call.addr
    BY <2>1, CalmType DEF Call
  <2>3. /\ cache' \in Addr \cup {NONE}
        /\ queue' \in Seq(Addr \cup {NONE}) /\ Len(queue') <= MaxQueue
    <3>1. CASE UNCHANGED <<cache, queue>>
      BY <3>1 DEF TypeOK
    <3>2. CASE Len(queue) < MaxQueue /\ cache' = NONE /\ queue' = Append(queue, NONE)
      BY <3>2 DEF TypeOK
    <3> QED
      BY <1>15, <3>1, <3>2 DEF Hide, Goodbye
  <2> QED
    BY <1>15, <2>2, <2>3 DEF Hide, TypeOK, Call
<1>16. CASE Show
  BY <1>16 DEF Show, TypeOK
<1>17. ASSUME NEW a \in Addr, NEW pc \in {Self, Other, NONE}, HostChanges(a, pc) PROVE TypeOK'
  BY <1>17 DEF HostChanges, TypeOK
<1>18. CASE Restart
  <2>2. queue' \in Seq(Addr \cup {NONE}) /\ Len(queue') <= MaxQueue
    BY <1>18 DEF Restart
  <2> QED
    BY <1>18, <2>2, IdleTypes DEF Restart, TypeOK, Call, Round
<1>19. CASE UNCHANGED vars
  BY <1>19 DEF vars, TypeOK
<1> QED
  BY <1>1, <1>2, <1>3, <1>4, <1>5, <1>6, <1>7, <1>8, <1>9, <1>10, <1>11, <1>12, <1>13,
     <1>14, <1>15, <1>16, <1>17, <1>18, <1>19
  DEF Next

\* Type correctness of the registry, the browser's queue, the keepalive's round and
\* the calls: an entry never grows older than one interval past its life.
THEOREM DiscoveryTypeCorrect == Spec => []TypeOK
<1>1. Init => TypeOK
  <2> SUFFICES ASSUME Init PROVE TypeOK
    OBVIOUS
  <2>2. shown \in BOOLEAN
    BY DEF Init, Up
  <2>3. queue \in Seq(Addr \cup {NONE}) /\ Len(queue) <= MaxQueue
    BY DEF Init
  <2> QED
    BY <2>2, <2>3, IdleTypes DEF Init, TypeOK, Call, Round
<1> QED
  BY <1>1, TypeStep, PTL DEF Spec
----------------------------------------------------------------------------
(* A steady contact stays listed *)

\* How old the entry of a steady contact can be.  Between two rounds it is as old
\* as the rest of the last one, which came after its own probe; a round that waits
\* for its turn adds an interval, and the new round at most Slack more.  An entry
\* the browser replaced after the snapshot is only as old as the round.
AgeBound ==
  /\ round.at = "idle" => peer.age <= Slack
  /\ round.at = "due" => peer.age <= Slack + 1
  /\ round.at = "probe" => peer.age <= Slack + 1 + round.took
  /\ round.at = "probe" /\ round.addr # peer.addr => peer.age <= round.took
  /\ round.at = "others" => peer.age <= round.took

\* The inductive invariant for the registry: a steady contact is where its entry
\* says, so that the keepalive's probe of that address refreshes it.
SteadyInv ==
  steady => peer # Lost /\ peer.addr \in Addr /\ host[peer.addr] = Self /\ AgeBound

\* A probe of an entry is answered in time.
LEMMA SteadyIsFresh == TypeOK /\ SteadyInv => SteadyStaysListed
<1> SUFFICES ASSUME TypeOK, SteadyInv, steady PROVE Listed
  BY DEF SteadyStaysListed
<1>1. peer.age \in Nat /\ round.took \in 0..Slack /\ peer.addr \in Addr
  BY DEF SteadyInv, TypeOK, Lost
<1>2. round.at \in {"idle", "due", "probe", "others"}
  BY DEF TypeOK
<1>3. peer.age <= 2 * Slack + 1
  BY <1>1, <1>2 DEF SteadyInv, AgeBound
<1> QED
  BY <1>1, <1>3 DEF Listed, Fresh

\* So snapshot leaves a steady contact's entry alone.
LEMMA SteadySnapshot == TypeOK /\ SteadyInv /\ steady => Snapshot = peer
BY SteadyIsFresh DEF SteadyStaysListed, Listed, Snapshot

\* Every step keeps a steady contact's entry young enough.
LEMMA SteadyStep == TypeOK /\ SteadyInv /\ [Next]_vars => SteadyInv'
<1> SUFFICES ASSUME TypeOK, SteadyInv, [Next]_vars, steady' PROVE SteadyInv'
  BY DEF SteadyInv
<1>0. /\ peer = Lost \/ (peer.addr \in Addr /\ peer.age \in Nat)
      /\ round.took \in 0..Slack
  BY DEF TypeOK
<1>1. ASSUME UNCHANGED <<host, peer, round, steady>> PROVE SteadyInv'
  BY <1>1 DEF SteadyInv, AgeBound
<1>2. CASE Browse
  <2>1. /\ peer' = [addr |-> Head(queue), age |-> 0] /\ host' = host /\ round' = round
        /\ Head(queue) # NONE /\ host[Head(queue)] = Self
    BY <1>2 DEF Browse
  <2>2. Head(queue) \in Addr
    BY <1>2, <2>1 DEF Browse, TypeOK
  <2>3. peer'.addr \in Addr /\ host'[peer'.addr] = Self /\ peer'.age = 0 /\ peer' # Lost
    BY <2>1, <2>2 DEF Lost
  <2>4. AgeBound'
    BY <1>0, <2>1, <2>3 DEF AgeBound
  <2> QED
    BY <2>3, <2>4 DEF SteadyInv
<1>3. CASE RoundStarts
  <2>1. steady /\ host' = host /\ peer' = peer
    BY <1>3, SteadySnapshot DEF RoundStarts
  <2>2. round'.at = "probe" /\ round'.addr = peer.addr /\ round'.took = round.took
    BY <1>3, <2>1 DEF RoundStarts, SteadyInv, TypeOK
  <2>3. peer.age <= Slack + 1
    BY <1>3, <2>1 DEF RoundStarts, SteadyInv, AgeBound
  <2> QED
    BY <1>0, <2>1, <2>2, <2>3 DEF SteadyInv, AgeBound
<1>4. CASE Probe
  <2>1. /\ steady /\ host' = host /\ round'.at = "others" /\ round'.took = round.took
        /\ peer # Lost
    BY <1>4 DEF Probe, TypeOK, SteadyInv
  <2>2. CASE host[round.addr] = NONE
    <3>1. round.addr # peer.addr
      BY <2>1, <2>2 DEF SteadyInv
    <3>2. peer' = peer
      BY <1>4, <2>2 DEF Probe
    <3> QED
      BY <1>4, <2>1, <3>1, <3>2 DEF Probe, SteadyInv, AgeBound
  <2>3. CASE host[round.addr] # NONE
    <3>1. peer' = [peer EXCEPT !.age = 0]
      BY <1>4, <2>1, <2>3 DEF Probe, Touch
    <3>2. peer'.addr = peer.addr /\ peer'.age = 0 /\ peer' # Lost
      BY <2>1, <3>1 DEF TypeOK, SteadyInv, Lost
    <3> QED
      BY <1>0, <2>1, <3>2 DEF SteadyInv, AgeBound
  <2> QED
    BY <2>2, <2>3
<1>5. CASE RoundEnds
  <2>1. steady /\ UNCHANGED <<host, peer>> /\ round' = NoRound /\ round.at = "others"
    BY <1>5 DEF RoundEnds
  <2>2. peer.age <= Slack
    BY <1>0, <2>1 DEF SteadyInv, AgeBound
  <2> QED
    BY <2>1, <2>2 DEF SteadyInv, AgeBound, NoRound
<1>6. CASE Tick
  <2>1. steady /\ host' = host /\ peer # Lost /\ peer.addr \in Addr /\ Fresh(peer)
    BY <1>6, SteadyIsFresh DEF Tick, SteadyInv, SteadyStaysListed, Listed
  <2>2. peer' = [peer EXCEPT !.age = peer.age + 1]
    BY <1>6, <2>1 DEF Tick, Fresh
  <2>3. peer'.addr = peer.addr /\ peer'.age = peer.age + 1 /\ peer' # Lost
    BY <2>1, <2>2 DEF TypeOK, Lost
  <2>4. CASE round.at = "idle" /\ round' = [NoRound EXCEPT !.at = "due"]
    <3>1. round'.at = "due" /\ peer.age <= Slack
      BY <2>1, <2>4 DEF NoRound, SteadyInv, AgeBound
    <3> QED
      BY <1>0, <2>1, <2>3, <3>1 DEF SteadyInv, AgeBound
  <2>5. CASE round.at \in {"probe", "others"} /\ round' = [round EXCEPT !.took = round.took + 1]
    <3>1. round'.at = round.at /\ round'.addr = round.addr /\ round'.took = round.took + 1
      BY <2>5 DEF TypeOK
    <3> QED
      BY <1>0, <2>1, <2>3, <2>5, <3>1 DEF SteadyInv, AgeBound
  <2> QED
    BY <1>6, <2>4, <2>5 DEF Tick
<1>7. ASSUME NEW m \in Addr \cup {NONE}, PeerLookup(m) PROVE SteadyInv'
  BY <1>1, <1>7, SteadySnapshot DEF PeerLookup
<1>8. CASE ResolveFound
  BY <1>1, <1>8, SteadySnapshot DEF ResolveFound
<1>9. ASSUME NEW a \in Addr, NEW pc \in {Self, Other, NONE}, HostChanges(a, pc)
      PROVE  SteadyInv'
  <2>1. steady /\ host[a] # Self /\ UNCHANGED <<peer, round>>
    BY <1>9 DEF HostChanges
  <2>2. host'[peer.addr] = host[peer.addr]
    BY <1>9, <2>1 DEF HostChanges, TypeOK, SteadyInv
  <2> QED
    BY <2>1, <2>2 DEF SteadyInv, AgeBound
<1>10. CASE Hide \/ Restart
  BY <1>10 DEF Hide, Restart
<1> QED
  BY <1>1, <1>2, <1>3, <1>4, <1>5, <1>6, <1>7, <1>8, <1>9, <1>10
  DEF Next, vars, Announce, RecordEnds, ResolvePeerBase, ResolveScans, Send,
      ContactFingerprint, CallEnds, Show

\* The keepalive refreshes the entry of a contact that is up, unmoved and shown
\* before its life ends, whatever the browser, the lookups and the length of the
\* rounds do in between.
THEOREM SteadyListed == Spec => []SteadyStaysListed
<1>1. Init => SteadyInv
  BY DEF Init, SteadyInv
<1> QED
  BY <1>1, SteadyStep, SteadyIsFresh, DiscoveryTypeCorrect, PTL DEF Spec

----------------------------------------------------------------------------
(* Calls get through *)

\* The strengthening CallGetsThrough needs: a call that can still be called calm has
\* a steady contact, and the address it goes to is the contact's; only who is being
\* added is asked for its ID.
CalmInv ==
  /\ call.calm => steady
  /\ call.calm /\ call.at \in {"send", "verify"} => host[call.addr] = Self
  /\ call.at \in {"wait", "verify"} => ~call.pinned

\* Every step of the calls, and every step that disturbs them, keeps both.
LEMMA CalmStep ==
  TypeOK /\ SteadyInv /\ CalmInv /\ CallGetsThrough /\ [Next]_vars
    => CalmInv' /\ CallGetsThrough'
<1> SUFFICES ASSUME TypeOK, SteadyInv, CalmInv, CallGetsThrough, [Next]_vars
             PROVE  CalmInv' /\ CallGetsThrough'
  OBVIOUS
<1>1. ASSUME UNCHANGED <<host, call, steady>> PROVE CalmInv' /\ CallGetsThrough'
  BY <1>1 DEF CalmInv, CallGetsThrough
<1>2. ASSUME NEW b \in BOOLEAN, call' = [call EXCEPT !.calm = call.calm /\ b], b => steady',
             \A a \in Addr : b /\ host[a] = Self => host'[a] = Self
      PROVE  CalmInv' /\ CallGetsThrough'
  <2>1. /\ call'.at = call.at /\ call'.addr = call.addr /\ call'.by = call.by
        /\ call'.pinned = call.pinned /\ call'.calm = (call.calm /\ b)
    BY <1>2 DEF TypeOK
  <2>2. call.at \in {"send", "verify"} => call.addr \in Addr
    BY DEF TypeOK
  <2> QED
    BY <1>2, <2>1, <2>2 DEF CalmInv, CallGetsThrough
<1>3. CASE Browse
  <2>1. steady' \in BOOLEAN /\ host' = host /\ call' = [call EXCEPT !.calm = call.calm /\ steady']
    BY <1>3 DEF Browse
  <2> QED
    BY <1>2, <2>1
<1>4. ASSUME NEW a \in Addr, NEW pc \in {Self, Other, NONE}, HostChanges(a, pc)
      PROVE  CalmInv' /\ CallGetsThrough'
  <2>1. steady' \in BOOLEAN /\ call' = [call EXCEPT !.calm = call.calm /\ steady']
    BY <1>4 DEF HostChanges
  <2>2. \A x \in Addr : steady' /\ host[x] = Self => host'[x] = Self
    BY <1>4 DEF HostChanges, TypeOK
  <2> QED
    BY <1>2, <2>1, <2>2
<1>5. CASE Hide
  <2>1. call' = [call EXCEPT !.calm = call.calm /\ FALSE]
    BY <1>5 DEF Hide, TypeOK
  <2> QED
    BY <1>2, <2>1
<1>6. ASSUME NEW m \in Addr \cup {NONE}, PeerLookup(m) PROVE CalmInv' /\ CallGetsThrough'
  <2> DEFINE addr == IF peer' # Lost THEN peer'.addr ELSE m
  <2>1. /\ call'.at = (IF addr = NONE THEN "failed" ELSE "send")
        /\ call'.addr = addr /\ call'.calm = steady /\ UNCHANGED <<host, steady>>
    BY <1>6 DEF PeerLookup, NoCall
  <2>2. steady => addr = peer.addr /\ addr # NONE /\ host[addr] = Self
    BY <1>6, SteadySnapshot DEF PeerLookup, SteadyInv
  <2> HIDE DEF addr
  <2> QED
    BY <2>1, <2>2 DEF CalmInv, CallGetsThrough
<1>7. ASSUME NEW m \in Addr \cup {NONE}, ResolvePeerBase(m) PROVE CalmInv' /\ CallGetsThrough'
  BY <1>7 DEF ResolvePeerBase, NoCall, CalmInv, CallGetsThrough
<1>8. CASE ResolveFound
  <2>1. /\ call'.at = "verify" /\ call'.addr = peer'.addr /\ call'.calm = call.calm
        /\ ~call'.pinned /\ UNCHANGED <<host, steady>>
    BY <1>8 DEF ResolveFound, TypeOK, CalmInv
  <2>2. call.calm => host[peer'.addr] = Self
    BY <1>8, SteadySnapshot DEF ResolveFound, SteadyInv, CalmInv
  <2> QED
    BY <2>1, <2>2 DEF CalmInv, CallGetsThrough
<1>9. ASSUME NEW b \in BOOLEAN, ResolveScans(b) PROVE CalmInv' /\ CallGetsThrough'
  <2>1. ~call.calm
    BY <1>9, SteadyIsFresh DEF ResolveScans, CalmInv, SteadyStaysListed
  <2>2. call'.at \in {"verify", "failed"} /\ call'.calm = call.calm /\ ~call'.pinned
    BY <1>9 DEF ResolveScans, TypeOK, CalmInv
  <2> QED
    BY <2>1, <2>2 DEF CalmInv, CallGetsThrough
<1>10. CASE Send \/ ContactFingerprint
  <2>1. /\ call.at \in {"send", "verify"} /\ UNCHANGED <<host, steady>>
        /\ \/ \E to \in {"ok", "failed"} :
                /\ call' = [call EXCEPT !.at = to, !.by = host[call.addr]]
                /\ host[call.addr] = Self => to = "ok"
                /\ to = "ok" /\ call.at = "send" => host[call.addr] = Self
           \/ call' = [call EXCEPT !.at = "failed", !.calm = FALSE]
    BY <1>10 DEF Send, ContactFingerprint, Verified
  <2>2. ASSUME NEW to \in {"ok", "failed"},
               call' = [call EXCEPT !.at = to, !.by = host[call.addr]],
               host[call.addr] = Self => to = "ok",
               to = "ok" /\ call.at = "send" => host[call.addr] = Self
        PROVE  CalmInv' /\ CallGetsThrough'
    <3>1. /\ call'.at = to /\ call'.by = host[call.addr] /\ call'.calm = call.calm
          /\ call'.pinned = call.pinned
      BY <2>2 DEF TypeOK
    <3> QED
      BY <2>1, <2>2, <3>1 DEF CalmInv, CallGetsThrough
  <2>3. CASE call' = [call EXCEPT !.at = "failed", !.calm = FALSE]
    <3>1. call'.at = "failed" /\ call'.calm = FALSE
      BY <2>3 DEF TypeOK
    <3> QED
      BY <3>1 DEF CalmInv, CallGetsThrough
  <2> QED
    BY <2>1, <2>2, <2>3
<1>11. CASE CallEnds \/ Restart
  BY <1>11 DEF CallEnds, Restart, NoCall, CalmInv, CallGetsThrough
<1> QED
  BY <1>1, <1>3, <1>4, <1>5, <1>6, <1>7, <1>8, <1>9, <1>10, <1>11
  DEF Next, vars, Announce, RecordEnds, RoundStarts, Probe, RoundEnds, Tick, Show

\* A call to a contact that is up, shown and unmoved fails only if the network does, and
\* no answer of another PC is taken for the contact's, except that of one which names its
\* ID while it is being added and was not there.
THEOREM CallsGetThrough == Spec => []CallGetsThrough
<1>1. Init => SteadyInv /\ CalmInv /\ CallGetsThrough
  BY DEF Init, SteadyInv, CalmInv, CallGetsThrough, NoCall
<1> QED
  BY <1>1, SteadyStep, CalmStep, DiscoveryTypeCorrect, PTL DEF Spec
============================================================================
