----------------------------- MODULE Discovery -----------------------------
(***************************************************************************)
(* How one PC keeps track of where another, a contact of its, is           *)
(* (discovery.rs: PeerRegistry, run_browser; main.rs: run_peer_keepalive), *)
(* and what the calls that use the registry reach (proxy.rs: peer_lookup;  *)
(* admin.rs: resolve_peer_base; scan.rs; peer.rs: check).                  *)
(*                                                                         *)
(* mDNS is external.  It is modelled as the comments in discovery.rs       *)
(* describe it: the browser's library caches the contact's record, reports *)
(* it only when it appears or changes, and drops it on a goodbye, which    *)
(* may be lost, or when the record has not been heard for its own, long    *)
(* time to live.  Time is counted in intervals of the keepalive, as the    *)
(* age of the registry entry.                                              *)
(***************************************************************************)
EXTENDS Naturals, Sequences

CONSTANTS
  Self,       \* the contact: the PC with the recorded fingerprint, which has the wanted ID
  Other,      \* some other PC with DocLink
  Addr,       \* addresses (host and port) they may have
  Default,    \* the contact's address with the default port, which a scan probes
  NONE,
  Ttl,        \* PEER_TTL_SECS
  Slack,      \* the intervals a round of probes may take
  MaxQueue    \* bound on mDNS events the browser has not taken

\* A round of probes is short enough for two of them to fit into the entry's life.
ASSUME DiscoveryAssumption ==
  /\ Ttl \in Nat /\ Slack \in Nat /\ 2 * Slack + 1 <= Ttl
  /\ MaxQueue \in Nat \ {0}
  /\ Self # Other /\ NONE \notin {Self, Other} \cup Addr
  /\ Default \in Addr

VARIABLES
  host,     \* which PC answers at each address
  shown,    \* the contact is registered with mDNS
  cache,    \* the address in the cached mDNS record
  queue,    \* ServiceResolved (an address) and ServiceRemoved (NONE) not yet taken
  peer,     \* the contact's entry in PeerRegistry: address and age
  round,    \* the keepalive's round: the address it is probing, the intervals it took
  call,     \* a call to the contact: its address, and what came of it
  steady    \* observation: the contact has been up, unmoved and shown since it was listed

vars == <<host, shown, cache, queue, peer, round, call, steady>>

Lost == [addr |-> NONE, age |-> 0]

NoRound == [at |-> "idle", addr |-> NONE, took |-> 0]

\* `calm` is an observation: the contact stayed where the registry has it, and the
\* network lost nothing.  `pinned`: the contact's fingerprint is known.
NoCall == [at |-> "idle", addr |-> NONE, by |-> NONE, pinned |-> FALSE, calm |-> FALSE]

TypeOK ==
  /\ host \in [Addr -> {Self, Other, NONE}]
  /\ shown \in BOOLEAN
  /\ cache \in Addr \cup {NONE}
  /\ queue \in Seq(Addr \cup {NONE}) /\ Len(queue) <= MaxQueue
  /\ peer \in [addr : Addr, age : 0..(Ttl + 1)] \cup {Lost}
  /\ round \in [at : {"idle", "due", "probe", "others"}, addr : Addr \cup {NONE}, took : 0..Slack]
  /\ call \in [at : {"idle", "wait", "send", "verify", "ok", "failed"}, addr : Addr \cup {NONE},
               by : {Self, Other, NONE}, pinned : BOOLEAN, calm : BOOLEAN]
  /\ call.at \in {"send", "verify"} => call.addr \in Addr
  /\ steady \in BOOLEAN

Where == CHOOSE a \in Addr : host[a] = Self

Up == \E a \in Addr : host[a] = Self

Init ==
  /\ host \in [Addr -> {Self, Other, NONE}]
  /\ \A a, b \in Addr : host[a] = Self /\ host[b] = Self => a = b
  /\ shown = Up
  /\ cache = NONE /\ queue = <<>> /\ peer = Lost
  /\ round = NoRound /\ call = NoCall /\ steady = FALSE

----------------------------------------------------------------------------
(* PeerRegistry *)

\* Mutant of Fresh: the last moment of the entry's life does not count.
FreshBefore(p) == p.addr # NONE /\ p.age < Ttl

Fresh(p) == p.addr # NONE /\ p.age <= Ttl

\* snapshot prunes before it answers, so an entry that is too old is gone for good.
Snapshot == IF Fresh(peer) THEN peer ELSE Lost

Listed == Fresh(peer)

\* Mutant of Touch: an entry that is gone is put back.
TouchInserts(p, a) == [addr |-> a, age |-> 0]

\* touch refreshes a known peer, whatever its address is by now.
Touch(p, a) == IF p = Lost THEN p ELSE [p EXCEPT !.age = 0]

----------------------------------------------------------------------------
(* mDNS, and the browser that follows it *)

\* The contact's announcements are heard: the record is new, changed or refreshed.
\* advertise_on and the advertiser's start register it.
Announce ==
  /\ shown /\ Up /\ cache # Where
  /\ Len(queue) < MaxQueue
  /\ cache' = Where
  /\ queue' = Append(queue, Where)
  /\ UNCHANGED <<host, shown, peer, round, call, steady>>

\* The record's own time to live ends while the contact does not announce it.
RecordEnds ==
  /\ cache # NONE /\ ~(shown /\ Up)
  /\ Len(queue) < MaxQueue
  /\ cache' = NONE
  /\ queue' = Append(queue, NONE)
  /\ UNCHANGED <<host, shown, peer, round, call, steady>>

\* Mutant of Browse: a goodbye is left to the entry's age.
BrowseKeeps ==
  /\ queue # <<>>
  /\ queue' = Tail(queue)
  /\ peer' = IF Head(queue) = NONE THEN peer ELSE [addr |-> Head(queue), age |-> 0]
  /\ steady' = FALSE /\ call' = [call EXCEPT !.calm = FALSE]
  /\ UNCHANGED <<host, shown, cache, round>>

\* Mutant of Browse: only known peers are updated.
BrowseKnown ==
  /\ queue # <<>>
  /\ queue' = Tail(queue)
  /\ peer' = IF Head(queue) = NONE \/ peer = Lost THEN Lost ELSE [addr |-> Head(queue), age |-> 0]
  /\ steady' = FALSE /\ call' = [call EXCEPT !.calm = FALSE]
  /\ UNCHANGED <<host, shown, cache, round>>

\* run_browser takes the next event: upsert or remove.
Browse ==
  /\ queue # <<>>
  /\ queue' = Tail(queue)
  /\ peer' = IF Head(queue) = NONE THEN Lost ELSE [addr |-> Head(queue), age |-> 0]
  /\ steady' = (Head(queue) # NONE /\ shown /\ Up /\ host[Head(queue)] = Self)
  /\ call' = [call EXCEPT !.calm = @ /\ steady']
  /\ UNCHANGED <<host, shown, cache, round>>

----------------------------------------------------------------------------
(* run_peer_keepalive *)

\* The tick: the peers of one snapshot are probed one after the other.
RoundStarts ==
  /\ round.at = "due"
  /\ peer' = Snapshot
  /\ round' = IF peer' = Lost THEN [round EXCEPT !.at = "others"]
              ELSE [round EXCEPT !.at = "probe", !.addr = peer'.addr]
  /\ UNCHANGED <<host, shown, cache, queue, call, steady>>

\* The probe is answered by whoever has the address now, or times out.  Any
\* DocLink certificate will do.
Probe ==
  /\ round.at = "probe"
  /\ round' = [round EXCEPT !.at = "others"]
  /\ peer' = IF host[round.addr] = NONE THEN peer ELSE Touch(peer, round.addr)
  /\ UNCHANGED <<host, shown, cache, queue, call, steady>>

RoundEnds ==
  /\ round.at = "others"
  /\ round' = NoRound
  /\ UNCHANGED <<host, shown, cache, queue, peer, call, steady>>

\* An interval passes: the next round is due, or the running one takes longer.
Tick ==
  /\ \/ round.at = "idle" /\ round' = [NoRound EXCEPT !.at = "due"]
     \/ /\ round.at \in {"probe", "others"} /\ round.took < Slack
        /\ round' = [round EXCEPT !.took = @ + 1]
  /\ peer' = IF peer.addr # NONE /\ peer.age <= Ttl THEN [peer EXCEPT !.age = @ + 1] ELSE peer
  /\ UNCHANGED <<host, shown, cache, queue, call, steady>>

----------------------------------------------------------------------------
(* Calls to the contact *)

\* peer_lookup: the registry's address, or the host the contact was added with.
PeerLookup(manual) ==
  /\ call.at = "idle"
  /\ peer' = Snapshot
  /\ LET addr == IF peer' # Lost THEN peer'.addr ELSE manual
     IN call' = [NoCall EXCEPT !.at = IF addr = NONE THEN "failed" ELSE "send",
                               !.addr = addr, !.pinned = TRUE, !.calm = steady]
  /\ UNCHANGED <<host, shown, cache, queue, round, steady>>

\* resolve_peer_base, for a PC that is being added: the host typed in, or the
\* registry, looked at again and again for DISCOVERY_WAIT.
ResolvePeerBase(manual) ==
  /\ call.at = "idle"
  /\ call' = IF manual # NONE THEN [NoCall EXCEPT !.at = "verify", !.addr = manual]
             ELSE [NoCall EXCEPT !.at = "wait", !.calm = steady]
  /\ UNCHANGED <<host, shown, cache, queue, peer, round, steady>>

ResolveFound ==
  /\ call.at = "wait"
  /\ peer' = Snapshot /\ peer' # Lost
  /\ call' = [call EXCEPT !.at = "verify", !.addr = peer'.addr]
  /\ UNCHANGED <<host, shown, cache, queue, round, steady>>

\* The wait is over; find_node probes the subnet on the default port, where it
\* is allowed, for a PC with the wanted ID, which must be its fingerprint's.
ResolveScans(allowed) ==
  /\ call.at = "wait" /\ ~Listed
  /\ call' = IF allowed /\ host[Default] = Self
               THEN [call EXCEPT !.at = "verify", !.addr = Default]
               ELSE [call EXCEPT !.at = "failed"]
  /\ UNCHANGED <<host, shown, cache, queue, peer, round, steady>>

\* check with the contact's fingerprint, before the answer is used.
Verified(pc) == pc = Self

\* list, search, file and print_on_peer send a signed request; no answer may come.
Send ==
  /\ call.at = "send"
  /\ \/ call' = [call EXCEPT !.at = IF Verified(host[call.addr]) THEN "ok" ELSE "failed",
                             !.by = host[call.addr]]
     \/ call' = [call EXCEPT !.at = "failed", !.calm = FALSE]
  /\ UNCHANGED <<host, shown, cache, queue, peer, round, steady>>

\* contact_fingerprint asks the PC that was found who it is, and shows the owner the
\* answer if it names the wanted ID and a fingerprint that is its certificate's; whether
\* the ID is that fingerprint's nobody looks.  add_contact asks in the same way.
ContactFingerprint ==
  /\ call.at = "verify"
  /\ \/ /\ host[call.addr] # NONE
        /\ \E id \in {host[call.addr], Self} :
             call' = [call EXCEPT !.at = IF id = Self THEN "ok" ELSE "failed",
                                  !.by = host[call.addr]]
     \/ call' = [call EXCEPT !.at = "failed", !.calm = FALSE]
  /\ UNCHANGED <<host, shown, cache, queue, peer, round, steady>>

CallEnds ==
  /\ call.at \in {"ok", "failed"}
  /\ call' = NoCall
  /\ UNCHANGED <<host, shown, cache, queue, peer, round, steady>>

----------------------------------------------------------------------------
(* The PCs *)

\* stop_advertising, or a clean stop, sends a goodbye; it is heard or not.
Goodbye ==
  \/ /\ cache # NONE /\ Len(queue) < MaxQueue
     /\ cache' = NONE /\ queue' = Append(queue, NONE)
  \/ UNCHANGED <<cache, queue>>

\* put_settings on the contact
Hide ==
  /\ Up /\ shown
  /\ shown' = FALSE /\ steady' = FALSE
  /\ Goodbye
  /\ call' = [call EXCEPT !.calm = FALSE]
  /\ UNCHANGED <<host, peer, round>>

Show ==
  /\ Up /\ ~shown
  /\ shown' = TRUE
  /\ UNCHANGED <<host, cache, queue, peer, round, call, steady>>

\* The contact goes down without a word, comes back (bind_with_fallback may have
\* to take another port), or another PC comes, goes or takes the address over.
HostChanges(a, pc) ==
  /\ host[a] # pc
  /\ pc = Self => ~Up
  /\ host' = [host EXCEPT ![a] = pc]
  /\ steady' = (steady /\ host[a] # Self)
  /\ call' = [call EXCEPT !.calm = @ /\ steady']
  /\ UNCHANGED <<shown, cache, queue, peer, round>>

\* This daemon restarts and knows nothing.
Restart ==
  /\ cache' = NONE /\ queue' = <<>> /\ peer' = Lost
  /\ round' = NoRound /\ call' = NoCall /\ steady' = FALSE
  /\ UNCHANGED <<host, shown>>

Next ==
  \/ Announce \/ RecordEnds \/ Browse
  \/ RoundStarts \/ Probe \/ RoundEnds \/ Tick
  \/ \E m \in Addr \cup {NONE} : PeerLookup(m) \/ ResolvePeerBase(m)
  \/ ResolveFound \/ \E b \in BOOLEAN : ResolveScans(b)
  \/ Send \/ ContactFingerprint \/ CallEnds
  \/ Hide \/ Show
  \/ \E a \in Addr, pc \in {Self, Other, NONE} : HostChanges(a, pc)
  \/ Restart

\* mDNS repeats itself and its records end; the browser and the keepalive loop for
\* ever, and the daemon is not restarted every time before the browser, which looks
\* five times a second, has taken an event; time passes.
Fairness ==
  /\ WF_vars(Announce) /\ WF_vars(RecordEnds) /\ SF_vars(Browse)
  /\ WF_vars(RoundStarts) /\ WF_vars(Probe) /\ WF_vars(RoundEnds) /\ WF_vars(Tick)

Spec == Init /\ [][Next]_vars /\ Fairness

----------------------------------------------------------------------------
(* Properties *)

\* A contact that is up at the address it was listed with, and shown, stays listed:
\* the keepalive refreshes its entry before it is too old, although mDNS says
\* nothing more about it (run_peer_keepalive, touch, snapshot).
SteadyStaysListed == steady => Listed

\* A call to a contact that is up, shown and unmoved gets through to it, whatever
\* host it was once added with, unless the network fails; and an answer another PC
\* gave at an address it took over is never used, unless the contact is still being
\* added and was not there: then a PC that names its ID passes for it (peer_lookup,
\* resolve_peer_base, contact_fingerprint, check).
CallGetsThrough ==
  /\ call.at = "failed" => ~call.calm
  /\ call.at = "ok" => call.by = Self \/ (~call.pinned /\ ~call.calm)

\* A contact that is not cached and shows itself is listed, unless it goes away
\* again (run_browser; after a goodbye, a hide or a restart).
ShownIsListed ==
  (shown /\ Up /\ cache = NONE /\ ~Listed) ~> (Listed \/ ~shown \/ ~Up)

\* A contact that hides or goes down for good leaves the list, even if its goodbye
\* is lost and the probes of its address are still answered (ServiceRemoved, the
\* end of the cached record, PEER_TTL_SECS).
GoneIsDropped ==
  <>[](~(shown /\ Up)) => <>[](~Listed)
============================================================================
