------------------------------ MODULE Grantor ------------------------------
(***************************************************************************)
(* The grantor's side of DocLink: the PC whose share other PCs ask to      *)
(* read.  Pair requests (server.rs), the owner's decisions, revocations    *)
(* and grant edits (admin.rs), the grant store with its file (store.rs),   *)
(* the expiry sweeper, and a restart of the daemon.                        *)
(*                                                                         *)
(* Every step is one critical section of the code: a handler that takes a  *)
(* lock, drops it and takes another is several actions, so that other      *)
(* handlers come in between.  The notifications the same handlers push are *)
(* no part of this state: module EventFeed has the feed they go to, and    *)
(* module PairSync the other PC.                                           *)
(*                                                                         *)
(* A requester stands for its node id, key and fingerprint at once: the    *)
(* id is a prefix of the fingerprint and pair_request refuses any other.   *)
(***************************************************************************)
EXTENDS Naturals, FiniteSets

CONSTANTS
  Node,           \* requesters
  Self,           \* this PC's own node id, a key of the decisions map too
  NONE,           \* Option::None, an absent map entry
  PendingTtl,     \* PENDING_TTL_SECS
  MaxPending,     \* MAX_PENDING
  MaxDecisions,   \* MAX_DECISIONS
  Durations,      \* granting periods the owner may choose, 0 = until revoked
  Perm,           \* allow_files and allow_print
  Scopes,         \* values of Grant.paths, as far as this module tells them apart
  FullScope,      \* the empty path list: the whole share
  OwnStatus,      \* outcomes this PC's own pair requests may get
  MaxTime         \* bound on the clock

VARIABLES
  now,        \* unix_now(); assumed not to go back
  pending,    \* PairingState.pending: when each waiting request was received
  decisions,  \* PairingState.decisions: (status, insertion time)
  grants,     \* the grants store in memory
  disk,       \* doclink-grants.json
  handler,    \* where the pair_request handler of each requester is
  deciding,   \* an apply_decision that has taken the pending entry
  told,       \* observation: the grant the owner was last told is in force
  unsettled   \* observation: requesters whose last change answered an error

vars == <<now, pending, decisions, grants, disk, handler, deciding, told, unsettled>>

----------------------------------------------------------------------------
(* Types *)

\* Fields no decision of the code depends on (name, granted_unix) are left out.
Grant == [expires : Nat \cup {NONE}, paths : Scopes, perms : SUBSET Perm]

Status == {"approved", "denied", "unknown"}

Decision == [status : Status, at : Nat]

\* The owner's verdict: a denial, or an approval with its period and permissions.
Verdict ==
  [deny : {TRUE}] \cup [deny : {FALSE}, duration : Durations, perms : SUBSET Perm \ {{}}]

Key == Node \cup {Self}

ASSUME GrantorAssumption ==
  /\ IsFiniteSet(Node)
  /\ PendingTtl \in Nat
  /\ MaxPending \in Nat
  /\ MaxDecisions \in Nat \ {0}
  /\ Durations \subseteq Nat
  /\ FullScope \in Scopes
  /\ OwnStatus \subseteq Status
  /\ MaxTime \in Nat

\* NONE is none of the values it stands beside, and Self is no requester.
ASSUME NoneAssumption ==
  /\ NONE \notin Nat \cup BOOLEAN \cup Grant \cup Decision \cup Verdict
  /\ Self \notin Node

\* handler: "idle", or "ungranted" between the grant check and the admission.
TypeOK ==
  /\ now \in Nat
  /\ pending \in [Node -> Nat \cup {NONE}]
  /\ decisions \in [Key -> Decision \cup {NONE}]
  /\ grants \in [Node -> Grant \cup {NONE}]
  /\ disk \in [Node -> Grant \cup {NONE}]
  /\ handler \in [Node -> {"idle", "ungranted"}]
  /\ deciding \in [Node -> Verdict \cup {NONE}]
  /\ told \in [Node -> Grant \cup {NONE}]
  /\ unsettled \in SUBSET Node

Init ==
  /\ now = 0
  /\ pending = [n \in Node |-> NONE]
  /\ decisions = [k \in Key |-> NONE]
  /\ grants = [n \in Node |-> NONE]
  /\ disk = [n \in Node |-> NONE]
  /\ handler = [n \in Node |-> "idle"]
  /\ deciding = [n \in Node |-> NONE]
  /\ told = [n \in Node |-> NONE]
  /\ unsettled = {}

----------------------------------------------------------------------------
(* Helpers *)

\* expires_unix.is_none_or(|e| e > now)
Unexpired(g, t) == g.expires # NONE => g.expires > t

\* A grant that require_auth, pair_request and the status answer call live.
Live(n) == grants[n] # NONE /\ Unexpired(grants[n], now)

PendingIds(p) == {n \in Node : p[n] # NONE}

DecidedIds(d) == {k \in Key : d[k] # NONE}

\* prune_pending: keep the entries received after now - PENDING_TTL_SECS.  (The
\* code's subtraction saturates at zero, which matters only in January 1970.)
PrunePending ==
  [n \in Node |->
    IF pending[n] # NONE /\ pending[n] + PendingTtl > now THEN pending[n] ELSE NONE]

\* Mutant of PruneExpired: a grant goes one second before its deadline.
PruneExpiredEarly ==
  [n \in Node |-> IF Live(n) /\ Unexpired(grants[n], now + 1) THEN grants[n] ELSE NONE]

\* GrantsFile::prune_expired
PruneExpired == [n \in Node |-> IF Live(n) THEN grants[n] ELSE NONE]

\* The grants store after a change in memory and, if there is one, a successful
\* save: a failed save leaves the old file in place.
SaveOf(new, saved) ==
  /\ grants' = new
  /\ disk' = IF saved THEN new ELSE disk

\* What the owner is told about n: the grant now in force, or an error, after
\* which what was said before counts no longer.
Tell(n, g, ok) ==
  /\ told' = [told EXCEPT ![n] = IF ok THEN g ELSE NONE]
  /\ unsettled' = IF ok THEN unsettled \ {n} ELSE unsettled \cup {n}

\* The entries of the decisions map with the smallest timestamp.
Oldest ==
  {o \in DecidedIds(decisions) :
     \A k \in DecidedIds(decisions) : decisions[o].at <= decisions[k].at}

\* remember_decision: when the map is full and the key is new, one of the
\* oldest entries makes room.
RememberDecision(k, st) ==
  LET entry == [status |-> st, at |-> now]
  IN IF decisions[k] = NONE /\ Cardinality(DecidedIds(decisions)) >= MaxDecisions
       THEN \E o \in Oldest : decisions' = [decisions EXCEPT ![o] = NONE, ![k] = entry]
       ELSE decisions' = [decisions EXCEPT ![k] = entry]

----------------------------------------------------------------------------
(* POST /v1/pair/request, one handler in flight per requester.  The        *)
(* signature and the id-to-key match have been checked.                    *)

\* The grants lock: with a live grant the answer is "approved" and nothing
\* changes; without one the handler goes on.
ReqCheckGrant(n) ==
  /\ handler[n] = "idle"
  /\ ~Live(n)
  /\ handler' = [handler EXCEPT ![n] = "ungranted"]
  /\ UNCHANGED <<now, pending, decisions, grants, disk, deciding, told, unsettled>>

\* Mutant of ReqAdmit: the cap is compared with > instead of >=.
ReqAdmitOneTooMany(n) ==
  LET kept == PrunePending
      full == kept[n] = NONE /\ Cardinality(PendingIds(kept)) > MaxPending
  IN /\ handler[n] = "ungranted"
     /\ pending' = IF full THEN kept ELSE [kept EXCEPT ![n] = now]
     /\ handler' = [handler EXCEPT ![n] = "idle"]
     /\ UNCHANGED <<now, decisions, grants, disk, deciding, told, unsettled>>

\* admit_pending: prune, refuse with 429 when the queue is still full, else
\* insert or refresh the entry.  Nobody looks at the grants again.
ReqAdmit(n) ==
  LET kept == PrunePending
      full == kept[n] = NONE /\ Cardinality(PendingIds(kept)) >= MaxPending
  IN /\ handler[n] = "ungranted"
     /\ pending' = IF full THEN kept ELSE [kept EXCEPT ![n] = now]
     /\ handler' = [handler EXCEPT ![n] = "idle"]
     /\ UNCHANGED <<now, decisions, grants, disk, deciding, told, unsettled>>

----------------------------------------------------------------------------
(* decide_request and apply_decision_with_perms *)

\* Mutant of DecideTake: the pending entry is read and stays in the queue.
DecideTakeKeeps(n, v) ==
  /\ deciding[n] = NONE
  /\ pending[n] # NONE
  /\ deciding' = [deciding EXCEPT ![n] = v]
  /\ UNCHANGED <<now, pending, decisions, grants, disk, handler, told, unsettled>>

\* The pending entry, however old, is taken out before the decision is looked
\* at.  A body without allow_files means TRUE, without allow_print FALSE.
DecideTake(n, v) ==
  /\ deciding[n] = NONE
  /\ pending[n] # NONE
  /\ pending' = [pending EXCEPT ![n] = NONE]
  /\ deciding' = [deciding EXCEPT ![n] = v]
  /\ UNCHANGED <<now, decisions, grants, disk, handler, told, unsettled>>

\* An approval that allows neither files nor printing answers 400 once the
\* entry is out: the request is lost.
DecideRefused(n) ==
  /\ pending[n] # NONE
  /\ pending' = [pending EXCEPT ![n] = NONE]
  /\ UNCHANGED <<now, decisions, grants, disk, handler, deciding, told, unsettled>>

\* Mutant of DecideDeny: the denial is remembered under the status of the request.
DecideDenyAsPending(n) ==
  /\ deciding[n] # NONE
  /\ deciding[n].deny
  /\ RememberDecision(n, "pending")
  /\ deciding' = [deciding EXCEPT ![n] = NONE]
  /\ UNCHANGED <<now, pending, grants, disk, handler, told, unsettled>>

\* A decision other than "approve" is remembered as a denial.  A live grant,
\* if there is one by now, stays.
DecideDeny(n) ==
  /\ deciding[n] # NONE
  /\ deciding[n].deny
  /\ RememberDecision(n, "denied")
  /\ deciding' = [deciding EXCEPT ![n] = NONE]
  /\ UNCHANGED <<now, pending, grants, disk, handler, told, unsettled>>

\* The grant an approval writes: the deadline counts from this moment, and the
\* scope starts as the whole share.
ApprovedGrant(v) ==
  [expires |-> IF v.duration = 0 THEN NONE ELSE now + v.duration,
   paths |-> FullScope, perms |-> v.perms]

\* Upsert and save.  When the save fails the owner gets an error although the
\* grant is live in memory.
DecideApprove(n, ok) ==
  /\ deciding[n] # NONE
  /\ ~deciding[n].deny
  /\ SaveOf([grants EXCEPT ![n] = ApprovedGrant(deciding[n])], ok)
  /\ Tell(n, ApprovedGrant(deciding[n]), ok)
  /\ deciding' = [deciding EXCEPT ![n] = NONE]
  /\ UNCHANGED <<now, pending, decisions, handler>>

----------------------------------------------------------------------------
(* The other writers of the grants store *)

\* Mutant of RevokeGrant: the store is changed in memory and never saved.
RevokeGrantUnsaved(n, ok) ==
  /\ grants[n] # NONE
  /\ SaveOf([grants EXCEPT ![n] = NONE], FALSE)
  /\ Tell(n, NONE, ok)
  /\ UNCHANGED <<now, pending, decisions, handler, deciding>>

\* revoke_grant; 404 when there is no grant.  Pending requests and remembered
\* decisions are left alone.
RevokeGrant(n, ok) ==
  /\ grants[n] # NONE
  /\ SaveOf([grants EXCEPT ![n] = NONE], ok)
  /\ Tell(n, NONE, ok)
  /\ UNCHANGED <<now, pending, decisions, handler, deciding>>

\* The grant after an edit: paths are replaced, a permission only when the body
\* gives it a value.
Edited(g, paths, given) ==
  [g EXCEPT !.paths = paths,
            !.perms = {p \in Perm : IF given[p] = NONE THEN p \in @ ELSE given[p]}]

\* update_grant.  The fields are assigned first; an edit that leaves no
\* permission then answers 400, unsaved but not undone.
UpdateGrant(n, paths, given, ok) ==
  LET g == Edited(grants[n], paths, given)
      acked == g.perms # {} /\ ok
  IN /\ grants[n] # NONE
     /\ SaveOf([grants EXCEPT ![n] = g], acked)
     /\ Tell(n, g, acked)
     /\ UNCHANGED <<now, pending, decisions, handler, deciding>>

\* The grants with new scopes; how share_item computes them is module ShareScope.
Rescoped(paths) ==
  [n \in Node |-> IF grants[n] = NONE THEN NONE ELSE [grants[n] EXCEPT !.paths = paths[n]]]

\* The last phase of share_item: one item's scope changes in every grant, one
\* save, and the owner gets the whole list back or an error.
ShareItem(paths, ok) ==
  /\ SaveOf(Rescoped(paths), ok)
  /\ told' = IF ok THEN Rescoped(paths)
             ELSE [n \in Node |-> IF grants[n] = NONE THEN told[n] ELSE NONE]
  /\ unsettled' = IF ok THEN {} ELSE unsettled \cup {n \in Node : grants[n] # NONE}
  /\ UNCHANGED <<now, pending, decisions, handler, deciding>>

\* One tick of run_expiry_sweeper: prune, and save only if that changed something.
Sweep(ok) ==
  /\ SaveOf(PruneExpired, ok /\ PruneExpired # grants)
  /\ UNCHANGED <<now, pending, decisions, handler, deciding, told, unsettled>>

\* pair_decision on this PC in its other role, as a requester: the outcome of
\* its own request goes into the same map under its own id.
OwnOutcome(st) ==
  /\ RememberDecision(Self, st)
  /\ UNCHANGED <<now, pending, grants, disk, handler, deciding, told, unsettled>>

\* The daemon stops, or is killed, and starts again: the stores are read from
\* their files, everything else is empty.
Restart ==
  /\ grants' = disk
  /\ pending' = [n \in Node |-> NONE]
  /\ decisions' = [k \in Key |-> NONE]
  /\ handler' = [n \in Node |-> "idle"]
  /\ deciding' = [n \in Node |-> NONE]
  /\ UNCHANGED <<now, disk, told, unsettled>>

Tick ==
  /\ now < MaxTime
  /\ now' = now + 1
  /\ UNCHANGED <<pending, decisions, grants, disk, handler, deciding, told, unsettled>>

Request(n) == ReqCheckGrant(n) \/ ReqAdmit(n)

Decide(n) ==
  \/ \E v \in Verdict : DecideTake(n, v)
  \/ DecideDeny(n)
  \/ DecideRefused(n)
  \/ \E ok \in BOOLEAN : DecideApprove(n, ok)

Edit(n) ==
  \E ok \in BOOLEAN :
    \/ RevokeGrant(n, ok)
    \/ \E paths \in Scopes, given \in [Perm -> BOOLEAN \cup {NONE}] :
         UpdateGrant(n, paths, given, ok)

Next ==
  \/ \E n \in Node : Request(n) \/ Decide(n) \/ Edit(n)
  \/ \E paths \in [Node -> Scopes], ok \in BOOLEAN : ShareItem(paths, ok)
  \/ \E ok \in BOOLEAN : Sweep(ok)
  \/ \E st \in OwnStatus : OwnOutcome(st)
  \/ Restart
  \/ Tick

Spec == Init /\ [][Next]_vars

----------------------------------------------------------------------------
(* The two answers a requester gets *)

\* require_auth for a request that claims the id of n and is signed with the
\* key of k (timestamps and replays are ReplayCache's subject).
AuthOutcome(n, k) ==
  IF grants[n] = NONE
    THEN IF pending[n] # NONE THEN "pending"
         ELSE IF decisions[n] # NONE /\ decisions[n].status = "denied" THEN "denied"
         ELSE "unknown-node"
    ELSE IF ~Unexpired(grants[n], now) THEN "expired"
         ELSE IF k # n THEN "identity-changed"
         ELSE "ok"

\* Mutant of StatusAnswer: any grant of the node counts, expired or not.
StatusAnswerAnyGrant(n) ==
  IF pending[n] # NONE THEN "pending"
  ELSE IF decisions[n] # NONE THEN decisions[n].status
  ELSE IF grants[n] # NONE THEN "approved"
  ELSE "unknown"

\* pair_status_lookup: pending, then the remembered decision, then a live grant.
StatusAnswer(n) ==
  IF pending[n] # NONE THEN "pending"
  ELSE IF decisions[n] # NONE THEN decisions[n].status
  ELSE IF Live(n) THEN "approved"
  ELSE "unknown"

----------------------------------------------------------------------------
(* Properties *)

\* What the owner was last told about a requester is what memory and the file
\* hold, whatever other requesters' changes, failed saves and restarts came in
\* between; only the passing of its deadline removes a grant on its own.  It
\* says that a revocation answered 204 is never undone by a restart or by a
\* later save, and that an approval answered 200 is never lost (decide_request,
\* revoke_grant, update_grant, share_item, Store::save, run_expiry_sweeper).
OwnerToldTruth ==
  \A n \in Node \ unsettled :
    LET lapsed == told[n] # NONE /\ ~Unexpired(told[n], now)
    IN /\ grants[n] = told[n] \/ (lapsed /\ grants[n] = NONE)
       /\ disk[n] = told[n] \/ (lapsed /\ disk[n] = NONE)

\* The pending queue and the decisions map never outgrow their caps, also when
\* handlers of several requesters interleave and when this PC stores outcomes
\* of its own requests in the same map (admit_pending, remember_decision).
QueueBounds ==
  /\ Cardinality(PendingIds(pending)) <= MaxPending
  /\ Cardinality(DecidedIds(decisions)) <= MaxDecisions

\* The status endpoint never promises access that the data plane then refuses:
\* a requester told "approved" gets through require_auth (pair_status_lookup
\* against require_auth).
ApprovedAnswerIsUsable ==
  \A n \in Node : StatusAnswer(n) = "approved" => AuthOutcome(n, n) = "ok"

\* A requester gains access in one of two ways: the owner's approval of its
\* request is being applied, or a restart brings back what the owner was told
\* could not be saved.  No other step, above all no sweep and no change about
\* another requester, lets it in (every writer of the grants store).
AccessOnlyByOwner ==
  [][\A n \in Node :
       AuthOutcome(n, n) # "ok" /\ AuthOutcome(n, n)' = "ok"
         => \/ deciding[n] # NONE /\ ~deciding[n].deny
            \/ n \in unsettled]_vars

\* Requests of n that wait for the owner's word: in the queue, or taken out of it
\* by a decision that is not applied yet.
Asked(n) == (IF pending[n] # NONE THEN 1 ELSE 0) + (IF deciding[n] # NONE THEN 1 ELSE 0)

AskedCounts == [n \in Node |-> Asked(n)]

Askers == {n \in Node : handler[n] = "ungranted"}

LiveIds == {n \in Node : Live(n)}

\* The grantor seen as module Access describes it.
Consent == INSTANCE Access WITH
  asking <- Askers, asked <- AskedCounts, granted <- LiveIds, inDoubt <- unsettled

\* The grantor keeps the promise of module Access: every approval uses up one
\* request of that very requester, no step about one requester changes what
\* another may do, and a restart brings back or loses only access the owner was
\* told about with an error (pair_request, apply_decision_with_perms and every
\* writer of the grants store).
ImplementsAccess == Consent!AccessSpec

\* server.rs:995: "A live grant for this node means the pair went through", the
\* answer the requester's poller relies on when the push was lost.
LiveGrantAnswersApproved ==
  \A n \in Node : Live(n) /\ pending[n] = NONE => StatusAnswer(n) = "approved"
============================================================================
