------------------------------ MODULE Notices ------------------------------
(***************************************************************************)
(* What the owner is told of through the feed: pair_request announces a    *)
(* request that is new (server.rs), run_expiry_sweeper warns of a grant    *)
(* whose last day has begun before it prunes it (store.rs, claim_expiry in *)
(* events.rs).  Both are seen here for one requester, whose calls may      *)
(* overlap; time is counted in intervals of the sweeper, some of which     *)
(* pass without it.  Grantor has the same queue and grants with their      *)
(* files and caps.                                                         *)
(***************************************************************************)
EXTENDS EventFeed

CONSTANTS
  Handler,     \* calls of pair_request that may run at the same time
  Durations,   \* how long the owner may grant access, 0: without an end
  Soon,        \* EXPIRING_SOON_SECS
  Scenes       \* bounds: on the clock, on events pushed, on the calls that run, and
               \* whether the shell polls

ASSUME NoticeAssumption ==
  /\ Durations \subseteq Nat /\ Soon \in Nat \ {0}
  /\ Scenes \subseteq [time : Nat, events : 0..MaxEvents, calls : SUBSET Handler, polls : BOOLEAN]

VARIABLES
  call,       \* where each pair_request is, and whether it found its request new
  pending,    \* the requester is in PairingState.pending
  grant,      \* expires_unix of its grant, 0: without an end
  given,      \* observation: when it was given
  now,        \* the clock
  swept,      \* the sweeper's tick of this interval has come
  missed,     \* observation: intervals that passed without a tick
  claims,     \* Events.expiry_announced
  told,       \* observation: the owner was told of the request since it last left the queue
  raced,      \* observation: it left while a call that had seen it was about to admit
  warned,     \* observation: the deadlines the owner was warned of
  scene       \* the bounds of this behaviour

notices == <<call, pending, grant, given, now, swept, missed, claims, told, raced, warned, scene>>

Idle == [at |-> "idle", new |-> FALSE]

NoticesOK ==
  /\ TypeOK
  /\ call \in [Handler -> [at : {"idle", "look", "admit", "push"}, new : BOOLEAN]]
  /\ pending \in BOOLEAN /\ told \in BOOLEAN /\ raced \in BOOLEAN /\ swept \in BOOLEAN
  /\ grant \in Nat \cup {NONE} /\ now \in 0..scene.time /\ scene \in Scenes
  /\ claims \subseteq warned /\ warned \subseteq Nat
  /\ given \in Nat /\ missed \subseteq Nat

NoticesInit ==
  /\ Init
  /\ call = [h \in Handler |-> Idle]
  /\ pending = FALSE /\ grant = NONE /\ now = 0 /\ swept = FALSE /\ claims = {}
  /\ given = 0 /\ missed = {}
  /\ told = FALSE /\ raced = FALSE /\ warned = {} /\ scene \in Scenes

\* Events::push, within the bound of the scene.
PushNotice == pushed < scene.events /\ Push

Live == grant # NONE /\ (grant = 0 \/ grant > now)

----------------------------------------------------------------------------
(* pair_request *)

\* A live grant is the answer, and nothing is admitted.
ReqCheckGrant(h) ==
  /\ h \in scene.calls /\ call[h].at = "idle" /\ ~Live
  /\ call' = [call EXCEPT ![h].at = "look"]
  /\ UNCHANGED <<vars, pending, grant, given, now, swept, missed, claims, told, raced, warned, scene>>

\* is_new_request
ReqLook(h) ==
  /\ call[h].at = "look"
  /\ call' = [call EXCEPT ![h] = [at |-> "admit", new |-> ~pending]]
  /\ UNCHANGED <<vars, pending, grant, given, now, swept, missed, claims, told, raced, warned, scene>>

\* Mutant of ReqAdmit: whether the request is new is asked after it was filed.
ReqAdmitThenLook(h) ==
  /\ call[h].at = "admit"
  /\ pending' = TRUE
  /\ call' = [call EXCEPT ![h] = IF ~pending' THEN [at |-> "push", new |-> TRUE] ELSE Idle]
  /\ UNCHANGED <<vars, grant, given, now, swept, missed, claims, told, raced, warned, scene>>

\* admit_pending; the queue may be full of others' requests.
ReqAdmit(h) ==
  /\ call[h].at = "admit"
  /\ \/ /\ pending' = TRUE
        /\ call' = [call EXCEPT ![h] = IF @.new THEN [@ EXCEPT !.at = "push"] ELSE Idle]
     \/ ~pending /\ pending' = FALSE /\ call' = [call EXCEPT ![h] = Idle]
  /\ UNCHANGED <<vars, grant, given, now, swept, missed, claims, told, raced, warned, scene>>

ReqPush(h) ==
  /\ call[h].at = "push"
  /\ PushNotice
  /\ call' = [call EXCEPT ![h] = Idle]
  /\ told' = TRUE
  /\ UNCHANGED <<pending, grant, given, now, swept, missed, claims, raced, warned, scene>>

----------------------------------------------------------------------------
(* The owner, other requests, and the sweeper *)

\* The entry leaves the queue: a decision, which may be an approval, or the
\* prune_pending of another PC's request, which finds it too old.
Leaves ==
  /\ pending /\ pending' = FALSE
  /\ told' = FALSE
  /\ raced' = (\E h \in Handler : call[h].at = "admit" /\ ~call[h].new)
  /\ \/ UNCHANGED <<grant, given>>
     \/ \E d \in Durations : grant' = (IF d = 0 THEN 0 ELSE now + d) /\ given' = now
  /\ UNCHANGED <<vars, call, now, swept, missed, claims, warned, scene>>

RevokeGrant ==
  /\ grant # NONE /\ grant' = NONE
  /\ UNCHANGED <<vars, call, pending, given, now, swept, missed, claims, told, raced, warned, scene>>

\* Mutant of ClaimExpiry: one warning per requester.
ClaimExpiryOfPeer(e) == claims = {}

ClaimExpiry(e) == e \notin claims

Expiring == grant \notin {NONE, 0} /\ grant > now /\ grant - now <= Soon

\* The sweeper's tick: warn, then prune.
Sweep ==
  /\ ~swept /\ swept' = TRUE
  /\ IF Expiring /\ ClaimExpiry(grant)
       THEN /\ PushNotice
            /\ claims' = claims \cup {grant} /\ warned' = warned \cup {grant}
       ELSE UNCHANGED <<vars, claims, warned>>
  /\ grant' = IF Live THEN grant ELSE NONE
  /\ UNCHANGED <<call, pending, given, now, missed, told, raced, scene>>

\* The clock goes on to a later interval, and the ones in between see no tick.
Passes(gap) ==
  /\ gap \in 0..(scene.time - now)
  /\ now' = now + gap /\ swept' = FALSE
  /\ missed' = missed \cup {t \in now..(now + gap - 1) : t = now => ~swept}

\* The next interval, when this one's tick has come; or the PC has been asleep.
Tick ==
  /\ \E gap \in 1..scene.time : Passes(gap)
  /\ UNCHANGED <<vars, call, pending, grant, given, claims, told, raced, warned, scene>>

\* A new daemon, at once or after a time without one, reads the grants and sweeps.
Restart ==
  /\ DaemonRestart
  /\ \E gap \in 0..scene.time : Passes(gap)
  /\ call' = [h \in Handler |-> Idle]
  /\ pending' = FALSE /\ told' = FALSE /\ raced' = FALSE
  /\ claims' = {}
  /\ UNCHANGED <<grant, given, warned, scene>>

\* Uploads and print jobs push as well; the shell polls.
Elsewhere ==
  /\ \/ PushNotice \/ (scene.polls /\ PollAsk) \/ PollPrime \/ PollShow
     \/ ShellRestart \/ ShellDies
  /\ UNCHANGED notices

NoticesNext ==
  \/ \E h \in Handler : ReqCheckGrant(h) \/ ReqLook(h) \/ ReqAdmit(h) \/ ReqPush(h)
  \/ Leaves \/ RevokeGrant \/ Sweep \/ Tick \/ Restart
  \/ Elsewhere

NoticesSpec == NoticesInit /\ [][NoticesNext]_<<vars, notices>> /\ Fairness

----------------------------------------------------------------------------
(* Properties *)

\* The owner has been told of every request that waits for him, or a call is about
\* to tell him, unless the entry left the queue between a call's look and its admit
\* (is_new_request and the push in pair_request).
PendingIsAnnounced ==
  pending /\ ~raced => told \/ \E h \in Handler : call[h].at = "push"

\* The sweeper prunes no grant the owner was not warned of, although warnings are
\* given once per deadline and a requester may get one grant after another, unless no
\* tick came on its last day: the daemon was off or the PC asleep in every interval of it
\* after the one in which access was given (claim_expiry, and the order of the two
\* halves of run_expiry_sweeper).
NoSilentLapse ==
  [][~swept /\ swept' /\ grant # NONE /\ grant' = NONE =>
       \/ grant \in warned
       \/ \A t \in (given + 1)..(grant - 1) : grant - t <= Soon => t \in missed]_<<vars, notices>>
============================================================================
