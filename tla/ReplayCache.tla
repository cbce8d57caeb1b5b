---------------------------- MODULE ReplayCache ----------------------------
(***************************************************************************)
(* The freshness checks on a signed request (auth.rs): its timestamp must  *)
(* be within MAX_SKEW_SECS of this PC's clock on either side, and its      *)
(* signature must not be in the cache of signatures seen.  Requests travel *)
(* over a network that delays, reorders and repeats them, and the signer's *)
(* clock may run ahead of or behind this one.                              *)
(***************************************************************************)
EXTENDS Integers

CONSTANTS
  Sig,       \* signatures, one per distinct signed request
  NONE,      \* an absent entry
  MaxSkew,   \* MAX_SKEW_SECS
  Lag,       \* seconds that may pass between the two clock readings of one check
  MaxStamp,  \* bound on timestamps
  MaxTime    \* bound on the clock

ASSUME ReplayAssumption ==
  /\ MaxSkew \in Nat
  /\ Lag \in Nat
  /\ MaxStamp \in Nat
  /\ MaxTime \in Nat
  /\ NONE \notin Int

VARIABLES
  now,       \* unix_now()
  stamp,     \* the x-doclink-ts each request was signed with
  seen,      \* AppState.seen_sigs: when each signature was last presented
  firstAt,   \* observation: when it was first accepted since the daemon started
  repeated   \* observation: signatures accepted a second time since then

vars == <<now, stamp, seen, firstAt, repeated>>

TypeOK ==
  /\ now \in Nat
  /\ stamp \in [Sig -> 0..MaxStamp]
  /\ seen \in [Sig -> Nat \cup {NONE}]
  /\ firstAt \in [Sig -> Nat \cup {NONE}]
  /\ repeated \in SUBSET Sig

Init ==
  /\ now = 0
  /\ stamp \in [Sig -> 0..MaxStamp]
  /\ seen = [s \in Sig |-> NONE]
  /\ firstAt = [s \in Sig |-> NONE]
  /\ repeated = {}

----------------------------------------------------------------------------

\* verify_signed_headers: now.abs_diff(ts) <= MAX_SKEW_SECS
InWindow(s, t) == t - stamp[s] <= MaxSkew /\ stamp[s] - t <= MaxSkew

\* Mutant of Retained: an entry goes when it is exactly as old as the window.
RetainedLess(t) ==
  [s \in Sig |-> IF seen[s] # NONE /\ t - seen[s] < MaxSkew THEN seen[s] ELSE NONE]

\* The cache after seen.retain(now - at <= MAX_SKEW_SECS).
Retained(t) ==
  [s \in Sig |-> IF seen[s] # NONE /\ t - seen[s] <= MaxSkew THEN seen[s] ELSE NONE]

\* A copy of s arrives.  The window is checked at `now`; reject_replays reads
\* the clock again, at t, drops old entries and files the signature under t.
\* The copy is accepted exactly when no entry was left, and even a refused
\* copy renews the entry.
Present(s, t) ==
  /\ now' = t
  /\ InWindow(s, now)
  /\ seen' = [Retained(t) EXCEPT ![s] = t]
  /\ firstAt' = IF Retained(t)[s] = NONE /\ firstAt[s] = NONE
                  THEN [firstAt EXCEPT ![s] = t] ELSE firstAt
  /\ repeated' = IF Retained(t)[s] = NONE /\ firstAt[s] # NONE
                   THEN repeated \cup {s} ELSE repeated
  /\ UNCHANGED stamp

\* A daemon instance starts with an empty cache.
Restart ==
  /\ seen' = [s \in Sig |-> NONE]
  /\ firstAt' = [s \in Sig |-> NONE]
  /\ repeated' = {}
  /\ UNCHANGED <<now, stamp>>

Tick ==
  /\ now < MaxTime
  /\ now' = now + 1
  /\ UNCHANGED <<stamp, seen, firstAt, repeated>>

Next ==
  \/ \E s \in Sig, lag \in 0..Lag : now + lag <= MaxTime /\ Present(s, now + lag)
  \/ Restart
  \/ Tick

Spec == Init /\ [][Next]_vars

----------------------------------------------------------------------------
(* Properties *)

\* A request whose timestamp lay at least Lag seconds behind this PC's clock when
\* it was first accepted (with Lag = 0: was not ahead of it) is accepted at most
\* once by a daemon instance, however often and however late the network repeats
\* it (reject_replays against the window of verify_signed_headers, at its boundary).
PastStampsOnce ==
  \A s \in repeated : stamp[s] + Lag > firstAt[s]
============================================================================
