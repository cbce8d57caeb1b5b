------------------------- MODULE ReplayCacheProofs -------------------------
(***************************************************************************)
(* Theorems about ReplayCache, for every window, every lag between the two *)
(* clock readings and every set of requests.                               *)
(***************************************************************************)
EXTENDS ReplayCache, TLAPS

USE ReplayAssumption

\* The cache drops entries and changes none.
LEMMA RetainedType ==
  ASSUME TypeOK, NEW t \in Nat
  PROVE  Retained(t) \in [Sig -> Nat \cup {NONE}]
BY DEF TypeOK, Retained

\* Every step keeps the types.
LEMMA TypeStep == TypeOK /\ [Next]_vars => TypeOK'
<1> SUFFICES ASSUME TypeOK, [Next]_vars PROVE TypeOK'
  OBVIOUS
<1>1. ASSUME NEW s \in Sig, NEW lag \in 0..Lag, Present(s, now + lag) PROVE TypeOK'
  <2>1. now + lag \in Nat
    BY DEF TypeOK
  <2>2. Retained(now + lag) \in [Sig -> Nat \cup {NONE}]
    BY <2>1, RetainedType
  <2> QED
    BY <1>1, <2>1, <2>2 DEF Present, TypeOK
<1>2. CASE Restart
  BY <1>2 DEF Restart, TypeOK
<1>3. CASE Tick
  BY <1>3 DEF Tick, TypeOK
<1>4. CASE UNCHANGED vars
  BY <1>4 DEF vars, TypeOK
<1> QED
  BY <1>1, <1>2, <1>3, <1>4 DEF Next

\* The clock, the cache and the observations keep their types.
THEOREM ReplayTypeCorrect == Spec => []TypeOK
<1>1. Init => TypeOK
  BY DEF Init, TypeOK
<1> QED
  BY <1>1, TypeStep, PTL DEF Spec

----------------------------------------------------------------------------

\* What the cache remembers of an accepted signature: an entry no older than
\* the acceptance, or none once more than a whole window has passed since.
Remembers(s) ==
  /\ firstAt[s] = NONE => seen[s] = NONE
  /\ firstAt[s] # NONE =>
       /\ firstAt[s] <= now
       /\ seen[s] = NONE => now - firstAt[s] > MaxSkew
       /\ seen[s] # NONE => firstAt[s] <= seen[s] /\ seen[s] <= now

\* The inductive strengthening of PastStampsOnce.
CacheInv ==
  /\ \A s \in Sig : Remembers(s)
  /\ \A s \in repeated : firstAt[s] # NONE /\ stamp[s] + Lag > firstAt[s]

\* Time passing and old entries going keep the memory of other signatures.
LEMMA RetainedRemembers ==
  ASSUME TypeOK, CacheInv, NEW s \in Sig, NEW t \in Nat, t >= now
  PROVE  /\ firstAt[s] = NONE => Retained(t)[s] = NONE
         /\ firstAt[s] # NONE =>
              /\ firstAt[s] <= t
              /\ Retained(t)[s] = NONE => t - firstAt[s] > MaxSkew
              /\ Retained(t)[s] # NONE =>
                   firstAt[s] <= Retained(t)[s] /\ Retained(t)[s] <= t
BY DEF TypeOK, CacheInv, Remembers, Retained

\* Every step keeps the memory and the timestamps of repeated signatures.
LEMMA CacheStep == TypeOK /\ CacheInv /\ [Next]_vars => CacheInv'
<1> SUFFICES ASSUME TypeOK, CacheInv, [Next]_vars PROVE CacheInv'
  OBVIOUS
<1>1. ASSUME NEW s \in Sig, NEW lag \in 0..Lag, Present(s, now + lag) PROVE CacheInv'
  <2> DEFINE t == now + lag
  <2>1. t \in Nat /\ t >= now /\ t <= now + Lag /\ now' = t /\ stamp' = stamp
    BY <1>1 DEF TypeOK, Present
  <2>2. Retained(t) \in [Sig -> Nat \cup {NONE}] /\ seen' = [Retained(t) EXCEPT ![s] = t]
    BY <1>1, <2>1, RetainedType DEF Present
  <2> HIDE DEF t
  <2>3. ASSUME NEW r \in Sig PROVE Remembers(r)'
    <3>1. CASE r = s
      <4>1. seen'[s] = t
        BY <2>1, <2>2
      <4>2. firstAt'[s] = firstAt[s] \/ firstAt'[s] = t
        BY <1>1 DEF Present, TypeOK, t
      <4>3. firstAt[s] = NONE => firstAt'[s] = t
        BY <1>1, <2>1, RetainedRemembers DEF Present, TypeOK, t
      <4>4. firstAt[s] # NONE => firstAt[s] \in Nat /\ firstAt[s] <= t
        BY <2>1, RetainedRemembers DEF TypeOK
      <4> QED
        BY <2>1, <3>1, <4>1, <4>2, <4>3, <4>4 DEF Remembers
    <3>2. CASE r # s
      <4>1. seen'[r] = Retained(t)[r]
        BY <2>2, <3>2
      <4>2. firstAt'[r] = firstAt[r]
        BY <1>1, <3>2 DEF Present, TypeOK
      <4> QED
        BY <2>1, <4>1, <4>2, RetainedRemembers DEF Remembers
    <3> QED
      BY <3>1, <3>2
  <2>4. ASSUME NEW r \in repeated' PROVE firstAt'[r] # NONE /\ stamp'[r] + Lag > firstAt'[r]
    <3>1. CASE r \in repeated
      <4>1. firstAt[r] # NONE /\ stamp[r] + Lag > firstAt[r] /\ r \in Sig
        BY <3>1 DEF CacheInv, TypeOK
      <4>2. firstAt'[r] = firstAt[r]
        BY <1>1, <4>1 DEF Present, TypeOK
      <4> QED
        BY <2>1, <4>1, <4>2
    <3>2. CASE r \notin repeated
      <4>1. r = s /\ Retained(t)[s] = NONE /\ firstAt[s] # NONE /\ firstAt' = firstAt
        BY <1>1, <3>2 DEF Present, t
      <4>2. t - firstAt[s] > MaxSkew
        BY <2>1, <4>1, RetainedRemembers
      <4>3. now - stamp[s] <= MaxSkew
        BY <1>1 DEF Present, InWindow
      <4>4. firstAt[s] \in Nat /\ stamp[s] \in Nat /\ now \in Nat
        BY <4>1 DEF TypeOK
      <4> QED
        BY <2>1, <4>1, <4>2, <4>3, <4>4
    <3> QED
      BY <3>1, <3>2
  <2> QED
    BY <2>3, <2>4 DEF CacheInv
<1>2. CASE Restart
  BY <1>2 DEF Restart, CacheInv, Remembers
<1>3. CASE Tick
  <2>1. ASSUME NEW r \in Sig PROVE Remembers(r)'
    BY <1>3 DEF Tick, CacheInv, Remembers, TypeOK
  <2> QED
    BY <1>3, <2>1 DEF Tick, CacheInv
<1>4. CASE UNCHANGED vars
  BY <1>4 DEF vars, CacheInv, Remembers
<1> QED
  BY <1>1, <1>2, <1>3, <1>4 DEF Next

\* A request stamped at least Lag seconds behind this PC's clock is accepted at
\* most once: its cache entry outlives the window in which it can be repeated.
THEOREM PastStampsAcceptedOnce == Spec => []PastStampsOnce
<1>1. Init => CacheInv
  BY DEF Init, CacheInv, Remembers
<1>2. CacheInv => PastStampsOnce
  BY DEF CacheInv, PastStampsOnce
<1> QED
  BY <1>1, <1>2, CacheStep, ReplayTypeCorrect, PTL DEF Spec
============================================================================
