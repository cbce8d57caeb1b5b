--------------------------- MODULE PairingProofs ---------------------------
(***************************************************************************)
(* Theorems about pairing.  First Grantor, for every set of requesters,    *)
(* every cap, every granting period and an unbounded number of restarts    *)
(* and failed saves; then Grantor as an implementation of Access; then     *)
(* PairSync, the two PCs together, with lost, late and overtaken answers   *)
(* and restarts on either side.  The grantor's part of a step of PairSync  *)
(* is a step of Grantor, so that what is shown of Grantor's steps is used  *)
(* there as it stands.                                                     *)
(***************************************************************************)
EXTENDS PairSync, FiniteSetTheorems, TLAPS

USE GrantorAssumption, NoneAssumption

----------------------------------------------------------------------------
(* Types *)

\* An approval writes a well-formed grant.
LEMMA ApprovedGrantType ==
  ASSUME now \in Nat, NEW v \in Verdict, ~v.deny
  PROVE  ApprovedGrant(v) \in Grant
<1>1. v.duration \in Nat /\ v.perms \in SUBSET Perm
  BY DEF Verdict
<1>2. QED
  BY <1>1 DEF ApprovedGrant, Grant

\* An edit turns a grant into a grant: a permission is only ever added or
\* dropped, never left half set.
LEMMA EditedType ==
  ASSUME NEW g \in Grant, NEW paths \in Scopes, NEW given \in [Perm -> BOOLEAN \cup {NONE}]
  PROVE  Edited(g, paths, given) \in Grant
BY DEF Edited, Grant

\* remember_decision keeps the map well formed.
LEMMA RememberType ==
  ASSUME TypeOK, NEW k \in Key, NEW st \in Status, RememberDecision(k, st)
  PROVE  decisions' \in [Key -> Decision \cup {NONE}]
<1> DEFINE entry == [status |-> st, at |-> now]
<1>1. entry \in Decision
  BY DEF TypeOK, Decision
<1>2. Oldest \subseteq Key
  BY DEF Oldest, DecidedIds
<1>3. QED
  BY <1>1, <1>2 DEF RememberDecision, TypeOK

\* Pruning keeps entries or drops them.
LEMMA PruneType ==
  ASSUME TypeOK
  PROVE  /\ PrunePending \in [Node -> Nat \cup {NONE}]
         /\ PruneExpired \in [Node -> Grant \cup {NONE}]
BY DEF TypeOK, PrunePending, PruneExpired

\* A change of the store by a well-formed map keeps memory and file well formed.
LEMMA SaveType ==
  ASSUME TypeOK, NEW new \in [Node -> Grant \cup {NONE}], NEW saved, SaveOf(new, saved)
  PROVE  /\ grants' \in [Node -> Grant \cup {NONE}]
         /\ disk' \in [Node -> Grant \cup {NONE}]
BY DEF SaveOf, TypeOK

\* New scopes leave well-formed grants.
LEMMA RescopedType ==
  ASSUME TypeOK, NEW paths \in [Node -> Scopes]
  PROVE  Rescoped(paths) \in [Node -> Grant \cup {NONE}]
<1> SUFFICES ASSUME NEW n \in Node PROVE Rescoped(paths)[n] \in Grant \cup {NONE}
  BY DEF Rescoped
<1>1. grants[n] # NONE => [grants[n] EXCEPT !.paths = paths[n]] \in Grant
  BY DEF TypeOK, Grant
<1> QED
  BY <1>1 DEF Rescoped

\* What the owner is told about one requester is a grant or none.
LEMMA TellType ==
  ASSUME TypeOK, NEW n \in Node, NEW g \in Grant \cup {NONE}, NEW ok, Tell(n, g, ok)
  PROVE  /\ told' \in [Node -> Grant \cup {NONE}]
         /\ unsettled' \in SUBSET Node
BY DEF Tell, TypeOK

\* Every step keeps every variable in its type.
LEMMA TypeStep == TypeOK /\ [Next]_vars => TypeOK'
<1> SUFFICES ASSUME TypeOK, [Next]_vars PROVE TypeOK'
  OBVIOUS
<1>1. ASSUME NEW n \in Node, Request(n) PROVE TypeOK'
  <2>1. CASE ReqCheckGrant(n)
    BY <2>1 DEF ReqCheckGrant, TypeOK
  <2>2. CASE ReqAdmit(n)
    BY <2>2, PruneType DEF ReqAdmit, TypeOK
  <2> QED
    BY <1>1, <2>1, <2>2 DEF Request
<1>2. ASSUME NEW n \in Node, Decide(n) PROVE TypeOK'
  <2>1. ASSUME NEW v \in Verdict, DecideTake(n, v) PROVE TypeOK'
    BY <2>1 DEF DecideTake, TypeOK
  <2>2. CASE DecideDeny(n)
    BY <2>2, RememberType DEF DecideDeny, TypeOK, Key, Status
  <2>3. CASE DecideRefused(n)
    BY <2>3 DEF DecideRefused, TypeOK
  <2>4. ASSUME NEW ok \in BOOLEAN, DecideApprove(n, ok) PROVE TypeOK'
    <3>1. deciding[n] \in Verdict /\ ~deciding[n].deny
      BY <2>4 DEF DecideApprove, TypeOK
    <3>2. ApprovedGrant(deciding[n]) \in Grant
      BY <3>1, ApprovedGrantType DEF TypeOK
    <3> DEFINE new == [grants EXCEPT ![n] = ApprovedGrant(deciding[n])]
    <3>3. new \in [Node -> Grant \cup {NONE}]
      BY <3>2 DEF TypeOK
    <3>4. SaveOf(new, ok) /\ Tell(n, ApprovedGrant(deciding[n]), ok)
      BY <2>4 DEF DecideApprove
    <3>5. /\ grants' \in [Node -> Grant \cup {NONE}]
          /\ disk' \in [Node -> Grant \cup {NONE}]
      BY <3>3, <3>4, SaveType
    <3>6. /\ told' \in [Node -> Grant \cup {NONE}]
          /\ unsettled' \in SUBSET Node
      BY <3>2, <3>4, TellType
    <3> QED
      BY <2>4, <3>5, <3>6 DEF DecideApprove, TypeOK
  <2> QED
    BY <1>2, <2>1, <2>2, <2>3, <2>4 DEF Decide
<1>3. ASSUME NEW n \in Node, Edit(n) PROVE TypeOK'
  <2>1. ASSUME NEW ok \in BOOLEAN, RevokeGrant(n, ok) PROVE TypeOK'
    <3>1. [grants EXCEPT ![n] = NONE] \in [Node -> Grant \cup {NONE}]
      BY DEF TypeOK
    <3> QED
      BY <2>1, <3>1, SaveType, TellType DEF RevokeGrant, TypeOK
  <2>2. ASSUME NEW ok \in BOOLEAN, NEW paths \in Scopes,
               NEW given \in [Perm -> BOOLEAN \cup {NONE}],
               UpdateGrant(n, paths, given, ok)
        PROVE  TypeOK'
    <3> DEFINE g == Edited(grants[n], paths, given)
               acked == g.perms # {} /\ ok
               new == [grants EXCEPT ![n] = g]
    <3>1. g \in Grant
      BY <2>2, EditedType DEF UpdateGrant, TypeOK
    <3>2. new \in [Node -> Grant \cup {NONE}]
      BY <3>1 DEF TypeOK
    <3>3. SaveOf(new, acked) /\ Tell(n, g, acked)
      BY <2>2 DEF UpdateGrant
    <3>4. /\ grants' \in [Node -> Grant \cup {NONE}]
          /\ disk' \in [Node -> Grant \cup {NONE}]
      BY <3>2, <3>3, SaveType
    <3>5. /\ told' \in [Node -> Grant \cup {NONE}]
          /\ unsettled' \in SUBSET Node
      BY <3>1, <3>3, TellType
    <3> QED
      BY <2>2, <3>4, <3>5 DEF UpdateGrant, TypeOK
  <2> QED
    BY <1>3, <2>1, <2>2 DEF Edit
<1>4. ASSUME NEW paths \in [Node -> Scopes], NEW ok \in BOOLEAN, ShareItem(paths, ok)
      PROVE  TypeOK'
  <2>1. Rescoped(paths) \in [Node -> Grant \cup {NONE}]
    BY RescopedType
  <2>2. /\ grants' \in [Node -> Grant \cup {NONE}]
        /\ disk' \in [Node -> Grant \cup {NONE}]
    BY <1>4, <2>1, SaveType DEF ShareItem
  <2>3. /\ told' \in [Node -> Grant \cup {NONE}]
        /\ unsettled' \in SUBSET Node
    BY <1>4, <2>1 DEF ShareItem, TypeOK
  <2> QED
    BY <1>4, <2>2, <2>3 DEF ShareItem, TypeOK
<1>4a. ASSUME NEW ok \in BOOLEAN, Sweep(ok) PROVE TypeOK'
  <2>1. /\ grants' \in [Node -> Grant \cup {NONE}]
        /\ disk' \in [Node -> Grant \cup {NONE}]
    BY <1>4a, PruneType, SaveType DEF Sweep
  <2> QED
    BY <1>4a, <2>1 DEF Sweep, TypeOK
<1>5. ASSUME NEW st \in OwnStatus, OwnOutcome(st) PROVE TypeOK'
  BY <1>5, RememberType DEF OwnOutcome, TypeOK, Key
<1>6. CASE Restart
  BY <1>6 DEF Restart, TypeOK
<1>7. CASE Tick
  BY <1>7 DEF Tick, TypeOK
<1>8. CASE UNCHANGED vars
  BY <1>8 DEF vars, TypeOK
<1> QED
  BY <1>1, <1>2, <1>3, <1>4, <1>4a, <1>5, <1>6, <1>7, <1>8 DEF Next

\* Type correctness of the grantor: no sequence of requests, decisions, edits,
\* sweeps, failed saves and restarts leaves a malformed map or grant behind.
THEOREM GrantorTypeCorrect == Spec => []TypeOK
<1>1. Init => TypeOK
  BY DEF Init, TypeOK
<1> QED
  BY <1>1, TypeStep, PTL DEF Spec

----------------------------------------------------------------------------
(* What the owner was told *)

\* One requester's part of OwnerToldTruth.
Truth(n) ==
  LET lapsed == told[n] # NONE /\ ~Unexpired(told[n], now)
  IN /\ grants[n] = told[n] \/ (lapsed /\ grants[n] = NONE)
     /\ disk[n] = told[n] \/ (lapsed /\ disk[n] = NONE)

\* Changing one requester's grant, saving the whole file and answering the
\* owner accordingly keeps the truth for everybody: a successful save writes
\* what memory holds for the others too, a failed one leaves their part of the
\* file as it was.
LEMMA ChangeKeepsTruth ==
  ASSUME TypeOK, OwnerToldTruth,
         NEW m \in Node, NEW g, NEW ok \in BOOLEAN,
         SaveOf([grants EXCEPT ![m] = g], ok), Tell(m, g, ok), now' = now
  PROVE  OwnerToldTruth'
<1> SUFFICES ASSUME NEW n \in Node, n \notin unsettled' PROVE Truth(n)'
  BY DEF OwnerToldTruth, Truth
<1>1. CASE n = m
  <2>1. ok
    BY <1>1 DEF Tell
  <2>2. grants'[n] = g /\ disk'[n] = g /\ told'[n] = g
    BY <1>1, <2>1 DEF SaveOf, Tell, TypeOK
  <2> QED
    BY <2>2 DEF Truth
<1>2. CASE n # m
  <2>1. n \notin unsettled /\ told'[n] = told[n] /\ grants'[n] = grants[n]
    BY <1>2 DEF SaveOf, Tell, TypeOK
  <2>2. disk'[n] = disk[n] \/ disk'[n] = grants[n]
    BY <1>2 DEF SaveOf, TypeOK
  <2>3. Truth(n)
    BY <2>1 DEF OwnerToldTruth, Truth
  <2> QED
    BY <2>1, <2>2, <2>3 DEF Truth
<1> QED
  BY <1>1, <1>2

\* Every step keeps what the owner was told true.
LEMMA TruthStep == TypeOK /\ OwnerToldTruth /\ [Next]_vars => OwnerToldTruth'
<1> SUFFICES ASSUME TypeOK, OwnerToldTruth, [Next]_vars PROVE OwnerToldTruth'
  OBVIOUS
<1>1. ASSUME UNCHANGED <<now, grants, disk, told, unsettled>> PROVE OwnerToldTruth'
  BY <1>1 DEF OwnerToldTruth
<1>2. ASSUME NEW n \in Node, Request(n) PROVE OwnerToldTruth'
  BY <1>1, <1>2 DEF Request, ReqCheckGrant, ReqAdmit
<1>3. ASSUME NEW n \in Node, Decide(n) PROVE OwnerToldTruth'
  <2>1. ASSUME NEW ok \in BOOLEAN, DecideApprove(n, ok) PROVE OwnerToldTruth'
    BY <2>1, ChangeKeepsTruth DEF DecideApprove
  <2> QED
    BY <1>1, <1>3, <2>1 DEF Decide, DecideTake, DecideDeny, DecideRefused
<1>4. ASSUME NEW n \in Node, Edit(n) PROVE OwnerToldTruth'
  <2>1. ASSUME NEW ok \in BOOLEAN, RevokeGrant(n, ok) PROVE OwnerToldTruth'
    BY <2>1, ChangeKeepsTruth DEF RevokeGrant
  <2>2. ASSUME NEW ok \in BOOLEAN, NEW paths \in Scopes,
               NEW given \in [Perm -> BOOLEAN \cup {NONE}],
               UpdateGrant(n, paths, given, ok)
        PROVE  OwnerToldTruth'
    <3> DEFINE g == Edited(grants[n], paths, given)
               acked == g.perms # {} /\ ok
    <3>1. /\ SaveOf([grants EXCEPT ![n] = g], acked)
          /\ Tell(n, g, acked)
          /\ now' = now
      BY <2>2 DEF UpdateGrant
    <3>2. acked \in BOOLEAN
      OBVIOUS
    <3> HIDE DEF g, acked
    <3> QED
      BY <3>1, <3>2, ChangeKeepsTruth
  <2> QED
    BY <1>4, <2>1, <2>2 DEF Edit
<1>4a. ASSUME NEW paths \in [Node -> Scopes], NEW ok \in BOOLEAN, ShareItem(paths, ok)
       PROVE  OwnerToldTruth'
  <2> SUFFICES ASSUME NEW n \in Node, n \notin unsettled' PROVE Truth(n)'
    BY DEF OwnerToldTruth, Truth
  <2>1. CASE ok
    BY <1>4a, <2>1 DEF ShareItem, SaveOf, Truth
  <2>2. CASE ~ok
    <3>1. n \notin unsettled /\ grants[n] = NONE
      BY <1>4a, <2>2 DEF ShareItem
    <3>2. grants'[n] = grants[n] /\ disk' = disk /\ told'[n] = told[n] /\ now' = now
      BY <1>4a, <2>2, <3>1 DEF ShareItem, SaveOf, Rescoped
    <3>3. Truth(n)
      BY <3>1 DEF OwnerToldTruth, Truth
    <3> QED
      BY <3>2, <3>3 DEF Truth
  <2> QED
    BY <2>1, <2>2
<1>5. ASSUME NEW ok \in BOOLEAN, Sweep(ok) PROVE OwnerToldTruth'
  <2> SUFFICES ASSUME NEW n \in Node, n \notin unsettled' PROVE Truth(n)'
    BY DEF OwnerToldTruth, Truth
  <2>1. n \notin unsettled /\ told' = told /\ now' = now
    BY <1>5 DEF Sweep
  <2>2. Truth(n)
    BY <2>1 DEF OwnerToldTruth, Truth
  <2>3. grants'[n] = IF Live(n) THEN grants[n] ELSE NONE
    BY <1>5 DEF Sweep, SaveOf, PruneExpired
  <2>4. disk'[n] = disk[n] \/ disk'[n] = grants'[n]
    BY <1>5 DEF Sweep, SaveOf
  <2> QED
    BY <2>1, <2>2, <2>3, <2>4 DEF Truth, Live
<1>6. ASSUME NEW st \in OwnStatus, OwnOutcome(st) PROVE OwnerToldTruth'
  BY <1>1, <1>6 DEF OwnOutcome
<1>7. CASE Restart
  BY <1>7 DEF Restart, OwnerToldTruth
<1>8. CASE Tick
  <2> SUFFICES ASSUME NEW n \in Node, n \notin unsettled' PROVE Truth(n)'
    BY DEF OwnerToldTruth, Truth
  <2>1. /\ n \notin unsettled /\ told' = told /\ grants' = grants /\ disk' = disk
        /\ now' = now + 1
    BY <1>8 DEF Tick
  <2>2. Truth(n)
    BY <2>1 DEF OwnerToldTruth, Truth
  <2>3. told[n] # NONE => told[n] \in Grant
    BY DEF TypeOK
  <2>4. told[n] # NONE /\ ~Unexpired(told[n], now) => ~Unexpired(told[n], now')
    BY <2>1, <2>3 DEF TypeOK, Unexpired, Grant
  <2> QED
    BY <2>1, <2>2, <2>4 DEF Truth
<1>9. CASE UNCHANGED vars
  BY <1>1, <1>9 DEF vars
<1> QED
  BY <1>2, <1>3, <1>4, <1>4a, <1>5, <1>6, <1>7, <1>8, <1>9 DEF Next

\* For any number of requesters, restarts and failed saves: an acknowledged
\* revocation, approval or edit is what memory and the file hold until the
\* next change of that grant or its deadline.
THEOREM OwnerTold == Spec => []OwnerToldTruth
<1>1. Init => OwnerToldTruth
  BY DEF Init, OwnerToldTruth
<1> QED
  BY <1>1, TruthStep, GrantorTypeCorrect, PTL DEF Spec

----------------------------------------------------------------------------
(* Who gets in *)

\* require_auth accepts a request signed with the node's own key exactly when
\* its grant is live.
LEMMA AuthIsLive ==
  ASSUME NEW n \in Node
  PROVE  (AuthOutcome(n, n) = "ok") <=> Live(n)
BY DEF AuthOutcome, Live

\* The step of AccessOnlyByOwner.
LEMMA AccessStep ==
  ASSUME TypeOK, OwnerToldTruth, [Next]_vars, NEW n \in Node, ~Live(n), Live(n)'
  PROVE  (deciding[n] # NONE /\ ~deciding[n].deny) \/ n \in unsettled
<1>1. grants'[n] # NONE /\ Unexpired(grants'[n], now')
  BY DEF Live
<1>2. ASSUME grants'[n] = grants[n], now' = now PROVE FALSE
  BY <1>1, <1>2 DEF Live
<1>3. ASSUME NEW m \in Node, Request(m) PROVE FALSE
  BY <1>2, <1>3 DEF Request, ReqCheckGrant, ReqAdmit
<1>4. ASSUME NEW m \in Node, Decide(m) PROVE deciding[n] # NONE /\ ~deciding[n].deny
  <2>1. ASSUME NEW ok \in BOOLEAN, DecideApprove(m, ok)
        PROVE  deciding[n] # NONE /\ ~deciding[n].deny
    <3>1. CASE m = n
      BY <2>1, <3>1 DEF DecideApprove
    <3>2. CASE m # n
      BY <1>2, <2>1, <3>2 DEF DecideApprove, SaveOf, TypeOK
    <3> QED
      BY <3>1, <3>2
  <2> QED
    BY <1>2, <1>4, <2>1 DEF Decide, DecideTake, DecideDeny, DecideRefused
<1>5. ASSUME NEW m \in Node, Edit(m) PROVE FALSE
  <2>1. ASSUME NEW ok \in BOOLEAN, RevokeGrant(m, ok) PROVE FALSE
    BY <1>1, <1>2, <2>1 DEF RevokeGrant, SaveOf, TypeOK
  <2>2. ASSUME NEW ok \in BOOLEAN, NEW paths \in Scopes,
               NEW given \in [Perm -> BOOLEAN \cup {NONE}],
               UpdateGrant(m, paths, given, ok)
        PROVE  FALSE
    <3>1. CASE m = n
      <4>1. /\ grants[n] # NONE
            /\ grants'[n] = Edited(grants[n], paths, given)
            /\ now' = now
        BY <2>2, <3>1 DEF UpdateGrant, SaveOf, TypeOK
      <4>2. grants[n] \in Grant
        BY <4>1 DEF TypeOK
      <4>3. grants'[n].expires = grants[n].expires
        BY <4>1, <4>2 DEF Edited, Grant
      <4> QED
        BY <1>1, <4>1, <4>3 DEF Live, Unexpired
    <3>2. CASE m # n
      BY <1>2, <2>2, <3>2 DEF UpdateGrant, SaveOf, TypeOK
    <3> QED
      BY <3>1, <3>2
  <2> QED
    BY <1>5, <2>1, <2>2 DEF Edit
<1>5a. ASSUME NEW paths \in [Node -> Scopes], NEW ok \in BOOLEAN, ShareItem(paths, ok)
       PROVE  FALSE
  <2>1. grants'[n] = Rescoped(paths)[n] /\ now' = now
    BY <1>5a DEF ShareItem, SaveOf
  <2>2. grants[n] # NONE /\ grants[n] \in Grant
    BY <1>1, <2>1 DEF Rescoped, TypeOK
  <2>3. grants'[n].expires = grants[n].expires
    BY <2>1, <2>2 DEF Rescoped, Grant
  <2> QED
    BY <1>1, <2>1, <2>2, <2>3 DEF Live, Unexpired
<1>6. ASSUME NEW ok \in BOOLEAN, Sweep(ok) PROVE FALSE
  BY <1>1, <1>6 DEF Sweep, SaveOf, PruneExpired
<1>7. ASSUME NEW st \in OwnStatus, OwnOutcome(st) PROVE FALSE
  BY <1>2, <1>7 DEF OwnOutcome
<1>8. ASSUME Restart, n \notin unsettled PROVE FALSE
  <2>1. grants'[n] = disk[n] /\ now' = now
    BY <1>8 DEF Restart
  <2>2. Truth(n)
    BY <1>8 DEF OwnerToldTruth, Truth
  <2> QED
    BY <1>1, <2>1, <2>2 DEF Truth, Live
<1>9. ASSUME Tick PROVE FALSE
  <2>1. grants'[n] = grants[n] /\ now' = now + 1
    BY <1>9 DEF Tick
  <2>2. grants[n] \in Grant
    BY <1>1, <2>1 DEF TypeOK
  <2> QED
    BY <1>1, <2>1, <2>2 DEF Live, Unexpired, TypeOK, Grant
<1>10. ASSUME UNCHANGED vars PROVE FALSE
  BY <1>2, <1>10 DEF vars
<1> QED
  BY <1>3, <1>4, <1>5, <1>5a, <1>6, <1>7, <1>8, <1>9, <1>10 DEF Next

\* Nobody comes in by any other door: access appears only through the owner's
\* approval of that requester's own request, or through a restart that brings
\* back a grant whose removal the owner was told had failed.
THEOREM AccessIsTheOwners == Spec => AccessOnlyByOwner
<1>1. TypeOK /\ OwnerToldTruth /\ [Next]_vars
        => [\A n \in Node :
              AuthOutcome(n, n) # "ok" /\ AuthOutcome(n, n)' = "ok"
                => \/ deciding[n] # NONE /\ ~deciding[n].deny
                   \/ n \in unsettled]_vars
  <2> SUFFICES ASSUME TypeOK, OwnerToldTruth, [Next]_vars, NEW n \in Node,
                      AuthOutcome(n, n) # "ok", AuthOutcome(n, n)' = "ok"
               PROVE  (deciding[n] # NONE /\ ~deciding[n].deny) \/ n \in unsettled
    OBVIOUS
  <2>1. ~Live(n)
    BY AuthIsLive
  <2>2. Live(n)'
    BY DEF AuthOutcome, Live
  <2> QED
    BY <2>1, <2>2, AccessStep
<1> QED
  BY <1>1, GrantorTypeCorrect, OwnerTold, PTL DEF Spec, AccessOnlyByOwner

----------------------------------------------------------------------------
(* The bounded maps *)

\* The key sets of both maps are finite, so their sizes are numbers.
LEMMA FiniteIds ==
  ASSUME NEW p, NEW d
  PROVE  /\ IsFiniteSet(PendingIds(p)) /\ Cardinality(PendingIds(p)) \in Nat
         /\ IsFiniteSet(DecidedIds(d)) /\ Cardinality(DecidedIds(d)) \in Nat
<1>1. IsFiniteSet(Key)
  BY FS_AddElement DEF Key
<1>2. PendingIds(p) \in SUBSET Node /\ DecidedIds(d) \in SUBSET Key
  BY DEF PendingIds, DecidedIds
<1>3. IsFiniteSet(PendingIds(p)) /\ IsFiniteSet(DecidedIds(d))
  BY <1>1, <1>2, FS_Subset
<1> QED
  BY <1>3, FS_CardinalityType

\* admit_pending respects the cap: pruning only removes, a refresh keeps the
\* size, and a new entry needs a free place.
LEMMA AdmitBound ==
  ASSUME TypeOK, QueueBounds, NEW n \in Node, ReqAdmit(n)
  PROVE  Cardinality(PendingIds(pending')) <= MaxPending
<1> DEFINE kept == PrunePending
           K == PendingIds(kept)
<1>1. K \in SUBSET PendingIds(pending)
  BY DEF PendingIds, PrunePending
<1>2. Cardinality(K) <= MaxPending /\ Cardinality(K) \in Nat /\ IsFiniteSet(K)
  BY <1>1, FS_Subset, FiniteIds DEF QueueBounds
<1>3. CASE kept[n] = NONE /\ Cardinality(K) >= MaxPending
  BY <1>2, <1>3 DEF ReqAdmit
<1>4. CASE ~(kept[n] = NONE /\ Cardinality(K) >= MaxPending)
  <2>1. pending' = [kept EXCEPT ![n] = now]
    BY <1>4 DEF ReqAdmit
  <2>2. PendingIds(pending') = K \cup {n}
    BY <2>1, PruneType DEF PendingIds, TypeOK
  <2>3. Cardinality(K \cup {n}) = IF n \in K THEN Cardinality(K) ELSE Cardinality(K) + 1
    BY <1>2, FS_AddElement
  <2>4. n \in K \/ Cardinality(K) < MaxPending
    BY <1>2, <1>4 DEF PendingIds
  <2> QED
    BY <1>2, <2>2, <2>3, <2>4
<1> QED
  BY <1>3, <1>4

\* remember_decision respects its cap: an overwrite keeps the size, a new entry
\* either finds room or comes after an eviction.
LEMMA RememberBound ==
  ASSUME TypeOK, QueueBounds, NEW k \in Key, NEW st \in Status, RememberDecision(k, st)
  PROVE  Cardinality(DecidedIds(decisions')) <= MaxDecisions
<1> DEFINE D == DecidedIds(decisions)
           entry == [status |-> st, at |-> now]
<1>1. Cardinality(D) <= MaxDecisions /\ Cardinality(D) \in Nat /\ IsFiniteSet(D)
  BY FiniteIds DEF QueueBounds
<1>2. entry # NONE
  BY DEF TypeOK, Decision
<1>3. CASE decisions[k] = NONE /\ Cardinality(D) >= MaxDecisions
  <2>1. PICK o \in Oldest : decisions' = [decisions EXCEPT ![o] = NONE, ![k] = entry]
    BY <1>3 DEF RememberDecision
  <2>2. o \in D
    BY DEF Oldest
  <2>3. k \notin D /\ o \in Key /\ o # k
    BY <1>3, <2>2 DEF DecidedIds
  <2>4. DecidedIds(decisions') = (D \ {o}) \cup {k}
    BY <1>2, <2>1, <2>3 DEF DecidedIds, TypeOK
  <2>5. Cardinality(D \ {o}) = Cardinality(D) - 1 /\ IsFiniteSet(D \ {o})
    BY <1>1, <2>2, FS_RemoveElement
  <2>6. Cardinality((D \ {o}) \cup {k}) = Cardinality(D \ {o}) + 1
    BY <2>3, <2>5, FS_AddElement
  <2> QED
    BY <1>1, <2>4, <2>5, <2>6
<1>4. CASE ~(decisions[k] = NONE /\ Cardinality(D) >= MaxDecisions)
  <2>1. decisions' = [decisions EXCEPT ![k] = entry]
    BY <1>4 DEF RememberDecision
  <2>2. DecidedIds(decisions') = D \cup {k}
    BY <1>2, <2>1 DEF DecidedIds, TypeOK
  <2>3. Cardinality(D \cup {k}) = IF k \in D THEN Cardinality(D) ELSE Cardinality(D) + 1
    BY <1>1, FS_AddElement
  <2>4. k \in D \/ Cardinality(D) < MaxDecisions
    BY <1>1, <1>4 DEF DecidedIds
  <2> QED
    BY <1>1, <2>2, <2>3, <2>4
<1> QED
  BY <1>3, <1>4

\* Every step keeps both maps within their caps.
LEMMA BoundsStep == TypeOK /\ QueueBounds /\ [Next]_vars => QueueBounds'
<1> SUFFICES ASSUME TypeOK, QueueBounds, [Next]_vars PROVE QueueBounds'
  OBVIOUS
<1>1. ASSUME UNCHANGED <<pending, decisions>> PROVE QueueBounds'
  BY <1>1 DEF QueueBounds
<1>2. ASSUME NEW n \in Node, Request(n) PROVE QueueBounds'
  <2>1. CASE ReqCheckGrant(n)
    BY <1>1, <2>1 DEF ReqCheckGrant
  <2>2. CASE ReqAdmit(n)
    <3>1. decisions' = decisions
      BY <2>2 DEF ReqAdmit
    <3> QED
      BY <2>2, <3>1, AdmitBound DEF QueueBounds
  <2> QED
    BY <1>2, <2>1, <2>2 DEF Request
<1>3. ASSUME NEW n \in Node, pending' = [pending EXCEPT ![n] = NONE], decisions' = decisions
      PROVE  QueueBounds'
  <2>1. PendingIds(pending') \in SUBSET PendingIds(pending)
    BY <1>3 DEF PendingIds, TypeOK
  <2>2. Cardinality(PendingIds(pending')) <= Cardinality(PendingIds(pending))
    BY <2>1, FiniteIds, FS_Subset
  <2> QED
    BY <1>3, <2>2, FiniteIds DEF QueueBounds
<1>4. ASSUME NEW n \in Node, Decide(n) PROVE QueueBounds'
  <2>1. CASE DecideDeny(n)
    <3>1. pending' = pending /\ n \in Key /\ "denied" \in Status
      BY <2>1 DEF DecideDeny, Key, Status
    <3>2. Cardinality(DecidedIds(decisions')) <= MaxDecisions
      BY <2>1, <3>1, RememberBound DEF DecideDeny
    <3> QED
      BY <3>1, <3>2 DEF QueueBounds
  <2> QED
    BY <1>1, <1>3, <1>4, <2>1 DEF Decide, DecideTake, DecideRefused, DecideApprove
<1>5. ASSUME NEW n \in Node, Edit(n) PROVE QueueBounds'
  BY <1>1, <1>5 DEF Edit, RevokeGrant, UpdateGrant
<1>5a. ASSUME NEW paths \in [Node -> Scopes], NEW ok \in BOOLEAN, ShareItem(paths, ok)
       PROVE  QueueBounds'
  BY <1>1, <1>5a DEF ShareItem
<1>6. ASSUME NEW ok \in BOOLEAN, Sweep(ok) PROVE QueueBounds'
  BY <1>1, <1>6 DEF Sweep
<1>7. ASSUME NEW st \in OwnStatus, OwnOutcome(st) PROVE QueueBounds'
  <2>1. Cardinality(DecidedIds(decisions')) <= MaxDecisions /\ pending' = pending
    BY <1>7, RememberBound DEF OwnOutcome, Key
  <2> QED
    BY <2>1 DEF QueueBounds
<1>8. CASE Restart
  <2>1. PendingIds(pending') = {} /\ DecidedIds(decisions') = {}
    BY <1>8 DEF Restart, PendingIds, DecidedIds
  <2> QED
    BY <2>1, FS_EmptySet DEF QueueBounds
<1>9. CASE Tick
  BY <1>1, <1>9 DEF Tick
<1>10. CASE UNCHANGED vars
  BY <1>1, <1>10 DEF vars
<1> QED
  BY <1>2, <1>4, <1>5, <1>5a, <1>6, <1>7, <1>8, <1>9, <1>10 DEF Next

\* The pending queue and the decisions map stay within MAX_PENDING and
\* MAX_DECISIONS, for every number of requesters and every interleaving.
THEOREM QueuesBounded == Spec => []QueueBounds
<1>1. Init => QueueBounds
  <2> SUFFICES ASSUME Init PROVE QueueBounds
    OBVIOUS
  <2>1. PendingIds(pending) = {} /\ DecidedIds(decisions) = {}
    BY DEF Init, PendingIds, DecidedIds
  <2> QED
    BY <2>1, FS_EmptySet DEF QueueBounds
<1> QED
  BY <1>1, BoundsStep, GrantorTypeCorrect, PTL DEF Spec

----------------------------------------------------------------------------
(* The status answer *)

\* The strengthening ApprovedAnswerIsUsable needs: for another PC the decisions
\* map only ever holds denials.  Approvals in it are this PC's own outcomes.
OnlyDenials == \A n \in Node : decisions[n] # NONE => decisions[n].status = "denied"

\* Remembering a denial, or an outcome under this PC's own id, and evicting
\* whatever entry is oldest, leave only denials for the others.
LEMMA RememberKeepsDenials ==
  ASSUME TypeOK, OnlyDenials, NEW k \in Key, NEW st \in Status, RememberDecision(k, st),
         k \in Node => st = "denied"
  PROVE  OnlyDenials'
<1> SUFFICES ASSUME NEW n \in Node, decisions'[n] # NONE
             PROVE  decisions'[n].status = "denied"
  BY DEF OnlyDenials
<1> DEFINE entry == [status |-> st, at |-> now]
<1>1. Oldest \subseteq Key /\ n \in Key
  BY DEF Oldest, DecidedIds, Key
<1>2. decisions'[n] \in {decisions[n], NONE, entry} /\ (n # k => decisions'[n] # entry \/ decisions'[n] = decisions[n])
  BY <1>1 DEF RememberDecision, TypeOK
<1> QED
  BY <1>1, <1>2 DEF OnlyDenials, RememberDecision, TypeOK

\* No step files anything but a denial under another PC's id.
LEMMA DenialsStep == TypeOK /\ OnlyDenials /\ [Next]_vars => OnlyDenials'
<1> SUFFICES ASSUME TypeOK, OnlyDenials, [Next]_vars PROVE OnlyDenials'
  OBVIOUS
<1>1. ASSUME UNCHANGED decisions PROVE OnlyDenials'
  BY <1>1 DEF OnlyDenials
<1>2. ASSUME NEW n \in Node, Decide(n) PROVE OnlyDenials'
  <2>1. CASE DecideDeny(n)
    BY <2>1, RememberKeepsDenials DEF DecideDeny, Key, Status
  <2> QED
    BY <1>1, <1>2, <2>1 DEF Decide, DecideTake, DecideRefused, DecideApprove
<1>3. ASSUME NEW st \in OwnStatus, OwnOutcome(st) PROVE OnlyDenials'
  BY <1>3, RememberKeepsDenials DEF OwnOutcome, Key
<1>4. CASE Restart
  BY <1>4 DEF Restart, OnlyDenials, Key
<1> QED
  BY <1>1, <1>2, <1>3, <1>4
  DEF Next, vars, Request, ReqCheckGrant, ReqAdmit, Edit, RevokeGrant, UpdateGrant,
      ShareItem, Sweep, Tick

\* A requester the status endpoint calls approved is one the data plane lets in.
THEOREM ApprovedIsUsable == Spec => []ApprovedAnswerIsUsable
<1>1. Init => OnlyDenials
  BY DEF Init, OnlyDenials, Key
<1>2. OnlyDenials => ApprovedAnswerIsUsable
  BY AuthIsLive DEF OnlyDenials, ApprovedAnswerIsUsable, StatusAnswer
<1> QED
  BY <1>1, <1>2, DenialsStep, GrantorTypeCorrect, PTL DEF Spec

----------------------------------------------------------------------------
(***************************************************************************)
(* Grantor implements Access: the initial states map to an initial state,  *)
(* and every critical section of the grantor maps to a step of Access or   *)
(* changes nothing Access sees.  The step of a restart needs what the      *)
(* owner was told (OwnerToldTruth): without it a stale file could bring    *)
(* back a revoked grant.                                                   *)
(***************************************************************************)

(* What the steps leave alone *)

LEMMA SameLive ==
  ASSUME grants' = grants, now' = now PROVE LiveIds' = LiveIds
BY DEF LiveIds, Live

LEMMA SameAsked ==
  ASSUME pending' = pending, deciding' = deciding PROVE AskedCounts' = AskedCounts
BY DEF AskedCounts, Asked

LEMMA SameAskers ==
  ASSUME handler' = handler PROVE Askers' = Askers
BY DEF Askers

\* Editing scopes or permissions of grants keeps their deadlines, so the same
\* requesters have access.
LEMMA EditKeepsLive ==
  ASSUME now' = now,
         \A n \in Node :
           /\ grants'[n] = NONE <=> grants[n] = NONE
           /\ grants[n] # NONE => grants'[n].expires = grants[n].expires
  PROVE  LiveIds' = LiveIds
BY DEF LiveIds, Live, Unexpired

----------------------------------------------------------------------------
(* Requests *)

\* admit_pending: one request arrives, those past their time lapse.
LEMMA AdmitIsArrive ==
  ASSUME TypeOK, NEW n \in Node, ReqAdmit(n)
  PROVE  Consent!AccessNext
<1> DEFINE kept == PrunePending
           late == {m \in Node : pending[m] # NONE /\ kept[m] = NONE}
           admitted == ~(kept[n] = NONE /\ Cardinality(PendingIds(kept)) >= MaxPending)
           gone == IF admitted /\ kept[n] # NONE THEN late \cup {n} ELSE late
<1>1. /\ n \in Askers /\ Askers' = Askers \ {n}
      /\ LiveIds' = LiveIds /\ unsettled' = unsettled /\ deciding' = deciding
  BY SameLive DEF ReqAdmit, Askers, TypeOK
<1>2. pending' = IF admitted THEN [kept EXCEPT ![n] = now] ELSE kept
  BY DEF ReqAdmit
<1>3. \A m \in Node : kept[m] = pending[m] \/ kept[m] = NONE
  BY DEF PrunePending
<1>4. kept \in [Node -> Nat \cup {NONE}] /\ now \in Nat /\ now # NONE
  BY PruneType DEF TypeOK
<1>5. late \in SUBSET Consent!Waiting
  BY DEF Consent!Waiting, AskedCounts, Asked
<1>6. gone \in SUBSET Consent!Waiting
  BY <1>3, <1>5 DEF Consent!Waiting, AskedCounts, Asked
<1> HIDE DEF kept, admitted
<1>7. admitted \in BOOLEAN
  BY DEF admitted
<1>8. AskedCounts' = [Consent!Less(gone) EXCEPT ![n] = IF admitted THEN @ + 1 ELSE @]
  <2>1. \A m \in Node : pending'[m] = IF admitted /\ m = n THEN now ELSE kept[m]
    BY <1>2, <1>4
  <2>2. \A m \in Node :
          Asked(m)' = IF m = n /\ admitted THEN Consent!Less(gone)[m] + 1
                      ELSE Consent!Less(gone)[m]
    BY <1>1, <1>3, <1>4, <2>1 DEF Consent!Less, AskedCounts, Asked
  <2> QED
    BY <2>2 DEF AskedCounts, Consent!Less
<1>9. Consent!Arrive(n)
  BY <1>1, <1>6, <1>7, <1>8 DEF Consent!Arrive
<1> QED
  BY <1>1, <1>9 DEF Consent!AccessNext

----------------------------------------------------------------------------
(* Decisions *)

\* A request leaves the queue or the decision in progress: one request less.
LEMMA OneLess ==
  ASSUME TypeOK, NEW n \in Node,
         \/ /\ pending[n] # NONE /\ pending' = [pending EXCEPT ![n] = NONE]
            /\ deciding' = deciding
         \/ /\ deciding[n] # NONE /\ deciding' = [deciding EXCEPT ![n] = NONE]
            /\ pending' = pending
  PROVE  n \in Consent!Waiting /\ AskedCounts' = Consent!Less({n})
<1>1. n \in Consent!Waiting
  BY DEF Consent!Waiting, AskedCounts, Asked
<1>2. \A m \in Node : Asked(m)' = Consent!Less({n})[m]
  BY DEF Consent!Less, AskedCounts, Asked, TypeOK
<1> QED
  BY <1>1, <1>2 DEF AskedCounts, Consent!Less

\* Taking the entry out of the queue moves the request from one place to the other.
LEMMA TakeIsSilent ==
  ASSUME TypeOK, NEW n \in Node, NEW v \in Verdict, DecideTake(n, v)
  PROVE  UNCHANGED Consent!accessVars
<1>1. v # NONE
  OBVIOUS
<1>2. \A m \in Node : Asked(m)' = Asked(m)
  BY <1>1 DEF DecideTake, Asked, TypeOK
<1> QED
  BY <1>2, SameLive, SameAskers DEF DecideTake, AskedCounts, Consent!accessVars

\* An approval lets in the requester that asked, and nobody else.
LEMMA ApproveIsApprove ==
  ASSUME TypeOK, NEW n \in Node, NEW ok \in BOOLEAN, DecideApprove(n, ok)
  PROVE  Consent!AccessNext
<1> DEFINE g == ApprovedGrant(deciding[n])
<1>1. deciding[n] \in Verdict /\ ~deciding[n].deny
  BY DEF DecideApprove, TypeOK
<1>2. g \in Grant /\ g # NONE /\ now \in Nat
  BY <1>1, ApprovedGrantType DEF TypeOK
<1>3. Unexpired(g, now)
  <2>1. deciding[n].duration \in Nat
    BY <1>1 DEF Verdict
  <2> QED
    BY <1>2, <2>1 DEF ApprovedGrant, Unexpired
<1>4. grants' = [grants EXCEPT ![n] = g] /\ now' = now
  BY DEF DecideApprove, SaveOf
<1> HIDE DEF g
<1>5. LiveIds' = LiveIds \cup {n}
  <2>1. grants'[n] = g /\ \A m \in Node \ {n} : grants'[m] = grants[m]
    BY <1>4 DEF TypeOK
  <2>2. Live(n)' /\ \A m \in Node \ {n} : Live(m)' <=> Live(m)
    BY <1>2, <1>3, <1>4, <2>1 DEF Live
  <2> QED
    BY <2>2 DEF LiveIds
<1>6. n \in Consent!Waiting /\ AskedCounts' = Consent!Less({n})
  BY OneLess DEF DecideApprove
<1>7. Consent!Approve(n, ok)
  BY <1>5, <1>6, SameAskers DEF DecideApprove, Tell, Consent!Approve
<1> QED
  BY <1>6, <1>7 DEF Consent!AccessNext

----------------------------------------------------------------------------
(* Changes of the grants store *)

\* A revocation takes access from that requester alone; of a grant that had
\* expired already it only settles the doubt.
LEMMA RevokeIsRevoke ==
  ASSUME TypeOK, NEW n \in Node, NEW ok \in BOOLEAN, RevokeGrant(n, ok)
  PROVE  Consent!AccessNext
<1>1. grants' = [grants EXCEPT ![n] = NONE] /\ now' = now
  BY DEF RevokeGrant, SaveOf
<1>2. LiveIds' = LiveIds \ {n}
  <2>1. grants'[n] = NONE /\ \A m \in Node \ {n} : grants'[m] = grants[m]
    BY <1>1 DEF TypeOK
  <2> QED
    BY <1>1, <2>1 DEF LiveIds, Live
<1>3. /\ UNCHANGED <<Askers, AskedCounts>>
      /\ unsettled' = IF ok THEN unsettled \ {n} ELSE unsettled \cup {n}
  BY SameAskers, SameAsked DEF RevokeGrant, Tell
<1>4. CASE n \in LiveIds
  <2>1. Consent!Revoke(n, ok)
    BY <1>2, <1>3 DEF Consent!Revoke
  <2> QED
    BY <1>4, <2>1 DEF Consent!AccessNext
<1>5. CASE n \notin LiveIds
  <2>1. Consent!Adjust({n}, ok)
    BY <1>2, <1>3, <1>5 DEF Consent!Adjust
  <2> QED
    BY <2>1 DEF Consent!AccessNext
<1> QED
  BY <1>4, <1>5

\* update_grant, also when it is refused halfway.
LEMMA UpdateIsAdjust ==
  ASSUME TypeOK, NEW n \in Node, NEW paths \in Scopes,
         NEW given \in [Perm -> BOOLEAN \cup {NONE}], NEW ok \in BOOLEAN,
         UpdateGrant(n, paths, given, ok)
  PROVE  Consent!AccessNext
<1> DEFINE g == Edited(grants[n], paths, given)
           acked == g.perms # {} /\ ok
<1>1. /\ grants[n] \in Grant /\ g \in Grant /\ g # NONE
      /\ g.expires = grants[n].expires
  <2>1. grants[n] # NONE /\ grants[n] \in Grant
    BY DEF UpdateGrant, TypeOK
  <2>2. g \in Grant
    BY <2>1, EditedType
  <2>3. g.expires = grants[n].expires
    BY <2>1 DEF Edited, Grant
  <2>4. g # NONE
    BY <2>2
  <2> QED
    BY <2>1, <2>2, <2>3, <2>4
<1>2. grants' = [grants EXCEPT ![n] = g] /\ now' = now
  BY DEF UpdateGrant, SaveOf
<1>3. /\ UNCHANGED <<Askers, AskedCounts>>
      /\ unsettled' = IF acked THEN unsettled \ {n} ELSE unsettled \cup {n}
  BY SameAskers, SameAsked DEF UpdateGrant, Tell
<1>4. acked \in BOOLEAN
  OBVIOUS
<1> HIDE DEF g, acked
<1>5. LiveIds' = LiveIds
  <2>1. grants'[n] = g /\ \A m \in Node \ {n} : grants'[m] = grants[m]
    BY <1>2 DEF TypeOK
  <2> QED
    BY <1>1, <1>2, <2>1, EditKeepsLive
<1>6. Consent!Adjust({n}, acked)
  BY <1>3, <1>5 DEF Consent!Adjust
<1> QED
  BY <1>4, <1>6 DEF Consent!AccessNext

\* The last phase of share_item.
LEMMA ShareIsAdjust ==
  ASSUME TypeOK, NEW paths \in [Node -> Scopes], NEW ok \in BOOLEAN, ShareItem(paths, ok)
  PROVE  Consent!AccessNext
<1> DEFINE who == IF ok THEN Node ELSE {n \in Node : grants[n] # NONE}
<1>1. LiveIds' = LiveIds
  <2>1. grants' = Rescoped(paths) /\ now' = now
    BY DEF ShareItem, SaveOf
  <2>2. ASSUME NEW n \in Node
        PROVE  /\ grants'[n] = NONE <=> grants[n] = NONE
               /\ grants[n] # NONE => grants'[n].expires = grants[n].expires
    <3>1. grants'[n] = IF grants[n] = NONE THEN NONE
                       ELSE [grants[n] EXCEPT !.paths = paths[n]]
      BY <2>1 DEF Rescoped
    <3>2. grants[n] # NONE => grants[n] \in Grant /\ grants'[n] \in Grant
      BY <2>1, RescopedType, <3>1 DEF TypeOK, Grant
    <3> QED
      BY <3>1, <3>2 DEF Grant
  <2> QED
    BY <2>1, <2>2, EditKeepsLive
<1>2. UNCHANGED <<Askers, AskedCounts>>
  BY SameAskers, SameAsked DEF ShareItem
<1>3. unsettled' = IF ok THEN unsettled \ who ELSE unsettled \cup who
  BY DEF ShareItem, TypeOK
<1>4. who \in SUBSET Node
  OBVIOUS
<1> HIDE DEF who
<1>5. Consent!Adjust(who, ok)
  BY <1>1, <1>2, <1>3 DEF Consent!Adjust
<1> QED
  BY <1>4, <1>5 DEF Consent!AccessNext

\* The sweeper removes what nobody could use any more.
LEMMA SweepIsSilent ==
  ASSUME NEW ok \in BOOLEAN, Sweep(ok)
  PROVE  UNCHANGED Consent!accessVars
<1>1. grants' = PruneExpired /\ now' = now
  BY DEF Sweep, SaveOf
<1>2. \A n \in Node : Live(n)' <=> Live(n)
  BY <1>1 DEF PruneExpired, Live
<1> QED
  BY <1>2, SameAskers, SameAsked DEF Sweep, LiveIds, Consent!accessVars

\* After a restart memory is the file, and for everyone not in doubt the file
\* says what memory said.
LEMMA RestartIsReboot ==
  ASSUME TypeOK, OwnerToldTruth, Restart
  PROVE  Consent!AccessNext
<1> DEFINE who == LiveIds' \cap unsettled
<1>1. grants' = disk /\ now' = now /\ unsettled' = unsettled
  BY DEF Restart
<1>2. \A n \in Node \ unsettled : Live(n)' <=> Live(n)
  <2> SUFFICES ASSUME NEW n \in Node \ unsettled PROVE Live(n)' <=> Live(n)
    OBVIOUS
  <2>1. Truth(n)
    BY DEF OwnerToldTruth, Truth
  <2> QED
    BY <1>1, <2>1 DEF Truth, Live
<1>3. LiveIds' = (LiveIds \ unsettled) \cup who
  BY <1>2 DEF LiveIds
<1>4. Askers' = {} /\ AskedCounts' = [n \in Node |-> 0]
  BY DEF Restart, Askers, AskedCounts, Asked
<1>5. Consent!Reboot(who)
  BY <1>1, <1>3, <1>4 DEF Consent!Reboot
<1> QED
  BY <1>5 DEF Consent!AccessNext

\* Time only takes access away.
LEMMA TickIsExpire ==
  ASSUME TypeOK, Tick
  PROVE  Consent!AccessNext
<1> DEFINE who == LiveIds \ LiveIds'
<1>1. grants' = grants /\ now' = now + 1
  BY DEF Tick
<1>2. \A n \in Node : Live(n)' => Live(n)
  <2> SUFFICES ASSUME NEW n \in Node, Live(n)' PROVE Live(n)
    OBVIOUS
  <2>1. grants[n] \in Grant
    BY <1>1 DEF Live, TypeOK
  <2> QED
    BY <1>1, <2>1 DEF Live, Unexpired, TypeOK, Grant
<1>3. LiveIds' = LiveIds \ who
  BY <1>2 DEF LiveIds
<1>4. Consent!Expire(who)
  BY <1>3, SameAskers, SameAsked DEF Tick, Consent!Expire
<1> QED
  BY <1>4 DEF Consent!AccessNext

----------------------------------------------------------------------------
(* The refinement *)

\* Every step of the grantor is a step of Access or invisible to it.
LEMMA StepRefines ==
  ASSUME TypeOK, OwnerToldTruth, [Next]_vars
  PROVE  [Consent!AccessNext]_(Consent!accessVars)
<1>1. ASSUME NEW n \in Node, Request(n) PROVE Consent!AccessNext
  <2>1. CASE ReqCheckGrant(n)
    <3>1. n \notin Askers /\ Askers' = Askers \cup {n}
      BY <2>1 DEF ReqCheckGrant, Askers, TypeOK
    <3>2. Consent!Ask(n)
      BY <2>1, <3>1, SameLive, SameAsked DEF ReqCheckGrant, Consent!Ask
    <3> QED
      BY <3>2 DEF Consent!AccessNext
  <2>2. CASE ReqAdmit(n)
    BY <2>2, AdmitIsArrive
  <2> QED
    BY <1>1, <2>1, <2>2 DEF Request
<1>2. ASSUME NEW n \in Node, Decide(n)
      PROVE  Consent!AccessNext \/ UNCHANGED Consent!accessVars
  <2>1. ASSUME NEW v \in Verdict, DecideTake(n, v) PROVE UNCHANGED Consent!accessVars
    BY <2>1, TakeIsSilent
  <2>2. CASE DecideDeny(n) \/ DecideRefused(n)
    <3>1. n \in Consent!Waiting /\ AskedCounts' = Consent!Less({n})
      BY <2>2, OneLess DEF DecideDeny, DecideRefused
    <3>2. Consent!Refuse(n)
      BY <2>2, <3>1, SameLive, SameAskers DEF DecideDeny, DecideRefused, Consent!Refuse
    <3> QED
      BY <3>1, <3>2 DEF Consent!AccessNext
  <2>3. ASSUME NEW ok \in BOOLEAN, DecideApprove(n, ok) PROVE Consent!AccessNext
    BY <2>3, ApproveIsApprove
  <2> QED
    BY <1>2, <2>1, <2>2, <2>3 DEF Decide
<1>3. ASSUME NEW n \in Node, Edit(n) PROVE Consent!AccessNext
  BY <1>3, RevokeIsRevoke, UpdateIsAdjust DEF Edit
<1>4. ASSUME NEW st \in OwnStatus, OwnOutcome(st) PROVE UNCHANGED Consent!accessVars
  BY <1>4, SameLive, SameAsked, SameAskers DEF OwnOutcome, Consent!accessVars
<1>5. CASE UNCHANGED vars
  BY <1>5, SameLive, SameAsked, SameAskers DEF vars, Consent!accessVars
<1> QED
  BY <1>1, <1>2, <1>3, <1>4, <1>5, ShareIsAdjust, SweepIsSilent, RestartIsReboot,
     TickIsExpire DEF Next

\* The grantor, with its two queues, its file that may fail to be written and
\* its restarts, implements the promise of module Access, for every number of
\* requesters and every interleaving.
THEOREM GrantorImplementsAccess == Spec => ImplementsAccess
<1>1. Init => Consent!AccessInit
  BY DEF Init, Consent!AccessInit, Askers, AskedCounts, Asked, LiveIds, Live
<1> QED
  BY <1>1, StepRefines, GrantorTypeCorrect, OwnerTold, PTL
  DEF Spec, ImplementsAccess, Consent!AccessSpec

----------------------------------------------------------------------------
(* Two PCs *)

USE RowAssumption

\* Whatever happens on two PCs, the grantor takes a step of its own
\* specification or none.
LEMMA GrantorSteps == [SyncNext]_allVars => [Next]_vars
<1> SUFFICES ASSUME [SyncNext]_allVars PROVE [Next]_vars
  OBVIOUS
<1>1. ASSUME NEW n \in Node, AddSend(n) \/ RequestQueued(n) PROVE [Next]_vars
  BY <1>1 DEF AddSend, RequestQueued, Next, Request
<1>2. ASSUME NEW n \in Node, DecideAndPush(n) PROVE [Next]_vars
  BY <1>2 DEF DecideAndPush, Next, Decide
<1>3. CASE GrantorAlone
  BY <1>3 DEF GrantorAlone, Next, Decide
<1>4. CASE UNCHANGED allVars
  BY <1>4 DEF allVars
<1>5. ASSUME NEW n \in Node, NEW ok \in BOOLEAN,
             \/ AddFinish(n, ok)
             \/ \E outcome \in Outcome : PushArrives(n, outcome, ok)
             \/ PollApply(n, ok)
             \/ RemoveContact(n, ok)
      PROVE  UNCHANGED vars
  BY <1>5 DEF AddFinish, PushArrives, PollApply, RemoveContact
<1>6. ASSUME NEW n \in Node,
             \/ AddFails(n)
             \/ \E outcome \in Outcome : PushLost(n, outcome)
             \/ PollAsk(n) \/ PollAnswer(n) \/ PollLost(n)
             \/ RegistryChange(n) \/ RequesterRestart(n)
      PROVE  UNCHANGED vars
  BY <1>6
     DEF AddFails, PushLost, PollAsk, PollAnswer, PollLost, RegistryChange, RequesterRestart
<1> QED
  BY <1>1, <1>2, <1>3, <1>4, <1>5, <1>6 DEF SyncNext

\* With another PC at the other end the grantor is still the grantor of module
\* Grantor, so that everything proved there holds of the two PCs: access is the
\* owner's alone, what the owner was told is true, the queues keep their caps.
THEOREM SyncImplementsGrantor == SyncSpec => Spec
<1>1. SyncInit => Init
  BY DEF SyncInit
<1> QED
  BY <1>1, GrantorSteps, PTL DEF SyncSpec, Spec

----------------------------------------------------------------------------
(* Types *)

\* A requester's part of the types.
RowTypeOK ==
  /\ contact \in [Node -> Label \cup {NONE}]
  /\ contactDisk \in [Node -> Label \cup {NONE}]
  /\ add \in [Node -> {"idle", "waiting", "approved", "pending"}]
  /\ push \in SUBSET (Node \X Outcome)
  /\ poll \in [Node -> {"idle", "asked", "pending"} \cup Status]
  /\ listed \in [Node -> BOOLEAN]
  /\ verdicts \in SUBSET (Node \X Outcome)

\* A save of a well-formed row leaves well-formed rows.
LEMMA SaveContactType ==
  ASSUME RowTypeOK, NEW n \in Node, NEW row \in Label \cup {NONE}, NEW ok,
         SaveContact(n, row, ok)
  PROVE  /\ contact' \in [Node -> Label \cup {NONE}]
         /\ contactDisk' \in [Node -> Label \cup {NONE}]
BY DEF SaveContact, RowTypeOK

\* So does the conditional write of pair_decision and run_pair_verifier.
LEMMA RelabelType ==
  ASSUME RowTypeOK, NEW n \in Node, NEW row \in Label, NEW ok, Relabel(n, row, ok)
  PROVE  /\ contact' \in [Node -> Label \cup {NONE}]
         /\ contactDisk' \in [Node -> Label \cup {NONE}]
<1>1. CASE contact[n] = NONE \/ contact[n] = row
  BY <1>1 DEF Relabel, RowTypeOK
<1>2. CASE ~(contact[n] = NONE \/ contact[n] = row)
  BY <1>2, SaveContactType DEF Relabel
<1> QED
  BY <1>1, <1>2

\* pair_status answers one of four words.
LEMMA StatusAnswerType ==
  ASSUME TypeOK, NEW n \in Node
  PROVE  StatusAnswer(n) \in {"pending"} \cup Status
<1>1. decisions[n] # NONE => decisions[n].status \in Status
  BY DEF TypeOK, Key, Decision
<1> QED
  BY <1>1 DEF StatusAnswer, Status

\* Every step keeps the requesters' rows and calls in their types.
LEMMA RowTypeStep == TypeOK /\ RowTypeOK /\ [SyncNext]_allVars => RowTypeOK'
<1> SUFFICES ASSUME TypeOK, RowTypeOK, [SyncNext]_allVars PROVE RowTypeOK'
  OBVIOUS
<1>1. ASSUME NEW n \in Node, NEW ok \in BOOLEAN, AddFinish(n, ok) PROVE RowTypeOK'
  <2>1. add[n] \in Label
    BY <1>1 DEF AddFinish, Label
  <2> QED
    BY <1>1, <2>1, SaveContactType DEF AddFinish, RowTypeOK
<1>2. ASSUME NEW n \in Node, NEW ok \in BOOLEAN, NEW outcome \in Outcome,
             PushArrives(n, outcome, ok)
      PROVE  RowTypeOK'
  <2>1. outcome \in Label
    BY DEF Outcome, Label
  <2> QED
    BY <1>2, <2>1, RelabelType DEF PushArrives, RowTypeOK
<1>3. ASSUME NEW n \in Node, NEW ok \in BOOLEAN, PollApply(n, ok) PROVE RowTypeOK'
  <2>1. poll[n] \in Outcome => poll[n] \in Label
    BY DEF Outcome, Label
  <2>2. /\ contact' \in [Node -> Label \cup {NONE}]
        /\ contactDisk' \in [Node -> Label \cup {NONE}]
    BY <1>3, <2>1, RelabelType DEF PollApply, RowTypeOK
  <2> QED
    BY <1>3, <2>2 DEF PollApply, RowTypeOK
<1>4. ASSUME NEW n \in Node, NEW ok \in BOOLEAN, RemoveContact(n, ok) PROVE RowTypeOK'
  BY <1>4, SaveContactType DEF RemoveContact, RowTypeOK
<1>5. ASSUME NEW n \in Node, AddSend(n) \/ RequestQueued(n) \/ AddFails(n) PROVE RowTypeOK'
  BY <1>5 DEF AddSend, RequestQueued, AddFails, Reply, RowTypeOK
<1>6. ASSUME NEW n \in Node, DecideAndPush(n) PROVE RowTypeOK'
  <2>1. /\ push' \in {push} \cup {push \cup {<<n, o>>} : o \in Outcome}
        /\ verdicts' \in {verdicts \cup {<<n, o>>} : o \in Outcome}
        /\ UNCHANGED <<contact, contactDisk, add, poll, listed>>
    BY <1>6 DEF DecideAndPush, Announce, Outcome
  <2> QED
    BY <2>1 DEF RowTypeOK
<1>7. ASSUME NEW n \in Node, NEW outcome \in Outcome, PushLost(n, outcome) PROVE RowTypeOK'
  BY <1>7 DEF PushLost, RowTypeOK
<1>8. ASSUME NEW n \in Node, PollAsk(n) \/ PollLost(n) PROVE RowTypeOK'
  BY <1>8 DEF PollAsk, PollLost, RowTypeOK
<1>9. ASSUME NEW n \in Node, PollAnswer(n) PROVE RowTypeOK'
  BY <1>9, StatusAnswerType DEF PollAnswer, RowTypeOK
<1>10. ASSUME NEW n \in Node, RegistryChange(n) \/ RequesterRestart(n) PROVE RowTypeOK'
  <2>1. listed' \in [Node -> BOOLEAN]
    BY <1>10 DEF RegistryChange, RequesterRestart, RowTypeOK
  <2> QED
    BY <1>10, <2>1 DEF RegistryChange, RequesterRestart, RowTypeOK
<1>11. CASE GrantorAlone \/ UNCHANGED allVars
  BY <1>11 DEF GrantorAlone, allVars, syncVars, RowTypeOK
<1> QED
  BY <1>1, <1>2, <1>3, <1>4, <1>5, <1>6, <1>7, <1>8, <1>9, <1>10, <1>11 DEF SyncNext

\* Type correctness of the two-PC protocol: whatever is lost, late or restarted,
\* a row says one of its three words and a call is in one of its stages.
THEOREM SyncTypeCorrect == SyncSpec => []SyncTypeOK
<1>1. SyncTypeOK <=> TypeOK /\ RowTypeOK
  BY DEF SyncTypeOK, RowTypeOK
<1>2. SyncInit => TypeOK /\ RowTypeOK
  BY DEF SyncInit, Init, TypeOK, RowTypeOK
<1>3. TypeOK /\ RowTypeOK /\ [SyncNext]_allVars => TypeOK' /\ RowTypeOK'
  BY GrantorSteps, TypeStep, RowTypeStep
<1> QED
  BY <1>1, <1>2, <1>3, PTL DEF SyncSpec
----------------------------------------------------------------------------
(* Every outcome comes from the owner *)

\* What the grantor keeps goes back to verdicts of the owner: a grant, in memory
\* or in the file, to an approval, a remembered decision to a denial.
Backed ==
  \A n \in Node :
    /\ grants[n] # NONE \/ disk[n] # NONE => <<n, "approved">> \in verdicts
    /\ decisions[n] # NONE => <<n, "denied">> \in verdicts

\* So does what is on its way: the pushed decisions and the answered polls.
Carried ==
  /\ push \subseteq verdicts
  /\ \A n \in Node : poll[n] \in Outcome => <<n, poll[n]>> \in verdicts

\* The inductive invariant.  OutcomeWasDecided alone is not inductive: the rows
\* are written from messages, and the messages from the grantor's maps.
SyncInv == OnlyDenials /\ Backed /\ Carried /\ OutcomeWasDecided

\* No step takes a verdict back.
LEMMA VerdictsGrow == [SyncNext]_allVars => verdicts \subseteq verdicts'
<1> SUFFICES ASSUME [SyncNext]_allVars PROVE verdicts \subseteq verdicts'
  OBVIOUS
<1>1. ASSUME NEW n \in Node, DecideAndPush(n) PROVE verdicts \subseteq verdicts'
  BY <1>1 DEF DecideAndPush, Announce
<1>2. CASE GrantorAlone \/ UNCHANGED allVars
  BY <1>2 DEF GrantorAlone, allVars, syncVars
<1> QED
  BY <1>1, <1>2
  DEF SyncNext, AddFinish, PushArrives, PollApply, RemoveContact, AddSend, RequestQueued,
      AddFails, PushLost, PollAsk, PollAnswer, PollLost, RegistryChange, RequesterRestart

\* remember_decision files an entry under the one id it is given.
LEMMA RememberOnlyAdds ==
  ASSUME TypeOK, NEW k \in Key, NEW st \in Status, RememberDecision(k, st),
         NEW n \in Node, decisions'[n] # NONE
  PROVE  n = k \/ decisions[n] # NONE
<1>1. Oldest \subseteq Key /\ n \in Key
  BY DEF Oldest, DecidedIds, Key
<1> QED
  BY <1>1 DEF RememberDecision, TypeOK

\* The writers of the grants store other than an approval make no grant where
\* neither memory nor the file had one.
LEMMA NoNewGrant ==
  ASSUME TypeOK, GrantorAlone, NEW n \in Node, grants'[n] # NONE \/ disk'[n] # NONE
  PROVE  grants[n] # NONE \/ disk[n] # NONE
<1>1. ASSUME UNCHANGED <<grants, disk>> PROVE grants[n] # NONE \/ disk[n] # NONE
  BY <1>1
<1>2. ASSUME NEW m \in Node, NEW ok \in BOOLEAN, RevokeGrant(m, ok)
      PROVE  grants[n] # NONE \/ disk[n] # NONE
  BY <1>2 DEF RevokeGrant, SaveOf, TypeOK
<1>3. ASSUME NEW m \in Node, NEW ok \in BOOLEAN, NEW paths \in Scopes,
             NEW given \in [Perm -> BOOLEAN \cup {NONE}], UpdateGrant(m, paths, given, ok)
      PROVE  grants[n] # NONE \/ disk[n] # NONE
  <2>1. grants[m] # NONE
    BY <1>3 DEF UpdateGrant
  <2>2. n # m => grants'[n] = grants[n] /\ disk'[n] \in {disk[n], grants[n]}
    BY <1>3 DEF UpdateGrant, SaveOf, TypeOK
  <2> QED
    BY <2>1, <2>2
<1>4. ASSUME NEW paths \in [Node -> Scopes], NEW ok \in BOOLEAN, ShareItem(paths, ok)
      PROVE  grants[n] # NONE \/ disk[n] # NONE
  BY <1>4 DEF ShareItem, SaveOf, Rescoped
<1>5. ASSUME NEW ok \in BOOLEAN, Sweep(ok) PROVE grants[n] # NONE \/ disk[n] # NONE
  BY <1>5 DEF Sweep, SaveOf, PruneExpired
<1>6. CASE Restart
  BY <1>6 DEF Restart
<1> QED
  BY <1>1, <1>2, <1>3, <1>4, <1>5, <1>6
  DEF GrantorAlone, DecideTake, DecideRefused, Edit, Tick

\* The grantor's maps keep going back to verdicts of the owner.
LEMMA BackedStep == TypeOK /\ Backed /\ [SyncNext]_allVars => Backed'
<1> SUFFICES ASSUME TypeOK, Backed, [SyncNext]_allVars PROVE Backed'
  OBVIOUS
<1>1. verdicts \subseteq verdicts'
  BY VerdictsGrow
<1>2. ASSUME UNCHANGED <<grants, disk, decisions>> PROVE Backed'
  BY <1>1, <1>2 DEF Backed
<1>3. ASSUME NEW n \in Node, DecideDeny(n), Announce(n, "denied") PROVE Backed'
  <2>1. <<n, "denied">> \in verdicts'
    BY <1>3 DEF Announce
  <2>2. \A m \in Node : decisions'[m] # NONE => m = n \/ decisions[m] # NONE
    BY <1>3, RememberOnlyAdds DEF DecideDeny, Key, Status
  <2>3. UNCHANGED <<grants, disk>>
    BY <1>3 DEF DecideDeny
  <2> QED
    BY <1>1, <2>1, <2>2, <2>3 DEF Backed
<1>4. ASSUME NEW n \in Node, NEW ok \in BOOLEAN, DecideApprove(n, ok),
             <<n, "approved">> \in verdicts'
      PROVE  Backed'
  <2>1. \A m \in Node \ {n} :
          grants'[m] = grants[m] /\ (disk'[m] = disk[m] \/ disk'[m] = grants[m])
    BY <1>4 DEF DecideApprove, SaveOf, TypeOK
  <2>2. decisions' = decisions
    BY <1>4 DEF DecideApprove
  <2> QED
    BY <1>1, <1>4, <2>1, <2>2 DEF Backed
<1>5. ASSUME NEW n \in Node, DecideAndPush(n) PROVE Backed'
  BY <1>3, <1>4, <1>5 DEF DecideAndPush, Announce
<1>6. CASE GrantorAlone
  <2>1. \A n \in Node : decisions'[n] # NONE => decisions[n] # NONE
    BY <1>6 DEF GrantorAlone, DecideTake, DecideRefused, Edit, RevokeGrant, UpdateGrant,
                ShareItem, Sweep, Restart, Tick, Key
  <2> QED
    BY <1>1, <1>6, <2>1, NoNewGrant DEF Backed
<1>7. CASE UNCHANGED allVars
  BY <1>2, <1>7 DEF allVars, vars
<1> QED
  BY <1>2, <1>5, <1>6, <1>7
  DEF SyncNext, vars, AddFinish, PushArrives, PollApply, RemoveContact, AddSend,
      RequestQueued, AddFails, PushLost, PollAsk, PollAnswer, PollLost, RegistryChange,
      RequesterRestart, ReqCheckGrant, ReqAdmit

\* pair_status answers an outcome only if the owner decided it.
LEMMA AnswerWasDecided ==
  ASSUME OnlyDenials, Backed, NEW n \in Node, StatusAnswer(n) \in Outcome
  PROVE  <<n, StatusAnswer(n)>> \in verdicts
<1>1. CASE decisions[n] # NONE
  BY <1>1 DEF StatusAnswer, OnlyDenials, Backed, Outcome
<1>2. CASE decisions[n] = NONE
  BY <1>2 DEF StatusAnswer, Backed, Outcome, Live
<1> QED
  BY <1>1, <1>2

\* What is on its way keeps going back to verdicts of the owner.
LEMMA CarriedStep ==
  RowTypeOK /\ OnlyDenials /\ Backed /\ Carried /\ [SyncNext]_allVars => Carried'
<1> SUFFICES ASSUME RowTypeOK, OnlyDenials, Backed, Carried, [SyncNext]_allVars
             PROVE  Carried'
  OBVIOUS
<1>1. verdicts \subseteq verdicts'
  BY VerdictsGrow
<1>2. ASSUME push' \subseteq push, NEW n \in Node, NEW at, at \notin Outcome,
             poll' = [poll EXCEPT ![n] = at]
      PROVE  Carried'
  BY <1>1, <1>2 DEF Carried, RowTypeOK
<1>3. ASSUME push' \subseteq push, poll' = poll PROVE Carried'
  BY <1>1, <1>3 DEF Carried
<1>4. ASSUME NEW n \in Node, DecideAndPush(n) PROVE Carried'
  BY <1>1, <1>4 DEF DecideAndPush, Announce, Carried
<1>5. ASSUME NEW n \in Node, PollAnswer(n) PROVE Carried'
  <2>1. poll' = [poll EXCEPT ![n] = StatusAnswer(n)] /\ push' = push
    BY <1>5 DEF PollAnswer
  <2>2. StatusAnswer(n) \in Outcome => <<n, StatusAnswer(n)>> \in verdicts
    BY AnswerWasDecided
  <2> HIDE DEF StatusAnswer
  <2> QED
    BY <1>1, <2>1, <2>2 DEF Carried, RowTypeOK
<1>6. ASSUME NEW n \in Node, NEW ok \in BOOLEAN, PollApply(n, ok) PROVE Carried'
  BY <1>2, <1>6 DEF PollApply, Outcome
<1>7. ASSUME NEW n \in Node, PollAsk(n) \/ PollLost(n) \/ RequesterRestart(n) PROVE Carried'
  BY <1>2, <1>7 DEF PollAsk, PollLost, RequesterRestart, Outcome
<1>8. CASE GrantorAlone \/ UNCHANGED allVars
  BY <1>3, <1>8 DEF GrantorAlone, allVars, syncVars
<1> QED
  BY <1>3, <1>4, <1>5, <1>6, <1>7, <1>8
  DEF SyncNext, AddFinish, PushArrives, RemoveContact, AddSend, RequestQueued, AddFails,
      PushLost, RegistryChange

\* One requester's part of OutcomeWasDecided.
RowDecided(n) ==
  \A o \in Outcome :
    contact[n] = o \/ contactDisk[n] = o \/ add[n] = o => <<n, o>> \in verdicts

\* A row written from a decided word, or from no word at all, is a decided row.
LEMMA SaveKeepsDecided ==
  ASSUME RowTypeOK, OutcomeWasDecided, verdicts \subseteq verdicts',
         NEW n \in Node, NEW row, NEW ok, SaveContact(n, row, ok),
         row \in Outcome => <<n, row>> \in verdicts,
         \A m \in Node : add'[m] \in {add[m], "idle"}
  PROVE  OutcomeWasDecided'
<1> SUFFICES ASSUME NEW m \in Node PROVE RowDecided(m)'
  BY DEF OutcomeWasDecided, RowDecided
<1>1. RowDecided(m)
  BY DEF OutcomeWasDecided, RowDecided
<1>2. CASE m = n
  BY <1>1, <1>2 DEF SaveContact, RowTypeOK, RowDecided, Outcome
<1>3. CASE m # n
  BY <1>1, <1>3 DEF SaveContact, RowTypeOK, RowDecided, Outcome
<1> QED
  BY <1>2, <1>3

\* The same for a write that first looks whether there is a row.
LEMMA RelabelKeepsDecided ==
  ASSUME RowTypeOK, OutcomeWasDecided, verdicts' = verdicts, add' = add,
         NEW n \in Node, NEW row \in Outcome, NEW ok, Relabel(n, row, ok),
         <<n, row>> \in verdicts
  PROVE  OutcomeWasDecided'
<1>1. CASE UNCHANGED <<contact, contactDisk>>
  BY <1>1 DEF OutcomeWasDecided
<1>2. CASE SaveContact(n, row, ok)
  BY <1>2, SaveKeepsDecided
<1> QED
  BY <1>1, <1>2 DEF Relabel

\* Every step leaves only decided outcomes in the rows.
LEMMA OutcomeStep ==
  RowTypeOK /\ SyncInv /\ [SyncNext]_allVars => OutcomeWasDecided'
<1> SUFFICES ASSUME RowTypeOK, SyncInv, [SyncNext]_allVars PROVE OutcomeWasDecided'
  OBVIOUS
<1> USE DEF SyncInv
<1>1. verdicts \subseteq verdicts'
  BY VerdictsGrow
<1>2. ASSUME UNCHANGED <<contact, contactDisk>>,
             \A m \in Node :
               add'[m] \in Outcome => add'[m] = add[m] \/ <<m, add'[m]>> \in verdicts
      PROVE  OutcomeWasDecided'
  BY <1>1, <1>2 DEF OutcomeWasDecided
<1>3. ASSUME NEW n \in Node, NEW ok \in BOOLEAN, AddFinish(n, ok) PROVE OutcomeWasDecided'
  <2>1. add[n] \in Outcome => <<n, add[n]>> \in verdicts
    BY DEF OutcomeWasDecided
  <2>2. \A m \in Node : add'[m] \in {add[m], "idle"}
    BY <1>3 DEF AddFinish, RowTypeOK
  <2> QED
    BY <1>1, <1>3, <2>1, <2>2, SaveKeepsDecided DEF AddFinish
<1>4. ASSUME NEW n \in Node, NEW ok \in BOOLEAN, NEW outcome \in Outcome,
             PushArrives(n, outcome, ok)
      PROVE  OutcomeWasDecided'
  <2>1. <<n, outcome>> \in verdicts
    BY <1>4 DEF PushArrives, Carried
  <2> QED
    BY <1>4, <2>1, RelabelKeepsDecided DEF PushArrives
<1>5. ASSUME NEW n \in Node, NEW ok \in BOOLEAN, PollApply(n, ok) PROVE OutcomeWasDecided'
  <2>1. CASE poll[n] \in Outcome
    <3>1. <<n, poll[n]>> \in verdicts
      BY <2>1 DEF Carried
    <3> QED
      BY <1>5, <2>1, <3>1, RelabelKeepsDecided DEF PollApply
  <2>2. CASE poll[n] \notin Outcome
    BY <1>5, <2>2 DEF PollApply, OutcomeWasDecided
  <2> QED
    BY <2>1, <2>2
<1>6. ASSUME NEW n \in Node, NEW ok \in BOOLEAN, RemoveContact(n, ok) PROVE OutcomeWasDecided'
  BY <1>1, <1>6, SaveKeepsDecided DEF RemoveContact, Outcome, Label
<1>7. ASSUME NEW n \in Node, AddSend(n) PROVE OutcomeWasDecided'
  <2>1. CASE Live(n) /\ add' = [add EXCEPT ![n] = "approved"]
    <3>1. <<n, "approved">> \in verdicts
      BY <2>1 DEF Live, Backed
    <3> QED
      BY <1>2, <1>7, <2>1, <3>1 DEF AddSend, RowTypeOK
  <2>2. CASE add' = [add EXCEPT ![n] = "waiting"]
    BY <1>2, <1>7, <2>2 DEF AddSend, Outcome, RowTypeOK
  <2> QED
    BY <1>7, <2>1, <2>2 DEF AddSend
<1>8. ASSUME NEW n \in Node, RequestQueued(n) PROVE OutcomeWasDecided'
  <2>1. add' \in {add, [add EXCEPT ![n] = "idle"], [add EXCEPT ![n] = "pending"]}
    BY <1>8 DEF RequestQueued, Reply
  <2> QED
    BY <1>2, <1>8, <2>1 DEF RequestQueued, Outcome, RowTypeOK
<1>9. ASSUME NEW n \in Node, AddFails(n) PROVE OutcomeWasDecided'
  BY <1>2, <1>9 DEF AddFails, Outcome, RowTypeOK
<1>10. ASSUME NEW n \in Node, RequesterRestart(n) PROVE OutcomeWasDecided'
  BY <1>10 DEF RequesterRestart, OutcomeWasDecided, RowTypeOK, Outcome
<1>11. ASSUME UNCHANGED <<contact, contactDisk, add>> PROVE OutcomeWasDecided'
  BY <1>1, <1>11 DEF OutcomeWasDecided
<1>12. CASE GrantorAlone \/ UNCHANGED allVars
  BY <1>11, <1>12 DEF GrantorAlone, allVars, syncVars
<1> QED
  BY <1>3, <1>4, <1>5, <1>6, <1>7, <1>8, <1>9, <1>10, <1>11, <1>12
  DEF SyncNext, DecideAndPush, PushLost, PollAsk, PollAnswer, PollLost, RegistryChange

\* However many requesters there are and whatever is lost, overtaken or
\* restarted, a contact row shows no outcome the owner never gave.
THEOREM OutcomesAreTheOwners == SyncSpec => []OutcomeWasDecided
<1>1. SyncInit => SyncInv
  BY DEF SyncInit, Init, SyncInv, OnlyDenials, Backed, Carried, OutcomeWasDecided, Key,
         Outcome, Label
<1>2. SyncTypeOK /\ SyncInv /\ [SyncNext]_allVars => SyncInv'
  <2>1. SyncTypeOK => TypeOK /\ RowTypeOK
    BY DEF SyncTypeOK, RowTypeOK
  <2> QED
    BY <2>1, GrantorSteps, DenialsStep, BackedStep, CarriedStep, OutcomeStep DEF SyncInv
<1>3. SyncInv => OutcomeWasDecided
  BY DEF SyncInv
<1> QED
  BY <1>1, <1>2, <1>3, SyncTypeCorrect, PTL DEF SyncSpec

----------------------------------------------------------------------------
(* A removed row *)

\* A conditional write makes no row.
LEMMA RelabelMakesNoRow ==
  ASSUME RowTypeOK, NEW n \in Node, NEW row, NEW ok, Relabel(n, row, ok),
         NEW m \in Node, contact[m] = NONE
  PROVE  contact'[m] = NONE
BY DEF Relabel, SaveContact, RowTypeOK

\* The step of RemovedStaysRemoved: every action that may make a row.
LEMMA RowStep ==
  ASSUME RowTypeOK, [SyncNext]_allVars, NEW m \in Node, contact[m] = NONE, contact'[m] # NONE
  PROVE  add[m] \in {"approved", "pending"} \/ contactDisk[m] # NONE
<1>1. ASSUME NEW n \in Node, NEW ok \in BOOLEAN, AddFinish(n, ok)
      PROVE  add[m] \in {"approved", "pending"}
  BY <1>1 DEF AddFinish, SaveContact, RowTypeOK
<1>2. ASSUME NEW n \in Node, NEW ok \in BOOLEAN, NEW outcome \in Outcome,
             PushArrives(n, outcome, ok)
      PROVE  FALSE
  BY <1>2, RelabelMakesNoRow DEF PushArrives
<1>3. ASSUME NEW n \in Node, NEW ok \in BOOLEAN, PollApply(n, ok) PROVE FALSE
  BY <1>3, RelabelMakesNoRow DEF PollApply
<1>4. ASSUME NEW n \in Node, NEW ok \in BOOLEAN, RemoveContact(n, ok) PROVE FALSE
  BY <1>4 DEF RemoveContact, SaveContact, RowTypeOK
<1>5. ASSUME NEW n \in Node, RequesterRestart(n) PROVE contactDisk[m] # NONE
  BY <1>5 DEF RequesterRestart, RowTypeOK
<1>6. contact' # contact
  OBVIOUS
<1> QED
  BY <1>1, <1>2, <1>3, <1>4, <1>5, <1>6
  DEF SyncNext, allVars, syncVars, GrantorAlone, AddSend, RequestQueued, AddFails,
      DecideAndPush, PushLost, PollAsk, PollAnswer, PollLost, RegistryChange

\* No decision or poll answer that was on its way when the user removed a contact
\* brings it back, for every interleaving of any number of requesters.
THEOREM RemovedRowsStayRemoved == SyncSpec => RemovedStaysRemoved
<1>1. SyncTypeOK /\ [SyncNext]_allVars
        => [\A n \in Node :
              contact[n] = NONE /\ contact'[n] # NONE
                => add[n] \in {"approved", "pending"} \/ contactDisk[n] # NONE]_allVars
  <2>1. SyncTypeOK => RowTypeOK
    BY DEF SyncTypeOK, RowTypeOK
  <2> QED
    BY <2>1, RowStep
<1> QED
  BY <1>1, SyncTypeCorrect, PTL DEF SyncSpec, RemovedStaysRemoved
============================================================================
