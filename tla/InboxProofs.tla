---------------------------- MODULE InboxProofs ----------------------------
(***************************************************************************)
(* Proofs about Inbox, for any number of uploads, of the owner's calls and *)
(* of names: what holds on the names no two calls met on, whatever was cut *)
(* off and whatever happens on other names.                                *)
(***************************************************************************)
EXTENDS Inbox, WellFoundedInduction, SequenceTheorems, TLAPS

USE InboxAssumption

----------------------------------------------------------------------------
(* The invariant *)

\* With the calls as in us and os: the file f was made for base name b, and the bytes
\* x were sent under it.
Made(f, b, us, os) ==
  \/ f \in Base /\ f = b
  \/ f \in Upload /\ us[f].at \notin {"new", "chosen"} /\ us[f].name[1] = b
  \/ f \in Op /\ os[f].at \notin {"new", "accept"} /\ os[f].name[1] = b

Sent(x, b, us) ==
  \/ x \in Base /\ x = b
  \/ x \in Upload /\ us[x].at # "new" /\ us[x].name[1] = b

\* What a file holds was sent under the name it was made for.
Homely(f, bytes, us, os) ==
  /\ \A b \in Base : Made(f, b, us, os) => \A x \in bytes : Sent(x, b, us)
  /\ (\A b \in Base : ~Made(f, b, us, os)) => bytes = {}

\* Nothing leaves its base name: directories, open files and bytes.
HomeInv ==
  /\ \A nm \in InName : /\ part[nm] # NONE => Made(part[nm], nm[1], up, op)
                        /\ inbox[nm] # NONE => Made(inbox[nm], nm[1], up, op)
  /\ \A nm \in Name : /\ share[nm] # NONE => Made(share[nm], nm[1], up, op)
                      /\ sharePart[nm] # NONE => Made(sharePart[nm], nm[1], up, op)
  /\ \A u \in Upload : up[u].at \in {"open", "filled"} => Made(up[u].file, up[u].name[1], up, op)
  /\ \A f \in Object : Homely(f, body[f], up, op)

\* A temp file is nobody else's file.
TempInv ==
  /\ \A n, m \in InName : part[n] # NONE =>
       part[n] # inbox[m] /\ (part[n] = part[m] => n = m)
  /\ \A n \in InName, m \in Name : part[n] # NONE => part[n] # share[m]
  /\ \A n, m \in Name : sharePart[n] # NONE =>
       sharePart[n] # share[m] /\ (sharePart[n] = sharePart[m] => n = m)

\* What a call has at each of its steps.
CallInv ==
  /\ \A u \in Upload :
       /\ up[u].at # "new" => up[u].name \in InName
       /\ up[u].at \in {"open", "filled"} => up[u].file \in Upload
  /\ \A o \in Op :
       /\ op[o].at # "new" => op[o].name \in InName
       /\ op[o].at \in {"accept", "copied", "placed"} =>
            op[o].final \in Name /\ op[o].final[1] = op[o].name[1]
  /\ promised \subseteq Base \cup {u \in Upload : up[u].at = "done"}

\* Calls in progress on an entry of the inbox, and those with one of the share.
Sending(u) == up[u].at \in {"chosen", "open", "filled", "renamed"}

Acting(o) == op[o].at \in {"accept", "copied", "placed", "discard", "gone"}

Placing(o) == op[o].at \in {"accept", "copied"}

\* Calls on one entry have met.
AloneInv ==
  /\ \A u, v \in Upload :
       Sending(u) /\ Sending(v) /\ up[u].name = up[v].name => u = v \/ up[u].name[1] \in overlap
  /\ \A u \in Upload, o \in Op :
       Sending(u) /\ Acting(o) /\ up[u].name = op[o].name => up[u].name[1] \in overlap
  /\ \A o, p \in Op :
       Acting(o) /\ Acting(p) /\ op[o].name = op[p].name => o = p \/ op[o].name[1] \in overlap
  /\ \A o, p \in Op :
       Placing(o) /\ Placing(p) /\ op[o].final = op[p].final => o = p \/ op[o].name[1] \in overlap

\* What an upload that met nobody has written.
UploadFits(u) ==
  /\ up[u].at \in {"chosen", "open", "filled"} => inbox[up[u].name] = NONE
  /\ up[u].at \in {"open", "filled"} => part[up[u].name] = up[u].file
  /\ up[u].at = "open" => body[up[u].file] = {}
  /\ up[u].at = "filled" => body[up[u].file] = {u}
  /\ up[u].at = "renamed" => inbox[up[u].name] # NONE /\ body[inbox[up[u].name]] = {u}

UploadInv ==
  \A u \in Upload : up[u].at # "new" /\ up[u].name[1] \notin overlap => UploadFits(u)

\* What a call of the owner that met nobody has in hand.
OpFits(o) ==
  /\ op[o].at \in {"accept", "copied", "placed", "discard"} => inbox[op[o].name] # NONE
  /\ op[o].at \in {"accept", "copied"} => share[op[o].final] = NONE
  /\ op[o].at = "copied" =>
       /\ sharePart[op[o].final] # NONE
       /\ body[sharePart[op[o].final]] = body[inbox[op[o].name]]
  /\ op[o].at = "placed" =>
       /\ share[op[o].final] # NONE
       /\ body[share[op[o].final]] = body[inbox[op[o].name]]
  /\ op[o].at = "gone" => inbox[op[o].name] = NONE

OpInv ==
  \A o \in Op : op[o].at # "new" /\ op[o].name[1] \notin overlap => OpFits(o)

\* A sidecar goes with its file, or is about to be dropped, and a name that an
\* upload has chosen has none.
SideInv ==
  /\ \A nm \in InName : ~killed /\ nm[1] \notin overlap /\ side[nm] # NONE =>
       \/ inbox[nm] # NONE /\ body[inbox[nm]] = {side[nm]}
       \/ \E o \in Op : op[o].at = "gone" /\ op[o].name = nm
  /\ \A u \in Upload :
       /\ ~killed /\ Sending(u) /\ up[u].name[1] \notin overlap
       => side[up[u].name] = NONE

\* The part of the invariant that all three properties need.
Core ==
  /\ TypeOK /\ CallInv /\ HomeInv /\ TempInv /\ AloneInv
  /\ UploadInv /\ OpInv

----------------------------------------------------------------------------
(* Names *)

\* Least finds one.
LEMMA LeastIn ==
  ASSUME NEW S \in SUBSET Nat, S # {}
  PROVE  Least(S) \in S
<1> DEFINE R == OpToRel(<, Nat)
<1>1. IsWellFoundedOn(R, Nat)
  BY NatLessThanWellFounded, Zenon
<1>2. PICK x \in S : \A y \in S : ~(<<y, x>> \in R)
  <2> HIDE DEF R
  <2> QED BY <1>1, WFMin
<1>3. \A y \in S : ~(y < x)
  BY <1>2 DEF OpToRel
<1>4. \A y \in S : x <= y
  BY <1>3
<1> QED BY <1>4 DEF Least

\* One number more is a name with at most one number more.
LEMMA WithIsNumbered ==
  ASSUME NEW most \in Nat, NEW nm \in Numbered(most), NEW k \in 1..MaxCopy
  PROVE  With(nm, k) \in Numbered(most + 1) /\ With(nm, k)[1] = nm[1]
<1>1. PICK d \in 0..most : nm[2] \in [1..d -> 1..MaxCopy]
  BY DEF Numbered
<1>2. nm[2] \in Seq(1..MaxCopy) /\ Len(nm[2]) = d
  BY <1>1, LenProperties, SeqDef
<1>3. /\ Append(nm[2], k) \in Seq(1..MaxCopy)
      /\ Len(Append(nm[2], k)) = d + 1
  BY <1>2, AppendProperties
<1>4. Append(nm[2], k) \in [1..(d + 1) -> 1..MaxCopy]
  BY <1>3, LenProperties
<1>5. d + 1 \in 0..(most + 1)
  OBVIOUS
<1>6. nm[1] \in Base
  BY DEF Numbered
<1> QED BY <1>4, <1>5, <1>6 DEF With, Numbered

LEMMA NumberedGrows ==
  ASSUME NEW most \in Nat
  PROVE  Numbered(most) \subseteq Numbered(most + 1)
BY DEF Numbered

\* The empty sequence is no number at all.
LEMMA NoNumber ==
  ASSUME NEW most \in Nat, NEW b \in Base
  PROVE  <<b, <<>>>> \in Numbered(most)
<1>1. <<>> \in [1..0 -> 1..MaxCopy]
  OBVIOUS
<1>2. 0 \in 0..most
  OBVIOUS
<1>3. <<>> \in UNION {[1..depth -> 1..MaxCopy] : depth \in 0..most}
  BY <1>1, <1>2
<1> QED BY <1>3 DEF Numbered

LEMMA NameFacts ==
  /\ InName \subseteq Name
  /\ \A nm \in Name : nm[1] \in Base
  /\ \A b \in Base : <<b, <<>>>> \in InName
<1>1. InName \subseteq Name
  BY NumberedGrows DEF InName, Name
<1>2. \A nm \in Name : nm[1] \in Base
  BY DEF Name, Numbered
<1>3. ASSUME NEW b \in Base PROVE <<b, <<>>>> \in InName
  BY <1>3, NoNumber DEF InName
<1> QED BY <1>1, <1>2, <1>3

\* dedupe_in_dir finds a free name: in the inbox for a base name, in the share for a
\* name of the inbox.
LEMMA DedupeFree ==
  ASSUME NEW dir, NEW nm, HasFree(dir, nm)
  PROVE  /\ dir[Dedupe(dir, nm)] = NONE
         /\ \/ Dedupe(dir, nm) = nm
            \/ \E k \in 1..MaxCopy : Dedupe(dir, nm) = With(nm, k)
<1>1. CASE dir[nm] = NONE
  BY <1>1 DEF Dedupe
<1>2. CASE dir[nm] # NONE
  <2> DEFINE k == Least(FreeNumbers(dir, nm))
  <2>1. FreeNumbers(dir, nm) \in SUBSET Nat /\ FreeNumbers(dir, nm) # {}
    BY <1>2 DEF FreeNumbers, HasFree
  <2>2. k \in FreeNumbers(dir, nm)
    BY <2>1, LeastIn
  <2> QED BY <1>2, <2>2 DEF Dedupe, FreeNumbers
<1> QED BY <1>1, <1>2

LEMMA InboxName ==
  ASSUME NEW dir, NEW b \in Base, HasFree(dir, <<b, <<>>>>)
  PROVE  LET stored == Dedupe(dir, <<b, <<>>>>)
         IN stored \in InName /\ stored[1] = b /\ dir[stored] = NONE
<1> DEFINE nm == <<b, <<>>>>
<1>1. nm \in Numbered(0) /\ nm[1] = b
  BY NoNumber
<1>2. \A k \in 1..MaxCopy : With(nm, k) \in InName /\ With(nm, k)[1] = b
  BY <1>1, WithIsNumbered DEF InName
<1> QED BY <1>2, DedupeFree, NameFacts

LEMMA ShareName ==
  ASSUME NEW dir, NEW nm \in InName, HasFree(dir, nm)
  PROVE  LET final == Dedupe(dir, nm)
         IN final \in Name /\ final[1] = nm[1] /\ dir[final] = NONE
<1>1. \A k \in 1..MaxCopy : With(nm, k) \in Name /\ With(nm, k)[1] = nm[1]
  BY WithIsNumbered DEF InName, Name
<1> QED BY <1>1, DedupeFree, NameFacts

----------------------------------------------------------------------------
(* Types *)

UpRec == [at : UpAt, name : InName \cup {NONE}, file : Upload \cup {NONE}]

OpRec == [at : OpAt, name : InName \cup {NONE}, final : Name \cup {NONE}]

\* Meets notes a meeting and forgets none.
LEMMA MeetsTyped ==
  ASSUME TypeOK, NEW E, NEW b \in Base, Meets(E, b)
  PROVE  overlap' \in SUBSET Base /\ overlap \subseteq overlap'
BY DEF Meets, TypeOK

\* Init gives every variable its type.
LEMMA TypeInit == Init => TypeOK /\ CallInv
<1> SUFFICES ASSUME Init PROVE TypeOK /\ CallInv
  OBVIOUS
<1>1. body \in [Object -> SUBSET (Upload \cup Base)]
  BY DEF Init, Object
<1>2. share \in [Name -> Object \cup {NONE}]
  BY DEF Init, Object
<1>3. up \in [Upload -> UpRec] /\ \A u \in Upload : up[u].at = "new"
  BY DEF Init, UpRec, UpAt
<1>4. op \in [Op -> OpRec] /\ \A o \in Op : op[o].at = "new"
  BY DEF Init, OpRec, OpAt
<1>5. /\ part \in [InName -> Upload \cup {NONE}] /\ inbox \in [InName -> Upload \cup {NONE}]
      /\ side \in [InName -> Upload \cup {NONE}] /\ sharePart \in [Name -> Op \cup {NONE}]
      /\ cross \in BOOLEAN /\ promised \in SUBSET Base /\ discarded = {} /\ overlap = {}
      /\ killed = FALSE
  BY DEF Init
<1>6. TypeOK
  BY <1>1, <1>2, <1>3, <1>4, <1>5 DEF TypeOK, UpRec, OpRec
<1> QED BY <1>3, <1>4, <1>5, <1>6 DEF CallInv

\* A change of one upload's, or one call's, record.
LEMMA UpChange ==
  ASSUME TypeOK, NEW u \in Upload, NEW a \in UpAt,
         \/ up' = [up EXCEPT ![u].at = a]
         \/ \E nm \in InName : up' = [up EXCEPT ![u].at = a, ![u].name = nm]
         \/ \E f \in Upload : up' = [up EXCEPT ![u].at = a, ![u].file = f]
  PROVE  up' \in [Upload -> UpRec]
BY DEF TypeOK, UpRec

LEMMA OpChange ==
  ASSUME TypeOK, NEW o \in Op, NEW a \in OpAt,
         \/ op' = [op EXCEPT ![o].at = a]
         \/ \E nm \in InName, final \in Name \cup {NONE} :
              op' = [op EXCEPT ![o] = [at |-> a, name |-> nm, final |-> final]]
  PROVE  op' \in [Op -> OpRec]
BY DEF TypeOK, OpRec

\* Each step of an upload keeps the types.
LEMMA UploadTypes ==
  ASSUME TypeOK, CallInv, NEW u \in Upload, UploadStep(u)
  PROVE  TypeOK' /\ CallInv'
<1> USE DEF dirs, observed, asked
<1>0. /\ up \in [Upload -> UpRec] /\ op \in [Op -> OpRec]
      /\ \A a \in {"new", "chosen", "open", "filled", "renamed", "done", "failed"} : a \in UpAt
  BY DEF TypeOK, UpRec, OpRec, UpAt
<1>1. ASSUME NEW b \in Base, UploadChoose(u, b) PROVE TypeOK' /\ CallInv'
  <2> DEFINE stored == Dedupe(inbox, <<b, <<>>>>)
  <2>1. stored \in InName
    BY <1>1, InboxName DEF UploadChoose
  <2>2. up[u].at = "new" /\ up' = [up EXCEPT ![u].at = "chosen", ![u].name = stored]
    BY <1>1 DEF UploadChoose
  <2>3. overlap' \in SUBSET Base
    BY <1>1, MeetsTyped DEF UploadChoose
  <2>4. UNCHANGED <<body, part, inbox, side, share, sharePart, cross, op, promised, discarded, killed>>
    BY <1>1 DEF UploadChoose
  <2> HIDE DEF stored
  <2>5. up' \in [Upload -> UpRec]
    BY <1>0, <2>1, <2>2, UpChange
  <2>6. TypeOK'
    BY <2>3, <2>4, <2>5 DEF TypeOK, UpRec
  <2>7. CallInv'
    BY <1>0, <2>1, <2>2, <2>4 DEF CallInv, UpRec
  <2> QED BY <2>6, <2>7
<1>2. CASE PartOpen(u)
  <2> DEFINE f == IF part[up[u].name] = NONE THEN u ELSE part[up[u].name]
  <2>1. up[u].name \in InName /\ f \in Upload
    BY <1>2, <1>0 DEF PartOpen, CallInv, TypeOK
  <2>2. /\ up[u].at = "chosen" /\ part' = [part EXCEPT ![up[u].name] = f]
        /\ body' = [body EXCEPT ![f] = {}]
        /\ up' = [up EXCEPT ![u].at = "open", ![u].file = f]
        /\ UNCHANGED <<inbox, side, share, sharePart, cross, op, promised, discarded, overlap, killed>>
    BY <1>2 DEF PartOpen
  <2> HIDE DEF f
  <2>3. up' \in [Upload -> UpRec]
    BY <1>0, <2>1, <2>2, UpChange
  <2>4. part' \in [InName -> Upload \cup {NONE}] /\ body' \in [Object -> SUBSET (Upload \cup Base)]
    BY <2>1, <2>2 DEF TypeOK, Object
  <2>5. TypeOK'
    BY <2>2, <2>3, <2>4 DEF TypeOK, UpRec
  <2>6. CallInv'
    BY <1>0, <2>1, <2>2 DEF CallInv, UpRec
  <2> QED BY <2>5, <2>6
<1>3. CASE PartFill(u)
  <2>1. /\ up[u].at = "open"
        /\ UNCHANGED <<part, inbox, side, share, sharePart, cross, op, promised, discarded, overlap>>
    BY <1>3 DEF PartFill
  <2>0. PICK a \in {"filled", "failed"} : up' = [up EXCEPT ![u].at = a] /\ killed' \in BOOLEAN
    BY <1>3 DEF PartFill, UpGoes, TypeOK
  <2>2. up[u].file \in Upload
    BY <2>1 DEF CallInv
  <2>3. body' \in [Object -> SUBSET (Upload \cup Base)]
    BY <1>3, <2>2 DEF PartFill, TypeOK, Object
  <2>4. up' \in [Upload -> UpRec]
    BY <1>0, <2>0, UpChange
  <2>5. TypeOK'
    BY <2>0, <2>1, <2>3, <2>4 DEF TypeOK, UpRec
  <2>6. CallInv'
    BY <1>0, <2>0, <2>1, <2>2 DEF CallInv, UpRec
  <2> QED BY <2>5, <2>6
<1>4. CASE UploadRename(u)
  <2> DEFINE nm == up[u].name
  <2>1. /\ up[u].at = "filled" /\ nm \in InName
        /\ UNCHANGED <<body, side, share, sharePart, cross, op, promised, discarded, overlap>>
    BY <1>4 DEF UploadRename, CallInv
  <2>2. PICK a \in {"failed", "renamed"} : up' = [up EXCEPT ![u].at = a] /\ killed' \in BOOLEAN
    BY <1>4 DEF UploadRename, UpGoes, TypeOK
  <2>3. part' \in [InName -> Upload \cup {NONE}] /\ inbox' \in [InName -> Upload \cup {NONE}]
    BY <1>4, <2>1 DEF UploadRename, TypeOK
  <2> HIDE DEF nm
  <2>4. up' \in [Upload -> UpRec]
    BY <1>0, <2>2, UpChange
  <2>5. TypeOK'
    BY <2>1, <2>2, <2>3, <2>4 DEF TypeOK, UpRec
  <2>6. CallInv'
    BY <1>0, <2>1, <2>2 DEF CallInv, UpRec
  <2> QED BY <2>5, <2>6
<1>5. CASE UploadSidecar(u)
  <2>1. /\ up[u].at = "renamed" /\ side' = [side EXCEPT ![up[u].name] = u]
        /\ promised' = IF up'[u].at = "done" THEN promised \cup {u} ELSE promised
        /\ UNCHANGED <<body, part, inbox, share, sharePart, cross, op, discarded, overlap>>
    BY <1>5 DEF UploadSidecar
  <2>0. PICK a \in {"done", "failed"} : up' = [up EXCEPT ![u].at = a] /\ killed' \in BOOLEAN
    BY <1>5 DEF UploadSidecar, UpGoes, TypeOK
  <2>2. side' \in [InName -> Upload \cup {NONE}]
    BY <2>1 DEF TypeOK
  <2>3. up' \in [Upload -> UpRec]
    BY <1>0, <2>0, UpChange
  <2>4. TypeOK'
    BY <2>0, <2>1, <2>2, <2>3 DEF TypeOK, UpRec
  <2>5. CallInv'
    <3>1. \A v \in Upload : v # u => up'[v] = up[v]
      BY <2>0 DEF TypeOK
    <3>2. /\ up'[u].at = a /\ up'[u].name = up[u].name /\ up'[u].file = up[u].file
      BY <1>0, <2>0 DEF UpRec
    <3>3. promised' \subseteq Base \cup {v \in Upload : up'[v].at = "done"}
      BY <2>1, <3>1, <3>2 DEF CallInv
    <3>4. \A v \in Upload : /\ up'[v].at # "new" => up'[v].name \in InName
                            /\ up'[v].at \in {"open", "filled"} => up'[v].file \in Upload
      BY <2>0, <2>1, <3>1, <3>2 DEF CallInv
    <3> QED BY <2>1, <3>3, <3>4 DEF CallInv
  <2> QED BY <2>4, <2>5
<1>6. CASE UploadFail(u)
  <2>1. /\ up[u].at \in {"chosen", "open", "filled", "renamed"}
        /\ up' = [up EXCEPT ![u].at = "failed"] /\ killed' = TRUE
        /\ UNCHANGED <<body, part, inbox, side, share, sharePart, cross, op, promised, discarded, overlap>>
    BY <1>6 DEF UploadFail
  <2>2. up' \in [Upload -> UpRec]
    BY <1>0, <2>1, UpChange
  <2>3. TypeOK'
    BY <2>1, <2>2 DEF TypeOK, UpRec
  <2>4. CallInv'
    BY <1>0, <2>1 DEF CallInv, UpRec
  <2> QED BY <2>3, <2>4
<1> QED BY <1>1, <1>2, <1>3, <1>4, <1>5, <1>6 DEF UploadStep

\* Each step of a call of the owner keeps the types.
LEMMA OpTypes ==
  ASSUME TypeOK, CallInv, NEW o \in Op, OpStep(o)
  PROVE  TypeOK' /\ CallInv'
<1> USE DEF dirs, observed, asked
<1>0. /\ up \in [Upload -> UpRec] /\ op \in [Op -> OpRec]
      /\ \A a \in {"new", "accept", "copied", "placed", "discard", "gone", "done"} : a \in OpAt
      /\ op[o].at # "new" => op[o].name \in InName
      /\ op[o].at \in {"accept", "copied", "placed"} => op[o].final \in Name
  BY DEF TypeOK, UpRec, OpRec, OpAt, CallInv
<1>1. ASSUME NEW nm \in InName, AcceptStart(o, nm) PROVE TypeOK' /\ CallInv'
  <2> DEFINE final == Dedupe(share, nm)
  <2>1. final \in Name /\ final[1] = nm[1]
    BY <1>1, ShareName DEF AcceptStart
  <2>2. op[o].at = "new" /\ op' = [op EXCEPT ![o] = [at |-> "accept", name |-> nm, final |-> final]]
    BY <1>1 DEF AcceptStart
  <2>3. overlap' \in SUBSET Base
    BY <1>1, MeetsTyped, NameFacts DEF AcceptStart
  <2>4. UNCHANGED <<body, part, inbox, side, share, sharePart, cross, up, promised, discarded, killed>>
    BY <1>1 DEF AcceptStart
  <2> HIDE DEF final
  <2>5. op' \in [Op -> OpRec]
    BY <1>0, <2>1, <2>2, OpChange
  <2>6. TypeOK'
    BY <2>3, <2>4, <2>5 DEF TypeOK, OpRec
  <2>7. CallInv'
    BY <1>0, <2>1, <2>2, <2>4 DEF CallInv, OpRec
  <2> QED BY <2>6, <2>7
<1>2. ASSUME NEW nm \in InName, DiscardStart(o, nm) PROVE TypeOK' /\ CallInv'
  <2>1. op[o].at = "new" /\ op' = [op EXCEPT ![o] = [at |-> "discard", name |-> nm, final |-> NONE]]
    BY <1>2 DEF DiscardStart
  <2>2. overlap' \in SUBSET Base
    BY <1>2, MeetsTyped, NameFacts DEF DiscardStart
  <2>3. UNCHANGED <<body, part, inbox, side, share, sharePart, cross, up, promised, discarded, killed>>
    BY <1>2 DEF DiscardStart
  <2>4. op' \in [Op -> OpRec]
    BY <1>0, <2>1, OpChange
  <2>5. TypeOK'
    BY <2>2, <2>3, <2>4 DEF TypeOK, OpRec
  <2>6. CallInv'
    BY <1>0, <2>1, <2>3 DEF CallInv, OpRec
  <2> QED BY <2>5, <2>6
\* From here on the record of the call changes its place only.
<1>3. ASSUME NEW a \in OpAt, op' = [op EXCEPT ![o].at = a],
             op[o].at # "new", a # "new",
             a = "copied" => op[o].at = "accept",
             a = "placed" => op[o].at = "copied",
             a # "accept",
             UNCHANGED <<up, promised>>
      PROVE  op' \in [Op -> OpRec] /\ CallInv'
  <2>1. op' \in [Op -> OpRec]
    BY <1>3, OpChange
  <2> QED BY <1>0, <1>3, <2>1 DEF CallInv, OpRec
<1>4. CASE AcceptMove(o)
  <2>1. /\ op[o].at = "accept"
        /\ UNCHANGED <<body, part, side, sharePart, cross, up, promised, discarded, overlap>>
    BY <1>4 DEF AcceptMove
  <2>2. inbox' \in [InName -> Upload \cup {NONE}] /\ share' \in [Name -> Object \cup {NONE}]
    BY <1>0, <1>4, <2>1 DEF AcceptMove, TypeOK, Object
  <2>3. PICK a \in {"done", "gone"} : op' = [op EXCEPT ![o].at = a] /\ killed' \in BOOLEAN
    BY <1>4 DEF AcceptMove, OpGoes, TypeOK
  <2>4. op' \in [Op -> OpRec] /\ CallInv'
    BY <1>0, <1>3, <2>1, <2>3
  <2> QED BY <2>1, <2>2, <2>3, <2>4 DEF TypeOK, OpRec
<1>5. CASE AcceptCopy(o)
  <2>1. /\ op[o].at = "accept"
        /\ UNCHANGED <<part, inbox, side, share, cross, up, promised, discarded, overlap>>
    BY <1>5 DEF AcceptCopy
  <2>2. CASE inbox[op[o].name] = NONE
    <3>1. op' = [op EXCEPT ![o].at = "done"] /\ UNCHANGED <<body, sharePart, killed>>
      BY <1>5, <2>2 DEF AcceptCopy
    <3>2. op' \in [Op -> OpRec] /\ CallInv'
      BY <1>0, <1>3, <2>1, <3>1
    <3> QED BY <2>1, <3>1, <3>2 DEF TypeOK, OpRec
  <2>3. CASE inbox[op[o].name] # NONE
    <3> DEFINE f == IF sharePart[op[o].final] = NONE THEN o ELSE sharePart[op[o].final]
    <3>1. /\ sharePart' = [sharePart EXCEPT ![op[o].final] = f]
          /\ body' = [body EXCEPT ![f] = body[inbox[op[o].name]]]
      BY <1>5, <2>3 DEF AcceptCopy
    <3>0. PICK a \in {"copied", "done"} : op' = [op EXCEPT ![o].at = a] /\ killed' \in BOOLEAN
      BY <1>5, <2>3 DEF AcceptCopy, OpGoes, TypeOK
    <3>2. f \in Op /\ inbox[op[o].name] \in Upload
      BY <1>0, <2>1, <2>3 DEF TypeOK
    <3> HIDE DEF f
    <3>3. sharePart' \in [Name -> Op \cup {NONE}] /\ body' \in [Object -> SUBSET (Upload \cup Base)]
      BY <3>1, <3>2 DEF TypeOK, Object
    <3>4. op' \in [Op -> OpRec] /\ CallInv'
      BY <1>0, <1>3, <2>1, <3>0
    <3> QED BY <2>1, <3>0, <3>3, <3>4 DEF TypeOK, OpRec
  <2> QED BY <2>2, <2>3
<1>6. CASE AcceptPlace(o)
  <2>1. /\ op[o].at = "copied"
        /\ UNCHANGED <<body, part, inbox, side, cross, up, promised, discarded, overlap>>
    BY <1>6 DEF AcceptPlace
  <2>2. sharePart' \in [Name -> Op \cup {NONE}] /\ share' \in [Name -> Object \cup {NONE}]
    <3>1. CASE sharePart[op[o].final] = NONE
      BY <1>6, <3>1 DEF AcceptPlace, TypeOK
    <3>2. CASE sharePart[op[o].final] # NONE
      <4>1. sharePart[op[o].final] \in Op
        BY <1>0, <2>1, <3>2 DEF TypeOK
      <4>2. /\ share' = [share EXCEPT ![op[o].final] = sharePart[op[o].final]]
            /\ sharePart' = [sharePart EXCEPT ![op[o].final] = NONE]
        BY <1>6, <3>2 DEF AcceptPlace
      <4> QED BY <4>1, <4>2 DEF TypeOK, Object
    <3> QED BY <3>1, <3>2
  <2>3. PICK a \in {"done", "placed"} : op' = [op EXCEPT ![o].at = a] /\ killed' \in BOOLEAN
    BY <1>6 DEF AcceptPlace, OpGoes, TypeOK
  <2>4. op' \in [Op -> OpRec] /\ CallInv'
    BY <1>0, <1>3, <2>1, <2>3
  <2> QED BY <2>1, <2>2, <2>3, <2>4 DEF TypeOK, OpRec
<1>7. CASE AcceptDropSource(o)
  <2>1. /\ op[o].at = "placed"
        /\ UNCHANGED <<body, part, side, share, sharePart, cross, up, promised, discarded, overlap>>
    BY <1>7 DEF AcceptDropSource
  <2>2. inbox' \in [InName -> Upload \cup {NONE}]
    BY <1>7 DEF AcceptDropSource, TypeOK
  <2>3. PICK a \in {"done", "gone"} : op' = [op EXCEPT ![o].at = a] /\ killed' \in BOOLEAN
    BY <1>7 DEF AcceptDropSource, OpGoes, TypeOK
  <2>4. op' \in [Op -> OpRec] /\ CallInv'
    BY <1>0, <1>3, <2>1, <2>3
  <2> QED BY <2>1, <2>2, <2>3, <2>4 DEF TypeOK, OpRec
<1>8. CASE DiscardRemove(o)
  <2>1. /\ op[o].at = "discard"
        /\ UNCHANGED <<body, part, side, share, sharePart, cross, up, promised, overlap>>
    BY <1>8 DEF DiscardRemove
  <2>2. inbox' \in [InName -> Upload \cup {NONE}]
    BY <1>8 DEF DiscardRemove, TypeOK
  <2>3. PICK a \in {"done", "gone"} : op' = [op EXCEPT ![o].at = a] /\ killed' \in BOOLEAN
    BY <1>8 DEF DiscardRemove, OpGoes, TypeOK
  <2>4. op' \in [Op -> OpRec] /\ CallInv'
    BY <1>0, <1>3, <2>1, <2>3
  <2>5. discarded' \in SUBSET (Upload \cup Base)
    BY <1>0, <1>8, <2>1 DEF DiscardRemove, TypeOK, Object
  <2> QED BY <2>1, <2>2, <2>3, <2>4, <2>5 DEF TypeOK, OpRec
<1>9. CASE DropSidecar(o)
  <2>1. /\ op[o].at = "gone" /\ op' = [op EXCEPT ![o].at = "done"]
        /\ UNCHANGED <<body, part, inbox, share, sharePart, cross, up, promised, discarded, overlap, killed>>
    BY <1>9 DEF DropSidecar
  <2>2. side' \in [InName -> Upload \cup {NONE}]
    BY <1>9 DEF DropSidecar, TypeOK
  <2>3. op' \in [Op -> OpRec] /\ CallInv'
    BY <1>0, <1>3, <2>1
  <2> QED BY <2>1, <2>2, <2>3 DEF TypeOK, OpRec
<1>10. CASE OpFail(o)
  <2>1. /\ op[o].at # "new" /\ op' = [op EXCEPT ![o].at = "done"] /\ killed' = TRUE
        /\ UNCHANGED <<body, part, inbox, side, share, sharePart, cross, up, promised, discarded, overlap>>
    BY <1>10 DEF OpFail
  <2>2. op' \in [Op -> OpRec] /\ CallInv'
    BY <1>0, <1>3, <2>1
  <2> QED BY <2>1, <2>2 DEF TypeOK, OpRec
<1> QED BY <1>1, <1>2, <1>4, <1>5, <1>6, <1>7, <1>8, <1>9, <1>10 DEF OpStep

\* A killed daemon leaves its calls where they were.
LEMMA CrashedCalls ==
  ASSUME TypeOK, CallInv, Crash
  PROVE  /\ up' \in [Upload -> UpRec] /\ op' \in [Op -> OpRec]
         /\ \A u \in Upload :
              /\ up'[u].name = up[u].name /\ up'[u].file = up[u].file
              /\ up[u].at \in {"new", "done"} => up'[u].at = up[u].at
              /\ up[u].at \notin {"new", "done"} => up'[u].at = "failed"
         /\ \A o \in Op :
              /\ op'[o].name = op[o].name /\ op'[o].final = op[o].final
              /\ op[o].at = "new" => op'[o].at = "new"
              /\ op[o].at # "new" => op'[o].at = "done"
         /\ UNCHANGED <<body, part, inbox, side, share, sharePart, cross, promised, discarded, overlap>>
         /\ killed' = TRUE
<1>1. up \in [Upload -> UpRec] /\ op \in [Op -> OpRec]
  BY DEF TypeOK, UpRec, OpRec
<1>2. /\ up' = [u \in Upload |-> IF up[u].at \in {"new", "done"} THEN up[u]
                                ELSE [up[u] EXCEPT !.at = "failed"]]
      /\ op' = [o \in Op |-> IF op[o].at = "new" THEN op[o] ELSE [op[o] EXCEPT !.at = "done"]]
      /\ UNCHANGED <<body, part, inbox, side, share, sharePart, cross, promised, discarded, overlap>>
      /\ killed' = TRUE
  BY DEF Crash, dirs
<1>3. ASSUME NEW u \in Upload
      PROVE  /\ up'[u] \in UpRec /\ up'[u].name = up[u].name /\ up'[u].file = up[u].file
             /\ up[u].at \in {"new", "done"} => up'[u].at = up[u].at
             /\ up[u].at \notin {"new", "done"} => up'[u].at = "failed"
  BY <1>1, <1>2 DEF UpRec, UpAt
<1>4. ASSUME NEW o \in Op
      PROVE  /\ op'[o] \in OpRec /\ op'[o].name = op[o].name /\ op'[o].final = op[o].final
             /\ op[o].at = "new" => op'[o].at = "new"
             /\ op[o].at # "new" => op'[o].at = "done"
  BY <1>1, <1>2 DEF OpRec, OpAt
<1>5. up' \in [Upload -> UpRec] /\ op' \in [Op -> OpRec]
  BY <1>2, <1>3, <1>4
<1> QED BY <1>2, <1>3, <1>4, <1>5

LEMMA TypeStep == TypeOK /\ CallInv /\ [Next]_vars => TypeOK' /\ CallInv'
<1> SUFFICES ASSUME TypeOK, CallInv, [Next]_vars PROVE TypeOK' /\ CallInv'
  OBVIOUS
<1>1. CASE Crash
  <2>1. TypeOK'
    BY <1>1, CrashedCalls DEF TypeOK, UpRec, OpRec
  <2>2. CallInv'
    <3>1. /\ \A u \in Upload : /\ up'[u].name = up[u].name /\ up'[u].file = up[u].file
                               /\ up'[u].at \in {"new", "done"} \/ up'[u].at = "failed"
                               /\ up[u].at \in {"new", "done"} => up'[u].at = up[u].at
                               /\ up[u].at \notin {"new", "done"} => up'[u].at # "new"
          /\ \A o \in Op : /\ op'[o].name = op[o].name
                           /\ op'[o].at \in {"new", "done"} /\ (op'[o].at = "new" <=> op[o].at = "new")
          /\ promised' = promised
      BY <1>1, CrashedCalls
    <3>2. \A u \in Upload : /\ up'[u].at # "new" => up'[u].name \in InName
                            /\ up'[u].at \in {"open", "filled"} => up'[u].file \in Upload
      BY <3>1 DEF CallInv
    <3>3. \A o \in Op : /\ op'[o].at # "new" => op'[o].name \in InName
                        /\ op'[o].at \notin {"accept", "copied", "placed"}
      BY <3>1 DEF CallInv
    <3>4. promised' \subseteq Base \cup {u \in Upload : up'[u].at = "done"}
      BY <3>1 DEF CallInv
    <3> QED BY <3>2, <3>3, <3>4 DEF CallInv
  <2> QED BY <2>1, <2>2
<1>2. CASE UNCHANGED vars
  BY <1>2 DEF vars, TypeOK, CallInv
<1> QED BY <1>1, <1>2, UploadTypes, OpTypes DEF Next

\* Every variable of the inbox keeps its type, and a call has the names it works with
\* (InboxRoot's operations).
THEOREM InboxTypeCorrect == Spec => []TypeOK
<1>1. TypeOK /\ CallInv /\ [Next]_vars => (TypeOK /\ CallInv)'
  BY TypeStep
<1> QED BY <1>1, TypeInit, PTL DEF Spec

----------------------------------------------------------------------------
(* How calls go on *)

\* A call keeps the name it chose, and does not begin again.
CallsGoOn ==
  /\ \A u \in Upload :
       /\ up[u].at # "new" => up'[u].at # "new" /\ up'[u].name = up[u].name
       /\ up[u].at \notin {"new", "chosen"} => up'[u].at # "chosen"
  /\ \A o \in Op :
       /\ op[o].at # "new" => op'[o].at # "new" /\ op'[o].name = op[o].name
       /\ op[o].at \notin {"new", "accept"} => op'[o].at # "accept"
  /\ overlap \subseteq overlap'

LEMMA CallsDoGoOn == TypeOK /\ CallInv /\ [Next]_vars => CallsGoOn
<1> SUFFICES ASSUME TypeOK, CallInv, [Next]_vars PROVE CallsGoOn
  OBVIOUS
<1> USE DEF dirs, observed, asked
<1>0. up \in [Upload -> UpRec] /\ op \in [Op -> OpRec]
  BY DEF TypeOK, UpRec, OpRec
<1>1. ASSUME NEW u \in Upload, NEW b \in Base, UploadChoose(u, b) PROVE CallsGoOn
  <2>1. overlap \subseteq overlap'
    BY <1>1, MeetsTyped DEF UploadChoose
  <2> QED BY <1>0, <1>1, <2>1 DEF UploadChoose, CallsGoOn, UpRec
<1>2. ASSUME NEW u \in Upload,
             PartOpen(u) \/ PartFill(u) \/ UploadRename(u) \/ UploadSidecar(u) \/ UploadFail(u)
      PROVE  CallsGoOn
  <2>1. PICK a \in UpAt \ {"new", "chosen"} :
          \/ up' = [up EXCEPT ![u].at = a]
          \/ \E f : up' = [up EXCEPT ![u].at = a, ![u].file = f]
    <3>1. CASE PartOpen(u)
      BY <3>1 DEF PartOpen, UpAt
    <3>2. CASE PartFill(u) \/ UploadRename(u) \/ UploadSidecar(u)
      BY <3>2 DEF PartFill, UploadRename, UploadSidecar, UpGoes, UpAt
    <3>3. CASE UploadFail(u)
      BY <3>3 DEF UploadFail, UpAt
    <3> QED BY <1>2, <3>1, <3>2, <3>3
  <2>2. op' = op /\ overlap' = overlap
    BY <1>2 DEF PartOpen, PartFill, UploadRename, UploadSidecar, UploadFail
  <2> QED BY <1>0, <2>1, <2>2 DEF CallsGoOn, UpRec
<1>3. ASSUME NEW o \in Op, NEW nm \in InName, AcceptStart(o, nm) \/ DiscardStart(o, nm)
      PROVE  CallsGoOn
  <2>1. overlap \subseteq overlap' /\ up' = up /\ op[o].at = "new"
    BY <1>3, MeetsTyped, NameFacts DEF AcceptStart, DiscardStart
  <2>2. \E r : op' = [op EXCEPT ![o] = r]
    BY <1>3 DEF AcceptStart, DiscardStart
  <2> QED BY <1>0, <2>1, <2>2 DEF CallsGoOn, OpRec
<1>4. ASSUME NEW o \in Op,
             \/ AcceptMove(o) \/ AcceptCopy(o) \/ AcceptPlace(o) \/ AcceptDropSource(o)
             \/ DiscardRemove(o) \/ DropSidecar(o) \/ OpFail(o)
      PROVE  CallsGoOn
  <2>1. PICK a \in OpAt \ {"new", "accept"} : op' = [op EXCEPT ![o].at = a]
    <3>1. CASE AcceptMove(o) \/ AcceptCopy(o) \/ AcceptPlace(o)
      BY <3>1 DEF AcceptMove, AcceptCopy, AcceptPlace, OpGoes, OpAt
    <3>2. CASE AcceptDropSource(o) \/ DiscardRemove(o) \/ DropSidecar(o) \/ OpFail(o)
      BY <3>2 DEF AcceptDropSource, DiscardRemove, DropSidecar, OpFail, OpGoes, OpAt
    <3> QED BY <1>4, <3>1, <3>2
  <2>2. up' = up /\ overlap' = overlap
    BY <1>4 DEF AcceptMove, AcceptCopy, AcceptPlace, AcceptDropSource, DiscardRemove, DropSidecar, OpFail
  <2> QED BY <1>0, <2>1, <2>2 DEF CallsGoOn, OpRec
<1>5. CASE Crash
  BY <1>5, CrashedCalls DEF CallsGoOn
<1>6. CASE UNCHANGED vars
  BY <1>6 DEF vars, CallsGoOn
<1> QED BY <1>1, <1>2, <1>3, <1>4, <1>5, <1>6 DEF Next, UploadStep, OpStep

\* What was made or sent stays so.
LEMMA MadeStays ==
  ASSUME CallsGoOn
  PROVE  /\ \A f, b : Made(f, b, up, op) => Made(f, b, up', op')
         /\ \A x, b : Sent(x, b, up) => Sent(x, b, up')
BY DEF CallsGoOn, Made, Sent

LEMMA MadeOnce ==
  ASSUME NEW f, NEW b, NEW c, NEW us, NEW os, Made(f, b, us, os), Made(f, c, us, os)
  PROVE  b = c
BY DEF Made, Object

LEMMA SentOnce ==
  ASSUME NEW x, NEW b, NEW c, NEW us, Sent(x, b, us), Sent(x, c, us)
  PROVE  b = c
BY DEF Sent

\* A file nobody writes to stays homely.
LEMMA HomelyStays ==
  ASSUME CallsGoOn, NEW f \in Object, Homely(f, body[f], up, op)
  PROVE  Homely(f, body[f], up', op')
<1>1. ASSUME NEW b \in Base, Made(f, b, up', op'), NEW x \in body[f] PROVE Sent(x, b, up')
  <2>1. PICK c \in Base : Made(f, c, up, op)
    BY <1>1 DEF Homely
  <2>2. Sent(x, c, up) /\ Made(f, c, up', op')
    BY <1>1, <2>1, MadeStays DEF Homely
  <2>3. b = c
    BY <1>1, <2>2, MadeOnce
  <2> QED BY <2>2, <2>3, MadeStays
<1>2. (\A b \in Base : ~Made(f, b, up', op')) => body[f] = {}
  BY MadeStays DEF Homely
<1> QED BY <1>1, <1>2 DEF Homely

----------------------------------------------------------------------------
(* Nothing leaves its base name *)

\* Only what a step puts somewhere has to be looked at.
LEMMA HomeFrame ==
  ASSUME TypeOK, CallInv, HomeInv, CallsGoOn,
         \A nm \in InName : part'[nm] \in {part[nm], NONE} \/ Made(part'[nm], nm[1], up', op'),
         \A nm \in InName : inbox'[nm] \in {inbox[nm], NONE} \/ Made(inbox'[nm], nm[1], up', op'),
         \A nm \in Name : share'[nm] \in {share[nm], NONE} \/ Made(share'[nm], nm[1], up', op'),
         \A nm \in Name :
           sharePart'[nm] \in {sharePart[nm], NONE} \/ Made(sharePart'[nm], nm[1], up', op'),
         \A u \in Upload : up'[u].at \in {"open", "filled"} =>
           \/ up[u].at \in {"open", "filled"} /\ up'[u].file = up[u].file
           \/ Made(up'[u].file, up'[u].name[1], up', op'),
         \A f \in Object : body'[f] = body[f] \/ Homely(f, body'[f], up', op')
  PROVE  HomeInv'
<1>1. \A f, b : Made(f, b, up, op) => Made(f, b, up', op')
  BY MadeStays
<1>2. \A nm \in InName : /\ part'[nm] # NONE => Made(part'[nm], nm[1], up', op')
                         /\ inbox'[nm] # NONE => Made(inbox'[nm], nm[1], up', op')
  BY <1>1 DEF HomeInv
<1>3. \A nm \in Name : /\ share'[nm] # NONE => Made(share'[nm], nm[1], up', op')
                       /\ sharePart'[nm] # NONE => Made(sharePart'[nm], nm[1], up', op')
  BY <1>1 DEF HomeInv
<1>4. \A u \in Upload : up'[u].at \in {"open", "filled"} =>
        Made(up'[u].file, up'[u].name[1], up', op')
  <2> SUFFICES ASSUME NEW u \in Upload, up[u].at \in {"open", "filled"},
                      up'[u].file = up[u].file
               PROVE  Made(up'[u].file, up'[u].name[1], up', op')
    OBVIOUS
  <2>1. up'[u].name = up[u].name
    BY DEF CallsGoOn
  <2> QED BY <1>1, <2>1 DEF HomeInv
<1>5. \A f \in Object : Homely(f, body'[f], up', op')
  BY HomelyStays DEF HomeInv
<1> QED BY <1>2, <1>3, <1>4, <1>5 DEF HomeInv

\* A step that leaves the files alone.
LEMMA HomeStill ==
  ASSUME TypeOK, CallInv, HomeInv, CallsGoOn, UNCHANGED <<body, part, share, sharePart>>,
         \A nm \in InName : inbox'[nm] \in {inbox[nm], NONE},
         \A u \in Upload : up'[u].at \in {"open", "filled"} =>
           up[u].at \in {"open", "filled"} /\ up'[u].file = up[u].file
  PROVE  HomeInv'
BY HomeFrame

\* Every step of an upload and of the owner's calls.
LEMMA HomeStep == TypeOK /\ CallInv /\ HomeInv /\ [Next]_vars => HomeInv'
<1> SUFFICES ASSUME TypeOK, CallInv, HomeInv, [Next]_vars PROVE HomeInv'
  OBVIOUS
<1> USE DEF dirs, observed, asked
<1>0. /\ CallsGoOn /\ up \in [Upload -> UpRec] /\ op \in [Op -> OpRec]
      /\ body \in [Object -> SUBSET (Upload \cup Base)]
  BY CallsDoGoOn DEF TypeOK, UpRec, OpRec
<1>1. ASSUME NEW u \in Upload,
             \/ \E b \in Base : UploadChoose(u, b)
             \/ UploadSidecar(u) \/ UploadFail(u)
      PROVE  HomeInv'
  <2>1. UNCHANGED <<body, part, inbox, share, sharePart>>
    BY <1>1 DEF UploadChoose, UploadSidecar, UploadFail
  <2>2. PICK a \in {"chosen", "done", "failed"} :
          up' = [up EXCEPT ![u].at = a] \/ \E nm : up' = [up EXCEPT ![u].at = a, ![u].name = nm]
    <3>1. CASE UploadSidecar(u)
      BY <3>1 DEF UploadSidecar, UpGoes
    <3>2. CASE UploadFail(u) \/ \E b \in Base : UploadChoose(u, b)
      BY <3>2 DEF UploadFail, UploadChoose
    <3> QED BY <1>1, <3>1, <3>2
  <2>3. \A v \in Upload : up'[v].at \in {"open", "filled"} =>
          up[v].at \in {"open", "filled"} /\ up'[v].file = up[v].file
    BY <1>0, <2>2 DEF UpRec
  <2> QED BY <1>0, <2>1, <2>3, HomeStill
<1>2. ASSUME NEW u \in Upload, PartOpen(u) PROVE HomeInv'
  <2> DEFINE nm == up[u].name
             f == IF part[nm] = NONE THEN u ELSE part[nm]
  <2>1. /\ up[u].at = "chosen" /\ nm \in InName /\ f \in Upload
        /\ part' = [part EXCEPT ![nm] = f] /\ body' = [body EXCEPT ![f] = {}]
        /\ up' = [up EXCEPT ![u].at = "open", ![u].file = f]
        /\ UNCHANGED <<inbox, share, sharePart, op>>
    BY <1>2 DEF PartOpen, CallInv, TypeOK
  <2>2. Made(f, nm[1], up', op')
    <3>1. CASE part[nm] = NONE
      BY <1>0, <2>1, <3>1 DEF Made, UpRec
    <3>2. CASE part[nm] # NONE
      BY <1>0, <2>1, <3>2, MadeStays DEF HomeInv
    <3> QED BY <3>1, <3>2
  <2> HIDE DEF f, nm
  <2>3. up'[u].name = nm /\ up'[u].file = f /\ \A v \in Upload \ {u} : up'[v] = up[v]
    BY <1>0, <2>1 DEF UpRec, nm
  <2>4. \A g \in Object : body'[g] = body[g] \/ Homely(g, body'[g], up', op')
    BY <1>0, <2>1 DEF Homely
  <2>5. \A n \in InName : part'[n] \in {part[n], NONE} \/ Made(part'[n], n[1], up', op')
    BY <2>1, <2>2 DEF TypeOK
  <2>6. \A v \in Upload : up'[v].at \in {"open", "filled"} =>
           \/ up[v].at \in {"open", "filled"} /\ up'[v].file = up[v].file
           \/ Made(up'[v].file, up'[v].name[1], up', op')
    BY <2>2, <2>3
  <2> QED BY <1>0, <2>1, <2>4, <2>5, <2>6, HomeFrame
<1>3. ASSUME NEW u \in Upload, PartFill(u) PROVE HomeInv'
  <2> DEFINE f == up[u].file
             b == up[u].name[1]
  <2>1. /\ up[u].at = "open" /\ UNCHANGED <<part, inbox, share, sharePart, op>>
        /\ f \in Upload /\ up[u].name \in InName /\ Made(f, b, up, op)
    BY <1>3 DEF PartFill, CallInv, HomeInv
  <2>0. PICK a \in {"filled", "failed"} : up' = [up EXCEPT ![u].at = a]
    BY <1>3 DEF PartFill, UpGoes
  <2>2. PICK bytes \in {{u}, body[f] \cup {u}} : body' = [body EXCEPT ![f] = bytes]
    BY <1>3 DEF PartFill
  <2>3. b \in Base /\ f \in Object
    BY <2>1, NameFacts DEF Object
  <2>4. Sent(u, b, up') /\ Made(f, b, up', op')
    <3>1. Made(f, b, up', op')
      BY <1>0, <2>1, MadeStays
    <3>2. Sent(u, b, up')
      BY <1>0, <2>0, <2>1 DEF Sent, UpRec
    <3> QED BY <3>1, <3>2
  <2>5. \A x \in body[f] : Sent(x, b, up')
    <3>1. \A x \in body[f] : Sent(x, b, up)
      BY <2>1, <2>3 DEF HomeInv, Homely
    <3> QED BY <1>0, <3>1, MadeStays
  <2>6. \A v \in Upload : up'[v].at \in {"open", "filled"} =>
          up[v].at \in {"open", "filled"} /\ up'[v].file = up[v].file
    BY <1>0, <2>0, <2>1 DEF UpRec
  <2> HIDE DEF f, b
  <2>7. Homely(f, bytes, up', op')
    <3>1. \A x \in bytes : Sent(x, b, up')
      BY <2>2, <2>4, <2>5
    <3>2. \A c \in Base : Made(f, c, up', op') => c = b
      BY <2>4, MadeOnce
    <3> QED BY <2>3, <2>4, <3>1, <3>2 DEF Homely
  <2>8. \A g \in Object : body'[g] = body[g] \/ Homely(g, body'[g], up', op')
    BY <1>0, <2>2, <2>7
  <2> QED BY <1>0, <2>1, <2>6, <2>8, HomeFrame
<1>4. ASSUME NEW u \in Upload, UploadRename(u) PROVE HomeInv'
  <2> DEFINE nm == up[u].name
  <2>1. /\ up[u].at = "filled" /\ nm \in InName
        /\ UNCHANGED <<body, share, sharePart, op>>
    BY <1>4 DEF UploadRename, CallInv
  <2>2. PICK a \in {"failed", "renamed"} : up' = [up EXCEPT ![u].at = a]
    BY <1>4 DEF UploadRename, UpGoes
  <2>3. \/ UNCHANGED <<part, inbox>>
        \/ /\ part[nm] # NONE
           /\ inbox' = [inbox EXCEPT ![nm] = part[nm]] /\ part' = [part EXCEPT ![nm] = NONE]
    BY <1>4 DEF UploadRename
  <2>4. \A v \in Upload : up'[v].at \in {"open", "filled"} =>
          up[v].at \in {"open", "filled"} /\ up'[v].file = up[v].file
    BY <1>0, <2>2 DEF UpRec
  <2>5. part[nm] # NONE => Made(part[nm], nm[1], up', op')
    BY <1>0, <2>1, MadeStays DEF HomeInv
  <2> HIDE DEF nm
  <2>6. \A n \in InName : /\ part'[n] \in {part[n], NONE}
                          /\ inbox'[n] \in {inbox[n], NONE} \/ Made(inbox'[n], n[1], up', op')
    BY <2>1, <2>3, <2>5 DEF TypeOK
  <2> QED BY <1>0, <2>1, <2>4, <2>6, HomeFrame
<1>5. ASSUME NEW o \in Op,
             \/ \E nm \in InName : AcceptStart(o, nm) \/ DiscardStart(o, nm)
             \/ AcceptDropSource(o) \/ DiscardRemove(o) \/ DropSidecar(o) \/ OpFail(o)
      PROVE  HomeInv'
  <2>1. UNCHANGED <<body, part, share, sharePart, up>>
    BY <1>5 DEF AcceptStart, DiscardStart, AcceptDropSource, DiscardRemove, DropSidecar, OpFail
  <2>2. inbox' = inbox \/ inbox' = [inbox EXCEPT ![op[o].name] = NONE]
    BY <1>5 DEF AcceptStart, DiscardStart, AcceptDropSource, DiscardRemove, DropSidecar, OpFail
  <2>3. \A nm \in InName : inbox'[nm] \in {inbox[nm], NONE}
    BY <2>2 DEF TypeOK
  <2> QED BY <1>0, <2>1, <2>3, HomeStill
<1>6. ASSUME NEW o \in Op, AcceptMove(o) PROVE HomeInv'
  <2> DEFINE nm == op[o].name
             final == op[o].final
  <2>1. /\ op[o].at = "accept" /\ nm \in InName /\ final \in Name /\ final[1] = nm[1]
        /\ UNCHANGED <<body, part, sharePart, up>>
    BY <1>6 DEF AcceptMove, CallInv
  <2>2. \/ UNCHANGED <<inbox, share>>
        \/ /\ inbox[nm] # NONE
           /\ share' = [share EXCEPT ![final] = inbox[nm]] /\ inbox' = [inbox EXCEPT ![nm] = NONE]
    BY <1>6 DEF AcceptMove
  <2>3. inbox[nm] # NONE => Made(inbox[nm], final[1], up', op')
    BY <1>0, <2>1, MadeStays DEF HomeInv
  <2> HIDE DEF nm, final
  <2>4. /\ \A n \in InName : inbox'[n] \in {inbox[n], NONE}
        /\ \A n \in Name : share'[n] \in {share[n], NONE} \/ Made(share'[n], n[1], up', op')
    BY <2>1, <2>2, <2>3 DEF TypeOK
  <2> QED BY <1>0, <2>1, <2>4, HomeFrame
<1>7. ASSUME NEW o \in Op, AcceptCopy(o) PROVE HomeInv'
  <2> DEFINE nm == op[o].name
             final == op[o].final
             f == IF sharePart[final] = NONE THEN o ELSE sharePart[final]
  <2>1. /\ op[o].at = "accept" /\ nm \in InName /\ final \in Name /\ final[1] = nm[1]
        /\ UNCHANGED <<part, inbox, share, up>>
    BY <1>7 DEF AcceptCopy, CallInv
  <2>2. CASE inbox[nm] = NONE
    <3>1. UNCHANGED <<body, sharePart>>
      BY <1>7, <2>2 DEF AcceptCopy
    <3> QED BY <1>0, <2>1, <3>1, HomeStill
  <2>3. CASE inbox[nm] # NONE
    <3>1. /\ sharePart' = [sharePart EXCEPT ![final] = f]
          /\ body' = [body EXCEPT ![f] = body[inbox[nm]]]
      BY <1>7, <2>3 DEF AcceptCopy
    <3>0. PICK a \in {"copied", "done"} : op' = [op EXCEPT ![o].at = a]
      BY <1>7, <2>3 DEF AcceptCopy, OpGoes
    <3>2. Made(f, final[1], up', op') /\ Made(inbox[nm], final[1], up, op)
      <4>1. Made(inbox[nm], final[1], up, op)
        BY <2>1, <2>3 DEF HomeInv
      <4>2. CASE sharePart[final] = NONE
        BY <1>0, <2>1, <3>0, <4>1, <4>2 DEF Made, OpRec
      <4>3. CASE sharePart[final] # NONE
        BY <1>0, <2>1, <4>1, <4>3, MadeStays DEF HomeInv
      <4> QED BY <4>2, <4>3
    <3>3. inbox[nm] \in Object /\ final[1] \in Base
      BY <2>1, <2>3, NameFacts DEF TypeOK, Object
    <3> HIDE DEF nm, final, f
    <3>4. \A x \in body[inbox[nm]] : Sent(x, final[1], up')
      <4>1. \A x \in body[inbox[nm]] : Sent(x, final[1], up)
        BY <3>2, <3>3 DEF HomeInv, Homely
      <4> QED BY <1>0, <4>1, MadeStays
    <3>5. Homely(f, body[inbox[nm]], up', op')
      <4>1. \A c \in Base : Made(f, c, up', op') => c = final[1]
        BY <3>2, MadeOnce
      <4> QED BY <3>2, <3>3, <3>4, <4>1 DEF Homely
    <3>6. \A g \in Object : body'[g] = body[g] \/ Homely(g, body'[g], up', op')
      BY <1>0, <3>1, <3>5
    <3>7. \A n \in Name : sharePart'[n] \in {sharePart[n], NONE} \/ Made(sharePart'[n], n[1], up', op')
      BY <2>1, <3>1, <3>2 DEF TypeOK
    <3> QED BY <1>0, <2>1, <3>6, <3>7, HomeFrame
  <2> QED BY <2>2, <2>3
<1>8. ASSUME NEW o \in Op, AcceptPlace(o) PROVE HomeInv'
  <2> DEFINE final == op[o].final
  <2>1. op[o].at = "copied" /\ final \in Name /\ UNCHANGED <<body, part, inbox, up>>
    BY <1>8 DEF AcceptPlace, CallInv
  <2>2. \/ UNCHANGED <<share, sharePart>>
        \/ /\ sharePart[final] # NONE
           /\ share' = [share EXCEPT ![final] = sharePart[final]]
           /\ sharePart' = [sharePart EXCEPT ![final] = NONE]
    BY <1>8 DEF AcceptPlace
  <2>3. sharePart[final] # NONE => Made(sharePart[final], final[1], up', op')
    BY <1>0, <2>1, MadeStays DEF HomeInv
  <2> HIDE DEF final
  <2>4. \A n \in Name : /\ sharePart'[n] \in {sharePart[n], NONE}
                        /\ share'[n] \in {share[n], NONE} \/ Made(share'[n], n[1], up', op')
    BY <2>1, <2>2, <2>3 DEF TypeOK
  <2> QED BY <1>0, <2>1, <2>4, HomeFrame
<1>9. CASE Crash
  <2>1. /\ UNCHANGED <<body, part, inbox, share, sharePart>>
        /\ \A u \in Upload : up'[u].at \notin {"open", "filled"}
    BY <1>9, CrashedCalls
  <2> QED BY <1>0, <2>1, HomeStill
<1>10. CASE UNCHANGED vars
  BY <1>10 DEF vars, HomeInv
<1> QED BY <1>1, <1>2, <1>3, <1>4, <1>5, <1>6, <1>7, <1>8, <1>9, <1>10 DEF Next, UploadStep, OpStep

----------------------------------------------------------------------------
(* Temp files *)

\* A file that is still to be made is in no directory.
LEMMA UnmadeNowhere ==
  ASSUME TypeOK, HomeInv, NEW f, \A b : ~Made(f, b, up, op)
  PROVE  /\ \A nm \in InName : (part[nm] = f \/ inbox[nm] = f) => f = NONE
         /\ \A nm \in Name : (share[nm] = f \/ sharePart[nm] = f) => f = NONE
BY DEF HomeInv

\* Only opens, copies and renames touch a temp file.
LEMMA TempStep == TypeOK /\ CallInv /\ HomeInv /\ TempInv /\ [Next]_vars => TempInv'
<1> SUFFICES ASSUME TypeOK, CallInv, HomeInv, TempInv, [Next]_vars PROVE TempInv'
  OBVIOUS
<1> USE DEF dirs, observed, asked
<1>0. /\ part \in [InName -> Upload \cup {NONE}] /\ inbox \in [InName -> Upload \cup {NONE}]
      /\ share \in [Name -> Object \cup {NONE}] /\ sharePart \in [Name -> Op \cup {NONE}]
      /\ Upload \cap Op = {} /\ NONE \notin Upload /\ NONE \notin Op
  BY DEF TypeOK, Object
<1>1. ASSUME UNCHANGED <<part, share, sharePart>>,
             \A nm \in InName : inbox'[nm] \in {inbox[nm], NONE}
      PROVE  TempInv'
  BY <1>0, <1>1 DEF TempInv
<1>2. ASSUME NEW u \in Upload, PartOpen(u) PROVE TempInv'
  <2> DEFINE nm == up[u].name
  <2>1. /\ up[u].at = "chosen" /\ nm \in InName /\ UNCHANGED <<inbox, share, sharePart>>
        /\ part' = [part EXCEPT ![nm] = IF part[nm] = NONE THEN u ELSE part[nm]]
    BY <1>2 DEF PartOpen, CallInv
  <2>2. CASE part[nm] = NONE
    <3>1. \A b : ~Made(u, b, up, op)
      BY <2>1 DEF Made
    <3>2. /\ \A n \in InName : part[n] # u /\ inbox[n] # u
          /\ \A n \in Name : share[n] # u
      BY <1>0, <3>1, UnmadeNowhere
    <3>3. part' = [part EXCEPT ![nm] = u]
      BY <2>1, <2>2
    <3> HIDE DEF nm
    <3> QED BY <1>0, <2>1, <3>2, <3>3 DEF TempInv
  <2>3. CASE part[nm] # NONE
    <3>1. part' = part
      BY <1>0, <2>1, <2>3
    <3> QED BY <2>1, <3>1 DEF TempInv
  <2> QED BY <2>2, <2>3
<1>3. ASSUME NEW u \in Upload, UploadRename(u) PROVE TempInv'
  <2> DEFINE nm == up[u].name
  <2>1. nm \in InName /\ UNCHANGED <<share, sharePart>>
    BY <1>3 DEF UploadRename, CallInv
  <2>2. \/ UNCHANGED <<part, inbox>>
        \/ /\ part[nm] # NONE
           /\ inbox' = [inbox EXCEPT ![nm] = part[nm]] /\ part' = [part EXCEPT ![nm] = NONE]
    BY <1>3 DEF UploadRename
  <2> HIDE DEF nm
  <2> QED BY <1>0, <2>1, <2>2 DEF TempInv
<1>4. ASSUME NEW o \in Op, AcceptMove(o) PROVE TempInv'
  <2> DEFINE nm == op[o].name
             final == op[o].final
  <2>1. nm \in InName /\ final \in Name /\ UNCHANGED <<part, sharePart>>
    BY <1>4 DEF AcceptMove, CallInv
  <2>2. \/ UNCHANGED <<inbox, share>>
        \/ /\ inbox[nm] # NONE
           /\ share' = [share EXCEPT ![final] = inbox[nm]] /\ inbox' = [inbox EXCEPT ![nm] = NONE]
    BY <1>4 DEF AcceptMove
  <2> HIDE DEF nm, final
  <2> QED BY <1>0, <2>1, <2>2 DEF TempInv
<1>5. ASSUME NEW o \in Op, AcceptCopy(o) PROVE TempInv'
  <2> DEFINE final == op[o].final
  <2>1. /\ op[o].at = "accept" /\ final \in Name /\ UNCHANGED <<part, inbox, share>>
        /\ \/ sharePart' = sharePart
           \/ sharePart' = [sharePart EXCEPT ![final] =
                              IF sharePart[final] = NONE THEN o ELSE sharePart[final]]
    BY <1>5 DEF AcceptCopy, CallInv
  <2>2. CASE sharePart' = sharePart
    BY <2>1, <2>2 DEF TempInv
  <2>3. CASE sharePart[final] # NONE
    <3>1. sharePart' = sharePart
      BY <1>0, <2>1, <2>3
    <3> QED BY <2>1, <3>1 DEF TempInv
  <2>4. CASE sharePart[final] = NONE /\ sharePart' = [sharePart EXCEPT ![final] = o]
    <3>1. \A b : ~Made(o, b, up, op)
      BY <2>1 DEF Made
    <3>2. \A n \in Name : sharePart[n] # o /\ share[n] # o
      BY <1>0, <3>1, UnmadeNowhere
    <3> HIDE DEF final
    <3> QED BY <1>0, <2>1, <2>4, <3>2 DEF TempInv
  <2> QED BY <2>1, <2>2, <2>3, <2>4
<1>6. ASSUME NEW o \in Op, AcceptPlace(o) PROVE TempInv'
  <2> DEFINE final == op[o].final
  <2>1. final \in Name /\ UNCHANGED <<part, inbox>>
    BY <1>6 DEF AcceptPlace, CallInv
  <2>2. \/ UNCHANGED <<share, sharePart>>
        \/ /\ sharePart[final] # NONE
           /\ share' = [share EXCEPT ![final] = sharePart[final]]
           /\ sharePart' = [sharePart EXCEPT ![final] = NONE]
    BY <1>6 DEF AcceptPlace
  <2> HIDE DEF final
  <2> QED BY <1>0, <2>1, <2>2 DEF TempInv
<1>7. ASSUME NEW u \in Upload,
             \/ \E b \in Base : UploadChoose(u, b)
             \/ PartFill(u) \/ UploadSidecar(u) \/ UploadFail(u)
      PROVE  TempInv'
  <2>1. UNCHANGED <<part, inbox, share, sharePart>>
    BY <1>7 DEF UploadChoose, PartFill, UploadSidecar, UploadFail
  <2> QED BY <1>1, <2>1
<1>8. ASSUME NEW o \in Op,
             \/ \E nm \in InName : AcceptStart(o, nm) \/ DiscardStart(o, nm)
             \/ AcceptDropSource(o) \/ DiscardRemove(o) \/ DropSidecar(o) \/ OpFail(o)
      PROVE  TempInv'
  <2>1. UNCHANGED <<part, share, sharePart>>
    BY <1>8 DEF AcceptStart, DiscardStart, AcceptDropSource, DiscardRemove, DropSidecar, OpFail
  <2>2. inbox' = inbox \/ inbox' = [inbox EXCEPT ![op[o].name] = NONE]
    BY <1>8 DEF AcceptStart, DiscardStart, AcceptDropSource, DiscardRemove, DropSidecar, OpFail
  <2>3. \A nm \in InName : inbox'[nm] \in {inbox[nm], NONE}
    BY <1>0, <2>2
  <2> QED BY <1>1, <2>1, <2>3
<1>9. CASE Crash \/ UNCHANGED vars
  BY <1>1, <1>9 DEF Crash, vars
<1> QED BY <1>2, <1>3, <1>4, <1>5, <1>6, <1>7, <1>8, <1>9 DEF Next, UploadStep, OpStep

----------------------------------------------------------------------------
(* Calls on one entry have met *)

\* A call that starts without a meeting finds its entries free.
LEMMA MeetsNobody ==
  ASSUME NEW E, NEW b, Meets(E, b), b \notin overlap'
  PROVE  /\ b \notin overlap
         /\ \A u \in Upload : Sending(u) => <<"inbox", up[u].name>> \notin E
         /\ \A o \in Op : /\ Acting(o) => <<"inbox", op[o].name>> \notin E
                          /\ Placing(o) => <<"share", op[o].final>> \notin E
<1> DEFINE busy == UNION ({UpBusy(u) : u \in Upload} \cup {OpBusy(o) : o \in Op})
<1>1. overlap' = IF E \cap busy # {} THEN overlap \cup {b} ELSE overlap
  BY DEF Meets
<1>2. b \notin overlap /\ E \cap busy = {}
  BY <1>1
<1>3. ASSUME NEW u \in Upload, Sending(u) PROVE <<"inbox", up[u].name>> \in busy
  BY <1>3 DEF Sending, UpBusy
<1>4. ASSUME NEW o \in Op, Acting(o) PROVE <<"inbox", op[o].name>> \in busy
  <2>1. <<"inbox", op[o].name>> \in OpBusy(o)
    BY <1>4 DEF Acting, OpBusy
  <2> QED BY <2>1
<1>5. ASSUME NEW o \in Op, Placing(o) PROVE <<"share", op[o].final>> \in busy
  <2>1. <<"share", op[o].final>> \in OpBusy(o)
    BY <1>5 DEF Placing, OpBusy
  <2> QED BY <2>1
<1> HIDE DEF busy
<1> QED BY <1>2, <1>3, <1>4, <1>5

\* A step that takes calls off their entries, if anything.
LEMMA AloneStill ==
  ASSUME AloneInv, overlap \subseteq overlap',
         \A u \in Upload : Sending(u)' => Sending(u) /\ up'[u].name = up[u].name,
         \A o \in Op : /\ Acting(o)' => Acting(o) /\ op'[o].name = op[o].name
                       /\ Placing(o)' => /\ Placing(o)
                                         /\ op'[o].final = op[o].final
                                         /\ op'[o].name = op[o].name
  PROVE  AloneInv'
BY DEF AloneInv

LEMMA AloneStep == TypeOK /\ CallInv /\ AloneInv /\ [Next]_vars => AloneInv'
<1> SUFFICES ASSUME TypeOK, CallInv, AloneInv, [Next]_vars PROVE AloneInv'
  OBVIOUS
<1> USE DEF dirs, observed, asked
<1>0. up \in [Upload -> UpRec] /\ op \in [Op -> OpRec] /\ overlap \subseteq overlap'
  BY CallsDoGoOn DEF TypeOK, UpRec, OpRec, CallsGoOn
<1>1. ASSUME NEW u \in Upload, NEW b \in Base, UploadChoose(u, b) PROVE AloneInv'
  <2> DEFINE stored == Dedupe(inbox, <<b, <<>>>>)
  <2>1. stored \in InName /\ stored[1] = b
    BY <1>1, InboxName DEF UploadChoose
  <2>2. /\ up' = [up EXCEPT ![u].at = "chosen", ![u].name = stored] /\ op' = op
        /\ Meets({<<"inbox", stored>>}, b)
    BY <1>1 DEF UploadChoose
  <2> HIDE DEF stored
  <2>3. /\ up'[u].name = stored /\ \A v \in Upload \ {u} : up'[v] = up[v]
    BY <1>0, <2>2 DEF UpRec
  <2>4. b \in overlap' \/ /\ \A v \in Upload : Sending(v) => up[v].name # stored
                          /\ \A o \in Op : Acting(o) => op[o].name # stored
    BY <2>2, MeetsNobody
  <2>5. \A v, w \in Upload :
          Sending(v)' /\ Sending(w)' /\ up'[v].name = up'[w].name => v = w \/ up'[v].name[1] \in overlap'
    BY <1>0, <2>1, <2>3, <2>4 DEF AloneInv, Sending
  <2>6. \A v \in Upload, o \in Op :
          Sending(v)' /\ Acting(o)' /\ up'[v].name = op'[o].name => up'[v].name[1] \in overlap'
    BY <1>0, <2>1, <2>2, <2>3, <2>4 DEF AloneInv, Sending, Acting
  <2>7. \A o, p \in Op :
          /\ Acting(o)' /\ Acting(p)' /\ op'[o].name = op'[p].name => o = p \/ op'[o].name[1] \in overlap'
          /\ Placing(o)' /\ Placing(p)' /\ op'[o].final = op'[p].final => o = p \/ op'[o].name[1] \in overlap'
    BY <1>0, <2>2 DEF AloneInv, Acting, Placing
  <2> QED BY <2>5, <2>6, <2>7 DEF AloneInv
<1>2. ASSUME NEW u \in Upload,
             PartOpen(u) \/ PartFill(u) \/ UploadRename(u) \/ UploadSidecar(u) \/ UploadFail(u)
      PROVE  AloneInv'
  <2>1. PICK a \in UpAt :
          \/ up' = [up EXCEPT ![u].at = a]
          \/ \E f : up' = [up EXCEPT ![u].at = a, ![u].file = f]
    <3>1. CASE PartOpen(u)
      BY <3>1 DEF PartOpen, UpAt
    <3>2. CASE PartFill(u) \/ UploadRename(u) \/ UploadSidecar(u)
      BY <3>2 DEF PartFill, UploadRename, UploadSidecar, UpGoes, UpAt
    <3>3. CASE UploadFail(u)
      BY <3>3 DEF UploadFail, UpAt
    <3> QED BY <1>2, <3>1, <3>2, <3>3
  <2>2. op' = op /\ Sending(u)
    BY <1>2 DEF PartOpen, PartFill, UploadRename, UploadSidecar, UploadFail, Sending
  <2>3. \A v \in Upload : Sending(v)' => Sending(v) /\ up'[v].name = up[v].name
    BY <1>0, <2>1, <2>2 DEF UpRec, Sending
  <2>4. \A o \in Op : /\ Acting(o)' => Acting(o) /\ op'[o].name = op[o].name
                      /\ Placing(o)' => /\ Placing(o)
                                        /\ op'[o].final = op[o].final
                                        /\ op'[o].name = op[o].name
    BY <2>2 DEF Acting, Placing
  <2> QED BY <1>0, <2>3, <2>4, AloneStill
<1>3. ASSUME NEW o \in Op, NEW nm \in InName, AcceptStart(o, nm) \/ DiscardStart(o, nm)
      PROVE  AloneInv'
  <2>0. PICK a \in {"accept", "discard"}, final \in Name \cup {NONE} : \E E :
          /\ op' = [op EXCEPT ![o] = [at |-> a, name |-> nm, final |-> final]]
          /\ <<"inbox", nm>> \in E /\ Meets(E, nm[1])
          /\ a = "accept" => final[1] = nm[1] /\ <<"share", final>> \in E
          /\ up' = up
    <3>1. CASE AcceptStart(o, nm)
      <4> DEFINE final == Dedupe(share, nm)
                 E == {<<"inbox", nm>>, <<"share", final>>}
      <4>1. final \in Name /\ final[1] = nm[1]
        BY <3>1, ShareName DEF AcceptStart
      <4>2. /\ op' = [op EXCEPT ![o] = [at |-> "accept", name |-> nm, final |-> final]]
            /\ Meets(E, nm[1]) /\ up' = up
        BY <3>1 DEF AcceptStart
      <4>3. <<"inbox", nm>> \in E /\ <<"share", final>> \in E
        OBVIOUS
      <4> HIDE DEF final, E
      <4> QED BY <4>1, <4>2, <4>3
    <3>2. CASE DiscardStart(o, nm)
      <4> DEFINE E == {<<"inbox", nm>>}
      <4>1. /\ op' = [op EXCEPT ![o] = [at |-> "discard", name |-> nm, final |-> NONE]]
            /\ Meets(E, nm[1]) /\ up' = up
        BY <3>2 DEF DiscardStart
      <4>2. <<"inbox", nm>> \in E
        OBVIOUS
      <4> HIDE DEF E
      <4> QED BY <4>1, <4>2
    <3> QED BY <1>3, <3>1, <3>2
  <2>1. PICK E :
          /\ op' = [op EXCEPT ![o] = [at |-> a, name |-> nm, final |-> final]]
          /\ <<"inbox", nm>> \in E /\ Meets(E, nm[1])
          /\ a = "accept" => final[1] = nm[1] /\ <<"share", final>> \in E
          /\ up' = up
    BY <2>0
  <2>2. \/ nm[1] \in overlap'
        \/ /\ \A u \in Upload : Sending(u) => up[u].name # nm
           /\ \A p \in Op : /\ Acting(p) => op[p].name # nm
                            /\ a = "accept" /\ Placing(p) => op[p].final # final
    BY <2>1, MeetsNobody
  <2>3. /\ op'[o] = [at |-> a, name |-> nm, final |-> final]
        /\ \A p \in Op \ {o} : op'[p] = op[p]
    BY <1>0, <2>1
  <2>4. /\ op'[o].at = a /\ op'[o].name = nm /\ op'[o].final = final
    BY <2>3
  <2>5. \A u, v \in Upload :
          Sending(u)' /\ Sending(v)' /\ up'[u].name = up'[v].name => u = v \/ up'[u].name[1] \in overlap'
    BY <1>0, <2>1 DEF AloneInv, Sending
  <2>6. \A u \in Upload, p \in Op :
          Sending(u)' /\ Acting(p)' /\ up'[u].name = op'[p].name => up'[u].name[1] \in overlap'
    BY <1>0, <2>1, <2>2, <2>3, <2>4 DEF AloneInv, Sending, Acting
  <2>7. \A p, q \in Op :
          Acting(p)' /\ Acting(q)' /\ op'[p].name = op'[q].name => p = q \/ op'[p].name[1] \in overlap'
    BY <1>0, <2>2, <2>3, <2>4 DEF AloneInv, Acting
  <2>8. ASSUME NEW p \in Op, NEW q \in Op, Placing(p)', Placing(q)', op'[p].final = op'[q].final
        PROVE  p = q \/ op'[p].name[1] \in overlap'
    <3>1. CASE p # o /\ q # o
      BY <1>0, <2>3, <2>8, <3>1 DEF AloneInv, Placing
    <3>2. CASE p = o /\ q # o
      BY <2>2, <2>3, <2>4, <2>8, <3>2 DEF Placing
    <3>3. CASE p # o /\ q = o
      <4>1. a = "accept" /\ Placing(p) /\ op[p].final = final
        BY <2>1, <2>3, <2>4, <2>8, <3>3 DEF Placing
      <4>2. nm[1] \in overlap'
        BY <2>2, <4>1
      <4>3. op'[p].name[1] = nm[1]
        BY <2>1, <2>3, <3>3, <4>1 DEF CallInv, Placing
      <4> QED BY <4>2, <4>3
    <3> QED BY <3>1, <3>2, <3>3
  <2> QED BY <2>5, <2>6, <2>7, <2>8 DEF AloneInv
<1>4. ASSUME NEW o \in Op,
             \/ AcceptMove(o) \/ AcceptCopy(o) \/ AcceptPlace(o) \/ AcceptDropSource(o)
             \/ DiscardRemove(o) \/ DropSidecar(o) \/ OpFail(o)
      PROVE  AloneInv'
  <2>1. PICK a \in OpAt \ {"new", "accept"} : /\ op' = [op EXCEPT ![o].at = a]
                                              /\ a = "copied" => Placing(o)
                                              /\ a \in {"placed", "gone", "discard"} => Acting(o)
    <3>1. CASE AcceptMove(o) \/ AcceptCopy(o) \/ AcceptPlace(o)
      BY <3>1 DEF AcceptMove, AcceptCopy, AcceptPlace, OpGoes, OpAt, Acting, Placing
    <3>2. CASE AcceptDropSource(o) \/ DiscardRemove(o) \/ DropSidecar(o) \/ OpFail(o)
      BY <3>2 DEF AcceptDropSource, DiscardRemove, DropSidecar, OpFail, OpGoes, OpAt, Acting, Placing
    <3> QED BY <1>4, <3>1, <3>2
  <2>2. up' = up
    BY <1>4 DEF AcceptMove, AcceptCopy, AcceptPlace, AcceptDropSource, DiscardRemove, DropSidecar, OpFail
  <2>3. \A u \in Upload : Sending(u)' => Sending(u) /\ up'[u].name = up[u].name
    BY <2>2 DEF Sending
  <2>4. \A p \in Op : /\ Acting(p)' => Acting(p) /\ op'[p].name = op[p].name
                      /\ Placing(p)' => /\ Placing(p)
                                        /\ op'[p].final = op[p].final
                                        /\ op'[p].name = op[p].name
    BY <1>0, <2>1 DEF OpRec, Acting, Placing
  <2> QED BY <1>0, <2>3, <2>4, AloneStill
<1>5. CASE Crash
  <2>1. /\ \A u \in Upload : ~Sending(u)'
        /\ \A o \in Op : ~Acting(o)' /\ ~Placing(o)'
    BY <1>5, CrashedCalls DEF Sending, Acting, Placing
  <2> QED BY <1>0, <2>1, AloneStill
<1>6. CASE UNCHANGED vars
  BY <1>6 DEF vars, AloneInv, Sending, Acting, Placing
<1> QED BY <1>1, <1>2, <1>3, <1>4, <1>5, <1>6 DEF Next, UploadStep, OpStep

----------------------------------------------------------------------------
(* What a write spares *)

\* What open_options().truncate and write change: the temp file of the upload's name,
\* or a new file.
LEMMA OpenSpares ==
  ASSUME Core, NEW u \in Upload, PartOpen(u), NEW f \in Object,
         \/ \E nm \in InName : f = inbox[nm]
         \/ \E nm \in Name : f = share[nm]
         \/ \E nm \in InName : nm # up[u].name /\ f = part[nm]
         \/ f \in Op
  PROVE  body'[f] = body[f]
<1> DEFINE g == IF part[up[u].name] = NONE THEN u ELSE part[up[u].name]
<1>1. /\ up[u].at = "chosen" /\ up[u].name \in InName /\ body' = [body EXCEPT ![g] = {}]
  BY DEF PartOpen, Core, CallInv
<1>2. f # NONE
  BY DEF Object
<1>3. f # g
  <2>1. CASE part[up[u].name] = NONE
    <3>1. \A b : ~Made(u, b, up, op)
      BY <1>1 DEF Made
    <3>2. u # NONE
      BY DEF Object
    <3>3. /\ \A nm \in InName : part[nm] # u /\ inbox[nm] # u
          /\ \A nm \in Name : share[nm] # u
      BY <3>1, <3>2, UnmadeNowhere DEF Core
    <3> QED BY <2>1, <3>3
  <2>2. CASE part[up[u].name] # NONE
    <3>1. part[up[u].name] \in Upload
      BY <1>1, <2>2 DEF Core, TypeOK
    <3> QED BY <1>1, <1>2, <2>2, <3>1 DEF Core, TempInv
  <2> QED BY <2>1, <2>2
<1> HIDE DEF g
<1> QED BY <1>1, <1>3 DEF Core, TypeOK

\* What a write changes, for files of names nobody met on: the temp file it opened.
LEMMA FillSpares ==
  ASSUME Core, NEW u \in Upload, PartFill(u), NEW f \in Object,
         \/ \E nm \in InName : f = inbox[nm] /\ nm[1] \notin overlap
         \/ \E nm \in Name : f = share[nm] /\ nm[1] \notin overlap
         \/ \E nm \in InName : nm # up[u].name /\ f = part[nm] /\ nm[1] \notin overlap
         \/ f \in Op
  PROVE  body'[f] = body[f]
<1> DEFINE g == up[u].file
<1>1. up[u].at = "open" /\ up[u].name \in InName /\ g \in Upload /\ f # NONE
  BY DEF PartFill, Core, CallInv, Object
<1>2. PICK bytes : body' = [body EXCEPT ![g] = bytes]
  BY DEF PartFill
<1>3. f # g
  <2>1. CASE up[u].name[1] \notin overlap
    <3>1. g = part[up[u].name]
      BY <1>1, <2>1 DEF Core, UploadInv, UploadFits
    <3> QED BY <1>1, <3>1 DEF Core, TempInv
  <2>2. CASE up[u].name[1] \in overlap
    <3>1. Made(g, up[u].name[1], up, op)
      BY <1>1 DEF Core, HomeInv
    <3>2. CASE f \in Op
      BY <1>1, <3>2
    <3>3. ASSUME NEW nm \in Name, nm[1] \notin overlap, Made(f, nm[1], up, op) PROVE f # g
      BY <2>2, <3>1, <3>3, MadeOnce
    <3>4. ASSUME NEW nm \in InName, nm[1] \notin overlap, f = inbox[nm] \/ f = part[nm]
          PROVE  Made(f, nm[1], up, op) /\ nm \in Name
      BY <1>1, <3>4, NameFacts DEF Core, HomeInv
    <3>5. ASSUME NEW nm \in Name, nm[1] \notin overlap, f = share[nm]
          PROVE  Made(f, nm[1], up, op)
      BY <1>1, <3>5 DEF Core, HomeInv
    <3> QED BY <3>2, <3>3, <3>4, <3>5
  <2> QED BY <2>1, <2>2
<1> HIDE DEF g
<1> QED BY <1>2, <1>3 DEF Core, TypeOK

\* What a copy changes: the share's temp file of its final name, or a new file.
LEMMA CopySpares ==
  ASSUME Core, NEW o \in Op, AcceptCopy(o), NEW f \in Object,
         \/ f \in Upload
         \/ \E nm \in Name : f = share[nm]
         \/ \E nm \in Name : nm # op[o].final /\ f = sharePart[nm]
  PROVE  body'[f] = body[f]
<1> DEFINE g == IF sharePart[op[o].final] = NONE THEN o ELSE sharePart[op[o].final]
<1>1. /\ op[o].at = "accept" /\ op[o].final \in Name
      /\ body' = body \/ \E bytes : body' = [body EXCEPT ![g] = bytes]
  BY DEF AcceptCopy, Core, CallInv
<1>2. f # NONE
  BY DEF Object
<1>3. f # g
  <2>1. CASE sharePart[op[o].final] = NONE
    <3>1. \A b : ~Made(o, b, up, op)
      BY <1>1 DEF Made
    <3>2. o # NONE /\ o \notin Upload
      BY DEF Object
    <3>3. \A nm \in Name : share[nm] # o /\ sharePart[nm] # o
      BY <3>1, <3>2, UnmadeNowhere DEF Core
    <3> QED BY <2>1, <3>2, <3>3
  <2>2. CASE sharePart[op[o].final] # NONE
    <3>1. sharePart[op[o].final] \in Op /\ sharePart[op[o].final] \notin Upload
      BY <1>1, <2>2 DEF Core, TypeOK
    <3> QED BY <1>1, <1>2, <2>2, <3>1 DEF Core, TempInv
  <2> QED BY <2>1, <2>2
<1> HIDE DEF g
<1> QED BY <1>1, <1>3 DEF Core, TypeOK

\* No step writes to a file in the inbox or the share whose name nobody met on.
LEMMA FilesKept ==
  ASSUME Core, [Next]_vars
  PROVE  /\ \A nm \in InName : nm[1] \notin overlap /\ inbox[nm] # NONE =>
              body'[inbox[nm]] = body[inbox[nm]]
         /\ \A nm \in Name : nm[1] \notin overlap /\ share[nm] # NONE =>
              body'[share[nm]] = body[share[nm]]
<1> USE DEF dirs, observed, asked
<1>0. /\ \A nm \in InName : inbox[nm] # NONE => inbox[nm] \in Object /\ inbox[nm] \in Upload
      /\ \A nm \in Name : share[nm] # NONE => share[nm] \in Object
  BY DEF Core, TypeOK, Object
<1>1. CASE body' = body
  BY <1>1
<1>2. ASSUME NEW u \in Upload, PartOpen(u) PROVE
        /\ \A nm \in InName : inbox[nm] # NONE => body'[inbox[nm]] = body[inbox[nm]]
        /\ \A nm \in Name : share[nm] # NONE => body'[share[nm]] = body[share[nm]]
  BY <1>0, <1>2, OpenSpares
<1>3. ASSUME NEW u \in Upload, PartFill(u) PROVE
        /\ \A nm \in InName : nm[1] \notin overlap /\ inbox[nm] # NONE =>
             body'[inbox[nm]] = body[inbox[nm]]
        /\ \A nm \in Name : nm[1] \notin overlap /\ share[nm] # NONE =>
             body'[share[nm]] = body[share[nm]]
  BY <1>0, <1>3, FillSpares
<1>4. ASSUME NEW o \in Op, AcceptCopy(o) PROVE
        /\ \A nm \in InName : inbox[nm] # NONE => body'[inbox[nm]] = body[inbox[nm]]
        /\ \A nm \in Name : share[nm] # NONE => body'[share[nm]] = body[share[nm]]
  BY <1>0, <1>4, CopySpares
<1>5. \/ body' = body
      \/ \E u \in Upload : PartOpen(u) \/ PartFill(u)
      \/ \E o \in Op : AcceptCopy(o)
  BY DEF Next, UploadStep, OpStep, UploadChoose, UploadRename, UploadSidecar, UploadFail,
         AcceptStart, DiscardStart, AcceptMove, AcceptPlace, AcceptDropSource,
         DiscardRemove, DropSidecar, OpFail, Crash, vars
<1> QED BY <1>1, <1>2, <1>3, <1>4, <1>5

----------------------------------------------------------------------------
(* Uploads *)

\* A call that nobody met is not disturbed by a step elsewhere.
LEMMA UploadStill ==
  ASSUME Core, NEW v \in Upload, up'[v] = up[v], overlap \subseteq overlap',
         Sending(v) /\ up[v].name[1] \notin overlap =>
           /\ part'[up[v].name] = part[up[v].name]
           /\ inbox'[up[v].name] = inbox[up[v].name]
           /\ up[v].at \in {"open", "filled"} => body'[up[v].file] = body[up[v].file]
           /\ up[v].at = "renamed" => body'[inbox[up[v].name]] = body[inbox[up[v].name]]
  PROVE  up'[v].at # "new" /\ up'[v].name[1] \notin overlap' => UploadFits(v)'
<1> SUFFICES ASSUME up[v].at # "new", up[v].name[1] \notin overlap PROVE UploadFits(v)'
  OBVIOUS
<1>1. UploadFits(v)
  BY DEF Core, UploadInv
<1>2. CASE Sending(v)
  BY <1>1, <1>2 DEF UploadFits, Sending
<1>3. CASE ~Sending(v)
  BY <1>3 DEF UploadFits, Sending
<1> QED BY <1>2, <1>3

LEMMA UploadInvStep == Core /\ [Next]_vars => UploadInv'
<1> SUFFICES ASSUME Core, [Next]_vars PROVE UploadInv'
  OBVIOUS
<1> USE DEF dirs, observed, asked
<1>0. /\ up \in [Upload -> UpRec] /\ op \in [Op -> OpRec] /\ overlap \subseteq overlap'
      /\ part \in [InName -> Upload \cup {NONE}] /\ inbox \in [InName -> Upload \cup {NONE}]
      /\ body \in [Object -> SUBSET (Upload \cup Base)]
  BY CallsDoGoOn DEF Core, TypeOK, UpRec, OpRec, CallsGoOn
<1>a. \A nm \in InName : nm[1] \notin overlap /\ inbox[nm] # NONE =>
        body'[inbox[nm]] = body[inbox[nm]]
  BY FilesKept
<1>b. \A v \in Upload : up[v].at # "new" => up[v].name \in InName
  BY DEF Core, CallInv
<1>c. \A v \in Upload : up[v].at = "renamed" /\ up[v].name[1] \notin overlap =>
        body'[inbox[up[v].name]] = body[inbox[up[v].name]]
  BY <1>a, <1>b DEF Core, UploadInv, UploadFits
<1>d. \A v \in Upload : up[v].at \in {"open", "filled"} /\ up[v].name[1] \notin overlap =>
        up[v].file = part[up[v].name] /\ up[v].file \in Object /\ up[v].file \in Upload
  BY DEF Core, UploadInv, UploadFits, CallInv, Object
\* Only a step of an upload or of a call on the same entry disturbs another upload.
<1>1. ASSUME NEW u \in Upload, UploadStep(u), NEW v \in Upload, v # u
      PROVE  up'[v].at # "new" /\ up'[v].name[1] \notin overlap' => UploadFits(v)'
  <2>1. up'[v] = up[v]
    BY <1>0, <1>1 DEF UploadStep, UploadChoose, PartOpen, PartFill, UploadRename,
       UploadSidecar, UploadFail, UpGoes
  <2>2. SUFFICES ASSUME Sending(v), up[v].name[1] \notin overlap
        PROVE  /\ part'[up[v].name] = part[up[v].name]
               /\ inbox'[up[v].name] = inbox[up[v].name]
               /\ up[v].at \in {"open", "filled"} => body'[up[v].file] = body[up[v].file]
    BY <1>0, <1>c, <2>1, UploadStill
  <2>3. Sending(u) => up[u].name # up[v].name
    BY <1>1, <2>2 DEF Core, AloneInv
  <2>4. up[v].name \in InName
    BY <1>b, <2>2 DEF Sending
  <2>5. CASE PartOpen(u)
    <3>1. Sending(u) /\ inbox' = inbox
          /\ \E f : part' = [part EXCEPT ![up[u].name] = f]
      BY <2>5 DEF PartOpen, Sending
    <3>2. part'[up[v].name] = part[up[v].name]
      BY <1>0, <2>3, <2>4, <3>1
    <3>3. up[v].at \in {"open", "filled"} => body'[up[v].file] = body[up[v].file]
      BY <1>d, <2>2, <2>3, <2>4, <2>5, <3>1, OpenSpares
    <3> QED BY <3>1, <3>2, <3>3
  <2>6. CASE PartFill(u)
    <3>1. Sending(u) /\ inbox' = inbox /\ part' = part
      BY <2>6 DEF PartFill, Sending
    <3>2. up[v].at \in {"open", "filled"} => body'[up[v].file] = body[up[v].file]
      BY <1>d, <2>2, <2>3, <2>4, <2>6, <3>1, FillSpares
    <3> QED BY <3>1, <3>2
  <2>7. CASE UploadRename(u)
    <3>1. Sending(u) /\ body' = body
      BY <2>7 DEF UploadRename, Sending
    <3>2. \/ UNCHANGED <<part, inbox>>
          \/ \E f : /\ inbox' = [inbox EXCEPT ![up[u].name] = f]
                    /\ part' = [part EXCEPT ![up[u].name] = NONE]
      BY <2>7 DEF UploadRename
    <3> QED BY <1>0, <2>3, <2>4, <3>1, <3>2
  <2>8. CASE (\E b \in Base : UploadChoose(u, b)) \/ UploadSidecar(u) \/ UploadFail(u)
    BY <2>8 DEF UploadChoose, UploadSidecar, UploadFail
  <2> QED BY <1>1, <2>5, <2>6, <2>7, <2>8 DEF UploadStep
<1>2. ASSUME NEW u \in Upload, UploadStep(u)
      PROVE  up'[u].at # "new" /\ up'[u].name[1] \notin overlap' => UploadFits(u)'
  <2>1. ASSUME NEW b \in Base, UploadChoose(u, b) PROVE UploadFits(u)'
    <3> DEFINE stored == Dedupe(inbox, <<b, <<>>>>)
    <3>1. stored \in InName /\ inbox[stored] = NONE
      BY <2>1, InboxName DEF UploadChoose
    <3>2. up' = [up EXCEPT ![u].at = "chosen", ![u].name = stored] /\ inbox' = inbox
      BY <2>1 DEF UploadChoose
    <3> HIDE DEF stored
    <3>3. up'[u].at = "chosen" /\ up'[u].name = stored
      BY <1>0, <3>2 DEF UpRec
    <3> QED BY <3>1, <3>2, <3>3 DEF UploadFits
  <2>2. CASE UploadSidecar(u) \/ UploadFail(u)
    <3>1. up'[u].at \in {"done", "failed"}
      BY <1>0, <2>2 DEF UploadSidecar, UploadFail, UpGoes, UpRec
    <3> QED BY <3>1 DEF UploadFits
  <2>3. SUFFICES ASSUME PartOpen(u) \/ PartFill(u) \/ UploadRename(u),
                        up'[u].name[1] \notin overlap', up'[u].at # "failed"
                 PROVE  UploadFits(u)'
    <3>1. up'[u].at = "failed" => UploadFits(u)'
      BY DEF UploadFits
    <3> QED BY <1>2, <2>1, <2>2, <3>1 DEF UploadStep
  <2>4. up'[u].name = up[u].name /\ up[u].name \in InName /\ up[u].name[1] \notin overlap
    BY <1>0, <1>b, <2>3 DEF PartOpen, PartFill, UploadRename, UpGoes, UpRec
  <2>5. UploadFits(u)
    BY <2>3, <2>4 DEF Core, UploadInv, PartOpen, PartFill, UploadRename
  <2>6. CASE PartOpen(u)
    <3> DEFINE f == IF part[up[u].name] = NONE THEN u ELSE part[up[u].name]
    <3>1. /\ up[u].at = "chosen" /\ part' = [part EXCEPT ![up[u].name] = f]
          /\ body' = [body EXCEPT ![f] = {}] /\ inbox' = inbox
          /\ up' = [up EXCEPT ![u].at = "open", ![u].file = f]
      BY <2>6 DEF PartOpen
    <3>2. f \in Object
      BY <1>0, <2>4 DEF Object
    <3> HIDE DEF f
    <3>3. up'[u].at = "open" /\ up'[u].file = f /\ body'[f] = {} /\ part'[up[u].name] = f
      BY <1>0, <2>4, <3>1, <3>2 DEF UpRec
    <3>4. inbox[up[u].name] = NONE
      BY <2>5, <3>1 DEF UploadFits
    <3> QED BY <2>4, <3>1, <3>3, <3>4 DEF UploadFits
  <2>7. CASE PartFill(u)
    <3>1. up[u].at = "open" /\ UNCHANGED <<part, inbox>>
      BY <2>7 DEF PartFill
    <3>0. up' = [up EXCEPT ![u].at = "filled"]
      BY <1>0, <2>3, <2>7 DEF PartFill, UpGoes, UpRec
    <3>2. up[u].file \in Object /\ body[up[u].file] = {}
      BY <1>d, <2>4, <2>5, <3>1 DEF UploadFits
    <3>3. body' = [body EXCEPT ![up[u].file] = {u}]
      BY <2>7, <3>2 DEF PartFill
    <3>4. up'[u].at = "filled" /\ up'[u].file = up[u].file /\ body'[up[u].file] = {u}
      BY <1>0, <3>0, <3>2, <3>3 DEF UpRec
    <3> QED BY <2>4, <2>5, <3>1, <3>4 DEF UploadFits
  <2>8. CASE UploadRename(u)
    <3>1. up[u].at = "filled" /\ body' = body
      BY <2>8 DEF UploadRename
    <3>2. part[up[u].name] = up[u].file /\ body[up[u].file] = {u} /\ up[u].file # NONE
      BY <1>d, <2>4, <2>5, <3>1 DEF UploadFits, Object
    <3>3. /\ up' = [up EXCEPT ![u].at = "renamed"]
          /\ inbox' = [inbox EXCEPT ![up[u].name] = up[u].file]
      BY <1>0, <2>3, <2>8, <3>2 DEF UploadRename, UpGoes, UpRec
    <3>4. up'[u].at = "renamed" /\ inbox'[up[u].name] = up[u].file
      BY <1>0, <2>4, <3>3 DEF UpRec
    <3> QED BY <2>4, <3>1, <3>2, <3>4 DEF UploadFits
  <2> QED BY <2>3, <2>6, <2>7, <2>8
<1>3. ASSUME NEW o \in Op, OpStep(o), NEW v \in Upload
      PROVE  up'[v].at # "new" /\ up'[v].name[1] \notin overlap' => UploadFits(v)'
  <2>1. up' = up /\ part' = part
    BY <1>3 DEF OpStep, AcceptStart, DiscardStart, AcceptMove, AcceptCopy, AcceptPlace,
       AcceptDropSource, DiscardRemove, DropSidecar, OpFail
  <2>2. \/ inbox' = inbox
        \/ inbox' = [inbox EXCEPT ![op[o].name] = NONE] /\ Acting(o)
    BY <1>3 DEF OpStep, AcceptStart, DiscardStart, AcceptMove, AcceptCopy, AcceptPlace,
       AcceptDropSource, DiscardRemove, DropSidecar, OpFail, Acting
  <2>3. SUFFICES ASSUME Sending(v), up[v].name[1] \notin overlap
        PROVE  /\ inbox'[up[v].name] = inbox[up[v].name]
               /\ up[v].at \in {"open", "filled"} => body'[up[v].file] = body[up[v].file]
    BY <1>0, <1>c, <2>1, UploadStill
  <2>4. up[v].name \in InName
    BY <1>b, <2>3 DEF Sending
  <2>5. Acting(o) => op[o].name # up[v].name
    BY <2>3 DEF Core, AloneInv
  <2>6. inbox'[up[v].name] = inbox[up[v].name]
    BY <1>0, <2>2, <2>4, <2>5
  <2>7. up[v].at \in {"open", "filled"} => body'[up[v].file] = body[up[v].file]
    <3>1. CASE AcceptCopy(o)
      BY <1>d, <2>3, <3>1, CopySpares
    <3>2. CASE ~AcceptCopy(o)
      <4>1. body' = body
        BY <1>3, <3>2 DEF OpStep, AcceptStart, DiscardStart, AcceptMove, AcceptPlace,
           AcceptDropSource, DiscardRemove, DropSidecar, OpFail
      <4> QED BY <4>1
    <3> QED BY <3>1, <3>2
  <2> QED BY <2>6, <2>7
<1>4. CASE Crash
  <2>1. \A v \in Upload : up'[v].at \in {"new", "done", "failed"}
    BY <1>4, CrashedCalls DEF Core
  <2>2. \A v \in Upload : UploadFits(v)'
    BY <2>1 DEF UploadFits
  <2> QED BY <2>2 DEF UploadInv
<1>5. CASE UNCHANGED vars
  BY <1>5 DEF vars, Core, UploadInv, UploadFits
<1>6. CASE \E u \in Upload : UploadStep(u)
  BY <1>1, <1>2, <1>6 DEF UploadInv
<1>7. CASE \E o \in Op : OpStep(o)
  BY <1>3, <1>7 DEF UploadInv
<1> QED BY <1>4, <1>5, <1>6, <1>7 DEF Next

----------------------------------------------------------------------------
(* The owner's calls *)

\* A call that nobody met is not disturbed by a step elsewhere.
LEMMA OpStill ==
  ASSUME Core, NEW p \in Op, op'[p] = op[p], overlap \subseteq overlap',
         Acting(p) /\ op[p].name[1] \notin overlap =>
           /\ inbox'[op[p].name] = inbox[op[p].name]
           /\ op[p].at \in {"accept", "copied", "placed"} => share'[op[p].final] = share[op[p].final]
           /\ op[p].at = "copied" =>
                /\ sharePart'[op[p].final] = sharePart[op[p].final]
                /\ body'[sharePart[op[p].final]] = body[sharePart[op[p].final]]
                /\ body'[inbox[op[p].name]] = body[inbox[op[p].name]]
           /\ op[p].at = "placed" =>
                /\ body'[share[op[p].final]] = body[share[op[p].final]]
                /\ body'[inbox[op[p].name]] = body[inbox[op[p].name]]
  PROVE  op'[p].at # "new" /\ op'[p].name[1] \notin overlap' => OpFits(p)'
<1> SUFFICES ASSUME op[p].at # "new", op[p].name[1] \notin overlap PROVE OpFits(p)'
  OBVIOUS
<1>1. OpFits(p)
  BY DEF Core, OpInv
<1>2. CASE Acting(p)
  BY <1>1, <1>2 DEF OpFits, Acting
<1>3. CASE ~Acting(p)
  BY <1>3 DEF OpFits, Acting
<1> QED BY <1>2, <1>3

LEMMA OpInvStep == Core /\ [Next]_vars => OpInv'
<1> SUFFICES ASSUME Core, [Next]_vars PROVE OpInv'
  OBVIOUS
<1> USE DEF dirs, observed, asked
<1>0. /\ up \in [Upload -> UpRec] /\ op \in [Op -> OpRec] /\ overlap \subseteq overlap'
      /\ inbox \in [InName -> Upload \cup {NONE}]
      /\ share \in [Name -> Object \cup {NONE}] /\ sharePart \in [Name -> Op \cup {NONE}]
      /\ body \in [Object -> SUBSET (Upload \cup Base)]
  BY CallsDoGoOn DEF Core, TypeOK, UpRec, OpRec, CallsGoOn
<1>a. /\ \A nm \in InName : nm[1] \notin overlap /\ inbox[nm] # NONE =>
           body'[inbox[nm]] = body[inbox[nm]]
      /\ \A nm \in Name : nm[1] \notin overlap /\ share[nm] # NONE =>
           body'[share[nm]] = body[share[nm]]
  BY FilesKept
<1>b. \A p \in Op : /\ op[p].at # "new" => op[p].name \in InName
                    /\ op[p].at \in {"accept", "copied", "placed"} =>
                         op[p].final \in Name /\ op[p].final[1] = op[p].name[1]
  BY DEF Core, CallInv
<1>c. \A p \in Op : op[p].at # "new" /\ op[p].name[1] \notin overlap => OpFits(p)
  BY DEF Core, OpInv
<1>d. \A p \in Op : op[p].at \in {"copied", "placed"} /\ op[p].name[1] \notin overlap =>
        /\ body'[inbox[op[p].name]] = body[inbox[op[p].name]]
        /\ op[p].at = "placed" => body'[share[op[p].final]] = body[share[op[p].final]]
  BY <1>a, <1>b, <1>c DEF OpFits
<1>e. \A p \in Op : op[p].at = "copied" /\ op[p].name[1] \notin overlap =>
        sharePart[op[p].final] \in Op /\ sharePart[op[p].final] \in Object
  BY <1>0, <1>b, <1>c DEF OpFits, Object
<1>1. ASSUME NEW u \in Upload, UploadStep(u), NEW p \in Op
      PROVE  op'[p].at # "new" /\ op'[p].name[1] \notin overlap' => OpFits(p)'
  <2>1. op' = op /\ share' = share /\ sharePart' = sharePart
    BY <1>1 DEF UploadStep, UploadChoose, PartOpen, PartFill, UploadRename, UploadSidecar, UploadFail
  <2>2. \/ inbox' = inbox
        \/ Sending(u) /\ \E f : inbox' = [inbox EXCEPT ![up[u].name] = f]
    BY <1>1 DEF UploadStep, UploadChoose, PartOpen, PartFill, UploadRename, UploadSidecar,
       UploadFail, Sending
  <2>3. SUFFICES ASSUME Acting(p), op[p].name[1] \notin overlap
        PROVE  /\ inbox'[op[p].name] = inbox[op[p].name]
               /\ op[p].at = "copied" =>
                    body'[sharePart[op[p].final]] = body[sharePart[op[p].final]]
    BY <1>0, <1>d, <2>1, OpStill
  <2>4. op[p].name \in InName /\ (Sending(u) => up[u].name # op[p].name)
    BY <1>b, <2>3 DEF Core, AloneInv, Acting
  <2>5. inbox'[op[p].name] = inbox[op[p].name]
    BY <1>0, <2>2, <2>4
  <2>6. op[p].at = "copied" => body'[sharePart[op[p].final]] = body[sharePart[op[p].final]]
    <3>1. CASE PartOpen(u)
      BY <1>e, <2>3, <3>1, OpenSpares
    <3>2. CASE PartFill(u)
      BY <1>e, <2>3, <3>2, FillSpares
    <3>3. CASE ~PartOpen(u) /\ ~PartFill(u)
      <4>1. body' = body
        BY <1>1, <3>3 DEF UploadStep, UploadChoose, UploadRename, UploadSidecar, UploadFail
      <4> QED BY <4>1
    <3> QED BY <3>1, <3>2, <3>3
  <2> QED BY <2>5, <2>6
<1>2. ASSUME NEW o \in Op, OpStep(o), NEW p \in Op, p # o
      PROVE  op'[p].at # "new" /\ op'[p].name[1] \notin overlap' => OpFits(p)'
  <2>1. op'[p] = op[p]
    BY <1>0, <1>2 DEF OpStep, AcceptStart, DiscardStart, AcceptMove, AcceptCopy, AcceptPlace,
       AcceptDropSource, DiscardRemove, DropSidecar, OpFail, OpGoes
  <2>2. /\ \/ inbox' = inbox
           \/ inbox' = [inbox EXCEPT ![op[o].name] = NONE] /\ Acting(o)
        /\ \/ share' = share
           \/ Placing(o) /\ \E f : share' = [share EXCEPT ![op[o].final] = f]
        /\ \/ sharePart' = sharePart
           \/ Placing(o) /\ \E f : sharePart' = [sharePart EXCEPT ![op[o].final] = f]
    <3>1. CASE AcceptMove(o) \/ AcceptCopy(o) \/ AcceptPlace(o)
      BY <3>1 DEF AcceptMove, AcceptCopy, AcceptPlace, Acting, Placing
    <3>2. CASE ~(AcceptMove(o) \/ AcceptCopy(o) \/ AcceptPlace(o))
      BY <1>2, <3>2 DEF OpStep, AcceptStart, DiscardStart,
         AcceptDropSource, DiscardRemove, DropSidecar, OpFail, Acting, Placing
    <3> QED BY <3>1, <3>2
  <2>3. SUFFICES ASSUME Acting(p), op[p].name[1] \notin overlap
        PROVE  /\ inbox'[op[p].name] = inbox[op[p].name]
               /\ op[p].at \in {"accept", "copied", "placed"} =>
                    share'[op[p].final] = share[op[p].final]
               /\ op[p].at = "copied" =>
                    /\ sharePart'[op[p].final] = sharePart[op[p].final]
                    /\ body'[sharePart[op[p].final]] = body[sharePart[op[p].final]]
    BY <1>0, <1>d, <2>1, OpStill
  <2>4. op[p].name \in InName /\ (Acting(o) => op[o].name # op[p].name)
    BY <1>2, <1>b, <2>3 DEF Core, AloneInv, Acting
  <2>5. inbox'[op[p].name] = inbox[op[p].name]
    BY <1>0, <2>2, <2>4
  <2>6. op[p].at \in {"accept", "copied", "placed"} /\ Placing(o) => op[o].final # op[p].final
    <3> SUFFICES ASSUME op[p].at \in {"accept", "copied", "placed"}, Placing(o),
                        op[o].final = op[p].final
                 PROVE  FALSE
      OBVIOUS
    <3>1. op[o].name[1] \notin overlap
      BY <1>b, <2>3 DEF Placing
    <3>2. CASE Placing(p)
      BY <1>2, <2>3, <3>1, <3>2 DEF Core, AloneInv
    <3>3. CASE op[p].at = "placed"
      BY <1>c, <2>3, <3>1, <3>3 DEF OpFits, Placing
    <3> QED BY <3>2, <3>3 DEF Placing
  <2>7. op[p].at \in {"accept", "copied", "placed"} =>
          /\ share'[op[p].final] = share[op[p].final]
          /\ sharePart'[op[p].final] = sharePart[op[p].final]
    BY <1>0, <1>b, <2>2, <2>6
  <2>8. op[p].at = "copied" => body'[sharePart[op[p].final]] = body[sharePart[op[p].final]]
    <3>1. CASE AcceptCopy(o)
      <4>1. Placing(o)
        BY <3>1 DEF AcceptCopy, Placing
      <4> QED BY <1>b, <1>e, <2>3, <2>6, <3>1, <4>1, CopySpares
    <3>2. CASE ~AcceptCopy(o)
      <4>1. body' = body
        BY <1>2, <3>2 DEF OpStep, AcceptStart, DiscardStart, AcceptMove, AcceptPlace,
           AcceptDropSource, DiscardRemove, DropSidecar, OpFail
      <4> QED BY <4>1
    <3> QED BY <3>1, <3>2
  <2> QED BY <2>5, <2>7, <2>8
<1>3. ASSUME NEW o \in Op, OpStep(o)
      PROVE  op'[o].at # "new" /\ op'[o].name[1] \notin overlap' => OpFits(o)'
  <2>1. ASSUME NEW nm \in InName, AcceptStart(o, nm) PROVE OpFits(o)'
    <3> DEFINE final == Dedupe(share, nm)
    <3>1. final \in Name /\ share[final] = NONE
      BY <2>1, ShareName DEF AcceptStart
    <3>2. /\ op' = [op EXCEPT ![o] = [at |-> "accept", name |-> nm, final |-> final]]
          /\ inbox[nm] # NONE /\ inbox' = inbox /\ share' = share
      BY <2>1 DEF AcceptStart
    <3> HIDE DEF final
    <3>3. op'[o].at = "accept" /\ op'[o].name = nm /\ op'[o].final = final
      BY <1>0, <3>2
    <3> QED BY <3>1, <3>2, <3>3 DEF OpFits
  <2>2. ASSUME NEW nm \in InName, DiscardStart(o, nm) PROVE OpFits(o)'
    <3>1. /\ op' = [op EXCEPT ![o] = [at |-> "discard", name |-> nm, final |-> NONE]]
          /\ inbox[nm] # NONE /\ inbox' = inbox
      BY <2>2 DEF DiscardStart
    <3>2. op'[o].at = "discard" /\ op'[o].name = nm
      BY <1>0, <3>1
    <3> QED BY <3>1, <3>2 DEF OpFits
  <2>3. CASE AcceptMove(o) \/ AcceptDropSource(o) \/ DiscardRemove(o) \/ DropSidecar(o) \/ OpFail(o)
    <3>1. CASE op' = [op EXCEPT ![o].at = "done"]
      <4>1. op'[o].at = "done"
        BY <1>0, <3>1 DEF OpRec
      <4> QED BY <4>1 DEF OpFits
    <3>2. CASE ~(op' = [op EXCEPT ![o].at = "done"])
      <4>1. /\ op' = [op EXCEPT ![o].at = "gone"] /\ op[o].at # "new"
            /\ inbox' = [inbox EXCEPT ![op[o].name] = NONE]
        BY <2>3, <3>2 DEF AcceptMove, AcceptDropSource, DiscardRemove, DropSidecar, OpFail, OpGoes
      <4>2. op'[o].at = "gone" /\ op'[o].name = op[o].name /\ op[o].name \in InName
        BY <1>0, <1>b, <4>1 DEF OpRec
      <4>3. inbox'[op'[o].name] = NONE
        BY <1>0, <4>1, <4>2
      <4> QED BY <4>2, <4>3 DEF OpFits
    <3> QED BY <3>1, <3>2
  <2>4. SUFFICES ASSUME AcceptCopy(o) \/ AcceptPlace(o), op'[o].name[1] \notin overlap',
                        op'[o].at # "done"
                 PROVE  OpFits(o)'
    <3>1. op'[o].at = "done" => OpFits(o)'
      BY DEF OpFits
    <3> QED BY <1>3, <2>1, <2>2, <2>3, <3>1 DEF OpStep
  <2> DEFINE nm == op[o].name
             final == op[o].final
  <2>5. op[o].at \in {"accept", "copied"}
    BY <2>4 DEF AcceptCopy, AcceptPlace
  <2>6. /\ nm \in InName /\ final \in Name /\ final[1] = nm[1]
        /\ op'[o].name = nm /\ op'[o].final = final
    BY <1>0, <1>b, <2>4, <2>5 DEF AcceptCopy, AcceptPlace, OpGoes, OpRec
  <2>7. nm[1] \notin overlap
    BY <1>0, <2>4, <2>6
  <2>8. OpFits(o)
    BY <1>c, <2>5, <2>7
  <2>9. inbox[nm] # NONE /\ share[final] = NONE /\ inbox' = inbox
    BY <2>4, <2>5, <2>8 DEF OpFits, AcceptCopy, AcceptPlace
  <2>10. CASE AcceptCopy(o)
    <3> DEFINE f == IF sharePart[final] = NONE THEN o ELSE sharePart[final]
    <3>1. /\ share' = share
          /\ sharePart' = [sharePart EXCEPT ![final] = f]
          /\ body' = [body EXCEPT ![f] = body[inbox[nm]]]
      BY <2>9, <2>10 DEF AcceptCopy
    <3>0. op' = [op EXCEPT ![o].at = "copied"]
      BY <1>0, <2>4, <2>9, <2>10 DEF AcceptCopy, OpGoes, OpRec
    <3>2. f \in Op /\ f \in Object /\ f # NONE
      BY <1>0, <2>6 DEF Object
    <3> HIDE DEF f, nm, final
    <3>3. op'[o].at = "copied"
      BY <1>0, <3>0 DEF OpRec
    <3>4. sharePart'[final] = f /\ body'[f] = body[inbox[nm]] /\ body'[inbox[nm]] = body[inbox[nm]]
      BY <1>0, <1>a, <2>6, <2>7, <2>9, <3>1, <3>2
    <3> QED BY <2>6, <2>9, <3>1, <3>2, <3>3, <3>4 DEF OpFits
  <2>11. CASE AcceptPlace(o)
    <3>1. op[o].at = "copied" /\ body' = body
      BY <2>11 DEF AcceptPlace
    <3>2. sharePart[final] # NONE /\ body[sharePart[final]] = body[inbox[nm]]
      BY <2>8, <3>1 DEF OpFits
    <3>3. /\ op' = [op EXCEPT ![o].at = "placed"]
          /\ share' = [share EXCEPT ![final] = sharePart[final]]
      BY <1>0, <2>4, <2>11, <3>2 DEF AcceptPlace, OpGoes, OpRec
    <3> HIDE DEF nm, final
    <3>4. op'[o].at = "placed" /\ share'[final] = sharePart[final]
      BY <1>0, <2>6, <3>3 DEF OpRec
    <3> QED BY <2>6, <2>9, <3>1, <3>2, <3>4 DEF OpFits
  <2> QED BY <2>4, <2>10, <2>11
<1>4. CASE Crash
  <2>1. \A p \in Op : op'[p].at \in {"new", "done"}
    BY <1>4, CrashedCalls DEF Core
  <2>2. \A p \in Op : OpFits(p)'
    BY <2>1 DEF OpFits
  <2> QED BY <2>2 DEF OpInv
<1>5. CASE UNCHANGED vars
  BY <1>5 DEF vars, Core, OpInv, OpFits
<1>6. CASE \E u \in Upload : UploadStep(u)
  BY <1>1, <1>6 DEF OpInv
<1>7. CASE \E o \in Op : OpStep(o)
  BY <1>2, <1>3, <1>7 DEF OpInv
<1> QED BY <1>4, <1>5, <1>6, <1>7 DEF Next

\* Everything the properties need is kept.
LEMMA CoreInit == Init => Core
<1> SUFFICES ASSUME Init PROVE Core
  OBVIOUS
<1>1. TypeOK /\ CallInv
  BY TypeInit
<1>2. /\ \A u \in Upload : up[u].at = "new"
      /\ \A o \in Op : op[o].at = "new"
      /\ \A nm \in InName : part[nm] = NONE /\ inbox[nm] = NONE
      /\ \A nm \in Name : sharePart[nm] = NONE
      /\ \A nm \in Name : share[nm] # NONE => share[nm] = nm[1]
      /\ \A f \in Object : body[f] = IF f \in Base THEN {f} ELSE {}
  BY DEF Init
<1>3. HomeInv
  <2>1. \A nm \in Name : share[nm] # NONE => Made(share[nm], nm[1], up, op)
    BY <1>2, NameFacts DEF Made
  <2>2. ASSUME NEW f \in Object PROVE Homely(f, body[f], up, op)
    <3>1. CASE f \in Base
      <4>1. body[f] = {f} /\ Made(f, f, up, op)
        BY <1>2, <3>1 DEF Made
      <4>2. \A b \in Base : Made(f, b, up, op) => b = f
        BY <4>1, MadeOnce
      <4>3. Sent(f, f, up)
        BY <3>1 DEF Sent
      <4> QED BY <3>1, <4>1, <4>2, <4>3 DEF Homely
    <3>2. CASE f \notin Base
      BY <1>2, <3>2 DEF Homely
    <3> QED BY <3>1, <3>2
  <2> QED BY <1>2, <2>1, <2>2 DEF HomeInv
<1>4. TempInv /\ AloneInv /\ UploadInv /\ OpInv
  BY <1>2 DEF TempInv, AloneInv, UploadInv, OpInv, Sending, Acting, Placing
<1> QED BY <1>1, <1>3, <1>4 DEF Core

LEMMA CoreStep == Core /\ [Next]_vars => Core'
<1> SUFFICES ASSUME Core, [Next]_vars PROVE Core'
  OBVIOUS
<1>1. TypeOK' /\ CallInv'
  BY TypeStep DEF Core
<1>2. HomeInv' /\ TempInv' /\ AloneInv'
  BY HomeStep, TempStep, AloneStep DEF Core
<1>3. UploadInv' /\ OpInv'
  BY UploadInvStep, OpInvStep
<1> QED BY <1>1, <1>2, <1>3 DEF Core

----------------------------------------------------------------------------
(* Whole files *)

\* How a name nobody met on changes: a file comes whole from its temp file or the
\* inbox, and never over another.
LEMMA InboxEntries ==
  ASSUME Core, [Next]_vars, NEW nm \in InName, nm[1] \notin overlap
  PROVE  \/ inbox'[nm] = inbox[nm]
         \/ inbox'[nm] = NONE
         \/ \E u \in Upload : /\ inbox[nm] = NONE /\ inbox'[nm] \in Object
                              /\ body'[inbox'[nm]] = {u}
                              /\ up[u].at = "filled" /\ up[u].name = nm
<1> USE DEF dirs, observed, asked
<1>0. inbox \in [InName -> Upload \cup {NONE}]
  BY DEF Core, TypeOK
<1>1. ASSUME NEW u \in Upload, UploadRename(u), up[u].name = nm, inbox' # inbox
      PROVE  /\ inbox[nm] = NONE /\ inbox'[nm] \in Object
             /\ body'[inbox'[nm]] = {u} /\ up[u].at = "filled"
  <2>1. /\ up[u].at = "filled" /\ inbox' = [inbox EXCEPT ![nm] = part[nm]] /\ body' = body
    BY <1>1 DEF UploadRename
  <2>2. UploadFits(u) /\ up[u].file \in Object
    BY <1>1, <2>1 DEF Core, UploadInv, CallInv, Object
  <2> QED BY <1>0, <1>1, <2>1, <2>2 DEF UploadFits
<1>2. ASSUME NEW u \in Upload, UploadRename(u), up[u].name # nm PROVE inbox'[nm] = inbox[nm]
  BY <1>0, <1>2 DEF UploadRename
<1>3. \/ inbox' = inbox
      \/ \E u \in Upload : UploadRename(u)
      \/ \E o \in Op : inbox' = [inbox EXCEPT ![op[o].name] = NONE]
  BY DEF Next, UploadStep, OpStep, UploadChoose, PartOpen, PartFill, UploadSidecar, UploadFail,
         AcceptStart, DiscardStart, AcceptMove, AcceptCopy, AcceptPlace, AcceptDropSource,
         DiscardRemove, DropSidecar, OpFail, Crash, vars
<1> QED BY <1>0, <1>1, <1>2, <1>3

LEMMA ShareEntries ==
  ASSUME Core, [Next]_vars, NEW nm \in Name, nm[1] \notin overlap
  PROVE  \/ share'[nm] = share[nm]
         \/ \E n \in InName : /\ share[nm] = NONE /\ share'[nm] \in Object
                              /\ n[1] = nm[1] /\ inbox[n] # NONE
                              /\ body'[share'[nm]] = body[inbox[n]]
<1> USE DEF dirs, observed, asked
<1>0. share \in [Name -> Object \cup {NONE}] /\ inbox \in [InName -> Upload \cup {NONE}]
      /\ sharePart \in [Name -> Op \cup {NONE}]
  BY DEF Core, TypeOK
<1>1. ASSUME NEW o \in Op, AcceptMove(o) \/ AcceptPlace(o)
      PROVE  \/ share'[nm] = share[nm]
             \/ \E n \in InName : /\ share[nm] = NONE /\ share'[nm] \in Object
                                  /\ n[1] = nm[1] /\ inbox[n] # NONE
                                  /\ body'[share'[nm]] = body[inbox[n]]
  <2> DEFINE n == op[o].name
             final == op[o].final
  <2>1. /\ op[o].at \in {"accept", "copied"} /\ body' = body
        /\ n \in InName /\ final \in Name /\ final[1] = n[1]
    BY <1>1 DEF AcceptMove, AcceptPlace, Core, CallInv
  <2>2. CASE final # nm
    BY <1>0, <1>1, <2>2 DEF AcceptMove, AcceptPlace
  <2>3. CASE final = nm
    <3>1. OpFits(o)
      BY <2>1, <2>3 DEF Core, OpInv
    <3>2. inbox[n] # NONE /\ share[nm] = NONE
      BY <2>1, <2>3, <3>1 DEF OpFits
    <3>3. CASE AcceptMove(o)
      <4>1. share' = share \/ share' = [share EXCEPT ![nm] = inbox[n]]
        BY <2>3, <3>2, <3>3 DEF AcceptMove
      <4>2. share'[nm] = share[nm] \/ (share'[nm] = inbox[n] /\ inbox[n] \in Object)
        BY <1>0, <2>1, <3>2, <4>1 DEF Object
      <4> QED BY <2>1, <2>3, <3>2, <4>2
    <3>4. CASE AcceptPlace(o)
      <4>1. sharePart[nm] # NONE /\ body[sharePart[nm]] = body[inbox[n]]
        BY <2>3, <3>1, <3>4 DEF OpFits, AcceptPlace
      <4>2. share' = [share EXCEPT ![nm] = sharePart[nm]]
        BY <2>3, <3>4, <4>1 DEF AcceptPlace
      <4>3. share'[nm] = sharePart[nm] /\ sharePart[nm] \in Object
        BY <1>0, <4>1, <4>2 DEF Object
      <4> QED BY <2>1, <2>3, <3>2, <4>1, <4>3
    <3> QED BY <1>1, <3>3, <3>4
  <2> QED BY <2>2, <2>3
<1>2. share' = share \/ \E o \in Op : AcceptMove(o) \/ AcceptPlace(o)
  BY DEF Next, UploadStep, OpStep, UploadChoose, PartOpen, PartFill, UploadRename,
         UploadSidecar, UploadFail, AcceptStart, DiscardStart, AcceptCopy, AcceptDropSource,
         DiscardRemove, DropSidecar, OpFail, Crash, vars
<1> QED BY <1>1, <1>2

LEMMA WholeStep == Core /\ WholeFiles /\ [Next]_vars => WholeFiles'
<1> SUFFICES ASSUME Core, WholeFiles, [Next]_vars PROVE WholeFiles'
  OBVIOUS
<1>0. overlap \subseteq overlap'
  BY CallsDoGoOn DEF Core, CallsGoOn
<1>1. ASSUME NEW nm \in InName, nm[1] \notin overlap, inbox'[nm] # NONE
      PROVE  \E x \in Upload : body'[inbox'[nm]] = {x}
  <2>1. CASE inbox'[nm] = inbox[nm]
    BY <1>1, <2>1, FilesKept DEF WholeFiles
  <2> QED BY <1>1, <2>1, InboxEntries
<1>2. ASSUME NEW nm \in Name, nm[1] \notin overlap, share'[nm] # NONE
      PROVE  \E x \in Upload \cup Base : body'[share'[nm]] = {x}
  <2>1. CASE share'[nm] = share[nm]
    BY <1>2, <2>1, FilesKept DEF WholeFiles
  <2>2. ASSUME NEW n \in InName, n[1] = nm[1], inbox[n] # NONE,
               body'[share'[nm]] = body[inbox[n]]
        PROVE  \E x \in Upload \cup Base : body'[share'[nm]] = {x}
    BY <1>2, <2>2 DEF WholeFiles
  <2> QED BY <1>2, <2>1, <2>2, ShareEntries
<1> QED BY <1>0, <1>1, <1>2 DEF WholeFiles

\* For any number of uploads, calls and names, a payload name that no two calls met on
\* shows no half-written file, whatever was cut off and whatever a dropped call's last
\* file system call still does (write_file's and accept's temp file and rename).
THEOREM FilesAreWhole == Spec => []WholeFiles
<1>1. Init => Core /\ WholeFiles
  <2> SUFFICES ASSUME Init PROVE WholeFiles
    BY CoreInit
  <2>1. /\ \A nm \in InName : inbox[nm] = NONE
        /\ \A nm \in Name : share[nm] # NONE => share[nm] = nm[1]
        /\ \A f \in Object : f \in Base => body[f] = {f}
    BY DEF Init
  <2> QED BY <2>1, NameFacts DEF WholeFiles, Object
<1>2. Core /\ WholeFiles /\ [Next]_vars => (Core /\ WholeFiles)'
  BY CoreStep, WholeStep
<1> QED BY <1>1, <1>2, PTL DEF Spec

----------------------------------------------------------------------------
(* Nothing is lost *)

\* Bytes that a file of some name holds alone were sent under that name.
LEMMA BytesAtHome ==
  ASSUME Core, NEW x, NEW b, Sent(x, b, up), NEW nm \in Name,
         \/ nm \in InName /\ inbox[nm] # NONE /\ body[inbox[nm]] = {x}
         \/ share[nm] # NONE /\ body[share[nm]] = {x}
  PROVE  nm[1] = b
<1>1. PICK f \in Object : Made(f, nm[1], up, op) /\ body[f] = {x}
  BY DEF Core, HomeInv, TypeOK, Object
<1>2. Homely(f, body[f], up, op) /\ nm[1] \in Base
  BY NameFacts DEF Core, HomeInv
<1>3. Sent(x, nm[1], up)
  BY <1>1, <1>2 DEF Homely
<1> QED BY <1>3, SentOnce

\* A file leaves the inbox for the share, where it is already or with the same step,
\* or because the owner discards it.
LEMMA InboxLeft ==
  ASSUME Core, [Next]_vars, NEW nm \in InName, nm[1] \notin overlap,
         inbox[nm] # NONE, inbox'[nm] = NONE
  PROVE  \/ \E n \in Name : share'[n] # NONE /\ body'[share'[n]] = body[inbox[nm]]
         \/ body[inbox[nm]] \subseteq discarded'
<1> USE DEF dirs, observed, asked
<1>0. /\ share \in [Name -> Object \cup {NONE}] /\ inbox \in [InName -> Upload \cup {NONE}]
  BY DEF Core, TypeOK
<1>1. ASSUME NEW o \in Op, AcceptMove(o), op[o].name = nm
      PROVE  \E n \in Name : share'[n] # NONE /\ body'[share'[n]] = body[inbox[nm]]
  <2>1. op[o].final \in Name /\ share' = [share EXCEPT ![op[o].final] = inbox[nm]] /\ body' = body
    BY <1>1 DEF AcceptMove, Core, CallInv
  <2>2. share'[op[o].final] = inbox[nm]
    BY <1>0, <2>1
  <2> QED BY <2>1, <2>2
<1>2. ASSUME NEW o \in Op, AcceptDropSource(o), op[o].name = nm
      PROVE  \E n \in Name : share'[n] # NONE /\ body'[share'[n]] = body[inbox[nm]]
  <2>1. op[o].at = "placed" /\ op[o].final \in Name /\ share' = share /\ body' = body
    BY <1>2 DEF AcceptDropSource, Core, CallInv
  <2>2. OpFits(o)
    BY <1>2, <2>1 DEF Core, OpInv
  <2>3. share[op[o].final] # NONE /\ body[share[op[o].final]] = body[inbox[nm]]
    BY <1>2, <2>1, <2>2 DEF OpFits
  <2> QED BY <2>1, <2>3
<1>3. ASSUME NEW o \in Op, DiscardRemove(o), op[o].name = nm
      PROVE  body[inbox[nm]] \subseteq discarded'
  BY <1>3 DEF DiscardRemove
<1>4. ASSUME NEW u \in Upload, UploadRename(u) PROVE FALSE
  <2>1. \/ inbox' = inbox
        \/ part[up[u].name] # NONE /\ inbox' = [inbox EXCEPT ![up[u].name] = part[up[u].name]]
    BY <1>4 DEF UploadRename
  <2> QED BY <1>0, <2>1
<1>5. \/ inbox' = inbox
      \/ \E u \in Upload : UploadRename(u)
      \/ \E o \in Op : /\ inbox' = [inbox EXCEPT ![op[o].name] = NONE]
                       /\ AcceptMove(o) \/ AcceptDropSource(o) \/ DiscardRemove(o)
  BY DEF Next, UploadStep, OpStep, UploadChoose, PartOpen, PartFill, UploadSidecar, UploadFail,
         AcceptStart, DiscardStart, AcceptMove, AcceptCopy, AcceptPlace, AcceptDropSource,
         DiscardRemove, DropSidecar, OpFail, Crash, vars
<1> QED BY <1>0, <1>1, <1>2, <1>3, <1>4, <1>5

\* What is kept stays so until it is discarded.
LEMMA KeptStays ==
  ASSUME Core, [Next]_vars, NEW x, NEW b, Sent(x, b, up), b \notin overlap,
         Kept(x), x \notin discarded'
  PROVE  Kept(x)'
<1>1. ASSUME NEW nm \in InName, inbox[nm] # NONE, body[inbox[nm]] = {x} PROVE Kept(x)'
  <2>1. nm \in Name /\ nm[1] = b
    BY <1>1, BytesAtHome, NameFacts
  <2>2. CASE inbox'[nm] = inbox[nm]
    BY <1>1, <2>1, <2>2, FilesKept DEF Kept
  <2>3. CASE inbox'[nm] = NONE
    BY <1>1, <2>1, <2>3, InboxLeft DEF Kept
  <2> QED BY <1>1, <2>1, <2>2, <2>3, InboxEntries
<1>2. ASSUME NEW nm \in Name, share[nm] # NONE, body[share[nm]] = {x} PROVE Kept(x)'
  <2>1. nm[1] = b
    BY <1>2, BytesAtHome
  <2>2. share'[nm] = share[nm]
    BY <1>2, <2>1, ShareEntries
  <2> QED BY <1>2, <2>1, <2>2, FilesKept DEF Kept
<1> QED BY <1>1, <1>2 DEF Kept

LEMMA NothingLostStep == Core /\ NothingLost /\ [Next]_vars => NothingLost'
<1> SUFFICES ASSUME Core, NothingLost, [Next]_vars, NEW x \in promised', x \notin discarded',
                    BaseOf(x)' \notin overlap'
             PROVE  Kept(x)'
  BY DEF NothingLost
<1> USE DEF dirs, observed, asked
<1>0. CallsGoOn /\ promised \subseteq Base \cup {u \in Upload : up[u].at = "done"}
  BY CallsDoGoOn DEF Core, CallInv
<1>1. promised' = promised \/ \E u \in Upload : UploadSidecar(u)
  BY DEF Next, UploadStep, OpStep, UploadChoose, PartOpen, PartFill, UploadRename, UploadFail,
         AcceptStart, DiscardStart, AcceptMove, AcceptCopy, AcceptPlace, AcceptDropSource,
         DiscardRemove, DropSidecar, OpFail, Crash, vars
<1>2. discarded \subseteq discarded'
  BY DEF Next, UploadStep, OpStep, UploadChoose, PartOpen, PartFill, UploadRename, UploadSidecar,
         UploadFail, AcceptStart, DiscardStart, AcceptMove, AcceptCopy, AcceptPlace,
         AcceptDropSource, DiscardRemove, DropSidecar, OpFail, Crash, vars
<1>3. CASE x \in promised
  <2>1. Sent(x, BaseOf(x), up) /\ BaseOf(x)' = BaseOf(x)
    <3>1. CASE x \in Base
      BY <3>1 DEF Sent, BaseOf
    <3>2. CASE x \notin Base
      <4>1. x \in Upload /\ up[x].at = "done"
        BY <1>0, <1>3, <3>2
      <4>2. up'[x].name = up[x].name
        BY <1>0, <4>1 DEF CallsGoOn
      <4> QED BY <3>2, <4>1, <4>2 DEF Sent, BaseOf
    <3> QED BY <3>1, <3>2
  <2>2. BaseOf(x) \notin overlap
    BY <1>0, <2>1 DEF CallsGoOn
  <2>3. Kept(x)
    BY <1>2, <1>3, <2>2 DEF NothingLost
  <2> QED BY <2>1, <2>2, <2>3, KeptStays
<1>4. CASE x \notin promised
  <2>1. PICK u \in Upload : UploadSidecar(u)
    BY <1>1, <1>4
  <2>2. x = u
    BY <1>4, <2>1 DEF UploadSidecar
  <2>3. /\ up[u].at = "renamed" /\ UNCHANGED <<body, inbox, overlap>>
    BY <2>1 DEF UploadSidecar
  <2>4. up'[u].name = up[u].name /\ up[u].name \in InName
    BY <1>0, <2>3 DEF CallsGoOn, Core, CallInv
  <2>5. u \notin Base
    OBVIOUS
  <2>6. up[u].name[1] \notin overlap
    BY <2>2, <2>3, <2>4, <2>5 DEF BaseOf
  <2>7. UploadFits(u)
    BY <2>3, <2>6 DEF Core, UploadInv
  <2> QED BY <2>2, <2>3, <2>4, <2>7 DEF UploadFits, Kept
<1> QED BY <1>3, <1>4

\* For any number of uploads, calls and names: an upload answered with 200 under a
\* name no two calls met on is in the inbox or the share, whole, until the owner
\* discards it, and so are the owner's own files, whatever is cut off or killed in
\* between, a dropped call's last file system call included (write_file, accept, remove).
THEOREM UploadsAreKept == Spec => []NothingLost
<1>1. Init => Core /\ NothingLost
  <2> SUFFICES ASSUME Init, NEW x \in promised PROVE Kept(x)
    BY CoreInit DEF NothingLost
  <2>1. x \in Base /\ <<x, <<>>>> \in Name
    BY NameFacts DEF Init
  <2>2. share[<<x, <<>>>>] = x /\ body[x] = {x} /\ x # NONE
    BY <2>1 DEF Init, Object
  <2> QED BY <2>1, <2>2 DEF Kept
<1>2. Core /\ NothingLost /\ [Next]_vars => (Core /\ NothingLost)'
  BY CoreStep, NothingLostStep
<1> QED BY <1>1, <1>2, PTL DEF Spec

----------------------------------------------------------------------------
(* The sender's name *)

\* A call that is about to drop a sidecar goes on to do it, or is cut off.
LEMMA GoneStays ==
  ASSUME Core, [Next]_vars, ~killed', NEW o \in Op, op[o].at = "gone", ~DropSidecar(o)
  PROVE  op'[o] = op[o]
<1> USE DEF dirs, observed, asked
<1>0. op \in [Op -> OpRec]
  BY DEF Core, TypeOK, OpRec
<1>1. ASSUME NEW p \in Op, OpStep(p), p # o PROVE op'[o] = op[o]
  BY <1>0, <1>1 DEF OpStep, AcceptStart, DiscardStart, AcceptMove, AcceptCopy, AcceptPlace,
     AcceptDropSource, DiscardRemove, DropSidecar, OpFail, OpGoes
<1>2. CASE OpStep(o)
  BY <1>2 DEF OpStep, AcceptStart, DiscardStart, AcceptMove, AcceptCopy, AcceptPlace,
     AcceptDropSource, DiscardRemove, OpFail
<1>3. ASSUME NEW u \in Upload, UploadStep(u) PROVE op' = op
  BY <1>3 DEF UploadStep, UploadChoose, PartOpen, PartFill, UploadRename, UploadSidecar, UploadFail
<1>4. CASE Crash \/ UNCHANGED vars
  BY <1>4 DEF Crash, vars
<1> QED BY <1>1, <1>2, <1>3, <1>4 DEF Next

\* A call that takes a file out of the inbox goes on to its sidecar.
LEMMA TakenThenDropped ==
  ASSUME Core, [Next]_vars, ~killed', NEW nm \in InName, nm[1] \notin overlap,
         inbox[nm] # NONE, inbox'[nm] = NONE
  PROVE  \E o \in Op : op'[o].at = "gone" /\ op'[o].name = nm
<1> USE DEF dirs, observed, asked
<1>0. inbox \in [InName -> Upload \cup {NONE}] /\ op \in [Op -> OpRec]
  BY DEF Core, TypeOK, OpRec
<1>1. ASSUME NEW u \in Upload, UploadRename(u) PROVE FALSE
  <2>1. \/ inbox' = inbox
        \/ part[up[u].name] # NONE /\ inbox' = [inbox EXCEPT ![up[u].name] = part[up[u].name]]
    BY <1>1 DEF UploadRename
  <2> QED BY <1>0, <2>1
<1>2. \/ inbox' = inbox
      \/ \E u \in Upload : UploadRename(u)
      \/ \E o \in Op : /\ inbox' = [inbox EXCEPT ![op[o].name] = NONE]
                       /\ AcceptMove(o) \/ AcceptDropSource(o) \/ DiscardRemove(o)
  BY DEF Next, UploadStep, OpStep, UploadChoose, PartOpen, PartFill, UploadSidecar, UploadFail,
         AcceptStart, DiscardStart, AcceptMove, AcceptCopy, AcceptPlace, AcceptDropSource,
         DiscardRemove, DropSidecar, OpFail, Crash, vars
<1>3. PICK o \in Op : /\ inbox' = [inbox EXCEPT ![op[o].name] = NONE]
                      /\ AcceptMove(o) \/ AcceptDropSource(o) \/ DiscardRemove(o)
  BY <1>1, <1>2
<1>4. op[o].name = nm
  BY <1>0, <1>3
<1>5. op' = [op EXCEPT ![o].at = "gone"]
  BY <1>3, <1>4 DEF AcceptMove, AcceptDropSource, DiscardRemove, OpGoes
<1>6. op'[o].at = "gone" /\ op'[o].name = nm
  BY <1>0, <1>4, <1>5 DEF OpRec
<1> QED BY <1>6

LEMMA SideStep == Core /\ SideInv /\ [Next]_vars => SideInv'
<1> SUFFICES ASSUME Core, SideInv, [Next]_vars PROVE SideInv'
  OBVIOUS
<1> USE DEF dirs, observed, asked
<1>0. /\ CallsGoOn /\ overlap \subseteq overlap' /\ side \in [InName -> Upload \cup {NONE}]
      /\ up \in [Upload -> UpRec] /\ op \in [Op -> OpRec]
      /\ killed \in BOOLEAN /\ (killed => killed')
  <2>1. CallsGoOn /\ overlap \subseteq overlap'
    BY CallsDoGoOn DEF Core, CallsGoOn
  <2>2. killed' = killed \/ killed' = TRUE
    BY DEF Next, UploadStep, OpStep, UploadChoose, PartOpen, PartFill, UploadRename, UploadSidecar,
         UploadFail, AcceptStart, DiscardStart, AcceptMove, AcceptCopy, AcceptPlace,
         AcceptDropSource, DiscardRemove, DropSidecar, OpFail, UpGoes, OpGoes, Crash, vars
  <2> QED BY <2>1, <2>2 DEF Core, TypeOK, UpRec, OpRec
<1>1. \/ side' = side
      \/ \E u \in Upload : UploadSidecar(u)
      \/ \E o \in Op : DropSidecar(o)
  BY DEF Next, UploadStep, OpStep, UploadChoose, PartOpen, PartFill, UploadRename,
         UploadFail, AcceptStart, DiscardStart, AcceptMove, AcceptCopy, AcceptPlace,
         AcceptDropSource, DiscardRemove, OpFail, Crash, vars
<1>2. ASSUME NEW nm \in InName, ~killed', nm[1] \notin overlap', side'[nm] # NONE
      PROVE  \/ inbox'[nm] # NONE /\ body'[inbox'[nm]] = {side'[nm]}
             \/ \E o \in Op : op'[o].at = "gone" /\ op'[o].name = nm
  <2>1. ~killed /\ nm[1] \notin overlap
    BY <1>0, <1>2
  <2>2. ASSUME NEW u \in Upload, UploadSidecar(u), up[u].name = nm
        PROVE  inbox'[nm] # NONE /\ body'[inbox'[nm]] = {side'[nm]}
    <3>1. /\ up[u].at = "renamed" /\ side'[nm] = u /\ inbox' = inbox /\ body' = body
      BY <1>0, <2>2 DEF UploadSidecar
    <3>2. UploadFits(u)
      BY <2>1, <2>2, <3>1 DEF Core, UploadInv
    <3> QED BY <2>2, <3>1, <3>2 DEF UploadFits
  <2>3. ASSUME NEW o \in Op, DropSidecar(o) PROVE op[o].name # nm
    BY <1>0, <1>2, <2>3 DEF DropSidecar
  <2>4. (\E u \in Upload : UploadSidecar(u) /\ up[u].name = nm) \/ side'[nm] = side[nm]
    BY <1>0, <1>1, <2>3 DEF UploadSidecar, DropSidecar
  <2>5. CASE side'[nm] = side[nm]
    <3>1. CASE \E o \in Op : op[o].at = "gone" /\ op[o].name = nm
      <4>1. PICK o \in Op : op[o].at = "gone" /\ op[o].name = nm
        BY <3>1
      <4>2. op'[o] = op[o]
        BY <1>2, <2>3, <4>1, GoneStays
      <4> QED BY <4>1, <4>2
    <3>2. CASE inbox[nm] # NONE /\ body[inbox[nm]] = {side[nm]}
      <4>1. CASE inbox'[nm] = inbox[nm]
        BY <2>1, <2>5, <3>2, <4>1, FilesKept
      <4>2. CASE inbox'[nm] = NONE
        BY <1>2, <2>1, <3>2, <4>2, TakenThenDropped
      <4> QED BY <2>1, <3>2, <4>1, <4>2, InboxEntries
    <3> QED BY <1>2, <2>1, <2>5, <3>1, <3>2 DEF SideInv
  <2> QED BY <2>2, <2>4, <2>5
<1>3. ASSUME NEW v \in Upload, ~killed', Sending(v)', up'[v].name[1] \notin overlap'
      PROVE  side'[up'[v].name] = NONE
  <2>1. ~killed
    BY <1>0, <1>3
  <2>2. CASE Sending(v)
    <3>1. up'[v].name = up[v].name /\ up[v].name \in InName /\ up[v].name[1] \notin overlap
      BY <1>0, <1>3, <2>2 DEF CallsGoOn, Sending, Core, CallInv
    <3>2. side[up[v].name] = NONE
      BY <2>1, <2>2, <3>1 DEF SideInv
    <3>3. ASSUME NEW u \in Upload, UploadSidecar(u) PROVE up[u].name # up[v].name
      <4>1. Sending(u) /\ up'[u].at \in {"done", "failed"}
        BY <1>0, <3>3 DEF UploadSidecar, UpGoes, Sending, UpRec
      <4>2. u # v
        BY <1>3, <4>1 DEF Sending
      <4> QED BY <2>2, <3>1, <4>1, <4>2 DEF Core, AloneInv
    <3>4. side'[up[v].name] = NONE
      BY <1>0, <1>1, <3>1, <3>2, <3>3 DEF UploadSidecar, DropSidecar
    <3> QED BY <3>1, <3>4
  <2>3. CASE ~Sending(v)
    <3>1. PICK b \in Base : UploadChoose(v, b)
      <4>1. up'[v] # up[v]
        BY <1>3, <2>3 DEF Sending
      <4>2. ASSUME NEW u \in Upload, UploadStep(u) PROVE u = v /\ \E b \in Base : UploadChoose(v, b)
        <5>1. u = v
          BY <1>0, <4>1, <4>2 DEF UploadStep, UploadChoose, PartOpen, PartFill, UploadRename,
             UploadSidecar, UploadFail, UpGoes
        <5>2. ~(PartOpen(v) \/ PartFill(v) \/ UploadRename(v) \/ UploadSidecar(v) \/ UploadFail(v))
          BY <2>3 DEF PartOpen, PartFill, UploadRename, UploadSidecar, UploadFail, Sending
        <5> QED BY <4>2, <5>1, <5>2 DEF UploadStep
      <4>3. ASSUME NEW o \in Op, OpStep(o) PROVE FALSE
        <5>1. up' = up
          BY <4>3 DEF OpStep, AcceptStart, DiscardStart, AcceptMove, AcceptCopy, AcceptPlace,
             AcceptDropSource, DiscardRemove, DropSidecar, OpFail
        <5> QED BY <4>1, <5>1
      <4>4. ~Crash /\ ~UNCHANGED vars
        BY <1>3, <4>1 DEF Crash, vars
      <4> QED BY <4>2, <4>3, <4>4 DEF Next
    <3> DEFINE stored == Dedupe(inbox, <<b, <<>>>>)
    <3>2. stored \in InName /\ stored[1] = b /\ inbox[stored] = NONE
      BY <3>1, InboxName DEF UploadChoose
    <3>3. /\ up' = [up EXCEPT ![v].at = "chosen", ![v].name = stored]
          /\ side' = side /\ Meets({<<"inbox", stored>>}, b)
      BY <3>1 DEF UploadChoose
    <3> HIDE DEF stored
    <3>4. up'[v].name = stored
      BY <1>0, <3>3 DEF UpRec
    <3>5. b \notin overlap /\ \A o \in Op : Acting(o) => op[o].name # stored
      BY <1>3, <3>2, <3>3, <3>4, MeetsNobody
    <3>6. side[stored] = NONE
      BY <2>1, <3>2, <3>5 DEF SideInv, Acting
    <3> QED BY <3>3, <3>4, <3>6
  <2> QED BY <2>2, <2>3
<1> QED BY <1>2, <1>3 DEF SideInv

\* A name with a file and a sidecar, that nobody has met on: they go together.
LEMMA SideShowsTheSender == Core /\ SideInv => SenderIsTrue
<1> SUFFICES ASSUME Core, SideInv, NEW nm \in InName, ~killed, nm[1] \notin overlap,
                    inbox[nm] # NONE, side[nm] # NONE
             PROVE  body[inbox[nm]] = {side[nm]}
  BY DEF SenderIsTrue
<1>1. ASSUME NEW o \in Op, op[o].at = "gone", op[o].name = nm PROVE FALSE
  BY <1>1 DEF Core, OpInv, OpFits
<1> QED BY <1>1 DEF SideInv

\* As long as no two calls met and none was cut off, read_meta names the sender of
\* the file it is asked about: write_file writes the sidecar after the file, accept
\* and remove drop it after the file, and a file that comes in between shows none.
THEOREM SendersAreTrue == Spec => []SenderIsTrue
<1>1. Init => Core /\ SideInv
  <2> SUFFICES ASSUME Init PROVE SideInv
    BY CoreInit
  <2>1. /\ \A nm \in InName : side[nm] = NONE
        /\ \A u \in Upload : up[u].at = "new"
    BY DEF Init
  <2> QED BY <2>1 DEF SideInv, Sending
<1>2. Core /\ SideInv /\ [Next]_vars => (Core /\ SideInv)'
  BY CoreStep, SideStep
<1>3. Core /\ SideInv => SenderIsTrue
  BY SideShowsTheSender
<1> QED BY <1>1, <1>2, <1>3, PTL DEF Spec

============================================================================
