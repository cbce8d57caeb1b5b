------------------------------- MODULE Inbox -------------------------------
(***************************************************************************)
(* The drop folder (inbox.rs): peers upload into it, the owner accepts a   *)
(* file into the share or discards it.  The code takes no lock around any  *)
(* of this: between two awaits every other operation may run, on the same  *)
(* name too, and the daemon may be killed.  So every file system call is a *)
(* step of its own.  The notification an upload ends with is EventFeed's.  *)
(*                                                                         *)
(* A file name is a base name with the numbers dedupe_in_dir appended to   *)
(* it.  A file is an object that a directory entry points to, so that a    *)
(* writer goes on writing the file it opened after somebody renamed it.    *)
(***************************************************************************)
EXTENDS Naturals, Sequences

CONSTANTS
  Upload,    \* uploads; an upload also stands for its bytes and its sender
  Op,        \* accept and discard calls of the owner
  Base,      \* file names peers choose
  NONE,      \* no such directory entry
  MaxCopy    \* bound on the numbers dedupe_in_dir tries

\* Base names with at most this many numbers.
Numbered(most) == Base \X UNION {[1..depth -> 1..MaxCopy] : depth \in 0..most}

\* Names in the inbox, and names in the share, where a second number may be added.
InName == Numbered(1)

Name == Numbered(2)

\* Files: one per upload, one per copying accept, and the owner's own files.
Object == Upload \cup Op \cup Base

ASSUME InboxAssumption ==
  /\ MaxCopy \in Nat
  /\ Upload \cap Op = {} /\ Upload \cap Base = {} /\ Op \cap Base = {}
  /\ NONE \notin Object \cup Name

VARIABLES
  body,       \* the uploads (or the owner's file) whose bytes a file holds
  part,       \* the inbox's temp files, by the name they will get
  inbox,      \* the inbox's payload files
  side,       \* the sidecars, with the upload they describe
  share,      \* the top of the share
  sharePart,  \* the share's temp files, by the name they will get
  cross,      \* inbox and share are on different volumes: rename fails
  up,         \* where each upload is, and the name it chose
  op,         \* where each owner's call is, the file it is about, its final name
  promised,   \* observation: uploads answered with 200, and the owner's own files
  discarded,  \* observation: bytes the owner's discards removed
  overlap,    \* observation: base names on which two calls met
  killed      \* observation: a call was cut off part way

vars == <<body, part, inbox, side, share, sharePart, cross, up, op,
          promised, discarded, overlap, killed>>

dirs == <<part, inbox, side, share, sharePart>>

observed == <<promised, discarded, overlap, killed>>

asked == <<promised, discarded, overlap>>

UpAt == {"new", "chosen", "open", "filled", "renamed", "done", "failed"}

OpAt == {"new", "accept", "copied", "placed", "discard", "gone", "done"}

TypeOK ==
  /\ body \in [Object -> SUBSET (Upload \cup Base)]
  /\ part \in [InName -> Upload \cup {NONE}] /\ inbox \in [InName -> Upload \cup {NONE}]
  /\ side \in [InName -> Upload \cup {NONE}]
  /\ share \in [Name -> Object \cup {NONE}] /\ sharePart \in [Name -> Op \cup {NONE}]
  /\ cross \in BOOLEAN
  /\ up \in [Upload -> [at : UpAt, name : InName \cup {NONE}, file : Upload \cup {NONE}]]
  /\ op \in [Op -> [at : OpAt, name : InName \cup {NONE}, final : Name \cup {NONE}]]
  /\ promised \in SUBSET (Upload \cup Base)
  /\ discarded \in SUBSET (Upload \cup Base)
  /\ overlap \in SUBSET Base
  /\ killed \in BOOLEAN

\* The owner may already share files under names that peers choose.
Init ==
  /\ body = [f \in Object |-> IF f \in Base THEN {f} ELSE {}]
  /\ part = [nm \in InName |-> NONE] /\ inbox = part /\ side = part
  /\ sharePart = [nm \in Name |-> NONE]
  /\ promised \in SUBSET Base
  /\ share = [nm \in Name |->
                IF nm[1] \in promised /\ nm[2] = <<>> THEN nm[1] ELSE NONE]
  /\ cross \in BOOLEAN
  /\ up = [u \in Upload |-> [at |-> "new", name |-> NONE, file |-> NONE]]
  /\ op = [o \in Op |-> [at |-> "new", name |-> NONE, final |-> NONE]]
  /\ discarded = {} /\ overlap = {} /\ killed = FALSE

----------------------------------------------------------------------------

Least(S) == CHOOSE k \in S : \A j \in S : k <= j

\* The name with one more number, and the numbers that make it a free one.
With(nm, k) == <<nm[1], Append(nm[2], k)>>

FreeNumbers(dir, nm) == {k \in 1..MaxCopy : dir[With(nm, k)] = NONE}

\* Mutant of Dedupe: an existing file is not noticed.
DedupeBlind(dir, nm) == nm

\* dedupe_in_dir: the name itself, else the first free numbered variant of it.
Dedupe(dir, nm) ==
  IF dir[nm] = NONE THEN nm ELSE With(nm, Least(FreeNumbers(dir, nm)))

\* The code tries numbers without end; here MaxCopy of them must be enough.
HasFree(dir, nm) == dir[nm] = NONE \/ FreeNumbers(dir, nm) # {}

\* Directory entries that calls in flight work on.
UpBusy(u) == IF up[u].at \in {"chosen", "open", "filled", "renamed"}
               THEN {<<"inbox", up[u].name>>} ELSE {}

OpBusy(o) ==
  (IF op[o].at \in {"accept", "copied", "placed", "discard", "gone"}
     THEN {<<"inbox", op[o].name>>} ELSE {})
  \cup (IF op[o].at \in {"accept", "copied"} THEN {<<"share", op[o].final>>} ELSE {})

\* A call that starts on these entries meets another one there.
Meets(entries, b) ==
  LET busy == UNION ({UpBusy(u) : u \in Upload} \cup {OpBusy(o) : o \in Op})
  IN overlap' = IF entries \cap busy # {} THEN overlap \cup {b} ELSE overlap

\* A call goes on after a file system call that worked, or its client has hung up while
\* that call ran: the handler is dropped, and the file system call, which is on tokio's
\* blocking pool, is its last.
UpGoes(u, at) ==
  \/ up' = [up EXCEPT ![u].at = at] /\ UNCHANGED killed
  \/ up' = [up EXCEPT ![u].at = "failed"] /\ killed' = TRUE

OpGoes(o, at) ==
  \/ op' = [op EXCEPT ![o].at = at] /\ UNCHANGED killed
  \/ op' = [op EXCEPT ![o].at = "done"] /\ killed' = TRUE

----------------------------------------------------------------------------
(* POST /v1/upload: write_file *)

\* The name is valid; the free variant is looked up once.
UploadChoose(u, b) ==
  LET stored == Dedupe(inbox, <<b, <<>>>>)
  IN /\ up[u].at = "new" /\ HasFree(inbox, <<b, <<>>>>)
     /\ up' = [up EXCEPT ![u].at = "chosen", ![u].name = stored]
     /\ Meets({<<"inbox", stored>>}, b)
     /\ UNCHANGED <<body, dirs, cross, op, promised, discarded, killed>>

\* Mutant of PartOpen: the rename does not wait for the bytes.
PartOpenOnly(u) ==
  LET nm == up[u].name
      f == IF part[nm] = NONE THEN u ELSE part[nm]
  IN /\ up[u].at = "chosen"
     /\ part' = [part EXCEPT ![nm] = f]
     /\ body' = [body EXCEPT ![f] = {}]
     /\ up' = [up EXCEPT ![u].at = "filled", ![u].file = f]
     /\ UNCHANGED <<inbox, side, share, sharePart, cross, op, observed>>

\* tokio::fs::write on the temp file, its first half: create or truncate.  Both halves
\* are one call of the blocking pool, so that nothing but an error ends it here.
PartOpen(u) ==
  LET nm == up[u].name
      f == IF part[nm] = NONE THEN u ELSE part[nm]
  IN /\ up[u].at = "chosen"
     /\ part' = [part EXCEPT ![nm] = f]
     /\ body' = [body EXCEPT ![f] = {}]
     /\ up' = [up EXCEPT ![u].at = "open", ![u].file = f]
     /\ UNCHANGED <<inbox, side, share, sharePart, cross, op, observed>>

\* Its second half.  Bytes another writer put there are overwritten or stay
\* behind them, as the lengths happen to be.
PartFill(u) ==
  /\ up[u].at = "open"
  /\ \E bytes \in {{u}, body[up[u].file] \cup {u}} :
       body' = [body EXCEPT ![up[u].file] = bytes]
  /\ UpGoes(u, "filled")
  /\ UNCHANGED <<dirs, cross, op, asked>>

\* The rename replaces whatever has the name by now; without a temp file it fails.
UploadRename(u) ==
  LET nm == up[u].name
  IN /\ up[u].at = "filled"
     /\ IF part[nm] = NONE
          THEN /\ up' = [up EXCEPT ![u].at = "failed"]
               /\ UNCHANGED <<part, inbox, killed>>
          ELSE /\ UpGoes(u, "renamed")
               /\ inbox' = [inbox EXCEPT ![nm] = part[nm]]
               /\ part' = [part EXCEPT ![nm] = NONE]
     /\ UNCHANGED <<body, side, share, sharePart, cross, op, asked>>

\* The sidecar is written and the sender is answered with the stored name.
UploadSidecar(u) ==
  /\ up[u].at = "renamed"
  /\ side' = [side EXCEPT ![up[u].name] = u]
  /\ UpGoes(u, "done")
  /\ promised' = IF up'[u].at = "done" THEN promised \cup {u} ELSE promised
  /\ UNCHANGED <<body, part, inbox, share, sharePart, cross, op, discarded, overlap>>

\* An I/O error: what is on disk stays.
UploadFail(u) ==
  /\ up[u].at \in {"chosen", "open", "filled", "renamed"}
  /\ up' = [up EXCEPT ![u].at = "failed"]
  /\ killed' = TRUE
  /\ UNCHANGED <<body, dirs, cross, op, promised, discarded, overlap>>

----------------------------------------------------------------------------
(* POST /v1/admin/inbox/{name}/accept *)

\* resolve finds the file; its name in the share is looked up once.
AcceptStart(o, nm) ==
  LET final == Dedupe(share, nm)
  IN /\ op[o].at = "new"
     /\ inbox[nm] # NONE /\ HasFree(share, nm)
     /\ op' = [op EXCEPT ![o] = [at |-> "accept", name |-> nm, final |-> final]]
     /\ Meets({<<"inbox", nm>>, <<"share", final>>}, nm[1])
     /\ UNCHANGED <<body, dirs, cross, up, promised, discarded, killed>>

\* One volume: a single rename, which fails when the file has gone.  Across volumes
\* it fails too, and the call with it unless the error is the one that is expected:
\* 18, EXDEV on Unix; Windows answers 17.
AcceptMove(o) ==
  LET nm == op[o].name
  IN /\ op[o].at = "accept"
     /\ IF inbox[nm] = NONE \/ cross
          THEN /\ op' = [op EXCEPT ![o].at = "done"]
               /\ UNCHANGED <<inbox, share, killed>>
          ELSE /\ OpGoes(o, "gone")
               /\ share' = [share EXCEPT ![op[o].final] = inbox[nm]]
               /\ inbox' = [inbox EXCEPT ![nm] = NONE]
     /\ UNCHANGED <<body, part, side, sharePart, cross, up, asked>>

\* Two volumes and that error: the bytes go into a temp file of the share first.
AcceptCopy(o) ==
  LET nm == op[o].name
      f == IF sharePart[op[o].final] = NONE THEN o ELSE sharePart[op[o].final]
  IN /\ op[o].at = "accept" /\ cross
     /\ IF inbox[nm] = NONE
          THEN /\ op' = [op EXCEPT ![o].at = "done"]
               /\ UNCHANGED <<body, sharePart, killed>>
          ELSE /\ OpGoes(o, "copied")
               /\ sharePart' = [sharePart EXCEPT ![op[o].final] = f]
               /\ body' = [body EXCEPT ![f] = body[inbox[nm]]]
     /\ UNCHANGED <<part, inbox, side, share, cross, up, asked>>

AcceptPlace(o) ==
  LET final == op[o].final
  IN /\ op[o].at = "copied"
     /\ IF sharePart[final] = NONE
          THEN /\ op' = [op EXCEPT ![o].at = "done"]
               /\ UNCHANGED <<share, sharePart, killed>>
          ELSE /\ OpGoes(o, "placed")
               /\ share' = [share EXCEPT ![final] = sharePart[final]]
               /\ sharePart' = [sharePart EXCEPT ![final] = NONE]
     /\ UNCHANGED <<body, part, inbox, side, cross, up, asked>>

\* Then the source goes; when somebody took it already the call answers an error.
AcceptDropSource(o) ==
  LET nm == op[o].name
  IN /\ op[o].at = "placed"
     /\ OpGoes(o, IF inbox[nm] = NONE THEN "done" ELSE "gone")
     /\ inbox' = [inbox EXCEPT ![nm] = NONE]
     /\ UNCHANGED <<body, part, side, share, sharePart, cross, up, asked>>

----------------------------------------------------------------------------
(* POST /v1/admin/inbox/{name}/discard: remove *)

DiscardStart(o, nm) ==
  /\ op[o].at = "new"
  /\ inbox[nm] # NONE
  /\ op' = [op EXCEPT ![o] = [at |-> "discard", name |-> nm, final |-> NONE]]
  /\ Meets({<<"inbox", nm>>}, nm[1])
  /\ UNCHANGED <<body, dirs, cross, up, promised, discarded, killed>>

DiscardRemove(o) ==
  LET nm == op[o].name
  IN /\ op[o].at = "discard"
     /\ OpGoes(o, IF inbox[nm] = NONE THEN "done" ELSE "gone")
     /\ discarded' = IF inbox[nm] = NONE THEN discarded ELSE discarded \cup body[inbox[nm]]
     /\ inbox' = [inbox EXCEPT ![nm] = NONE]
     /\ UNCHANGED <<body, part, side, share, sharePart, cross, up, promised, overlap>>

\* Mutant of DropSidecar: the sidecar is left behind.
DropSidecarNot(o) ==
  /\ op[o].at = "gone"
  /\ op' = [op EXCEPT ![o].at = "done"]
  /\ UNCHANGED <<body, dirs, cross, up, observed>>

\* The last step of accept and of remove.
DropSidecar(o) ==
  /\ op[o].at = "gone"
  /\ side' = [side EXCEPT ![op[o].name] = NONE]
  /\ op' = [op EXCEPT ![o].at = "done"]
  /\ UNCHANGED <<body, part, inbox, share, sharePart, cross, up, observed>>

\* An I/O error, or the browser hangs up before the first call.
OpFail(o) ==
  /\ op[o].at \notin {"new", "done"}
  /\ op' = [op EXCEPT ![o].at = "done"]
  /\ killed' = TRUE
  /\ UNCHANGED <<body, dirs, cross, up, promised, discarded, overlap>>

\* The daemon is killed: every call ends where it is.
Crash ==
  /\ up' = [u \in Upload |->
             IF up[u].at \in {"new", "done"} THEN up[u] ELSE [up[u] EXCEPT !.at = "failed"]]
  /\ op' = [o \in Op |-> IF op[o].at = "new" THEN op[o] ELSE [op[o] EXCEPT !.at = "done"]]
  /\ killed' = TRUE
  /\ UNCHANGED <<body, dirs, cross, promised, discarded, overlap>>

UploadStep(u) ==
  \/ \E b \in Base : UploadChoose(u, b)
  \/ PartOpen(u) \/ PartFill(u) \/ UploadRename(u) \/ UploadSidecar(u) \/ UploadFail(u)

OpStep(o) ==
  \/ \E nm \in InName : AcceptStart(o, nm) \/ DiscardStart(o, nm)
  \/ AcceptMove(o) \/ AcceptCopy(o) \/ AcceptPlace(o) \/ AcceptDropSource(o)
  \/ DiscardRemove(o) \/ DropSidecar(o) \/ OpFail(o)

Next ==
  \/ \E u \in Upload : UploadStep(u)
  \/ \E o \in Op : OpStep(o)
  \/ Crash

Spec == Init /\ [][Next]_vars

----------------------------------------------------------------------------
(* Properties *)

\* Bytes that some directory entry of the inbox or the share holds whole.
Kept(x) ==
  \/ \E nm \in InName : inbox[nm] # NONE /\ body[inbox[nm]] = {x}
  \/ \E nm \in Name : share[nm] # NONE /\ body[share[nm]] = {x}

BaseOf(x) == IF x \in Base THEN x ELSE up[x].name[1]

\* As long as no two calls met on one directory entry, an upload answered with
\* 200 is in the inbox or the share, whole, until the owner discards it, and
\* the owner's own files stay in the share, also when uploads and accepts fail or are
\* dropped, or the daemon is killed anywhere in between (write_file, accept's
\* copy-then-remove order, dedupe_in_dir in both directories, remove).  A call whose client
\* has hung up is met as long as its last file system call goes on: a sender that tries
\* again at once may find its own first try still writing.
NothingLost ==
  \A x \in promised \ discarded : BaseOf(x) \notin overlap => Kept(x)

\* As long as no two calls met there, a dropped one's last file system call included, a
\* payload name never shows a half-written file, whatever was cut off: in the inbox or
\* the share it holds the bytes of exactly one upload or one of the owner's files (temp
\* file and rename).
WholeFiles ==
  /\ \A nm \in InName : nm[1] \notin overlap /\ inbox[nm] # NONE =>
       \E x \in Upload : body[inbox[nm]] = {x}
  /\ \A nm \in Name : nm[1] \notin overlap /\ share[nm] # NONE =>
       \E x \in Upload \cup Base : body[share[nm]] = {x}

\* As long as no two calls met and none was cut off, the sender shown for an
\* inbox file is the one who sent these bytes (read_meta against the order in
\* which accept, remove and write_file touch file and sidecar).
SenderIsTrue ==
  \A nm \in InName :
    ~killed /\ nm[1] \notin overlap /\ inbox[nm] # NONE /\ side[nm] # NONE
      => body[inbox[nm]] = {side[nm]}

\* protocol.md:145: "Collisions are renamed" - two files with the same name are
\* both kept.
CollisionsKeepBoth == \A x \in promised \ discarded : Kept(x)
============================================================================
