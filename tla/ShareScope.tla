----------------------------- MODULE ShareScope -----------------------------
(***************************************************************************)
(* What a grant's path list lets its PC see (server.rs: within, can_list,  *)
(* can_read_file, entry_visible), and the item-centric unsharing that      *)
(* rewrites the lists (admin.rs: share_item, subtract_from_scope).         *)
(*                                                                         *)
(* share_item looks at the grants, lets go of them, lists directories one  *)
(* await at a time, and then writes the grants: scope edits, deletions and *)
(* new files come in between.  A path is the sequence of its components;   *)
(* a scope is the set of its paths.                                        *)
(***************************************************************************)
EXTENDS Naturals, Sequences, FiniteSets

CONSTANTS
  Node,       \* PCs with a grant
  Component,  \* names of files and folders
  Path,       \* the paths the share may contain
  Folder,     \* those that are folders
  NoAccess,   \* the path NO_ACCESS, which names nothing
  NONE,       \* no listing was made
  Choice      \* scopes the owner may set by hand

Parent(p) == SubSeq(p, 1, Len(p) - 1)

ASSUME ScopeAssumption ==
  /\ Path \subseteq Seq(Component) /\ Folder \subseteq Path
  /\ \A p \in Path : Len(p) > 0 /\ (Len(p) = 1 \/ Parent(p) \in Folder)
  /\ NoAccess \in Seq(Component) \ Path /\ Len(NoAccess) = 1
  /\ NONE \notin Seq(SUBSET Path)
  /\ Choice \subseteq SUBSET Path

VARIABLES
  tree,     \* what the share contains
  scope,    \* Grant.paths
  op,       \* the share_item call in progress
  hidden,   \* observation: items the owner took from a PC and did not give back
  moved,    \* observation: grants changed since the call looked at them
  unsure    \* observation: the share changed since the call began to list it, or a listing failed

vars == <<tree, scope, op, hidden, moved, unsure>>

Root == <<>>

Full == {}

Idle == [at |-> "idle", item |-> Root, wanted |-> {}, kids |-> NONE]

Closed(t) == \A p \in t : Len(p) = 1 \/ Parent(p) \in t

TypeOK ==
  /\ tree \in SUBSET Path /\ Closed(tree)
  /\ scope \in [Node -> SUBSET (Path \cup {NoAccess})]
  /\ op \in [at : {"idle", "list", "ready"}, item : Path \cup {Root}, wanted : SUBSET Node,
            kids : Seq(SUBSET Path) \cup {NONE}]
  /\ op.at = "idle" => op = Idle
  /\ op.at # "idle" => op.item \in Path
  /\ op.at = "list" => op.kids # NONE /\ Len(op.kids) < Len(op.item)
  /\ op.at = "ready" => op.kids = NONE \/ Len(op.kids) = Len(op.item)
  /\ hidden \in [Node -> SUBSET Path]
  /\ moved \in BOOLEAN /\ unsure \in BOOLEAN

Init ==
  /\ tree \in SUBSET Path /\ Closed(tree)
  /\ scope = [n \in Node |-> Full]
  /\ op = Idle
  /\ hidden = [n \in Node |-> {}]
  /\ moved = FALSE /\ unsure = FALSE

----------------------------------------------------------------------------
(* What a scope allows *)

\* within: `p` lies strictly inside the folder `a`, which is not the root.
Within(p, a) == Len(a) > 0 /\ Len(p) > Len(a) /\ SubSeq(p, 1, Len(a)) = a

AtOrIn(p, a) == p = a \/ Within(p, a)

CanList(s, dir) == s = Full \/ dir = Root \/ \E p \in s : AtOrIn(dir, p) \/ Within(p, dir)

CanReadFile(s, f) == s = Full \/ \E p \in s : AtOrIn(f, p)

\* Mutant of EntryVisible: folders on the way to a granted path are filtered out.
EntryVisibleCovered(s, e) == s = Full \/ \E p \in s : AtOrIn(e, p)

\* The filter list applies to an entry of a folder, when the scope is not full.
EntryVisible(s, e) ==
  s = Full \/ \E p \in s : AtOrIn(e, p) \/ (e \in Folder /\ Within(p, e))

Children(dir) == {p \in tree : Parent(p) = dir}

----------------------------------------------------------------------------
(* subtract_from_scope *)

Prefix(p, k) == SubSeq(p, 1, k)

\* Mutant of Walk: the folders on the way to the item are dropped whole.
WalkFlat(k, item, kids) == kids[k + 1] \ {Prefix(item, k + 1)}

\* walk from the ancestor of length k down to the item: everything listed beside
\* the way, as far as the listings lead down it.
Walk(k, item, kids) ==
  LET w[d \in 0..Len(item)] ==
        IF d = Len(item) THEN {}
        ELSE LET on == Prefix(item, d + 1)
             IN (kids[d + 1] \ {on}) \cup (IF on \in kids[d + 1] THEN w[d + 1] ELSE {})
  IN w[k]

\* Mutant of OrNoAccess: an emptied list stays empty.
OrNothing(s) == s

OrNoAccess(s) == IF s = {} THEN {NoAccess} ELSE s

\* The scope without the item; unchanged when it did not cover the item or when
\* a listing it needs was not made.
Subtract(s, item, kids) ==
  LET above == {p \in s : Within(item, p)}
  IN IF s = Full
       THEN IF kids = NONE THEN s ELSE OrNoAccess(Walk(0, item, kids))
     ELSE IF (item \notin s /\ above = {}) \/ (above # {} /\ kids = NONE)
       THEN s
     ELSE OrNoAccess((s \ (above \cup {item}))
                       \cup UNION {Walk(Len(p), item, kids) : p \in above})

----------------------------------------------------------------------------
(* POST /v1/admin/share-item *)

\* Phase 1: the item exists; if no deselected grant covers it, nothing is listed.
ShareItemStart(item, wanted) ==
  /\ op = Idle
  /\ item \in tree
  /\ LET covers == \E n \in Node \ wanted : CanReadFile(scope[n], item)
     IN op' = [at |-> IF covers THEN "list" ELSE "ready", item |-> item, wanted |-> wanted,
               kids |-> IF covers THEN <<>> ELSE NONE]
  /\ moved' = FALSE /\ unsure' = FALSE
  /\ UNCHANGED <<tree, scope, hidden>>

\* Phase 2: the folders from the root down to the item's parent are listed, one
\* after the other, without the item.
ListedAs(kids) ==
  /\ op.at = "list"
  /\ op' = [op EXCEPT !.kids = Append(@, kids),
                      !.at = IF Len(op.kids) + 1 = Len(op.item) THEN "ready" ELSE "list"]
  /\ UNCHANGED <<tree, scope, hidden, moved>>

\* A folder that is gone counts as empty.
ShareItemList ==
  /\ ListedAs(Children(Prefix(op.item, Len(op.kids))) \ {op.item})
  /\ UNCHANGED unsure

\* The listing fails for another reason: the folder, still there, counts as empty too.
ShareItemListFails ==
  /\ ListedAs({})
  /\ unsure' = TRUE

\* Phase 3: selected PCs get the item unless they have it, the others lose it.
ShareItemApply ==
  LET item == op.item
      given(s) == IF CanReadFile(s, item) THEN s ELSE s \cup {item}
  IN /\ op.at = "ready"
     /\ scope' = [n \in Node |->
                   IF n \in op.wanted THEN given(scope[n])
                   ELSE Subtract(scope[n], item, op.kids)]
     /\ hidden' = [n \in Node |->
                    IF n \in op.wanted THEN {h \in hidden[n] : ~AtOrIn(h, item)}
                    ELSE IF moved THEN hidden[n] ELSE hidden[n] \cup {item}]
     /\ op' = Idle
     /\ UNCHANGED <<tree, moved, unsure>>

----------------------------------------------------------------------------
(* What happens meanwhile *)

\* update_grant sets a scope by hand; a new approval sets the full scope.
SetScope(n, s) ==
  /\ scope' = [scope EXCEPT ![n] = s]
  /\ hidden' = [hidden EXCEPT ![n] = {}]
  /\ moved' = TRUE
  /\ UNCHANGED <<tree, op, unsure>>

\* The owner puts a file or folder into the share.
Create(p) ==
  /\ p \notin tree /\ (Len(p) = 1 \/ Parent(p) \in tree)
  /\ tree' = tree \cup {p}
  /\ unsure' = TRUE
  /\ UNCHANGED <<scope, op, hidden, moved>>

\* myshare_delete: a folder goes with everything in it.  No scope is rewritten.
Delete(p) ==
  /\ p \in tree
  /\ tree' = {q \in tree : ~AtOrIn(q, p)}
  /\ unsure' = TRUE
  /\ UNCHANGED <<scope, op, hidden, moved>>

Next ==
  \/ \E item \in Path, wanted \in SUBSET Node : ShareItemStart(item, wanted)
  \/ ShareItemList
  \/ ShareItemListFails
  \/ ShareItemApply
  \/ \E n \in Node, s \in Choice : SetScope(n, s)
  \/ \E p \in Path : Create(p) \/ Delete(p)

Spec == Init /\ [][Next]_vars

----------------------------------------------------------------------------
(* Properties *)

\* An item the owner unshared from a PC stays out of its reach, through later
\* unsharings of other items and through deletion and re-creation of files,
\* until the owner gives it or a folder around it back (share_item's phase 3;
\* a call during which the grants changed promises nothing).
HiddenStaysHidden ==
  \A n \in Node : \A h \in hidden[n] : ~CanReadFile(scope[n], h)

\* Taking an item away never opens anything to that PC, not even a path that
\* does not exist yet, however stale the listings are (subtract_from_scope and
\* its NO_ACCESS sentinel: an emptied list must not become the full scope).
UnshareNeverWidens ==
  [][\A n \in Node : op.at = "ready" /\ op' = Idle /\ n \notin op.wanted
       => \A f \in Path : CanReadFile(scope'[n], f) => CanReadFile(scope[n], f)]_vars

\* When the share did not change meanwhile and every listing succeeded, taking an item
\* away leaves the PC every other file it could read (walk expands every folder on the
\* way).  A listing that fails takes everything beside the item away as well, where the
\* comment on subtract_from_scope says the scope is left untouched.
UnshareKeepsTheRest ==
  [][\A n \in Node :
       op.at = "ready" /\ op' = Idle /\ n \notin op.wanted /\ ~unsure
         => \A f \in tree \ Folder :
              CanReadFile(scope[n], f) /\ ~AtOrIn(f, op.item)
                => CanReadFile(scope'[n], f)]_vars

\* Listing and reading agree: a file of the share can be read exactly when it
\* can be reached by listing folders from the root down and picking visible
\* entries (can_list and entry_visible against can_read_file).
ListingMatchesReading ==
  \A n \in Node : \A f \in tree \ Folder :
    CanReadFile(scope[n], f) <=>
      \A k \in 1..Len(f) :
        CanList(scope[n], Prefix(f, k - 1)) /\ EntryVisible(scope[n], Prefix(f, k))
============================================================================
