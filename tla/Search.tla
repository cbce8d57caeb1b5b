------------------------------- MODULE Search -------------------------------
(***************************************************************************)
(* Filename search over what a grant lets its PC see: the walk of the PC   *)
(* that is asked (server.rs: search, search_scope; share.rs: list_sync),   *)
(* and the walk by plain listings with which the asking PC helps itself    *)
(* when the other one predates /v1/search (proxy.rs: search,               *)
(* search_fallback; admin.rs: search_all).                                 *)
(*                                                                         *)
(* A walk goes folder by folder while the owner changes scopes and files.  *)
(* The server's walk uses the scope it read when it began; the fallback    *)
(* meets the scope of the moment in every listing.  Visits and results are *)
(* bounded in both.                                                        *)
(***************************************************************************)
EXTENDS ShareScope

CONSTANTS
  Order,        \* the paths, and NO_ACCESS, in the order of their names
  Match,        \* the files whose names match the query
  VisitBudget,  \* SEARCH_VISIT_BUDGET
  MaxVisits,    \* the fallback's MAX_VISITS
  MaxResults,   \* SEARCH_MAX_RESULTS, and 200 in the fallback
  Scenes        \* what owner and PCs do, and the bound on changes of scopes and files
                \* during a walk: a behaviour draws one

ASSUME SearchAssumption ==
  /\ Order \in Seq(Path \cup {NoAccess}) /\ \A p \in Path : \E i \in DOMAIN Order : Order[i] = p
  /\ Match \subseteq Path \ Folder
  /\ NONE \notin Node \cup {"search", "fallback", "done"}
  /\ Scenes \subseteq [acts : SUBSET {"item", "scope", "files", "search"}, changes : Nat]
  /\ VisitBudget \in Nat /\ MaxVisits \in Nat /\ MaxResults \in Nat

VARIABLES
  scene,     \* whether share_item, scope edits, changes of files and searches happen
  walk,      \* the search in progress
  changes    \* changes since the walk began

searchVars == <<scene, walk, changes>>

\* `kind` tells the server's walk from the fallback; `todo` is the stack, or queue, of
\* folders; `direct` and `found` are the hits.  Observations: `scopes`, the grant's scope
\* when the walk began (for the fallback, and since), and `must`, the matching files that
\* stayed and stayed readable.
NoWalk == [kind |-> NONE, node |-> NONE, scopes |-> {}, todo |-> <<>>, visited |-> 0,
           direct |-> <<>>, found |-> <<>>, cut |-> FALSE, must |-> {}]

SearchOK ==
  /\ TypeOK
  /\ scene \in Scenes /\ changes \in 0..scene.changes
  /\ walk \in [kind : {"search", "fallback", "done", NONE}, node : Node \cup {NONE},
              scopes : SUBSET SUBSET (Path \cup {NoAccess}),
              todo : Seq(Path \cup {Root, NoAccess}), visited : Nat,
              direct : Seq(Path), found : Seq(Path), cut : BOOLEAN, must : SUBSET Path]
  /\ walk.kind = "search" => walk.visited <= VisitBudget + 1 /\ Len(walk.found) <= MaxResults
  /\ walk.kind \in {"search", "fallback"} => walk.node \in Node

SearchInit ==
  /\ Init
  /\ scene \in Scenes
  /\ walk = NoWalk /\ changes = 0

----------------------------------------------------------------------------
(* Listings *)

\* The entries of a sequence that are in S, in their order.
Pick(es, S) ==
  LET f[i \in 0..Len(es)] ==
        IF i = 0 THEN <<>>
        ELSE IF es[i] \in S THEN Append(f[i - 1], es[i]) ELSE f[i - 1]
  IN f[Len(es)]

\* ShareRoot::list and list_sync: folders first, then files, each by name; nothing for
\* a path that is not a folder of the share.
Listing(dir) ==
  Pick(Order, Children(dir) \cap Folder) \o Pick(Order, Children(dir) \ Folder)

Readable(s) == {f \in tree \ Folder : CanReadFile(s, f)}

Folders(es) == Pick(es, Folder)

Hits(es) == Pick(es, Match)

Few(es, k) == SubSeq(es, 1, IF Len(es) < k THEN Len(es) ELSE k)

Reversed(es) == [i \in 1..Len(es) |-> es[Len(es) + 1 - i]]

----------------------------------------------------------------------------
(* GET /v1/search *)

\* Mutant of SearchRoots: the walk begins at the top of a granted path.
SearchRootsTop(s) ==
  IF s = Full THEN <<Root>>
  ELSE Pick(Order, {Prefix(q, 1) : q \in s})

\* The whole share, or every granted path.
SearchRoots(s) ==
  IF s = Full THEN <<Root>> ELSE Pick(Order, s)

\* Granted files are matched by their own names.
Direct(s) == Pick(Order, s \cap Match \cap tree)

SearchBegins(n) ==
  /\ walk.kind \in {"done", NONE}
  /\ walk' = [NoWalk EXCEPT !.kind = "search", !.node = n, !.scopes = {scope[n]},
                            !.todo = SearchRoots(scope[n]), !.direct = Direct(scope[n]),
                            !.must = Readable(scope[n]) \cap Match]
  /\ changes' = 0
  /\ UNCHANGED <<scene, vars>>

\* Mutant of SearchStep: the last entry within the budget is not looked at.
SearchStepShort ==
  LET dir == Head(walk.todo)
      room == VisitBudget - walk.visited
      all == Listing(dir)
      seen == Few(all, room - 1)
  IN /\ walk.kind = "search" /\ walk.todo # <<>>
     /\ walk.visited < VisitBudget /\ Len(walk.found) < MaxResults
     /\ walk' = [walk EXCEPT !.todo = Reversed(Folders(seen)) \o Tail(@),
                             !.found = Few(@ \o Hits(seen), MaxResults),
                             !.visited = @ + IF Len(all) > room THEN room + 1 ELSE Len(all),
                             !.cut = (@ \/ Len(all) > room)]
     /\ UNCHANGED <<scene, changes, vars>>

\* Mutant of SearchStep: the budget marks the answer as cut, but does not stop the walk.
SearchStepOn ==
  LET all == Listing(Head(walk.todo))
  IN /\ walk.kind = "search" /\ walk.todo # <<>>
     /\ walk' = [walk EXCEPT !.todo = Reversed(Folders(all)) \o Tail(@),
                             !.found = Few(@ \o Hits(all), MaxResults),
                             !.visited = @ + Len(all),
                             !.cut = (@ \/ walk.visited + Len(all) > VisitBudget)]
     /\ UNCHANGED <<scene, changes, vars>>

\* search_scope takes the next folder: its entries are visited until the budget is
\* used up, folders go on the stack, matching files to the results while there is room.
SearchStep ==
  LET dir == Head(walk.todo)
      room == VisitBudget - walk.visited
      all == Listing(dir)
      seen == Few(all, room)
  IN /\ walk.kind = "search" /\ walk.todo # <<>>
     /\ walk.visited < VisitBudget /\ Len(walk.found) < MaxResults
     /\ walk' = [walk EXCEPT !.todo = Reversed(Folders(seen)) \o Tail(@),
                             !.found = Few(@ \o Hits(seen), MaxResults),
                             !.visited = @ + IF Len(all) > room THEN room + 1 ELSE Len(all),
                             !.cut = (@ \/ Len(all) > room)]
     /\ UNCHANGED <<scene, changes, vars>>

----------------------------------------------------------------------------
(* search_fallback *)

\* GET /v1/list, as the grant has it now.
Visible(n, dir) ==
  IF CanList(scope[n], dir)
    THEN Pick(Listing(dir), {e \in Path : EntryVisible(scope[n], e)}) ELSE <<>>

\* The root is listed once before the loop, which begins with the root as well.
FallbackBegins(n) ==
  LET all == Visible(n, Root)
  IN /\ walk.kind \in {"done", NONE}
     /\ walk' = [NoWalk EXCEPT !.kind = "fallback", !.node = n, !.scopes = {scope[n]},
                               !.todo = <<Root>> \o Folders(all), !.found = Hits(all),
                               !.visited = Len(all),
                               !.must = Readable(scope[n]) \cap Match]
     /\ changes' = 0
     /\ UNCHANGED <<scene, vars>>

FallbackStep ==
  LET all == Visible(walk.node, Head(walk.todo))
      room == MaxVisits - walk.visited
      seen == Few(all, room)
  IN /\ walk.kind = "fallback" /\ walk.todo # <<>>
     /\ walk.visited < MaxVisits /\ Len(walk.found) < MaxResults
     /\ walk' = [walk EXCEPT !.todo = Tail(@) \o Folders(seen), !.found = @ \o Hits(seen),
                             !.visited = @ + IF Len(all) > room THEN room + 1 ELSE Len(all),
                             !.cut = (@ \/ Len(all) > room)]
     /\ UNCHANGED <<scene, changes, vars>>

----------------------------------------------------------------------------

\* Both walks end when nothing is left, or at their bounds.
AtBounds(w) ==
  w.visited >= (IF w.kind = "search" THEN VisitBudget ELSE MaxVisits)
    \/ Len(w.found) >= MaxResults

\* A folder cannot be read, or its listing is lost on the way: both loops go on without it.
WalkMisses ==
  LET dir == Head(walk.todo)
  IN /\ walk.kind \in {"search", "fallback"} /\ walk.todo # <<>> /\ ~AtBounds(walk)
     /\ changes < scene.changes /\ changes' = changes + 1
     /\ walk' = [walk EXCEPT !.todo = Tail(@),
                             !.must = {f \in @ : ~(dir = Root \/ Within(f, dir))}]
     /\ UNCHANGED <<scene, vars>>

WalkEnds ==
  /\ walk.kind \in {"search", "fallback"}
  /\ walk.todo = <<>> \/ AtBounds(walk)
  /\ walk' = [walk EXCEPT !.kind = "done", !.todo = <<>>, !.cut = (@ \/ walk.todo # <<>>)]
  /\ UNCHANGED <<scene, changes, vars>>

\* search_all asks every approved contact: a search, or the fallback.
SearchAll == \E n \in Node : SearchBegins(n) \/ FallbackBegins(n)

\* What the owner does meanwhile: every step of ShareScope.
Change ==
  \/ /\ "item" \in scene.acts
     /\ \/ \E item \in Path, wanted \in SUBSET Node : ShareItemStart(item, wanted)
        \/ ShareItemList \/ ShareItemListFails
        \/ ShareItemApply
  \/ "scope" \in scene.acts /\ \E n \in Node, s \in Choice : SetScope(n, s)
  \/ "files" \in scene.acts /\ \E p \in Path : Create(p) \/ Delete(p)

\* During a walk or between two.
Meddle ==
  /\ Change
  /\ IF walk.kind \in {"search", "fallback"}
       THEN /\ changes' = IF <<tree, scope>>' = <<tree, scope>> THEN changes ELSE changes + 1
            /\ changes' <= scene.changes
            /\ LET mine == scope'[walk.node]
               IN walk' = IF walk.kind = "search" THEN [walk EXCEPT !.must = @ \cap tree']
                          ELSE [walk EXCEPT !.must = {f \in @ \cap tree' : CanReadFile(mine, f)},
                                            !.scopes = @ \cup {mine}]
       ELSE changes' = 0 /\ walk' = NoWalk
  /\ UNCHANGED scene

SearchNext ==
  \/ "search" \in scene.acts /\ SearchAll
  \/ SearchStep \/ FallbackStep \/ WalkMisses \/ WalkEnds
  \/ Meddle

SearchSpec == SearchInit /\ [][SearchNext]_<<vars, searchVars>>

----------------------------------------------------------------------------
(* Properties *)

All(w) == w.direct \o w.found

\* A search names only files that the grant it was answered under lets the PC read,
\* and the fallback only files it could read at some moment of its walk (search's
\* roots and direct hits; the filter of every listing).
SearchInScope ==
  \A i \in DOMAIN All(walk) : \E s \in walk.scopes : CanReadFile(s, All(walk)[i])

\* A walk that ran into no bound has found every matching file that was there and
\* readable all the time and is in no folder whose listing failed, whatever came and went
\* around it (search_scope's stack, the fallback's queue, and the errors both skip).
SearchFindsAll ==
  walk.kind = "done" /\ ~walk.cut /\ Len(walk.found) < MaxResults
    => \A f \in walk.must : \E i \in DOMAIN All(walk) : All(walk)[i] = f
============================================================================
