---------------------------- MODULE SearchProofs ----------------------------
(***************************************************************************)
(* Theorems about ShareScope and Search, for every tree of paths, every    *)
(* number of PCs, every budget, and whatever the owner does while a call   *)
(* of share_item lists folders or a search walks through them.             *)
(***************************************************************************)
EXTENDS Search, WellFoundedInduction, SequenceTheorems, TLAPS

----------------------------------------------------------------------------
(* Induction over a set of naturals *)

LEMMA NatSetInduction ==
  ASSUME NEW S \in SUBSET Nat, 0 \in S, \A n \in S : n + 1 \in S
  PROVE  S = Nat
<1> DEFINE T == Nat \ S
           R == OpToRel(<, Nat)
<1> SUFFICES ASSUME T # {} PROVE FALSE
  OBVIOUS
<1>1. IsWellFoundedOn(R, Nat)
  BY NatLessThanWellFounded, Zenon
<1>2. PICK x \in T : \A y \in T : ~(<<y, x>> \in R)
  <2>1. T \subseteq Nat
    OBVIOUS
  <2> HIDE DEF T, R
  <2> QED BY <1>1, <2>1, WFMin
<1>3. \A y \in T : ~(y < x)
  BY <1>2 DEF OpToRel
<1> QED BY <1>3

----------------------------------------------------------------------------
(* Paths *)

LEMMA PathFacts ==
  /\ \A p \in Path : /\ p \in Seq(Component) /\ Len(p) \in Nat /\ Len(p) > 0
                     /\ Len(p) = 1 \/ Parent(p) \in Folder
  /\ Folder \subseteq Path
  /\ NoAccess \in Seq(Component) /\ NoAccess \notin Path /\ Len(NoAccess) = 1
BY ScopeAssumption

\* What a prefix is.
LEMMA PrefixFacts ==
  ASSUME NEW p \in Seq(Component), NEW k \in 0..Len(p)
  PROVE  /\ Prefix(p, k) \in Seq(Component) /\ Len(Prefix(p, k)) = k
         /\ \A i \in 1..k : Prefix(p, k)[i] = p[i]
         /\ k > 0 => Parent(Prefix(p, k)) = Prefix(p, k - 1)
         /\ \A j \in 0..k : Prefix(Prefix(p, k), j) = Prefix(p, j)
<1>1. \A i \in 1..k : p[i] \in Component
  OBVIOUS
<1>2. /\ Prefix(p, k) \in Seq(Component) /\ Len(Prefix(p, k)) = k
      /\ \A i \in 1..k : Prefix(p, k)[i] = p[i]
  BY <1>1, SubSeqProperties DEF Prefix
<1>3. ASSUME NEW j \in 0..k PROVE Prefix(Prefix(p, k), j) = Prefix(p, j)
  <2> DEFINE q == Prefix(p, k)
  <2>1. /\ q \in Seq(Component) /\ Len(q) = k /\ \A i \in 1..j : q[i] \in Component /\ q[i] = p[i]
    BY <1>2
  <2> HIDE DEF q
  <2>2. /\ Prefix(q, j) \in Seq(Component) /\ Len(Prefix(q, j)) = j
        /\ \A i \in 1..j : Prefix(q, j)[i] = q[i]
    BY <2>1, SubSeqProperties DEF Prefix
  <2>3. /\ Prefix(p, j) \in Seq(Component) /\ Len(Prefix(p, j)) = j
        /\ \A i \in 1..j : Prefix(p, j)[i] = p[i]
    BY <1>1, SubSeqProperties DEF Prefix
  <2>4. Prefix(q, j) = Prefix(p, j)
    BY <2>1, <2>2, <2>3, SeqEqual
  <2> QED BY <2>4 DEF q
<1>4. k > 0 => Parent(Prefix(p, k)) = Prefix(p, k - 1)
  <2> SUFFICES ASSUME k > 0 PROVE Parent(Prefix(p, k)) = Prefix(p, k - 1)
    OBVIOUS
  <2>1. k - 1 \in 0..k /\ Parent(Prefix(p, k)) = Prefix(Prefix(p, k), k - 1)
    BY <1>2 DEF Parent, Prefix
  <2> QED BY <1>3, <2>1
<1> QED BY <1>2, <1>3, <1>4

\* A path is its longest prefix, and the shortest one is the root.
LEMMA PrefixEnds ==
  ASSUME NEW p \in Seq(Component)
  PROVE  Prefix(p, Len(p)) = p /\ Prefix(p, 0) = Root
<1>1. Prefix(p, Len(p)) = p
  BY SubSeqFull DEF Prefix
<1>2. Prefix(p, 0) = Root
  BY SubSeqEmpty DEF Prefix, Root
<1> QED BY <1>1, <1>2

\* Within is about prefixes.
LEMMA WithinPrefix ==
  ASSUME NEW p \in Seq(Component), NEW a \in Seq(Component)
  PROVE  /\ Within(p, a) <=> Len(a) \in 1..(Len(p) - 1) /\ Prefix(p, Len(a)) = a
         /\ AtOrIn(p, a) /\ Len(a) > 0 <=> Len(a) \in 1..Len(p) /\ Prefix(p, Len(a)) = a
<1>1. Within(p, a) <=> Len(a) \in 1..(Len(p) - 1) /\ Prefix(p, Len(a)) = a
  BY DEF Within, Prefix
<1>2. Len(a) = Len(p) => (Prefix(p, Len(a)) = a <=> p = a)
  BY PrefixEnds
<1> QED BY <1>1, <1>2 DEF AtOrIn

\* The paths on the way to a path of the share are folders.
LEMMA PathPrefix ==
  ASSUME NEW p \in Path, NEW k \in 1..Len(p)
  PROVE  Prefix(p, k) \in Path /\ (k < Len(p) => Prefix(p, k) \in Folder)
<1> DEFINE Good(j) == Prefix(p, j) \in Path /\ (j < Len(p) => Prefix(p, j) \in Folder)
           S == {d \in Nat : d < Len(p) => Good(Len(p) - d)}
<1>0. p \in Seq(Component) /\ Len(p) \in Nat /\ Len(p) > 0
  BY PathFacts
<1>1. 0 \in S
  BY <1>0, PrefixEnds
<1>2. ASSUME NEW d \in S PROVE d + 1 \in S
  <2> SUFFICES ASSUME d + 1 < Len(p) PROVE Good(Len(p) - (d + 1))
    OBVIOUS
  <2> DEFINE j == Len(p) - d
  <2>1. j \in 2..Len(p) /\ Len(p) - (d + 1) = j - 1
    BY <1>0
  <2>2. Prefix(p, j) \in Path
    OBVIOUS
  <2> HIDE DEF j
  <2>3. Len(Prefix(p, j)) = j /\ Parent(Prefix(p, j)) = Prefix(p, j - 1)
    BY <1>0, <2>1, PrefixFacts
  <2>4. Prefix(p, j - 1) \in Folder
    <3>1. Len(Prefix(p, j)) # 1
      BY <2>1, <2>3
    <3>2. Parent(Prefix(p, j)) \in Folder
      BY <2>2, <3>1, PathFacts, Zenon
    <3> QED BY <2>3, <3>2
  <2> QED BY <2>1, <2>4, PathFacts
<1>3. S = Nat
  <2>1. S \in SUBSET Nat
    OBVIOUS
  <2> HIDE DEF S
  <2> QED BY <1>1, <1>2, <2>1, NatSetInduction
<1>4. Len(p) - k \in Nat /\ Len(p) - k < Len(p) /\ Len(p) - (Len(p) - k) = k
  BY <1>0
<1> QED BY <1>3, <1>4

\* A share that is closed has the folders on the way to what it has.
LEMMA TreePrefix ==
  ASSUME NEW t \in SUBSET Path, Closed(t), NEW p \in t, NEW k \in 1..Len(p)
  PROVE  Prefix(p, k) \in t
<1> DEFINE S == {d \in Nat : d < Len(p) => Prefix(p, Len(p) - d) \in t}
<1>0. p \in Seq(Component) /\ Len(p) \in Nat /\ Len(p) > 0
  BY PathFacts
<1>1. 0 \in S
  BY <1>0, PrefixEnds
<1>2. ASSUME NEW d \in S PROVE d + 1 \in S
  <2> SUFFICES ASSUME d + 1 < Len(p) PROVE Prefix(p, Len(p) - (d + 1)) \in t
    OBVIOUS
  <2> DEFINE j == Len(p) - d
  <2>1. j \in 2..Len(p) /\ Len(p) - (d + 1) = j - 1
    BY <1>0
  <2>2. Prefix(p, j) \in t
    OBVIOUS
  <2> HIDE DEF j
  <2>3. Len(Prefix(p, j)) = j /\ Parent(Prefix(p, j)) = Prefix(p, j - 1)
    BY <1>0, <2>1, PrefixFacts
  <2>4. Len(Prefix(p, j)) # 1
    BY <2>1, <2>3
  <2>5. Parent(Prefix(p, j)) \in t
    BY <2>2, <2>4, Zenon DEF Closed
  <2> QED BY <2>1, <2>3, <2>5
<1>3. S = Nat
  <2>1. S \in SUBSET Nat
    OBVIOUS
  <2> HIDE DEF S
  <2> QED BY <1>1, <1>2, <2>1, NatSetInduction
<1>4. Len(p) - k \in Nat /\ Len(p) - k < Len(p) /\ Len(p) - (Len(p) - k) = k
  BY <1>0
<1> QED BY <1>3, <1>4

\* NO_ACCESS names nothing and leads to nothing.
LEMMA NoAccessCoversNothing ==
  ASSUME NEW p \in Path
  PROVE  ~AtOrIn(p, NoAccess)
<1> SUFFICES ASSUME AtOrIn(p, NoAccess) PROVE FALSE
  OBVIOUS
<1>1. p \in Seq(Component) /\ NoAccess \in Seq(Component) /\ Len(NoAccess) = 1
  BY PathFacts
<1>2. 1 \in 1..Len(p) /\ Prefix(p, 1) = NoAccess
  <2>1. AtOrIn(p, NoAccess) /\ Len(NoAccess) > 0
    BY <1>1
  <2>2. Len(NoAccess) \in 1..Len(p) /\ Prefix(p, Len(NoAccess)) = NoAccess
    BY <1>1, <2>1, WithinPrefix, Zenon
  <2> QED BY <1>1, <2>2
<1> QED BY <1>2, PathPrefix, PathFacts

\* Whatever is granted, a path is a sequence that is not empty.
LEMMA GrantedFacts ==
  ASSUME NEW p \in Path \cup {NoAccess}
  PROVE  p \in Seq(Component) /\ Len(p) \in Nat /\ Len(p) > 0
BY PathFacts

\* A path that covers another lies on the way to it.
LEMMA OnTheWay ==
  ASSUME NEW f \in Seq(Component), NEW p \in Seq(Component), Len(p) > 0, AtOrIn(f, p),
         NEW k \in 0..Len(f)
  PROVE  /\ Len(p) <= k => AtOrIn(Prefix(f, k), p)
         /\ k > 0 /\ k < Len(p) => Within(p, Prefix(f, k))
<1>1. Len(p) \in 1..Len(f) /\ Prefix(f, Len(p)) = p
  BY WithinPrefix
<1>2. Prefix(f, k) \in Seq(Component) /\ Len(Prefix(f, k)) = k
  BY PrefixFacts
<1>3. ASSUME Len(p) <= k PROVE AtOrIn(Prefix(f, k), p)
  <2>1. Len(p) \in 0..k
    BY <1>1, <1>3
  <2>2. Prefix(Prefix(f, k), Len(p)) = p
    BY <1>1, <2>1, PrefixFacts
  <2> QED BY <1>1, <1>2, <1>3, <2>2, WithinPrefix
<1>4. ASSUME k > 0, k < Len(p) PROVE Within(p, Prefix(f, k))
  <2>1. Len(p) \in 0..Len(f) /\ k \in 0..Len(p)
    BY <1>1, <1>4
  <2>2. Prefix(Prefix(f, Len(p)), k) = Prefix(f, k)
    BY <2>1, PrefixFacts
  <2> QED BY <1>1, <1>2, <1>4, <2>2, WithinPrefix
<1> QED BY <1>3, <1>4

\* What covers a path covers everything below it.
LEMMA CoverDown ==
  ASSUME NEW f \in Seq(Component), NEW q \in Seq(Component), NEW p \in Seq(Component),
         Len(q) > 0, Len(p) > 0, AtOrIn(f, q), AtOrIn(q, p)
  PROVE  AtOrIn(f, p) /\ (Within(q, p) => Within(f, p))
<1>1. /\ Len(q) \in 1..Len(f) /\ Prefix(f, Len(q)) = q
      /\ Len(p) \in 1..Len(q) /\ Prefix(q, Len(p)) = p
  BY WithinPrefix
<1>2. Len(q) \in 0..Len(f) /\ Len(p) \in 0..Len(q) /\ Len(p) \in 1..Len(f)
  BY <1>1
<1>3. Prefix(f, Len(p)) = p
  BY <1>1, <1>2, PrefixFacts
<1>4. Within(q, p) => Len(p) \in 1..(Len(f) - 1)
  BY <1>1, WithinPrefix
<1> QED BY <1>2, <1>3, <1>4, WithinPrefix

----------------------------------------------------------------------------
(* Listing and reading *)

\* Reading implies listing, at each step down to the path.
LEMMA ReadIsListed ==
  ASSUME NEW s \in SUBSET (Path \cup {NoAccess}), NEW f \in Path, CanReadFile(s, f),
         NEW k \in 1..Len(f)
  PROVE  CanList(s, Prefix(f, k - 1)) /\ EntryVisible(s, Prefix(f, k))
<1>0. f \in Seq(Component) /\ Len(f) \in Nat /\ k - 1 \in 0..Len(f) /\ k \in 0..Len(f)
  BY PathFacts
<1>1. CASE s = Full
  BY <1>1 DEF CanList, EntryVisible
<1>2. CASE s # Full
  <2>1. PICK p \in s : AtOrIn(f, p)
    BY <1>2 DEF CanReadFile
  <2>2. p \in Seq(Component) /\ Len(p) \in Nat /\ Len(p) > 0
    BY GrantedFacts
  <2>3. CanList(s, Prefix(f, k - 1))
    <3>1. CASE k = 1
      BY <1>0, <3>1, PrefixEnds DEF CanList
    <3>2. CASE k # 1 /\ Len(p) <= k - 1
      BY <1>0, <2>1, <2>2, <3>2, OnTheWay DEF CanList
    <3>3. CASE k # 1 /\ k - 1 < Len(p)
      BY <1>0, <2>1, <2>2, <3>3, OnTheWay DEF CanList
    <3> QED BY <1>0, <2>2, <3>1, <3>2, <3>3
  <2>4. EntryVisible(s, Prefix(f, k))
    <3>1. CASE Len(p) <= k
      BY <1>0, <2>1, <2>2, <3>1, OnTheWay DEF EntryVisible
    <3>2. CASE k < Len(p)
      <4>1. Len(p) <= Len(f)
        BY <1>0, <2>1, <2>2, WithinPrefix
      <4>2. Prefix(f, k) \in Folder
        BY <1>0, <2>2, <3>2, <4>1, PathPrefix
      <4> QED BY <1>0, <2>1, <2>2, <3>2, <4>2, OnTheWay DEF EntryVisible
    <3> QED BY <1>0, <2>2, <3>1, <3>2
  <2> QED BY <2>3, <2>4
<1> QED BY <1>1, <1>2

\* can_list and entry_visible agree with can_read_file, whatever the scope.
LEMMA ListingIsReading == TypeOK => ListingMatchesReading
<1> SUFFICES ASSUME TypeOK, NEW n \in Node, NEW f \in tree \ Folder
             PROVE  CanReadFile(scope[n], f) <=>
                      \A k \in 1..Len(f) :
                        CanList(scope[n], Prefix(f, k - 1)) /\ EntryVisible(scope[n], Prefix(f, k))
  BY DEF ListingMatchesReading
<1>1. f \in Path /\ scope[n] \in SUBSET (Path \cup {NoAccess}) /\ f \in Seq(Component)
      /\ Len(f) \in 1..Len(f)
  BY PathFacts DEF TypeOK
<1>2. CanReadFile(scope[n], f) =>
        \A k \in 1..Len(f) :
          CanList(scope[n], Prefix(f, k - 1)) /\ EntryVisible(scope[n], Prefix(f, k))
  BY <1>1, ReadIsListed
<1>3. EntryVisible(scope[n], f) => CanReadFile(scope[n], f)
  BY DEF EntryVisible, CanReadFile
<1>4. Prefix(f, Len(f)) = f
  BY <1>1, PrefixEnds
<1> QED BY <1>1, <1>2, <1>3, <1>4

----------------------------------------------------------------------------
(* The walk beside the way *)

\* What Walk collects, without recursion: what is listed beside the way at depth d, as
\* long as the listings above have the way itself.
Beside(k, item, kids) ==
  {q \in Path : \E d \in k..(Len(item) - 1) :
     /\ q \in kids[d + 1] \ {Prefix(item, d + 1)}
     /\ \A j \in k..(d - 1) : Prefix(item, j + 1) \in kids[j + 1]}

\* The equation that the function in Walk's body solves.
Walks(item, kids, w) ==
  w = [d \in 0..Len(item) |->
        IF d = Len(item) THEN {}
        ELSE (kids[d + 1] \ {Prefix(item, d + 1)})
               \cup (IF Prefix(item, d + 1) \in kids[d + 1] THEN w[d + 1] ELSE {})]

LEMMA BesideStep ==
  ASSUME NEW item, Len(item) \in Nat, NEW kids \in [1..Len(item) -> SUBSET Path],
         NEW k \in 0..Len(item)
  PROVE  Beside(k, item, kids) =
           IF k = Len(item) THEN {}
           ELSE (kids[k + 1] \ {Prefix(item, k + 1)})
                  \cup (IF Prefix(item, k + 1) \in kids[k + 1] THEN Beside(k + 1, item, kids) ELSE {})
<1>1. CASE k = Len(item)
  <2>1. k..(Len(item) - 1) = {}
    BY <1>1
  <2> QED BY <1>1, <2>1 DEF Beside
<1>2. CASE k # Len(item)
  <2>0. k \in 0..(Len(item) - 1) /\ k + 1 \in 1..Len(item) /\ kids[k + 1] \subseteq Path
    BY <1>2
  <2>1. ASSUME NEW q \in kids[k + 1] \ {Prefix(item, k + 1)} PROVE q \in Beside(k, item, kids)
    <3>1. k \in k..(Len(item) - 1) /\ k..(k - 1) = {}
      BY <2>0
    <3> QED BY <2>0, <2>1, <3>1 DEF Beside
  <2>2. ASSUME Prefix(item, k + 1) \in kids[k + 1], NEW q \in Beside(k + 1, item, kids)
        PROVE  q \in Beside(k, item, kids)
    <3>1. PICK d \in (k + 1)..(Len(item) - 1) :
            /\ q \in kids[d + 1] \ {Prefix(item, d + 1)}
            /\ \A j \in (k + 1)..(d - 1) : Prefix(item, j + 1) \in kids[j + 1]
      BY <2>2 DEF Beside
    <3>2. d \in k..(Len(item) - 1)
      BY <2>0
    <3>3. ASSUME NEW j \in k..(d - 1) PROVE Prefix(item, j + 1) \in kids[j + 1]
      <4>1. CASE j = k
        BY <2>2, <4>1
      <4>2. CASE j # k
        <5>1. j \in (k + 1)..(d - 1)
          BY <2>0, <3>2, <4>2
        <5> QED BY <3>1, <5>1
      <4> QED BY <4>1, <4>2
    <3> QED BY <2>2, <3>1, <3>2, <3>3 DEF Beside
  <2>3. ASSUME NEW q \in Beside(k, item, kids)
        PROVE  \/ q \in kids[k + 1] \ {Prefix(item, k + 1)}
               \/ Prefix(item, k + 1) \in kids[k + 1] /\ q \in Beside(k + 1, item, kids)
    <3>1. PICK d \in k..(Len(item) - 1) :
            /\ q \in kids[d + 1] \ {Prefix(item, d + 1)}
            /\ \A j \in k..(d - 1) : Prefix(item, j + 1) \in kids[j + 1]
      BY <2>3 DEF Beside
    <3>2. CASE d = k
      BY <3>1, <3>2
    <3>3. CASE d # k
      <4>1. d \in (k + 1)..(Len(item) - 1) /\ k \in k..(d - 1)
        BY <2>0, <3>3
      <4>2. \A j \in (k + 1)..(d - 1) : j \in k..(d - 1)
        BY <2>0
      <4>3. q \in Path
        BY <2>3 DEF Beside
      <4>4. Prefix(item, k + 1) \in kids[k + 1]
        BY <3>1, <4>1
      <4>5. q \in Beside(k + 1, item, kids)
        BY <3>1, <4>1, <4>2, <4>3 DEF Beside
      <4> QED BY <4>4, <4>5
    <3> QED BY <3>2, <3>3
  <2> QED BY <1>2, <2>1, <2>2, <2>3
<1> QED BY <1>1, <1>2

\* Walk computes what lies beside the way.
LEMMA WalkIsBeside ==
  ASSUME NEW item, Len(item) \in Nat, NEW kids \in [1..Len(item) -> SUBSET Path],
         NEW k \in 0..Len(item)
  PROVE  Walk(k, item, kids) = Beside(k, item, kids)
<1> DEFINE W == CHOOSE w : Walks(item, kids, w)
           G == [d \in 0..Len(item) |-> Beside(d, item, kids)]
<1>1. Walk(k, item, kids) = W[k]
  BY DEF Walk, Walks
<1>2. Walks(item, kids, G)
  <2> DEFINE H == [d \in 0..Len(item) |->
                     IF d = Len(item) THEN {}
                     ELSE (kids[d + 1] \ {Prefix(item, d + 1)})
                            \cup (IF Prefix(item, d + 1) \in kids[d + 1] THEN G[d + 1] ELSE {})]
  <2>1. ASSUME NEW d \in 0..Len(item) PROVE G[d] = H[d]
    <3>1. CASE d = Len(item)
      BY <3>1, BesideStep
    <3>2. CASE d # Len(item)
      <4>1. d + 1 \in 0..Len(item) /\ G[d + 1] = Beside(d + 1, item, kids)
        BY <3>2
      <4>2. G[d] = (kids[d + 1] \ {Prefix(item, d + 1)})
                     \cup (IF Prefix(item, d + 1) \in kids[d + 1] THEN G[d + 1] ELSE {})
        BY <3>2, <4>1, BesideStep
      <4> QED BY <3>2, <4>2
    <3> QED BY <3>1, <3>2
  <2>2. G = H
    BY <2>1
  <2> QED BY <2>2 DEF Walks
<1>3. Walks(item, kids, W)
  <2> HIDE DEF G
  <2> QED BY <1>2
<1> HIDE DEF W
<1> DEFINE S == {d \in Nat : d <= Len(item) => W[Len(item) - d] = Beside(Len(item) - d, item, kids)}
<1>4. 0 \in S
  <2>1. W[Len(item)] = {}
    BY <1>3 DEF Walks
  <2>2. Beside(Len(item), item, kids) = {}
    BY BesideStep
  <2>3. Len(item) - 0 = Len(item)
    OBVIOUS
  <2> QED BY <2>1, <2>2, <2>3
<1>5. ASSUME NEW d \in S PROVE d + 1 \in S
  <2> SUFFICES ASSUME d + 1 <= Len(item)
               PROVE  W[Len(item) - (d + 1)] = Beside(Len(item) - (d + 1), item, kids)
    OBVIOUS
  <2> DEFINE e == Len(item) - (d + 1)
  <2>1. e \in 0..Len(item) /\ e # Len(item) /\ Len(item) - d = e + 1
    OBVIOUS
  <2>2. W[e + 1] = Beside(e + 1, item, kids)
    <3>1. W[Len(item) - d] = Beside(Len(item) - d, item, kids)
      BY <1>5
    <3> HIDE DEF e
    <3> QED BY <2>1, <3>1
  <2> HIDE DEF e
  <2>3. W[e] = (kids[e + 1] \ {Prefix(item, e + 1)})
                 \cup (IF Prefix(item, e + 1) \in kids[e + 1] THEN W[e + 1] ELSE {})
    BY <1>3, <2>1 DEF Walks
  <2>4. W[e] = Beside(e, item, kids)
    BY <2>1, <2>2, <2>3, BesideStep
  <2> QED BY <2>4 DEF e
<1>6. S = Nat
  <2>1. S \in SUBSET Nat
    OBVIOUS
  <2> HIDE DEF S
  <2> QED BY <1>4, <1>5, <2>1, NatSetInduction
<1>7. Len(item) - k \in Nat /\ Len(item) - k <= Len(item) /\ Len(item) - (Len(item) - k) = k
  OBVIOUS
<1> QED BY <1>1, <1>6, <1>7

----------------------------------------------------------------------------
(* subtract_from_scope *)

\* Listings of the folders down to the item, from whatever time each of them is.
Listed(item, kids) ==
  /\ kids \in [1..Len(item) -> SUBSET Path]
  /\ \A i \in 1..Len(item) : \A q \in kids[i] : Parent(q) = Prefix(item, i - 1)

\* The scope that is left when the item goes, before NO_ACCESS fills in.
Left(s, item, kids) ==
  IF s = Full THEN Beside(0, item, kids)
  ELSE {q \in s : q # item /\ ~Within(item, q)}
         \cup {q \in Path : \E p \in s : Within(item, p) /\ q \in Beside(Len(p), item, kids)}

LEMMA ParentIsPrefix ==
  ASSUME NEW q \in Path
  PROVE  Parent(q) = Prefix(q, Len(q) - 1) /\ Len(Parent(q)) = Len(q) - 1
<1>1. q \in Seq(Component) /\ Len(q) - 1 \in 0..Len(q)
  BY PathFacts
<1>2. Parent(q) = Prefix(q, Len(q) - 1)
  BY DEF Parent, Prefix
<1> QED BY <1>1, <1>2, PrefixFacts

\* What lies beside the way does not lead to the item, and lies where the walk began.
LEMMA BesideFacts ==
  ASSUME NEW item \in Path, NEW kids, Listed(item, kids), NEW k \in 0..Len(item),
         NEW q \in Beside(k, item, kids)
  PROVE  /\ q \in Path /\ ~AtOrIn(item, q)
         /\ k > 0 => Within(q, Prefix(item, k))
<1>1. PICK d \in k..(Len(item) - 1) : q \in kids[d + 1] \ {Prefix(item, d + 1)}
  BY DEF Beside
<1>2. /\ item \in Seq(Component) /\ Len(item) \in Nat /\ d \in 0..Len(item)
      /\ d + 1 \in 1..Len(item) /\ (d + 1) - 1 = d /\ d \in Nat
  BY PathFacts
<1>3. q \in Path /\ Parent(q) = Prefix(item, d)
  <2>1. q \in Path
    BY DEF Beside
  <2>2. Parent(q) = Prefix(item, (d + 1) - 1)
    BY <1>1, <1>2 DEF Listed
  <2> QED BY <1>2, <2>1, <2>2
<1>4. q \in Seq(Component) /\ Len(q) \in Nat /\ Len(q) > 0
  BY <1>3, PathFacts
<1>5. Len(q) = d + 1 /\ Prefix(q, d) = Prefix(item, d)
  <2>1. Len(Prefix(item, d)) = d
    BY <1>2, PrefixFacts
  <2>2. Parent(q) = Prefix(q, Len(q) - 1) /\ Len(Parent(q)) = Len(q) - 1
    BY <1>3, ParentIsPrefix
  <2>3. Len(q) = d + 1 /\ Len(q) - 1 = d
    BY <1>2, <1>3, <1>4, <2>1, <2>2
  <2> QED BY <1>3, <2>2, <2>3
<1>6. ~AtOrIn(item, q)
  <2> SUFFICES ASSUME AtOrIn(item, q) PROVE FALSE
    OBVIOUS
  <2>1. Prefix(item, Len(q)) = q
    BY <1>2, <1>4, WithinPrefix
  <2> QED BY <1>1, <1>5, <2>1
<1>7. k > 0 => Within(q, Prefix(item, k))
  <2> SUFFICES ASSUME k > 0 PROVE Within(q, Prefix(item, k))
    OBVIOUS
  <2>1. k \in 0..d /\ d \in 0..Len(q) /\ k \in 1..(Len(q) - 1)
    BY <1>2, <1>5
  <2>2. Prefix(Prefix(q, d), k) = Prefix(q, k)
    BY <1>4, <2>1, PrefixFacts
  <2>3. Prefix(Prefix(item, d), k) = Prefix(item, k)
    BY <1>2, <2>1, PrefixFacts
  <2>4. Prefix(q, k) = Prefix(item, k)
    BY <1>5, <2>2, <2>3
  <2>5. Prefix(item, k) \in Seq(Component) /\ Len(Prefix(item, k)) = k
    BY <1>2, PrefixFacts
  <2> QED BY <1>4, <2>1, <2>4, <2>5, WithinPrefix
<1> QED BY <1>3, <1>6, <1>7

LEMMA WithinLen ==
  ASSUME NEW item \in Path, NEW p \in Path \cup {NoAccess}, Within(item, p)
  PROVE  Len(p) \in 0..Len(item) /\ Len(p) > 0 /\ Prefix(item, Len(p)) = p
<1>1. p \in Seq(Component) /\ item \in Seq(Component)
  BY GrantedFacts, PathFacts
<1>2. Len(p) \in 1..(Len(item) - 1) /\ Prefix(item, Len(p)) = p
  BY <1>1, WithinPrefix
<1> QED BY <1>1, <1>2

\* With listings, the item is taken out of every scope that covers it.
LEMMA SubtractListed ==
  ASSUME NEW s \in SUBSET (Path \cup {NoAccess}), NEW item \in Path,
         NEW kids, Listed(item, kids)
  PROVE  Subtract(s, item, kids) =
           IF CanReadFile(s, item) THEN OrNoAccess(Left(s, item, kids)) ELSE s
<1>0. /\ Len(item) \in Nat /\ Len(item) > 0 /\ kids \in [1..Len(item) -> SUBSET Path]
      /\ kids # NONE
  <2>1. Len(item) \in Nat /\ Len(item) > 0 /\ kids \in [1..Len(item) -> SUBSET Path]
    BY PathFacts DEF Listed
  <2>2. kids \in Seq(SUBSET Path)
    BY <2>1
  <2> QED BY <2>1, <2>2, ScopeAssumption
<1>1. CASE s = Full
  <2>1. Walk(0, item, kids) = Beside(0, item, kids)
    BY <1>0, WalkIsBeside
  <2> QED BY <1>0, <1>1, <2>1 DEF Subtract, CanReadFile, Left
<1>2. CASE s # Full
  <2> DEFINE above == {p \in s : Within(item, p)}
             U == UNION {Walk(Len(p), item, kids) : p \in above}
             V == {q \in Path : \E p \in s : Within(item, p) /\ q \in Beside(Len(p), item, kids)}
  <2>1. CanReadFile(s, item) <=> ~(item \notin s /\ above = {})
    BY <1>2 DEF CanReadFile, AtOrIn
  <2>2. U = V
    <3>1. \A p \in above : Walk(Len(p), item, kids) = Beside(Len(p), item, kids)
      BY <1>0, WithinLen, WalkIsBeside
    <3>2. \A p \in above : Beside(Len(p), item, kids) \subseteq Path
      BY DEF Beside
    <3> QED BY <3>1, <3>2
  <2>3. s \ (above \cup {item}) = {q \in s : q # item /\ ~Within(item, q)}
    OBVIOUS
  <2>4. Subtract(s, item, kids) =
          IF item \notin s /\ above = {} THEN s ELSE OrNoAccess((s \ (above \cup {item})) \cup U)
    BY <1>0, <1>2 DEF Subtract
  <2>5. Left(s, item, kids) = {q \in s : q # item /\ ~Within(item, q)} \cup V
    BY <1>2 DEF Left
  <2> HIDE DEF above, U, V
  <2> QED BY <2>1, <2>2, <2>3, <2>4, <2>5
<1> QED BY <1>1, <1>2

\* Without listings, only an exact path is taken out.
LEMMA SubtractUnlisted ==
  ASSUME NEW s \in SUBSET (Path \cup {NoAccess}), NEW item \in Path
  PROVE  \/ Subtract(s, item, NONE) = s
         \/ s # Full /\ Subtract(s, item, NONE) = OrNoAccess(s \ {item})
<1>1. CASE s = Full
  BY <1>1 DEF Subtract
<1>2. CASE s # Full
  <2> DEFINE above == {p \in s : Within(item, p)}
  <2>1. CASE above # {}
    BY <1>2, <2>1 DEF Subtract
  <2>2. CASE above = {}
    <3>1. UNION {Walk(Len(p), item, NONE) : p \in above} = {}
      BY <2>2
    <3>2. (s \ (above \cup {item})) \cup UNION {Walk(Len(p), item, NONE) : p \in above} = s \ {item}
      BY <2>2, <3>1
    <3>3. Subtract(s, item, NONE) =
            IF item \notin s THEN s
            ELSE OrNoAccess((s \ (above \cup {item}))
                              \cup UNION {Walk(Len(p), item, NONE) : p \in above})
      BY <1>2, <2>2 DEF Subtract
    <3> HIDE DEF above
    <3> QED BY <1>2, <3>2, <3>3
  <2> QED BY <2>1, <2>2
<1> QED BY <1>1, <1>2

\* An emptied scope reads as nothing, not as everything.
LEMMA ReadOrNoAccess ==
  ASSUME NEW L \in SUBSET (Path \cup {NoAccess}), NEW f \in Path
  PROVE  /\ OrNoAccess(L) \in SUBSET (Path \cup {NoAccess})
         /\ CanReadFile(OrNoAccess(L), f) <=> \E p \in L : AtOrIn(f, p)
<1>1. CASE L = {}
  <2>1. OrNoAccess(L) = {NoAccess} /\ {NoAccess} # Full
    BY <1>1 DEF OrNoAccess, Full
  <2> QED BY <1>1, <2>1, NoAccessCoversNothing DEF CanReadFile
<1>2. CASE L # {}
  <2>1. OrNoAccess(L) = L /\ L # Full
    BY <1>2 DEF OrNoAccess, Full
  <2> QED BY <2>1 DEF CanReadFile
<1> QED BY <1>1, <1>2

LEMMA LeftType ==
  ASSUME NEW s \in SUBSET (Path \cup {NoAccess}), NEW item, NEW kids
  PROVE  Left(s, item, kids) \in SUBSET (Path \cup {NoAccess})
BY DEF Left, Beside

\* What is left was covered before and leads to the item no more.
LEMMA LeftFacts ==
  ASSUME NEW s \in SUBSET (Path \cup {NoAccess}), NEW item \in Path,
         NEW kids, Listed(item, kids), NEW q \in Left(s, item, kids)
  PROVE  /\ ~AtOrIn(item, q)
         /\ s # Full => \E p \in s : AtOrIn(q, p)
<1>1. CASE s = Full
  <2>1. q \in Beside(0, item, kids) /\ 0 \in 0..Len(item)
    BY <1>1, PathFacts DEF Left
  <2> QED BY <1>1, <2>1, BesideFacts
<1>2. CASE s # Full /\ q \in s /\ q # item /\ ~Within(item, q)
  BY <1>2 DEF AtOrIn
<1>3. CASE s # Full /\ \E p \in s : Within(item, p) /\ q \in Beside(Len(p), item, kids)
  <2>1. PICK p \in s : Within(item, p) /\ q \in Beside(Len(p), item, kids)
    BY <1>3
  <2>2. Len(p) \in 0..Len(item) /\ Len(p) > 0 /\ Prefix(item, Len(p)) = p
    BY <2>1, WithinLen
  <2>3. ~AtOrIn(item, q) /\ Within(q, p)
    BY <2>1, <2>2, BesideFacts
  <2> QED BY <2>3 DEF AtOrIn
<1> QED BY <1>1, <1>2, <1>3 DEF Left

\* A listing was made of every folder on the way, or none at all.
ListedOrNot(item, kids) == kids = NONE \/ Listed(item, kids)

\* Subtracting gives a scope, and one that opens nothing.
LEMMA SubtractNarrows ==
  ASSUME NEW s \in SUBSET (Path \cup {NoAccess}), NEW item \in Path,
         NEW kids, ListedOrNot(item, kids)
  PROVE  /\ Subtract(s, item, kids) \in SUBSET (Path \cup {NoAccess})
         /\ \A f \in Path : CanReadFile(Subtract(s, item, kids), f) => CanReadFile(s, f)
<1>1. CASE Subtract(s, item, kids) = s
  BY <1>1
<1>2. CASE kids = NONE /\ s # Full /\ Subtract(s, item, kids) = OrNoAccess(s \ {item})
  <2>1. s \ {item} \in SUBSET (Path \cup {NoAccess})
    OBVIOUS
  <2> QED BY <1>2, <2>1, ReadOrNoAccess DEF CanReadFile
<1>3. CASE Listed(item, kids) /\ Subtract(s, item, kids) = OrNoAccess(Left(s, item, kids))
  <2> DEFINE L == Left(s, item, kids)
  <2>1. L \in SUBSET (Path \cup {NoAccess})
    BY LeftType
  <2>2. \A q \in L : s # Full => \E p \in s : AtOrIn(q, p)
    BY <1>3, LeftFacts
  <2>3. Subtract(s, item, kids) = OrNoAccess(L)
    BY <1>3
  <2> HIDE DEF L
  <2>4. ASSUME NEW f \in Path, CanReadFile(OrNoAccess(L), f) PROVE CanReadFile(s, f)
    <3>1. PICK q \in L : AtOrIn(f, q)
      BY <2>1, <2>4, ReadOrNoAccess
    <3>2. CASE s = Full
      BY <3>2 DEF CanReadFile
    <3>3. CASE s # Full
      <4>1. PICK p \in s : AtOrIn(q, p)
        BY <2>2, <3>3
      <4>2. /\ f \in Seq(Component) /\ q \in Seq(Component) /\ Len(q) > 0
            /\ p \in Seq(Component) /\ Len(p) > 0
        BY <2>1, GrantedFacts
      <4>3. AtOrIn(f, p)
        BY <3>1, <4>1, <4>2, CoverDown
      <4> QED BY <4>3 DEF CanReadFile
    <3> QED BY <3>2, <3>3
  <2> QED BY <2>1, <2>3, <2>4, PathFacts, ReadOrNoAccess
<1> QED BY <1>1, <1>2, <1>3, SubtractListed, SubtractUnlisted DEF ListedOrNot

\* Subtracting takes the item away; without listings it has to be out of reach already.
LEMMA SubtractHides ==
  ASSUME NEW s \in SUBSET (Path \cup {NoAccess}), NEW item \in Path,
         NEW kids, Listed(item, kids) \/ (kids = NONE /\ ~CanReadFile(s, item))
  PROVE  ~CanReadFile(Subtract(s, item, kids), item)
<1>1. CASE ~CanReadFile(s, item)
  BY <1>1, SubtractNarrows DEF ListedOrNot
<1>2. CASE Listed(item, kids) /\ CanReadFile(s, item)
  <2>1. Subtract(s, item, kids) = OrNoAccess(Left(s, item, kids))
    BY <1>2, SubtractListed
  <2>2. \A q \in Left(s, item, kids) : ~AtOrIn(item, q)
    BY <1>2, LeftFacts
  <2> QED BY <2>1, <2>2, LeftType, ReadOrNoAccess
<1> QED BY <1>1, <1>2

----------------------------------------------------------------------------
(* What unsharing keeps *)

\* The listings show the share as it is.
UpToDate(t, item, kids) ==
  /\ kids \in [1..Len(item) -> SUBSET Path]
  /\ \A i \in 1..Len(item) : kids[i] = {p \in t : Parent(p) = Prefix(item, i - 1)} \ {item}

\* A file that is not below the item leaves the way to it somewhere: there it is beside.
LEMMA Fork ==
  ASSUME NEW t \in SUBSET Path, Closed(t), NEW item \in t, NEW kids, UpToDate(t, item, kids),
         NEW f \in t \ Folder, ~AtOrIn(f, item),
         NEW k \in 0..Len(item), k <= Len(f), Prefix(f, k) = Prefix(item, k)
  PROVE  \E q \in Beside(k, item, kids) : AtOrIn(f, q)
<1>0. /\ f \in Seq(Component) /\ Len(f) \in Nat /\ Len(f) > 0
      /\ item \in Seq(Component) /\ Len(item) \in Nat /\ Len(item) > 0
  BY PathFacts
<1> DEFINE Agree(j) == j <= Len(f) /\ Prefix(f, j) = Prefix(item, j)
           S == {n \in Nat : k + n <= Len(item) => Agree(k + n)}
<1>1. 0 \in S
  BY <1>0
<1>2. Len(item) - k \in Nat /\ k + (Len(item) - k) = Len(item)
  BY <1>0
<1>3. ~Agree(Len(item))
  BY <1>0, PrefixEnds, WithinPrefix
<1>4. S # Nat
  <2>1. Len(item) - k \notin S
    <3> HIDE DEF Agree
    <3>1. Len(item) <= Len(item) /\ ~Agree(k + (Len(item) - k))
      BY <1>0, <1>2, <1>3
    <3> QED BY <1>2, <3>1
  <2> QED BY <1>2, <2>1
<1>5. PICK n \in S : n + 1 \notin S
  <2>1. S \in SUBSET Nat
    OBVIOUS
  <2> HIDE DEF S
  <2> QED BY <1>1, <1>4, <2>1, NatSetInduction
<1> DEFINE d == k + n
<1>6. d \in Nat /\ d \in k..(Len(item) - 1) /\ Agree(d) /\ ~Agree(d + 1)
  <2>1. n \in Nat /\ (k + n <= Len(item) => Agree(k + n))
    BY <1>5
  <2>2. k + (n + 1) <= Len(item) /\ ~Agree(k + (n + 1))
    BY <1>5
  <2>3. k + (n + 1) = (k + n) + 1
    BY <2>1
  <2> HIDE DEF Agree
  <2> QED BY <1>0, <2>1, <2>2, <2>3
<1> HIDE DEF d
<1>7. d < Len(f)
  <2> SUFFICES ASSUME d = Len(f) PROVE FALSE
    BY <1>0, <1>6
  <2>1. f = Prefix(item, d) /\ d \in 1..Len(item) /\ d < Len(item)
    BY <1>0, <1>6, PrefixEnds
  <2> QED BY <2>1, PathPrefix
<1> DEFINE q == Prefix(f, d + 1)
<1>8. /\ d \in 0..Len(f) /\ d + 1 \in 0..Len(f) /\ d + 1 \in 1..Len(f) /\ d + 1 \in 1..Len(item)
      /\ (d + 1) - 1 = d
  BY <1>0, <1>6, <1>7
<1>9. q \in Seq(Component) /\ Len(q) = d + 1 /\ Parent(q) = Prefix(item, d) /\ q \in t
  <2>1. q \in Seq(Component) /\ Len(q) = d + 1 /\ Parent(q) = Prefix(f, d)
    BY <1>0, <1>8, PrefixFacts
  <2>2. q \in t
    BY <1>8, TreePrefix
  <2> QED BY <1>6, <2>1, <2>2
<1>10. q # Prefix(item, d + 1) /\ q # item
  <2>1. q # Prefix(item, d + 1)
    BY <1>6, <1>8
  <2>2. q # item
    BY <1>0, <1>9, <2>1, PrefixEnds
  <2> QED BY <2>1, <2>2
<1>11. q \in kids[d + 1] \ {Prefix(item, d + 1)}
  BY <1>8, <1>9, <1>10 DEF UpToDate
<1>12. ASSUME NEW j \in k..(d - 1) PROVE Prefix(item, j + 1) \in kids[j + 1]
  <2>1. /\ j + 1 \in 0..Len(item) /\ j + 1 \in 1..Len(item) /\ j + 1 # Len(item)
        /\ (j + 1) - 1 = j /\ j + 1 > 0
    BY <1>0, <1>6
  <2>2. Len(Prefix(item, j + 1)) = j + 1 /\ Parent(Prefix(item, j + 1)) = Prefix(item, j)
    BY <1>0, <2>1, PrefixFacts
  <2>3. Prefix(item, j + 1) \in t /\ Prefix(item, j + 1) # item
    BY <2>1, <2>2, TreePrefix
  <2> QED BY <2>1, <2>2, <2>3 DEF UpToDate
<1>13. AtOrIn(f, q)
  BY <1>0, <1>8, <1>9, WithinPrefix
<1>14. q \in Beside(k, item, kids)
  BY <1>6, <1>9, <1>11, <1>12 DEF Beside
<1> QED BY <1>13, <1>14

\* With up-to-date listings, every file that is not below the item can be read as before.
LEMMA SubtractKeeps ==
  ASSUME NEW t \in SUBSET Path, Closed(t), NEW item \in t, NEW kids, UpToDate(t, item, kids),
         NEW s \in SUBSET (Path \cup {NoAccess}),
         NEW f \in t \ Folder, ~AtOrIn(f, item), CanReadFile(s, f)
  PROVE  CanReadFile(Subtract(s, item, kids), f)
<1>0. /\ f \in Path /\ f \in Seq(Component) /\ Len(f) \in Nat
      /\ item \in Path /\ item \in Seq(Component) /\ Len(item) \in Nat
  BY PathFacts
<1>1. Listed(item, kids)
  BY DEF Listed, UpToDate
<1>2. CASE ~CanReadFile(s, item)
  BY <1>0, <1>1, <1>2, SubtractListed
<1>3. CASE CanReadFile(s, item)
  <2>1. Subtract(s, item, kids) = OrNoAccess(Left(s, item, kids))
    BY <1>0, <1>1, <1>3, SubtractListed
  <2>2. \E q \in Left(s, item, kids) : AtOrIn(f, q)
    <3>1. CASE s = Full
      <4>1. 0 \in 0..Len(item) /\ 0 <= Len(f) /\ Prefix(f, 0) = Prefix(item, 0)
        BY <1>0, PrefixEnds
      <4>2. \E q \in Beside(0, item, kids) : AtOrIn(f, q)
        BY <4>1, Fork
      <4> QED BY <3>1, <4>2 DEF Left
    <3>2. CASE s # Full
      <4>1. PICK p \in s : AtOrIn(f, p)
        BY <3>2 DEF CanReadFile
      <4>2. p # item
        BY <4>1
      <4>3. CASE ~Within(item, p)
        BY <3>2, <4>1, <4>2, <4>3 DEF Left
      <4>4. CASE Within(item, p)
        <5>1. Len(p) \in 0..Len(item) /\ Len(p) > 0 /\ Prefix(item, Len(p)) = p
          BY <1>0, <4>4, WithinLen
        <5>2. p \in Seq(Component)
          BY GrantedFacts
        <5>3. Len(p) <= Len(f) /\ Prefix(f, Len(p)) = p
          BY <1>0, <4>1, <5>1, <5>2, WithinPrefix
        <5>4. PICK q \in Beside(Len(p), item, kids) : AtOrIn(f, q)
          BY <5>1, <5>3, Fork
        <5>5. q \in Path
          BY DEF Beside
        <5> QED BY <3>2, <4>4, <5>4, <5>5 DEF Left
      <4> QED BY <4>3, <4>4
    <3> QED BY <3>1, <3>2
  <2> QED BY <1>0, <2>1, <2>2, LeftType, ReadOrNoAccess
<1> QED BY <1>2, <1>3

----------------------------------------------------------------------------
(* The invariant of ShareScope *)

\* Each listing share_item made is of the folder it asked for.
ListingsOfTheWay ==
  op.kids # NONE =>
    \A i \in 1..Len(op.kids) : \A q \in op.kids[i] : Parent(q) = Prefix(op.item, i - 1)

\* Phase 1 skips the listings only when they will not be needed.
ListingsNotNeeded ==
  op.at # "idle" /\ op.kids = NONE /\ ~moved =>
    \A n \in Node \ op.wanted : ~CanReadFile(scope[n], op.item)

\* While the share does not change, the listings show it as it is.
ListingsFresh ==
  op.at # "idle" /\ ~unsure =>
    /\ op.item \in tree
    /\ op.kids # NONE =>
         \A i \in 1..Len(op.kids) : op.kids[i] = Children(Prefix(op.item, i - 1)) \ {op.item}

ScopeInv ==
  TypeOK /\ HiddenStaysHidden /\ ListingsOfTheWay /\ ListingsNotNeeded /\ ListingsFresh

LEMMA IdleFacts ==
  /\ Idle \in [at : {"idle", "list", "ready"}, item : Path \cup {Root}, wanted : SUBSET Node,
               kids : Seq(SUBSET Path) \cup {NONE}]
  /\ Idle.at = "idle" /\ Idle.kids = NONE
BY DEF Idle

LEMMA ScopeInit == Init => ScopeInv
<1> SUFFICES ASSUME Init PROVE ScopeInv
  OBVIOUS
<1>1. TypeOK
  BY IdleFacts DEF Init, TypeOK, Full
<1>2. HiddenStaysHidden
  BY DEF Init, HiddenStaysHidden
<1>3. ListingsOfTheWay /\ ListingsNotNeeded /\ ListingsFresh
  BY IdleFacts DEF Init, ListingsOfTheWay, ListingsNotNeeded, ListingsFresh
<1> QED BY <1>1, <1>2, <1>3 DEF ScopeInv

\* What phase 3 starts from.
LEMMA ReadyFacts ==
  ASSUME ScopeInv, op.at = "ready"
  PROVE  /\ op.item \in Path /\ ListedOrNot(op.item, op.kids)
         /\ op.kids = NONE /\ ~moved =>
              \A n \in Node \ op.wanted : ~CanReadFile(scope[n], op.item)
         /\ ~unsure => op.item \in tree
         /\ ~unsure /\ op.kids # NONE => UpToDate(tree, op.item, op.kids)
<1>1. op.item \in Path /\ op.kids \in Seq(SUBSET Path) \cup {NONE}
      /\ (op.kids = NONE \/ Len(op.kids) = Len(op.item))
  BY DEF ScopeInv, TypeOK
<1>2. op.kids # NONE => op.kids \in [1..Len(op.item) -> SUBSET Path]
  BY <1>1
<1>3. ListedOrNot(op.item, op.kids)
  BY <1>1, <1>2 DEF ScopeInv, ListingsOfTheWay, ListedOrNot, Listed
<1>4. ~unsure /\ op.kids # NONE => UpToDate(tree, op.item, op.kids)
  BY <1>1, <1>2 DEF ScopeInv, ListingsFresh, UpToDate, Children
<1> QED BY <1>1, <1>3, <1>4 DEF ScopeInv, ListingsNotNeeded, ListingsFresh

LEMMA StartKeeps ==
  ASSUME ScopeInv, NEW item \in Path, NEW wanted \in SUBSET Node, ShareItemStart(item, wanted)
  PROVE  ScopeInv'
<1> DEFINE covers == \E n \in Node \ wanted : CanReadFile(scope[n], item)
<1>1. /\ op' = [at |-> IF covers THEN "list" ELSE "ready", item |-> item, wanted |-> wanted,
                kids |-> IF covers THEN <<>> ELSE NONE]
      /\ item \in tree /\ moved' = FALSE /\ unsure' = FALSE
      /\ UNCHANGED <<tree, scope, hidden>>
  BY DEF ShareItemStart
<1>2. <<>> \in Seq(SUBSET Path) /\ Len(<<>>) = 0 /\ <<>> # NONE /\ Len(item) > 0
  <2>1. <<>> \in Seq(SUBSET Path) /\ Len(<<>>) = 0
    OBVIOUS
  <2> QED BY <2>1, PathFacts, ScopeAssumption, Zenon
<1>3. CASE covers
  <2>1. op' = [at |-> "list", item |-> item, wanted |-> wanted, kids |-> <<>>]
    BY <1>1, <1>3
  <2> HIDE DEF covers
  <2>2. TypeOK'
    <3>1. /\ op' \in [at : {"idle", "list", "ready"}, item : Path \cup {Root}, wanted : SUBSET Node,
                     kids : Seq(SUBSET Path) \cup {NONE}]
          /\ op'.at = "list" /\ op'.item = item /\ op'.kids = <<>>
      BY <1>2, <2>1
    <3>2. /\ tree \in SUBSET Path /\ Closed(tree)
          /\ scope \in [Node -> SUBSET (Path \cup {NoAccess})] /\ hidden \in [Node -> SUBSET Path]
      BY DEF ScopeInv, TypeOK
    <3> QED BY <1>1, <1>2, <3>1, <3>2 DEF TypeOK
  <2>3. HiddenStaysHidden'
    BY <1>1 DEF ScopeInv, HiddenStaysHidden
  <2>4. ListingsOfTheWay' /\ ListingsNotNeeded' /\ ListingsFresh'
    BY <1>1, <1>2, <2>1 DEF ListingsOfTheWay, ListingsNotNeeded, ListingsFresh
  <2> QED BY <2>2, <2>3, <2>4 DEF ScopeInv
<1>4. CASE ~covers
  <2>1. op' = [at |-> "ready", item |-> item, wanted |-> wanted, kids |-> NONE]
    BY <1>1, <1>4
  <2>2. \A n \in Node \ wanted : ~CanReadFile(scope[n], item)
    BY <1>4
  <2> HIDE DEF covers
  <2>3. TypeOK'
    <3>1. /\ op' \in [at : {"idle", "list", "ready"}, item : Path \cup {Root}, wanted : SUBSET Node,
                     kids : Seq(SUBSET Path) \cup {NONE}]
          /\ op'.at = "ready" /\ op'.item = item /\ op'.kids = NONE
      BY <1>2, <2>1
    <3>2. /\ tree \in SUBSET Path /\ Closed(tree)
          /\ scope \in [Node -> SUBSET (Path \cup {NoAccess})] /\ hidden \in [Node -> SUBSET Path]
      BY DEF ScopeInv, TypeOK
    <3> QED BY <1>1, <1>2, <3>1, <3>2 DEF TypeOK
  <2>4. HiddenStaysHidden'
    BY <1>1 DEF ScopeInv, HiddenStaysHidden
  <2>5. ListingsOfTheWay' /\ ListingsNotNeeded' /\ ListingsFresh'
    BY <1>1, <2>1, <2>2 DEF ListingsOfTheWay, ListingsNotNeeded, ListingsFresh
  <2> QED BY <2>3, <2>4, <2>5 DEF ScopeInv
<1> QED BY <1>3, <1>4

LEMMA ListKeeps ==
  ASSUME ScopeInv, ShareItemList \/ ShareItemListFails
  PROVE  ScopeInv'
<1> DEFINE C == Children(Prefix(op.item, Len(op.kids))) \ {op.item}
<1>0. PICK K : /\ ListedAs(K)
               /\ (K = C /\ unsure' = unsure) \/ (K = {} /\ unsure' = TRUE)
  BY DEF ShareItemList, ShareItemListFails
<1> DEFINE kids == Append(op.kids, K)
<1>1. /\ op.at = "list"
      /\ op' = [op EXCEPT !.kids = kids,
                          !.at = IF Len(op.kids) + 1 = Len(op.item) THEN "ready" ELSE "list"]
      /\ UNCHANGED <<tree, scope, hidden, moved>>
  BY <1>0 DEF ListedAs
<1>2. /\ op.item \in Path /\ op.kids \in Seq(SUBSET Path) /\ op.kids # NONE
      /\ Len(op.kids) < Len(op.item) /\ op.wanted \in SUBSET Node /\ K \in SUBSET Path
      /\ op \in [at : {"idle", "list", "ready"}, item : Path \cup {Root}, wanted : SUBSET Node,
                 kids : Seq(SUBSET Path) \cup {NONE}]
      /\ unsure \in BOOLEAN
  BY <1>0, <1>1 DEF ScopeInv, TypeOK, Children
<1>3. \A q \in K : Parent(q) = Prefix(op.item, Len(op.kids))
  BY <1>0 DEF Children
<1>4. Len(op.item) \in Nat /\ Len(op.kids) \in Nat
  BY <1>2, PathFacts
<1>5. /\ unsure' \in BOOLEAN
      /\ ~unsure' => ~unsure /\ K = Children(Prefix(op.item, Len(op.kids))) \ {op.item}
  BY <1>0, <1>2
<1> HIDE DEF C
<1>6. /\ kids \in Seq(SUBSET Path) /\ Len(kids) = Len(op.kids) + 1 /\ kids # NONE
      /\ Len(kids) <= Len(op.item)
      /\ \A i \in 1..Len(kids) : kids[i] = IF i = Len(kids) THEN K ELSE op.kids[i]
  <2>1. /\ kids \in Seq(SUBSET Path) /\ Len(kids) = Len(op.kids) + 1
        /\ \A i \in 1..Len(op.kids) : kids[i] = op.kids[i]
        /\ kids[Len(op.kids) + 1] = K
    BY <1>2, AppendProperties
  <2>2. kids # NONE
    BY <2>1, ScopeAssumption, Zenon
  <2> HIDE DEF kids
  <2> QED BY <1>2, <1>4, <2>1, <2>2
<1> HIDE DEF kids
<1>7. /\ op'.at = (IF Len(kids) = Len(op.item) THEN "ready" ELSE "list")
      /\ op'.item = op.item /\ op'.wanted = op.wanted /\ op'.kids = kids
      /\ op' \in [at : {"idle", "list", "ready"}, item : Path \cup {Root}, wanted : SUBSET Node,
                  kids : Seq(SUBSET Path) \cup {NONE}]
  BY <1>1, <1>2, <1>6
<1>8. TypeOK'
  BY <1>1, <1>2, <1>4, <1>5, <1>6, <1>7 DEF ScopeInv, TypeOK
<1>9. HiddenStaysHidden'
  BY <1>1 DEF ScopeInv, HiddenStaysHidden
<1>10. ListingsOfTheWay'
  <2> SUFFICES ASSUME NEW i \in 1..Len(kids), NEW q \in kids[i]
               PROVE  Parent(q) = Prefix(op.item, i - 1)
    BY <1>7 DEF ListingsOfTheWay
  <2>1. CASE i = Len(kids)
    <3>1. i - 1 = Len(op.kids) /\ q \in K
      BY <1>4, <1>6, <2>1
    <3> QED BY <1>3, <3>1
  <2>2. CASE i # Len(kids)
    <3>1. i \in 1..Len(op.kids) /\ q \in op.kids[i]
      BY <1>4, <1>6, <2>2
    <3> QED BY <1>2, <3>1 DEF ScopeInv, ListingsOfTheWay
  <2> QED BY <2>1, <2>2
<1>11. ListingsNotNeeded'
  BY <1>6, <1>7 DEF ListingsNotNeeded
<1>12. ListingsFresh'
  <2> SUFFICES ASSUME ~unsure'
               PROVE  /\ op.item \in tree
                      /\ \A i \in 1..Len(kids) :
                           kids[i] = Children(Prefix(op.item, i - 1)) \ {op.item}
    BY <1>1, <1>7 DEF ListingsFresh, Children
  <2>1. /\ op.item \in tree
        /\ \A i \in 1..Len(op.kids) :
             op.kids[i] = Children(Prefix(op.item, i - 1)) \ {op.item}
    BY <1>1, <1>2, <1>5 DEF ScopeInv, ListingsFresh
  <2>2. ASSUME NEW i \in 1..Len(kids)
        PROVE  kids[i] = Children(Prefix(op.item, i - 1)) \ {op.item}
    <3>1. CASE i = Len(kids)
      <4>1. i - 1 = Len(op.kids) /\ kids[i] = K
        BY <1>4, <1>6, <3>1
      <4> QED BY <1>5, <4>1
    <3>2. CASE i # Len(kids)
      <4>1. i \in 1..Len(op.kids) /\ kids[i] = op.kids[i]
        BY <1>4, <1>6, <3>2
      <4> QED BY <2>1, <4>1
    <3> QED BY <3>1, <3>2
  <2> QED BY <2>1, <2>2
<1> QED BY <1>8, <1>9, <1>10, <1>11, <1>12 DEF ScopeInv

LEMMA ApplyKeeps ==
  ASSUME ScopeInv, ShareItemApply
  PROVE  ScopeInv'
<1> DEFINE item == op.item
           given(s) == IF CanReadFile(s, item) THEN s ELSE s \cup {item}
<1>1. /\ op.at = "ready"
      /\ scope' = [n \in Node |-> IF n \in op.wanted THEN given(scope[n])
                                  ELSE Subtract(scope[n], item, op.kids)]
      /\ hidden' = [n \in Node |->
                     IF n \in op.wanted THEN {h \in hidden[n] : ~AtOrIn(h, item)}
                     ELSE IF moved THEN hidden[n] ELSE hidden[n] \cup {item}]
      /\ op' = Idle
      /\ UNCHANGED <<tree, moved, unsure>>
  BY DEF ShareItemApply
<1>2. /\ item \in Path /\ ListedOrNot(item, op.kids)
      /\ op.kids = NONE /\ ~moved => \A n \in Node \ op.wanted : ~CanReadFile(scope[n], item)
  BY <1>1, ReadyFacts
<1>3. /\ scope \in [Node -> SUBSET (Path \cup {NoAccess})] /\ hidden \in [Node -> SUBSET Path]
      /\ \A n \in Node : \A h \in hidden[n] : ~CanReadFile(scope[n], h)
  BY DEF ScopeInv, TypeOK, HiddenStaysHidden
<1> HIDE DEF item
<1>4. ASSUME NEW n \in Node
      PROVE  /\ scope'[n] \in SUBSET (Path \cup {NoAccess}) /\ hidden'[n] \in SUBSET Path
             /\ \A h \in hidden'[n] : ~CanReadFile(scope'[n], h)
  <2>1. CASE n \in op.wanted
    <3>1. scope'[n] = given(scope[n]) /\ hidden'[n] = {h \in hidden[n] : ~AtOrIn(h, item)}
      BY <1>1, <2>1
    <3>2. scope'[n] \in SUBSET (Path \cup {NoAccess}) /\ hidden'[n] \in SUBSET Path
      BY <1>2, <1>3, <3>1
    <3>3. ASSUME NEW h \in hidden'[n] PROVE ~CanReadFile(scope'[n], h)
      <4>1. ~CanReadFile(scope[n], h) /\ ~AtOrIn(h, item)
        BY <1>3, <3>1
      <4> QED BY <3>1, <4>1 DEF CanReadFile, Full
    <3> QED BY <3>2, <3>3
  <2>2. CASE n \notin op.wanted
    <3>1. /\ scope'[n] = Subtract(scope[n], item, op.kids)
          /\ hidden'[n] = IF moved THEN hidden[n] ELSE hidden[n] \cup {item}
      BY <1>1, <2>2
    <3>2. /\ scope'[n] \in SUBSET (Path \cup {NoAccess})
          /\ \A f \in Path : CanReadFile(scope'[n], f) => CanReadFile(scope[n], f)
      <4>1. scope[n] \in SUBSET (Path \cup {NoAccess})
        BY <1>3
      <4> QED BY <1>2, <3>1, <4>1, SubtractNarrows
    <3>3. hidden'[n] \in SUBSET Path
      BY <1>2, <1>3, <3>1
    <3>4. \A h \in hidden[n] : ~CanReadFile(scope'[n], h)
      BY <1>3, <3>2
    <3>5. ~moved => ~CanReadFile(scope'[n], item)
      <4>1. scope[n] \in SUBSET (Path \cup {NoAccess})
        BY <1>3
      <4>2. ~moved => Listed(item, op.kids) \/ (op.kids = NONE /\ ~CanReadFile(scope[n], item))
        BY <1>2, <2>2 DEF ListedOrNot
      <4> QED BY <1>2, <3>1, <4>1, <4>2, SubtractHides
    <3> QED BY <3>1, <3>2, <3>3, <3>4, <3>5
  <2> QED BY <2>1, <2>2
<1>5. scope' \in [Node -> SUBSET (Path \cup {NoAccess})] /\ hidden' \in [Node -> SUBSET Path]
  <2>1. DOMAIN scope' = Node /\ DOMAIN hidden' = Node
    BY <1>1
  <2>2. scope' = [n \in Node |-> scope'[n]] /\ hidden' = [n \in Node |-> hidden'[n]]
    BY <1>1
  <2> QED BY <1>4, <2>1, <2>2
<1>6. TypeOK'
  BY <1>1, <1>5, IdleFacts DEF ScopeInv, TypeOK
<1>7. HiddenStaysHidden'
  BY <1>4 DEF HiddenStaysHidden
<1>8. ListingsOfTheWay' /\ ListingsNotNeeded' /\ ListingsFresh'
  BY <1>1, IdleFacts DEF ListingsOfTheWay, ListingsNotNeeded, ListingsFresh
<1> QED BY <1>6, <1>7, <1>8 DEF ScopeInv

LEMMA SetScopeKeeps ==
  ASSUME ScopeInv, NEW n \in Node, NEW s \in Choice, SetScope(n, s)
  PROVE  ScopeInv'
<1>1. /\ scope' = [scope EXCEPT ![n] = s] /\ hidden' = [hidden EXCEPT ![n] = {}]
      /\ moved' = TRUE /\ UNCHANGED <<tree, op, unsure>>
  BY DEF SetScope
<1>2. s \in SUBSET (Path \cup {NoAccess})
  BY ScopeAssumption
<1>3. scope \in [Node -> SUBSET (Path \cup {NoAccess})] /\ hidden \in [Node -> SUBSET Path]
  BY DEF ScopeInv, TypeOK
<1>4. scope' \in [Node -> SUBSET (Path \cup {NoAccess})] /\ hidden' \in [Node -> SUBSET Path]
  BY <1>1, <1>2, <1>3
<1>5. TypeOK'
  BY <1>1, <1>4 DEF ScopeInv, TypeOK
<1>6. HiddenStaysHidden'
  BY <1>1, <1>3 DEF ScopeInv, HiddenStaysHidden
<1>7. ListingsOfTheWay' /\ ListingsNotNeeded' /\ ListingsFresh'
  BY <1>1 DEF ScopeInv, ListingsOfTheWay, ListingsNotNeeded, ListingsFresh, Children
<1> QED BY <1>5, <1>6, <1>7 DEF ScopeInv

LEMMA FilesKeep ==
  ASSUME ScopeInv, NEW p \in Path, Create(p) \/ Delete(p)
  PROVE  ScopeInv'
<1>1. /\ unsure' = TRUE /\ UNCHANGED <<scope, op, hidden, moved>>
      /\ \/ tree' = tree \cup {p} /\ (Len(p) = 1 \/ Parent(p) \in tree)
         \/ tree' = {q \in tree : ~AtOrIn(q, p)}
  BY DEF Create, Delete
<1>2. tree \in SUBSET Path /\ Closed(tree)
  BY DEF ScopeInv, TypeOK
<1>3. tree' \in SUBSET Path /\ Closed(tree')
  <2>1. CASE tree' = tree \cup {p} /\ (Len(p) = 1 \/ Parent(p) \in tree)
    BY <1>2, <2>1 DEF Closed
  <2>2. CASE tree' = {q \in tree : ~AtOrIn(q, p)}
    <3>1. ASSUME NEW q \in tree', Len(q) # 1 PROVE Parent(q) \in tree'
      <4>1. q \in tree /\ ~AtOrIn(q, p) /\ Parent(q) \in tree
        BY <1>2, <2>2, <3>1 DEF Closed
      <4>2. /\ q \in Seq(Component) /\ p \in Seq(Component) /\ Len(p) > 0 /\ Len(q) > 0
            /\ Parent(q) \in Seq(Component) /\ Parent(q) = Prefix(q, Len(q) - 1)
            /\ Len(Parent(q)) = Len(q) - 1 /\ Len(q) \in Nat
        BY <1>2, <4>1, PathFacts, ParentIsPrefix
      <4>3. Len(q) - 1 \in 1..(Len(q) - 1) /\ Len(Parent(q)) > 0
        BY <3>1, <4>2
      <4>4. AtOrIn(q, Parent(q))
        BY <4>2, <4>3, WithinPrefix DEF AtOrIn
      <4>5. ~AtOrIn(Parent(q), p)
        BY <4>1, <4>2, <4>3, <4>4, CoverDown
      <4> QED BY <2>2, <4>1, <4>5
    <3> QED BY <1>2, <2>2, <3>1 DEF Closed
  <2> QED BY <1>1, <2>1, <2>2
<1>4. TypeOK'
  BY <1>1, <1>3 DEF ScopeInv, TypeOK
<1>5. HiddenStaysHidden' /\ ListingsOfTheWay' /\ ListingsNotNeeded' /\ ListingsFresh'
  BY <1>1 DEF ScopeInv, HiddenStaysHidden, ListingsOfTheWay, ListingsNotNeeded, ListingsFresh
<1> QED BY <1>4, <1>5 DEF ScopeInv

LEMMA ScopeStutters ==
  ASSUME ScopeInv, UNCHANGED vars
  PROVE  ScopeInv'
BY DEF vars, ScopeInv, TypeOK, HiddenStaysHidden, ListingsOfTheWay, ListingsNotNeeded,
       ListingsFresh, Children

LEMMA ScopeStep ==
  ASSUME ScopeInv, [Next]_vars
  PROVE  ScopeInv'
<1>1. CASE \E item \in Path, wanted \in SUBSET Node : ShareItemStart(item, wanted)
  BY <1>1, StartKeeps
<1>2. CASE ShareItemList \/ ShareItemListFails
  BY <1>2, ListKeeps
<1>3. CASE ShareItemApply
  BY <1>3, ApplyKeeps
<1>4. CASE \E n \in Node, s \in Choice : SetScope(n, s)
  BY <1>4, SetScopeKeeps
<1>5. CASE \E p \in Path : Create(p) \/ Delete(p)
  BY <1>5, FilesKeep
<1>6. CASE UNCHANGED vars
  BY <1>6, ScopeStutters
<1> QED BY <1>1, <1>2, <1>3, <1>4, <1>5, <1>6 DEF Next

LEMMA ScopeInvariant == Spec => []ScopeInv
<1>1. Init => ScopeInv
  BY ScopeInit
<1>2. ScopeInv /\ [Next]_vars => ScopeInv'
  BY ScopeStep
<1> QED BY <1>1, <1>2, PTL DEF Spec

----------------------------------------------------------------------------
(* Theorems about ShareScope *)

\* The share stays a tree, every grant's list stays a set of paths of it or NO_ACCESS, and
\* share_item never applies listings that do not reach down to its item.
THEOREM ScopeTypeCorrect == Spec => []TypeOK
<1>1. ScopeInv => TypeOK
  BY DEF ScopeInv
<1> QED BY <1>1, ScopeInvariant, PTL

\* What the owner took from a PC with share_item stays out of its reach until the owner
\* gives it back, whatever else is unshared, created or deleted.
THEOREM HiddenStays == Spec => []HiddenStaysHidden
<1>1. ScopeInv => HiddenStaysHidden
  BY DEF ScopeInv
<1> QED BY <1>1, ScopeInvariant, PTL

\* A file can be read exactly when listings lead to it: can_list and entry_visible agree
\* with can_read_file, for every scope share_item and update_grant can produce.
THEOREM ListingAgrees == Spec => []ListingMatchesReading
<1>1. ScopeInv => ListingMatchesReading
  BY ListingIsReading DEF ScopeInv
<1> QED BY <1>1, ScopeInvariant, PTL

\* A step that ends a ready call, and leaves no other, is phase 3 or changes nothing.
LEMMA EndIsApply ==
  ASSUME ScopeInv, [Next]_vars, op.at = "ready", op' = Idle
  PROVE  ShareItemApply
<1>0. op # Idle
  BY IdleFacts
<1>1. ASSUME NEW item \in Path, NEW wanted \in SUBSET Node, ShareItemStart(item, wanted)
      PROVE  FALSE
  BY <1>0, <1>1 DEF ShareItemStart
<1>2. ASSUME ShareItemList \/ ShareItemListFails PROVE FALSE
  BY <1>2 DEF ShareItemList, ShareItemListFails, ListedAs
<1>3. ASSUME NEW n \in Node, NEW s \in Choice, SetScope(n, s) PROVE FALSE
  BY <1>0, <1>3 DEF SetScope
<1>4. ASSUME NEW p \in Path, Create(p) \/ Delete(p) PROVE FALSE
  BY <1>0, <1>4 DEF Create, Delete
<1>5. ASSUME UNCHANGED vars PROVE FALSE
  BY <1>0, <1>5 DEF vars
<1> QED BY <1>1, <1>2, <1>3, <1>4, <1>5 DEF Next

\* subtract_from_scope opens nothing, however old its listings are: the scope it leaves
\* lies within the scope it found, and an emptied one becomes NO_ACCESS.
THEOREM UnsharingNeverWidens == Spec => UnshareNeverWidens
<1> DEFINE Goal ==
      \A n \in Node : op.at = "ready" /\ op' = Idle /\ n \notin op.wanted
        => \A f \in Path : CanReadFile(scope'[n], f) => CanReadFile(scope[n], f)
<1>1. ScopeInv /\ [Next]_vars => Goal
  <2> SUFFICES ASSUME ScopeInv, [Next]_vars, NEW n \in Node,
                      op.at = "ready", op' = Idle, n \notin op.wanted
               PROVE  \A f \in Path : CanReadFile(scope'[n], f) => CanReadFile(scope[n], f)
    OBVIOUS
  <2>1. ShareItemApply
    BY EndIsApply
  <2>2. scope'[n] = Subtract(scope[n], op.item, op.kids)
    BY <2>1 DEF ShareItemApply
  <2>3. op.item \in Path /\ ListedOrNot(op.item, op.kids)
    BY ReadyFacts
  <2>4. scope[n] \in SUBSET (Path \cup {NoAccess})
    BY DEF ScopeInv, TypeOK
  <2> QED BY <2>2, <2>3, <2>4, SubtractNarrows
<1> QED BY <1>1, ScopeInvariant, PTL DEF Spec, UnshareNeverWidens

\* When no file came or went meanwhile and no listing failed, unsharing an item takes nothing else away: walk
\* expands every folder on the way into what lies beside it.
THEOREM UnsharingKeepsTheRest == Spec => UnshareKeepsTheRest
<1> DEFINE Goal ==
      \A n \in Node :
        op.at = "ready" /\ op' = Idle /\ n \notin op.wanted /\ ~unsure
          => \A f \in tree \ Folder :
               CanReadFile(scope[n], f) /\ ~AtOrIn(f, op.item) => CanReadFile(scope'[n], f)
<1>1. ScopeInv /\ [Next]_vars => Goal
  <2> SUFFICES ASSUME ScopeInv, [Next]_vars, NEW n \in Node,
                      op.at = "ready", op' = Idle, n \notin op.wanted, ~unsure,
                      NEW f \in tree \ Folder, CanReadFile(scope[n], f), ~AtOrIn(f, op.item)
               PROVE  CanReadFile(scope'[n], f)
    OBVIOUS
  <2>1. ShareItemApply
    BY EndIsApply
  <2>2. scope'[n] = Subtract(scope[n], op.item, op.kids)
    BY <2>1 DEF ShareItemApply
  <2>3. /\ op.item \in tree /\ op.item \in Path
        /\ op.kids # NONE => UpToDate(tree, op.item, op.kids)
    BY ReadyFacts
  <2>4. /\ scope[n] \in SUBSET (Path \cup {NoAccess}) /\ tree \in SUBSET Path /\ Closed(tree)
        /\ f \in Path
    BY DEF ScopeInv, TypeOK
  <2>5. CASE op.kids # NONE
    BY <2>2, <2>3, <2>4, <2>5, SubtractKeeps
  <2>6. CASE op.kids = NONE
    <3>1. CASE scope'[n] = scope[n]
      BY <3>1
    <3>2. CASE scope[n] # Full /\ scope'[n] = OrNoAccess(scope[n] \ {op.item})
      <4>1. PICK p \in scope[n] : AtOrIn(f, p)
        BY <3>2 DEF CanReadFile
      <4>2. p \in scope[n] \ {op.item} /\ scope[n] \ {op.item} \in SUBSET (Path \cup {NoAccess})
        BY <2>4, <4>1
      <4> QED BY <2>4, <3>2, <4>1, <4>2, ReadOrNoAccess
    <3> QED BY <2>2, <2>3, <2>4, <2>6, <3>1, <3>2, SubtractUnlisted
  <2> QED BY <2>5, <2>6
<1> QED BY <1>1, ScopeInvariant, PTL DEF Spec, UnshareKeepsTheRest

----------------------------------------------------------------------------
(* Search implements ShareScope *)

LEMMA ChangeIsNext ==
  ASSUME Change
  PROVE  Next
BY DEF Change, Next

LEMMA SearchStepsScope ==
  ASSUME [SearchNext]_<<vars, searchVars>>
  PROVE  [Next]_vars
<1>1. CASE "search" \in scene.acts /\ SearchAll
  BY <1>1 DEF SearchAll, SearchBegins, FallbackBegins
<1>2. CASE SearchStep \/ FallbackStep \/ WalkMisses \/ WalkEnds
  BY <1>2 DEF SearchStep, FallbackStep, WalkMisses, WalkEnds
<1>3. CASE Meddle
  BY <1>3, ChangeIsNext DEF Meddle
<1>4. CASE UNCHANGED <<vars, searchVars>>
  BY <1>4
<1> QED BY <1>1, <1>2, <1>3, <1>4 DEF SearchNext

\* Searching changes no grant and no file: with searches going on, scopes and share behave
\* as ShareScope says, so all of the above holds there too.
THEOREM SearchImplementsShareScope == SearchSpec => Spec
<1>1. SearchInit => Init
  BY DEF SearchInit
<1>2. [SearchNext]_<<vars, searchVars>> => [Next]_vars
  BY SearchStepsScope
<1> QED BY <1>1, <1>2, PTL DEF SearchSpec, Spec

----------------------------------------------------------------------------
(* What a sequence contains *)

In(es) == {es[i] : i \in 1..Len(es)}

LEMMA SeqOfIn ==
  ASSUME NEW T, NEW es \in Seq(T)
  PROVE  /\ In(es) \subseteq T
         /\ \A U : In(es) \subseteq U => es \in Seq(U)
<1>1. In(es) \subseteq T
  BY DEF In
<1>2. ASSUME NEW U, In(es) \subseteq U PROVE es \in Seq(U)
  <2>1. Len(es) \in Nat /\ DOMAIN es = 1..Len(es) /\ es = [i \in 1..Len(es) |-> es[i]]
    OBVIOUS
  <2>2. \A i \in 1..Len(es) : es[i] \in U
    BY <1>2 DEF In
  <2>3. [i \in 1..Len(es) |-> es[i]] \in Seq(U)
    BY <2>1, <2>2, IsASeq
  <2> QED BY <2>1, <2>3
<1> QED BY <1>1, <1>2

LEMMA InEmpty == In(<<>>) = {}
BY DEF In

LEMMA InOne ==
  ASSUME NEW e
  PROVE  In(<<e>>) = {e}
BY DEF In

LEMMA InConcat ==
  ASSUME NEW T, NEW a \in Seq(T), NEW b \in Seq(T)
  PROVE  a \o b \in Seq(T) /\ Len(a \o b) = Len(a) + Len(b) /\ In(a \o b) = In(a) \cup In(b)
<1>1. /\ a \o b \in Seq(T) /\ Len(a \o b) = Len(a) + Len(b) /\ Len(a) \in Nat /\ Len(b) \in Nat
      /\ \A i \in 1..(Len(a) + Len(b)) :
           (a \o b)[i] = IF i <= Len(a) THEN a[i] ELSE b[i - Len(a)]
  BY ConcatProperties
<1>2. ASSUME NEW e \in In(a \o b) PROVE e \in In(a) \cup In(b)
  <2>1. PICK i \in 1..(Len(a) + Len(b)) : e = IF i <= Len(a) THEN a[i] ELSE b[i - Len(a)]
    BY <1>1, <1>2 DEF In
  <2>2. CASE i <= Len(a)
    <3>1. i \in 1..Len(a) /\ e = a[i]
      BY <1>1, <2>1, <2>2
    <3> QED BY <3>1 DEF In
  <2>3. CASE ~(i <= Len(a))
    <3>1. i - Len(a) \in 1..Len(b) /\ e = b[i - Len(a)]
      BY <1>1, <2>1, <2>3
    <3> QED BY <3>1 DEF In
  <2> QED BY <2>2, <2>3
<1>3. ASSUME NEW i \in 1..Len(a) PROVE a[i] \in In(a \o b)
  <2>1. i \in 1..(Len(a) + Len(b)) /\ i <= Len(a)
    BY <1>1
  <2>2. (a \o b)[i] = a[i]
    BY <1>1, <2>1
  <2> QED BY <1>1, <2>1, <2>2 DEF In
<1>4. ASSUME NEW i \in 1..Len(b) PROVE b[i] \in In(a \o b)
  <2> DEFINE j == i + Len(a)
  <2>1. j \in 1..(Len(a) + Len(b)) /\ ~(j <= Len(a)) /\ j - Len(a) = i
    BY <1>1
  <2> HIDE DEF j
  <2>2. (a \o b)[j] = b[i]
    BY <1>1, <2>1
  <2> QED BY <1>1, <2>1, <2>2 DEF In
<1>5. In(a) \subseteq In(a \o b) /\ In(b) \subseteq In(a \o b)
  BY <1>3, <1>4 DEF In
<1> QED BY <1>1, <1>2, <1>5

LEMMA InTail ==
  ASSUME NEW T, NEW es \in Seq(T), es # <<>>
  PROVE  /\ Tail(es) \in Seq(T) /\ Head(es) \in T
         /\ In(es) = {Head(es)} \cup In(Tail(es))
<1>1. /\ Tail(es) \in Seq(T) /\ Head(es) = es[1] /\ Len(es) \in Nat /\ Len(es) > 0
      /\ Len(Tail(es)) = Len(es) - 1
      /\ \A i \in 1..Len(Tail(es)) : Tail(es)[i] = es[i + 1]
  BY HeadTailProperties
<1>2. Head(es) \in T /\ Head(es) \in In(es)
  <2>1. 1 \in 1..Len(es)
    BY <1>1
  <2> QED BY <1>1, <2>1 DEF In
<1>3. ASSUME NEW i \in 1..Len(Tail(es)) PROVE Tail(es)[i] \in In(es)
  <2>1. i + 1 \in 1..Len(es)
    BY <1>1
  <2> QED BY <1>1, <2>1 DEF In
<1>4. ASSUME NEW i \in 1..Len(es) PROVE es[i] \in {Head(es)} \cup In(Tail(es))
  <2>1. CASE i = 1
    BY <1>1, <2>1
  <2>2. CASE i # 1
    <3>1. i - 1 \in 1..Len(Tail(es)) /\ (i - 1) + 1 = i
      BY <1>1, <2>2
    <3>2. Tail(es)[i - 1] = es[i]
      BY <1>1, <3>1
    <3> QED BY <3>1, <3>2 DEF In
  <2> QED BY <2>1, <2>2
<1>5. In(es) \subseteq {Head(es)} \cup In(Tail(es)) /\ In(Tail(es)) \subseteq In(es)
  BY <1>3, <1>4 DEF In
<1> QED BY <1>1, <1>2, <1>5

LEMMA InReversed ==
  ASSUME NEW T, NEW es \in Seq(T)
  PROVE  Reversed(es) \in Seq(T) /\ In(Reversed(es)) = In(es)
<1>0. Len(es) \in Nat /\ \A i \in 1..Len(es) : es[i] \in T
  OBVIOUS
<1>1. \A i \in 1..Len(es) : /\ Len(es) + 1 - i \in 1..Len(es)
                            /\ Len(es) + 1 - (Len(es) + 1 - i) = i
  BY <1>0
<1>2. [i \in 1..Len(es) |-> es[Len(es) + 1 - i]] \in Seq(T)
  BY <1>0, <1>1, IsASeq
<1>3. Reversed(es) \in Seq(T)
  BY <1>2 DEF Reversed
<1>4. DOMAIN Reversed(es) = 1..Len(es)
  BY DEF Reversed
<1>5. Len(Reversed(es)) = Len(es)
  BY <1>0, <1>3, <1>4
<1>6. \A i \in 1..Len(es) : Reversed(es)[i] = es[Len(es) + 1 - i]
  BY DEF Reversed
<1>7. ASSUME NEW i \in 1..Len(es) PROVE es[i] \in In(Reversed(es))
  <2> DEFINE j == Len(es) + 1 - i
  <2>1. j \in 1..Len(es) /\ Len(es) + 1 - j = i
    BY <1>1
  <2> HIDE DEF j
  <2> QED BY <1>5, <1>6, <2>1 DEF In
<1>8. ASSUME NEW i \in 1..Len(es) PROVE Reversed(es)[i] \in In(es)
  BY <1>1, <1>6 DEF In
<1>9. In(es) \subseteq In(Reversed(es)) /\ In(Reversed(es)) \subseteq In(es)
  BY <1>5, <1>7, <1>8 DEF In
<1> QED BY <1>3, <1>9

LEMMA InFew ==
  ASSUME NEW T, NEW es \in Seq(T), NEW k \in Nat
  PROVE  /\ Few(es, k) \in Seq(T) /\ Len(Few(es, k)) <= k /\ In(Few(es, k)) \subseteq In(es)
         /\ Len(es) <= k \/ Len(Few(es, k)) < k => Few(es, k) = es
<1> DEFINE m == IF Len(es) < k THEN Len(es) ELSE k
<1>0. Len(es) \in Nat /\ m \in 0..Len(es) /\ m <= k /\ (Len(es) <= k \/ m < k => m = Len(es))
  OBVIOUS
<1>1. Few(es, k) = SubSeq(es, 1, m)
  BY DEF Few
<1> HIDE DEF m
<1>2. \A i \in 1..m : es[i] \in T
  BY <1>0
<1>3. /\ SubSeq(es, 1, m) \in Seq(T) /\ Len(SubSeq(es, 1, m)) = m
      /\ \A i \in 1..m : SubSeq(es, 1, m)[i] = es[i]
  BY <1>0, <1>2, SubSeqProperties
<1>4. In(SubSeq(es, 1, m)) \subseteq In(es)
  <2>1. 1..m \subseteq 1..Len(es)
    BY <1>0
  <2> QED BY <1>3, <2>1 DEF In
<1>5. m = Len(es) => SubSeq(es, 1, m) = es
  BY SubSeqFull
<1> QED BY <1>0, <1>1, <1>3, <1>4, <1>5

----------------------------------------------------------------------------
(* Pick *)

\* The equation that the function in Pick's body solves, up to n.
Picks(es, S, n, f) ==
  f = [i \in 0..n |-> IF i = 0 THEN <<>>
                      ELSE IF es[i] \in S THEN Append(f[i - 1], es[i]) ELSE f[i - 1]]

LEMMA PicksGrow ==
  ASSUME NEW es, NEW S, NEW n \in Nat, NEW f, Picks(es, S, n, f)
  PROVE  \E g : Picks(es, S, n + 1, g)
<1> DEFINE last == IF es[n + 1] \in S THEN Append(f[n], es[n + 1]) ELSE f[n]
           g == [i \in 0..(n + 1) |-> IF i = n + 1 THEN last ELSE f[i]]
           h == [i \in 0..(n + 1) |->
                  IF i = 0 THEN <<>>
                  ELSE IF es[i] \in S THEN Append(g[i - 1], es[i]) ELSE g[i - 1]]
<1>1. ASSUME NEW i \in 0..(n + 1) PROVE g[i] = h[i]
  <2>1. CASE i = 0
    <3>1. f[0] = <<>> /\ i # n + 1
      BY <2>1 DEF Picks
    <3> QED BY <2>1, <3>1
  <2>2. CASE i = n + 1
    <3>1. i - 1 = n /\ n \in 0..(n + 1) /\ n # n + 1 /\ i # 0
      BY <2>2
    <3>2. g[i - 1] = f[n] /\ g[i] = last
      BY <2>2, <3>1
    <3> QED BY <2>2, <3>1, <3>2
  <2>3. CASE i # 0 /\ i # n + 1
    <3>1. i \in 0..n /\ i - 1 \in 0..(n + 1) /\ i - 1 # n + 1
      BY <2>3
    <3>2. f[i] = IF es[i] \in S THEN Append(f[i - 1], es[i]) ELSE f[i - 1]
      BY <2>3, <3>1 DEF Picks
    <3>3. g[i - 1] = f[i - 1] /\ g[i] = f[i]
      BY <2>3, <3>1
    <3> QED BY <2>3, <3>2, <3>3
  <2> QED BY <2>1, <2>2, <2>3
<1>2. g = h
  BY <1>1
<1>3. Picks(es, S, n + 1, g)
  BY <1>2 DEF Picks
<1> QED BY <1>3

LEMMA PicksExist ==
  ASSUME NEW es, NEW S, NEW n \in Nat
  PROVE  \E f : Picks(es, S, n, f)
<1> DEFINE N == {k \in Nat : \E f : Picks(es, S, k, f)}
<1>1. 0 \in N
  <2>1. Picks(es, S, 0, [i \in 0..0 |-> <<>>])
    BY DEF Picks
  <2> QED BY <2>1
<1>2. \A k \in N : k + 1 \in N
  BY PicksGrow
<1>3. N = Nat
  <2>1. N \in SUBSET Nat
    OBVIOUS
  <2> HIDE DEF N
  <2> QED BY <1>1, <1>2, <2>1, NatSetInduction
<1> QED BY <1>3

\* Pick keeps what is in S, and nothing else.
LEMMA PickFacts ==
  ASSUME NEW T, NEW es \in Seq(T), NEW S
  PROVE  Pick(es, S) \in Seq(T) /\ In(Pick(es, S)) = In(es) \cap S
<1> DEFINE F == CHOOSE f : Picks(es, S, Len(es), f)
           First(i) == {es[j] : j \in 1..i}
           N == {i \in Nat : i <= Len(es) => F[i] \in Seq(T) /\ In(F[i]) = First(i) \cap S}
<1>0. Len(es) \in Nat
  OBVIOUS
<1>1. Pick(es, S) = F[Len(es)]
  BY DEF Pick, Picks
<1>2. Picks(es, S, Len(es), F)
  BY <1>0, PicksExist
<1> HIDE DEF F
<1>3. 0 \in N
  <2>1. F[0] = <<>>
    BY <1>0, <1>2 DEF Picks
  <2>2. First(0) = {}
    OBVIOUS
  <2>3. <<>> \in Seq(T)
    OBVIOUS
  <2> HIDE DEF First
  <2> QED BY <2>1, <2>2, <2>3, InEmpty
<1>4. ASSUME NEW i \in N PROVE i + 1 \in N
  <2> SUFFICES ASSUME i + 1 <= Len(es)
               PROVE  F[i + 1] \in Seq(T) /\ In(F[i + 1]) = First(i + 1) \cap S
    OBVIOUS
  <2>1. i \in Nat /\ i + 1 \in 0..Len(es) /\ i + 1 # 0 /\ (i + 1) - 1 = i /\ i + 1 \in 1..Len(es)
    BY <1>0
  <2>2. F[i + 1] = IF es[i + 1] \in S THEN Append(F[i], es[i + 1]) ELSE F[i]
    BY <1>2, <2>1 DEF Picks
  <2>3. F[i] \in Seq(T) /\ In(F[i]) = First(i) \cap S /\ es[i + 1] \in T
    BY <1>0, <2>1
  <2>4. First(i + 1) = First(i) \cup {es[i + 1]}
    <3>1. 1..(i + 1) = (1..i) \cup {i + 1}
      BY <2>1
    <3> QED BY <3>1
  <2> HIDE DEF First
  <2>5. CASE es[i + 1] \in S
    <3>1. Append(F[i], es[i + 1]) = F[i] \o <<es[i + 1]>> /\ <<es[i + 1]>> \in Seq(T)
      BY <2>3, AppendIsConcat
    <3>2. F[i + 1] \in Seq(T) /\ In(F[i + 1]) = In(F[i]) \cup {es[i + 1]}
      <4> DEFINE a == F[i]
                 b == <<es[i + 1]>>
      <4>1. F[i + 1] = a \o b /\ a \in Seq(T) /\ b \in Seq(T) /\ In(b) = {es[i + 1]}
        BY <2>2, <2>3, <2>5, <3>1, InOne
      <4> HIDE DEF a, b
      <4>2. a \o b \in Seq(T) /\ In(a \o b) = In(a) \cup In(b)
        BY <4>1, InConcat
      <4> QED BY <4>1, <4>2 DEF a
    <3> QED BY <2>3, <2>4, <2>5, <3>2
  <2>6. CASE es[i + 1] \notin S
    BY <2>2, <2>3, <2>4, <2>6
  <2> QED BY <2>5, <2>6
<1>5. N = Nat
  <2>1. N \in SUBSET Nat
    OBVIOUS
  <2> HIDE DEF N
  <2> QED BY <1>3, <1>4, <2>1, NatSetInduction
<1>6. F[Len(es)] \in Seq(T) /\ In(F[Len(es)]) = First(Len(es)) \cap S
  <2> HIDE DEF First
  <2>1. Len(es) \in N /\ Len(es) <= Len(es)
    <3> HIDE DEF N
    <3> QED BY <1>0, <1>5
  <2> QED BY <2>1
<1> QED BY <1>1, <1>6 DEF In

----------------------------------------------------------------------------
(* Listings *)

\* Order names every path.
LEMMA OrderFacts == Order \in Seq(Path \cup {NoAccess}) /\ Path \subseteq In(Order)
<1>1. Order \in Seq(Path \cup {NoAccess}) /\ DOMAIN Order = 1..Len(Order)
  BY SearchAssumption
<1>2. ASSUME NEW p \in Path PROVE p \in In(Order)
  <2>1. PICK i \in DOMAIN Order : Order[i] = p
    BY SearchAssumption
  <2> QED BY <1>1, <2>1 DEF In
<1> QED BY <1>1, <1>2

\* A choice of paths, by name.
LEMMA OrderPick ==
  ASSUME NEW S \in SUBSET Path
  PROVE  Pick(Order, S) \in Seq(Path) /\ In(Pick(Order, S)) = S
<1>1. Pick(Order, S) \in Seq(Path \cup {NoAccess}) /\ In(Pick(Order, S)) = In(Order) \cap S
  BY OrderFacts, PickFacts
<1>2. In(Pick(Order, S)) = S
  BY <1>1, OrderFacts
<1> QED BY <1>1, <1>2, SeqOfIn

\* A listing has the entries of its folder.
LEMMA ListingFacts ==
  ASSUME TypeOK, NEW dir
  PROVE  Listing(dir) \in Seq(Path) /\ In(Listing(dir)) = Children(dir) /\ Children(dir) \subseteq Path
<1> DEFINE A == Children(dir) \cap Folder
           B == Children(dir) \ Folder
<1>1. Children(dir) \subseteq Path
  BY DEF TypeOK, Children
<1>2. A \in SUBSET Path /\ B \in SUBSET Path /\ A \cup B = Children(dir)
  BY <1>1
<1>3. Listing(dir) = Pick(Order, A) \o Pick(Order, B)
  BY DEF Listing
<1> HIDE DEF A, B
<1>4. Pick(Order, A) \in Seq(Path) /\ In(Pick(Order, A)) = A
  BY <1>2, OrderPick
<1>5. Pick(Order, B) \in Seq(Path) /\ In(Pick(Order, B)) = B
  BY <1>2, OrderPick
<1>6. Pick(Order, A) \o Pick(Order, B) \in Seq(Path)
      /\ In(Pick(Order, A) \o Pick(Order, B)) = A \cup B
  <2> DEFINE a == Pick(Order, A)
             b == Pick(Order, B)
  <2>1. a \in Seq(Path) /\ b \in Seq(Path) /\ In(a) = A /\ In(b) = B
    BY <1>4, <1>5
  <2> HIDE DEF a, b
  <2>2. a \o b \in Seq(Path) /\ In(a \o b) = A \cup B
    BY <2>1, InConcat
  <2> QED BY <2>2 DEF a, b
<1> QED BY <1>1, <1>2, <1>3, <1>6

LEMMA VisibleFacts ==
  ASSUME TypeOK, NEW n, NEW dir
  PROVE  /\ Visible(n, dir) \in Seq(Path)
         /\ In(Visible(n, dir)) \subseteq {e \in Children(dir) : EntryVisible(scope[n], e)}
         /\ CanList(scope[n], dir) =>
              {e \in Children(dir) : EntryVisible(scope[n], e)} \subseteq In(Visible(n, dir))
<1> DEFINE E == {e \in Path : EntryVisible(scope[n], e)}
<1>1. Listing(dir) \in Seq(Path) /\ In(Listing(dir)) = Children(dir) /\ Children(dir) \subseteq Path
  BY ListingFacts
<1>2. Pick(Listing(dir), E) \in Seq(Path) /\ In(Pick(Listing(dir), E)) = Children(dir) \cap E
  BY <1>1, PickFacts
<1>3. Children(dir) \cap E = {e \in Children(dir) : EntryVisible(scope[n], e)}
  BY <1>1
<1>4. Visible(n, dir) = IF CanList(scope[n], dir) THEN Pick(Listing(dir), E) ELSE <<>>
  BY DEF Visible
<1> HIDE DEF E
<1>5. <<>> \in Seq(Path)
  OBVIOUS
<1> QED BY <1>2, <1>3, <1>4, <1>5, InEmpty

\* The folders and the matching files of a listing.
LEMMA SplitFacts ==
  ASSUME NEW es \in Seq(Path)
  PROVE  /\ Folders(es) \in Seq(Path) /\ In(Folders(es)) = In(es) \cap Folder
         /\ Hits(es) \in Seq(Path) /\ In(Hits(es)) = In(es) \cap Match
BY PickFacts DEF Folders, Hits

\* An entry of a folder is covered by what covers the folder.
LEMMA ChildIsCovered ==
  ASSUME NEW s \in SUBSET (Path \cup {NoAccess}), NEW dir \in Path \cup {Root, NoAccess},
         CanReadFile(s, dir), NEW e \in Path, Parent(e) = dir
  PROVE  CanReadFile(s, e)
<1>1. CASE s = Full
  BY <1>1 DEF CanReadFile
<1>2. CASE s # Full
  <2>1. PICK p \in s : AtOrIn(dir, p)
    BY <1>2 DEF CanReadFile
  <2>2. /\ p \in Seq(Component) /\ Len(p) \in Nat /\ Len(p) > 0
        /\ e \in Seq(Component) /\ Len(e) \in Nat /\ Len(e) > 0
    BY GrantedFacts, PathFacts
  <2>3. Len(Root) = 0
    BY DEF Root
  <2>4. dir # Root
    BY <2>1, <2>2, <2>3 DEF AtOrIn, Within
  <2>5. dir \in Seq(Component) /\ Len(dir) > 0
    BY <2>4, GrantedFacts
  <2>6. Len(dir) = Len(e) - 1 /\ Prefix(e, Len(dir)) = dir
    BY ParentIsPrefix
  <2>7. AtOrIn(e, dir)
    BY <2>2, <2>5, <2>6, WithinPrefix DEF AtOrIn
  <2>8. AtOrIn(e, p)
    BY <2>1, <2>2, <2>5, <2>7, CoverDown
  <2> QED BY <2>8 DEF CanReadFile
<1> QED BY <1>1, <1>2

\* The next path on the way to a file is in the listing of the folder above it: a folder
\* of the share, or the file itself.
LEMMA WayDown ==
  ASSUME TypeOK, NEW f \in tree, NEW k \in 0..(Len(f) - 1)
  PROVE  /\ Prefix(f, k + 1) \in Children(Prefix(f, k))
         /\ \/ Prefix(f, k + 1) = f
            \/ Prefix(f, k + 1) \in Folder /\ k + 1 \in 0..(Len(f) - 1)
<1>1. f \in Path /\ tree \in SUBSET Path /\ Closed(tree)
  BY DEF TypeOK
<1>2. f \in Seq(Component) /\ Len(f) \in Nat
  BY <1>1, PathFacts
<1>3. k + 1 \in 1..Len(f) /\ k + 1 \in 0..Len(f) /\ (k + 1) - 1 = k /\ k + 1 > 0
  BY <1>2
<1>4. Prefix(f, k + 1) \in tree
  BY <1>1, <1>3, TreePrefix
<1>5. Parent(Prefix(f, k + 1)) = Prefix(f, k)
  BY <1>2, <1>3, PrefixFacts
<1>6. CASE k + 1 = Len(f)
  BY <1>2, <1>4, <1>5, <1>6, PrefixEnds DEF Children
<1>7. CASE k + 1 # Len(f)
  <2>1. k + 1 < Len(f) /\ k + 1 \in 0..(Len(f) - 1)
    BY <1>2, <1>3, <1>7
  <2> QED BY <1>1, <1>3, <1>4, <1>5, <2>1, PathPrefix DEF Children
<1> QED BY <1>6, <1>7

----------------------------------------------------------------------------
(* The invariant of Search *)

Found(w) == In(w.direct) \cup In(w.found)

\* What was found could be read under a scope the walk has met.
HitsReadable == \A f \in Found(walk) : \E s \in walk.scopes : CanReadFile(s, f)

\* The server's walk has met one scope and keeps to the folders it covers.
KeepsToScope ==
  walk.kind = "search" =>
    /\ walk.scopes # {}
    /\ \A s \in walk.scopes : \A dir \in In(walk.todo) : CanReadFile(s, dir)

\* The fallback has met the scope of the moment, and what it must find is in it.
MeetsScope ==
  walk.kind = "fallback" =>
    /\ scope[walk.node] \in walk.scopes
    /\ \A f \in walk.must : CanReadFile(scope[walk.node], f)

MustBeThere ==
  /\ walk.must \subseteq Match
  /\ walk.kind \in {"search", "fallback"} => walk.must \subseteq tree

NothingLeft == walk.kind = "done" => walk.todo = <<>>

\* A file that must be found has been found, or a folder on the way to it is still to come.
StillToCome ==
  ~walk.cut /\ Len(walk.found) < MaxResults =>
    \A f \in walk.must :
      f \in Found(walk) \/ \E k \in 0..(Len(f) - 1) : Prefix(f, k) \in In(walk.todo)

WalkInv ==
  /\ ScopeInv /\ SearchOK
  /\ HitsReadable /\ KeepsToScope /\ MeetsScope /\ MustBeThere /\ NothingLeft
  /\ StillToCome

WalkRecord ==
  [kind : {"search", "fallback", "done", NONE}, node : Node \cup {NONE},
   scopes : SUBSET SUBSET (Path \cup {NoAccess}),
   todo : Seq(Path \cup {Root, NoAccess}), visited : Nat,
   direct : Seq(Path), found : Seq(Path), cut : BOOLEAN, must : SUBSET Path]

LEMMA KindFacts == NONE \notin {"search", "fallback", "done"} /\ NONE \notin Node
BY SearchAssumption

LEMMA SceneFacts ==
  ASSUME NEW sc \in Scenes
  PROVE  sc.changes \in Nat
BY SearchAssumption

\* What the walk's fields are.
LEMMA WalkFacts ==
  ASSUME SearchOK
  PROVE  /\ walk \in WalkRecord /\ TypeOK /\ scene \in Scenes
         /\ changes \in Nat /\ changes <= scene.changes /\ scene.changes \in Nat
         /\ walk.kind \in {"search", "fallback", "done", NONE} /\ walk.node \in Node \cup {NONE}
         /\ walk.scopes \in SUBSET SUBSET (Path \cup {NoAccess})
         /\ walk.todo \in Seq(Path \cup {Root, NoAccess}) /\ walk.visited \in Nat
         /\ walk.direct \in Seq(Path) /\ walk.found \in Seq(Path) /\ walk.cut \in BOOLEAN
         /\ walk.must \in SUBSET Path
         /\ walk.kind = "search" => walk.visited <= VisitBudget + 1 /\ Len(walk.found) <= MaxResults
         /\ walk.kind \in {"search", "fallback"} => walk.node \in Node
<1>1. walk \in WalkRecord /\ TypeOK /\ scene \in Scenes /\ changes \in 0..scene.changes
  BY DEF SearchOK, WalkRecord
<1>2. scene.changes \in Nat
  BY <1>1, SceneFacts
<1>3. changes \in Nat /\ changes <= scene.changes
  BY <1>1, <1>2
<1>4. /\ walk.kind = "search" => walk.visited <= VisitBudget + 1 /\ Len(walk.found) <= MaxResults
      /\ walk.kind \in {"search", "fallback"} => walk.node \in Node
  BY DEF SearchOK
<1> QED BY <1>1, <1>2, <1>3, <1>4 DEF WalkRecord

LEMMA NoWalkFacts ==
  /\ NoWalk \in WalkRecord /\ NoWalk.kind = NONE /\ NoWalk.must = {}
  /\ In(NoWalk.direct) = {} /\ In(NoWalk.found) = {}
<1>1. <<>> \in Seq(Path) /\ <<>> \in Seq(Path \cup {Root, NoAccess})
  OBVIOUS
<1>2. /\ NoWalk.kind = NONE /\ NoWalk.must = {} /\ NoWalk.direct = <<>> /\ NoWalk.found = <<>>
  BY DEF NoWalk
<1>3. NoWalk \in WalkRecord
  BY <1>1 DEF NoWalk, WalkRecord
<1> QED BY <1>2, <1>3, InEmpty

\* Without a walk there is nothing to show.
LEMMA NoWalkHolds ==
  ASSUME ScopeInv, scene \in Scenes, changes = 0, walk = NoWalk
  PROVE  WalkInv
<1>1. SearchOK
  <2>1. 0 \in 0..scene.changes
    BY SceneFacts
  <2>2. TypeOK
    BY DEF ScopeInv
  <2> QED BY <2>1, <2>2, KindFacts, NoWalkFacts DEF SearchOK, WalkRecord
<1>2. HitsReadable
  BY NoWalkFacts DEF HitsReadable, Found
<1>3. KeepsToScope /\ MeetsScope
  BY KindFacts, NoWalkFacts DEF KeepsToScope, MeetsScope
<1>4. MustBeThere /\ NothingLeft /\ StillToCome
  BY KindFacts, NoWalkFacts DEF MustBeThere, NothingLeft, StillToCome
<1> QED BY <1>1, <1>2, <1>3, <1>4 DEF WalkInv

LEMMA WalkInit == SearchInit => WalkInv
BY ScopeInit, NoWalkHolds DEF SearchInit

\* A walk that does not touch the share leaves its invariant alone.
LEMMA ScopeUntouched ==
  ASSUME WalkInv, UNCHANGED vars
  PROVE  /\ ScopeInv' /\ TypeOK' /\ TypeOK
         /\ scope' = scope /\ tree' = tree
         /\ scope \in [Node -> SUBSET (Path \cup {NoAccess})]
<1>1. ScopeInv'
  BY ScopeStutters DEF WalkInv
<1> QED BY <1>1 DEF ScopeInv, WalkInv, vars, TypeOK

----------------------------------------------------------------------------
(* A search begins *)

LEMMA RootsFacts ==
  ASSUME NEW s \in SUBSET (Path \cup {NoAccess})
  PROVE  /\ SearchRoots(s) \in Seq(Path \cup {Root, NoAccess})
         /\ \A dir \in In(SearchRoots(s)) : CanReadFile(s, dir)
         /\ \A f \in Path : CanReadFile(s, f) =>
              \/ f \in s
              \/ \E k \in 0..(Len(f) - 1) : Prefix(f, k) \in In(SearchRoots(s))
<1>1. CASE s = Full
  <2>1. SearchRoots(s) = <<Root>> /\ In(<<Root>>) = {Root}
    BY <1>1, InOne DEF SearchRoots
  <2>2. SearchRoots(s) \in Seq(Path \cup {Root, NoAccess})
    BY <2>1
  <2>3. CanReadFile(s, Root)
    BY <1>1 DEF CanReadFile
  <2>4. ASSUME NEW f \in Path PROVE 0 \in 0..(Len(f) - 1) /\ Prefix(f, 0) = Root
    <3>1. f \in Seq(Component) /\ Len(f) \in Nat /\ Len(f) > 0
      BY PathFacts
    <3> QED BY <3>1, PrefixEnds
  <2> QED BY <2>1, <2>2, <2>3, <2>4
<1>2. CASE s # Full
  <2>1. SearchRoots(s) = Pick(Order, s)
    BY <1>2 DEF SearchRoots
  <2>2. Pick(Order, s) \in Seq(Path \cup {NoAccess}) /\ In(Pick(Order, s)) = In(Order) \cap s
    BY OrderFacts, PickFacts
  <2>3. SearchRoots(s) \in Seq(Path \cup {Root, NoAccess})
    BY <2>1, <2>2, SeqMonotonic
  <2>4. \A dir \in In(SearchRoots(s)) : CanReadFile(s, dir)
    BY <2>1, <2>2 DEF CanReadFile, AtOrIn
  <2>5. ASSUME NEW f \in Path, CanReadFile(s, f), f \notin s
        PROVE  \E k \in 0..(Len(f) - 1) : Prefix(f, k) \in In(SearchRoots(s))
    <3>1. PICK p \in s : AtOrIn(f, p)
      BY <1>2, <2>5 DEF CanReadFile
    <3>2. p # NoAccess /\ p \in Path
      BY <3>1, NoAccessCoversNothing
    <3>3. p \in Seq(Component) /\ f \in Seq(Component) /\ Within(f, p)
      BY <2>5, <3>1, <3>2, PathFacts DEF AtOrIn
    <3>4. Len(p) \in 1..(Len(f) - 1) /\ Prefix(f, Len(p)) = p
      BY <3>3, WithinPrefix
    <3>5. p \in In(SearchRoots(s))
      BY <2>1, <2>2, <3>2, OrderFacts
    <3>6. Len(p) \in 0..(Len(f) - 1)
      BY <3>4
    <3> QED BY <3>4, <3>5, <3>6
  <2> QED BY <2>3, <2>4, <2>5
<1> QED BY <1>1, <1>2

LEMMA SearchBeginsKeeps ==
  ASSUME WalkInv, NEW n \in Node, SearchBegins(n)
  PROVE  WalkInv'
<1> DEFINE s == scope[n]
           roots == SearchRoots(s)
           direct == Direct(s)
           must == Readable(s) \cap Match
<1>1. /\ walk' = [kind |-> "search", node |-> n, scopes |-> {s}, todo |-> roots, visited |-> 0,
                  direct |-> direct, found |-> <<>>, cut |-> FALSE, must |-> must]
      /\ changes' = 0 /\ scene' = scene /\ UNCHANGED vars
  BY DEF SearchBegins, NoWalk
<1>2. /\ ScopeInv' /\ TypeOK' /\ TypeOK /\ scope' = scope /\ tree' = tree
      /\ s \in SUBSET (Path \cup {NoAccess})
  BY <1>1, ScopeUntouched
<1>3. s \cap Match \cap tree \in SUBSET Path /\ must \in SUBSET Path
  BY <1>2 DEF TypeOK, Readable
<1>4. direct \in Seq(Path) /\ In(direct) = s \cap Match \cap tree
  BY <1>3, OrderPick DEF Direct
<1>5. must \subseteq Match /\ must \subseteq tree /\ \A f \in must : CanReadFile(s, f)
  BY DEF Readable
<1>6. /\ roots \in Seq(Path \cup {Root, NoAccess})
      /\ \A dir \in In(roots) : CanReadFile(s, dir)
      /\ \A f \in must : f \in s \/ \E k \in 0..(Len(f) - 1) : Prefix(f, k) \in In(roots)
  BY <1>2, <1>3, <1>5, RootsFacts
<1> HIDE DEF s, roots, direct, must
<1>7. /\ walk'.kind = "search" /\ walk'.node = n /\ walk'.scopes = {s} /\ walk'.todo = roots
      /\ walk'.visited = 0 /\ walk'.direct = direct /\ walk'.found = <<>> /\ walk'.cut = FALSE
      /\ walk'.must = must
  BY <1>1
<1>8. <<>> \in Seq(Path) /\ Len(<<>>) = 0 /\ In(<<>>) = {}
  BY InEmpty
<1>9. SearchOK'
  <2>1. walk' \in WalkRecord
    BY <1>1, <1>2, <1>3, <1>4, <1>6, <1>8 DEF WalkRecord
  <2>2. scene' \in Scenes /\ changes' \in 0..scene'.changes
    BY <1>1, WalkFacts DEF WalkInv
  <2>3. 0 <= VisitBudget + 1 /\ 0 <= MaxResults
    BY SearchAssumption
  <2> QED BY <1>2, <1>7, <1>8, <2>1, <2>2, <2>3 DEF SearchOK, WalkRecord
<1>10. HitsReadable'
  <2>1. \A f \in In(direct) : CanReadFile(s, f)
    BY <1>4 DEF CanReadFile, AtOrIn
  <2> QED BY <1>7, <1>8, <2>1 DEF HitsReadable, Found
<1>11. KeepsToScope' /\ MeetsScope'
  BY <1>6, <1>7 DEF KeepsToScope, MeetsScope
<1>12. MustBeThere' /\ NothingLeft'
  BY <1>2, <1>5, <1>7 DEF MustBeThere, NothingLeft
<1>13. StillToCome'
  <2>1. \A f \in must : f \in In(direct) \/ \E k \in 0..(Len(f) - 1) : Prefix(f, k) \in In(roots)
    BY <1>4, <1>5, <1>6
  <2> QED BY <1>7, <2>1 DEF StillToCome, Found
<1> QED BY <1>2, <1>9, <1>10, <1>11, <1>12, <1>13 DEF WalkInv

LEMMA FallbackBeginsKeeps ==
  ASSUME WalkInv, NEW n \in Node, FallbackBegins(n)
  PROVE  WalkInv'
<1> DEFINE s == scope[n]
           all == Visible(n, Root)
           todo == <<Root>> \o Folders(all)
           must == Readable(s) \cap Match
<1>1. /\ walk' = [kind |-> "fallback", node |-> n, scopes |-> {s}, todo |-> todo,
                  visited |-> Len(all), direct |-> <<>>, found |-> Hits(all), cut |-> FALSE,
                  must |-> must]
      /\ changes' = 0 /\ scene' = scene /\ UNCHANGED vars
  BY DEF FallbackBegins, NoWalk
<1>2. /\ ScopeInv' /\ TypeOK' /\ TypeOK /\ scope' = scope /\ tree' = tree
      /\ s \in SUBSET (Path \cup {NoAccess})
  BY <1>1, ScopeUntouched
<1>3. must \in SUBSET Path /\ must \subseteq Match /\ must \subseteq tree
      /\ \A f \in must : CanReadFile(s, f)
  BY <1>2 DEF TypeOK, Readable
<1>4. all \in Seq(Path) /\ \A e \in In(all) : EntryVisible(s, e)
  BY <1>2, VisibleFacts
<1>5. s = scope[n]
  OBVIOUS
<1> HIDE DEF s, all, must
<1>6. /\ Folders(all) \in Seq(Path) /\ Hits(all) \in Seq(Path) /\ In(Hits(all)) = In(all) \cap Match
      /\ Len(all) \in Nat
  BY <1>4, SplitFacts
<1>7. todo \in Seq(Path \cup {Root, NoAccess}) /\ Root \in In(todo)
  <2> DEFINE a == <<Root>>
             b == Folders(all)
  <2>1. a \in Seq(Path \cup {Root, NoAccess}) /\ In(a) = {Root}
    BY InOne
  <2>2. b \in Seq(Path \cup {Root, NoAccess})
    BY <1>6, SeqMonotonic
  <2>3. todo = a \o b
    OBVIOUS
  <2> HIDE DEF a, b, todo
  <2>4. a \o b \in Seq(Path \cup {Root, NoAccess}) /\ In(a \o b) = In(a) \cup In(b)
    BY <2>1, <2>2, InConcat
  <2> QED BY <2>1, <2>3, <2>4
<1> HIDE DEF todo
<1>8. /\ walk'.kind = "fallback" /\ walk'.node = n /\ walk'.scopes = {s} /\ walk'.todo = todo
      /\ walk'.visited = Len(all) /\ walk'.direct = <<>> /\ walk'.found = Hits(all)
      /\ walk'.cut = FALSE /\ walk'.must = must
  BY <1>1
<1>9. <<>> \in Seq(Path) /\ In(<<>>) = {}
  BY InEmpty
<1>10. SearchOK'
  <2>1. walk' \in WalkRecord
    BY <1>1, <1>2, <1>3, <1>6, <1>7, <1>9 DEF WalkRecord
  <2>2. scene' \in Scenes /\ changes' \in 0..scene'.changes
    BY <1>1, WalkFacts DEF WalkInv
  <2> QED BY <1>2, <1>8, <2>1, <2>2 DEF SearchOK, WalkRecord
<1>11. HitsReadable'
  <2>1. \A f \in In(Hits(all)) : CanReadFile(s, f)
    BY <1>4, <1>6, SearchAssumption DEF EntryVisible, CanReadFile
  <2> QED BY <1>8, <1>9, <2>1 DEF HitsReadable, Found
<1>12. KeepsToScope' /\ MeetsScope'
  BY <1>2, <1>3, <1>5, <1>8 DEF KeepsToScope, MeetsScope
<1>13. MustBeThere' /\ NothingLeft'
  BY <1>2, <1>3, <1>8 DEF MustBeThere, NothingLeft
<1>14. StillToCome'
  <2>1. ASSUME NEW f \in must PROVE 0 \in 0..(Len(f) - 1) /\ Prefix(f, 0) = Root
    <3>1. f \in Seq(Component) /\ Len(f) \in Nat /\ Len(f) > 0
      BY <1>3, PathFacts
    <3> QED BY <3>1, PrefixEnds
  <2> QED BY <1>7, <1>8, <2>1 DEF StillToCome
<1> QED BY <1>2, <1>10, <1>11, <1>12, <1>13, <1>14 DEF WalkInv

----------------------------------------------------------------------------
(* A walk goes on *)

\* A file that was to come through the folder taken from the list is found, or comes
\* through a folder found in it.
LEMMA WayGoesOn ==
  ASSUME TypeOK, NEW f \in tree, f \in Match, NEW dir, NEW rest, NEW es \in Seq(Path),
         \A k \in 0..(Len(f) - 1) : dir = Prefix(f, k) => Prefix(f, k + 1) \in In(es),
         \E k \in 0..(Len(f) - 1) : Prefix(f, k) \in {dir} \cup rest
  PROVE  \/ f \in In(Hits(es))
         \/ \E k \in 0..(Len(f) - 1) : Prefix(f, k) \in In(Folders(es)) \cup rest
<1>1. PICK k \in 0..(Len(f) - 1) : Prefix(f, k) \in {dir} \cup rest
  OBVIOUS
<1>2. CASE Prefix(f, k) \in rest
  BY <1>2
<1>3. CASE Prefix(f, k) = dir
  <2>1. Prefix(f, k + 1) \in In(es)
    BY <1>3
  <2>2. CASE Prefix(f, k + 1) = f
    BY <2>1, <2>2, SplitFacts
  <2>3. CASE Prefix(f, k + 1) \in Folder /\ k + 1 \in 0..(Len(f) - 1)
    BY <2>1, <2>3, SplitFacts
  <2> QED BY <2>2, <2>3, WayDown
<1> QED BY <1>1, <1>2, <1>3

LEMMA SearchStepKeeps ==
  ASSUME WalkInv, SearchStep
  PROVE  WalkInv'
<1> DEFINE dir == Head(walk.todo)
           rest == Tail(walk.todo)
           room == VisitBudget - walk.visited
           all == Listing(dir)
           seen == Few(all, room)
           deeper == Reversed(Folders(seen))
           todo == deeper \o rest
           more == walk.found \o Hits(seen)
           found == Few(more, MaxResults)
           visited == walk.visited + IF Len(all) > room THEN room + 1 ELSE Len(all)
<1>1. /\ walk.kind = "search" /\ walk.todo # <<>>
      /\ walk.visited < VisitBudget /\ Len(walk.found) < MaxResults
      /\ walk' = [walk EXCEPT !.todo = todo, !.found = found, !.visited = visited,
                              !.cut = (walk.cut \/ Len(all) > room)]
      /\ changes' = changes /\ scene' = scene /\ UNCHANGED vars
  BY DEF SearchStep
<1>2. ScopeInv' /\ TypeOK' /\ TypeOK /\ scope' = scope /\ tree' = tree
  BY <1>1, ScopeUntouched
<1>3. /\ walk \in WalkRecord /\ scene \in Scenes
      /\ changes \in Nat /\ changes <= scene.changes /\ scene.changes \in Nat
      /\ walk.scopes \in SUBSET SUBSET (Path \cup {NoAccess})
      /\ walk.todo \in Seq(Path \cup {Root, NoAccess}) /\ walk.visited \in Nat
      /\ walk.direct \in Seq(Path) /\ walk.found \in Seq(Path) /\ walk.cut \in BOOLEAN
      /\ walk.must \in SUBSET Path /\ walk.node \in Node
  BY <1>1, WalkFacts DEF WalkInv
<1>4. VisitBudget \in Nat /\ MaxResults \in Nat
  BY SearchAssumption
<1>5. /\ rest \in Seq(Path \cup {Root, NoAccess}) /\ dir \in Path \cup {Root, NoAccess}
      /\ In(walk.todo) = {dir} \cup In(rest)
  BY <1>1, <1>3, InTail
<1>6. room \in Nat /\ walk.visited + room = VisitBudget
  BY <1>1, <1>3, <1>4
<1>7. all \in Seq(Path) /\ In(all) = Children(dir) /\ Len(all) \in Nat
  <2>1. all \in Seq(Path) /\ In(all) = Children(dir)
    BY <1>2, ListingFacts
  <2> QED BY <2>1
<1> HIDE DEF dir, rest, room, all
<1>8. seen \in Seq(Path) /\ In(seen) \subseteq Children(dir) /\ (Len(all) <= room => seen = all)
  BY <1>6, <1>7, InFew
<1> HIDE DEF seen
<1>9. /\ Folders(seen) \in Seq(Path) /\ In(Folders(seen)) = In(seen) \cap Folder
      /\ Hits(seen) \in Seq(Path) /\ In(Hits(seen)) = In(seen) \cap Match
  BY <1>8, SplitFacts
<1>10. deeper \in Seq(Path) /\ In(deeper) = In(Folders(seen))
  BY <1>9, InReversed
<1> HIDE DEF deeper
<1>11. deeper \in Seq(Path \cup {Root, NoAccess})
  BY <1>10, SeqMonotonic
<1>12. todo \in Seq(Path \cup {Root, NoAccess}) /\ In(todo) = In(deeper) \cup In(rest)
  BY <1>5, <1>11, InConcat
<1>13. more \in Seq(Path) /\ In(more) = In(walk.found) \cup In(Hits(seen))
  BY <1>3, <1>9, InConcat
<1> HIDE DEF todo, more
<1>14. /\ found \in Seq(Path) /\ Len(found) <= MaxResults /\ In(found) \subseteq In(more)
       /\ Len(found) < MaxResults => found = more
  BY <1>4, <1>13, InFew
<1> HIDE DEF found
<1>15. visited \in Nat /\ visited <= VisitBudget + 1
  BY <1>3, <1>4, <1>6, <1>7
<1> HIDE DEF visited
<1>16. /\ walk'.kind = "search" /\ walk'.node = walk.node /\ walk'.scopes = walk.scopes
       /\ walk'.todo = todo /\ walk'.visited = visited /\ walk'.direct = walk.direct
       /\ walk'.found = found /\ walk'.cut = (walk.cut \/ Len(all) > room)
       /\ walk'.must = walk.must
  BY <1>1, <1>3 DEF WalkRecord
<1>17. SearchOK'
  <2>1. walk' \in WalkRecord
    BY <1>1, <1>3, <1>12, <1>14, <1>15 DEF WalkRecord
  <2>2. scene' \in Scenes /\ changes' \in 0..scene'.changes
    BY <1>1, <1>3
  <2> QED BY <1>2, <1>3, <1>14, <1>15, <1>16, <2>1, <2>2 DEF SearchOK, WalkRecord
<1>18. /\ walk.scopes # {}
       /\ \A s \in walk.scopes : \A d \in {dir} \cup In(rest) : CanReadFile(s, d)
  BY <1>1, <1>5 DEF WalkInv, KeepsToScope
<1>19. ASSUME NEW s \in walk.scopes, NEW e \in In(seen) PROVE CanReadFile(s, e)
  <2>1. e \in Path /\ Parent(e) = dir /\ s \in SUBSET (Path \cup {NoAccess})
    BY <1>2, <1>3, <1>8 DEF Children, TypeOK
  <2> QED BY <1>5, <1>18, <2>1, ChildIsCovered
<1>20. HitsReadable'
  <2> SUFFICES ASSUME NEW f \in In(walk.direct) \cup In(found)
               PROVE  \E s \in walk.scopes : CanReadFile(s, f)
    BY <1>16 DEF HitsReadable, Found
  <2>1. CASE f \in In(walk.direct) \cup In(walk.found)
    BY <2>1 DEF WalkInv, HitsReadable, Found
  <2>2. CASE f \in In(Hits(seen))
    BY <1>9, <1>18, <1>19, <2>2
  <2> QED BY <1>13, <1>14, <2>1, <2>2
<1>21. KeepsToScope' /\ MeetsScope'
  BY <1>9, <1>10, <1>12, <1>16, <1>18, <1>19 DEF KeepsToScope, MeetsScope
<1>22. MustBeThere' /\ NothingLeft'
  BY <1>1, <1>2, <1>16 DEF WalkInv, MustBeThere, NothingLeft
<1>23. StillToCome'
  <2> SUFFICES ASSUME ~walk.cut, ~(Len(all) > room), Len(found) < MaxResults, NEW f \in walk.must
               PROVE  \/ f \in In(walk.direct) \cup In(found)
                      \/ \E k \in 0..(Len(f) - 1) : Prefix(f, k) \in In(todo)
    BY <1>16 DEF StillToCome, Found
  <2>1. found = more /\ seen = all
    BY <1>6, <1>7, <1>8, <1>14
  <2>2. f \in tree /\ f \in Match
    BY <1>1 DEF WalkInv, MustBeThere
  <2>3. \/ f \in In(walk.direct) \cup In(walk.found)
        \/ \E k \in 0..(Len(f) - 1) : Prefix(f, k) \in {dir} \cup In(rest)
    BY <1>1, <1>5 DEF WalkInv, StillToCome, Found
  <2>4. CASE f \in In(walk.direct) \cup In(walk.found)
    BY <1>13, <2>1, <2>4
  <2>5. CASE \E k \in 0..(Len(f) - 1) : Prefix(f, k) \in {dir} \cup In(rest)
    <3>1. \A k \in 0..(Len(f) - 1) : dir = Prefix(f, k) => Prefix(f, k + 1) \in In(seen)
      BY <1>2, <1>7, <2>1, <2>2, WayDown
    <3>2. \/ f \in In(Hits(seen))
          \/ \E k \in 0..(Len(f) - 1) : Prefix(f, k) \in In(Folders(seen)) \cup In(rest)
      BY <1>2, <1>8, <2>2, <2>5, <3>1, WayGoesOn
    <3> QED BY <1>10, <1>12, <1>13, <2>1, <3>2
  <2> QED BY <2>3, <2>4, <2>5
<1> QED BY <1>2, <1>17, <1>20, <1>21, <1>22, <1>23 DEF WalkInv

LEMMA FallbackStepKeeps ==
  ASSUME WalkInv, FallbackStep
  PROVE  WalkInv'
<1> DEFINE dir == Head(walk.todo)
           rest == Tail(walk.todo)
           room == MaxVisits - walk.visited
           all == Visible(walk.node, dir)
           seen == Few(all, room)
           deeper == Folders(seen)
           todo == rest \o deeper
           found == walk.found \o Hits(seen)
           visited == walk.visited + IF Len(all) > room THEN room + 1 ELSE Len(all)
           mine == scope[walk.node]
<1>1. /\ walk.kind = "fallback" /\ walk.todo # <<>>
      /\ walk.visited < MaxVisits /\ Len(walk.found) < MaxResults
      /\ walk' = [walk EXCEPT !.todo = todo, !.found = found, !.visited = visited,
                              !.cut = (walk.cut \/ Len(all) > room)]
      /\ changes' = changes /\ scene' = scene /\ UNCHANGED vars
  BY DEF FallbackStep
<1>2. ScopeInv' /\ TypeOK' /\ TypeOK /\ scope' = scope /\ tree' = tree
  BY <1>1, ScopeUntouched
<1>3. /\ walk \in WalkRecord /\ scene \in Scenes
      /\ changes \in Nat /\ changes <= scene.changes /\ scene.changes \in Nat
      /\ walk.scopes \in SUBSET SUBSET (Path \cup {NoAccess})
      /\ walk.todo \in Seq(Path \cup {Root, NoAccess}) /\ walk.visited \in Nat
      /\ walk.direct \in Seq(Path) /\ walk.found \in Seq(Path) /\ walk.cut \in BOOLEAN
      /\ walk.must \in SUBSET Path /\ walk.node \in Node
  BY <1>1, WalkFacts DEF WalkInv
<1>4. MaxVisits \in Nat /\ MaxResults \in Nat /\ mine \in SUBSET (Path \cup {NoAccess})
  <2>1. mine \in SUBSET (Path \cup {NoAccess})
    BY <1>1, <1>3, ScopeUntouched
  <2> QED BY <2>1, SearchAssumption
<1>5. /\ rest \in Seq(Path \cup {Root, NoAccess}) /\ dir \in Path \cup {Root, NoAccess}
      /\ In(walk.todo) = {dir} \cup In(rest)
  BY <1>1, <1>3, InTail
<1>6. room \in Nat
  BY <1>1, <1>3, <1>4
<1>7. /\ all \in Seq(Path) /\ Len(all) \in Nat
      /\ \A e \in In(all) : EntryVisible(mine, e)
      /\ CanList(mine, dir) => \A e \in Children(dir) : EntryVisible(mine, e) => e \in In(all)
  <2>1. /\ all \in Seq(Path)
        /\ In(all) \subseteq {e \in Children(dir) : EntryVisible(mine, e)}
        /\ CanList(mine, dir) => {e \in Children(dir) : EntryVisible(mine, e)} \subseteq In(all)
    BY <1>2, VisibleFacts
  <2> HIDE DEF all, dir, mine
  <2> QED BY <2>1
<1>8. mine \in walk.scopes /\ \A f \in walk.must : CanReadFile(mine, f)
  BY <1>1 DEF WalkInv, MeetsScope
<1>9. mine = scope[walk.node]
  OBVIOUS
<1> HIDE DEF dir, rest, room, all, mine
<1>10. seen \in Seq(Path) /\ In(seen) \subseteq In(all) /\ (Len(all) <= room => seen = all)
  BY <1>6, <1>7, InFew
<1> HIDE DEF seen
<1>11. /\ deeper \in Seq(Path) /\ In(deeper) = In(seen) \cap Folder
       /\ Hits(seen) \in Seq(Path) /\ In(Hits(seen)) = In(seen) \cap Match
  BY <1>10, SplitFacts
<1>12. deeper = Folders(seen)
  OBVIOUS
<1> HIDE DEF deeper
<1>13. deeper \in Seq(Path \cup {Root, NoAccess})
  BY <1>11, SeqMonotonic
<1>14. todo \in Seq(Path \cup {Root, NoAccess}) /\ In(todo) = In(rest) \cup In(deeper)
  BY <1>5, <1>13, InConcat
<1>15. /\ found \in Seq(Path) /\ In(found) = In(walk.found) \cup In(Hits(seen))
  BY <1>3, <1>11, InConcat
<1> HIDE DEF todo, found
<1>16. visited \in Nat
  BY <1>3, <1>6, <1>7
<1> HIDE DEF visited
<1>17. /\ walk'.kind = "fallback" /\ walk'.node = walk.node /\ walk'.scopes = walk.scopes
       /\ walk'.todo = todo /\ walk'.visited = visited /\ walk'.direct = walk.direct
       /\ walk'.found = found /\ walk'.cut = (walk.cut \/ Len(all) > room)
       /\ walk'.must = walk.must
  BY <1>1, <1>3 DEF WalkRecord
<1>18. SearchOK'
  <2>1. walk' \in WalkRecord
    BY <1>1, <1>3, <1>14, <1>15, <1>16 DEF WalkRecord
  <2>2. scene' \in Scenes /\ changes' \in 0..scene'.changes
    BY <1>1, <1>3
  <2> QED BY <1>2, <1>3, <1>17, <2>1, <2>2 DEF SearchOK, WalkRecord
<1>19. HitsReadable'
  <2> SUFFICES ASSUME NEW f \in In(walk.direct) \cup In(found)
               PROVE  \E s \in walk.scopes : CanReadFile(s, f)
    BY <1>17 DEF HitsReadable, Found
  <2>1. CASE f \in In(walk.direct) \cup In(walk.found)
    BY <2>1 DEF WalkInv, HitsReadable, Found
  <2>2. CASE f \in In(Hits(seen))
    <3>1. EntryVisible(mine, f) /\ f \notin Folder
      BY <1>7, <1>10, <1>11, <2>2, SearchAssumption
    <3>2. CanReadFile(mine, f)
      BY <3>1 DEF EntryVisible, CanReadFile
    <3> QED BY <1>8, <3>2
  <2> QED BY <1>15, <2>1, <2>2
<1>20. KeepsToScope' /\ MeetsScope'
  BY <1>2, <1>8, <1>9, <1>17 DEF KeepsToScope, MeetsScope
<1>21. MustBeThere' /\ NothingLeft'
  BY <1>1, <1>2, <1>17 DEF WalkInv, MustBeThere, NothingLeft
<1>22. StillToCome'
  <2> SUFFICES ASSUME ~walk.cut, ~(Len(all) > room), Len(found) < MaxResults, NEW f \in walk.must
               PROVE  \/ f \in In(walk.direct) \cup In(found)
                      \/ \E k \in 0..(Len(f) - 1) : Prefix(f, k) \in In(todo)
    BY <1>17 DEF StillToCome, Found
  <2>1. seen = all
    BY <1>6, <1>7, <1>10
  <2>2. f \in tree /\ f \in Match /\ f \in Path
    BY <1>1, <1>3 DEF WalkInv, MustBeThere
  <2>3. \/ f \in In(walk.direct) \cup In(walk.found)
        \/ \E k \in 0..(Len(f) - 1) : Prefix(f, k) \in {dir} \cup In(rest)
    BY <1>1, <1>5 DEF WalkInv, StillToCome, Found
  <2>4. CASE f \in In(walk.direct) \cup In(walk.found)
    BY <1>15, <2>4
  <2>5. CASE \E k \in 0..(Len(f) - 1) : Prefix(f, k) \in {dir} \cup In(rest)
    <3>1. ASSUME NEW k \in 0..(Len(f) - 1), dir = Prefix(f, k) PROVE Prefix(f, k + 1) \in In(seen)
      <4>1. Len(f) \in Nat /\ k + 1 \in 1..Len(f) /\ (k + 1) - 1 = k
        BY <2>2, PathFacts
      <4>2. CanList(mine, Prefix(f, (k + 1) - 1)) /\ EntryVisible(mine, Prefix(f, k + 1))
        BY <1>4, <1>8, <2>2, <4>1, ReadIsListed
      <4>3. Prefix(f, k + 1) \in Children(dir)
        BY <1>2, <2>2, <3>1, WayDown
      <4> QED BY <1>7, <2>1, <3>1, <4>1, <4>2, <4>3
    <3>2. \/ f \in In(Hits(seen))
          \/ \E k \in 0..(Len(f) - 1) : Prefix(f, k) \in In(Folders(seen)) \cup In(rest)
      BY <1>2, <1>10, <2>2, <2>5, <3>1, WayGoesOn
    <3> QED BY <1>12, <1>14, <1>15, <3>2
  <2> QED BY <2>3, <2>4, <2>5
<1> QED BY <1>2, <1>18, <1>19, <1>20, <1>21, <1>22 DEF WalkInv

LEMMA WalkMissesKeeps ==
  ASSUME WalkInv, WalkMisses
  PROVE  WalkInv'
<1> DEFINE dir == Head(walk.todo)
           kept == {f \in walk.must : ~(dir = Root \/ Within(f, dir))}
<1>1. /\ walk.kind \in {"search", "fallback"} /\ walk.todo # <<>>
      /\ changes < scene.changes /\ changes' = changes + 1
      /\ walk' = [walk EXCEPT !.todo = Tail(walk.todo), !.must = kept]
      /\ scene' = scene /\ UNCHANGED vars
  BY DEF WalkMisses
<1>2. ScopeInv' /\ TypeOK' /\ scope' = scope /\ tree' = tree
  BY <1>1, ScopeUntouched DEF vars
<1>3. /\ walk \in WalkRecord /\ scene \in Scenes
      /\ changes \in Nat /\ scene.changes \in Nat
      /\ walk.todo \in Seq(Path \cup {Root, NoAccess}) /\ walk.node \in Node
  BY <1>1, WalkFacts DEF WalkInv
<1>4. /\ Tail(walk.todo) \in Seq(Path \cup {Root, NoAccess})
      /\ In(walk.todo) = {dir} \cup In(Tail(walk.todo))
  BY <1>1, <1>3, InTail
<1>5. /\ walk.must \in SUBSET Path
      /\ kept \subseteq walk.must
      /\ \A f \in kept : dir # Root /\ ~Within(f, dir)
  BY <1>3 DEF WalkRecord
<1> HIDE DEF kept
<1>6. /\ walk' \in WalkRecord
      /\ walk'.kind = walk.kind /\ walk'.node = walk.node /\ walk'.scopes = walk.scopes
      /\ walk'.direct = walk.direct /\ walk'.found = walk.found /\ walk'.must = kept
      /\ walk'.todo = Tail(walk.todo) /\ walk'.cut = walk.cut /\ walk'.visited = walk.visited
  BY <1>1, <1>3, <1>4, <1>5 DEF WalkRecord
<1>7. SearchOK'
  <2>1. scene' \in Scenes /\ changes' \in 0..scene'.changes
    BY <1>1, <1>3
  <2> QED BY <1>2, <1>3, <1>6, <2>1 DEF WalkInv, SearchOK, WalkRecord
<1>8. HitsReadable'
  BY <1>6 DEF WalkInv, HitsReadable, Found
<1>9. KeepsToScope' /\ MeetsScope'
  BY <1>1, <1>2, <1>4, <1>5, <1>6 DEF WalkInv, KeepsToScope, MeetsScope
<1>10. MustBeThere' /\ NothingLeft'
  BY <1>1, <1>2, <1>5, <1>6 DEF WalkInv, MustBeThere, NothingLeft
<1>11. StillToCome'
  <2> SUFFICES ASSUME ~walk.cut, Len(walk.found) < MaxResults, NEW f \in kept, f \notin Found(walk)
               PROVE  \E k \in 0..(Len(f) - 1) : Prefix(f, k) \in In(Tail(walk.todo))
    BY <1>6 DEF StillToCome, Found
  <2>1. PICK k \in 0..(Len(f) - 1) : Prefix(f, k) \in In(walk.todo)
    BY <1>5 DEF WalkInv, StillToCome
  <2>2. f \in Path /\ f \in Seq(Component) /\ Len(f) \in Nat /\ dir # Root /\ ~Within(f, dir)
    BY <1>5, PathFacts
  <2> HIDE DEF dir
  <2>3. ASSUME Prefix(f, k) = dir PROVE FALSE
    <3>1. k = 0 => dir = Root
      BY <2>2, <2>3, PrefixEnds
    <3>2. k # 0 => Within(f, dir)
      <4>1. Len(Prefix(f, k)) = k
        BY <2>2, PrefixFacts
      <4> QED BY <2>2, <2>3, <4>1 DEF Within, Prefix
    <3> QED BY <2>2, <3>1, <3>2
  <2> QED BY <1>4, <2>1, <2>3
<1> QED BY <1>2, <1>7, <1>8, <1>9, <1>10, <1>11 DEF WalkInv

LEMMA WalkEndsKeeps ==
  ASSUME WalkInv, WalkEnds
  PROVE  WalkInv'
<1>1. /\ walk.kind \in {"search", "fallback"}
      /\ walk' = [walk EXCEPT !.kind = "done", !.todo = <<>>,
                              !.cut = (walk.cut \/ walk.todo # <<>>)]
      /\ changes' = changes /\ scene' = scene /\ UNCHANGED vars
  BY DEF WalkEnds
<1>2. ScopeInv' /\ TypeOK'
  BY <1>1, ScopeUntouched
<1>3. /\ walk \in WalkRecord /\ scene \in Scenes
      /\ changes \in Nat /\ changes <= scene.changes /\ scene.changes \in Nat
  BY WalkFacts DEF WalkInv
<1>4. <<>> \in Seq(Path \cup {Root, NoAccess})
  OBVIOUS
<1>5. /\ walk' \in WalkRecord
      /\ walk'.kind = "done" /\ walk'.scopes = walk.scopes
      /\ walk'.direct = walk.direct /\ walk'.found = walk.found /\ walk'.must = walk.must
      /\ walk'.cut = (walk.cut \/ walk.todo # <<>>) /\ walk'.todo = <<>>
  BY <1>1, <1>3, <1>4 DEF WalkRecord
<1>6. SearchOK'
  <2>1. scene' \in Scenes /\ changes' \in 0..scene'.changes
    BY <1>1, <1>3
  <2> QED BY <1>2, <1>5, <2>1 DEF SearchOK, WalkRecord
<1>7. HitsReadable'
  BY <1>5 DEF WalkInv, HitsReadable, Found
<1>8. KeepsToScope' /\ MeetsScope' /\ MustBeThere' /\ NothingLeft'
  BY <1>5 DEF WalkInv, KeepsToScope, MeetsScope, MustBeThere, NothingLeft
<1>9. StillToCome'
  <2> SUFFICES ASSUME ~walk.cut, walk.todo = <<>>, Len(walk.found) < MaxResults,
                      NEW f \in walk.must
               PROVE  f \in Found(walk)
    BY <1>5 DEF StillToCome, Found
  <2>1. In(walk.todo) = {}
    BY InEmpty
  <2> QED BY <2>1 DEF WalkInv, StillToCome
<1> QED BY <1>2, <1>6, <1>7, <1>8, <1>9 DEF WalkInv

LEMMA MeddleKeeps ==
  ASSUME WalkInv, Meddle
  PROVE  WalkInv'
<1>1. Change /\ scene' = scene
  BY DEF Meddle
<1>2. ScopeInv'
  BY <1>1, ChangeIsNext, ScopeStep DEF WalkInv
<1>3. /\ tree' \in SUBSET Path /\ scope' \in [Node -> SUBSET (Path \cup {NoAccess})] /\ TypeOK'
  BY <1>2 DEF ScopeInv, TypeOK
<1>4. /\ walk \in WalkRecord /\ scene \in Scenes
      /\ changes \in Nat /\ changes <= scene.changes /\ scene.changes \in Nat
      /\ walk.scopes \in SUBSET SUBSET (Path \cup {NoAccess}) /\ walk.must \in SUBSET Path
      /\ walk.kind = "search" => walk.visited <= VisitBudget + 1 /\ Len(walk.found) <= MaxResults
      /\ walk.kind \in {"search", "fallback"} => walk.node \in Node
  BY WalkFacts DEF WalkInv
<1>5. CASE walk.kind \notin {"search", "fallback"}
  <2>1. changes' = 0 /\ walk' = NoWalk
    BY <1>5 DEF Meddle
  <2>2. scene' \in Scenes
    BY <1>1, <1>4
  <2>3. (ScopeInv /\ scene \in Scenes /\ changes = 0 /\ walk = NoWalk => WalkInv)'
    BY NoWalkHolds, PTL
  <2> QED BY <1>2, <2>1, <2>2, <2>3
<1>6. CASE walk.kind \in {"search", "fallback"}
  <2> DEFINE mine == scope'[walk.node]
             scopes == IF walk.kind = "search" THEN walk.scopes ELSE walk.scopes \cup {mine}
             must == IF walk.kind = "search" THEN walk.must \cap tree'
                     ELSE {f \in walk.must \cap tree' : CanReadFile(mine, f)}
  <2>1. /\ changes' = changes \/ changes' = changes + 1
        /\ changes' <= scene.changes
        /\ walk' = [walk EXCEPT !.must = must, !.scopes = scopes]
    <3>1. /\ changes' = IF <<tree, scope>>' = <<tree, scope>> THEN changes ELSE changes + 1
          /\ changes' <= scene.changes
          /\ walk' = IF walk.kind = "search" THEN [walk EXCEPT !.must = walk.must \cap tree']
                     ELSE [walk EXCEPT !.must = {f \in walk.must \cap tree' : CanReadFile(mine, f)},
                                       !.scopes = walk.scopes \cup {mine}]
      BY <1>6 DEF Meddle
    <3>2. CASE walk.kind = "search"
      <4>1. walk' = [walk EXCEPT !.must = walk.must \cap tree']
        BY <3>1, <3>2
      <4>2. [walk EXCEPT !.must = walk.must \cap tree'] =
              [walk EXCEPT !.must = walk.must \cap tree', !.scopes = walk.scopes]
        BY <1>4 DEF WalkRecord
      <4> QED BY <3>1, <3>2, <4>1, <4>2
    <3>3. CASE walk.kind # "search"
      BY <3>1, <3>3
    <3> QED BY <3>2, <3>3
  <2>2. /\ must \subseteq walk.must /\ must \subseteq tree'
        /\ walk.kind = "fallback" => \A f \in must : CanReadFile(mine, f)
    BY <1>6
  <2>3. /\ scopes \in SUBSET SUBSET (Path \cup {NoAccess}) /\ walk.scopes \subseteq scopes
        /\ walk.kind = "fallback" => mine \in scopes
        /\ walk.kind = "search" => scopes = walk.scopes
    BY <1>3, <1>4, <1>6
  <2>4. mine = scope'[walk.node]
    OBVIOUS
  <2> HIDE DEF mine, scopes, must
  <2>5. /\ walk' \in WalkRecord
        /\ walk'.kind = walk.kind /\ walk'.node = walk.node /\ walk'.scopes = scopes
        /\ walk'.todo = walk.todo /\ walk'.visited = walk.visited
        /\ walk'.direct = walk.direct /\ walk'.found = walk.found /\ walk'.cut = walk.cut
        /\ walk'.must = must
    BY <1>4, <2>1, <2>2, <2>3 DEF WalkRecord
  <2>6. SearchOK'
    <3>1. scene' \in Scenes /\ changes' \in 0..scene'.changes
      BY <1>1, <1>4, <2>1
    <3> QED BY <1>3, <1>4, <1>6, <2>5, <3>1 DEF SearchOK, WalkRecord
  <2>7. HitsReadable'
    BY <2>3, <2>5 DEF WalkInv, HitsReadable, Found
  <2>8. KeepsToScope'
    BY <2>3, <2>5 DEF WalkInv, KeepsToScope
  <2>9. MeetsScope'
    BY <2>2, <2>3, <2>4, <2>5 DEF MeetsScope
  <2>10. MustBeThere' /\ NothingLeft'
    BY <2>2, <2>5 DEF WalkInv, MustBeThere, NothingLeft
  <2>11. StillToCome'
    BY <2>2, <2>5 DEF WalkInv, StillToCome, Found
  <2> QED BY <1>2, <2>6, <2>7, <2>8, <2>9, <2>10, <2>11 DEF WalkInv
<1> QED BY <1>5, <1>6

LEMMA WalkStutters ==
  ASSUME WalkInv, UNCHANGED <<vars, searchVars>>
  PROVE  WalkInv'
<1>1. UNCHANGED vars /\ scene' = scene /\ walk' = walk /\ changes' = changes
  BY DEF searchVars
<1>2. ScopeInv' /\ TypeOK' /\ scope' = scope /\ tree' = tree
  BY <1>1, ScopeUntouched
<1>3. SearchOK'
  BY <1>1, <1>2 DEF WalkInv, SearchOK
<1>4. HitsReadable' /\ KeepsToScope' /\ MeetsScope'
  BY <1>1, <1>2 DEF WalkInv, HitsReadable, KeepsToScope, MeetsScope
<1>5. MustBeThere' /\ NothingLeft' /\ StillToCome'
  BY <1>1, <1>2 DEF WalkInv, MustBeThere, NothingLeft, StillToCome
<1> QED BY <1>2, <1>3, <1>4, <1>5 DEF WalkInv

LEMMA WalkStep ==
  ASSUME WalkInv, [SearchNext]_<<vars, searchVars>>
  PROVE  WalkInv'
<1>1. CASE "search" \in scene.acts /\ SearchAll
  BY <1>1, SearchBeginsKeeps, FallbackBeginsKeeps DEF SearchAll
<1>2. CASE SearchStep
  BY <1>2, SearchStepKeeps
<1>3. CASE FallbackStep
  BY <1>3, FallbackStepKeeps
<1>4. CASE WalkMisses
  BY <1>4, WalkMissesKeeps
<1>5. CASE WalkEnds
  BY <1>5, WalkEndsKeeps
<1>6. CASE Meddle
  BY <1>6, MeddleKeeps
<1>7. CASE UNCHANGED <<vars, searchVars>>
  BY <1>7, WalkStutters
<1> QED BY <1>1, <1>2, <1>3, <1>4, <1>5, <1>6, <1>7 DEF SearchNext

LEMMA WalkInvariant == SearchSpec => []WalkInv
<1>1. SearchInit => WalkInv
  BY WalkInit
<1>2. WalkInv /\ [SearchNext]_<<vars, searchVars>> => WalkInv'
  BY WalkStep
<1> QED BY <1>1, <1>2, PTL DEF SearchSpec

----------------------------------------------------------------------------
(* Theorems about Search *)

\* The direct hits and the others, as All has them.
LEMMA AllFacts ==
  ASSUME SearchOK
  PROVE  All(walk) \in Seq(Path) /\ DOMAIN All(walk) = 1..Len(All(walk)) /\ In(All(walk)) = Found(walk)
<1> DEFINE a == walk.direct
           b == walk.found
<1>1. a \in Seq(Path) /\ b \in Seq(Path) /\ All(walk) = a \o b /\ Found(walk) = In(a) \cup In(b)
  BY WalkFacts DEF All, Found
<1> HIDE DEF a, b
<1>2. a \o b \in Seq(Path) /\ In(a \o b) = In(a) \cup In(b)
  BY <1>1, InConcat
<1>3. All(walk) \in Seq(Path) /\ In(All(walk)) = Found(walk)
  BY <1>1, <1>2
<1> QED BY <1>3

\* A search never exceeds its visit budget by more than the entry it stops at, nor its
\* number of results, and what it keeps stays well-formed whatever happens around it.
THEOREM SearchTypeCorrect == SearchSpec => []SearchOK
<1>1. WalkInv => SearchOK
  BY DEF WalkInv
<1> QED BY <1>1, WalkInvariant, PTL

\* No hit outside the grant: search_scope never leaves what the scope it was given covers,
\* and search_fallback gets its names through listings that are filtered by the scope of
\* the moment.
THEOREM SearchStaysInScope == SearchSpec => []SearchInScope
<1>1. WalkInv => SearchInScope
  <2> SUFFICES ASSUME WalkInv, NEW i \in DOMAIN All(walk)
               PROVE  \E s \in walk.scopes : CanReadFile(s, All(walk)[i])
    BY DEF SearchInScope
  <2>1. All(walk)[i] \in Found(walk)
    BY AllFacts DEF WalkInv, In
  <2> QED BY <2>1 DEF WalkInv, HitsReadable
<1> QED BY <1>1, WalkInvariant, PTL

\* No hit is missed: a walk that met no bound has every matching file that was there and
\* readable all along, whatever scopes and files changed beside it.
THEOREM SearchFindsEverything == SearchSpec => []SearchFindsAll
<1>1. WalkInv => SearchFindsAll
  <2> SUFFICES ASSUME WalkInv, walk.kind = "done", ~walk.cut, Len(walk.found) < MaxResults,
                      NEW f \in walk.must
               PROVE  \E i \in DOMAIN All(walk) : All(walk)[i] = f
    BY DEF SearchFindsAll
  <2>1. In(walk.todo) = {}
    BY InEmpty DEF WalkInv, NothingLeft
  <2>2. f \in Found(walk)
    BY <2>1 DEF WalkInv, StillToCome
  <2> QED BY <2>2, AllFacts DEF WalkInv, In
<1> QED BY <1>1, WalkInvariant, PTL

============================================================================
