--------------------------- MODULE NoticesProofs ---------------------------
(***************************************************************************)
(* Theorems about the notification feed (EventFeed) and about what the     *)
(* owner is told of through it (Notices), for every capacity of the ring,  *)
(* every number of overlapping calls and every bound on the behaviours.    *)
(***************************************************************************)
EXTENDS Notices, SequenceTheorems, TLAPS

USE FeedAssumption

\* Whatever the daemon's other parts do, the feed and the shell take a step of
\* their own specification or none.
LEMMA FeedSteps == [NoticesNext]_<<vars, notices>> => [Next]_vars
<1> SUFFICES ASSUME [NoticesNext]_<<vars, notices>> PROVE [Next]_vars
  OBVIOUS
<1>1. CASE Elsewhere
  BY <1>1 DEF Elsewhere, PushNotice, Next
<1>2. CASE Restart
  BY <1>2 DEF Restart, Next
<1>3. CASE Sweep
  BY <1>3 DEF Sweep, PushNotice, Next
<1>4. ASSUME NEW h \in Handler, ReqPush(h) PROVE [Next]_vars
  BY <1>4 DEF ReqPush, PushNotice, Next
<1> QED
  BY <1>1, <1>2, <1>3, <1>4
  DEF NoticesNext, ReqCheckGrant, ReqLook, ReqAdmit, Leaves, RevokeGrant, Tick

----------------------------------------------------------------------------
(* The ring *)

\* The ids in the ring are the last ones given out, without a gap, and the serial
\* numbers run along with them.
RingInv ==
  /\ nextId <= pushed
  /\ Len(items) <= nextId
  /\ nextId # 0 => Len(items) # 0
  /\ \A i \in 1..Len(items) :
       /\ items[i].id = nextId - Len(items) + i
       /\ items[i].serial = pushed - Len(items) + i

\* Events::push puts the next event at the end; a full ring loses its first.
LEMMA PushedRing ==
  ASSUME TypeOK, RingInv, Push
  PROVE  /\ items' \in Seq(Event) /\ Len(items') <= Cap
         /\ RingInv'
<1> DEFINE e == [id |-> nextId', serial |-> pushed']
           all == Append(items, e)
<1>1. /\ nextId \in Nat /\ pushed \in Nat /\ nextId' = nextId + 1 /\ pushed' = pushed + 1
      /\ items \in Seq(Event) /\ Len(items) \in Nat
  BY DEF Push, TypeOK
<1>2. e \in Event
  BY <1>1 DEF Push, TypeOK, RingInv, Event
<1>3. /\ all \in Seq(Event) /\ Len(all) = Len(items) + 1 /\ all # <<>>
      /\ \A i \in 1..Len(items) : all[i] = items[i]
      /\ all[Len(items) + 1] = e
  BY <1>1, <1>2, AppendProperties
<1>4. items' = IF Len(all) > Cap THEN Tail(all) ELSE all
  BY <1>1 DEF Push
<1>5. \A i \in 1..Len(all) : /\ all[i].id = nextId' - Len(all) + i
                             /\ all[i].serial = pushed' - Len(all) + i
  <2> SUFFICES ASSUME NEW i \in 1..Len(all)
               PROVE  all[i].id = nextId' - Len(all) + i /\ all[i].serial = pushed' - Len(all) + i
    OBVIOUS
  <2>1. CASE i \in 1..Len(items)
    <3>1. all[i] = items[i]
      BY <1>3, <2>1
    <3>2. items[i].id = nextId - Len(items) + i /\ items[i].serial = pushed - Len(items) + i
      BY <2>1 DEF RingInv
    <3> HIDE DEF e, all
    <3> QED
      BY <1>1, <1>3, <3>1, <3>2
  <2>2. CASE i = Len(items) + 1
    <3>1. all[i].id = nextId' /\ all[i].serial = pushed'
      BY <1>3, <2>2
    <3> HIDE DEF e, all
    <3> QED
      BY <1>1, <1>3, <2>2, <3>1
  <2> HIDE DEF e, all
  <2> QED
    BY <1>1, <1>3, <2>1, <2>2
<1> HIDE DEF e, all
<1>6. CASE Len(all) > Cap
  <2>1. /\ Tail(all) \in Seq(Event) /\ Len(Tail(all)) = Len(all) - 1
        /\ \A i \in 1..Len(Tail(all)) : Tail(all)[i] = all[i + 1]
    BY <1>3, HeadTailProperties
  <2>2. /\ items' \in Seq(Event) /\ Len(items') = Len(items)
        /\ \A i \in 1..Len(items') : items'[i] = all[i + 1]
    BY <1>1, <1>3, <1>4, <1>6, <2>1
  <2>3. \A i \in 1..Len(items') : i + 1 \in 1..Len(all)
    BY <1>1, <1>3, <2>2
  <2>4. \A i \in 1..Len(items') : /\ items'[i].id = nextId' - Len(items') + i
                                  /\ items'[i].serial = pushed' - Len(items') + i
    <3> SUFFICES ASSUME NEW i \in 1..Len(items')
                 PROVE  /\ items'[i].id = nextId' - Len(items') + i
                        /\ items'[i].serial = pushed' - Len(items') + i
      OBVIOUS
    <3>1. /\ items'[i].id = nextId' - Len(all) + (i + 1)
          /\ items'[i].serial = pushed' - Len(all) + (i + 1)
      BY <1>5, <2>2, <2>3
    <3> QED
      BY <1>1, <1>3, <2>2, <3>1
  <2>5. Len(items') <= Cap
    BY <2>2 DEF TypeOK
  <2>6. nextId' <= pushed' /\ Len(items') <= nextId' /\ Len(items') # 0
    BY <1>1, <1>3, <1>6, <2>2 DEF RingInv
  <2> QED
    BY <2>2, <2>4, <2>5, <2>6 DEF RingInv
<1>7. CASE ~(Len(all) > Cap)
  <2>1. items' = all
    BY <1>4, <1>7
  <2> QED
    <3>1. items' \in Seq(Event) /\ Len(items') <= Cap /\ Len(items') = Len(items) + 1
      BY <1>1, <1>3, <1>7, <2>1
    <3>2. nextId' <= pushed' /\ Len(items') <= nextId' /\ Len(items') # 0
      BY <1>1, <3>1 DEF RingInv
    <3> QED
      BY <1>5, <2>1, <3>1, <3>2 DEF RingInv
<1> QED
  BY <1>6, <1>7

\* Events::since answers a part of the ring: events after the cursor, in order, and up
\* to the newest.
LEMMA SinceIsSuffix ==
  ASSUME TypeOK, RingInv, NEW c \in Nat
  PROVE  /\ Since(c) \in Seq(Event) /\ Len(Since(c)) <= Len(items)
         /\ c < nextId => Len(Since(c)) # 0
         /\ \A i \in 1..Len(Since(c)) :
              \E k \in 1..Len(items) :
                 /\ k = Len(items) - Len(Since(c)) + i
                 /\ Since(c)[i] = items[k] /\ items[k].id > c
<1> DEFINE ok(k) == \A i \in 1..Len(items) : items[i].id > c <=> i >= k
           first == CHOOSE k \in 1..(Len(items) + 1) : ok(k)
           low == nextId - Len(items)
           from == IF c < low THEN 1 ELSE IF c >= nextId THEN Len(items) + 1 ELSE c - low + 1
<1>1. Len(items) \in Nat /\ nextId \in Nat /\ low \in Nat /\ items \in Seq(Event)
  BY DEF TypeOK, RingInv
<1>2. from \in 1..(Len(items) + 1)
  BY <1>1
<1>3. ok(from)
  BY <1>1 DEF RingInv
<1>4. first \in 1..(Len(items) + 1) /\ ok(first)
  BY <1>2, <1>3
<1>5. Since(c) = SubSeq(items, first, Len(items))
  BY DEF Since
<1> HIDE DEF first
<1>6. /\ Since(c) \in Seq(Event)
      /\ Len(Since(c)) = Len(items) - first + 1
      /\ \A i \in 1..(Len(items) - first + 1) : Since(c)[i] = items[first + i - 1]
  BY <1>1, <1>4, <1>5, SubSeqProperties
<1>61. ASSUME c < nextId PROVE first <= Len(items)
  <2>1. Len(items) \in 1..Len(items) /\ items[Len(items)].id = nextId
    BY <1>1, <1>61 DEF RingInv
  <2>2. Len(items) >= first
    BY <1>4, <1>61, <2>1
  <2> QED
    BY <1>1, <1>4, <2>2
<1> SUFFICES ASSUME NEW i \in 1..Len(Since(c))
             PROVE  \E k \in 1..Len(items) :
                      /\ k = Len(items) - Len(Since(c)) + i
                      /\ Since(c)[i] = items[k] /\ items[k].id > c
  BY <1>1, <1>4, <1>6, <1>61
<1>7. i \in 1..(Len(items) - first + 1)
  BY <1>6
<1>8. /\ first + i - 1 \in 1..Len(items) /\ first + i - 1 = Len(items) - Len(Since(c)) + i
      /\ first + i - 1 >= first
  BY <1>1, <1>4, <1>6, <1>7
<1>9. Since(c)[i] = items[first + i - 1] /\ items[first + i - 1].id > c
  BY <1>4, <1>6, <1>7, <1>8
<1> QED
  BY <1>8, <1>9
----------------------------------------------------------------------------
(* The poller *)

\* The serial numbers of a list of events.
LEMMA SerialsType ==
  ASSUME NEW es \in Seq(Event)
  PROVE  /\ Serials(es) \in Seq(1..MaxEvents) /\ Len(Serials(es)) = Len(es)
         /\ \A i \in 1..Len(es) : Serials(es)[i] = es[i].serial
<1>1. DOMAIN es = 1..Len(es) /\ Len(es) \in Nat /\ \A i \in 1..Len(es) : es[i] \in Event
  BY LenProperties, ElementOfSeq
<1>2. \A i \in 1..Len(es) : es[i].serial \in 1..MaxEvents
  BY <1>1 DEF Event
<1>3. Serials(es) = [i \in 1..Len(es) |-> es[i].serial]
  BY <1>1 DEF Serials
<1>4. Serials(es) \in [1..Len(es) -> 1..MaxEvents]
  BY <1>2, <1>3
<1>5. Serials(es) \in Seq(1..MaxEvents) /\ Len(Serials(es)) = Len(es)
  BY <1>1, <1>4, SeqDef
<1> QED
  BY <1>3, <1>5

\* What a poll brought: events the cursor has not reached, in order, and none that
\* a new daemon's count could put before them.
ReplyInv ==
  reply # NONE =>
    /\ \A i \in 1..Len(reply) : /\ reply[i].id > last
                                /\ reply[i].serial <= pushed
                                /\ reply[i].serial <= pushed - nextId + reply[i].id
    /\ \A i, j \in 1..Len(reply) : i < j => reply[i].serial < reply[j].serial

\* Where the cursor goes when the poll's reply is handled.
Tip == IF reply = <<>> THEN last ELSE reply[Len(reply)].id

\* What was shown: nothing after the cursor, counted from where this daemon's ids
\* begin, and nothing the poll that is being handled has too.  A shell without a base
\* line has its cursor before all events; the tip it adopts is not before them.
ShownInv ==
  /\ \A i \in 1..Len(shown) : shown[i] <= pushed
  /\ primed => \A i \in 1..Len(shown) : shown[i] <= pushed - nextId + last
  /\ reply # NONE => \A i \in 1..Len(shown) : shown[i] <= pushed - nextId + Tip
  /\ reply # NONE /\ primed =>
       \A i \in 1..Len(shown), j \in 1..Len(reply) : shown[i] < reply[j].serial
  /\ \A i, j \in 1..Len(shown) : i < j => shown[i] < shown[j]

\* The inductive invariant.  The file may be behind the cursor or empty; a shell that
\* starts from it again either is at the last toast, has no base line, or is `behind`.
FeedInv ==
  /\ TypeOK
  /\ RingInv
  /\ cursor <= last
  /\ ~primed => last = 0
  /\ ReplyInv
  /\ ~behind => ShownInv

\* The numbers behind the invariant.
LEMMA FeedNumbers ==
  ASSUME FeedInv
  PROVE  /\ nextId \in Nat /\ pushed \in Nat /\ nextId <= pushed
         /\ last \in Nat /\ last <= MaxEvents
         /\ \A i \in 1..Len(shown) : shown[i] \in Nat
         /\ shown \in Seq(1..MaxEvents) /\ Len(shown) \in Nat
         /\ reply # NONE =>
              /\ reply \in Seq(Event) /\ Len(reply) \in Nat
              /\ reply # <<>> => Len(reply) \in 1..Len(reply)
              /\ \A i \in 1..Len(reply) : reply[i] \in Event /\ reply[i].id \in Nat
                                          /\ reply[i].serial \in Nat
<1>1. /\ nextId \in Nat /\ pushed \in Nat /\ nextId <= pushed
      /\ last \in Nat /\ last <= MaxEvents
  BY DEF FeedInv, TypeOK, RingInv
<1>2. shown \in Seq(1..MaxEvents) /\ Len(shown) \in Nat
  BY DEF FeedInv, TypeOK
<1>3. \A i \in 1..Len(shown) : shown[i] \in Nat
  BY <1>2, ElementOfSeq
<1>4. ASSUME reply # NONE
      PROVE  /\ reply \in Seq(Event) /\ Len(reply) \in Nat
             /\ reply # <<>> => Len(reply) \in 1..Len(reply)
             /\ \A i \in 1..Len(reply) : reply[i] \in Event /\ reply[i].id \in Nat
                                         /\ reply[i].serial \in Nat
  <2>1. reply \in Seq(Event) /\ Len(reply) \in Nat
    BY <1>4 DEF FeedInv, TypeOK
  <2>2. reply # <<>> => Len(reply) # 0
    BY <2>1, EmptySeq
  <2>3. \A i \in 1..Len(reply) : reply[i] \in Event
    BY <2>1, ElementOfSeq
  <2> QED
    BY <2>1, <2>2, <2>3 DEF Event
<1> QED
  BY <1>1, <1>2, <1>3, <1>4

\* A serial number that was not after the cursor is not after it either when the
\* place where the daemon's ids begin has moved up.
LEMMA Later ==
  ASSUME NEW s \in Nat, NEW c \in Nat, NEW p \in Nat, NEW n \in Nat, NEW q \in Nat,
         NEW m \in Nat, p - n <= q - m, s <= p - n + c
  PROVE  s <= q - m + c
OBVIOUS

\* Where the cursor goes.
LEMMA TipMoves ==
  ASSUME FeedInv, reply # NONE
  PROVE  /\ Tip \in 0..MaxEvents /\ Tip \in Nat /\ last <= Tip
         /\ reply # <<>> => Tip # 0
         /\ \A i \in 1..Len(reply) : reply[i].serial <= pushed - nextId + Tip
<1>1. CASE reply = <<>>
  <2>1. Len(reply) = 0 /\ Tip = last
    BY <1>1 DEF Tip
  <2> QED
    BY <1>1, <2>1, FeedNumbers
<1>2. CASE reply # <<>>
  <2>0. Tip = reply[Len(reply)].id
    BY <1>2 DEF Tip
  <2>1. /\ Len(reply) \in 1..Len(reply) /\ reply[Len(reply)] \in Event
        /\ reply[Len(reply)].id \in Nat /\ reply[Len(reply)].serial \in Nat
    BY <1>2, FeedNumbers
  <2>2. reply[Len(reply)].id \in 1..MaxEvents
    BY <2>1 DEF Event
  <2>3. /\ reply[Len(reply)].id > last
        /\ reply[Len(reply)].serial <= pushed - nextId + reply[Len(reply)].id
    BY <2>1 DEF FeedInv, ReplyInv
  <2>4. ASSUME NEW i \in 1..Len(reply)
        PROVE  reply[i].serial <= pushed - nextId + reply[Len(reply)].id
    <3>1. reply[i].serial <= reply[Len(reply)].serial
      <4>1. CASE i = Len(reply)
        BY <2>1, <4>1
      <4>2. CASE i < Len(reply)
        <5>1. reply[i].serial < reply[Len(reply)].serial
          BY <2>1, <2>4, <4>2 DEF FeedInv, ReplyInv
        <5>2. reply[i].serial \in Nat
          BY <2>4, FeedNumbers
        <5> QED
          BY <2>1, <5>1, <5>2
      <4> QED
        BY <2>1, <2>4, <4>1, <4>2
    <3> QED
      BY <2>1, <2>3, <2>4, <3>1, FeedNumbers
  <2> QED
    BY <1>2, <2>0, <2>2, <2>3, <2>4, FeedNumbers
<1> QED
  BY <1>1, <1>2

\* Events::push and a new daemon leave the shell's side in order: the first serial
\* number of the new daemon lies beyond all earlier ones.
LEMMA DaemonStep ==
  ASSUME FeedInv, Push \/ DaemonRestart
  PROVE  FeedInv'
<1>1. UNCHANGED <<last, primed, cursor, reply, shown, gone, behind>>
  BY DEF Push, DaemonRestart
<1>0. nextId \in Nat /\ pushed \in Nat /\ nextId <= pushed /\ last \in Nat
  BY FeedNumbers
<1>2. /\ nextId' \in Nat /\ pushed' \in Nat /\ pushed <= pushed'
      /\ pushed - nextId <= pushed' - nextId'
  BY FeedNumbers DEF Push, DaemonRestart
<1>3. TypeOK' /\ RingInv'
  <2>1. CASE Push
    <3>1. items' \in Seq(Event) /\ Len(items') <= Cap /\ RingInv'
      BY <2>1, PushedRing DEF FeedInv
    <3>2. nextId' \in 0..MaxEvents /\ pushed' \in 0..MaxEvents
      BY <2>1, FeedNumbers DEF Push
    <3>3. due' \subseteq 1..MaxEvents
      BY <2>1, <3>2 DEF Push, FeedInv, TypeOK
    <3> QED
      BY <1>1, <2>1, <3>1, <3>2, <3>3 DEF FeedInv, Push, TypeOK
  <2>2. CASE DaemonRestart
    <3>1. items' = <<>> /\ Len(items') = 0 /\ items' \in Seq(Event)
      BY <2>2 DEF DaemonRestart
    <3> QED
      <4>1. RingInv'
        BY <2>2, <3>1, FeedNumbers DEF DaemonRestart, RingInv
      <4>2. nextId' = 0 /\ epoch' \in 0..MaxEpoch /\ met' = FALSE
            /\ UNCHANGED <<last, primed, cursor, reply, shown, pushed, due, gone, behind>>
        BY <2>2 DEF DaemonRestart, FeedInv, TypeOK
      <4>3. Len(items') <= Cap
        BY <3>1
      <4>4. nextId' \in 0..MaxEvents
        BY <4>2
      <4> QED
        BY <3>1, <4>1, <4>2, <4>3, <4>4 DEF FeedInv, TypeOK
  <2> QED
    BY <2>1, <2>2
<1>4. ReplyInv'
  <2> SUFFICES ASSUME reply # NONE PROVE ReplyInv'
    BY <1>1 DEF ReplyInv
  <2>1. ASSUME NEW i \in 1..Len(reply)
        PROVE  /\ reply[i].serial <= pushed'
               /\ reply[i].serial <= pushed' - nextId' + reply[i].id
    <3>1. /\ reply[i].serial <= pushed
          /\ reply[i].serial <= pushed - nextId + reply[i].id
      BY <2>1 DEF FeedInv, ReplyInv
    <3>2. reply[i].serial \in Nat /\ reply[i].id \in Nat
      BY <2>1, FeedNumbers
    <3> QED
      BY <1>0, <1>2, <3>1, <3>2
  <2> QED
    BY <1>1, <2>1 DEF FeedInv, ReplyInv
<1>5. ASSUME ShownInv PROVE ShownInv'
  <2>0. Tip' = Tip
    BY <1>1 DEF Tip
  <2>1. ASSUME NEW i \in 1..Len(shown) PROVE shown[i] \in Nat /\ shown[i] <= pushed'
    <3>1. shown[i] <= pushed
      BY <1>5, <2>1 DEF ShownInv
    <3>2. shown[i] \in Nat
      BY <2>1, FeedNumbers
    <3> QED
      BY <1>0, <1>2, <3>1, <3>2
  <2>2. ASSUME primed, NEW i \in 1..Len(shown) PROVE shown[i] <= pushed' - nextId' + last
    <3>1. shown[i] <= pushed - nextId + last
      BY <1>5, <2>2 DEF ShownInv
    <3> QED
      BY <1>0, <1>2, <2>1, <3>1, Later
  <2>3. ASSUME reply # NONE, NEW i \in 1..Len(shown) PROVE shown[i] <= pushed' - nextId' + Tip
    <3>1. shown[i] <= pushed - nextId + Tip
      BY <1>5, <2>3 DEF ShownInv
    <3>2. Tip \in Nat
      BY <2>3, TipMoves
    <3> QED
      BY <1>0, <1>2, <2>1, <3>1, <3>2, Later
  <2> QED
    BY <1>1, <1>5, <2>0, <2>1, <2>2, <2>3 DEF ShownInv
<1> QED
  BY <1>1, <1>3, <1>4, <1>5 DEF FeedInv

\* A poll brings events in order that are newer than everything shown; to a shell
\* without a base line it brings the newest event there is.
LEMMA PollAskStep ==
  ASSUME FeedInv, PollAsk
  PROVE  FeedInv'
<1>0. nextId \in Nat /\ pushed \in Nat /\ nextId <= pushed /\ last \in Nat
  BY FeedNumbers
<1>1. UNCHANGED <<nextId, items, pushed, epoch, due, last, primed, cursor, shown, gone, behind>>
      /\ reply' = Since(last) /\ met' = TRUE
  BY DEF PollAsk, daemon
<1>2. /\ Since(last) \in Seq(Event) /\ Len(Since(last)) <= Len(items)
      /\ last < nextId => Len(Since(last)) # 0
      /\ \A i \in 1..Len(Since(last)) :
           \E k \in 1..Len(items) :
              /\ k = Len(items) - Len(Since(last)) + i
              /\ Since(last)[i] = items[k] /\ items[k].id > last
  BY FeedNumbers, SinceIsSuffix DEF FeedInv
<1>3. Len(items) \in Nat /\ Len(items) <= Cap /\ items \in Seq(Event) /\ Len(Since(last)) \in Nat
  BY <1>2 DEF FeedInv, TypeOK
<1>4. ASSUME NEW i \in 1..Len(Since(last))
      PROVE  /\ Since(last)[i].id > last
             /\ Since(last)[i].serial = pushed - Len(Since(last)) + i
             /\ Since(last)[i].id = nextId - Len(Since(last)) + i
             /\ Since(last)[i].serial = pushed - nextId + Since(last)[i].id
             /\ Since(last)[i].serial <= pushed
  <2>1. PICK k \in 1..Len(items) : /\ k = Len(items) - Len(Since(last)) + i
                                   /\ Since(last)[i] = items[k] /\ items[k].id > last
    BY <1>2, <1>4
  <2>2. items[k].id = nextId - Len(items) + k /\ items[k].serial = pushed - Len(items) + k
    BY <2>1 DEF FeedInv, RingInv
  <2> QED
    BY <1>0, <1>3, <2>1, <2>2
<1>5. TypeOK' /\ RingInv' /\ cursor' <= last' /\ (~primed' => last' = 0)
  BY <1>1, <1>2, <1>3 DEF FeedInv, TypeOK, RingInv
<1>6. ReplyInv'
  <2>1. \A i, j \in 1..Len(reply') : i < j => reply'[i].serial < reply'[j].serial
    <3> SUFFICES ASSUME NEW i \in 1..Len(Since(last)), NEW j \in 1..Len(Since(last)), i < j
                 PROVE  Since(last)[i].serial < Since(last)[j].serial
      BY <1>1
    <3>1. /\ Since(last)[i].serial = pushed - Len(Since(last)) + i
          /\ Since(last)[j].serial = pushed - Len(Since(last)) + j
      BY <1>4
    <3> QED
      BY <1>0, <1>3, <3>1
  <2>2. ASSUME NEW i \in 1..Len(Since(last))
        PROVE  /\ Since(last)[i].id > last
               /\ Since(last)[i].serial <= pushed
               /\ Since(last)[i].serial <= pushed - nextId + Since(last)[i].id
    <3>1. Since(last)[i] \in Event
      BY <1>2, <2>2, ElementOfSeq
    <3>2. Since(last)[i].id \in Nat
      BY <3>1 DEF Event
    <3> QED
      BY <1>0, <1>4, <2>2, <3>2
  <2> QED
    BY <1>1, <2>1, <2>2 DEF ReplyInv
<1>7. ~behind' => ShownInv'
  <2> SUFFICES ASSUME ~behind PROVE ShownInv'
    BY <1>1
  <2>1. ASSUME primed, NEW i \in 1..Len(shown), NEW j \in 1..Len(Since(last))
        PROVE  shown[i] < Since(last)[j].serial
    <3>1. shown[i] <= pushed - nextId + last /\ shown[i] \in Nat
      BY <2>1, FeedNumbers DEF FeedInv, ShownInv
    <3>2. Since(last)[j] \in Event
      BY <1>2, <2>1, ElementOfSeq
    <3>3. Since(last)[j].id \in Nat
      BY <3>2 DEF Event
    <3>4. /\ Since(last)[j].id > last
          /\ Since(last)[j].serial = pushed - nextId + Since(last)[j].id
      BY <1>4, <2>1
    <3> QED
      BY <1>0, <3>1, <3>3, <3>4
  <2>2. Tip' \in Nat /\ last <= Tip' /\ (last < nextId => Tip' = nextId)
    <3>1. CASE Since(last) = <<>>
      <4>1. Len(Since(last)) = 0 /\ Tip' = last
        BY <1>1, <3>1 DEF Tip
      <4> QED
        BY <1>0, <1>2, <4>1
    <3>2. CASE Since(last) # <<>>
      <4>1. Len(Since(last)) \in 1..Len(Since(last))
        BY <1>2, <1>3, <3>2, EmptySeq
      <4>2. Tip' = Since(last)[Len(Since(last))].id
        BY <1>1, <3>2 DEF Tip
      <4> QED
        BY <1>0, <1>3, <1>4, <4>1, <4>2
    <3> QED
      BY <3>1, <3>2
  <2>3. ASSUME NEW i \in 1..Len(shown) PROVE shown[i] <= pushed - nextId + Tip'
    <3>1. shown[i] <= pushed /\ shown[i] \in Nat
      BY <2>3, FeedNumbers DEF FeedInv, ShownInv
    <3>2. CASE primed
      <4>1. shown[i] <= pushed - nextId + last
        BY <2>3, <3>2 DEF FeedInv, ShownInv
      <4> QED
        BY <1>0, <2>2, <3>1, <4>1
    <3>3. CASE ~primed
      <4>1. last = 0
        BY <3>3 DEF FeedInv
      <4>2. Tip' >= nextId
        BY <1>0, <2>2, <4>1
      <4> QED
        BY <1>0, <2>2, <3>1, <4>2
    <3> QED
      BY <3>2, <3>3
  <2> QED
    BY <1>1, <2>1, <2>3 DEF FeedInv, ShownInv
<1> QED
  BY <1>1, <1>5, <1>6, <1>7 DEF FeedInv

\* Adopting the tip shows nothing and puts the cursor behind what was shown.
LEMMA PollPrimeStep ==
  ASSUME FeedInv, PollPrime
  PROVE  FeedInv'
<1>1. Tip \in 0..MaxEvents /\ last <= Tip /\ reply # NONE
  BY TipMoves DEF PollPrime
<1>2. last' = Tip /\ cursor' \in {Tip, cursor, 0}
  BY DEF PollPrime, SaveCursor, Tip
<1>3. UNCHANGED <<nextId, items, pushed, epoch, due, met, shown, gone, behind>> /\ reply' = NONE
      /\ primed' = TRUE
  BY DEF PollPrime, daemon
<1>4. cursor' \in 0..MaxEvents /\ cursor' <= last'
  BY <1>1, <1>2, FeedNumbers DEF FeedInv, TypeOK
<1>5. TypeOK' /\ RingInv' /\ ReplyInv'
  BY <1>1, <1>2, <1>3, <1>4 DEF FeedInv, TypeOK, RingInv, ReplyInv
<1>6. ~behind' => ShownInv'
  BY <1>1, <1>2, <1>3 DEF FeedInv, ShownInv
<1> QED
  BY <1>3, <1>4, <1>5, <1>6 DEF FeedInv

\* The first events of a poll's reply, appended to what was shown: in order, and not
\* beyond the tip.
LEMMA ToastsAdded ==
  ASSUME FeedInv, primed, reply # NONE,
         NEW new \in Seq(1..MaxEvents), Len(new) <= Len(reply),
         \A i \in 1..Len(new) : new[i] = reply[i].serial,
         shown' = shown \o new
  PROVE  /\ shown' \in Seq(1..MaxEvents)
         /\ ~behind => \A i \in 1..Len(shown') : /\ shown'[i] <= pushed
                                                 /\ shown'[i] <= pushed - nextId + Tip
         /\ ~behind => \A i, j \in 1..Len(shown') : i < j => shown'[i] < shown'[j]
<1>1. Len(shown) \in Nat /\ Len(new) \in Nat /\ Len(reply) \in Nat
  BY FeedNumbers
<1>2. /\ shown' \in Seq(1..MaxEvents) /\ Len(shown') = Len(shown) + Len(new)
      /\ \A i \in 1..(Len(shown) + Len(new)) :
           shown'[i] = IF i <= Len(shown) THEN shown[i] ELSE new[i - Len(shown)]
  BY FeedNumbers, ConcatProperties
<1> SUFFICES ASSUME ~behind
             PROVE  /\ \A i \in 1..Len(shown') : /\ shown'[i] <= pushed
                                                 /\ shown'[i] <= pushed - nextId + Tip
                    /\ \A i, j \in 1..Len(shown') : i < j => shown'[i] < shown'[j]
  BY <1>2
<1>3. ASSUME NEW i \in 1..Len(shown')
      PROVE  \/ i \in 1..Len(shown) /\ shown'[i] = shown[i]
             \/ /\ i > Len(shown) /\ i - Len(shown) \in 1..Len(reply)
                /\ shown'[i] = reply[i - Len(shown)].serial
  <2>1. CASE i <= Len(shown)
    BY <1>1, <1>2, <1>3, <2>1
  <2>2. CASE i > Len(shown)
    <3>1. i - Len(shown) \in 1..Len(new) /\ shown'[i] = new[i - Len(shown)]
      BY <1>1, <1>2, <1>3, <2>2
    <3> QED
      BY <1>1, <2>2, <3>1
  <2> QED
    BY <1>1, <1>3, <2>1, <2>2
<1>4. ASSUME NEW i \in 1..Len(shown')
      PROVE  shown'[i] <= pushed /\ shown'[i] <= pushed - nextId + Tip
  <2>1. CASE i \in 1..Len(shown) /\ shown'[i] = shown[i]
    BY <2>1 DEF FeedInv, ShownInv
  <2>2. ASSUME NEW k \in 1..Len(reply), shown'[i] = reply[k].serial
        PROVE  shown'[i] <= pushed /\ shown'[i] <= pushed - nextId + Tip
    BY <2>2, TipMoves DEF FeedInv, ReplyInv
  <2> QED
    BY <1>3, <1>4, <2>1, <2>2
<1>5. ASSUME NEW i \in 1..Len(shown'), NEW j \in 1..Len(shown'), i < j
      PROVE  shown'[i] < shown'[j]
  <2>1. CASE i \in 1..Len(shown) /\ j \in 1..Len(shown)
    <3>1. shown'[i] = shown[i] /\ shown'[j] = shown[j]
      BY <1>1, <1>3, <2>1
    <3> QED
      BY <1>5, <2>1, <3>1 DEF FeedInv, ShownInv
  <2>2. CASE i \in 1..Len(shown) /\ j > Len(shown)
    <3>1. shown'[i] = shown[i]
      BY <1>1, <1>3, <2>2
    <3>2. j - Len(shown) \in 1..Len(reply) /\ shown'[j] = reply[j - Len(shown)].serial
      BY <1>1, <1>3, <2>2
    <3> QED
      BY <2>2, <3>1, <3>2 DEF FeedInv, ShownInv
  <2>3. CASE i > Len(shown)
    <3>1. i - Len(shown) \in 1..Len(reply) /\ shown'[i] = reply[i - Len(shown)].serial
      BY <1>1, <1>3, <2>3
    <3>2. j > Len(shown)
      BY <1>1, <1>5, <2>3
    <3>3. j - Len(shown) \in 1..Len(reply) /\ shown'[j] = reply[j - Len(shown)].serial
      BY <1>1, <1>3, <3>2
    <3>4. i - Len(shown) < j - Len(shown)
      BY <1>1, <1>5
    <3> QED
      BY <3>1, <3>3, <3>4 DEF FeedInv, ReplyInv
  <2> QED
    BY <1>1, <2>1, <2>2, <2>3
<1> QED
  BY <1>4, <1>5

\* Showing what a poll brought appends it to what was shown, and the cursor goes along.
LEMMA PollShowStep ==
  ASSUME FeedInv, PollShow
  PROVE  FeedInv'
<1> DEFINE new == Serials(reply)
<1>1. Tip \in 0..MaxEvents /\ last <= Tip /\ reply # NONE /\ primed
  BY TipMoves DEF PollShow
<1>2. last' = Tip /\ cursor' \in {Tip, cursor, 0}
  BY DEF PollShow, SaveCursor, Tip
<1>3. /\ UNCHANGED <<nextId, items, pushed, epoch, due, met, primed, behind>> /\ reply' = NONE
      /\ shown' = shown \o new
      /\ gone' = (gone \ {new[i] : i \in DOMAIN new}) \cup {new[i] : i \in 1..(Len(new) - 1)}
  BY DEF PollShow, daemon, Draw
<1>4. /\ new \in Seq(1..MaxEvents) /\ Len(new) = Len(reply)
      /\ \A i \in 1..Len(reply) : new[i] = reply[i].serial
  BY <1>1, FeedNumbers, SerialsType
<1> HIDE DEF new
<1>5. Len(reply) \in Nat /\ \A i \in 1..Len(new) : new[i] \in 1..MaxEvents
  BY <1>1, <1>4, FeedNumbers, ElementOfSeq
<1>6. gone' \subseteq 1..MaxEvents
  <2>1. gone \subseteq 1..MaxEvents /\ 1..(Len(new) - 1) \subseteq 1..Len(new)
    BY <1>4, <1>5 DEF FeedInv, TypeOK
  <2>2. \A i \in 1..(Len(new) - 1) : new[i] \in 1..MaxEvents
    BY <1>5, <2>1
  <2> QED
    BY <1>3, <2>1, <2>2
<1>7. cursor' \in 0..MaxEvents /\ cursor' <= last'
  BY <1>1, <1>2, FeedNumbers DEF FeedInv, TypeOK
<1>8. /\ shown' \in Seq(1..MaxEvents)
      /\ ~behind => \A i \in 1..Len(shown') : /\ shown'[i] <= pushed
                                              /\ shown'[i] <= pushed - nextId + Tip
      /\ ~behind => \A i, j \in 1..Len(shown') : i < j => shown'[i] < shown'[j]
  <2>1. Len(new) <= Len(reply) /\ \A i \in 1..Len(new) : new[i] = reply[i].serial
    BY <1>4, <1>5
  <2> QED
    BY <1>1, <1>3, <1>4, <2>1, ToastsAdded
<1>9. TypeOK' /\ RingInv' /\ ReplyInv'
  BY <1>1, <1>2, <1>3, <1>6, <1>7, <1>8 DEF FeedInv, TypeOK, RingInv, ReplyInv
<1>10. ~behind' => ShownInv'
  BY <1>1, <1>2, <1>3, <1>8 DEF ShownInv
<1> QED
  BY <1>1, <1>3, <1>7, <1>9, <1>10 DEF FeedInv

\* A shell that starts again is at its predecessor's last toast, has no base line, or is
\* `behind` from then on.
LEMMA ShellStep ==
  ASSUME FeedInv, ShellRestart \/ ShellDies
  PROVE  FeedInv'
<1>0. cursor \in 0..MaxEvents /\ last \in Nat /\ cursor <= last
  BY FeedNumbers DEF FeedInv, TypeOK
<1>1. /\ UNCHANGED <<nextId, items, pushed, epoch>>
      /\ reply' = NONE /\ met' = FALSE
      /\ last' = cursor' /\ primed' = (cursor' # 0)
      /\ cursor' \in {cursor, 0}
  BY DEF ShellRestart, ShellDies, ShellStarts, daemon
<1>2. due' \subseteq 1..MaxEvents
  BY DEF ShellRestart, ShellDies, ShellStarts, FeedInv, TypeOK
<1>3. cursor' \in 0..MaxEvents /\ cursor' <= last' /\ (~primed' => last' = 0)
  <2>1. ~primed' => last' = 0
    BY <1>1, Zenon
  <2>2. cursor' \in 0..MaxEvents /\ cursor' <= last'
    <3>1. last' = cursor' /\ cursor' \in {cursor, 0}
      BY <1>1
    <3> QED
      BY <1>0, <3>1
  <2> QED
    BY <2>1, <2>2
<1>4. RingInv' /\ ReplyInv'
  BY <1>1 DEF FeedInv, RingInv, ReplyInv
<1>5. ASSUME shown' \in Seq(1..MaxEvents), gone' \subseteq 1..MaxEvents, behind' \in BOOLEAN
      PROVE  TypeOK'
  BY <1>1, <1>2, <1>3, <1>5 DEF FeedInv, TypeOK
<1>6. CASE ShellRestart
  <2>1. UNCHANGED <<cursor, shown, gone>> /\ behind' = (behind \/ cursor \notin {0, last})
    BY <1>6 DEF ShellRestart
  <2>2. TypeOK'
    BY <1>5, <2>1 DEF FeedInv, TypeOK
  <2>3. ASSUME ~behind' PROVE ShownInv'
    <3>1. ~behind /\ cursor \in {0, last}
      BY <2>1, <2>3
    <3>2. CASE cursor = 0
      <4>1. ~primed'
        BY <1>1, <2>1, <3>2
      <4> QED
        BY <1>1, <2>1, <3>1, <4>1 DEF FeedInv, ShownInv
    <3>3. CASE cursor # 0
      <4>1. primed /\ last' = last
        BY <1>0, <1>1, <2>1, <3>1, <3>3 DEF FeedInv
      <4> QED
        BY <1>1, <2>1, <3>1, <4>1 DEF FeedInv, ShownInv
    <3> QED
      BY <3>2, <3>3
  <2> QED
    BY <1>3, <1>4, <2>2, <2>3 DEF FeedInv
<1>7. CASE ShellDies
  <2>1. PICK k \in 1..Len(reply) :
          LET toasts == SubSeq(Serials(reply), 1, k)
          IN shown' = shown \o toasts /\ gone' = gone \cup {toasts[i] : i \in DOMAIN toasts}
    BY <1>7 DEF ShellDies
  <2> DEFINE toasts == SubSeq(Serials(reply), 1, k)
  <2>2. /\ reply # NONE /\ primed /\ ~behind /\ behind' = (cursor' # 0)
        /\ Serials(reply) \in Seq(1..MaxEvents) /\ Len(Serials(reply)) = Len(reply)
        /\ \A i \in 1..Len(reply) : Serials(reply)[i] = reply[i].serial
        /\ Len(reply) \in Nat
    BY <1>7, FeedNumbers, SerialsType DEF ShellDies
  <2>3. k \in Int /\ \A i \in 1..k : Serials(reply)[i] \in 1..MaxEvents
    BY <2>2, ElementOfSeq
  <2>4. /\ toasts \in Seq(1..MaxEvents) /\ Len(toasts) = k
        /\ \A i \in 1..k : toasts[i] = Serials(reply)[i]
    BY <2>2, <2>3, SubSeqProperties
  <2>5. shown' = shown \o toasts /\ gone' = gone \cup {toasts[i] : i \in DOMAIN toasts}
    BY <2>1
  <2> HIDE DEF toasts
  <2>6. Len(toasts) <= Len(reply) /\ \A i \in 1..Len(toasts) : toasts[i] = reply[i].serial
    BY <2>2, <2>4
  <2>7. /\ shown' \in Seq(1..MaxEvents)
        /\ \A i \in 1..Len(shown') : shown'[i] <= pushed
        /\ \A i, j \in 1..Len(shown') : i < j => shown'[i] < shown'[j]
    BY <2>2, <2>4, <2>5, <2>6, ToastsAdded
  <2>8. gone' \subseteq 1..MaxEvents
    <3>1. \A i \in DOMAIN toasts : toasts[i] \in 1..MaxEvents
      BY <2>4, LenProperties, ElementOfSeq
    <3> QED
      BY <2>5, <3>1 DEF FeedInv, TypeOK
  <2>9. TypeOK'
    BY <1>5, <2>2, <2>7, <2>8
  <2>10. ASSUME ~behind' PROVE ShownInv'
    <3>1. ~primed'
      BY <1>1, <2>2, <2>10
    <3> QED
      BY <1>1, <2>7, <3>1 DEF ShownInv
  <2> QED
    BY <1>3, <1>4, <2>9, <2>10 DEF FeedInv
<1> QED
  BY <1>6, <1>7

\* Every step of the feed and the shell keeps the invariant.
LEMMA FeedStep == FeedInv /\ [Next]_vars => FeedInv'
<1>1. FeedInv /\ UNCHANGED vars => FeedInv'
  BY DEF vars, FeedInv, TypeOK, RingInv, ReplyInv, ShownInv, Tip
<1> QED
  BY <1>1, DaemonStep, PollAskStep, PollPrimeStep, PollShowStep, ShellStep DEF Next

\* The empty feed.
LEMMA FeedStart == Init => FeedInv
<1> SUFFICES ASSUME Init PROVE FeedInv
  OBVIOUS
<1>1. /\ items = <<>> /\ Len(items) = 0 /\ items \in Seq(Event)
      /\ shown = <<>> /\ Len(shown) = 0 /\ shown \in Seq(1..MaxEvents)
  BY DEF Init
<1>2. TypeOK
  <2>1. primed \in BOOLEAN /\ met \in BOOLEAN /\ behind \in BOOLEAN
    BY DEF Init
  <2>2. /\ nextId \in 0..MaxEvents /\ last \in 0..MaxEvents /\ cursor \in 0..MaxEvents
        /\ pushed \in 0..MaxEvents /\ epoch \in 0..MaxEpoch /\ Len(items) <= Cap
    BY <1>1 DEF Init
  <2>3. reply = NONE /\ due = {} /\ gone = {}
    BY DEF Init
  <2> QED
    BY <1>1, <2>1, <2>2, <2>3 DEF TypeOK
<1> QED
  BY <1>1, <1>2 DEF Init, FeedInv, RingInv, ReplyInv, ShownInv

\* The invariant says what ShownOnceInOrder says.
LEMMA FeedInvSuffices == FeedInv => ShownOnceInOrder
<1> SUFFICES ASSUME FeedInv PROVE ShownOnceInOrder
  OBVIOUS
<1>1. DOMAIN shown = 1..Len(shown)
  BY FeedNumbers, LenProperties
<1> QED
  BY <1>1 DEF FeedInv, ShownInv, ShownOnceInOrder

\* Toasts come once and in order, for every capacity of the ring and any number of
\* restarts of the daemon and of the shell, with a cursor file whose writes may fail or
\* empty it, until a shell starts from a cursor older than its predecessor's last toast.
THEOREM ToastsOnceInOrder == NoticesSpec => []ShownOnceInOrder
<1>1. NoticesInit => FeedInv
  BY FeedStart DEF NoticesInit
<1>2. FeedInv /\ [NoticesNext]_<<vars, notices>> => FeedInv'
  BY FeedSteps, FeedStep
<1> QED
  BY <1>1, <1>2, FeedInvSuffices, PTL DEF NoticesSpec
----------------------------------------------------------------------------
(* Types of the daemon's side *)

\* The types of the calls, the queue, the grant and the sweeper.
OwnTypeOK ==
  /\ call \in [Handler -> [at : {"idle", "look", "admit", "push"}, new : BOOLEAN]]
  /\ pending \in BOOLEAN /\ told \in BOOLEAN /\ raced \in BOOLEAN /\ swept \in BOOLEAN
  /\ grant \in Nat \cup {NONE} /\ now \in 0..scene.time /\ scene \in Scenes
  /\ claims \subseteq warned /\ warned \subseteq Nat
  /\ given \in Nat /\ missed \subseteq Nat

\* The clock goes on within its bound.
LEMMA PassesType ==
  ASSUME OwnTypeOK, NEW gap, Passes(gap), scene' = scene
  PROVE  now' \in 0..scene'.time /\ swept' = FALSE /\ missed' \subseteq Nat
<1>1. scene.time \in Nat /\ now \in Nat /\ gap \in 0..(scene.time - now) /\ now' = now + gap
  BY NoticeAssumption DEF OwnTypeOK, Passes
<1>2. now..(now + gap - 1) \subseteq Nat
  BY <1>1
<1>3. missed' \subseteq Nat
  BY <1>2 DEF OwnTypeOK, Passes
<1> QED
  BY <1>1, <1>3 DEF OwnTypeOK, Passes

\* Every step keeps them; a warning the sweeper claimed is one it has given.
LEMMA OwnTypeStep == OwnTypeOK /\ [NoticesNext]_<<vars, notices>> => OwnTypeOK'
<1> SUFFICES ASSUME OwnTypeOK, [NoticesNext]_<<vars, notices>> PROVE OwnTypeOK'
  OBVIOUS
<1>1. ASSUME NEW h \in Handler, ReqCheckGrant(h) PROVE OwnTypeOK'
  BY <1>1 DEF ReqCheckGrant, OwnTypeOK
<1>2. ASSUME NEW h \in Handler, ReqLook(h) PROVE OwnTypeOK'
  BY <1>2 DEF ReqLook, OwnTypeOK
<1>3. ASSUME NEW h \in Handler, ReqAdmit(h) PROVE OwnTypeOK'
  <2>1. Idle \in [at : {"idle", "look", "admit", "push"}, new : BOOLEAN]
    BY DEF Idle
  <2>2. call' \in [Handler -> [at : {"idle", "look", "admit", "push"}, new : BOOLEAN]]
    BY <1>3, <2>1 DEF ReqAdmit, OwnTypeOK
  <2>3. pending' \in BOOLEAN
    BY <1>3 DEF ReqAdmit
  <2> QED
    BY <1>3, <2>2, <2>3 DEF ReqAdmit, OwnTypeOK
<1>4. ASSUME NEW h \in Handler, ReqPush(h) PROVE OwnTypeOK'
  BY <1>4 DEF ReqPush, OwnTypeOK, Idle
<1>5. CASE Leaves
  <2>1. grant' \in Nat \cup {NONE}
    BY <1>5, NoticeAssumption DEF Leaves, OwnTypeOK
  <2>2. raced' \in BOOLEAN
    BY <1>5 DEF Leaves
  <2>3. given' \in Nat
    BY <1>5 DEF Leaves, OwnTypeOK
  <2> QED
    BY <1>5, <2>1, <2>2, <2>3 DEF Leaves, OwnTypeOK
<1>6. CASE RevokeGrant
  BY <1>6 DEF RevokeGrant, OwnTypeOK
<1>7. CASE Sweep
  <2>1. grant' \in Nat \cup {NONE}
    BY <1>7 DEF Sweep, OwnTypeOK
  <2>2. claims' \subseteq warned' /\ warned' \subseteq Nat
    BY <1>7 DEF Sweep, Expiring, OwnTypeOK
  <2> QED
    BY <1>7, <2>1, <2>2 DEF Sweep, OwnTypeOK
<1>8. CASE Tick
  <2>1. now' \in 0..scene'.time /\ swept' = FALSE /\ missed' \subseteq Nat
    BY <1>8, PassesType DEF Tick
  <2> QED
    BY <1>8, <2>1 DEF Tick, OwnTypeOK
<1>9. CASE Restart
  <2>1. now' \in 0..scene'.time /\ swept' = FALSE /\ missed' \subseteq Nat
    BY <1>9, PassesType DEF Restart
  <2> QED
    BY <1>9, <2>1 DEF Restart, OwnTypeOK, Idle
<1>10. CASE UNCHANGED notices
  BY <1>10 DEF notices, OwnTypeOK
<1> QED
  BY <1>1, <1>2, <1>3, <1>4, <1>5, <1>6, <1>7, <1>8, <1>9, <1>10
  DEF NoticesNext, Elsewhere

\* Type correctness of the feed, the poller and the daemon's side together.
THEOREM NoticesTypeCorrect == NoticesSpec => []NoticesOK
<1>1. NoticesInit => FeedInv /\ OwnTypeOK
  <2> SUFFICES ASSUME NoticesInit PROVE OwnTypeOK
    BY FeedStart DEF NoticesInit
  <2>1. scene.time \in Nat
    BY NoticeAssumption DEF NoticesInit
  <2> QED
    <3>1. call \in [Handler -> [at : {"idle", "look", "admit", "push"}, new : BOOLEAN]]
      BY DEF NoticesInit, Idle
    <3>2. now \in 0..scene.time
      BY <2>1 DEF NoticesInit
    <3>3. pending \in BOOLEAN /\ told \in BOOLEAN /\ raced \in BOOLEAN /\ swept \in BOOLEAN
      BY DEF NoticesInit
    <3> QED
      BY <3>1, <3>2, <3>3 DEF NoticesInit, OwnTypeOK
<1>2. FeedInv /\ [NoticesNext]_<<vars, notices>> => FeedInv'
  BY FeedSteps, FeedStep
<1>3. FeedInv /\ OwnTypeOK => NoticesOK
  BY DEF FeedInv, OwnTypeOK, NoticesOK
<1> QED
  BY <1>1, <1>2, <1>3, OwnTypeStep, PTL DEF NoticesSpec

----------------------------------------------------------------------------
(* A waiting request *)

\* The strengthening PendingIsAnnounced needs: a call that saw the request in the
\* queue and now finds it gone is one that was overtaken.
RaceInv ==
  ~pending /\ (\E h \in Handler : call[h].at = "admit" /\ ~call[h].new) => raced

\* Every step keeps both; admit_pending is where they meet.
LEMMA AnnounceStep ==
  /\ OwnTypeOK /\ RaceInv /\ PendingIsAnnounced /\ [NoticesNext]_<<vars, notices>>
  => RaceInv' /\ PendingIsAnnounced'
<1> SUFFICES ASSUME OwnTypeOK, RaceInv, PendingIsAnnounced, [NoticesNext]_<<vars, notices>>
             PROVE  RaceInv' /\ PendingIsAnnounced'
  OBVIOUS
<1>1. ASSUME UNCHANGED <<call, pending, told, raced>> PROVE RaceInv' /\ PendingIsAnnounced'
  BY <1>1 DEF RaceInv, PendingIsAnnounced
<1>2. ASSUME NEW h \in Handler, ReqCheckGrant(h) PROVE RaceInv' /\ PendingIsAnnounced'
  <2>1. /\ UNCHANGED <<pending, told, raced>> /\ call[h].at = "idle" /\ call'[h].at = "look"
        /\ \A g \in Handler \ {h} : call'[g] = call[g]
    BY <1>2 DEF ReqCheckGrant, OwnTypeOK
  <2> QED
    BY <2>1 DEF RaceInv, PendingIsAnnounced
<1>3. ASSUME NEW h \in Handler, ReqLook(h) PROVE RaceInv' /\ PendingIsAnnounced'
  <2>1. /\ UNCHANGED <<pending, told, raced>> /\ call[h].at = "look"
        /\ call'[h].at = "admit" /\ call'[h].new = ~pending
        /\ \A g \in Handler \ {h} : call'[g] = call[g]
    BY <1>3 DEF ReqLook, OwnTypeOK
  <2> QED
    BY <2>1 DEF RaceInv, PendingIsAnnounced
<1>4. ASSUME NEW h \in Handler, ReqAdmit(h) PROVE RaceInv' /\ PendingIsAnnounced'
  <2>1. /\ UNCHANGED <<told, raced>> /\ call[h].at = "admit"
        /\ \A g \in Handler \ {h} : call'[g] = call[g]
    BY <1>4 DEF ReqAdmit, OwnTypeOK
  <2>2. CASE pending' = TRUE /\ call[h].new /\ call'[h] = [call[h] EXCEPT !.at = "push"]
    <3>1. call'[h].at = "push"
      BY <2>2 DEF OwnTypeOK
    <3> QED
      BY <2>2, <3>1 DEF RaceInv, PendingIsAnnounced
  <2>3. CASE pending' = TRUE /\ ~call[h].new
    <3>1. pending \/ raced
      BY <2>1, <2>3 DEF RaceInv
    <3> QED
      BY <2>1, <2>3, <3>1 DEF RaceInv, PendingIsAnnounced
  <2>4. CASE ~pending /\ pending' = FALSE /\ call'[h] = Idle
    BY <2>1, <2>4 DEF RaceInv, PendingIsAnnounced, Idle
  <2> QED
    BY <1>4, <2>2, <2>3, <2>4 DEF ReqAdmit, OwnTypeOK
<1>5. ASSUME NEW h \in Handler, ReqPush(h) PROVE RaceInv' /\ PendingIsAnnounced'
  <2>1. /\ UNCHANGED <<pending, raced>> /\ told' = TRUE /\ call'[h].at = "idle"
        /\ \A g \in Handler \ {h} : call'[g] = call[g]
    BY <1>5 DEF ReqPush, OwnTypeOK, Idle
  <2> QED
    BY <2>1 DEF RaceInv, PendingIsAnnounced
<1>6. CASE Leaves
  BY <1>6 DEF Leaves, RaceInv, PendingIsAnnounced
<1>7. CASE Restart
  BY <1>7 DEF Restart, RaceInv, PendingIsAnnounced, Idle
<1> QED
  BY <1>1, <1>2, <1>3, <1>4, <1>5, <1>6, <1>7
  DEF NoticesNext, notices, RevokeGrant, Sweep, Tick, Elsewhere

\* However many calls of a requester overlap, a request that waits has been
\* announced or is about to be, unless a decision came between a call's look and
\* its admission.
THEOREM PendingAnnounced == NoticesSpec => []PendingIsAnnounced
<1>1. NoticesInit => RaceInv /\ PendingIsAnnounced
  BY DEF NoticesInit, RaceInv, PendingIsAnnounced, Idle
<1>2. NoticesOK => OwnTypeOK
  BY DEF NoticesOK, OwnTypeOK
<1> QED
  BY <1>1, <1>2, AnnounceStep, NoticesTypeCorrect, PTL DEF NoticesSpec

----------------------------------------------------------------------------
(* A grant that lapses *)

\* The owner has been warned of a grant whose last day has begun, or every interval of
\* that day so far, after the one in which access was given, passed without a tick.
WarnedInv ==
  grant \notin {NONE, 0} =>
    \/ grant \in warned
    \/ \A t \in (given + 1)..(grant - 1) :
         grant - t <= Soon /\ (t < now \/ (t = now /\ swept)) => t \in missed

\* The sweeper's tick warns, or the last day has not begun, or it has passed.
LEMMA SweepWarns ==
  ASSUME OwnTypeOK, Sweep, grant' \notin {NONE, 0}
  PROVE  grant' = grant /\ (grant' \in warned' \/ grant - now > Soon)
<1>1. /\ grant' = grant /\ Live /\ warned \subseteq warned' /\ grant # NONE /\ grant # 0
  BY DEF Sweep
<1>2. grant \in Nat /\ now \in Nat /\ grant > now
  BY <1>1 DEF Live, OwnTypeOK
<1>3. CASE Expiring /\ ClaimExpiry(grant)
  BY <1>1, <1>3 DEF Sweep
<1>4. CASE Expiring /\ ~ClaimExpiry(grant)
  BY <1>1, <1>4 DEF ClaimExpiry, OwnTypeOK
<1>5. CASE ~Expiring
  BY <1>1, <1>2, <1>5, NoticeAssumption DEF Expiring
<1> QED
  BY <1>1, <1>3, <1>4, <1>5

\* Every step keeps it: an interval that ends without a tick is counted.
LEMMA WarnedStep ==
  OwnTypeOK /\ WarnedInv /\ [NoticesNext]_<<vars, notices>> => WarnedInv'
<1> SUFFICES ASSUME OwnTypeOK, WarnedInv, [NoticesNext]_<<vars, notices>> PROVE WarnedInv'
  OBVIOUS
<1>0. now \in Nat /\ given \in Nat /\ (grant # NONE => grant \in Nat)
  BY DEF OwnTypeOK
<1>1. ASSUME UNCHANGED <<grant, given, now, swept, warned, missed>> PROVE WarnedInv'
  BY <1>1 DEF WarnedInv
<1>2. CASE Leaves
  <2>1. CASE UNCHANGED <<grant, given>>
    BY <1>1, <1>2, <2>1 DEF Leaves
  <2>2. CASE given' = now
    <3>1. now' = now
      BY <1>2 DEF Leaves
    <3>2. \A t \in (given' + 1)..(grant' - 1) : ~(t < now') /\ t # now'
      BY <1>0, <2>2, <3>1
    <3> QED
      BY <3>2 DEF WarnedInv
  <2> QED
    BY <1>2, <2>1, <2>2 DEF Leaves
<1>3. CASE RevokeGrant
  BY <1>3 DEF RevokeGrant, WarnedInv
<1>4. CASE Sweep
  <2> SUFFICES ASSUME grant' \notin {NONE, 0}, grant' \notin warned',
                      NEW t \in (given' + 1)..(grant' - 1), grant' - t <= Soon,
                      t < now' \/ (t = now' /\ swept')
               PROVE  t \in missed'
    BY DEF WarnedInv
  <2>1. UNCHANGED <<now, given, missed>> /\ warned \subseteq warned'
    BY <1>4 DEF Sweep
  <2>2. grant' = grant /\ grant - now > Soon
    BY <1>4, SweepWarns
  <2>3. grant \in Nat /\ t \in Int
    BY <1>0, <2>2
  <2>4. t < now
    BY <1>0, <2>1, <2>2, <2>3, NoticeAssumption
  <2>5. t \in (given + 1)..(grant - 1) /\ grant - t <= Soon /\ grant \notin warned
        /\ grant \notin {NONE, 0}
    BY <2>1, <2>2
  <2> QED
    BY <2>1, <2>4, <2>5 DEF WarnedInv
<1>5. ASSUME NEW gap, Passes(gap), UNCHANGED <<grant, given, warned>> PROVE WarnedInv'
  <2> SUFFICES ASSUME grant \notin {NONE, 0}, grant \notin warned,
                      NEW t \in (given + 1)..(grant - 1), grant - t <= Soon,
                      t < now' \/ (t = now' /\ swept')
               PROVE  t \in missed'
    BY <1>5 DEF WarnedInv
  <2>1. /\ gap \in Nat /\ now' = now + gap /\ swept' = FALSE /\ t \in Nat
        /\ missed' = missed \cup {u \in now..(now + gap - 1) : u = now => ~swept}
    <3>1. grant \in Nat
      BY <1>0
    <3>2. t \in Nat
      BY <1>0, <3>1
    <3>3. gap \in Nat
      BY <1>5, NoticeAssumption DEF Passes, OwnTypeOK
    <3> QED
      BY <1>5, <3>2, <3>3 DEF Passes
  <2>2. t < now + gap
    BY <2>1
  <2>3. CASE t < now \/ (t = now /\ swept)
    BY <2>1, <2>3 DEF WarnedInv
  <2>4. CASE t >= now /\ ~(t = now /\ swept)
    <3>1. t \in now..(now + gap - 1)
      BY <1>0, <2>1, <2>2, <2>4
    <3> QED
      BY <2>1, <2>4, <3>1
  <2> QED
    BY <1>0, <2>1, <2>3, <2>4
<1>6. CASE Tick
  BY <1>5, <1>6 DEF Tick
<1>7. CASE Restart
  BY <1>5, <1>7 DEF Restart
<1> QED
  BY <1>1, <1>2, <1>3, <1>4, <1>6, <1>7
  DEF NoticesNext, notices, ReqCheckGrant, ReqLook, ReqAdmit, ReqPush, Elsewhere

\* The sweeper prunes no grant the owner was not warned of, for all granting periods and
\* any number of grants one after the other, unless the daemon was off or the PC asleep
\* in every interval of the grant's last day after the one in which it was given.
THEOREM LapsesAreAnnounced == NoticesSpec => NoSilentLapse
<1>1. NoticesInit => WarnedInv
  BY DEF NoticesInit, WarnedInv
<1> DEFINE Unseen == \A t \in (given + 1)..(grant - 1) : grant - t <= Soon => t \in missed
<1>2. OwnTypeOK /\ WarnedInv /\ [NoticesNext]_<<vars, notices>>
        => [~swept /\ swept' /\ grant # NONE /\ grant' = NONE
              => grant \in warned \/ Unseen]_<<vars, notices>>
  <2> SUFFICES ASSUME OwnTypeOK, WarnedInv, [NoticesNext]_<<vars, notices>>,
                      ~swept, swept', grant # NONE, grant' = NONE
               PROVE  grant \in warned \/ Unseen
    OBVIOUS
  <2>1. Sweep
    BY DEF NoticesNext, notices, ReqCheckGrant, ReqLook, ReqAdmit, ReqPush, Leaves,
           RevokeGrant, Tick, Restart, Passes, Elsewhere
  <2>2. grant # 0 /\ ~(grant > now)
    BY <2>1 DEF Sweep, Live
  <2>3. grant <= now /\ grant \in Nat /\ now \in Nat /\ given \in Nat
    BY <2>2 DEF OwnTypeOK
  <2>4. \A t \in (given + 1)..(grant - 1) : t < now
    BY <2>3
  <2> QED
    BY <2>2, <2>4 DEF WarnedInv
<1>3. NoticesOK => OwnTypeOK
  BY DEF NoticesOK, OwnTypeOK
<1> QED
  BY <1>1, <1>2, <1>3, WarnedStep, NoticesTypeCorrect, PTL DEF NoticesSpec, NoSilentLapse
============================================================================
