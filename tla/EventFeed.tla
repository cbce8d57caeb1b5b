----------------------------- MODULE EventFeed -----------------------------
(***************************************************************************)
(* The notification feed: the daemon's ring of events (events.rs), which   *)
(* pair requests, expiring grants and uploads push into, and the window    *)
(* shell that polls it every 5 s and shows a toast per event (doclink-win, *)
(* spawn_event_poller).  The two are processes of their own: the daemon    *)
(* restarts (an update, a crash) and so does the shell, which writes the   *)
(* id of the last event it showed to a cursor file and does not look       *)
(* whether that worked.  There is one card for the toasts.                 *)
(***************************************************************************)
EXTENDS Naturals, Sequences

CONSTANTS
  Cap,         \* CAP
  NONE,        \* no poll is being answered
  MaxEvents,   \* bound on events pushed
  MaxEpoch     \* bound on daemon restarts

ASSUME FeedAssumption ==
  /\ Cap \in Nat \ {0}
  /\ MaxEvents \in Nat
  /\ MaxEpoch \in Nat

VARIABLES
  nextId,   \* Events.next_id
  items,    \* Events.items; `serial` tells events of different daemons apart
  last,     \* the poller's cursor
  primed,   \* the poller has a base line
  cursor,   \* doclink-events.cursor, 0 if missing or empty
  reply,    \* the events the last poll returned, until they are handled
  shown,    \* the toasts drawn, in order
  pushed,   \* observation: the events pushed so far, and their serial numbers
  epoch,    \* observation: the daemon's restarts
  met,      \* observation: this shell has polled this daemon
  due,      \* observation: events pushed while the shell had a base line and had met
            \* the daemon, until it lost the base line
  gone,     \* observation: toasts that went as they came: the next toast of the same
            \* poll took the card, or the shell died
  behind    \* observation: a shell started from a cursor older than its
            \* predecessor's last toast

vars == <<nextId, items, last, primed, cursor, reply, shown, pushed, epoch, met, due,
          gone, behind>>

daemon == <<nextId, items, pushed, epoch>>

Event == [id : 1..MaxEvents, serial : 1..MaxEvents]

TypeOK ==
  /\ nextId \in 0..MaxEvents
  /\ items \in Seq(Event) /\ Len(items) <= Cap
  /\ last \in 0..MaxEvents /\ cursor \in 0..MaxEvents
  /\ primed \in BOOLEAN
  /\ reply = NONE \/ (reply \in Seq(Event) /\ Len(reply) <= Cap)
  /\ shown \in Seq(1..MaxEvents)
  /\ pushed \in 0..MaxEvents
  /\ epoch \in 0..MaxEpoch
  /\ met \in BOOLEAN /\ behind \in BOOLEAN
  /\ due \subseteq 1..MaxEvents /\ gone \subseteq 1..MaxEvents

Init ==
  /\ nextId = 0 /\ items = <<>>
  /\ last = 0 /\ cursor = 0 /\ primed = FALSE /\ reply = NONE
  /\ shown = <<>>
  /\ pushed = 0 /\ epoch = 0 /\ met = FALSE /\ due = {}
  /\ gone = {} /\ behind = FALSE

----------------------------------------------------------------------------

\* Events::push: the next id, and the oldest event falls out of a full ring.
Push ==
  LET all == Append(items, [id |-> nextId', serial |-> pushed'])
  IN /\ pushed < MaxEvents
     /\ pushed' = pushed + 1
     /\ nextId' = nextId + 1
     /\ items' = IF Len(all) > Cap THEN Tail(all) ELSE all
     /\ due' = IF primed /\ met THEN due \cup {pushed'} ELSE due
     /\ UNCHANGED <<last, primed, cursor, reply, shown, epoch, met, gone, behind>>

\* A new daemon counts from one again.
DaemonRestart ==
  /\ epoch < MaxEpoch
  /\ epoch' = epoch + 1
  /\ nextId' = 0 /\ items' = <<>>
  /\ met' = FALSE
  /\ UNCHANGED <<last, primed, cursor, reply, shown, pushed, due, gone, behind>>

\* Mutant of Since: the cursor's own event is sent again.
SinceIncluding(id) ==
  LET first == CHOOSE k \in 1..(Len(items) + 1) :
                 \A i \in 1..Len(items) : items[i].id >= id <=> i >= k
  IN SubSeq(items, first, Len(items))

\* Events::since, as events_since answers it: the events whose id is greater than
\* the cursor, which are the end of the ring because its ids go up.
Since(id) ==
  LET first == CHOOSE k \in 1..(Len(items) + 1) :
                 \A i \in 1..Len(items) : items[i].id > id <=> i >= k
  IN SubSeq(items, first, Len(items))

PollAsk ==
  /\ reply = NONE
  /\ reply' = Since(last) /\ met' = TRUE
  /\ UNCHANGED <<daemon, due, last, primed, cursor, shown, gone, behind>>

\* save_cursor: std::fs::write may be refused, or cut short after it emptied the file;
\* the error is dropped.
SaveCursor(id) == cursor' \in {id, cursor, 0}

\* The first poll after a launch without a cursor adopts the tip and shows nothing.
PollPrime ==
  /\ reply # NONE /\ ~primed
  /\ primed' = TRUE
  /\ last' = IF reply = <<>> THEN last ELSE reply[Len(reply)].id
  /\ IF reply = <<>> THEN UNCHANGED cursor ELSE SaveCursor(last')
  /\ reply' = NONE
  /\ UNCHANGED <<daemon, due, met, shown, gone, behind>>

Serials(es) == [i \in DOMAIN es |-> es[i].serial]

\* Toasts::show puts a toast on the one card there is, at once: of those that one poll
\* brings, only the last stays.
Draw(toasts) ==
  /\ shown' = shown \o toasts
  /\ gone' = (gone \ {toasts[i] : i \in DOMAIN toasts})
               \cup {toasts[i] : i \in 1..(Len(toasts) - 1)}

\* Mutant of PollShow: the cursor jumps to the newest event of the daemon.
PollShowJump ==
  /\ reply # NONE /\ primed
  /\ Draw(Serials(reply))
  /\ last' = nextId
  /\ IF last' # 0 THEN SaveCursor(last') ELSE UNCHANGED cursor
  /\ reply' = NONE
  /\ UNCHANGED <<daemon, due, met, primed, behind>>

\* Every later poll: a toast per event, then the cursor is saved.  (The reply
\* holds only events after `last`, in order, so the loop's test always passes.)
PollShow ==
  /\ reply # NONE /\ primed
  /\ Draw(Serials(reply))
  /\ last' = IF reply = <<>> THEN last ELSE reply[Len(reply)].id
  /\ IF last' # 0 THEN SaveCursor(last') ELSE UNCHANGED cursor
  /\ reply' = NONE
  /\ UNCHANGED <<daemon, due, met, primed, behind>>

\* A shell that starts takes its base line from the cursor file; without one,
\* the first poll will adopt whatever it finds.
ShellStarts ==
  /\ last' = cursor' /\ primed' = (cursor' # 0)
  /\ due' = IF cursor' = 0 THEN {} ELSE due
  /\ reply' = NONE /\ met' = FALSE
  /\ UNCHANGED daemon

\* The shell is closed and started again, between polls or in one; bound: from an older
\* cursor once.
ShellRestart ==
  /\ cursor \in {0, last} \/ ~behind
  /\ behind' = (behind \/ cursor \notin {0, last})
  /\ UNCHANGED <<cursor, shown, gone>>
  /\ ShellStarts

\* It dies after some toasts and before it saves the cursor, or while it does; bound: not
\* after a start from an older cursor.
ShellDies ==
  /\ reply # NONE /\ primed /\ ~behind
  /\ \E k \in 1..Len(reply) :
       LET toasts == SubSeq(Serials(reply), 1, k)
       IN /\ shown' = shown \o toasts
          /\ gone' = gone \cup {toasts[i] : i \in DOMAIN toasts}
          /\ cursor' = cursor \/ (k = Len(reply) /\ cursor' = 0)
  /\ behind' = (cursor' # 0)
  /\ ShellStarts

Next ==
  \/ Push \/ DaemonRestart
  \/ PollAsk \/ PollPrime \/ PollShow
  \/ ShellRestart \/ ShellDies

\* The poller loops for ever, and is not killed in every poll.
Fairness == WF_vars(PollAsk) /\ SF_vars(PollPrime) /\ SF_vars(PollShow)

Spec == Init /\ [][Next]_vars /\ Fairness

----------------------------------------------------------------------------
(* Properties *)

\* Toasts come in the order of the events and none comes twice, across restarts of the
\* shell and of the daemon, also when the cursor file was emptied, until a shell starts
\* from a cursor older than its predecessor's last toast: it died between its toasts and
\* the file, or the write failed (load_cursor, save_cursor, Events::since).
ShownOnceInOrder ==
  ~behind => \A i, j \in DOMAIN shown : i < j => shown[i] < shown[j]

InFeed(k) == \E i \in DOMAIN items : items[i].serial = k

Shown(k) == \E i \in DOMAIN shown : shown[i] = k

\* The toast keeps the card until another poll's toast, or its six seconds end.
Stays(k) == Shown(k) /\ k \notin gone

\* With one daemon, an event pushed after the shell's first poll gets a toast that
\* stays, or loses the card at once to the toast of a later event, which stays; unless it
\* fell out of the ring first or the shell lost its base line (Events::push and since
\* against the poller's cursor, Toasts::show).
EventIsShown ==
  \A k \in 1..MaxEvents :
    k \in due ~> \/ Stays(k)
                 \/ k \in gone /\ \E j \in (k + 1)..MaxEvents : Stays(j)
                 \/ ~InFeed(k) \/ k \notin due \/ epoch > 0

\* events.rs:6: "after a daemon restart the window re-baselines silently" - so
\* an event pushed after the shell has polled the new daemon is shown as well.
FeedResumes ==
  \A k \in 1..MaxEvents :
    k \in due ~> (Shown(k) \/ ~InFeed(k) \/ k \notin due)
============================================================================
