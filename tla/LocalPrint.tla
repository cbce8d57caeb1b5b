----------------------------- MODULE LocalPrint -----------------------------
(***************************************************************************)
(* Printing for a peer through the PrintLink agent of this PC              *)
(* (local_print.rs, server.rs: print_via_local).  A job first gets a token *)
(* (ensure_paired), then sends the file (submit_job); each of the two      *)
(* tries the agent's ports in turn.  Jobs run side by side and share one   *)
(* stored token.  The peer forwards the file (admin.rs:                    *)
(* print_on_peer_admin, proxy.rs: print_on_peer) and waits for the answer. *)
(*                                                                         *)
(* The agent is external: on each port some installation of it, known by   *)
(* its certificate, may listen.  It hands out tokens for a number of days, *)
(* may revoke them, and prints what comes with a good one.  Time is        *)
(* counted in days; deadlines travel as calendar dates.                    *)
(***************************************************************************)
EXTENDS Calendar, Sequences, FiniteSets

CONSTANTS
  Job,         \* print requests
  Cert,        \* certificates of PrintLink installations
  NONE,
  Ports,       \* ports_to_try: 1 is the configured port
  ShareDays,   \* the days a token is asked for
  Start,       \* dates the history may start at
  MaxTokens,   \* bound on tokens the agents hand out
  MaxChanges,  \* bound on changes of the agents
  MaxDays      \* bound on the days that pass

ASSUME PrintAssumption ==
  /\ Ports \in Nat \ {0} /\ ShareDays \in Nat \ {0}
  /\ MaxTokens \in Nat /\ MaxChanges \in Nat /\ MaxDays \in Nat
  /\ NONE \notin Cert \cup {"ok", "error"}
  /\ \A s \in Start :                         \* days_since_epoch ends with 2100
       ValidDate(s) /\ DayNumber(s) + MaxDays + ShareDays <= DayNumber(<<2100, 12, 31>>)

VARIABLES
  day,       \* days passed
  start,     \* the member of Start this history began at
  serving,   \* the installation that listens on each port
  issued,    \* the agents' tokens: installation, deadline (in days passed)
  revoked,   \* tokens revoked by the agent's user
  stored,    \* LocalPrintFile.token in memory
  saved,     \* the same on disk
  job,       \* the requests in progress
  printed,   \* observation: how often each job came out of a printer
  changes    \* observation: changes of the agents so far

vars == <<day, start, serving, issued, revoked, stored, saved, job, printed, changes>>

agents == <<serving, issued, revoked, changes>>

Today == DateAfter(start, day)

Now == DayNumber(start) + day

NewJob == [at |-> "new", port |-> 1, fp |-> NONE, pin |-> NONE, tok |-> NONE,
           told |-> NONE, clean |-> TRUE, lost |-> FALSE, due |-> FALSE]

Token == [id : 1..MaxTokens, pin : Cert,
          expires : {DateAfter(s, k) : s \in Start, k \in 0..(MaxDays + ShareDays)}]

ASSUME TokenAssumption == NONE \notin Token

JobState == [at : {"new", "asked", "list", "share", "challenge", "post",
                   "printed", "failed", "refused", "dropped"},
             port : 1..Ports, fp : Cert \cup {NONE}, pin : Cert \cup {NONE},
             tok : Token \cup {NONE}, told : {NONE, "ok", "error"},
             clean : BOOLEAN, lost : BOOLEAN, due : BOOLEAN]

TypeOK ==
  /\ day \in 0..MaxDays /\ start \in Start
  /\ serving \in [1..Ports -> Cert \cup {NONE}]
  /\ issued \in Seq([cert : Cert, until : 0..(MaxDays + ShareDays)]) /\ Len(issued) <= MaxTokens
  /\ revoked \subseteq DOMAIN issued
  /\ stored \in Token \cup {NONE} /\ saved \in Token \cup {NONE}
  /\ job \in [Job -> JobState]
  /\ \A j \in Job : job[j].at \in {"challenge", "post", "printed"} => job[j].tok # NONE
  /\ printed \in [Job -> 0..Ports]
  /\ changes \in 0..MaxChanges

Init ==
  /\ day = 0 /\ start \in Start
  /\ serving \in [1..Ports -> Cert \cup {NONE}]
  /\ issued = <<>> /\ revoked = {}
  /\ stored = NONE /\ saved = NONE
  /\ job = [j \in Job |-> NewJob]
  /\ printed = [j \in Job |-> 0]
  /\ changes = 0

----------------------------------------------------------------------------
(* The token *)

\* Mutant of IsExpired: the deadline itself still counts as in date.
IsExpiredAfter(t) == DaysSinceEpoch(t.expires) < Now

\* is_expired: a date that cannot be parsed is expired, and so is one that is now.
IsExpired(t) == ~InRange(t.expires) \/ DaysSinceEpoch(t.expires) <= Now

\* The agent takes the token: it issued it, and it is neither over nor revoked.
GoodAt(id, c) == issued[id].cert = c /\ day < issued[id].until /\ id \notin revoked

\* Something listens that can serve a job, and the stored token, if it is in
\* date, is good there.
Working ==
  IF stored = NONE THEN \E p \in 1..Ports : serving[p] # NONE
  ELSE /\ \E p \in 1..Ports : serving[p] = stored.pin
       /\ day < issued[stored.id].until => GoodAt(stored.id, stored.pin)

\* print_on_peer_admin: the file is fetched and forwarded, unless it cannot be had,
\* is too large or the target is not known.
Forward(j) ==
  /\ job[j].at = "new"
  /\ job' \in {[job EXCEPT ![j].at = "asked"], [job EXCEPT ![j].at = "refused"]}
  /\ UNCHANGED <<day, start, agents, stored, saved, printed>>

\* print_via_local: a grant that may not print, an empty file or one too large.
Refuse(j) ==
  /\ job[j].at = "asked"
  /\ job' = [job EXCEPT ![j].at = "refused"]
  /\ UNCHANGED <<day, start, agents, stored, saved, printed>>

\* ensure_paired: the stored token if it is in date, otherwise the search for one.
EnsurePaired(j) ==
  LET kept == stored # NONE /\ ~IsExpired(stored)
  IN /\ job[j].at = "asked"
     /\ job' = [job EXCEPT ![j] = [@ EXCEPT
                  !.at = IF kept THEN "challenge" ELSE "list",
                  !.tok = IF kept THEN stored ELSE NONE,
                  !.clean = Working,
                  !.due = stored = NONE \/ day >= issued[stored.id].until]]
     /\ UNCHANGED <<day, start, agents, stored, saved, printed>>

\* The loop goes on with the next port, at the first step of the loop, or gives up.
NextPort(r, first) ==
  IF r.port < Ports THEN [r EXCEPT !.port = @ + 1, !.at = first] ELSE [r EXCEPT !.at = "failed"]

\* list_printers_on_port; the pin is the stored one, even of a token that is
\* over, or else the certificate just seen.
ListPrinters(j) ==
  LET r == job[j]
      c == serving[r.port]
      pin == IF stored = NONE THEN c ELSE stored.pin
  IN /\ r.at = "list"
     /\ \/ /\ c # NONE
           /\ job' = [job EXCEPT ![j].at = "share", ![j].fp = c, ![j].pin = pin]
        \/ /\ c = NONE
           /\ job' = [job EXCEPT ![j] = NextPort(r, "list")]
        \/ /\ c # NONE                         \* no answer, or no shared printers
           /\ job' = [job EXCEPT ![j] = NextPort([r EXCEPT !.clean = FALSE], "list")]
     /\ UNCHANGED <<day, start, agents, stored, saved, printed>>

\* The agent on the port gives a token out.
Issue(c) ==
  /\ Len(issued) < MaxTokens
  /\ issued' = Append(issued, [cert |-> c, until |-> day + ShareDays])

\* Mutant of PinHolds: the certificate of the answer is not compared.
AnyPin(c, pin) == TRUE

\* check_pin
PinHolds(c, pin) == c = pin

\* request_share_on_port; on success the token is kept, saved if the disk lets it,
\* and submit_job begins at the first port.
RequestShare(j) ==
  LET r == job[j]
      c == serving[r.port]
      tok == [id |-> Len(issued) + 1, pin |-> r.pin, expires |-> DateAfter(Today, ShareDays)]
      goOn(clean) == job' = [job EXCEPT ![j] = NextPort([r EXCEPT !.clean = @ /\ clean], "list")]
  IN /\ r.at = "share"
     /\ \/ /\ c = NONE /\ goOn(FALSE)
           /\ UNCHANGED <<issued, stored, saved>>
        \/ /\ c # NONE /\ goOn(FALSE)          \* no answer, or the user says no
           /\ UNCHANGED <<issued, stored, saved>>
        \/ /\ c # NONE /\ ~PinHolds(c, r.pin)  \* the agent answered all the same
           /\ goOn(TRUE) /\ Issue(c)
           /\ UNCHANGED <<stored, saved>>
        \/ /\ c # NONE /\ PinHolds(c, r.pin)
           /\ Cert \ {r.pin, r.fp} # {}        \* tls_fp names another certificate
           /\ goOn(FALSE) /\ Issue(c)
           /\ UNCHANGED <<stored, saved>>
        \/ /\ c # NONE /\ PinHolds(c, r.pin) /\ Issue(c)
           /\ stored' = tok
           /\ saved' \in {tok, saved}
           /\ job' = [i \in Job |->
                IF i = j THEN [r EXCEPT !.at = "challenge", !.port = 1, !.tok = tok]
                ELSE IF stored # NONE /\ stored.pin # r.pin /\ job[i].at \in {"list", "share"}
                  THEN [job[i] EXCEPT !.clean = FALSE]   \* the pin changes under it
                ELSE job[i]]
     /\ UNCHANGED <<day, start, serving, revoked, changes, printed>>

----------------------------------------------------------------------------
(* submit_job *)

\* auth_challenge_on_port
Challenge(j) ==
  LET r == job[j]
  IN /\ r.at = "challenge"
     /\ \/ /\ serving[r.port] # NONE
           /\ job' = [job EXCEPT ![j].at = "post"]
        \/ /\ serving[r.port] = NONE
           /\ job' = [job EXCEPT ![j] = NextPort(r, "challenge")]
        \/ /\ serving[r.port] # NONE           \* no answer in time
           /\ job' = [job EXCEPT ![j] = NextPort([r EXCEPT !.clean = FALSE], "challenge")]
     /\ UNCHANGED <<day, start, agents, stored, saved, printed>>

\* The certificate of the answer is looked at before its status.
AfterAnswer(r, c, good) ==
  IF ~PinHolds(c, r.tok.pin) THEN NextPort(r, "challenge")
  ELSE [r EXCEPT !.at = IF good THEN "printed" ELSE "failed"]

\* Mutant of Post: a job that went through is sent to the next port as well.
PostOnward(j) ==
  LET r == job[j]
      c == serving[r.port]
  IN /\ r.at = "post"
     /\ printed' = [printed EXCEPT ![j] = IF c # NONE /\ GoodAt(r.tok.id, c) THEN @ + 1 ELSE @]
     /\ job' = [job EXCEPT ![j] = NextPort(r, "challenge")]
     /\ UNCHANGED <<day, start, agents, stored, saved>>

\* The file goes out and is printed if the token is good; the answer may be lost
\* on the way back, and then the next port is tried.
Post(j) ==
  LET r == job[j]
      c == serving[r.port]
      good == c # NONE /\ GoodAt(r.tok.id, c)
  IN /\ r.at = "post"
     /\ \/ /\ c = NONE
           /\ job' = [job EXCEPT ![j] = NextPort([r EXCEPT !.clean = FALSE], "challenge")]
           /\ UNCHANGED printed
        \/ /\ c # NONE
           /\ printed' = [printed EXCEPT ![j] = IF good THEN @ + 1 ELSE @]
           /\ \/ job' = [job EXCEPT ![j] = AfterAnswer(r, c, good)]
              \/ job' = [job EXCEPT ![j] =
                           NextPort([r EXCEPT !.clean = FALSE, !.lost = TRUE], "challenge")]
        \/ /\ c # NONE                         \* printer offline, refused, too large
           /\ job' = [job EXCEPT ![j] = AfterAnswer([r EXCEPT !.clean = FALSE], c, FALSE)]
           /\ UNCHANGED printed
     /\ UNCHANGED <<day, start, agents, stored, saved>>

\* The answer reaches the peer, or the connection breaks first; every other end of
\* a job can only look like an error to it.
Answer(j) ==
  /\ job[j].at = "printed" /\ job[j].told = NONE
  /\ \E told \in {"ok", "error"} : job' = [job EXCEPT ![j].told = told]
  /\ UNCHANGED <<day, start, agents, stored, saved, printed>>

----------------------------------------------------------------------------
(* What happens meanwhile *)

Running == {j \in Job : job[j].at \in {"list", "share", "challenge", "post"}}

Disturbed(J) == job' = [j \in Job |-> IF j \in J THEN [job[j] EXCEPT !.clean = FALSE] ELSE job[j]]

\* PrintLink starts, stops, moves or is installed anew with another certificate.
AgentChange(p, c) ==
  /\ changes < MaxChanges /\ serving[p] # c
  /\ serving' = [serving EXCEPT ![p] = c]
  /\ changes' = changes + 1
  /\ Disturbed(Running)
  /\ UNCHANGED <<day, start, issued, revoked, stored, saved, printed>>

Revoke(id) ==
  /\ changes < MaxChanges /\ id \notin revoked
  /\ revoked' = revoked \cup {id}
  /\ changes' = changes + 1
  /\ Disturbed(Running)
  /\ UNCHANGED <<day, start, serving, issued, stored, saved, printed>>

\* A day passes; a job is disturbed if its token ends under it.
NextDay ==
  /\ day < MaxDays
  /\ day' = day + 1
  /\ Disturbed({j \in Running : job[j].tok # NONE /\ issued[job[j].tok.id].until <= day'})
  /\ UNCHANGED <<start, agents, stored, saved, printed>>

\* The daemon restarts: jobs are dropped, the token is read from the file.
Restart ==
  /\ Running # {}
  /\ stored' = saved
  /\ job' = [j \in Job |-> IF j \in Running THEN [job[j] EXCEPT !.at = "dropped"] ELSE job[j]]
  /\ UNCHANGED <<day, start, agents, saved, printed>>

Next ==
  \/ \E j \in Job :
       \/ Forward(j) \/ Refuse(j) \/ EnsurePaired(j) \/ ListPrinters(j) \/ RequestShare(j)
       \/ Challenge(j) \/ Post(j) \/ Answer(j)
  \/ \E p \in 1..Ports, c \in Cert \cup {NONE} : AgentChange(p, c)
  \/ \E id \in DOMAIN issued : Revoke(id)
  \/ NextDay
  \/ Restart

Spec == Init /\ [][Next]_vars

----------------------------------------------------------------------------
(* Properties *)

\* The stored token is one the pinned installation handed out, whichever jobs
\* paired at the same time on whichever ports (check_pin in request_share_on_port).
TokenOfPinnedAgent ==
  \A t \in {stored, saved} \ {NONE} : issued[t.id].cert = t.pin

\* A job comes out of the printer once if it went through and not at all if it
\* did not, unless an answer of the agent was lost on the way (submit_job's loop
\* over the ports and its early returns); and a peer that is told "printed" has
\* its file on paper in any case.
PrintedOnce ==
  \A j \in Job :
    /\ ~job[j].lost => printed[j] = IF job[j].at = "printed" THEN 1 ELSE 0
    /\ job[j].told = "ok" => printed[j] > 0

\* A job fails only for a reason outside DocLink: nothing worked when it began,
\* or the agents changed, were silent or said no while it ran.  A token that is
\* over, another installation on an earlier port or other jobs that pair at the
\* same time are no reasons (ensure_paired, is_expired, submit_job) - unless one
\* of them puts another installation's pin in the place of the stored one.
FailureHasACause ==
  \A j \in Job : job[j].at = "failed" => ~job[j].clean

\* A new token, and with it the agent's dialog, is asked for only by a job that
\* found none or one whose days were over (the fast path of ensure_paired and
\* the date arithmetic it rests on).
PairsOnlyWhenDue ==
  [][issued' # issued => \E j \in Job : job[j].at = "share" /\ job[j].due]_vars
============================================================================
