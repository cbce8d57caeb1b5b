------------------------------ MODULE PairSync ------------------------------
(***************************************************************************)
(* Pairing across two PCs: module Grantor's side composed with the         *)
(* requesters' side, which is the contact row each requester keeps for     *)
(* this grantor.  Three things write the row: the answer to the pair       *)
(* request (add_contact), the grantor's pushed decision (pair_decision)    *)
(* and the answer to the 30 s poll (run_pair_verifier).  Each of them is a *)
(* call over the network that may be lost or late, and what it carries is  *)
(* applied when it arrives.  Requesters and grantor restart on their own.  *)
(***************************************************************************)
EXTENDS Grantor

VARIABLES
  contact,      \* the status of the requester's contact row; NONE = no row
  contactDisk,  \* the row in doclink-contacts.json
  add,          \* the requester's add_contact call
  push,         \* pushed decisions on their way
  poll,         \* the requester's status poll
  listed,       \* the grantor is in the requester's mDNS registry
  verdicts      \* observation: the outcomes the owner has ever decided

syncVars == <<contact, contactDisk, add, push, poll, verdicts, listed>>

allVars == <<vars, syncVars>>

Outcome == {"approved", "denied"}

\* A row added by add_contact could also say "denied" or "unknown", but the
\* answer to a pair request is always one of these.
Label == {"pending", "approved", "denied"}

\* A missing row is not one that says something.
ASSUME RowAssumption == NONE \notin Label

SyncTypeOK ==
  /\ TypeOK
  /\ contact \in [Node -> Label \cup {NONE}]
  /\ contactDisk \in [Node -> Label \cup {NONE}]
  /\ add \in [Node -> {"idle", "waiting", "approved", "pending"}]
  /\ push \in SUBSET (Node \X Outcome)
  /\ poll \in [Node -> {"idle", "asked", "pending"} \cup Status]
  /\ listed \in [Node -> BOOLEAN]
  /\ verdicts \in SUBSET (Node \X Outcome)

SyncInit ==
  /\ Init
  /\ contact = [n \in Node |-> NONE]
  /\ contactDisk = [n \in Node |-> NONE]
  /\ add = [n \in Node |-> "idle"]
  /\ push = {}
  /\ poll = [n \in Node |-> "idle"]
  /\ listed = [n \in Node |-> FALSE]
  /\ verdicts = {}

\* The row after a change in memory and a save that may fail.
SaveContact(n, row, ok) ==
  /\ contact' = [contact EXCEPT ![n] = row]
  /\ contactDisk' = IF ok THEN [contactDisk EXCEPT ![n] = row] ELSE contactDisk

\* pair_decision and run_pair_verifier change a row that exists, and save when
\* that made a difference; a failed save is only logged.
Relabel(n, label, ok) ==
  IF contact[n] = NONE \/ contact[n] = label
    THEN UNCHANGED <<contact, contactDisk>>
    ELSE SaveContact(n, label, ok)

----------------------------------------------------------------------------
(* add_contact on the requester, pair_request on the grantor *)

\* The answer reaches the requester if it still waits for it.
Reply(n, answer) ==
  add' = IF add[n] = "waiting" THEN [add EXCEPT ![n] = answer] ELSE add

\* The peer was found and its identity checked, and the signed request arrives:
\* with a live grant it is answered "approved" at once, otherwise the handler
\* goes on.  A request that never arrives changes nothing and is left out.
AddSend(n) ==
  /\ add[n] = "idle" /\ handler[n] = "idle"
  /\ \/ /\ Live(n)
        /\ add' = [add EXCEPT ![n] = "approved"]
        /\ UNCHANGED vars
     \/ /\ ReqCheckGrant(n)
        /\ add' = [add EXCEPT ![n] = "waiting"]
  /\ UNCHANGED <<contact, contactDisk, push, poll, verdicts, listed>>

\* The request is queued, or refused with 429, which add_contact reports
\* without touching the row.
RequestQueued(n) ==
  /\ ReqAdmit(n)
  /\ Reply(n, IF pending'[n] = NONE THEN "idle" ELSE "pending")
  /\ UNCHANGED <<contact, contactDisk, push, poll, verdicts, listed>>

\* The answer, as old as it may be by now, becomes the row's status.
AddFinish(n, ok) ==
  /\ add[n] \in {"approved", "pending"}
  /\ SaveContact(n, add[n], ok)
  /\ add' = [add EXCEPT ![n] = "idle"]
  /\ UNCHANGED <<vars, push, poll, verdicts, listed>>

\* The call times out or its answer is lost; the grantor's handler runs on.
AddFails(n) ==
  /\ add[n] # "idle"
  /\ add' = [add EXCEPT ![n] = "idle"]
  /\ UNCHANGED <<vars, contact, contactDisk, push, poll, verdicts, listed>>

----------------------------------------------------------------------------
(* decide_request and push_decision_to_requester on the grantor,           *)
(* pair_decision on the requester                                          *)

Announce(n, outcome) ==
  /\ push' = push \cup {<<n, outcome>>}
  /\ verdicts' = verdicts \cup {<<n, outcome>>}

DecideAndPush(n) ==
  /\ \/ DecideDeny(n) /\ Announce(n, "denied")
     \/ DecideApprove(n, TRUE) /\ Announce(n, "approved")
     \/ \* the save failed: the owner gets an error and nothing is pushed
        /\ DecideApprove(n, FALSE)
        /\ verdicts' = verdicts \cup {<<n, "approved">>}
        /\ UNCHANGED push
  /\ UNCHANGED <<contact, contactDisk, add, poll, listed>>

\* Mutant of PushArrives: the signer need not be a recorded contact.
PushArrivesUnchecked(n, outcome, ok) ==
  /\ <<n, outcome>> \in push
  /\ push' = push \ {<<n, outcome>>}
  /\ SaveContact(n, outcome, ok)
  /\ UNCHANGED <<vars, add, poll, verdicts, listed>>

\* A decision from a grantor without a contact row is refused.
PushArrives(n, outcome, ok) ==
  /\ <<n, outcome>> \in push
  /\ push' = push \ {<<n, outcome>>}
  /\ Relabel(n, outcome, ok)
  /\ UNCHANGED <<vars, add, poll, verdicts, listed>>

\* The requester is not found, offline, or the POST fails: nobody tries again.
PushLost(n, outcome) ==
  /\ <<n, outcome>> \in push
  /\ push' = push \ {<<n, outcome>>}
  /\ UNCHANGED <<vars, contact, contactDisk, add, poll, verdicts, listed>>

----------------------------------------------------------------------------
(* run_pair_verifier on the requester, pair_status on the grantor *)

\* Only rows that say "pending" are polled, and only where the registry has the grantor:
\* a contact that was added by its host alone is passed over in every round.
PollAsk(n) ==
  /\ poll[n] = "idle" /\ contact[n] = "pending" /\ listed[n]
  /\ poll' = [poll EXCEPT ![n] = "asked"]
  /\ UNCHANGED <<vars, contact, contactDisk, add, push, verdicts, listed>>

\* Mutant of PollAnswer: the poll is answered with the data plane's error code.
PollAnswerCode(n) ==
  /\ poll[n] = "asked"
  /\ poll' = [poll EXCEPT ![n] = AuthOutcome(n, n)]
  /\ UNCHANGED <<vars, contact, contactDisk, add, push, verdicts, listed>>

\* pair_status: the request is signed with the requester's own key.
PollAnswer(n) ==
  /\ poll[n] = "asked"
  /\ poll' = [poll EXCEPT ![n] = StatusAnswer(n)]
  /\ UNCHANGED <<vars, contact, contactDisk, add, push, verdicts, listed>>

\* The poll or its answer is lost.
PollLost(n) ==
  /\ poll[n] = "asked"
  /\ poll' = [poll EXCEPT ![n] = "idle"]
  /\ UNCHANGED <<vars, contact, contactDisk, add, push, verdicts, listed>>

\* Mutant of PollApply: "unknown" is read as a denial.
PollApplyUnknown(n, ok) ==
  /\ poll[n] \notin {"idle", "asked"}
  /\ poll' = [poll EXCEPT ![n] = "idle"]
  /\ CASE poll[n] = "approved" -> Relabel(n, "approved", ok)
       [] poll[n] = "pending" -> UNCHANGED <<contact, contactDisk>>
       [] OTHER -> Relabel(n, "denied", ok)
  /\ UNCHANGED <<vars, add, push, verdicts, listed>>

\* Mutant of PollApply: a denial is left for the push to deliver.
PollApplyApprovals(n, ok) ==
  /\ poll[n] \notin {"idle", "asked"}
  /\ poll' = [poll EXCEPT ![n] = "idle"]
  /\ IF poll[n] = "approved"
       THEN Relabel(n, poll[n], ok)
       ELSE UNCHANGED <<contact, contactDisk>>
  /\ UNCHANGED <<vars, add, push, verdicts, listed>>

\* "pending" and "unknown" change nothing.
PollApply(n, ok) ==
  /\ poll[n] \notin {"idle", "asked"}
  /\ poll' = [poll EXCEPT ![n] = "idle"]
  /\ IF poll[n] \in Outcome
       THEN Relabel(n, poll[n], ok)
       ELSE UNCHANGED <<contact, contactDisk>>
  /\ UNCHANGED <<vars, add, push, verdicts, listed>>

----------------------------------------------------------------------------

\* remove_contact; 404 without a row.
RemoveContact(n, ok) ==
  /\ contact[n] # NONE
  /\ SaveContact(n, NONE, ok)
  /\ UNCHANGED <<vars, add, push, poll, verdicts, listed>>

\* mDNS: the grantor is announced to the requester's registry, or leaves it.
RegistryChange(n) ==
  /\ listed' = [listed EXCEPT ![n] = ~@]
  /\ UNCHANGED <<vars, contact, contactDisk, add, push, poll, verdicts>>

\* The requester's daemon starts again: its calls are gone, its registry is empty.
RequesterRestart(n) ==
  /\ contact' = [contact EXCEPT ![n] = contactDisk[n]]
  /\ add' = [add EXCEPT ![n] = "idle"]
  /\ poll' = [poll EXCEPT ![n] = "idle"]
  /\ listed' = [listed EXCEPT ![n] = FALSE]
  /\ UNCHANGED <<vars, contactDisk, push, verdicts>>

\* Steps of the grantor that no message depends on.
GrantorAlone ==
  /\ \/ \E n \in Node : \/ \E v \in Verdict : DecideTake(n, v)
                        \/ DecideRefused(n)
                        \/ Edit(n)
     \/ \E paths \in [Node -> Scopes], ok \in BOOLEAN : ShareItem(paths, ok)
     \/ \E ok \in BOOLEAN : Sweep(ok)
     \/ Restart
     \/ Tick
  /\ UNCHANGED syncVars

SyncNext ==
  \/ \E n \in Node, ok \in BOOLEAN :
       \/ AddFinish(n, ok)
       \/ \E outcome \in Outcome : PushArrives(n, outcome, ok)
       \/ PollApply(n, ok)
       \/ RemoveContact(n, ok)
  \/ \E n \in Node :
       \/ AddSend(n) \/ RequestQueued(n) \/ AddFails(n)
       \/ DecideAndPush(n)
       \/ \E outcome \in Outcome : PushLost(n, outcome)
       \/ PollAsk(n) \/ PollAnswer(n) \/ PollLost(n)
       \/ RegistryChange(n) \/ RequesterRestart(n)
  \/ GrantorAlone

\* The verifier's interval fires for ever (PollAsk).  A poll that is sent again and
\* again is answered once, and applied once, however often the network or a restart
\* gets in the way.  The registry gets no fairness.
PollFairness ==
  \A n \in Node :
    /\ WF_allVars(PollAsk(n))
    /\ SF_allVars(PollAnswer(n))
    /\ SF_allVars(\E ok \in BOOLEAN : PollApply(n, ok))

SyncSpec == SyncInit /\ [][SyncNext]_allVars /\ PollFairness

----------------------------------------------------------------------------
(* Properties *)

\* A requester's row, in memory or on disk, shows an outcome only if the owner
\* of the other PC once decided it for this requester, whatever answers were
\* lost, late or overtaken (add_contact, pair_decision, run_pair_verifier).
OutcomeWasDecided ==
  \A n \in Node, o \in Outcome :
    contact[n] = o \/ contactDisk[n] = o \/ add[n] = o => <<n, o>> \in verdicts

\* A row the user removed comes back only by the user's own add_contact, or by
\* a restart after a removal that was answered with an error: no decision or
\* poll answer that was on its way brings it back (pair_decision's check of the
\* signer, run_pair_verifier's second look-up).
RemovedStaysRemoved ==
  [][\A n \in Node :
       contact[n] = NONE /\ contact'[n] # NONE
         => add[n] \in {"approved", "pending"} \/ contactDisk[n] # NONE]_allVars

\* While the grantor's status answer is an outcome and the requester's registry has the
\* grantor, the requester's row does not stay "pending": the poller catches up with a lost
\* push (run_pair_verifier against pair_status_lookup).  For a grantor that mDNS does not
\* reach it never does.
NotStuckPending ==
  \A n \in Node :
    ~<>[](contact[n] = "pending" /\ StatusAnswer(n) \in Outcome /\ listed[n])
============================================================================
