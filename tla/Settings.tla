------------------------------ MODULE Settings ------------------------------
(***************************************************************************)
(* The two switches of the settings popover, visibility on the LAN and     *)
(* automatic update checks: their values in the daemon's memory, the mDNS  *)
(* registration, doclink.toml, and the calls of the web UI that change     *)
(* them (admin.rs: get_settings, put_settings, snapshot_config,            *)
(* persist_settings; config.rs: load; main.rs: start; app.js:              *)
(* saveVisibility, saveCheckUpdates).                                      *)
(*                                                                         *)
(* put_settings takes no lock: calls run on threads of their own and       *)
(* interleave at every load, store and file operation.  The file is        *)
(* truncated and then written, so a kill in between leaves it empty, which *)
(* parses as the defaults.                                                 *)
(***************************************************************************)
EXTENDS Naturals

CONSTANTS
  Caller,     \* calls of the UI that may be in progress at once
  NONE,
  Cut,        \* an empty file
  Budget      \* bounds on what happens: settings calls, faults (crashes, lost
              \* starts, dropped calls, failures of mDNS and of the script's commands),
              \* releases, manual checks and applies; a behaviour keeps within one of them

VARIABLES
  up,        \* the daemon process: "down", "boot" or "up"
  adOn,      \* Inner.advertise_on
  chkOn,     \* Inner.check_updates
  beacon,    \* this PC is registered with mDNS
  file,      \* doclink.toml; NONE if missing, Cut if truncated
  put,       \* the UI's calls
  left,      \* what is left of the bounds
  wish,      \* observation: the visibility the owner chose last and was told he has,
             \* NONE while that is open
  parted     \* observation: switch and registration may have parted: calls of this
             \* daemon have overlapped, or a goodbye failed

settings == <<adOn, chkOn, beacon, file, put, wish, parted>>

Config == [ad : BOOLEAN, chk : BOOLEAN]

\* A missing file and an empty one are told apart from one with contents.
ASSUME SettingsAssumption ==
  /\ NONE \notin Config /\ Cut \notin Config
  /\ Budget \subseteq [calls : Nat, faults : Nat, news : Nat, checks : Nat, applies : Nat]

\* `by` is the control that was used: the visibility box, the update box, or another
\* client of the admin API; `alone` is an observation: no other call overlapped.
NoPut == [at |-> "idle", by |-> NONE, ad |-> NONE, chk |-> NONE, snap |-> NONE, alone |-> FALSE]

Flag == BOOLEAN \cup {NONE}

SettingsOK ==
  /\ up \in {"down", "boot", "up"}
  /\ adOn \in BOOLEAN /\ chkOn \in BOOLEAN /\ beacon \in BOOLEAN
  /\ file \in Config \cup {NONE, Cut}
  /\ put \in [Caller -> [at : {"idle", "got", "load", "change", "store", "check", "open", "write"},
                         by : {"box", "update", "api", NONE},
                         ad : Flag, chk : Flag, snap : Config \cup {NONE}, alone : BOOLEAN]]
  /\ left \in [calls : Nat, faults : Nat, news : Nat, checks : Nat, applies : Nat]
  /\ wish \in Flag /\ parted \in BOOLEAN

SettingsInit ==
  /\ up = "down" /\ adOn = TRUE /\ chkOn = TRUE /\ beacon = FALSE
  /\ file = NONE
  /\ put = [c \in Caller |-> NoPut]
  /\ left \in Budget /\ wish = NONE /\ parted = FALSE

----------------------------------------------------------------------------
(* Start and stop *)

\* Config::load: a missing file gives the defaults, an empty one as well.
Loaded == IF file \in {NONE, Cut} THEN [ad |-> TRUE, chk |-> TRUE] ELSE file

Fault == left.faults > 0 /\ left' = [left EXCEPT !.faults = @ - 1]

\* Mutant of LoadConfig: the beacon is registered before the configuration is asked.
LoadConfigShown ==
  /\ up = "boot" /\ up' = "up"
  /\ adOn' = Loaded.ad /\ chkOn' = Loaded.chk
  /\ beacon' = TRUE
  /\ UNCHANGED <<file, put, left, wish, parted>>

\* main: the switches as configured.  A registration that fails is only logged.
LoadConfig ==
  /\ up = "boot" /\ up' = "up"
  /\ adOn' = Loaded.ad /\ chkOn' = Loaded.chk
  /\ \/ beacon' = Loaded.ad /\ left' = left
     \/ Loaded.ad /\ beacon' = FALSE /\ Fault
  /\ UNCHANGED <<file, put, wish, parted>>

\* The process ends, by itself or killed, and its calls and its registration with it.  A
\* call that was about to write the file leaves it truncated, whatever it held.
DaemonEnds ==
  /\ up' = "down"
  /\ beacon' = FALSE
  /\ put' = [c \in Caller |-> NoPut]
  /\ wish' = IF \E c \in Caller : put[c].at = "write" THEN NONE ELSE wish
  /\ parted' = FALSE
  /\ UNCHANGED <<adOn, chkOn, file>>

----------------------------------------------------------------------------
(* The calls *)

Busy == {c \in Caller : put[c].at # "idle"}

\* Call c begins; the calls it overlaps with are no longer alone.
Begin(c, at, by, ad, chk) ==
  /\ up = "up" /\ put[c].at = "idle" /\ left.calls > 0
  /\ left' = [left EXCEPT !.calls = @ - 1]
  /\ put' = [d \in Caller |->
              IF d = c THEN [NoPut EXCEPT !.at = at, !.by = by, !.ad = ad, !.chk = chk,
                                          !.alone = (Busy = {})]
              ELSE [put[d] EXCEPT !.alone = FALSE]]
  /\ wish' = IF by = "update" /\ Busy = {} THEN wish ELSE NONE
  /\ parted' = (parted \/ Busy # {})
  /\ UNCHANGED <<up, adOn, chkOn, beacon, file>>

\* saveVisibility.
PutVisibility(c, v) == Begin(c, "load", "box", v, NONE)

\* Another client of the API, with both members.
PutBoth(c, v, w) == Begin(c, "load", "api", v, w)

\* saveCheckUpdates: it asks for the visibility first, to send it along.  Its
\* `checkUpdates` is not the member `check_updates` that SettingsBody has, so the
\* daemon reads the call as one that leaves the update switch alone.
GetSettings(c) == Begin(c, "got", "update", adOn, NONE)

Step(c, at) == put' = [put EXCEPT ![c].at = at]

PutCheckUpdates(c) ==
  /\ put[c].at = "got"
  /\ Step(c, "load")
  /\ UNCHANGED <<up, adOn, chkOn, beacon, file, left, wish, parted>>

\* put_settings: is the visibility to change?
PutLoad(c) ==
  /\ put[c].at = "load"
  /\ Step(c, IF put[c].ad # adOn THEN "change" ELSE "check")
  /\ UNCHANGED <<up, adOn, chkOn, beacon, file, left, wish, parted>>

\* An answer; an error leaves what the call did so far, and the owner in doubt.
Answer(c, ok) ==
  /\ put' = [put EXCEPT ![c] = NoPut]
  /\ wish' = IF ~ok \/ ~put[c].alone THEN NONE
             ELSE IF put[c].by = "update" THEN wish ELSE put[c].ad

\* advertise_on registers and stop_advertising says goodbye.  Without an mDNS daemon, and
\* so without a registration, the call fails, as when a registration is refused; a goodbye
\* that fails goes unnoticed.
PutChange(c) ==
  /\ put[c].at = "change"
  /\ \/ beacon' = put[c].ad /\ Step(c, "store") /\ UNCHANGED <<left, wish, parted>>
     \/ /\ ~put[c].ad /\ Fault
        /\ beacon' = beacon /\ parted' = TRUE
        /\ Step(c, "store") /\ UNCHANGED wish
     \/ /\ put[c].ad \/ ~beacon
        /\ beacon' = beacon /\ Answer(c, FALSE) /\ UNCHANGED <<left, parted>>
  /\ UNCHANGED <<up, adOn, chkOn, file>>

PutStore(c) ==
  /\ put[c].at = "store"
  /\ adOn' = put[c].ad
  /\ Step(c, "check")
  /\ UNCHANGED <<up, chkOn, beacon, file, left, wish, parted>>

PutCheck(c) ==
  /\ put[c].at = "check"
  /\ chkOn' = IF put[c].chk = NONE THEN chkOn ELSE put[c].chk
  /\ Step(c, "open")
  /\ UNCHANGED <<up, adOn, beacon, file, left, wish, parted>>

\* snapshot_config, and persist_settings opens the file, which truncates it.
PutOpen(c) ==
  /\ put[c].at = "open"
  /\ \/ /\ put' = [put EXCEPT ![c].snap = [ad |-> adOn, chk |-> chkOn], ![c].at = "write"]
        /\ file' = Cut
        /\ UNCHANGED wish
     \/ file' = file /\ Answer(c, FALSE)
  /\ UNCHANGED <<up, adOn, chkOn, beacon, left, parted>>

PutWrite(c) ==
  /\ put[c].at = "write"
  /\ \/ file' = put[c].snap /\ Answer(c, TRUE)
     \/ file' = file /\ Answer(c, FALSE)
  /\ UNCHANGED <<up, adOn, chkOn, beacon, left, parted>>

SettingsCall ==
  \E c \in Caller :
    \/ \E v \in BOOLEAN : PutVisibility(c, v)
    \/ \E v, w \in BOOLEAN : PutBoth(c, v, w)
    \/ GetSettings(c) \/ PutCheckUpdates(c)
    \/ PutLoad(c) \/ PutChange(c) \/ PutStore(c) \/ PutCheck(c)
    \/ PutOpen(c) \/ PutWrite(c)

----------------------------------------------------------------------------
(* Properties *)

\* Once the owner has been told that this PC is hidden, or visible, that is what
\* memory and doclink.toml say, through restarts, kills and calls that change the
\* other switch (put_settings and main's start).  The code does not keep a choice when the
\* daemon is killed, or a write fails, after any call has truncated the file, the update
\* box's included; a choice made while another call was running promises nothing either.
\* A hidden PC is not on mDNS, unless calls of this daemon have overlapped or a goodbye
\* failed: either may leave the switch off and the PC registered, and a later call to hide
\* it finds nothing to change.
WishKept ==
  wish # NONE =>
    /\ up = "up" => adOn = wish
    /\ Busy = {} => file # Cut /\ Loaded.ad = wish
    /\ ~wish /\ ~parted => ~beacon
============================================================================
