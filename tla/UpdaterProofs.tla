--------------------------- MODULE UpdaterProofs ---------------------------
(***************************************************************************)
(* Proofs about the settings, the launcher and the updater, which share    *)
(* one next-state relation.  Each invariant looks at a few of the          *)
(* variables only: a first lemma says how a step can change these, and the *)
(* invariant is proved from that.                                          *)
(***************************************************************************)
EXTENDS Updater, SequenceTheorems, TLAPS

----------------------------------------------------------------------------
(* The owner's choice of visibility *)

\* A call that nothing overlapped: what it has done so far.
LoneCall(c) ==
  put[c].alone =>
    /\ put[c].at = "store" /\ ~parted => beacon = put[c].ad
    /\ put[c].at \in {"check", "open", "write"} => adOn = put[c].ad
    /\ put[c].at = "write" => put[c].snap \in Config /\ put[c].snap.ad = put[c].ad

\* While a choice stands, a call in progress is one of the update box, which sends it
\* back as it read it.
Standing(c) ==
  put[c].at # "idle" =>
    /\ put[c].alone /\ put[c].by = "update" /\ put[c].ad = wish
    /\ put[c].at \notin {"change", "store"}

WishInv ==
  /\ up # "up" => beacon = FALSE /\ \A c \in Caller : put[c].at = "idle"
  /\ \A c, d \in Caller :
       put[c].at # "idle" /\ put[d].at # "idle" /\ put[c].alone => c = d
  /\ ~parted => \A c \in Caller : put[c].at # "idle" => put[c].alone
  /\ \A c \in Caller : LoneCall(c)
  /\ ~parted /\ ~adOn /\ (\A c \in Caller : put[c].at # "store") => ~beacon
  /\ wish # NONE =>
       /\ up = "up" => adOn = wish
       /\ \A c \in Caller : Standing(c)
       /\ (\A c \in Caller : put[c].at # "write") => file # Cut /\ Loaded.ad = wish

----------------------------------------------------------------------------
(* The daemon and its window *)

ShellInv ==
  ~lost =>
    /\ window = "none" => up = "down"
    /\ window = "up" => child \/ up = "down"

----------------------------------------------------------------------------
(* Applies and scripts *)

Triple == Nat \X Nat \X Nat

\* A version that is newer than the installed daemon, or none.
NewerOrNone(v) == v = NONE \/ (v \in Triple /\ TupleGt(v, installed.d))

Fresh(p) ==
  NewerOrNone(zip[p]) /\ NewerOrNone(stage[p].d) /\ NewerOrNone(stage[p].w)

\* What an apply call and its PowerShell process have to do with each other.
JobInv(j) ==
  /\ up # "up" => job[j].at = "idle"
  /\ job[j].at \in {"download", "launch"} => proc[j].at = "none"
  /\ job[j].at = "unpack" =>
       proc[j].at = "none" \/ (proc[j].at \in {"unzip", "unzip2"} /\ proc[j].pid = pid)
  /\ job[j].at # "idle" => NewerOrNone(job[j].rel)

\* The scripts at work belong to one process, and what it staged is newer than the
\* installed daemon until one of them has copied.
ScriptInv(i) ==
  /\ \A j \in Job : job[j].at \in {"unpack", "launch"} => proc[i].pid = pid
  /\ \A j \in Scripts : proc[j].pid = proc[i].pid
  /\ (\A j \in Scripts : proc[j].at \notin {"copy2", "tidy"}) => Fresh(proc[i].pid)

SwapInv ==
  /\ up = "up" => app = installed.d /\ Fresh(pid)
  /\ \A j \in Job : JobInv(j)
  /\ \A i \in Scripts : ScriptInv(i)

Active(j) == job[j].at # "idle" \/ proc[j].at # "none"

\* An undisturbed apply: both halves of its stage come from one zip.
CleanJob(j) ==
  LET s == stage[proc[j].pid]
  IN /\ proc[j].at = "unzip2" => s.d = zip[proc[j].pid]
     /\ job[j].at = "launch" => stage[pid].d = stage[pid].w
     /\ proc[j].at \in {"wait", "copy", "copy2"} => s.d = s.w
     /\ proc[j].at \in {"copy", "copy2"} => up = "down" /\ window = "none"
     /\ proc[j].at = "copy2" =>
          s.d # NONE /\ installed.d = s.d /\ s.w \in Triple
            /\ TupleGt(s.w, installed.w)

CleanInv ==
  clean =>
    /\ \A j, k \in Job : Active(j) /\ Active(k) => j = k
    /\ \A j \in Job : CleanJob(j)
    /\ (\A j \in Job : proc[j].at # "copy2") => installed.d = installed.w

----------------------------------------------------------------------------
(* Type correctness *)

LEMMA VersionFacts ==
  /\ \A r \in Release : ParseVersion(r.tag) \in Version
  /\ First \in Version \ {NONE}
BY UpdaterAssumption DEF Version

LEMMA InitType == Init => TypeOK
<1> SUFFICES ASSUME Init PROVE TypeOK
  OBVIOUS
<1>1. SettingsOK
  BY SettingsAssumption DEF Init, SettingsInit, SettingsOK, NoPut, Flag
<1>2. LauncherOK
  BY DEF Init, LauncherInit, LauncherOK
<1>3. pid \in Pid
  BY UpdaterAssumption DEF Init
<1>4. st \in [status : Release \cup {[tag |-> v, zip |-> FALSE] : v \in Version \ {NONE}}
                         \cup {NONE},
              checking : BOOLEAN, downloading : {NONE, 0, 50}, applied : BOOLEAN]
  BY DEF Init, NoState
<1>5. /\ latest \in Release
      /\ asking \subseteq {"loop", "hand"}
      /\ job \in [Job -> [at : {"idle", "download", "unpack", "launch"},
                          rel : Version \cup {NONE}]]
      /\ zip \in [Pid -> Version \cup {NONE}]
      /\ stage \in [Pid -> [d : Version \cup {NONE}, w : Version \cup {NONE}]]
      /\ proc \in [Job -> [at : {"none", "unzip", "unzip2", "wait", "copy", "copy2", "tidy"},
                           pid : Pid \cup {NONE}, rel : Version \cup {NONE}]]
  BY UpdaterAssumption DEF Init, NoJob, NoProc, Nothing
<1>6. /\ installed \in [d : Version \ {NONE}, w : Version \ {NONE}]
      /\ app \in Version \ {NONE}
      /\ goal \in Version \cup {NONE}
  BY VersionFacts DEF Init
<1>7. dropped \in BOOLEAN /\ clean \in BOOLEAN
  BY DEF Init
<1> QED
  BY <1>1, <1>2, <1>3, <1>4, <1>5, <1>6, <1>7 DEF TypeOK

----------------------------------------------------------------------------
(* What a step can do to the parts *)

\* The steps that leave the daemon's process, the settings and the shell alone.
Elsewhere ==
  \/ \E r \in Release : Publish(r)
  \/ \E by \in {"loop", "hand"} : CheckBegins(by) \/ CheckEnds(by)
  \/ CheckDropped
  \/ \E j \in Job : ApplyBegins(j) \/ ApplyDownloaded(j) \/ ApplyFails(j) \/ ApplyLaunched(j)
                      \/ ApplyDropped(j) \/ Unzip(j) \/ ScriptCopies(j)
                      \/ ScriptCopyFails(j)

LEMMA StepCases ==
  ASSUME Next
  PROVE  \/ SettingsCall /\ UNCHANGED <<shell, updater>>
         \/ Boot \/ WindowStep \/ QuitStep \/ CrashStep
         \/ Elsewhere
         \/ \E j \in Job : ScriptKills(j) \/ ScriptKillFails(j) \/ ScriptEnds(j)
BY DEF Next, Elsewhere

LEMMA ElsewhereFrame ==
  ASSUME Elsewhere
  PROVE  UNCHANGED <<up, settings, shell>>
<1>1. ASSUME NEW r \in Release, Publish(r) PROVE UNCHANGED <<up, settings, shell>>
  BY <1>1 DEF Publish
<1>2. ASSUME NEW by, CheckBegins(by) \/ CheckEnds(by) PROVE UNCHANGED <<up, settings, shell>>
  BY <1>2 DEF CheckBegins, CheckEnds, checked
<1>3. CASE CheckDropped
  BY <1>3 DEF CheckDropped, checked
<1>4. ASSUME NEW j \in Job,
             ApplyBegins(j) \/ ApplyDownloaded(j) \/ ApplyFails(j) \/ ApplyLaunched(j)
               \/ ApplyDropped(j)
      PROVE  UNCHANGED <<up, settings, shell>>
  BY <1>4 DEF ApplyBegins, ApplyDownloaded, ApplyFails, ApplyLaunched, ApplyDropped, still
<1>5. ASSUME NEW j \in Job, Unzip(j) \/ ScriptCopies(j) \/ ScriptCopyFails(j)
      PROVE  UNCHANGED <<up, settings, shell>>
  BY <1>5 DEF Unzip, ScriptCopies, ScriptCopyFails, alive
<1> QED
  BY <1>1, <1>2, <1>3, <1>4, <1>5 DEF Elsewhere

\* The settings are changed by their calls, at the start and at the end of the daemon.
LEMMA SettingsSteps ==
  ASSUME Next, up \in {"down", "boot", "up"}
  PROVE  \/ SettingsCall \/ LoadConfig \/ DaemonEnds
         \/ UNCHANGED settings /\ (up' = up \/ (up = "down" /\ up' = "boot"))
<1>1. CASE SettingsCall
  BY <1>1
<1>2. CASE Boot
  BY <1>2 DEF Boot
<1>3. CASE WindowStep
  BY <1>3 DEF WindowStep, OpenWindow, WindowReady, WindowGivesUp, WindowDies, EnsureDaemon
<1>4. CASE QuitStep \/ CrashStep
  BY <1>4 DEF QuitStep, CrashStep, Quit, DaemonCrash, DaemonStops
<1>5. CASE Elsewhere
  BY <1>5, ElsewhereFrame
<1>6. ASSUME NEW j \in Job, ScriptKills(j) \/ ScriptKillFails(j)
      PROVE  DaemonEnds \/ (UNCHANGED settings /\ up' = up)
  BY <1>6 DEF ScriptKills, ScriptKillFails, DaemonStops
<1>7. ASSUME NEW j \in Job, ScriptEnds(j)
      PROVE  UNCHANGED settings /\ (up' = up \/ (up = "down" /\ up' = "boot"))
  BY <1>7 DEF ScriptEnds, EnsureDaemon
<1> QED
  BY <1>1, <1>2, <1>3, <1>4, <1>5, <1>6, <1>7, StepCases

----------------------------------------------------------------------------
(* The owner's choice is kept *)

PutRec ==
  [at : {"idle", "got", "load", "change", "store", "check", "open", "write"},
   by : {"box", "update", "api", NONE},
   ad : Flag, chk : Flag, snap : Config \cup {NONE}, alone : BOOLEAN]

LEMMA WishBegin ==
  ASSUME SettingsOK, WishInv, NEW c \in Caller, NEW at \in {"load", "got"},
         NEW by \in {"box", "update", "api"}, NEW ad \in BOOLEAN, NEW chk \in Flag,
         by = "update" => ad = adOn,
         Begin(c, at, by, ad, chk)
  PROVE  WishInv'
<1> DEFINE P == put'
<1>1. put \in [Caller -> PutRec]
  BY DEF SettingsOK, PutRec
<1>2. /\ P[c] = [NoPut EXCEPT !.at = at, !.by = by, !.ad = ad, !.chk = chk, !.alone = (Busy = {})]
      /\ \A d \in Caller \ {c} : P[d] = [put[d] EXCEPT !.alone = FALSE]
  BY DEF Begin
<1>3. /\ P[c].at = at /\ P[c].by = by /\ P[c].ad = ad /\ P[c].alone = (Busy = {})
      /\ \A d \in Caller \ {c} : P[d].at = put[d].at /\ ~P[d].alone
  <2>1. P[c].at = at /\ P[c].by = by /\ P[c].ad = ad
    BY <1>2 DEF NoPut
  <2>2. P[c].alone = (Busy = {})
    BY <1>2 DEF NoPut
  <2>3. \A d \in Caller \ {c} : P[d].at = put[d].at
    BY <1>1, <1>2 DEF PutRec
  <2>4. ASSUME NEW d \in Caller \ {c} PROVE P[d].alone = FALSE
    <3>1. put[d] \in PutRec /\ P[d] = [put[d] EXCEPT !.alone = FALSE]
      BY <1>1, <1>2
    <3> QED
      BY <3>1 DEF PutRec
  <2> QED
    BY <2>1, <2>2, <2>3, <2>4
<1>4. up = "up" /\ UNCHANGED <<up, adOn, beacon, file>>
  BY DEF Begin
<1>5. /\ Busy = {} => \A d \in Caller : put[d].at = "idle"
      /\ parted' = (parted \/ Busy # {})
      /\ wish' = IF by = "update" /\ Busy = {} THEN wish ELSE NONE
  BY DEF Begin, Busy
<1>6. \A d, e \in Caller :
        P[d].at # "idle" /\ P[e].at # "idle" /\ P[d].alone => d = e
  BY <1>3, <1>5
<1>7. ~parted' => \A d \in Caller : P[d].at # "idle" => P[d].alone
  BY <1>3, <1>5
<1>8. \A d \in Caller : LoneCall(d)'
  BY <1>3 DEF LoneCall
<1>9. ~parted' /\ ~adOn' /\ (\A d \in Caller : P[d].at # "store") => ~beacon'
  <2> SUFFICES ASSUME ~parted', ~adOn' PROVE ~beacon'
    OBVIOUS
  <2>1. ~parted /\ ~adOn /\ \A d \in Caller : put[d].at # "store"
    BY <1>4, <1>5
  <2> QED
    BY <2>1, <1>4 DEF WishInv
<1>10. wish' # NONE =>
         /\ up' = "up" => adOn' = wish'
         /\ \A d \in Caller : Standing(d)'
         /\ (\A d \in Caller : P[d].at # "write") => file' # Cut /\ Loaded'.ad = wish'
  <2> SUFFICES ASSUME wish' # NONE
               PROVE  /\ up' = "up" => adOn' = wish'
                      /\ \A d \in Caller : Standing(d)'
                      /\ file' # Cut /\ Loaded'.ad = wish'
    OBVIOUS
  <2>1. by = "update" /\ Busy = {} /\ wish' = wish
    BY <1>5
  <2>2. adOn = wish /\ file # Cut /\ Loaded.ad = wish
    BY <2>1, <1>4, <1>5 DEF WishInv
  <2>3. Loaded' = Loaded
    BY <1>4 DEF Loaded
  <2>4. \A d \in Caller : Standing(d)'
    BY <2>1, <2>2, <1>3, <1>5 DEF Standing
  <2> QED
    BY <2>1, <2>2, <2>3, <2>4, <1>4
<1> QED
  BY <1>4, <1>6, <1>7, <1>8, <1>9, <1>10 DEF WishInv

\* A call moves on: only its place changes.
LEMMA StepFields ==
  ASSUME SettingsOK, NEW c \in Caller, NEW at, Step(c, at)
  PROVE  /\ put'[c].at = at
         /\ put'[c].by = put[c].by /\ put'[c].ad = put[c].ad /\ put'[c].snap = put[c].snap
         /\ put'[c].alone = put[c].alone
         /\ \A d \in Caller \ {c} : put'[d] = put[d]
<1>1. put \in [Caller -> PutRec]
  BY DEF SettingsOK, PutRec
<1>2. put'[c] = [put[c] EXCEPT !.at = at] /\ \A d \in Caller \ {c} : put'[d] = put[d]
  BY <1>1 DEF Step
<1>3. put[c] \in PutRec
  BY <1>1
<1> QED
  BY <1>2, <1>3 DEF PutRec

\* A call in progress moves on and leaves the switch, the beacon and the file alone.
LEMMA WishPlainStep ==
  ASSUME SettingsOK, WishInv, NEW c \in Caller, NEW at,
         put[c].at # "idle", at \in {"load", "change", "check", "open"}, Step(c, at),
         UNCHANGED <<up, adOn, beacon, file, wish, parted>>,
         put[c].at \notin {"store", "write"},
         at = "change" => wish = NONE,
         at = "check" => put[c].ad = adOn,
         at = "open" => put[c].at = "check"
  PROVE  WishInv'
<1> DEFINE P == put'
<1>1. /\ P[c].at = at
      /\ P[c].by = put[c].by /\ P[c].ad = put[c].ad /\ P[c].snap = put[c].snap
      /\ P[c].alone = put[c].alone
      /\ \A d \in Caller \ {c} : P[d] = put[d]
  BY StepFields
<1> HIDE DEF P
<1>2. \A d \in Caller : (P[d].at = "idle" <=> put[d].at = "idle") /\ P[d].alone = put[d].alone
  BY <1>1
<1>4. Loaded' = Loaded
  BY DEF Loaded
<1>5. up' # "up" => beacon' = FALSE /\ \A d \in Caller : P[d].at = "idle"
  BY <1>2 DEF WishInv
<1>6. \A d, e \in Caller :
        P[d].at # "idle" /\ P[e].at # "idle" /\ P[d].alone => d = e
  BY <1>2 DEF WishInv
<1>7. ~parted' => \A d \in Caller : P[d].at # "idle" => P[d].alone
  BY <1>2 DEF WishInv
<1>8. \A d \in Caller : LoneCall(d)'
  <2> SUFFICES ASSUME NEW d \in Caller PROVE LoneCall(d)'
    OBVIOUS
  <2>1. LoneCall(d)
    BY DEF WishInv
  <2>2. CASE d # c
    BY <2>1, <2>2, <1>1 DEF LoneCall, P
  <2>3. CASE d = c
    BY <2>1, <2>3, <1>1 DEF LoneCall, P
  <2> QED
    BY <2>2, <2>3
<1>9. ~parted' /\ ~adOn' /\ (\A d \in Caller : P[d].at # "store") => ~beacon'
  <2>1. (\A d \in Caller : P[d].at # "store") => \A d \in Caller : put[d].at # "store"
    BY <1>1
  <2> QED
    BY <2>1 DEF WishInv
<1>10. wish' # NONE =>
         /\ up' = "up" => adOn' = wish'
         /\ \A d \in Caller : Standing(d)'
         /\ (\A d \in Caller : P[d].at # "write") => file' # Cut /\ Loaded'.ad = wish'
  <2> SUFFICES ASSUME wish # NONE
               PROVE  /\ up' = "up" => adOn' = wish'
                      /\ \A d \in Caller : Standing(d)'
                      /\ (\A d \in Caller : P[d].at # "write") => file' # Cut /\ Loaded'.ad = wish'
    OBVIOUS
  <2>1. \A d \in Caller : Standing(d)
    BY DEF WishInv
  <2>2. \A d \in Caller : Standing(d)'
    BY <2>1, <1>1 DEF Standing, P
  <2>3. (\A d \in Caller : P[d].at # "write") => \A d \in Caller : put[d].at # "write"
    BY <1>1
  <2> QED
    BY <2>2, <2>3, <1>4 DEF WishInv
<1> QED
  BY <1>5, <1>6, <1>7, <1>8, <1>9, <1>10 DEF WishInv, P

\* The registration changes, or should have, and no choice stands while a call does that.
LEMMA WishChanged ==
  ASSUME SettingsOK, WishInv, NEW c \in Caller, put[c].at = "change",
         (beacon' = put[c].ad /\ parted' = parted) \/ parted' = TRUE,
         Step(c, "store"), UNCHANGED <<up, adOn, file, wish>>
  PROVE  WishInv'
<1> DEFINE P == put'
<1>1. /\ P[c].at = "store" /\ P[c].ad = put[c].ad /\ P[c].alone = put[c].alone
      /\ \A d \in Caller \ {c} : P[d] = put[d]
  BY StepFields
<1> HIDE DEF P
<1>2. \A d \in Caller : (P[d].at = "idle" <=> put[d].at = "idle") /\ P[d].alone = put[d].alone
  BY <1>1
<1>3. up = "up" /\ wish = NONE
  BY DEF WishInv, Standing
<1>4. /\ \A d, e \in Caller :
           P[d].at # "idle" /\ P[e].at # "idle" /\ P[d].alone => d = e
      /\ ~parted' => \A d \in Caller : P[d].at # "idle" => P[d].alone
  BY <1>2 DEF WishInv
<1>5. \A d \in Caller : LoneCall(d)'
  <2> SUFFICES ASSUME NEW d \in Caller, P[d].alone PROVE LoneCall(d)'
    BY DEF LoneCall, P
  <2>1. CASE d = c
    BY <2>1, <1>1 DEF LoneCall, P
  <2>2. CASE d # c
    <3>1. P[d].at = "idle"
      BY <2>2, <1>1, <1>4
    <3> QED
      BY <3>1 DEF LoneCall, P
  <2> QED
    BY <2>1, <2>2
<1> QED
  BY <1>1, <1>3, <1>4, <1>5 DEF WishInv, P

\* The switch follows.
LEMMA WishStored ==
  ASSUME SettingsOK, WishInv, NEW c \in Caller, put[c].at = "store",
         adOn' = put[c].ad, Step(c, "check"), UNCHANGED <<up, beacon, file, wish, parted>>
  PROVE  WishInv'
<1> DEFINE P == put'
<1>1. /\ P[c].at = "check" /\ P[c].ad = put[c].ad /\ P[c].alone = put[c].alone
      /\ \A d \in Caller \ {c} : P[d] = put[d]
  BY StepFields
<1> HIDE DEF P
<1>2. \A d \in Caller : (P[d].at = "idle" <=> put[d].at = "idle") /\ P[d].alone = put[d].alone
  BY <1>1
<1>3. up = "up" /\ wish = NONE
  BY DEF WishInv, Standing
<1>4. /\ \A d, e \in Caller :
           P[d].at # "idle" /\ P[e].at # "idle" /\ P[d].alone => d = e
      /\ ~parted' => \A d \in Caller : P[d].at # "idle" => P[d].alone
  BY <1>2 DEF WishInv
<1>5. \A d \in Caller : LoneCall(d)'
  <2> SUFFICES ASSUME NEW d \in Caller, P[d].alone PROVE LoneCall(d)'
    BY DEF LoneCall, P
  <2>1. CASE d = c
    BY <2>1, <1>1 DEF LoneCall, P
  <2>2. CASE d # c
    <3>1. P[d].at = "idle"
      BY <2>2, <1>1, <1>4
    <3> QED
      BY <3>1 DEF LoneCall, P
  <2> QED
    BY <2>1, <2>2
<1>6. ~parted => beacon = put[c].ad
  BY DEF WishInv, LoneCall
<1> QED
  BY <1>1, <1>3, <1>4, <1>5, <1>6 DEF WishInv, P

\* The snapshot is taken and the file cut.
LEMMA WishOpened ==
  ASSUME SettingsOK, WishInv, NEW c \in Caller, put[c].at = "open",
         put' = [put EXCEPT ![c].snap = [ad |-> adOn, chk |-> chkOn], ![c].at = "write"],
         UNCHANGED <<up, adOn, beacon, wish, parted>>
  PROVE  WishInv'
<1> DEFINE P == put'
<1>1. put \in [Caller -> PutRec] /\ put[c] \in PutRec
  BY DEF SettingsOK, PutRec
<1>2. /\ P[c].at = "write" /\ P[c].ad = put[c].ad /\ P[c].alone = put[c].alone
      /\ P[c].by = put[c].by /\ P[c].snap = [ad |-> adOn, chk |-> chkOn]
      /\ \A d \in Caller \ {c} : P[d] = put[d]
  BY <1>1 DEF PutRec
<1> HIDE DEF P
<1>3. \A d \in Caller : (P[d].at = "idle" <=> put[d].at = "idle") /\ P[d].alone = put[d].alone
  BY <1>2
<1>4. P[c].snap \in Config /\ P[c].snap.ad = adOn
  BY <1>2 DEF SettingsOK, Config
<1>5. /\ \A d, e \in Caller :
           P[d].at # "idle" /\ P[e].at # "idle" /\ P[d].alone => d = e
      /\ ~parted' => \A d \in Caller : P[d].at # "idle" => P[d].alone
      /\ up' # "up" => beacon' = FALSE /\ \A d \in Caller : P[d].at = "idle"
  BY <1>3 DEF WishInv
<1>6. \A d \in Caller : LoneCall(d)'
  <2> SUFFICES ASSUME NEW d \in Caller PROVE LoneCall(d)'
    OBVIOUS
  <2>1. LoneCall(d)
    BY DEF WishInv
  <2>2. CASE d = c
    BY <2>1, <2>2, <1>2, <1>4 DEF LoneCall, P
  <2>3. CASE d # c
    BY <2>1, <2>3, <1>2 DEF LoneCall, P
  <2> QED
    BY <2>2, <2>3
<1>7. ~parted' /\ ~adOn' /\ (\A d \in Caller : P[d].at # "store") => ~beacon'
  <2>1. (\A d \in Caller : P[d].at # "store") => \A d \in Caller : put[d].at # "store"
    BY <1>2
  <2> QED
    BY <2>1 DEF WishInv
<1>8. wish' # NONE => (up' = "up" => adOn' = wish') /\ \A d \in Caller : Standing(d)'
  <2> SUFFICES ASSUME wish # NONE PROVE \A d \in Caller : Standing(d)'
    BY DEF WishInv
  <2>1. \A d \in Caller : Standing(d)
    BY DEF WishInv
  <2> QED
    BY <2>1, <1>2 DEF Standing, P
<1> QED
  BY <1>2, <1>5, <1>6, <1>7, <1>8 DEF WishInv, P

\* A call is answered; the answer is a promise only if the file was written and no
\* other call overlapped.
LEMMA WishAnswered ==
  ASSUME SettingsOK, WishInv, NEW c \in Caller, NEW ok \in BOOLEAN,
         put[c].at # "idle", put[c].at # "store", Answer(c, ok),
         ok => put[c].at = "write" /\ file' = put[c].snap,
         UNCHANGED <<up, adOn, beacon, parted>>
  PROVE  WishInv'
<1> DEFINE P == put'
<1>1. put \in [Caller -> PutRec]
  BY DEF SettingsOK, PutRec
<1>2. P[c].at = "idle" /\ P[c].alone = FALSE /\ \A d \in Caller \ {c} : P[d] = put[d]
  BY <1>1 DEF Answer, NoPut
<1>3. wish' = IF ~ok \/ ~put[c].alone THEN NONE
              ELSE IF put[c].by = "update" THEN wish ELSE put[c].ad
  BY DEF Answer
<1> HIDE DEF P
<1>4. /\ \A d, e \in Caller :
           P[d].at # "idle" /\ P[e].at # "idle" /\ P[d].alone => d = e
      /\ ~parted' => \A d \in Caller : P[d].at # "idle" => P[d].alone
      /\ up' # "up" => beacon' = FALSE /\ \A d \in Caller : P[d].at = "idle"
  BY <1>2 DEF WishInv
<1>5. \A d \in Caller : LoneCall(d)'
  <2> SUFFICES ASSUME NEW d \in Caller PROVE LoneCall(d)'
    OBVIOUS
  <2>1. LoneCall(d)
    BY DEF WishInv
  <2>2. CASE d = c
    BY <2>2, <1>2 DEF LoneCall, P
  <2>3. CASE d # c
    BY <2>1, <2>3, <1>2 DEF LoneCall, P
  <2> QED
    BY <2>2, <2>3
<1>6. ~parted' /\ ~adOn' /\ (\A d \in Caller : P[d].at # "store") => ~beacon'
  <2>1. (\A d \in Caller : P[d].at # "store") => \A d \in Caller : put[d].at # "store"
    BY <1>2
  <2> QED
    BY <2>1 DEF WishInv
<1>7. wish' # NONE =>
         /\ up' = "up" => adOn' = wish'
         /\ \A d \in Caller : Standing(d)'
         /\ file' # Cut /\ Loaded'.ad = wish'
  <2> SUFFICES ASSUME wish' # NONE
               PROVE  /\ up' = "up" => adOn' = wish'
                      /\ \A d \in Caller : Standing(d)'
                      /\ file' # Cut /\ Loaded'.ad = wish'
    OBVIOUS
  <2>1. ok /\ put[c].alone /\ put[c].at = "write" /\ file' = put[c].snap
    BY <1>3
  <2>2. \A d \in Caller : P[d].at = "idle"
    BY <2>1, <1>2 DEF WishInv
  <2>3. wish' = put[c].ad
    BY <1>3, <2>1 DEF WishInv, Standing
  <2>4. LoneCall(c)
    BY DEF WishInv
  <2>5. put[c].snap \in Config /\ put[c].snap.ad = put[c].ad /\ adOn = put[c].ad
    BY <2>1, <2>4 DEF LoneCall
  <2>6. file' \notin {NONE, Cut} /\ Loaded' = file'
    BY <2>1, <2>5, SettingsAssumption DEF Loaded
  <2>7. \A d \in Caller : Standing(d)'
    BY <2>2 DEF Standing, P
  <2> QED
    BY <2>1, <2>3, <2>5, <2>6, <2>7
<1> QED
  BY <1>4, <1>5, <1>6, <1>7 DEF WishInv, P

LEMMA WishCall ==
  ASSUME SettingsOK, WishInv, SettingsCall
  PROVE  WishInv'
<1> PICK c \in Caller :
      \/ \E v \in BOOLEAN : PutVisibility(c, v)
      \/ \E v, w \in BOOLEAN : PutBoth(c, v, w)
      \/ GetSettings(c) \/ PutCheckUpdates(c)
      \/ PutLoad(c) \/ PutChange(c) \/ PutStore(c) \/ PutCheck(c)
      \/ PutOpen(c) \/ PutWrite(c)
  BY DEF SettingsCall
<1>0. adOn \in BOOLEAN /\ NONE \in Flag /\ BOOLEAN \subseteq Flag
  BY DEF SettingsOK, Flag
<1>1. ASSUME NEW v \in BOOLEAN, PutVisibility(c, v) PROVE WishInv'
  BY <1>0, <1>1, WishBegin DEF PutVisibility
<1>2. ASSUME NEW v \in BOOLEAN, NEW w \in BOOLEAN, PutBoth(c, v, w) PROVE WishInv'
  BY <1>0, <1>2, WishBegin DEF PutBoth
<1>3. CASE GetSettings(c)
  BY <1>0, <1>3, WishBegin DEF GetSettings
<1>4. CASE PutCheckUpdates(c)
  BY <1>4, WishPlainStep DEF PutCheckUpdates
<1>5. CASE PutLoad(c)
  <2>1. put[c].at = "load" /\ UNCHANGED <<up, adOn, beacon, file, wish, parted>>
    BY <1>5 DEF PutLoad
  <2>2. CASE put[c].ad = adOn
    BY <1>5, <2>1, <2>2, WishPlainStep DEF PutLoad
  <2>3. CASE put[c].ad # adOn
    <3>1. up = "up" /\ wish = NONE
      BY <2>1, <2>3 DEF WishInv, Standing
    <3> QED
      BY <1>5, <2>1, <2>3, <3>1, WishPlainStep DEF PutLoad
  <2> QED
    BY <2>2, <2>3
<1>6. CASE PutChange(c)
  <2>1. put[c].at = "change" /\ UNCHANGED <<up, adOn, file>>
    BY <1>6 DEF PutChange
  <2>2. CASE /\ (beacon' = put[c].ad /\ parted' = parted) \/ parted' = TRUE
             /\ Step(c, "store") /\ UNCHANGED wish
    BY <2>1, <2>2, WishChanged
  <2>3. CASE beacon' = beacon /\ Answer(c, FALSE) /\ UNCHANGED parted
    BY <2>1, <2>3, WishAnswered
  <2> QED
    BY <1>6, <2>2, <2>3 DEF PutChange
<1>7. CASE PutStore(c)
  BY <1>7, WishStored DEF PutStore
<1>8. CASE PutCheck(c)
  <2>1. /\ put[c].at = "check" /\ Step(c, "open")
        /\ UNCHANGED <<up, adOn, beacon, file, wish, parted>>
    BY <1>8 DEF PutCheck
  <2> QED
    BY <2>1, WishPlainStep
<1>9. CASE PutOpen(c)
  <2>1. put[c].at = "open" /\ UNCHANGED <<up, adOn, beacon, parted>>
    BY <1>9 DEF PutOpen
  <2>2. CASE file' = file /\ Answer(c, FALSE)
    BY <2>1, <2>2, WishAnswered
  <2>3. CASE /\ put' = [put EXCEPT ![c].snap = [ad |-> adOn, chk |-> chkOn], ![c].at = "write"]
             /\ UNCHANGED wish
    BY <2>1, <2>3, WishOpened
  <2> QED
    BY <1>9, <2>2, <2>3 DEF PutOpen
<1>10. CASE PutWrite(c)
  <2>1. put[c].at = "write" /\ UNCHANGED <<up, adOn, beacon, parted>>
    BY <1>10 DEF PutWrite
  <2>2. CASE file' = file /\ Answer(c, FALSE)
    BY <2>1, <2>2, WishAnswered
  <2>3. CASE file' = put[c].snap /\ Answer(c, TRUE)
    BY <2>1, <2>3, WishAnswered
  <2> QED
    BY <1>10, <2>2, <2>3 DEF PutWrite
<1> QED
  BY <1>1, <1>2, <1>3, <1>4, <1>5, <1>6, <1>7, <1>8, <1>9, <1>10

LEMMA WishStep ==
  ASSUME SettingsOK, WishInv, Next
  PROVE  WishInv'
<1>1. CASE SettingsCall
  BY <1>1, WishCall
<1>2. CASE LoadConfig
  <2>1. /\ up = "boot" /\ up' = "up" /\ adOn' = Loaded.ad
        /\ UNCHANGED <<file, put, wish, parted>>
        /\ beacon' = Loaded.ad \/ beacon' = FALSE
    BY <1>2 DEF LoadConfig
  <2>2. \A c \in Caller : put'[c].at = "idle"
    BY <2>1 DEF WishInv
  <2>3. wish # NONE => file # Cut /\ Loaded.ad = wish
    BY <2>1, <2>2 DEF WishInv
  <2>4. Loaded' = Loaded
    BY <2>1 DEF Loaded
  <2>5. Loaded.ad \in BOOLEAN
    BY DEF SettingsOK, Loaded, Config
  <2> QED
    BY <2>1, <2>2, <2>3, <2>4, <2>5 DEF WishInv, LoneCall, Standing
<1>3. CASE DaemonEnds
  <2>1. /\ up' = "down" /\ beacon' = FALSE /\ parted' = FALSE
        /\ UNCHANGED <<adOn, file>>
        /\ wish' = IF \E c \in Caller : put[c].at = "write" THEN NONE ELSE wish
    BY <1>3 DEF DaemonEnds
  <2>2. \A c \in Caller : put'[c].at = "idle"
    BY <1>3 DEF DaemonEnds, NoPut
  <2>3. wish' # NONE => file # Cut /\ Loaded.ad = wish
    BY <2>1 DEF WishInv
  <2>4. Loaded' = Loaded
    BY <2>1 DEF Loaded
  <2> QED
    BY <2>1, <2>2, <2>3, <2>4 DEF WishInv, LoneCall, Standing
<1>4. CASE UNCHANGED settings /\ (up' = up \/ (up = "down" /\ up' = "boot"))
  <2>1. UNCHANGED <<adOn, beacon, file, put, wish, parted>>
    BY <1>4 DEF settings
  <2>2. Loaded' = Loaded
    BY <2>1 DEF Loaded
  <2> QED
    BY <1>4, <2>1, <2>2 DEF WishInv, LoneCall, Standing
<1>5. up \in {"down", "boot", "up"}
  BY DEF SettingsOK
<1> QED
  BY <1>1, <1>2, <1>3, <1>4, <1>5, SettingsSteps

LEMMA WishFollows == WishInv => WishKept
<1> SUFFICES ASSUME WishInv, wish # NONE
             PROVE  /\ up = "up" => adOn = wish
                    /\ Busy = {} => file # Cut /\ Loaded.ad = wish
                    /\ ~wish /\ ~parted => ~beacon
  BY DEF WishKept
<1>1. Busy = {} => \A c \in Caller : put[c].at # "write"
  BY DEF Busy
<1>2. \A c \in Caller : put[c].at # "store"
  BY DEF WishInv, Standing
<1>3. up = "up" => adOn = wish
  BY DEF WishInv
<1>4. ~wish /\ ~parted => ~beacon
  BY <1>2, <1>3 DEF WishInv
<1> QED
  BY <1>1, <1>3, <1>4 DEF WishInv

----------------------------------------------------------------------------
(* Type correctness, continued *)

Bounds == [calls : Nat, faults : Nat, news : Nat, checks : Nat, applies : Nat]

LEMMA LeftStep ==
  ASSUME left \in Bounds, Next
  PROVE  left' \in Bounds
<1>1. CASE left' = left
  BY <1>1
<1>2. CASE \/ left.faults > 0 /\ left' = [left EXCEPT !.faults = @ - 1]
           \/ left.calls > 0 /\ left' = [left EXCEPT !.calls = @ - 1]
           \/ left.news > 0 /\ left' = [left EXCEPT !.news = @ - 1]
           \/ left.checks > 0 /\ left' = [left EXCEPT !.checks = @ - 1]
           \/ left.applies > 0 /\ left' = [left EXCEPT !.applies = @ - 1]
  BY <1>2 DEF Bounds
<1>3. CASE SettingsCall
  BY <1>1, <1>2, <1>3
     DEF SettingsCall, PutVisibility, PutBoth, GetSettings, Begin, PutCheckUpdates, PutLoad,
         PutChange, PutStore, PutCheck, PutOpen, PutWrite, Fault
<1>4. CASE Boot \/ WindowStep \/ QuitStep \/ CrashStep
  BY <1>1, <1>2, <1>4
     DEF Boot, LoadConfig, WindowStep, OpenWindow, WindowReady, WindowGivesUp, WindowDies,
         QuitStep, Quit, CrashStep, DaemonCrash, Fault
<1>5. CASE Elsewhere
  BY <1>1, <1>2, <1>5
     DEF Elsewhere, Publish, CheckBegins, CheckEnds, CheckDropped, ApplyBegins, ApplyDownloaded,
         ApplyFails, ApplyLaunched, ApplyDropped, Unzip, ScriptCopies, ScriptCopyFails, Fault, quiet
<1>6. ASSUME NEW j \in Job, ScriptKills(j) \/ ScriptKillFails(j) \/ ScriptEnds(j)
      PROVE  left' = left \/ Fault
  BY <1>6 DEF ScriptKills, ScriptKillFails, ScriptEnds, quiet
<1>7. CASE Fault
  BY <1>2, <1>7 DEF Fault
<1> QED
  BY <1>1, <1>3, <1>4, <1>5, <1>6, <1>7, StepCases

\* A call in progress always has a visibility to set.
SwitchesOK ==
  /\ up \in {"down", "boot", "up"}
  /\ adOn \in BOOLEAN /\ chkOn \in BOOLEAN /\ beacon \in BOOLEAN
  /\ file \in Config \cup {NONE, Cut}
  /\ put \in [Caller -> PutRec]
  /\ \A c \in Caller : put[c].at # "idle" => put[c].ad \in BOOLEAN
  /\ wish \in Flag /\ parted \in BOOLEAN

LEMMA BeginType ==
  ASSUME SwitchesOK, NEW c \in Caller, NEW at \in {"load", "got"},
         NEW by \in {"box", "update", "api"}, NEW ad \in BOOLEAN, NEW chk \in Flag,
         Begin(c, at, by, ad, chk)
  PROVE  SwitchesOK'
<1> DEFINE new == [NoPut EXCEPT !.at = at, !.by = by, !.ad = ad, !.chk = chk,
                                !.alone = (Busy = {})]
<1>1. new \in PutRec /\ new.ad = ad
  BY DEF NoPut, PutRec, Flag
<1> HIDE DEF new
<1>2. \A d \in Caller : [put[d] EXCEPT !.alone = FALSE] \in PutRec
  BY DEF SwitchesOK, PutRec
<1>3. put' = [d \in Caller |-> IF d = c THEN new ELSE [put[d] EXCEPT !.alone = FALSE]]
  BY DEF Begin, new
<1>4. put' \in [Caller -> PutRec]
  BY <1>1, <1>2, <1>3
<1>5. ASSUME NEW d \in Caller, put'[d].at # "idle" PROVE put'[d].ad \in BOOLEAN
  <2>1. CASE d = c
    BY <2>1, <1>1, <1>3
  <2>2. CASE d # c
    <3>1. put'[d] = [put[d] EXCEPT !.alone = FALSE] /\ put[d] \in PutRec
      BY <2>2, <1>3 DEF SwitchesOK
    <3>2. put'[d].at = put[d].at /\ put'[d].ad = put[d].ad
      BY <3>1 DEF PutRec
    <3> QED
      BY <1>5, <3>2 DEF SwitchesOK
  <2> QED
    BY <2>1, <2>2
<1>6. wish' \in Flag /\ parted' \in BOOLEAN
  BY DEF Begin, SwitchesOK, Flag
<1> QED
  BY <1>4, <1>5, <1>6 DEF Begin, SwitchesOK

LEMMA StepType ==
  ASSUME SwitchesOK, NEW c \in Caller, put[c].at # "idle", NEW at, Step(c, at),
         at \in {"load", "change", "store", "check", "open"}
  PROVE  /\ put' \in [Caller -> PutRec]
         /\ \A d \in Caller : put'[d].at # "idle" => put'[d].ad \in BOOLEAN
<1>1. put \in [Caller -> PutRec] /\ put[c] \in PutRec
  BY DEF SwitchesOK
<1>2. [put[c] EXCEPT !.at = at] \in PutRec /\ [put[c] EXCEPT !.at = at].ad = put[c].ad
  BY <1>1 DEF PutRec
<1>3. put' = [put EXCEPT ![c] = [put[c] EXCEPT !.at = at]]
  BY <1>1 DEF Step
<1> QED
  BY <1>1, <1>2, <1>3 DEF SwitchesOK

LEMMA AnswerType ==
  ASSUME SwitchesOK, NEW c \in Caller, NEW ok \in BOOLEAN, Answer(c, ok)
  PROVE  /\ put' \in [Caller -> PutRec]
         /\ \A d \in Caller : put'[d].at # "idle" => put'[d].ad \in BOOLEAN
         /\ wish' \in Flag
<1>1. NoPut \in PutRec /\ NoPut.at = "idle"
  BY DEF NoPut, PutRec, Flag
<1>2. put \in [Caller -> PutRec] /\ put' = [put EXCEPT ![c] = NoPut]
  BY DEF SwitchesOK, Answer
<1>3. put' \in [Caller -> PutRec]
  BY <1>1, <1>2
<1>4. \A d \in Caller : put'[d].at # "idle" => put'[d].ad \in BOOLEAN
  BY <1>1, <1>2 DEF SwitchesOK
<1>5. put[c].ad \in Flag
  BY <1>2 DEF PutRec
<1>6. wish' \in Flag
  BY <1>5 DEF Answer, SwitchesOK, Flag
<1> QED
  BY <1>3, <1>4, <1>6

LEMMA SwitchesCall ==
  ASSUME SwitchesOK, SettingsCall
  PROVE  SwitchesOK'
<1> PICK c \in Caller :
      \/ \E v \in BOOLEAN : PutVisibility(c, v)
      \/ \E v, w \in BOOLEAN : PutBoth(c, v, w)
      \/ GetSettings(c) \/ PutCheckUpdates(c)
      \/ PutLoad(c) \/ PutChange(c) \/ PutStore(c) \/ PutCheck(c)
      \/ PutOpen(c) \/ PutWrite(c)
  BY DEF SettingsCall
<1>0. adOn \in BOOLEAN /\ NONE \in Flag /\ BOOLEAN \subseteq Flag
  BY DEF SwitchesOK, Flag
<1>1. ASSUME NEW v \in BOOLEAN, PutVisibility(c, v) PROVE SwitchesOK'
  BY <1>0, <1>1, BeginType DEF PutVisibility
<1>2. ASSUME NEW v \in BOOLEAN, NEW w \in BOOLEAN, PutBoth(c, v, w) PROVE SwitchesOK'
  BY <1>0, <1>2, BeginType DEF PutBoth
<1>3. CASE GetSettings(c)
  BY <1>0, <1>3, BeginType DEF GetSettings
<1>4. CASE PutCheckUpdates(c)
  <2>1. put[c].at = "got" /\ Step(c, "load")
    BY <1>4 DEF PutCheckUpdates
  <2> QED
    BY <1>4, <2>1, StepType DEF PutCheckUpdates, SwitchesOK
<1>5. CASE PutLoad(c)
  <2>1. put[c].at = "load" /\ (Step(c, "change") \/ Step(c, "check"))
    BY <1>5 DEF PutLoad
  <2> QED
    BY <1>5, <2>1, StepType DEF PutLoad, SwitchesOK
<1>6. CASE PutChange(c)
  <2>1. put[c].at = "change" /\ put[c].ad \in BOOLEAN
    BY <1>6 DEF PutChange, SwitchesOK
  <2>2. CASE beacon' \in {put[c].ad, beacon} /\ Step(c, "store") /\ UNCHANGED wish
    BY <1>6, <2>1, <2>2, StepType DEF PutChange, SwitchesOK
  <2>3. CASE beacon' = beacon /\ Answer(c, FALSE)
    BY <1>6, <2>1, <2>3, AnswerType DEF PutChange, SwitchesOK
  <2> QED
    BY <1>6, <2>2, <2>3 DEF PutChange
<1>7. CASE PutStore(c)
  <2>1. put[c].at = "store" /\ put[c].ad \in BOOLEAN /\ Step(c, "check")
    BY <1>7 DEF PutStore, SwitchesOK
  <2> QED
    BY <1>7, <2>1, StepType DEF PutStore, SwitchesOK
<1>8. CASE PutCheck(c)
  <2>1. put[c].at = "check" /\ Step(c, "open")
    BY <1>8 DEF PutCheck
  <2>2. put[c].chk \in Flag
    BY DEF SwitchesOK, PutRec
  <2>3. chkOn' \in BOOLEAN
    BY <1>8, <2>2 DEF PutCheck, SwitchesOK, Flag
  <2> QED
    BY <1>8, <2>1, <2>3, StepType DEF PutCheck, SwitchesOK
<1>9. CASE PutOpen(c)
  <2>1. put[c].at = "open" /\ put[c] \in PutRec /\ UNCHANGED <<up, adOn, chkOn, beacon, parted>>
    BY <1>9 DEF PutOpen, SwitchesOK
  <2>2. CASE file' = file /\ Answer(c, FALSE)
    BY <2>1, <2>2, AnswerType DEF SwitchesOK
  <2>3. CASE /\ put' = [put EXCEPT ![c].snap = [ad |-> adOn, chk |-> chkOn], ![c].at = "write"]
             /\ file' = Cut
             /\ UNCHANGED wish
    <3> DEFINE new == [put[c] EXCEPT !.snap = [ad |-> adOn, chk |-> chkOn], !.at = "write"]
    <3>1. [ad |-> adOn, chk |-> chkOn] \in Config
      BY DEF SwitchesOK, Config
    <3>2. new \in PutRec /\ new.ad = put[c].ad
      BY <2>1, <3>1 DEF PutRec
    <3>3. put \in [Caller -> PutRec] /\ put' = [put EXCEPT ![c] = new]
      BY <2>3 DEF SwitchesOK
    <3> HIDE DEF new
    <3>4. put' \in [Caller -> PutRec]
      BY <3>2, <3>3
    <3>5. \A d \in Caller : put'[d].at # "idle" => put'[d].ad \in BOOLEAN
      BY <2>1, <3>2, <3>3 DEF SwitchesOK
    <3> QED
      BY <2>1, <2>3, <3>4, <3>5 DEF SwitchesOK
  <2> QED
    BY <1>9, <2>2, <2>3 DEF PutOpen
<1>10. CASE PutWrite(c)
  <2>1. put[c].at = "write" /\ UNCHANGED <<up, adOn, chkOn, beacon, parted>>
    BY <1>10 DEF PutWrite
  <2>2. Answer(c, TRUE) \/ Answer(c, FALSE)
    BY <1>10 DEF PutWrite
  <2>3. put[c].snap \in Config \cup {NONE}
    BY DEF SwitchesOK, PutRec
  <2>4. file' \in Config \cup {NONE, Cut}
    BY <1>10, <2>3 DEF PutWrite, SwitchesOK
  <2> QED
    BY <2>1, <2>2, <2>4, AnswerType DEF SwitchesOK
<1> QED
  BY <1>1, <1>2, <1>3, <1>4, <1>5, <1>6, <1>7, <1>8, <1>9, <1>10

LEMMA SwitchesStep ==
  ASSUME SwitchesOK, Next
  PROVE  SwitchesOK'
<1>1. CASE SettingsCall
  BY <1>1, SwitchesCall
<1>2. CASE LoadConfig
  <2>1. Loaded.ad \in BOOLEAN /\ Loaded.chk \in BOOLEAN
    BY DEF SwitchesOK, Loaded, Config
  <2>2. beacon' \in BOOLEAN
    BY <1>2, <2>1 DEF LoadConfig
  <2> QED
    BY <1>2, <2>1, <2>2 DEF LoadConfig, SwitchesOK
<1>3. CASE DaemonEnds
  <2>1. NoPut \in PutRec /\ NoPut.at = "idle"
    BY DEF NoPut, PutRec, Flag
  <2>2. put' = [c \in Caller |-> NoPut]
    BY <1>3 DEF DaemonEnds
  <2>3. wish' \in Flag
    BY <1>3 DEF DaemonEnds, SwitchesOK, Flag
  <2>4. /\ put' \in [Caller -> PutRec]
        /\ \A c \in Caller : put'[c].at # "idle" => put'[c].ad \in BOOLEAN
    BY <2>1, <2>2
  <2>5. up' = "down" /\ beacon' = FALSE /\ parted' = FALSE /\ UNCHANGED <<adOn, chkOn, file>>
    BY <1>3 DEF DaemonEnds
  <2> QED
    BY <2>3, <2>4, <2>5 DEF SwitchesOK
<1>4. CASE UNCHANGED settings /\ (up' = up \/ (up = "down" /\ up' = "boot"))
  BY <1>4 DEF settings, SwitchesOK
<1>5. up \in {"down", "boot", "up"}
  BY DEF SwitchesOK
<1> QED
  BY <1>1, <1>2, <1>3, <1>4, <1>5, SettingsSteps

----------------------------------------------------------------------------
(* The window, its daemon and the handle *)

LEMMA ShellStep ==
  ASSUME LauncherOK, up \in {"down", "boot", "up"}, ShellInv, Next
  PROVE  LauncherOK' /\ ShellInv'
<1>1. CASE SettingsCall /\ UNCHANGED <<shell, updater>>
  <2>1. up' = up
    BY <1>1
       DEF SettingsCall, PutVisibility, PutBoth, GetSettings, Begin, PutCheckUpdates, PutLoad,
           PutChange, PutStore, PutCheck, PutOpen, PutWrite
  <2> QED
    BY <1>1, <2>1 DEF LauncherOK, ShellInv, shell
<1>2. CASE Boot
  <2>1. up = "boot" /\ up' = "up" /\ UNCHANGED shell
    BY <1>2 DEF Boot, LoadConfig
  <2> QED
    BY <2>1 DEF LauncherOK, ShellInv, shell
<1>3. CASE WindowStep
  <2>1. CASE OpenWindow
    BY <2>1 DEF OpenWindow, EnsureDaemon, LauncherOK, ShellInv
  <2>2. CASE WindowReady
    BY <2>2 DEF WindowReady, LauncherOK, ShellInv
  <2>3. CASE WindowGivesUp \/ WindowDies
    BY <2>3 DEF WindowGivesUp, WindowDies, LauncherOK, ShellInv
  <2> QED
    BY <1>3, <2>1, <2>2, <2>3 DEF WindowStep
<1>4. CASE QuitStep
  <2>1. window = "up" /\ window' = "none" /\ child' = FALSE /\ UNCHANGED crashed
    BY <1>4 DEF QuitStep, Quit
  <2>2. IF child THEN up' = "down" /\ lost' = FALSE ELSE UNCHANGED <<up, lost>>
    BY <1>4 DEF QuitStep, Quit, DaemonStops, DaemonEnds
  <2> QED
    BY <2>1, <2>2 DEF LauncherOK, ShellInv
<1>5. CASE CrashStep
  <2>1. up' = "down" /\ crashed' = TRUE /\ lost' = FALSE /\ UNCHANGED <<window, child>>
    BY <1>5 DEF CrashStep, DaemonCrash, DaemonStops, DaemonEnds
  <2> QED
    BY <2>1 DEF LauncherOK, ShellInv
<1>6. CASE Elsewhere
  BY <1>6, ElsewhereFrame DEF LauncherOK, ShellInv, shell
<1>7. ASSUME NEW j \in Job, ScriptKills(j) \/ ScriptKillFails(j) PROVE LauncherOK' /\ ShellInv'
  <2>1. /\ crashed' = crashed
        /\ UNCHANGED <<window, child>> \/ (window' = "none" /\ child' = FALSE)
        /\ \/ up' = "down" /\ lost' = FALSE
           \/ up' = up /\ lost' = (up # "down") /\ window' = "none" /\ child' = FALSE
           \/ UNCHANGED <<up, lost, window, child>>
    <3>1. CASE ScriptKills(j)
      BY <3>1 DEF ScriptKills, DaemonStops, DaemonEnds
    <3>2. CASE ScriptKillFails(j)
      BY <3>2 DEF ScriptKillFails, DaemonStops, DaemonEnds
    <3> QED
      BY <1>7, <3>1, <3>2
  <2>2. CASE up' = "down" /\ lost' = FALSE
    BY <2>1, <2>2 DEF LauncherOK, ShellInv
  <2>3. CASE up' = up /\ lost' = (up # "down") /\ window' = "none" /\ child' = FALSE
    BY <2>1, <2>3 DEF LauncherOK, ShellInv
  <2>4. CASE UNCHANGED <<up, lost, window, child>>
    BY <2>1, <2>4 DEF LauncherOK, ShellInv
  <2> QED
    BY <2>1, <2>2, <2>3, <2>4
<1>8. ASSUME NEW j \in Job, ScriptEnds(j) PROVE LauncherOK' /\ ShellInv'
  <2>1. /\ UNCHANGED <<crashed, lost>>
        /\ IF window = "none" /\ up # "boot" THEN EnsureDaemon ELSE UNCHANGED <<up, window, child>>
    BY <1>8 DEF ScriptEnds
  <2> QED
    BY <2>1 DEF EnsureDaemon, LauncherOK, ShellInv
<1> QED
  BY <1>1, <1>2, <1>3, <1>4, <1>5, <1>6, <1>7, <1>8, StepCases

----------------------------------------------------------------------------
(* Types of the updater's variables *)

StOK ==
  st \in [status : Release \cup {[tag |-> v, zip |-> FALSE] : v \in Version \ {NONE}} \cup {NONE},
          checking : BOOLEAN, downloading : {NONE, 0, 50}, applied : BOOLEAN]

JobRec == [at : {"idle", "download", "unpack", "launch"}, rel : Version \cup {NONE}]

StageRec == [d : Version \cup {NONE}, w : Version \cup {NONE}]

ProcRec ==
  [at : {"none", "unzip", "unzip2", "wait", "copy", "copy2", "tidy"},
   pid : Pid \cup {NONE}, rel : Version \cup {NONE}]

FilesOK ==
  /\ zip \in [Pid -> Version \cup {NONE}]
  /\ stage \in [Pid -> StageRec]
  /\ proc \in [Job -> ProcRec]
  /\ installed \in [d : Version \ {NONE}, w : Version \ {NONE}]
  /\ pid \in Pid /\ app \in Version \ {NONE}

\* A PowerShell process that is at work has the process id of the daemon that
\* started it.
OwnedOK == \A j \in Job : proc[j].at # "none" => proc[j].pid \in Pid

MarksOK ==
  latest \in Release /\ asking \subseteq {"loop", "hand"}
    /\ goal \in Version \cup {NONE} /\ dropped \in BOOLEAN /\ clean \in BOOLEAN

TypeInv ==
  /\ SwitchesOK /\ left \in Bounds /\ LauncherOK
  /\ StOK /\ job \in [Job -> JobRec] /\ FilesOK /\ OwnedOK /\ MarksOK

LEMMA TypeFollows == TypeInv => TypeOK
BY DEF TypeInv, SwitchesOK, Bounds, PutRec, StOK, JobRec, FilesOK, StageRec, ProcRec, MarksOK,
       TypeOK, SettingsOK

LEMMA InitTypeInv == Init => TypeInv
<1> SUFFICES ASSUME Init PROVE TypeInv
  OBVIOUS
<1>1. TypeOK
  BY InitType
<1>2. SwitchesOK
  BY <1>1 DEF TypeOK, SettingsOK, SwitchesOK, PutRec, Init, SettingsInit, NoPut
<1>3. left \in Bounds
  BY <1>1 DEF TypeOK, SettingsOK, Bounds
<1>4. OwnedOK
  BY DEF Init, NoProc, OwnedOK
<1> QED
  BY <1>1, <1>2, <1>3, <1>4
     DEF TypeInv, TypeOK, StOK, JobRec, FilesOK, StageRec, ProcRec, MarksOK

LEMMA StStep ==
  ASSUME TypeInv, SwitchesOK', Next
  PROVE  StOK'
<1>0. st' = NoState => StOK'
  BY DEF NoState, StOK
<1>1. CASE SettingsCall /\ UNCHANGED <<shell, updater>>
  BY <1>1 DEF updater, TypeInv, StOK
<1>2. CASE Boot
  BY <1>2 DEF Boot, NoState, SwitchesOK, StOK
<1>3. CASE WindowStep
  BY <1>3 DEF WindowStep, TypeInv, StOK
<1>4. CASE QuitStep \/ CrashStep
  <2>1. st' = NoState \/ st' = st
    BY <1>4 DEF QuitStep, CrashStep, DaemonLosesIts
  <2> QED
    BY <1>0, <2>1 DEF TypeInv, StOK
<1>5. CASE Elsewhere
  <2> USE DEF TypeInv, StOK
  <2>1. ASSUME NEW r \in Release, Publish(r) PROVE StOK'
    BY <2>1 DEF Publish
  <2>2. ASSUME NEW by, CheckBegins(by) PROVE StOK'
    BY <2>2 DEF CheckBegins
  <2>3. ASSUME NEW by, CheckEnds(by) PROVE StOK'
    <3>1. latest \in Release
      BY DEF MarksOK
    <3>2. Current \in {[tag |-> v, zip |-> FALSE] : v \in Version \ {NONE}}
      BY DEF Current, FilesOK
    <3>3. CASE st' = [st EXCEPT !.checking = FALSE, !.status = latest, !.applied = FALSE]
      BY <3>1, <3>3
    <3>4. CASE st' = [st EXCEPT !.checking = FALSE, !.status = Current]
      BY <3>2, <3>4
    <3>5. CASE st' = [st EXCEPT !.checking = FALSE]
      BY <3>5
    <3> QED
      BY <2>3, <3>3, <3>4, <3>5 DEF CheckEnds
  <2>4. CASE CheckDropped
    BY <2>4 DEF CheckDropped
  <2>5. ASSUME NEW j \in Job, ApplyBegins(j) \/ ApplyDownloaded(j) \/ ApplyFails(j)
                                \/ ApplyLaunched(j) \/ ApplyDropped(j)
        PROVE  StOK'
    BY <2>5 DEF ApplyBegins, ApplyDownloaded, ApplyFails, ApplyLaunched, ApplyDropped
  <2>6. ASSUME NEW j \in Job, Unzip(j) \/ ScriptCopies(j) \/ ScriptCopyFails(j)
        PROVE  StOK'
    BY <2>6 DEF Unzip, ScriptCopies, ScriptCopyFails, alive
  <2> QED
    BY <1>5, <2>1, <2>2, <2>3, <2>4, <2>5, <2>6 DEF Elsewhere
<1>6. ASSUME NEW j \in Job, ScriptKills(j) \/ ScriptKillFails(j) \/ ScriptEnds(j)
      PROVE  StOK'
  <2>1. st' = NoState \/ st' = st
    BY <1>6 DEF ScriptKills, ScriptKillFails, ScriptEnds, DaemonLosesIts
  <2> QED
    BY <1>0, <2>1 DEF TypeInv, StOK
<1> QED
  BY <1>1, <1>2, <1>3, <1>4, <1>5, <1>6, StepCases

LEMMA JobStep ==
  ASSUME TypeInv, Next
  PROVE  job' \in [Job -> JobRec]
<1>0. job \in [Job -> JobRec] /\ NoJob \in JobRec
  BY DEF TypeInv, NoJob, JobRec
<1>1. CASE UNCHANGED job
  BY <1>1, <1>0
<1>2. CASE job' = [j \in Job |-> NoJob]
  BY <1>2, <1>0
<1>3. CASE SettingsCall /\ UNCHANGED <<shell, updater>>
  BY <1>1, <1>3 DEF updater
<1>4. CASE Boot \/ WindowStep \/ QuitStep \/ CrashStep
  BY <1>1, <1>2, <1>4 DEF Boot, WindowStep, QuitStep, CrashStep, DaemonLosesIts
<1>5. CASE Elsewhere
  <2>1. ASSUME NEW r \in Release, Publish(r) PROVE UNCHANGED job
    BY <2>1 DEF Publish
  <2>2. ASSUME NEW by, CheckBegins(by) \/ CheckEnds(by) \/ CheckDropped PROVE UNCHANGED job
    BY <2>2 DEF CheckBegins, CheckEnds, CheckDropped, checked
  <2>3. ASSUME NEW j \in Job, ApplyBegins(j) PROVE job' \in [Job -> JobRec]
    <3>1. st.status \in Release
      BY <2>3 DEF ApplyBegins, TypeInv, StOK
    <3>2. ParseVersion(st.status.tag) \in Version
      BY <3>1, VersionFacts
    <3>3. [at |-> "download", rel |-> ParseVersion(st.status.tag)] \in JobRec
      BY <3>2 DEF JobRec
    <3> QED
      BY <2>3, <3>3, <1>0 DEF ApplyBegins
  <2>4. ASSUME NEW j \in Job, ApplyDownloaded(j) \/ ApplyFails(j) \/ ApplyLaunched(j)
                                \/ ApplyDropped(j)
        PROVE  job' \in [Job -> JobRec]
    BY <2>4, <1>0 DEF ApplyDownloaded, ApplyFails, ApplyLaunched, ApplyDropped, JobRec
  <2>5. ASSUME NEW j \in Job, Unzip(j) \/ ScriptCopies(j) \/ ScriptCopyFails(j)
        PROVE  job' \in [Job -> JobRec]
    BY <2>5, <1>0 DEF Unzip, ScriptCopies, ScriptCopyFails, JobRec
  <2> QED
    BY <1>1, <1>5, <2>1, <2>2, <2>3, <2>4, <2>5 DEF Elsewhere
<1>6. ASSUME NEW j \in Job, ScriptKills(j) \/ ScriptKillFails(j) \/ ScriptEnds(j)
      PROVE  job' \in [Job -> JobRec]
  BY <1>1, <1>2, <1>6 DEF ScriptKills, ScriptKillFails, ScriptEnds, DaemonLosesIts
<1> QED
  BY <1>3, <1>4, <1>5, <1>6, StepCases

LEMMA MarksStep ==
  ASSUME TypeInv, Next
  PROVE  MarksOK'
<1>0. MarksOK /\ job \in [Job -> JobRec]
  BY DEF TypeInv
<1>1. CASE SettingsCall /\ UNCHANGED <<shell, updater>>
  BY <1>0, <1>1 DEF updater, MarksOK
<1>2. CASE Boot \/ WindowStep \/ QuitStep \/ CrashStep
  BY <1>0, <1>2 DEF Boot, WindowStep, QuitStep, CrashStep, DaemonLosesIts, MarksOK
<1>3. CASE Elsewhere
  <2>1. ASSUME NEW r \in Release, Publish(r) PROVE MarksOK'
    BY <1>0, <2>1 DEF Publish, MarksOK
  <2>2. ASSUME NEW by \in {"loop", "hand"}, CheckBegins(by) \/ CheckEnds(by) PROVE MarksOK'
    BY <1>0, <2>2 DEF CheckBegins, CheckEnds, checked, MarksOK
  <2>3. CASE CheckDropped
    BY <1>0, <2>3 DEF CheckDropped, checked, MarksOK
  <2>4. ASSUME NEW j \in Job, ApplyBegins(j) PROVE MarksOK'
    BY <1>0, <2>4 DEF ApplyBegins, still, MarksOK
  <2>5. ASSUME NEW j \in Job,
               ApplyDownloaded(j) \/ ApplyFails(j) \/ ApplyLaunched(j) \/ ApplyDropped(j)
        PROVE  MarksOK'
    <3>1. job[j].rel \in Version \cup {NONE}
      BY <1>0 DEF JobRec
    <3>2. UNCHANGED <<latest, asking, clean>>
      BY <2>5 DEF ApplyDownloaded, ApplyFails, ApplyLaunched, ApplyDropped, still
    <3>3. (goal' = goal \/ goal' = job[j].rel) /\ (dropped' = dropped \/ dropped' = TRUE)
      BY <2>5 DEF ApplyDownloaded, ApplyFails, ApplyLaunched, ApplyDropped
    <3> QED
      BY <1>0, <3>1, <3>2, <3>3 DEF MarksOK
  <2>6. ASSUME NEW j \in Job, Unzip(j) \/ ScriptCopies(j) \/ ScriptCopyFails(j)
        PROVE  MarksOK'
    BY <1>0, <2>6 DEF Unzip, ScriptCopies, ScriptCopyFails, alive, quiet, MarksOK
  <2> QED
    BY <1>3, <2>1, <2>2, <2>3, <2>4, <2>5, <2>6 DEF Elsewhere
<1>4. ASSUME NEW j \in Job, ScriptKills(j) \/ ScriptKillFails(j) \/ ScriptEnds(j)
      PROVE  MarksOK'
  BY <1>0, <1>4 DEF ScriptKills, ScriptKillFails, ScriptEnds, DaemonLosesIts, quiet, MarksOK
<1> QED
  BY <1>1, <1>2, <1>3, <1>4, StepCases

LEMMA FreePidFact ==
  ASSUME \E p \in Pid : \A j \in Job : proc[j].pid # p
  PROVE  FreePid \in Pid /\ \A j \in Job : proc[j].pid # FreePid
BY DEF FreePid

files == <<zip, stage, proc, installed, pid, app>>

LEMMA FilesStep ==
  ASSUME TypeInv, Next
  PROVE  FilesOK' /\ OwnedOK'
<1>0. FilesOK /\ OwnedOK /\ job \in [Job -> JobRec]
  BY DEF TypeInv
<1>1. CASE UNCHANGED files
  BY <1>0, <1>1 DEF files, FilesOK, OwnedOK
<1>2. NoProc \in ProcRec /\ NoProc.at = "none" /\ Nothing \in StageRec
  BY DEF NoProc, ProcRec, Nothing, StageRec
<1>3. CASE \/ SettingsCall /\ UNCHANGED <<shell, updater>>
           \/ WindowStep \/ QuitStep \/ CrashStep
  BY <1>1, <1>3 DEF updater, files, WindowStep, QuitStep, CrashStep
<1>4. CASE Boot
  <2>1. FreePid \in Pid
    BY <1>4, FreePidFact DEF Boot
  <2>2. /\ pid' = FreePid /\ app' = installed.d /\ UNCHANGED <<proc, installed>>
        /\ zip' = [zip EXCEPT ![FreePid] = NONE] /\ stage' = [stage EXCEPT ![FreePid] = Nothing]
    BY <1>4 DEF Boot
  <2> QED
    BY <1>0, <1>2, <2>1, <2>2 DEF FilesOK, OwnedOK
<1>5. CASE Elsewhere
  <2>1. ASSUME NEW r \in Release, Publish(r) PROVE UNCHANGED files
    BY <2>1 DEF Publish, files
  <2>2. ASSUME NEW by, CheckBegins(by) \/ CheckEnds(by) \/ CheckDropped PROVE UNCHANGED files
    BY <2>2 DEF CheckBegins, CheckEnds, CheckDropped, checked, files
  <2>3. ASSUME NEW j \in Job, ApplyBegins(j) \/ ApplyFails(j) \/ ApplyDropped(j)
        PROVE  UNCHANGED files
    BY <2>3 DEF ApplyBegins, ApplyFails, ApplyDropped, still, files
  <2>4. ASSUME NEW j \in Job, ApplyDownloaded(j) PROVE FilesOK' /\ OwnedOK'
    <3>1. job[j].rel \in Version \cup {NONE}
      BY <1>0 DEF JobRec
    <3>2. [at |-> "unzip", pid |-> pid, rel |-> job[j].rel] \in ProcRec
      BY <1>0, <3>1 DEF FilesOK, ProcRec
    <3>3. /\ zip' = [zip EXCEPT ![pid] = job[j].rel]
          /\ proc' = [proc EXCEPT ![j] = [at |-> "unzip", pid |-> pid, rel |-> job[j].rel]]
          /\ UNCHANGED <<stage, installed, pid, app>>
      BY <2>4 DEF ApplyDownloaded, still
    <3> QED
      BY <1>0, <3>1, <3>2, <3>3 DEF FilesOK, OwnedOK
  <2>5. ASSUME NEW j \in Job, ApplyLaunched(j) PROVE FilesOK' /\ OwnedOK'
    <3>1. [at |-> "wait", pid |-> pid, rel |-> job[j].rel] \in ProcRec
      BY <1>0 DEF FilesOK, ProcRec, JobRec
    <3>2. /\ proc' = [proc EXCEPT ![j] = [at |-> "wait", pid |-> pid, rel |-> job[j].rel]]
          /\ UNCHANGED <<zip, stage, installed, pid, app>>
      BY <2>5 DEF ApplyLaunched, still
    <3> QED
      BY <1>0, <3>1, <3>2 DEF FilesOK, OwnedOK
  <2>6. ASSUME NEW j \in Job, Unzip(j) PROVE FilesOK' /\ OwnedOK'
    <3> DEFINE p == proc[j].pid
    <3>1. UNCHANGED <<zip, installed, pid, app>>
      BY <2>6 DEF Unzip, quiet
    <3>2. proc[j].at # "none"
      BY <2>6 DEF Unzip
    <3>3. p \in Pid /\ zip[p] \in Version \cup {NONE} /\ stage[p] \in StageRec
      BY <1>0, <3>2 DEF FilesOK, OwnedOK
    <3>4. [stage[p] EXCEPT !.d = zip[p]] \in StageRec /\ [stage[p] EXCEPT !.w = zip[p]] \in StageRec
      BY <3>3 DEF StageRec
    <3>5. stage' \in [Pid -> StageRec]
      BY <2>6, <1>0, <3>3, <3>4 DEF Unzip, FilesOK
    <3>6. proc' = [proc EXCEPT ![j].at = "unzip2"] \/ proc' = [proc EXCEPT ![j] = NoProc]
      BY <2>6 DEF Unzip
    <3>7. proc' \in [Job -> ProcRec]
      BY <1>0, <1>2, <3>6 DEF FilesOK, ProcRec
    <3>8. OwnedOK'
      BY <1>0, <1>2, <3>3, <3>6 DEF FilesOK, OwnedOK, ProcRec
    <3> QED
      BY <1>0, <3>1, <3>5, <3>7, <3>8 DEF FilesOK
  <2>7. ASSUME NEW j \in Job, ScriptCopies(j) \/ ScriptCopyFails(j) PROVE FilesOK' /\ OwnedOK'
    <3> DEFINE s == stage[proc[j].pid]
    <3>1. UNCHANGED <<zip, stage, pid, app>>
      BY <2>7 DEF ScriptCopies, ScriptCopyFails, quiet
    <3>2. proc[j].at # "none"
      BY <2>7 DEF ScriptCopies, ScriptCopyFails
    <3>3. proc[j].pid \in Pid /\ s \in StageRec
      BY <1>0, <3>2 DEF FilesOK, OwnedOK
    <3>4. \/ installed' = installed
          \/ s.d # NONE /\ installed' = [installed EXCEPT !.d = s.d]
          \/ s.w # NONE /\ installed' = [installed EXCEPT !.w = s.w]
      BY <2>7 DEF ScriptCopies, ScriptCopyFails
    <3>5. installed' \in [d : Version \ {NONE}, w : Version \ {NONE}]
      BY <1>0, <3>3, <3>4 DEF FilesOK, StageRec
    <3>6. proc' = [proc EXCEPT ![j].at = "copy2"] \/ proc' = [proc EXCEPT ![j].at = "tidy"]
      BY <2>7 DEF ScriptCopies, ScriptCopyFails
    <3>7. proc' \in [Job -> ProcRec] /\ OwnedOK'
      BY <1>0, <3>3, <3>6 DEF FilesOK, ProcRec, OwnedOK
    <3> QED
      BY <1>0, <3>1, <3>5, <3>7 DEF FilesOK
  <2> QED
    BY <1>1, <1>5, <2>1, <2>2, <2>3, <2>4, <2>5, <2>6, <2>7 DEF Elsewhere
<1>6. ASSUME NEW j \in Job, ScriptKills(j) \/ ScriptKillFails(j) PROVE FilesOK' /\ OwnedOK'
  <2>1. /\ proc[j].at = "wait" /\ proc' = [proc EXCEPT ![j].at = "copy"]
        /\ UNCHANGED <<zip, stage, installed, pid, app>>
    BY <1>6 DEF ScriptKills, ScriptKillFails, quiet
  <2> QED
    BY <1>0, <2>1 DEF FilesOK, ProcRec, OwnedOK
<1>7. ASSUME NEW j \in Job, ScriptEnds(j) PROVE FilesOK' /\ OwnedOK'
  <2> DEFINE p == proc[j].pid
  <2>1. /\ proc[j].at = "tidy" /\ proc' = [proc EXCEPT ![j] = NoProc]
        /\ zip' = [zip EXCEPT ![p] = NONE] /\ stage' = [stage EXCEPT ![p] = Nothing]
        /\ UNCHANGED <<installed, pid, app>>
    BY <1>7 DEF ScriptEnds, quiet
  <2>2. p \in Pid
    BY <1>0, <2>1 DEF OwnedOK
  <2> QED
    BY <1>0, <1>2, <2>1, <2>2 DEF FilesOK, OwnedOK
<1> QED
  BY <1>3, <1>4, <1>5, <1>6, <1>7, StepCases

LEMMA TypeStep ==
  ASSUME TypeInv, ShellInv, Next
  PROVE  TypeInv' /\ ShellInv'
<1>1. SwitchesOK /\ LauncherOK /\ left \in Bounds
  BY DEF TypeInv
<1>2. SwitchesOK' /\ left' \in Bounds
  BY <1>1, SwitchesStep, LeftStep
<1>3. LauncherOK' /\ ShellInv'
  BY <1>1, ShellStep DEF SwitchesOK
<1> QED
  BY <1>2, <1>3, StStep, JobStep, FilesStep, MarksStep DEF TypeInv

LEMMA ShellStutter ==
  ASSUME TypeInv, ShellInv, UNCHANGED vars
  PROVE  TypeInv' /\ ShellInv'
<1>1. UNCHANGED <<up, adOn, chkOn, beacon, file, put, wish, parted, left, window, child, crashed,
                  lost, latest, st, asking, job, zip, stage, proc, installed, pid, app, dropped,
                  goal, clean>>
  BY DEF vars, settings, shell, updater
<1>2. SwitchesOK'
  BY <1>1 DEF TypeInv, SwitchesOK
<1>3. StOK' /\ job' \in [Job -> JobRec] /\ FilesOK' /\ OwnedOK' /\ MarksOK'
  BY <1>1 DEF TypeInv, StOK, FilesOK, OwnedOK, MarksOK
<1>4. LauncherOK' /\ ShellInv'
  BY <1>1 DEF TypeInv, LauncherOK, ShellInv
<1> QED
  BY <1>1, <1>2, <1>3, <1>4 DEF TypeInv

LEMMA TypeAlways == Spec => [](TypeInv /\ ShellInv)
<1>1. Init => TypeInv /\ ShellInv
  BY InitTypeInv DEF Init, LauncherInit, SettingsInit, ShellInv
<1>2. (TypeInv /\ ShellInv) /\ [Next]_vars => (TypeInv /\ ShellInv)'
  BY TypeStep, ShellStutter
<1> QED
  BY <1>1, <1>2, PTL DEF Spec

\* Type correctness of the settings, the launcher and the updater.
THEOREM UpdaterTypeCorrect == Spec => []TypeOK
BY TypeAlways, TypeFollows, PTL

\* The daemon does not outlive the windows that used it while one of them has its handle,
\* for any number of windows, crashes and scripts (ensure_daemon, stop_daemon and the quit
\* command).
THEOREM DaemonGoesWithItsWindow == Spec => []NoDaemonLeft
<1>1. ShellInv => NoDaemonLeft
  BY DEF ShellInv, NoDaemonLeft
<1> QED
  BY <1>1, TypeAlways, PTL

LEMMA WishStutter ==
  ASSUME WishInv, UNCHANGED vars
  PROVE  WishInv'
<1>1. UNCHANGED <<up, adOn, beacon, file, put, wish, parted>>
  BY DEF vars, settings
<1>2. Loaded' = Loaded
  BY <1>1 DEF Loaded
<1> QED
  BY <1>1, <1>2 DEF WishInv, LoneCall, Standing

\* What the owner was told about his visibility holds, for any number of calls that
\* overlap in any way and restarts, with the exceptions that WishKept names (put_settings,
\* persist_settings, main).
THEOREM ChoiceIsKept == Spec => []WishKept
<1>1. Init => WishInv
  <2> SUFFICES ASSUME Init PROVE WishInv
    OBVIOUS
  <2>1. up = "down" /\ beacon = FALSE /\ wish = NONE
    BY DEF Init, SettingsInit
  <2>2. \A c \in Caller : put[c].at = "idle" /\ put[c].alone = FALSE
    BY DEF Init, SettingsInit, NoPut
  <2>3. \A c \in Caller : LoneCall(c)
    BY <2>2 DEF LoneCall
  <2> QED
    BY <2>1, <2>2, <2>3 DEF WishInv
<1>2. TypeInv /\ WishInv /\ [Next]_vars => WishInv'
  <2>1. TypeInv => SettingsOK
    BY TypeFollows DEF TypeOK
  <2> QED
    BY <2>1, WishStep, WishStutter
<1> QED
  BY <1>1, <1>2, TypeAlways, WishFollows, PTL DEF Spec

----------------------------------------------------------------------------
(* Progress *)

LEMMA ProgressStep ==
  ASSUME TypeInv, ProgressIsReal, Next
  PROVE  ProgressIsReal'
<1>0. /\ st \in [status : Release \cup {[tag |-> v, zip |-> FALSE] : v \in Version \ {NONE}}
                            \cup {NONE},
                 checking : BOOLEAN, downloading : {NONE, 0, 50}, applied : BOOLEAN]
      /\ job \in [Job -> JobRec]
  BY DEF TypeInv, StOK
<1>1. CASE st'.downloading = NONE \/ dropped'
  BY <1>1 DEF ProgressIsReal
<1>2. CASE UNCHANGED <<job, dropped>> /\ st'.downloading = st.downloading
  BY <1>2 DEF ProgressIsReal
<1>3. CASE SettingsCall /\ UNCHANGED <<shell, updater>>
  BY <1>2, <1>3 DEF updater
<1>4. CASE Boot \/ WindowStep \/ QuitStep \/ CrashStep
  <2>1. \/ st'.downloading = NONE
        \/ UNCHANGED <<st, job, dropped>>
    BY <1>4 DEF Boot, WindowStep, QuitStep, CrashStep, DaemonLosesIts, NoState
  <2> QED
    BY <1>1, <1>2, <2>1
<1>5. CASE Elsewhere
  <2>1. ASSUME NEW r \in Release, Publish(r) PROVE UNCHANGED <<st, job, dropped>>
    BY <2>1 DEF Publish
  <2>2. ASSUME NEW by, CheckBegins(by) \/ CheckEnds(by)
        PROVE  UNCHANGED <<job, dropped>> /\ st'.downloading = st.downloading
    BY <1>0, <2>2 DEF CheckBegins, CheckEnds, checked
  <2>3. CASE CheckDropped
    BY <1>1, <2>3 DEF CheckDropped
  <2>4. ASSUME NEW j \in Job, ApplyBegins(j) \/ ApplyDownloaded(j) PROVE job'[j].at # "idle"
    BY <1>0, <2>4 DEF ApplyBegins, ApplyDownloaded, JobRec
  <2>5. ASSUME NEW j \in Job, ApplyFails(j) \/ ApplyLaunched(j) PROVE st'.downloading = NONE
    BY <1>0, <2>5 DEF ApplyFails, ApplyLaunched
  <2>6. ASSUME NEW j \in Job, ApplyDropped(j) PROVE dropped'
    BY <2>6 DEF ApplyDropped
  <2>7. ASSUME NEW j \in Job, Unzip(j) \/ ScriptCopies(j) \/ ScriptCopyFails(j)
        PROVE  ProgressIsReal'
    <3>1. UNCHANGED <<st, dropped>>
      BY <2>7 DEF Unzip, ScriptCopies, ScriptCopyFails, alive, quiet
    <3>2. \A k \in Job : job[k].at # "idle" => job'[k].at # "idle"
      BY <1>0, <2>7 DEF Unzip, ScriptCopies, ScriptCopyFails, JobRec
    <3> QED
      BY <3>1, <3>2 DEF ProgressIsReal
  <2> QED
    BY <1>1, <1>2, <1>5, <2>1, <2>2, <2>3, <2>4, <2>5, <2>6, <2>7 DEF Elsewhere, ProgressIsReal
<1>6. ASSUME NEW j \in Job, ScriptKills(j) \/ ScriptKillFails(j) \/ ScriptEnds(j)
      PROVE  ProgressIsReal'
  <2>1. st'.downloading = NONE \/ UNCHANGED <<st, job, dropped>>
    BY <1>6 DEF ScriptKills, ScriptKillFails, ScriptEnds, DaemonLosesIts, NoState, quiet
  <2> QED
    BY <1>1, <1>2, <2>1
<1> QED
  BY <1>3, <1>4, <1>5, <1>6, StepCases

\* The progress that the UI shows stands for an apply call that is running, for any
\* number of them (apply_update, download_and_stage).
THEOREM ProgressStandsForAnApply == Spec => []ProgressIsReal
<1>1. Init => ProgressIsReal
  BY DEF Init, NoState, ProgressIsReal
<1>2. TypeInv /\ ProgressIsReal /\ [Next]_vars => ProgressIsReal'
  <2>1. UNCHANGED vars => UNCHANGED <<st, job, dropped>>
    BY DEF vars, updater
  <2> QED
    BY <2>1, ProgressStep DEF ProgressIsReal
<1> QED
  BY <1>1, <1>2, TypeAlways, PTL DEF Spec

----------------------------------------------------------------------------
(* Versions *)

\* A tag gives a version of three numbers, or none.
LEMMA ParsedTag ==
  ASSUME NEW tag \in Seq(Nat \cup {Junk})
  PROVE  ParseVersion(tag) \in Triple \cup {NONE}
<1> DEFINE part(i) == IF i <= Len(tag) THEN tag[i] ELSE 0
<1>1. ASSUME NEW i \in 1..3 PROVE part(i) \in Nat \cup {Junk}
  <2>1. CASE i <= Len(tag)
    BY <2>1, ElementOfSeq
  <2>2. CASE ~(i <= Len(tag))
    BY <2>2
  <2> QED
    BY <2>1, <2>2
<1>2. ParseVersion(tag) =
        IF Len(tag) = 0 \/ \E i \in 1..3 : part(i) = Junk THEN NONE
        ELSE <<part(1), part(2), part(3)>>
  BY DEF ParseVersion
<1>3. 1 \in 1..3 /\ 2 \in 1..3 /\ 3 \in 1..3
  OBVIOUS
<1> HIDE DEF part
<1>4. (\A i \in 1..3 : part(i) # Junk) => part(1) \in Nat /\ part(2) \in Nat /\ part(3) \in Nat
  BY <1>1, <1>3
<1> QED
  BY <1>2, <1>4 DEF Triple

\* A version reads as itself.
LEMMA ParsedVersion ==
  ASSUME NEW v \in Triple
  PROVE  ParseVersion(v) = v
<1>1. v = <<v[1], v[2], v[3]>> /\ v[1] \in Nat /\ v[2] \in Nat /\ v[3] \in Nat
  BY DEF Triple
<1>2. Len(v) = 3
  BY <1>1
<1>3. Junk \notin Nat
  BY UpdaterAssumption
<1> DEFINE part(i) == IF i <= Len(v) THEN v[i] ELSE 0
<1>4. part(1) = v[1] /\ part(2) = v[2] /\ part(3) = v[3]
  BY <1>2
<1>5. ParseVersion(v) =
        IF Len(v) = 0 \/ \E i \in 1..3 : part(i) = Junk THEN NONE
        ELSE <<part(1), part(2), part(3)>>
  BY DEF ParseVersion
<1> HIDE DEF part
<1>6. \A i \in 1..3 : i = 1 \/ i = 2 \/ i = 3
  OBVIOUS
<1>7. ~ \E i \in 1..3 : part(i) = Junk
  BY <1>1, <1>3, <1>4, <1>6
<1> QED
  BY <1>1, <1>2, <1>4, <1>5, <1>7

LEMMA VersionTriple == Version \ {NONE} \subseteq Triple
<1>1. First \in Triple
  BY UpdaterAssumption DEF Triple
<1>2. ASSUME NEW r \in Release PROVE ParseVersion(r.tag) \in Triple \cup {NONE}
  BY UpdaterAssumption, ParsedTag
<1> QED
  BY <1>1, <1>2 DEF Version

\* What version_gt lets pass is a version and newer than the daemon's.
LEMMA NewerTag ==
  ASSUME NEW r \in Release, NEW v \in Version \ {NONE}, VersionGt(r.tag, v)
  PROVE  ParseVersion(r.tag) \in Triple /\ TupleGt(ParseVersion(r.tag), v)
<1>1. v \in Triple /\ v # NONE
  BY VersionTriple
<1>2. ParseVersion(v) = v
  BY <1>1, ParsedVersion
<1>3. ParseVersion(r.tag) \in Triple \cup {NONE}
  BY UpdaterAssumption, ParsedTag
<1> QED
  BY <1>1, <1>2, <1>3 DEF VersionGt

LEMMA GtIsNotOlder ==
  ASSUME NEW a \in Triple, NEW b \in Triple, TupleGt(a, b)
  PROVE  ~Older(a, b)
<1>1. /\ a[1] \in Nat /\ a[2] \in Nat /\ a[3] \in Nat
      /\ b[1] \in Nat /\ b[2] \in Nat /\ b[3] \in Nat
  BY DEF Triple
<1>2. PICK i \in 1..3 : a[i] > b[i] /\ \A j \in 1..(i - 1) : a[j] = b[j]
  BY DEF TupleGt
<1>3. CASE i = 1
  BY <1>1, <1>2, <1>3 DEF Older
<1>4. CASE i = 2
  <2>1. a[1] = b[1]
    BY <1>2, <1>4
  <2> QED
    BY <1>1, <1>2, <1>4, <2>1 DEF Older
<1>5. CASE i = 3
  <2>1. a[1] = b[1] /\ a[2] = b[2]
    BY <1>2, <1>5
  <2> QED
    BY <1>1, <1>2, <1>5, <2>1 DEF Older
<1> QED
  BY <1>3, <1>4, <1>5

LEMMA NotOlderThanItself ==
  ASSUME NEW a \in Triple
  PROVE  ~Older(a, a)
BY DEF Older, Triple

----------------------------------------------------------------------------
(* Staged versions are newer than the installed daemon *)

\* Steps that leave the files and the PowerShell processes alone, start no apply and
\* start no daemon.
LEMMA SwapFrame ==
  ASSUME SwapInv, UNCHANGED files,
         up' = up \/ up' # "up",
         \A j \in Job : job'[j] = job[j] \/ job'[j].at = "idle",
         up' # "up" => \A j \in Job : job'[j].at = "idle"
  PROVE  SwapInv'
<1>1. UNCHANGED <<zip, stage, proc, installed, pid, app>>
  BY DEF files
<1>2. Scripts' = Scripts
  BY <1>1 DEF Scripts
<1>3. \A v : NewerOrNone(v)' <=> NewerOrNone(v)
  BY <1>1 DEF NewerOrNone
<1>4. \A p : Fresh(p)' <=> Fresh(p)
  BY <1>1 DEF Fresh, NewerOrNone
<1>5. up' = "up" => app' = installed'.d /\ Fresh(pid)'
  BY <1>1, <1>4 DEF SwapInv, Fresh, NewerOrNone
<1>6. \A j \in Job : JobInv(j)'
  <2> SUFFICES ASSUME NEW j \in Job PROVE JobInv(j)'
    OBVIOUS
  <2>1. JobInv(j)
    BY DEF SwapInv
  <2>2. CASE job'[j] = job[j]
    BY <1>1, <2>1, <2>2 DEF JobInv, NewerOrNone
  <2>3. CASE job'[j].at = "idle"
    BY <2>3 DEF JobInv
  <2> QED
    BY <2>2, <2>3
<1>7. ASSUME NEW i \in Scripts PROVE ScriptInv(i)'
  <2>1. ScriptInv(i)
    BY DEF SwapInv
  <2>2. \A j \in Job : job'[j].at \in {"unpack", "launch"} => proc'[i].pid = pid'
    BY <1>1, <2>1 DEF ScriptInv
  <2>3. (\A j \in Scripts' : proc'[j].at \notin {"copy2", "tidy"}) => Fresh(proc[i].pid)'
    BY <1>1, <1>2, <2>1 DEF ScriptInv, Fresh, NewerOrNone
  <2> QED
    BY <1>1, <1>2, <2>1, <2>2, <2>3 DEF ScriptInv
<1> QED
  BY <1>2, <1>5, <1>6, <1>7 DEF SwapInv

\* A new daemon: a process id that no PowerShell process has, and an empty stage.
LEMMA SwapBoot ==
  ASSUME TypeInv, SwapInv, Boot
  PROVE  SwapInv'
<1>0. FreePid \in Pid /\ \A j \in Job : proc[j].pid # FreePid
  BY FreePidFact DEF Boot
<1>1. /\ pid' = FreePid /\ app' = installed.d /\ UNCHANGED <<proc, installed>>
      /\ zip' = [zip EXCEPT ![FreePid] = NONE] /\ stage' = [stage EXCEPT ![FreePid] = Nothing]
      /\ up' = "up"
  BY DEF Boot, LoadConfig
<1>2. \A j \in Job : job'[j].at = "idle"
  BY DEF Boot, NoJob
<1>3. zip \in [Pid -> Version \cup {NONE}] /\ stage \in [Pid -> StageRec]
  BY DEF TypeInv, FilesOK
<1>4. zip'[pid'] = NONE /\ stage'[pid'].d = NONE /\ stage'[pid'].w = NONE
  BY <1>0, <1>1, <1>3 DEF Nothing
<1>5. Fresh(pid)'
  BY <1>4 DEF Fresh, NewerOrNone
<1>6. \A j \in Job : JobInv(j)'
  BY <1>1, <1>2 DEF JobInv
<1>7. Scripts' = Scripts /\ Scripts \subseteq Job
  BY <1>1 DEF Scripts
<1>8. ASSUME NEW i \in Scripts PROVE ScriptInv(i)'
  <2>1. ScriptInv(i) /\ i \in Job
    BY <1>7 DEF SwapInv
  <2>2. /\ proc'[i] = proc[i] /\ proc'[i].pid # pid'
        /\ zip'[proc[i].pid] = zip[proc[i].pid] /\ stage'[proc[i].pid] = stage[proc[i].pid]
    <3>1. proc[i].pid \in Pid
      BY <2>1 DEF Scripts, TypeInv, OwnedOK
    <3> QED
      BY <1>0, <1>1, <1>3, <2>1, <3>1
  <2>3. \A j \in Job : job'[j].at \notin {"unpack", "launch"}
    BY <1>2
  <2>4. Fresh(proc[i].pid) => Fresh(proc[i].pid)'
    BY <1>1, <2>2 DEF Fresh, NewerOrNone
  <2> QED
    BY <1>1, <1>7, <2>1, <2>2, <2>3, <2>4 DEF ScriptInv
<1> QED
  BY <1>1, <1>5, <1>6, <1>7, <1>8 DEF SwapInv

LEMMA SwapApplyBegins ==
  ASSUME TypeInv, SwapInv, NEW j \in Job, ApplyBegins(j)
  PROVE  SwapInv'
<1>1. UNCHANGED <<up, zip, stage, proc, installed, pid, app>>
  BY DEF ApplyBegins, still
<1>2. /\ up = "up" /\ proc[j].at = "none"
      /\ job' = [job EXCEPT ![j] = [at |-> "download", rel |-> ParseVersion(st.status.tag)]]
  BY DEF ApplyBegins
<1>3. job \in [Job -> JobRec] /\ app \in Version \ {NONE} /\ app = installed.d
  BY <1>2 DEF TypeInv, FilesOK, SwapInv
<1>4. st.status \in Release
  BY DEF ApplyBegins, TypeInv, StOK
<1>5. NewerOrNone(ParseVersion(st.status.tag))
  <2>1. ParseVersion(st.status.tag) \in Triple /\ TupleGt(ParseVersion(st.status.tag), app)
    BY <1>3, <1>4, NewerTag DEF ApplyBegins
  <2> QED
    BY <1>3, <2>1 DEF NewerOrNone
<1>6. /\ job'[j].at = "download" /\ job'[j].rel = ParseVersion(st.status.tag)
      /\ \A k \in Job \ {j} : job'[k] = job[k]
  BY <1>2, <1>3
<1>7. \A k \in Job : JobInv(k)'
  <2> SUFFICES ASSUME NEW k \in Job PROVE JobInv(k)'
    OBVIOUS
  <2>1. CASE k = j
    BY <1>1, <1>2, <1>5, <1>6, <2>1 DEF JobInv, NewerOrNone
  <2>2. CASE k # j
    <3>1. JobInv(k)
      BY DEF SwapInv
    <3> QED
      BY <1>1, <1>6, <2>2, <3>1 DEF JobInv, NewerOrNone
  <2> QED
    BY <2>1, <2>2
<1>8. Scripts' = Scripts
  BY <1>1 DEF Scripts
<1>9. up' = "up" => app' = installed'.d /\ Fresh(pid)'
  BY <1>1 DEF SwapInv, Fresh, NewerOrNone
<1>10. ASSUME NEW i \in Scripts PROVE ScriptInv(i)'
  <2>1. ScriptInv(i)
    BY DEF SwapInv
  <2>2. \A k \in Job : job'[k].at \in {"unpack", "launch"} => job[k].at \in {"unpack", "launch"}
    BY <1>6
  <2>3. Fresh(proc[i].pid) => Fresh(proc[i].pid)'
    BY <1>1 DEF Fresh, NewerOrNone
  <2> QED
    BY <1>1, <1>8, <2>1, <2>2, <2>3 DEF ScriptInv
<1> QED
  BY <1>7, <1>8, <1>9, <1>10 DEF SwapInv

LEMMA SwapDownloaded ==
  ASSUME TypeInv, SwapInv, NEW j \in Job, ApplyDownloaded(j)
  PROVE  SwapInv'
<1>1. /\ UNCHANGED <<up, stage, installed, pid, app>>
      /\ job[j].at = "download"
      /\ zip' = [zip EXCEPT ![pid] = job[j].rel]
      /\ job' = [job EXCEPT ![j].at = "unpack"]
      /\ proc' = [proc EXCEPT ![j] = [at |-> "unzip", pid |-> pid, rel |-> job[j].rel]]
      /\ \A k \in Scripts : proc[k].pid = pid
  BY DEF ApplyDownloaded, still
<1>2. /\ job \in [Job -> JobRec] /\ proc \in [Job -> ProcRec] /\ pid \in Pid
      /\ zip \in [Pid -> Version \cup {NONE}]
  BY DEF TypeInv, FilesOK
<1>3. /\ job'[j].at = "unpack" /\ job'[j].rel = job[j].rel
      /\ \A k \in Job \ {j} : job'[k] = job[k]
  BY <1>1, <1>2 DEF JobRec
<1>4. /\ proc'[j].at = "unzip" /\ proc'[j].pid = pid
      /\ \A k \in Job \ {j} : proc'[k] = proc[k]
  BY <1>1, <1>2
<1>5. JobInv(j) /\ proc[j].at = "none" /\ NewerOrNone(job[j].rel) /\ up = "up"
  BY <1>1 DEF SwapInv, JobInv
<1>6. Scripts' = Scripts /\ j \notin Scripts /\ Scripts \subseteq Job
  BY <1>4, <1>5 DEF Scripts
<1>7. zip'[pid] = job[j].rel
  BY <1>1, <1>2
<1>8. Fresh(pid)'
  BY <1>1, <1>5, <1>7 DEF SwapInv, Fresh, NewerOrNone
<1>9. \A k \in Job : JobInv(k)'
  <2> SUFFICES ASSUME NEW k \in Job PROVE JobInv(k)'
    OBVIOUS
  <2>1. CASE k = j
    BY <1>1, <1>3, <1>4, <1>5, <2>1 DEF JobInv, NewerOrNone
  <2>2. CASE k # j
    <3>1. JobInv(k)
      BY DEF SwapInv
    <3> QED
      BY <1>1, <1>3, <1>4, <2>2, <3>1 DEF JobInv, NewerOrNone
  <2> QED
    BY <2>1, <2>2
<1>10. ASSUME NEW i \in Scripts PROVE ScriptInv(i)'
  <2>1. ScriptInv(i) /\ proc'[i] = proc[i] /\ proc[i].pid = pid
    BY <1>1, <1>4, <1>6 DEF SwapInv
  <2>2. \A k \in Scripts : proc'[k] = proc[k]
    BY <1>4, <1>6
  <2> QED
    BY <1>1, <1>6, <1>8, <2>1, <2>2 DEF ScriptInv
<1> QED
  BY <1>1, <1>6, <1>8, <1>9, <1>10 DEF SwapInv

LEMMA SwapLaunched ==
  ASSUME TypeInv, SwapInv, NEW j \in Job, ApplyLaunched(j)
  PROVE  SwapInv'
<1>1. /\ UNCHANGED <<up, zip, stage, installed, pid, app>>
      /\ job[j].at = "launch"
      /\ job' = [job EXCEPT ![j] = NoJob]
      /\ proc' = [proc EXCEPT ![j] = [at |-> "wait", pid |-> pid, rel |-> job[j].rel]]
  BY DEF ApplyLaunched, still
<1>2. job \in [Job -> JobRec] /\ proc \in [Job -> ProcRec]
  BY DEF TypeInv, FilesOK
<1>3. job'[j].at = "idle" /\ \A k \in Job \ {j} : job'[k] = job[k]
  BY <1>1, <1>2 DEF NoJob
<1>4. /\ proc'[j].at = "wait" /\ proc'[j].pid = pid
      /\ \A k \in Job \ {j} : proc'[k] = proc[k]
  BY <1>1, <1>2
<1>5. proc[j].at = "none" /\ up = "up"
  BY <1>1 DEF SwapInv, JobInv
<1>6. Scripts' = Scripts \cup {j} /\ j \notin Scripts /\ Scripts \subseteq Job
  BY <1>4, <1>5 DEF Scripts
<1>7. Fresh(pid)' /\ app' = installed'.d
  BY <1>1, <1>5 DEF SwapInv, Fresh, NewerOrNone
<1>8. \A k \in Job : JobInv(k)'
  <2> SUFFICES ASSUME NEW k \in Job PROVE JobInv(k)'
    OBVIOUS
  <2>1. CASE k = j
    BY <1>3, <2>1 DEF JobInv
  <2>2. CASE k # j
    <3>1. JobInv(k)
      BY DEF SwapInv
    <3> QED
      BY <1>1, <1>3, <1>4, <2>2, <3>1 DEF JobInv, NewerOrNone
  <2> QED
    BY <2>1, <2>2
<1>9. ASSUME NEW i \in Scripts' PROVE proc'[i].pid = pid
  <2>1. CASE i = j
    BY <1>4, <2>1
  <2>2. CASE i # j
    <3>1. i \in Scripts /\ ScriptInv(i) /\ proc'[i] = proc[i]
      BY <1>4, <1>6, <2>2 DEF SwapInv
    <3> QED
      BY <1>1, <3>1 DEF ScriptInv
  <2> QED
    BY <2>1, <2>2
<1>10. ASSUME NEW i \in Scripts' PROVE ScriptInv(i)'
  BY <1>1, <1>5, <1>7, <1>9 DEF ScriptInv
<1> QED
  BY <1>7, <1>8, <1>10 DEF SwapInv

LEMMA SwapUnzip ==
  ASSUME TypeInv, SwapInv, NEW j \in Job, Unzip(j)
  PROVE  SwapInv'
<1> DEFINE p == proc[j].pid
<1>1. UNCHANGED <<up, zip, installed, pid, app>> /\ proc[j].at \in {"unzip", "unzip2"}
  BY DEF Unzip, quiet, alive
<1>2. /\ job \in [Job -> JobRec] /\ proc \in [Job -> ProcRec]
      /\ stage \in [Pid -> StageRec] /\ p \in Pid /\ pid \in Pid
  BY <1>1 DEF TypeInv, FilesOK, OwnedOK
<1>3. /\ proc'[j].at = "none" \/ (proc'[j].at = "unzip2" /\ proc'[j].pid = p)
      /\ \A k \in Job \ {j} : proc'[k] = proc[k]
  BY <1>1, <1>2 DEF Unzip, NoProc, ProcRec
<1>4. /\ job'[j].rel = job[j].rel
      /\ job'[j].at = job[j].at
           \/ (job[j].at = "unpack" /\ job'[j].at = "launch" /\ proc'[j].at = "none")
      /\ \A k \in Job \ {j} : job'[k] = job[k]
  BY <1>1, <1>2 DEF Unzip, JobRec, NoProc
<1>5. Scripts' = Scripts /\ j \notin Scripts /\ Scripts \subseteq Job
  BY <1>1, <1>3 DEF Scripts
<1>6. ASSUME NEW q \in Pid, Fresh(q) PROVE Fresh(q)'
  <2>1. /\ stage'[q].d = stage[q].d \/ stage'[q].d = zip[q]
        /\ stage'[q].w = stage[q].w \/ stage'[q].w = zip[q]
    BY <1>2 DEF Unzip, StageRec
  <2> QED
    BY <1>1, <1>6, <2>1 DEF Fresh, NewerOrNone
<1>7. up' = "up" => app' = installed'.d /\ Fresh(pid)'
  BY <1>1, <1>2, <1>6 DEF SwapInv, Fresh, NewerOrNone
<1>8. \A k \in Job : JobInv(k)'
  <2> SUFFICES ASSUME NEW k \in Job PROVE JobInv(k)'
    OBVIOUS
  <2>1. JobInv(k)
    BY DEF SwapInv
  <2>2. CASE k = j
    BY <1>1, <1>3, <1>4, <2>1, <2>2 DEF JobInv, NewerOrNone
  <2>3. CASE k # j
    BY <1>1, <1>3, <1>4, <2>1, <2>3 DEF JobInv, NewerOrNone
  <2> QED
    BY <2>2, <2>3
<1>9. ASSUME NEW i \in Scripts PROVE ScriptInv(i)'
  <2>1. ScriptInv(i) /\ proc'[i] = proc[i] /\ proc[i].pid \in Pid
    BY <1>3, <1>5 DEF SwapInv, Scripts, TypeInv, OwnedOK
  <2>2. \A k \in Scripts : proc'[k] = proc[k]
    BY <1>3, <1>5
  <2>3. \A k \in Job : job'[k].at \in {"unpack", "launch"} => job[k].at \in {"unpack", "launch"}
    BY <1>4
  <2>4. Fresh(proc[i].pid) => Fresh(proc[i].pid)'
    <3>1. ASSUME NEW q \in Pid, q = proc[i].pid, Fresh(q)' PROVE Fresh(proc[i].pid)'
      BY <2>1, <3>1 DEF Fresh, NewerOrNone
    <3> QED
      BY <1>6, <2>1, <3>1
  <2> QED
    BY <1>1, <1>5, <2>1, <2>2, <2>3, <2>4 DEF ScriptInv
<1> QED
  BY <1>5, <1>7, <1>8, <1>9 DEF SwapInv

LEMMA SwapKills ==
  ASSUME TypeInv, SwapInv, NEW j \in Job, ScriptKills(j) \/ ScriptKillFails(j)
  PROVE  SwapInv'
<1>1. /\ UNCHANGED <<zip, stage, installed, pid, app>>
      /\ proc[j].at = "wait" /\ proc' = [proc EXCEPT ![j].at = "copy"]
  BY DEF ScriptKills, ScriptKillFails, quiet
<1>2. \/ up' = "down" /\ \A k \in Job : job'[k].at = "idle"
      \/ UNCHANGED <<up, job>>
  BY DEF ScriptKills, ScriptKillFails, DaemonStops, DaemonEnds, DaemonLosesIts, NoJob
<1>3. proc \in [Job -> ProcRec]
  BY DEF TypeInv, FilesOK
<1>4. /\ proc'[j].at = "copy" /\ proc'[j].pid = proc[j].pid
      /\ \A k \in Job \ {j} : proc'[k] = proc[k]
  BY <1>1, <1>3 DEF ProcRec
<1>5. Scripts' = Scripts /\ Scripts \subseteq Job
  BY <1>1, <1>4 DEF Scripts
<1>6. \A k \in Job : JobInv(k)'
  <2> SUFFICES ASSUME NEW k \in Job PROVE JobInv(k)'
    OBVIOUS
  <2>1. JobInv(k) /\ job[k].at \in {"idle", "download", "unpack", "launch"}
    BY DEF SwapInv, TypeInv, JobRec
  <2>2. CASE job'[k].at = "idle"
    BY <2>2 DEF JobInv
  <2>3. CASE UNCHANGED <<up, job>> /\ job[k].at # "idle"
    <3>1. k # j
      BY <1>1, <2>1, <2>3 DEF JobInv
    <3> QED
      BY <1>1, <1>4, <2>1, <2>3, <3>1 DEF JobInv, NewerOrNone
  <2> QED
    BY <1>2, <2>2, <2>3
<1>7. \A k \in Scripts : /\ proc'[k].pid = proc[k].pid
                         /\ proc'[k].at \in {"copy2", "tidy"} <=> proc[k].at \in {"copy2", "tidy"}
  BY <1>1, <1>4, <1>5
<1>8. ASSUME NEW i \in Scripts PROVE ScriptInv(i)'
  <2>1. ScriptInv(i)
    BY DEF SwapInv
  <2>2. Fresh(proc[i].pid) => Fresh(proc[i].pid)'
    BY <1>1, <1>7 DEF Fresh, NewerOrNone
  <2>3. \A k \in Job : job'[k].at \in {"unpack", "launch"} => job[k].at \in {"unpack", "launch"}
    BY <1>2
  <2> QED
    BY <1>1, <1>5, <1>7, <2>1, <2>2, <2>3 DEF ScriptInv
<1>9. up' = "up" => app' = installed'.d /\ Fresh(pid)'
  BY <1>1, <1>2 DEF SwapInv, Fresh, NewerOrNone
<1> QED
  BY <1>5, <1>6, <1>8, <1>9 DEF SwapInv

LEMMA SwapCopies ==
  ASSUME TypeInv, SwapInv, NEW j \in Job, ScriptCopies(j) \/ ScriptCopyFails(j)
  PROVE  SwapInv'
<1>1. /\ UNCHANGED <<up, job, zip, stage, pid, app>> /\ proc[j].at \in {"copy", "copy2"}
      /\ proc' = [proc EXCEPT ![j].at = "copy2"] \/ proc' = [proc EXCEPT ![j].at = "tidy"]
  <2>1. CASE ScriptCopies(j)
    BY <2>1 DEF ScriptCopies, quiet, alive
  <2>2. CASE ScriptCopyFails(j)
    BY <2>2 DEF ScriptCopyFails, alive, TypeInv, FilesOK, ProcRec
  <2> QED
    BY <2>1, <2>2
<1>2. proc \in [Job -> ProcRec] /\ installed \in [d : Version \ {NONE}, w : Version \ {NONE}]
  BY DEF TypeInv, FilesOK
<1>3. installed'.d = installed.d \/ up = "down"
  BY <1>2 DEF ScriptCopies, ScriptCopyFails
<1>4. /\ proc'[j].at \in {"copy2", "tidy"} /\ proc'[j].pid = proc[j].pid
      /\ \A k \in Job \ {j} : proc'[k] = proc[k]
  BY <1>1, <1>2 DEF ProcRec
<1>5. Scripts' = Scripts /\ Scripts \subseteq Job /\ j \in Scripts
  BY <1>1, <1>4 DEF Scripts
<1>6. up' = "up" => app' = installed'.d /\ Fresh(pid)'
  BY <1>1, <1>3 DEF SwapInv, Fresh, NewerOrNone
<1>7. \A k \in Job : JobInv(k)'
  <2> SUFFICES ASSUME NEW k \in Job PROVE JobInv(k)'
    OBVIOUS
  <2>1. JobInv(k)
    BY DEF SwapInv
  <2>2. CASE job[k].at = "idle"
    BY <1>1, <2>2 DEF JobInv
  <2>3. CASE job[k].at # "idle"
    <3>1. up = "up" /\ installed'.d = installed.d
      BY <1>3, <2>1, <2>3 DEF JobInv
    <3>2. k # j
      BY <1>1, <2>1, <2>3 DEF JobInv, TypeInv, JobRec
    <3> QED
      BY <1>1, <1>4, <2>1, <3>1, <3>2 DEF JobInv, NewerOrNone
  <2> QED
    BY <2>2, <2>3
<1>8. \A k \in Scripts : proc'[k].pid = proc[k].pid /\ (proc'[k].at # "wait" => proc[k].at # "wait")
  BY <1>1, <1>4, <1>5
<1>9. ASSUME NEW i \in Scripts PROVE ScriptInv(i)'
  <2>1. ScriptInv(i)
    BY DEF SwapInv
  <2>2. ~ \A k \in Scripts' : proc'[k].at \notin {"copy2", "tidy"}
    BY <1>4, <1>5
  <2> QED
    BY <1>1, <1>5, <1>8, <2>1, <2>2 DEF ScriptInv
<1> QED
  BY <1>5, <1>6, <1>7, <1>9 DEF SwapInv

LEMMA SwapEnds ==
  ASSUME TypeInv, SwapInv, NEW j \in Job, ScriptEnds(j)
  PROVE  SwapInv'
<1> DEFINE p == proc[j].pid
<1>1. /\ UNCHANGED <<job, installed, pid, app>> /\ proc[j].at = "tidy"
      /\ zip' = [zip EXCEPT ![p] = NONE] /\ stage' = [stage EXCEPT ![p] = Nothing]
      /\ proc' = [proc EXCEPT ![j] = NoProc]
  BY DEF ScriptEnds, quiet
<1>2. up' = up \/ (up # "up" /\ up' = "boot")
  BY DEF ScriptEnds, EnsureDaemon
<1>3. /\ proc \in [Job -> ProcRec] /\ zip \in [Pid -> Version \cup {NONE}]
      /\ stage \in [Pid -> StageRec] /\ p \in Pid /\ pid \in Pid
  BY <1>1 DEF TypeInv, FilesOK, OwnedOK
<1>4. proc'[j].at = "none" /\ \A k \in Job \ {j} : proc'[k] = proc[k]
  BY <1>1, <1>3 DEF NoProc
<1>5. Scripts' = Scripts \ {j} /\ Scripts \subseteq Job /\ j \in Scripts
  BY <1>1, <1>4 DEF Scripts
<1>6. zip'[p] = NONE /\ stage'[p].d = NONE /\ stage'[p].w = NONE
  BY <1>1, <1>3 DEF Nothing
<1>7. \A q \in Pid \ {p} : zip'[q] = zip[q] /\ stage'[q] = stage[q]
  BY <1>1, <1>3
<1>8. up' = "up" => app' = installed'.d /\ Fresh(pid)'
  <2> SUFFICES ASSUME up = "up" PROVE app = installed.d /\ Fresh(pid)'
    BY <1>1, <1>2
  <2>1. app = installed.d /\ Fresh(pid)
    BY DEF SwapInv
  <2>2. CASE p = pid
    BY <1>1, <1>6, <2>1, <2>2 DEF Fresh, NewerOrNone
  <2>3. CASE p # pid
    BY <1>1, <1>3, <1>7, <2>1, <2>3 DEF Fresh, NewerOrNone
  <2> QED
    BY <2>1, <2>2, <2>3
<1>9. \A k \in Job : JobInv(k)'
  <2> SUFFICES ASSUME NEW k \in Job PROVE JobInv(k)'
    OBVIOUS
  <2>1. JobInv(k)
    BY DEF SwapInv
  <2>2. CASE k = j
    BY <1>1, <1>2, <1>4, <2>1, <2>2 DEF JobInv, NewerOrNone
  <2>3. CASE k # j
    BY <1>1, <1>2, <1>4, <2>1, <2>3 DEF JobInv, NewerOrNone
  <2> QED
    BY <2>2, <2>3
<1>10. ASSUME NEW i \in Scripts' PROVE ScriptInv(i)'
  <2>1. i \in Scripts /\ ScriptInv(i) /\ ScriptInv(j) /\ proc'[i] = proc[i]
    BY <1>4, <1>5 DEF SwapInv
  <2>2. proc[i].pid = p
    BY <2>1 DEF ScriptInv
  <2>3. Fresh(proc[i].pid)'
    BY <1>6, <2>1, <2>2 DEF Fresh, NewerOrNone
  <2>4. \A k \in Scripts' : proc'[k].pid = p
    BY <1>4, <1>5, <2>1 DEF ScriptInv
  <2> QED
    BY <1>1, <1>2, <2>1, <2>2, <2>3, <2>4 DEF ScriptInv
<1> QED
  BY <1>8, <1>9, <1>10 DEF SwapInv

\* The steps that only end or leave alone what the files are about.
Bystander ==
  /\ UNCHANGED files
  /\ up' = up \/ up' # "up"
  /\ \A j \in Job : job'[j] = job[j] \/ job'[j].at = "idle"
  /\ up' # "up" => \A j \in Job : job'[j].at = "idle"
  /\ clean' => clean
  /\ \/ UNCHANGED <<up, window>>
     \/ clean' => Scripts = {}
     \/ up # "down" \/ window # "none"

LEMMA BystanderSteps ==
  ASSUME TypeInv, SwapInv, Next
  PROVE  \/ Bystander \/ Boot
         \/ \E j \in Job : \/ ApplyBegins(j) \/ ApplyDownloaded(j) \/ ApplyLaunched(j)
                           \/ Unzip(j) \/ ScriptKills(j) \/ ScriptKillFails(j)
                           \/ ScriptCopies(j) \/ ScriptCopyFails(j) \/ ScriptEnds(j)
<1>0. up # "up" => \A j \in Job : job[j].at = "idle"
  BY DEF SwapInv, JobInv
<1>1. ASSUME UNCHANGED <<up, window, clean, job>>, UNCHANGED files PROVE Bystander
  BY <1>0, <1>1 DEF Bystander
<1>2. CASE SettingsCall /\ UNCHANGED <<shell, updater>>
  <2>1. up' = up
    BY <1>2
       DEF SettingsCall, PutVisibility, PutBoth, GetSettings, Begin, PutCheckUpdates, PutLoad,
           PutChange, PutStore, PutCheck, PutOpen, PutWrite
  <2> QED
    BY <1>1, <1>2, <2>1 DEF shell, updater, files
<1>3. CASE WindowStep
  <2>1. UNCHANGED <<job, zip, stage, proc, installed, pid, app>>
    BY <1>3 DEF WindowStep
  <2>2. /\ up' = up \/ (up # "up" /\ up' = "boot")
        /\ clean' => clean
        /\ (clean' => Scripts = {}) \/ window # "none"
    <3>1. CASE OpenWindow /\ clean' = (clean /\ Scripts = {})
      <4>1. (clean' => clean) /\ (clean' => Scripts = {})
        BY <3>1
      <4> QED
        BY <3>1, <4>1 DEF OpenWindow, EnsureDaemon
    <3>2. CASE (WindowReady \/ WindowGivesUp \/ WindowDies) /\ UNCHANGED clean
      BY <3>2 DEF WindowReady, WindowGivesUp, WindowDies
    <3> QED
      BY <1>3, <3>1, <3>2 DEF WindowStep
  <2> QED
    BY <1>0, <2>1, <2>2 DEF Bystander, files
<1>4. CASE QuitStep \/ CrashStep
  <2>1. UNCHANGED <<zip, stage, proc, installed, pid, app, clean>>
    BY <1>4 DEF QuitStep, CrashStep
  <2>2. /\ up # "down" \/ window # "none"
        /\ \/ up' = "down" /\ job' = [j \in Job |-> NoJob]
           \/ UNCHANGED <<up, job>>
    BY <1>4 DEF QuitStep, Quit, CrashStep, DaemonCrash, DaemonStops, DaemonEnds, DaemonLosesIts
  <2> QED
    BY <1>0, <2>1, <2>2 DEF Bystander, files, NoJob
<1>5. ASSUME NEW r \in Release, Publish(r) PROVE Bystander
  BY <1>1, <1>5 DEF Publish, files, shell
<1>6. ASSUME NEW by, CheckBegins(by) \/ CheckEnds(by) \/ CheckDropped PROVE Bystander
  BY <1>1, <1>6 DEF CheckBegins, CheckEnds, CheckDropped, checked, files, shell
<1>7. ASSUME NEW j \in Job, ApplyFails(j) \/ ApplyDropped(j) PROVE Bystander
  <2>1. /\ UNCHANGED <<up, window, clean, zip, stage, proc, installed, pid, app>>
        /\ job' = [job EXCEPT ![j] = NoJob]
    BY <1>7 DEF ApplyFails, ApplyDropped, still, shell
  <2>2. job'[j].at = "idle" /\ \A k \in Job \ {j} : job'[k] = job[k]
    BY <2>1 DEF TypeInv, NoJob
  <2> QED
    BY <1>0, <2>1, <2>2 DEF Bystander, files
<1> QED
  BY <1>2, <1>3, <1>4, <1>5, <1>6, <1>7 DEF Next

LEMMA SwapStep ==
  ASSUME TypeInv, SwapInv, Next
  PROVE  SwapInv'
<1>1. CASE Bystander
  BY <1>1, SwapFrame DEF Bystander
<1> QED
  BY <1>1, BystanderSteps, SwapBoot, SwapApplyBegins, SwapDownloaded, SwapLaunched, SwapUnzip,
     SwapKills, SwapCopies, SwapEnds

----------------------------------------------------------------------------
(* An undisturbed apply swaps both programs *)

\* While nothing disturbs it, an apply is the only one.
LEMMA CleanAlone ==
  ASSUME CleanInv, clean, NEW j \in Job, Active(j)
  PROVE  \A k \in Job \ {j} : job[k].at = "idle" /\ proc[k].at = "none"
BY DEF CleanInv, Active

\* It stays so when only its own call and process move on.
LEMMA CleanRest ==
  ASSUME NEW j \in Job,
         \A k \in Job \ {j} : job'[k].at = "idle" /\ proc'[k].at = "none",
         CleanJob(j)',
         proc'[j].at # "copy2" => installed'.d = installed'.w
  PROVE  CleanInv'
<1>1. \A k, l \in Job : Active(k)' /\ Active(l)' => k = l
  BY DEF Active
<1>2. \A k \in Job \ {j} : CleanJob(k)'
  BY DEF CleanJob
<1>3. (\A k \in Job : proc'[k].at # "copy2") => installed'.d = installed'.w
  OBVIOUS
<1> QED
  BY <1>1, <1>2, <1>3 DEF CleanInv

LEMMA CleanFrame ==
  ASSUME CleanInv, Bystander
  PROVE  CleanInv'
<1> SUFFICES ASSUME clean' PROVE CleanInv'
  BY DEF CleanInv
<1>1. UNCHANGED <<zip, stage, proc, installed, pid, app>> /\ clean
  BY DEF Bystander, files
<1>2. \A j \in Job : job'[j] = job[j] \/ job'[j].at = "idle"
  BY DEF Bystander
<1>3. \A j, k \in Job : Active(j)' /\ Active(k)' => j = k
  BY <1>1, <1>2 DEF CleanInv, Active
<1>4. ASSUME NEW j \in Job PROVE CleanJob(j)'
  <2>1. CleanJob(j)
    BY <1>1 DEF CleanInv
  <2>2. proc[j].at \in {"copy", "copy2"} => UNCHANGED <<up, window>>
    BY <2>1 DEF Bystander, CleanJob, Scripts
  <2> QED
    BY <1>1, <1>2, <2>1, <2>2 DEF CleanJob
<1> QED
  BY <1>1, <1>3, <1>4 DEF CleanInv

LEMMA CleanBoot ==
  ASSUME TypeInv, CleanInv, Boot
  PROVE  CleanInv'
<1>0. FreePid \in Pid /\ \A j \in Job : proc[j].pid # FreePid
  BY FreePidFact DEF Boot
<1>1. /\ pid' = FreePid /\ UNCHANGED <<proc, installed, window, clean>>
      /\ zip' = [zip EXCEPT ![FreePid] = NONE] /\ stage' = [stage EXCEPT ![FreePid] = Nothing]
      /\ up = "boot"
  BY DEF Boot, LoadConfig, shell
<1> SUFFICES ASSUME clean PROVE CleanInv'
  BY <1>1 DEF CleanInv
<1>2. \A j \in Job : job'[j].at = "idle"
  BY DEF Boot, NoJob
<1>3. zip \in [Pid -> Version \cup {NONE}] /\ stage \in [Pid -> StageRec]
  BY DEF TypeInv, FilesOK
<1>4. \A j, k \in Job : Active(j)' /\ Active(k)' => j = k
  BY <1>1, <1>2 DEF CleanInv, Active
<1>5. ASSUME NEW j \in Job PROVE CleanJob(j)'
  <2>1. CleanJob(j)
    BY DEF CleanInv
  <2>2. CASE proc[j].at = "none"
    BY <1>1, <1>2, <2>2 DEF CleanJob
  <2>3. CASE proc[j].at # "none"
    <3>1. proc[j].pid \in Pid \ {FreePid}
      BY <1>0, <2>3 DEF TypeInv, OwnedOK
    <3>2. stage'[proc[j].pid] = stage[proc[j].pid] /\ zip'[proc[j].pid] = zip[proc[j].pid]
      BY <1>1, <1>3, <3>1
    <3> QED
      BY <1>1, <1>2, <2>1, <3>2 DEF CleanJob
  <2> QED
    BY <2>2, <2>3
<1> QED
  BY <1>1, <1>4, <1>5 DEF CleanInv

LEMMA CleanApply ==
  ASSUME TypeInv, SwapInv, CleanInv, NEW j \in Job,
         ApplyBegins(j) \/ ApplyDownloaded(j) \/ ApplyLaunched(j)
  PROVE  CleanInv'
<1>0. job \in [Job -> JobRec] /\ proc \in [Job -> ProcRec]
  BY DEF TypeInv, FilesOK
<1>1. CASE ApplyBegins(j)
  <2>1. /\ UNCHANGED <<proc, installed>> /\ clean' = (clean /\ Scripts = {} /\
             \A k \in Job : job[k].at = "idle" /\ proc[k].at = "none")
        /\ job' = [job EXCEPT ![j] = [at |-> "download", rel |-> ParseVersion(st.status.tag)]]
    BY <1>1 DEF ApplyBegins, still
  <2> SUFFICES ASSUME clean' PROVE CleanInv'
    BY DEF CleanInv
  <2>2. clean /\ \A k \in Job : job[k].at = "idle" /\ proc[k].at = "none"
    BY <2>1
  <2>3. job'[j].at = "download" /\ \A k \in Job \ {j} : job'[k] = job[k]
    BY <1>0, <2>1
  <2>4. installed.d = installed.w
    BY <2>2 DEF CleanInv
  <2>5. CleanJob(j)'
    BY <2>1, <2>2, <2>3 DEF CleanJob
  <2> QED
    BY <2>1, <2>2, <2>3, <2>4, <2>5, CleanRest
<1>2. CASE ApplyDownloaded(j)
  <2>1. /\ UNCHANGED <<installed, clean>> /\ job[j].at = "download"
        /\ job' = [job EXCEPT ![j].at = "unpack"]
        /\ proc' = [proc EXCEPT ![j] = [at |-> "unzip", pid |-> pid, rel |-> job[j].rel]]
    BY <1>2 DEF ApplyDownloaded, still
  <2> SUFFICES ASSUME clean PROVE CleanInv'
    BY <2>1 DEF CleanInv
  <2>2. /\ job'[j].at = "unpack" /\ proc'[j].at = "unzip"
        /\ \A k \in Job \ {j} : job'[k] = job[k] /\ proc'[k] = proc[k]
    BY <1>0, <2>1 DEF JobRec
  <2>3. \A k \in Job \ {j} : job[k].at = "idle" /\ proc[k].at = "none"
    BY <2>1, CleanAlone DEF Active
  <2>4. proc[j].at = "none"
    BY <2>1 DEF SwapInv, JobInv
  <2>5. installed.d = installed.w
    BY <2>3, <2>4 DEF CleanInv
  <2>6. CleanJob(j)'
    BY <2>2 DEF CleanJob
  <2> QED
    BY <2>1, <2>2, <2>3, <2>5, <2>6, CleanRest
<1>3. CASE ApplyLaunched(j)
  <2>1. /\ UNCHANGED <<stage, installed, clean, pid>> /\ job[j].at = "launch"
        /\ job' = [job EXCEPT ![j] = NoJob]
        /\ proc' = [proc EXCEPT ![j] = [at |-> "wait", pid |-> pid, rel |-> job[j].rel]]
    BY <1>3 DEF ApplyLaunched, still
  <2> SUFFICES ASSUME clean PROVE CleanInv'
    BY <2>1 DEF CleanInv
  <2>2. /\ job'[j].at = "idle" /\ proc'[j].at = "wait" /\ proc'[j].pid = pid
        /\ \A k \in Job \ {j} : job'[k] = job[k] /\ proc'[k] = proc[k]
    BY <1>0, <2>1 DEF NoJob
  <2>3. \A k \in Job \ {j} : job[k].at = "idle" /\ proc[k].at = "none"
    BY <2>1, CleanAlone DEF Active
  <2>4. proc[j].at = "none"
    BY <2>1 DEF SwapInv, JobInv
  <2>5. installed.d = installed.w
    BY <2>3, <2>4 DEF CleanInv
  <2>6. stage[pid].d = stage[pid].w
    BY <2>1 DEF CleanInv, CleanJob
  <2>7. CleanJob(j)'
    BY <2>1, <2>2, <2>6 DEF CleanJob
  <2> QED
    BY <2>1, <2>2, <2>3, <2>5, <2>7, CleanRest
<1> QED
  BY <1>1, <1>2, <1>3

LEMMA CleanUnzip ==
  ASSUME TypeInv, SwapInv, CleanInv, NEW j \in Job, Unzip(j)
  PROVE  CleanInv'
<1> DEFINE p == proc[j].pid
<1>1. UNCHANGED <<zip, installed, pid, clean>> /\ proc[j].at \in {"unzip", "unzip2"}
  BY DEF Unzip, quiet
<1> SUFFICES ASSUME clean PROVE CleanInv'
  BY <1>1 DEF CleanInv
<1>2. /\ job \in [Job -> JobRec] /\ proc \in [Job -> ProcRec]
      /\ stage \in [Pid -> StageRec] /\ p \in Pid
  BY <1>1 DEF TypeInv, FilesOK, OwnedOK
<1>3. \A k \in Job \ {j} : job[k].at = "idle" /\ proc[k].at = "none"
  BY <1>1, CleanAlone DEF Active
<1>4. installed.d = installed.w
  BY <1>1, <1>3 DEF CleanInv
<1>5. JobInv(j) /\ CleanJob(j)
  BY DEF SwapInv, CleanInv
<1>6. job[j].at \in {"idle", "unpack"} /\ (job[j].at = "unpack" => p = pid)
  BY <1>1, <1>2, <1>5 DEF JobInv, JobRec
<1>7. \A k \in Job \ {j} : job'[k] = job[k] /\ proc'[k] = proc[k]
  BY <1>2 DEF Unzip
<1>8. CleanJob(j)'
  <2>1. CASE /\ proc[j].at = "unzip" /\ stage' = [stage EXCEPT ![p].d = zip[p]]
             /\ proc' = [proc EXCEPT ![j].at = "unzip2"] /\ job' = job
    <3>1. proc'[j].at = "unzip2" /\ proc'[j].pid = p /\ stage'[p].d = zip[p]
      BY <1>2, <2>1 DEF ProcRec, StageRec
    <3> QED
      BY <1>1, <1>6, <2>1, <3>1 DEF CleanJob
  <2>2. CASE /\ proc[j].at = "unzip2" /\ stage' = [stage EXCEPT ![p].w = zip[p]]
             /\ proc' = [proc EXCEPT ![j] = NoProc]
             /\ job' = [job EXCEPT ![j].at = IF @ = "unpack" THEN "launch" ELSE @]
    <3>1. proc'[j].at = "none"
      BY <1>2, <2>2 DEF NoProc
    <3>2. stage[p].d = zip[p]
      BY <1>5, <2>2 DEF CleanJob
    <3>3. stage'[p].d = zip[p] /\ stage'[p].w = zip[p]
      BY <1>2, <2>2, <3>2 DEF StageRec
    <3>4. job'[j].at = "launch" => p = pid
      BY <1>2, <1>6, <2>2 DEF JobRec
    <3> QED
      BY <1>1, <3>1, <3>3, <3>4 DEF CleanJob
  <2>3. CASE proc' = [proc EXCEPT ![j] = NoProc] /\ UNCHANGED <<stage, job>>
    <3>1. proc'[j].at = "none"
      BY <1>2, <2>3 DEF NoProc
    <3> QED
      BY <1>6, <2>3, <3>1 DEF CleanJob
  <2> QED
    BY <2>1, <2>2, <2>3 DEF Unzip
<1> QED
  BY <1>1, <1>3, <1>4, <1>7, <1>8, CleanRest

LEMMA CleanScript ==
  ASSUME TypeInv, SwapInv, CleanInv, NEW j \in Job,
         ScriptKills(j) \/ ScriptCopies(j) \/ ScriptEnds(j)
  PROVE  CleanInv'
<1> DEFINE s == stage[proc[j].pid]
<1>1. /\ UNCHANGED <<pid, clean>> /\ proc[j].at \in {"wait", "copy", "copy2", "tidy"}
  BY DEF ScriptKills, ScriptCopies, ScriptEnds, quiet
<1> SUFFICES ASSUME clean PROVE CleanInv'
  BY <1>1 DEF CleanInv
<1>2. /\ proc \in [Job -> ProcRec] /\ job \in [Job -> JobRec]
      /\ installed \in [d : Version \ {NONE}, w : Version \ {NONE}]
  BY DEF TypeInv, FilesOK
<1>3. \A k \in Job \ {j} : job[k].at = "idle" /\ proc[k].at = "none"
  BY <1>1, CleanAlone DEF Active
<1>4. job[j].at = "idle"
  BY <1>1, <1>2 DEF SwapInv, JobInv, JobRec
<1>5. proc[j].at # "copy2" => installed.d = installed.w
  BY <1>3 DEF CleanInv
<1>6. CleanJob(j)
  BY DEF CleanInv
<1>7. CASE ScriptKills(j)
  <2>1. /\ proc[j].at = "wait" /\ proc' = [proc EXCEPT ![j].at = "copy"]
        /\ UNCHANGED <<stage, installed>>
        /\ up' = "down" /\ window' = "none" /\ job' = [k \in Job |-> NoJob]
    BY <1>7 DEF ScriptKills, DaemonStops, DaemonEnds, DaemonLosesIts, quiet
  <2>2. /\ proc'[j].at = "copy" /\ proc'[j].pid = proc[j].pid
        /\ \A k \in Job \ {j} : proc'[k] = proc[k]
    BY <1>2, <2>1 DEF ProcRec
  <2>3. \A k \in Job : job'[k].at = "idle"
    BY <2>1 DEF NoJob
  <2>4. CleanJob(j)'
    BY <1>6, <2>1, <2>2, <2>3 DEF CleanJob
  <2> QED
    BY <1>3, <1>5, <2>1, <2>2, <2>3, <2>4, CleanRest
<1>8. CASE ScriptCopies(j)
  <2>1. UNCHANGED <<up, window, job, stage>> /\ \A k \in Job \ {j} : proc'[k] = proc[k]
    BY <1>2, <1>8 DEF ScriptCopies, alive, shell
  <2>2. proc'[j].pid = proc[j].pid
    BY <1>2, <1>8 DEF ScriptCopies, ProcRec
  <2>3. CASE proc[j].at = "copy" /\ s.d # NONE
    <3>1. s.d = s.w /\ up = "down" /\ window = "none" /\ installed.d = installed.w
      BY <1>5, <1>6, <2>3 DEF CleanJob
    <3>2. proc'[j].at = "copy2" /\ installed'.d = s.d /\ installed'.w = installed.w
      BY <1>2, <1>8, <2>3, <3>1 DEF ScriptCopies, ProcRec
    <3>3. Scripts = {j}
      BY <1>3, <2>3 DEF Scripts
    <3>4. Fresh(proc[j].pid)
      BY <2>3, <3>3 DEF SwapInv, ScriptInv
    <3>5. s.w \in Triple /\ TupleGt(s.w, installed'.w)
      BY <2>3, <3>1, <3>2, <3>4 DEF Fresh, NewerOrNone
    <3>6. CleanJob(j)'
      BY <1>4, <2>1, <2>2, <2>3, <3>1, <3>2, <3>5 DEF CleanJob
    <3> QED
      BY <1>3, <2>1, <3>2, <3>6, CleanRest
  <2>4. CASE proc[j].at = "copy" /\ s.d = NONE
    <3>1. proc'[j].at = "tidy" /\ installed' = installed
      BY <1>2, <1>8, <2>4 DEF ScriptCopies, ProcRec
    <3>2. CleanJob(j)'
      BY <1>4, <2>1, <3>1 DEF CleanJob
    <3> QED
      BY <1>3, <1>5, <2>1, <2>4, <3>1, <3>2, CleanRest
  <2>5. CASE proc[j].at = "copy2"
    <3>1. s.d # NONE /\ s.d = s.w /\ window = "none" /\ installed.d = s.d
      BY <1>6, <2>5 DEF CleanJob
    <3>2. proc'[j].at = "tidy" /\ installed'.w = s.w /\ installed'.d = installed.d
      BY <1>2, <1>8, <2>5, <3>1 DEF ScriptCopies, ProcRec
    <3>3. CleanJob(j)'
      BY <1>4, <2>1, <3>2 DEF CleanJob
    <3> QED
      BY <1>3, <2>1, <3>1, <3>2, <3>3, CleanRest
  <2> QED
    BY <1>8, <2>3, <2>4, <2>5 DEF ScriptCopies
<1>9. CASE ScriptEnds(j)
  <2>1. /\ proc[j].at = "tidy" /\ proc' = [proc EXCEPT ![j] = NoProc]
        /\ UNCHANGED <<installed, job>>
    BY <1>9 DEF ScriptEnds
  <2>2. proc'[j].at = "none" /\ \A k \in Job \ {j} : proc'[k] = proc[k]
    BY <1>2, <2>1 DEF NoProc
  <2>3. CleanJob(j)'
    BY <1>4, <2>1, <2>2 DEF CleanJob
  <2> QED
    BY <1>3, <1>5, <2>1, <2>2, <2>3, CleanRest
<1> QED
  BY <1>7, <1>8, <1>9

LEMMA CleanStep ==
  ASSUME TypeInv, SwapInv, CleanInv, Next
  PROVE  CleanInv'
<1>1. ASSUME NEW j \in Job, ScriptKillFails(j) \/ ScriptCopyFails(j) PROVE CleanInv'
  BY <1>1 DEF ScriptKillFails, ScriptCopyFails, CleanInv
<1> QED
  BY <1>1, BystanderSteps, CleanFrame, CleanBoot, CleanApply, CleanUnzip, CleanScript

LEMMA SwapStutter ==
  ASSUME SwapInv, CleanInv, UNCHANGED vars
  PROVE  SwapInv' /\ CleanInv'
<1>1. UNCHANGED <<up, window, clean, job>> /\ UNCHANGED files
  BY DEF vars, shell, updater, files
<1>2. up # "up" => \A j \in Job : job[j].at = "idle"
  BY DEF SwapInv, JobInv
<1>3. Bystander
  BY <1>1, <1>2 DEF Bystander
<1> QED
  BY <1>3, SwapFrame, CleanFrame DEF Bystander

LEMMA SwapAlways == Spec => [](TypeInv /\ SwapInv /\ CleanInv)
<1>1. Init => SwapInv /\ CleanInv
  <2> SUFFICES ASSUME Init PROVE SwapInv /\ CleanInv
    OBVIOUS
  <2>1. up = "down" /\ installed.d = installed.w
    BY DEF Init, SettingsInit
  <2>2. \A j \in Job : job[j].at = "idle" /\ proc[j].at = "none"
    BY DEF Init, NoJob, NoProc
  <2>3. Scripts = {}
    BY <2>2 DEF Scripts
  <2> QED
    BY <2>1, <2>2, <2>3 DEF SwapInv, JobInv, CleanInv, CleanJob, Active
<1>2. TypeInv /\ (SwapInv /\ CleanInv) /\ [Next]_vars => (SwapInv /\ CleanInv)'
  BY SwapStep, CleanStep, SwapStutter
<1> QED
  BY <1>1, <1>2, TypeAlways, PTL DEF Spec

\* Window and daemon are of one version whenever no script is between its two copies,
\* for any number of applies one after the other, crashes and releases, as long as no
\* command of a script failed (APPLY_SCRIPT).
THEOREM HalvesStayTogether == Spec => []HalvesMatch
<1>1. CleanInv => HalvesMatch
  BY DEF CleanInv, HalvesMatch
<1> QED
  BY <1>1, SwapAlways, PTL

LEMMA InstalledStep ==
  ASSUME TypeInv, SwapInv, CleanInv, Next
  PROVE  /\ (\A i, j \in Scripts : i = j) => ~Older(installed'.d, installed.d)
         /\ clean => ~Older(installed'.w, installed.w)
<1>0. /\ installed \in [d : Version \ {NONE}, w : Version \ {NONE}]
      /\ installed.d \in Triple /\ installed.w \in Triple
  BY VersionTriple DEF TypeInv, FilesOK
<1>1. CASE UNCHANGED installed
  BY <1>0, <1>1, NotOlderThanItself
<1>2. ASSUME NEW j \in Job, ScriptCopies(j)
      PROVE  /\ (\A i, k \in Scripts : i = k) => ~Older(installed'.d, installed.d)
             /\ clean => ~Older(installed'.w, installed.w)
  <2> DEFINE s == stage[proc[j].pid]
  <2>1. CASE /\ proc[j].at = "copy" /\ s.d # NONE
             /\ installed' = [installed EXCEPT !.d = s.d]
    <3>1. installed'.d = s.d /\ installed'.w = installed.w
      BY <1>0, <2>1
    <3>2. j \in Scripts
      BY <2>1 DEF Scripts
    <3>3. ASSUME \A i, k \in Scripts : i = k PROVE ~Older(s.d, installed.d)
      <4>1. \A k \in Scripts : proc[k].at \notin {"copy2", "tidy"}
        BY <2>1, <3>2, <3>3
      <4>2. Fresh(proc[j].pid)
        BY <3>2, <4>1 DEF SwapInv, ScriptInv
      <4>3. s.d \in Triple /\ TupleGt(s.d, installed.d)
        BY <2>1, <4>2 DEF Fresh, NewerOrNone
      <4> QED
        BY <1>0, <4>3, GtIsNotOlder
    <3> QED
      BY <1>0, <3>1, <3>3, NotOlderThanItself
  <2>2. CASE /\ proc[j].at = "copy2" /\ s.w # NONE
             /\ installed' = [installed EXCEPT !.w = s.w]
    <3>1. installed'.d = installed.d /\ installed'.w = s.w
      BY <1>0, <2>2
    <3>2. ASSUME clean PROVE ~Older(s.w, installed.w)
      <4>1. s.w \in Triple /\ TupleGt(s.w, installed.w)
        BY <2>2, <3>2 DEF CleanInv, CleanJob
      <4> QED
        BY <1>0, <4>1, GtIsNotOlder
    <3> QED
      BY <1>0, <3>1, <3>2, NotOlderThanItself
  <2> QED
    BY <1>1, <1>2, <2>1, <2>2 DEF ScriptCopies
<1>3. CASE Bystander
  BY <1>1, <1>3 DEF Bystander, files
<1>4. CASE Boot
  BY <1>1, <1>4 DEF Boot
<1>5. ASSUME NEW j \in Job,
             ApplyBegins(j) \/ ApplyDownloaded(j) \/ ApplyLaunched(j) \/ Unzip(j)
               \/ ScriptKills(j) \/ ScriptKillFails(j) \/ ScriptCopyFails(j) \/ ScriptEnds(j)
      PROVE  UNCHANGED installed
  BY <1>5
     DEF ApplyBegins, ApplyDownloaded, ApplyLaunched, Unzip, ScriptKills, ScriptKillFails,
         ScriptCopyFails, ScriptEnds, still, quiet
<1> QED
  BY <1>1, <1>2, <1>3, <1>4, <1>5, BystanderSteps

\* No program is replaced by an older one, whatever releases are published and taken
\* back, for any number of apply calls; a window that may be newer than its daemon is
\* excepted (version_gt, apply_update, APPLY_SCRIPT).
THEOREM UpdatesGoForward == Spec => NeverOlder
<1>1. TypeInv /\ SwapInv /\ CleanInv /\ [Next]_vars =>
        [/\ (\A i, j \in Scripts : i = j) => ~Older(installed'.d, installed.d)
         /\ clean => ~Older(installed'.w, installed.w)]_vars
  BY InstalledStep
<1> QED
  BY <1>1, SwapAlways, PTL DEF Spec, NeverOlder

============================================================================
