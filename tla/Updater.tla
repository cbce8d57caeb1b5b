------------------------------ MODULE Updater ------------------------------
(***************************************************************************)
(* The updater: checks against GitHub, by the loop and by hand, the apply  *)
(* call that downloads and stages a release, and the detached script that  *)
(* kills DocLink, swaps the two programs and starts the window again       *)
(* (updater.rs; admin.rs: update_check, update_apply).                     *)
(*                                                                         *)
(* Checks and applies run concurrently on one State; the zip and the stage *)
(* are named after the daemon's process and shared by its apply calls.     *)
(* GitHub, PowerShell and the file system are external: a release holds    *)
(* both programs, built with the version of its tag, and a program that is *)
(* running cannot be replaced.                                             *)
(***************************************************************************)
EXTENDS Launcher, Sequences, FiniteSets

CONSTANTS
  Release,    \* the releases that may become GitHub's latest: tag and zip asset
  Published,  \* the one that is at first
  Junk,       \* a part of a version that is not a number
  First,      \* the version installed at first
  Job,        \* apply calls
  Pid         \* process ids

ASSUME UpdaterAssumption ==
  /\ \A r \in Release : r.zip \in BOOLEAN /\ r.tag \in Seq(Nat \cup {Junk})
  /\ Published \in Release
  /\ First \in Nat \X Nat \X Nat
  /\ Junk \notin Nat /\ NONE \notin Nat \X Nat \X Nat
  /\ Pid # {}

VARIABLES
  latest,     \* GitHub's latest release
  st,         \* updater::State, without its time of check and error text
  asking,     \* the checks that wait for GitHub: "loop", "hand"
  job,        \* the apply calls
  zip,        \* the version in each process's zip file
  stage,      \* the versions of the two programs in each process's stage
  proc,       \* the PowerShell process each apply call started
  installed,  \* the versions of the two installed programs
  pid,        \* the daemon's process id
  app,        \* APP_VERSION of the daemon
  dropped,    \* observation: a client went away in the middle of its call
  goal,       \* observation: the version the last script was started for
  clean       \* observation: no two applies and no window met the script, and no command
              \* of it failed

updater == <<latest, st, asking, job, zip, stage, proc, installed, pid, app,
             dropped, goal, clean>>

vars == <<up, settings, left, shell, updater>>

----------------------------------------------------------------------------
(* Versions *)

\* parse_version: missing parts are 0, parts after the third are ignored.
ParseVersion(tag) ==
  LET part(i) == IF i <= Len(tag) THEN tag[i] ELSE 0
  IN IF Len(tag) = 0 \/ \E i \in 1..3 : part(i) = Junk THEN NONE
     ELSE <<part(1), part(2), part(3)>>

TupleGt(a, b) == \E i \in 1..3 : a[i] > b[i] /\ \A j \in 1..(i - 1) : a[j] = b[j]

\* Mutant of VersionGt: any other version is taken for a newer one.
VersionGtOther(candidate, baseline) ==
  ParseVersion(candidate) # NONE /\ ParseVersion(candidate) # ParseVersion(baseline)

VersionGt(candidate, baseline) ==
  LET a == ParseVersion(candidate)
      b == ParseVersion(baseline)
  IN a # NONE /\ (b = NONE \/ TupleGt(a, b))

----------------------------------------------------------------------------

Version == {First} \cup {ParseVersion(r.tag) : r \in Release}

NoJob == [at |-> "idle", rel |-> NONE]

NoProc == [at |-> "none", pid |-> NONE, rel |-> NONE]

Nothing == [d |-> NONE, w |-> NONE]

NoState == [status |-> NONE, checking |-> FALSE, downloading |-> NONE, applied |-> FALSE]

Current == [tag |-> app, zip |-> FALSE]

TypeOK ==
  /\ SettingsOK /\ LauncherOK
  /\ latest \in Release
  /\ st \in [status : Release \cup {[tag |-> v, zip |-> FALSE] : v \in Version \ {NONE}} \cup {NONE},
             checking : BOOLEAN, downloading : {NONE, 0, 50}, applied : BOOLEAN]
  /\ asking \subseteq {"loop", "hand"}
  /\ job \in [Job -> [at : {"idle", "download", "unpack", "launch"}, rel : Version \cup {NONE}]]
  /\ zip \in [Pid -> Version \cup {NONE}]
  /\ stage \in [Pid -> [d : Version \cup {NONE}, w : Version \cup {NONE}]]
  /\ proc \in [Job -> [at : {"none", "unzip", "unzip2", "wait", "copy", "copy2", "tidy"},
                       pid : Pid \cup {NONE}, rel : Version \cup {NONE}]]
  /\ installed \in [d : Version \ {NONE}, w : Version \ {NONE}]
  /\ pid \in Pid /\ app \in Version \ {NONE}
  /\ goal \in Version \cup {NONE} /\ dropped \in BOOLEAN /\ clean \in BOOLEAN

Init ==
  /\ SettingsInit /\ LauncherInit
  /\ latest = Published
  /\ st = NoState /\ asking = {}
  /\ job = [j \in Job |-> NoJob] /\ proc = [j \in Job |-> NoProc]
  /\ zip = [p \in Pid |-> NONE] /\ stage = [p \in Pid |-> Nothing]
  /\ installed = [d |-> First, w |-> First]
  /\ pid = (CHOOSE p \in Pid : TRUE) /\ app = First
  /\ goal = NONE /\ dropped = FALSE /\ clean = TRUE

----------------------------------------------------------------------------
(* The daemon's life, as the updater sees it *)

\* What ends with the daemon.  PowerShell processes live on.
DaemonLosesIts ==
  /\ st' = NoState /\ asking' = {}
  /\ job' = [j \in Job |-> NoJob]

\* Process ids are alike: any one that no PowerShell process was given will do.
FreePid == CHOOSE p \in Pid : \A j \in Job : proc[j].pid # p

\* A started daemon has a process id of its own, and with it a new zip and stage; the
\* loop checks at once when the switch is on.
Boot ==
  /\ LoadConfig
  /\ \E p \in Pid : \A j \in Job : proc[j].pid # p
  /\ pid' = FreePid
  /\ zip' = [zip EXCEPT ![pid'] = NONE] /\ stage' = [stage EXCEPT ![pid'] = Nothing]
  /\ app' = installed.d
  /\ st' = [NoState EXCEPT !.checking = chkOn']
  /\ asking' = IF chkOn' THEN {"loop"} ELSE {}
  /\ job' = [j \in Job |-> NoJob]
  /\ UNCHANGED <<shell, latest, proc, installed, dropped, goal, clean>>

Scripts == {j \in Job : proc[j].at \in {"wait", "copy", "copy2", "tidy"}}

WindowStep ==
  /\ \/ OpenWindow /\ clean' = (clean /\ Scripts = {})
     \/ WindowReady /\ UNCHANGED clean
     \/ (WindowGivesUp \/ WindowDies) /\ UNCHANGED clean
  /\ UNCHANGED <<latest, st, asking, job, zip, stage, proc, installed, pid, app, dropped, goal>>

QuitStep ==
  /\ Quit
  /\ IF child THEN DaemonLosesIts ELSE UNCHANGED <<st, asking, job>>
  /\ UNCHANGED <<latest, zip, stage, proc, installed, pid, app, dropped, goal, clean>>

CrashStep ==
  /\ DaemonCrash
  /\ DaemonLosesIts
  /\ UNCHANGED <<latest, zip, stage, proc, installed, pid, app, dropped, goal, clean>>

----------------------------------------------------------------------------
(* Checks *)

Publish(r) ==
  /\ left.news > 0 /\ left' = [left EXCEPT !.news = @ - 1]
  /\ latest' = r
  /\ UNCHANGED <<up, settings, shell, st, asking, job, zip, stage, proc, installed, pid, app,
                 dropped, goal, clean>>

checked == <<up, settings, shell, latest, job, zip, stage, proc, installed, pid, app, goal,
             clean>>

\* run_check begins: the loop's tick with the switch on, or update_check.
CheckBegins(by) ==
  /\ up = "up" /\ by \notin asking
  /\ by = "loop" => chkOn
  /\ asking' = asking \cup {by}
  /\ by = "hand" => left.checks > 0
  /\ left' = IF by = "hand" THEN [left EXCEPT !.checks = @ - 1] ELSE left
  /\ st' = [st EXCEPT !.checking = TRUE]
  /\ UNCHANGED <<checked, dropped>>

\* Mutant of CheckEnds: a failed check leaves by the early return.
CheckEndsEarly(by) ==
  /\ by \in asking
  /\ asking' = asking \ {by}
  /\ \/ /\ VersionGt(latest.tag, app)
        /\ st' = [st EXCEPT !.checking = FALSE, !.status = latest, !.applied = FALSE]
     \/ /\ ~VersionGt(latest.tag, app)
        /\ st' = [st EXCEPT !.checking = FALSE, !.status = Current]
     \/ st' = st
  /\ UNCHANGED <<checked, left, dropped>>

\* check_latest has answered, or failed, and run_check writes the outcome.
CheckEnds(by) ==
  /\ by \in asking
  /\ asking' = asking \ {by}
  /\ \/ /\ VersionGt(latest.tag, app)
        /\ st' = [st EXCEPT !.checking = FALSE, !.status = latest, !.applied = FALSE]
     \/ /\ ~VersionGt(latest.tag, app)
        /\ st' = [st EXCEPT !.checking = FALSE, !.status = Current]
     \/ st' = [st EXCEPT !.checking = FALSE]
  /\ UNCHANGED <<checked, left, dropped>>

\* The UI's page goes away and its call is dropped where it waits; the flags stay.
CheckDropped ==
  /\ "hand" \in asking /\ Fault
  /\ asking' = asking \ {"hand"}
  /\ dropped' = TRUE
  /\ UNCHANGED <<checked, st>>

----------------------------------------------------------------------------
(* apply_update and download_and_stage *)

still == <<up, settings, shell, latest, asking, installed, pid, app>>

\* The status must hold a newer version with a zip; else nothing happens.
ApplyBegins(j) ==
  /\ up = "up" /\ job[j].at = "idle" /\ proc[j].at = "none" /\ left.applies > 0
  /\ left' = [left EXCEPT !.applies = @ - 1]
  /\ st.status # NONE /\ VersionGt(st.status.tag, app) /\ st.status.zip
  /\ job' = [job EXCEPT ![j] = [at |-> "download", rel |-> ParseVersion(st.status.tag)]]
  /\ st' = [st EXCEPT !.downloading = 0, !.applied = FALSE]
  /\ clean' = (clean /\ Scripts = {} /\ \A k \in Job : job[k].at = "idle" /\ proc[k].at = "none")
  /\ UNCHANGED <<still, zip, stage, proc, dropped, goal>>

\* The zip is written, and Expand-Archive started on it.  By then the script of an
\* earlier process, which takes 3 s from its start, is over.
ApplyDownloaded(j) ==
  /\ job[j].at = "download"
  /\ \A k \in Scripts : proc[k].pid = pid
  /\ zip' = [zip EXCEPT ![pid] = job[j].rel]
  /\ st' = [st EXCEPT !.downloading = 50]
  /\ job' = [job EXCEPT ![j].at = "unpack"]
  /\ proc' = [proc EXCEPT ![j] = [at |-> "unzip", pid |-> pid, rel |-> job[j].rel]]
  /\ UNCHANGED <<still, stage, left, dropped, goal, clean>>

\* Mutant of ApplyFails: the progress is left standing.
ApplyFailsHanging(j) ==
  /\ \/ job[j].at \in {"download", "launch"}
     \/ job[j].at = "unpack" /\ proc[j].at = "none"
  /\ job' = [job EXCEPT ![j] = NoJob]
  /\ UNCHANGED <<still, st, zip, stage, proc, left, dropped, goal, clean>>

\* A download, an unpacking (or a stage without the window) or a launch that fails.
ApplyFails(j) ==
  /\ \/ job[j].at \in {"download", "launch"}
     \/ job[j].at = "unpack" /\ proc[j].at = "none"
  /\ job' = [job EXCEPT ![j] = NoJob]
  /\ st' = [st EXCEPT !.downloading = NONE]
  /\ UNCHANGED <<still, zip, stage, proc, left, dropped, goal, clean>>

\* The stage has the window's program: the script is started.
ApplyLaunched(j) ==
  /\ job[j].at = "launch" /\ stage[pid].w # NONE
  /\ job' = [job EXCEPT ![j] = NoJob]
  /\ proc' = [proc EXCEPT ![j] = [at |-> "wait", pid |-> pid, rel |-> job[j].rel]]
  /\ goal' = job[j].rel
  /\ st' = [st EXCEPT !.downloading = NONE, !.applied = TRUE]
  /\ UNCHANGED <<still, zip, stage, left, dropped, clean>>

\* As CheckDropped; an Expand-Archive that was started goes on.
ApplyDropped(j) ==
  /\ job[j].at # "idle" /\ Fault
  /\ job' = [job EXCEPT ![j] = NoJob]
  /\ dropped' = TRUE
  /\ UNCHANGED <<still, st, zip, stage, proc, goal, clean>>

----------------------------------------------------------------------------
(* PowerShell *)

quiet == <<left, latest, pid, app, dropped, goal, clean>>

alive == <<up, settings, shell, st, asking>>

\* Expand-Archive puts the daemon's program into the stage, then the window's.  It
\* may stop half way, and does when the zip is gone.
Unzip(j) ==
  LET p == proc[j].pid
  IN /\ \/ /\ proc[j].at = "unzip" /\ zip[p] # NONE
           /\ stage' = [stage EXCEPT ![p].d = zip[p]]
           /\ proc' = [proc EXCEPT ![j].at = "unzip2"]
           /\ job' = job
        \/ /\ proc[j].at = "unzip2" /\ zip[p] # NONE
           /\ stage' = [stage EXCEPT ![p].w = zip[p]]
           /\ proc' = [proc EXCEPT ![j] = NoProc]
           /\ job' = [job EXCEPT ![j].at = IF @ = "unpack" THEN "launch" ELSE @]
        \/ /\ proc[j].at \in {"unzip", "unzip2"}
           /\ proc' = [proc EXCEPT ![j] = NoProc]
           /\ UNCHANGED <<stage, job>>
     /\ UNCHANGED <<quiet, alive, zip, installed>>

\* APPLY_SCRIPT: both processes are killed ...
ScriptKills(j) ==
  /\ proc[j].at = "wait"
  /\ proc' = [proc EXCEPT ![j].at = "copy"]
  /\ window' = "none" /\ child' = FALSE
  /\ DaemonStops /\ DaemonLosesIts
  /\ UNCHANGED <<quiet, crashed, zip, stage, installed>>

\* ... or one of them, or none; the script does not notice ...
ScriptKillFails(j) ==
  /\ proc[j].at = "wait" /\ Fault
  /\ proc' = [proc EXCEPT ![j].at = "copy"]
  /\ clean' = FALSE
  /\ \/ /\ DaemonStops /\ DaemonLosesIts
        /\ UNCHANGED <<window, child>>
     \/ /\ window' = "none" /\ child' = FALSE
        /\ lost' = (up # "down")
        /\ UNCHANGED <<up, settings, st, asking, job>>
     \/ UNCHANGED <<up, settings, window, child, lost, st, asking, job>>
  /\ UNCHANGED <<latest, pid, app, dropped, goal, crashed, zip, stage, installed>>

\* Mutant of ScriptCopies: only the daemon is swapped.
ScriptCopiesDaemon(j) ==
  LET s == stage[proc[j].pid]
  IN /\ \/ /\ proc[j].at = "copy"
           /\ installed' = IF s.d # NONE /\ up = "down" THEN [installed EXCEPT !.d = s.d]
                           ELSE installed
           /\ proc' = [proc EXCEPT ![j].at = IF s.d # NONE THEN "copy2" ELSE "tidy"]
        \/ /\ proc[j].at = "copy2"
           /\ installed' = installed
           /\ proc' = [proc EXCEPT ![j].at = "tidy"]
     /\ UNCHANGED <<quiet, alive, job, zip, stage>>

\* ... the two programs are copied, if the stage has the daemon's and as far as they
\* are not running ...
ScriptCopies(j) ==
  LET s == stage[proc[j].pid]
  IN /\ \/ /\ proc[j].at = "copy"
           /\ installed' = IF s.d # NONE /\ up = "down" THEN [installed EXCEPT !.d = s.d]
                           ELSE installed
           /\ proc' = [proc EXCEPT ![j].at = IF s.d # NONE THEN "copy2" ELSE "tidy"]
        \/ /\ proc[j].at = "copy2"
           /\ installed' = IF s.w # NONE /\ window = "none" THEN [installed EXCEPT !.w = s.w]
                           ELSE installed
           /\ proc' = [proc EXCEPT ![j].at = "tidy"]
     /\ UNCHANGED <<quiet, alive, job, zip, stage>>

\* ... or a copy fails, and the script goes on ...
ScriptCopyFails(j) ==
  /\ \/ proc[j].at = "copy" /\ stage[proc[j].pid].d # NONE
     \/ proc[j].at = "copy2"
  /\ Fault
  /\ proc' = [proc EXCEPT ![j].at = IF @ = "copy" THEN "copy2" ELSE "tidy"]
  /\ clean' = FALSE
  /\ UNCHANGED <<alive, job, zip, stage, installed, latest, pid, app, dropped, goal>>

\* Mutant of ScriptEnds: the window is not started again.
ScriptEndsDark(j) ==
  LET p == proc[j].pid
  IN /\ proc[j].at = "tidy"
     /\ zip' = [zip EXCEPT ![p] = NONE] /\ stage' = [stage EXCEPT ![p] = Nothing]
     /\ proc' = [proc EXCEPT ![j] = NoProc]
     /\ UNCHANGED <<up, window, child>>
     /\ UNCHANGED <<quiet, settings, crashed, lost, st, asking, job, installed>>

\* ... zip and stage are removed, and the window is started, which finds or spawns
\* its daemon.
ScriptEnds(j) ==
  LET p == proc[j].pid
  IN /\ proc[j].at = "tidy"
     /\ zip' = [zip EXCEPT ![p] = NONE] /\ stage' = [stage EXCEPT ![p] = Nothing]
     /\ proc' = [proc EXCEPT ![j] = NoProc]
     /\ IF window = "none" /\ up # "boot" THEN EnsureDaemon ELSE UNCHANGED <<up, window, child>>
     /\ UNCHANGED <<quiet, settings, crashed, lost, st, asking, job, installed>>

----------------------------------------------------------------------------

Next ==
  \/ SettingsCall /\ UNCHANGED <<shell, updater>>
  \/ Boot \/ WindowStep \/ QuitStep \/ CrashStep
  \/ \E r \in Release : Publish(r)
  \/ \E by \in {"loop", "hand"} : CheckBegins(by) \/ CheckEnds(by)
  \/ CheckDropped
  \/ \E j \in Job :
       \/ ApplyBegins(j) \/ ApplyDownloaded(j) \/ ApplyFails(j) \/ ApplyLaunched(j)
       \/ ApplyDropped(j)
       \/ Unzip(j)
       \/ ScriptKills(j) \/ ScriptKillFails(j)
       \/ ScriptCopies(j) \/ ScriptCopyFails(j) \/ ScriptEnds(j)

\* Started programs get to run, GitHub's answer or its timeout comes, and the loop
\* ticks.
Fairness ==
  /\ WF_vars(Boot)
  /\ WF_vars(CheckBegins("loop")) /\ WF_vars(CheckEnds("loop"))
  /\ \A j \in Job :
       WF_vars(Unzip(j)) /\ WF_vars(ScriptKills(j)) /\ WF_vars(ScriptCopies(j))
         /\ WF_vars(ScriptEnds(j))

Spec == Init /\ [][Next]_vars /\ Fairness

----------------------------------------------------------------------------
(* Properties *)

\* The order of versions, part by part.
Older(a, b) ==
  \/ a[1] < b[1]
  \/ a[1] = b[1] /\ a[2] < b[2]
  \/ a[1] = b[1] /\ a[2] = b[2] /\ a[3] < b[3]

\* No program is replaced by an older one, whatever releases GitHub names and takes
\* back (version_gt in check_latest and in apply_update): the daemon's, unless two
\* scripts run at once over a stage that a third apply still fills; the window's, unless
\* it may have been left newer than the daemon before, by two applies that overlapped, a
\* DocLink started while a script ran, or a kill or copy that failed.
NeverOlder ==
  [][/\ (\A i, j \in Scripts : i = j) => ~Older(installed'.d, installed.d)
     /\ clean => ~Older(installed'.w, installed.w)]_vars

\* Window and daemon are of one version, unless two applies overlapped, the owner
\* started DocLink while the script ran, or one of its commands failed, which APPLY_SCRIPT
\* passes over (the script's two copies).
HalvesMatch ==
  clean /\ (\A j \in Job : proc[j].at # "copy2") => installed.d = installed.w

\* The progress bar stands for a running apply, unless a client went away during one
\* (State.downloading, written by every apply call).
ProgressIsReal ==
  st.downloading # NONE /\ ~dropped => \E j \in Job : job[j].at # "idle"

\* An apply that reported success ends with the new daemon running, unless that daemon
\* crashes, two applies overlapped, DocLink was started while the script ran, or a kill or
\* copy failed: the script then starts what is there (apply_update, APPLY_SCRIPT,
\* ensure_daemon).
UpdateTakesEffect ==
  (\E j \in Job : proc[j].at = "wait") ~> (up = "up" /\ app = goal) \/ ~clean \/ crashed

\* The UI does not show "Checking for updates" for ever while automatic checks are
\* on, even if a check failed or its client went away (run_check, run_check_loop).
CheckingEnds == st.checking ~> ~st.checking \/ ~chkOn
============================================================================
