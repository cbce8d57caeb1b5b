------------------------------ MODULE Launcher ------------------------------
(***************************************************************************)
(* The window shell's side of the daemon's life (doclink-win: main,        *)
(* ensure_daemon, stop_daemon, the quit command; admin.rs: shutdown_node). *)
(* A window that starts finds a daemon or spawns one, waits 15 s for its   *)
(* admin port, and on Quit stops the daemon if it still has its handle.  A  *)
(* shell that is killed or crashes leaves the daemon running.              *)
(* One window at a time: a second one is opened after the first has quit.  *)
(***************************************************************************)
EXTENDS Settings

VARIABLES
  window,   \* the shell: "none", "wait" (in ensure_daemon) or "up"
  child,    \* the shell holds the handle of a daemon it spawned
  crashed,  \* observation: a daemon has crashed
  lost      \* observation: no window has the handle of the daemon that runs: the one that
            \* spawned it gave up on it or died

shell == <<window, child, crashed, lost>>

LauncherOK ==
  /\ window \in {"none", "wait", "up"}
  /\ child \in BOOLEAN /\ crashed \in BOOLEAN /\ lost \in BOOLEAN

LauncherInit == window = "none" /\ child = FALSE /\ crashed = FALSE /\ lost = FALSE

\* The end of a daemon ends what was said of it.
DaemonStops == DaemonEnds /\ lost' = FALSE

\* ensure_daemon: a daemon that answers is used; else one is spawned.
EnsureDaemon ==
  /\ child' = FALSE
  /\ IF up = "up" THEN up' = up /\ window' = "up" ELSE up' = "boot" /\ window' = "wait"

\* The owner starts DocLink.  (With a daemon that is starting and has no port yet a
\* second one would be spawned; it is left out here.)
OpenWindow ==
  /\ window = "none" /\ up # "boot"
  /\ EnsureDaemon
  /\ UNCHANGED <<settings, left, crashed, lost>>

\* The spawned daemon answers within the 15 s: its handle is kept.
WindowReady ==
  /\ window = "wait" /\ up = "up"
  /\ window' = "up" /\ child' = TRUE
  /\ UNCHANGED <<up, settings, left, crashed, lost>>

\* It does not: the window opens and drops the handle.
WindowGivesUp ==
  /\ window = "wait" /\ up # "up" /\ Fault
  /\ window' = "up" /\ lost' = (up # "down")
  /\ UNCHANGED <<up, settings, child, crashed>>

\* Mutant of Quit: the daemon is left to itself.
QuitNever ==
  /\ window = "up"
  /\ window' = "none" /\ child' = FALSE
  /\ UNCHANGED <<up, settings>>
  /\ UNCHANGED <<left, crashed, lost>>

\* The quit command: with a handle, the daemon is asked to stop and is waited for,
\* and killed if it still answers after 5 s.
Quit ==
  /\ window = "up"
  /\ window' = "none" /\ child' = FALSE
  /\ IF child THEN DaemonStops ELSE UNCHANGED <<up, settings, lost>>
  /\ UNCHANGED <<left, crashed>>

\* The shell ends without its Quit; nobody tells the daemon.
WindowDies ==
  /\ window # "none" /\ Fault
  /\ window' = "none" /\ child' = FALSE
  /\ lost' = (up # "down")
  /\ UNCHANGED <<up, settings, crashed>>

DaemonCrash ==
  /\ up # "down" /\ Fault
  /\ crashed' = TRUE
  /\ DaemonStops
  /\ UNCHANGED <<window, child>>

----------------------------------------------------------------------------
(* Properties *)

\* A daemon does not outlive the windows that used it, unless no window has its handle:
\* the one that spawned it gave up waiting for it, or was killed or crashed, or the
\* updater's script ended the window alone (ensure_daemon and quit).  Such a daemon is found
\* by the next window, which does not stop it either.
NoDaemonLeft == window = "none" /\ ~lost => up = "down"
============================================================================
