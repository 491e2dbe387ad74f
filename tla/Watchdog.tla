------------------------------ MODULE Watchdog ------------------------------
(***************************************************************************)
(* The supervisor of the execution worker (platform/worker/watchdog.py):   *)
(* it starts the daemon, forwards stop signals to it, restarts it after a  *)
(* crash and gives up after too many of them.                              *)
(*                                                                         *)
(* The signal handler runs in the main thread between any two bytecodes,   *)
(* so Signal may come between any two steps of the loop.  It sees the      *)
(* variable `process`, which still names the previous daemon (or none)     *)
(* while Popen is starting the next one: `named` is TRUE when it names     *)
(* the daemon that runs.                                                   *)
(***************************************************************************)
EXTENDS Naturals

CONSTANTS
  MaxCrashRestarts,   \* MAX_CRASH_RESTARTS
  Capped,             \* whether LEARNINGOS_WATCHDOG_TIMEOUT_SEC is set
  MaxSignals          \* bound: stop signals ever sent

ASSUME WatchdogAssumption ==
  MaxCrashRestarts \in Nat /\ MaxSignals \in Nat /\ Capped \in BOOLEAN

VARIABLES
  at,         \* where the loop is
  stop,       \* stop["requested"]
  named,
  daemon,     \* "NONE" | "RUNNING" | "EXITED" (status 0) | "CRASHED"
  told,       \* the running daemon was sent a SIGTERM
  restarts,
  signals     \* stop signals sent

vars == <<at, stop, named, daemon, told, restarts, signals>>

Top ==
  /\ at = "TOP"
  /\ at' = IF stop THEN "END" ELSE "START"
  /\ UNCHANGED <<stop, named, daemon, told, restarts, signals>>

\* Popen, and then the assignment of its result.
Start ==
  /\ at = "START"
  /\ at' = "STARTED"
  /\ daemon' = "RUNNING" /\ told' = FALSE /\ named' = FALSE
  /\ UNCHANGED <<stop, restarts, signals>>

Name ==
  /\ at = "STARTED"
  /\ at' = "WATCH"
  /\ named' = TRUE
  /\ UNCHANGED <<stop, daemon, told, restarts, signals>>

\* The wall-clock cap kills the daemon and ends the watchdog.
Mutant_LeaveDaemon ==
  /\ at = "WATCH" /\ Capped /\ daemon = "RUNNING"
  /\ at' = "END"
  /\ UNCHANGED <<stop, named, daemon, told, restarts, signals>>
Deadline ==
  /\ at = "WATCH" /\ Capped /\ daemon = "RUNNING"
  /\ daemon' = "CRASHED"
  /\ at' = "END"
  /\ UNCHANGED <<stop, named, told, restarts, signals>>

Poll ==
  /\ at = "WATCH" /\ daemon # "RUNNING"
  /\ at' = "ENDED"
  /\ UNCHANGED <<stop, named, daemon, told, restarts, signals>>

Judge ==
  /\ at = "ENDED"
  /\ at' = IF stop \/ daemon = "EXITED" THEN "END" ELSE "COUNT"
  /\ UNCHANGED <<stop, named, daemon, told, restarts, signals>>

Count ==
  /\ at = "COUNT"
  /\ restarts' = restarts + 1
  /\ at' = IF restarts' > MaxCrashRestarts THEN "END" ELSE "TOP"
  /\ UNCHANGED <<stop, named, daemon, told, signals>>

\* SIGTERM or SIGINT arrives, and the handler forwards it.
Mutant_ForwardOnly ==
  /\ at # "END" /\ signals < MaxSignals
  /\ signals' = signals + 1
  /\ told' = (told \/ (named /\ daemon = "RUNNING"))
  /\ UNCHANGED <<at, stop, named, daemon, restarts>>
Signal ==
  /\ at # "END" /\ signals < MaxSignals
  /\ signals' = signals + 1
  /\ stop' = TRUE
  /\ told' = (told \/ (named /\ daemon = "RUNNING"))
  /\ UNCHANGED <<at, named, daemon, restarts>>

\* The daemon ends: with status 0 when it is told to stop (by the signal or
\* by a shutdown request), with another one when it crashes or the signal
\* comes before it has installed its handlers.
DaemonObeys ==
  /\ daemon = "RUNNING" /\ told
  /\ \E end \in {"EXITED", "CRASHED"} : daemon' = end
  /\ UNCHANGED <<at, stop, named, told, restarts, signals>>

DaemonEnds ==
  /\ daemon = "RUNNING"
  /\ \E end \in {"EXITED", "CRASHED"} : daemon' = end
  /\ UNCHANGED <<at, stop, named, told, restarts, signals>>

Init ==
  /\ at = "TOP" /\ daemon = "NONE"
  /\ stop = FALSE /\ named = FALSE /\ told = FALSE
  /\ restarts = 0 /\ signals = 0

Loop == Top \/ Start \/ Name \/ Poll \/ Judge \/ Count

Next == Loop \/ Deadline \/ Signal \/ DaemonObeys \/ DaemonEnds

\* The loop runs on, and a daemon that was told to stop stops.  Nothing else
\* makes it stop.
Spec == Init /\ [][Next]_vars /\ WF_vars(Loop) /\ WF_vars(DaemonObeys)

-----------------------------------------------------------------------------
(* Properties                                                              *)

\* The restarts of a watchdog are bounded, over its whole life.
TypeOK ==
  /\ at \in {"TOP", "START", "STARTED", "WATCH", "ENDED", "COUNT", "END"}
  /\ stop \in BOOLEAN /\ named \in BOOLEAN /\ told \in BOOLEAN
  /\ daemon \in {"NONE", "RUNNING", "EXITED", "CRASHED"}
  /\ restarts \in 0..(MaxCrashRestarts + 1)
  /\ signals \in 0..MaxSignals

(***************************************************************************)
(* The watchdog does not leave a daemon behind, and does not have two.     *)
(***************************************************************************)
NoOrphan == at \in {"TOP", "START", "END"} => daemon # "RUNNING"

(***************************************************************************)
(* A stop signal that comes while the watchdog watches the daemon ends     *)
(* both, even if the daemon dies of it with a status that looks like a     *)
(* crash.                                                                  *)
(***************************************************************************)
WatchedStopEnds == told ~> (at = "END" /\ daemon # "RUNNING")

-----------------------------------------------------------------------------
(* What the documents say and the code does not do                         *)

(***************************************************************************)
(* "Launch daemon.py, forward stop signals, and restart it after crashes." *)
(* A stop signal that comes during Popen is forwarded to nobody, and the   *)
(* watchdog goes on watching a daemon that nobody told to stop.            *)
(***************************************************************************)
StopEnds == stop ~> at = "END"
=============================================================================
