--------------------------- MODULE WatchdogProofs ---------------------------
(***************************************************************************)
(* Proofs about Watchdog, for every number of restarts and of signals, and *)
(* about WorkerHost, for any services.                                     *)
(*                                                                         *)
(* The inductive invariant of Watchdog says where in its loop it may be    *)
(* while a daemon runs, and that it counts a restart only once below the   *)
(* limit.  A step of WorkerHost is one of Watchdog or leaves its variables *)
(* alone, since the watched daemon has a phase exactly while the watchdog  *)
(* takes it for running.                                                   *)
(*                                                                         *)
(* That starts are safe needs more than Reachable and BindSucceeds: whose  *)
(* socket the path names between bind and listen, and that nobody serves   *)
(* beside a daemon that has found the path free or is about to unlink it.  *)
(***************************************************************************)
EXTENDS WorkerHost, TLAPS

Inv ==
  /\ TypeOK
  /\ daemon = "RUNNING" => at \in {"STARTED", "WATCH"}
  /\ at # "END" => restarts <= MaxCrashRestarts

LEMMA InvInit == Init => Inv
<1> SUFFICES ASSUME Init PROVE Inv
  OBVIOUS
<1>1. stop \in BOOLEAN /\ named \in BOOLEAN /\ told \in BOOLEAN
  BY Zenon DEF Init
<1>2. at = "TOP" /\ daemon = "NONE" /\ restarts = 0 /\ signals = 0
  BY Zenon DEF Init
<1> QED
  BY <1>1, <1>2, WatchdogAssumption DEF Inv, TypeOK

LEMMA InvNext == Inv /\ [Next]_vars => Inv'
<1> SUFFICES ASSUME Inv, [Next]_vars PROVE Inv'
  OBVIOUS
<1> USE WatchdogAssumption DEF Inv, TypeOK
<1>1. CASE Top \/ Start \/ Name \/ Poll \/ Judge
  BY <1>1 DEF Top, Start, Name, Poll, Judge
<1>2. CASE Count
  BY <1>2 DEF Count
<1>3. CASE Deadline
  BY <1>3 DEF Deadline
<1>4. CASE Signal
  BY <1>4 DEF Signal
<1>5. CASE DaemonObeys \/ DaemonEnds
  BY <1>5 DEF DaemonObeys, DaemonEnds
<1>6. CASE UNCHANGED vars
  BY <1>6 DEF vars
<1> QED
  BY <1>1, <1>2, <1>3, <1>4, <1>5, <1>6 DEF Next, Loop

(***************************************************************************)
(* The watchdog restarts the daemon MAX_CRASH_RESTARTS times at most, over *)
(* its whole life (watchdog.py:51-57).                                     *)
(***************************************************************************)
THEOREM TypeCorrect == Spec => []TypeOK
<1>1. Inv => TypeOK
  BY DEF Inv
<1> QED
  BY <1>1, InvInit, InvNext, PTL DEF Spec

(***************************************************************************)
(* No daemon outlives the watchdog and none is started beside another,     *)
(* whenever the signals and the crashes come.                              *)
(***************************************************************************)
THEOREM NoOrphanHolds == Spec => []NoOrphan
<1>1. Inv => NoOrphan
  BY DEF Inv, NoOrphan
<1> QED
  BY <1>1, InvInit, InvNext, PTL DEF Spec

-----------------------------------------------------------------------------
(* WorkerHost                                                              *)

Phase == {"off", "launch", "probe", "unlink", "bind", "bound", "serving", "closed"}

HostInv ==
  /\ phase \in [Daemon -> Phase] /\ path \in Daemon \cup {"stale", "none"}
  /\ phase["watched"] # "off" <=> daemon = "RUNNING"

\* The steps of a daemon, for phase and path: nothing else changes them.
Changes(d) ==
  \/ Install(d) \/ OnSignal(d) \/ Probe(d) \/ Unlink(d) \/ Bind(d) \/ Listen(d)
  \/ LeaveLoop(d) \/ Cleanup(d) \/ Crash(d)

LEMMA HostInvInit == HostInit => HostInv
BY DEF HostInit, Init, HostInv, Phase, Daemon, Worker

\* A daemon moves on, or ends as its watchdog sees it.
LEMMA GoesRefines ==
  ASSUME HostInv, NEW d \in Daemon, phase[d] # "off", NEW to \in Phase \ {"off"}, Goes(d, to)
  PROVE  UNCHANGED vars /\ phase' \in [Daemon -> Phase]
         /\ (phase["watched"] # "off" <=> daemon = "RUNNING")'
BY DEF HostInv, Goes, vars, Daemon, Worker

LEMMA LeavesRefines ==
  ASSUME HostInv, NEW d \in Daemon, phase[d] # "off", NEW status \in {"EXITED", "CRASHED"},
         Leaves(d, status)
  PROVE  [Next]_vars /\ phase' \in [Daemon -> Phase]
         /\ (phase["watched"] # "off" <=> daemon = "RUNNING")'
<1>1. phase' = [phase EXCEPT ![d] = "off"] /\ phase' \in [Daemon -> Phase]
  BY DEF Leaves, HostInv, Phase
<1>2. CASE d = "watched"
  <2>1. DaemonEnds
    BY <1>2 DEF Leaves, DaemonEnds, HostInv
  <2>2. daemon' # "RUNNING" /\ phase'["watched"] = "off"
    BY <1>1, <1>2 DEF Leaves, HostInv
  <2> QED BY <1>1, <2>1, <2>2 DEF Next
<1>3. CASE d # "watched"
  <2>1. UNCHANGED vars
    BY <1>3 DEF Leaves, vars
  <2>2. phase'["watched"] = phase["watched"]
    BY <1>1, <1>3 DEF HostInv, Daemon
  <2> QED BY <1>1, <2>1, <2>2 DEF HostInv, vars
<1> QED BY <1>2, <1>3

LEMMA ChangesRefine ==
  ASSUME HostInv, NEW d \in Daemon, Changes(d)
  PROVE  [Next]_vars /\ HostInv'
<1>1. CASE Install(d)
  BY <1>1, GoesRefines, LeavesRefines DEF Install, HostInv, Phase
<1>2. CASE OnSignal(d)
  BY <1>2 DEF OnSignal, HostInv, Phase, vars, Daemon, Worker
<1>3. CASE Probe(d)
  BY <1>3, GoesRefines, LeavesRefines DEF Probe, HostInv, Phase
<1>4. CASE Unlink(d)
  BY <1>4, GoesRefines DEF Unlink, HostInv, Phase
<1>5. CASE Bind(d)
  BY <1>5, GoesRefines, LeavesRefines DEF Bind, HostInv, Phase
<1>6. CASE Listen(d)
  BY <1>6, GoesRefines DEF Listen, HostInv, Phase
<1>7. CASE LeaveLoop(d)
  BY <1>7, GoesRefines DEF LeaveLoop, HostInv, Phase
<1>8. CASE Cleanup(d)
  BY <1>8, LeavesRefines DEF Cleanup, HostInv
<1>9. CASE Crash(d)
  BY <1>9, LeavesRefines DEF Crash, Falls, HostInv
<1> QED BY <1>1, <1>2, <1>3, <1>4, <1>5, <1>6, <1>7, <1>8, <1>9 DEF Changes

\* What every step is, for the daemons and the path.
LEMMA HostCases ==
  ASSUME HostInv, [HostNext]_allVars
  PROVE  /\ [Next]_vars /\ HostInv'
         /\ \/ UNCHANGED <<phase, path>>
            \/ \E d \in Daemon : phase' = [phase EXCEPT ![d] = "launch"] /\ path' = path
            \/ \E d \in Daemon : /\ phase' = [phase EXCEPT ![d] = "off"]
                                /\ path' = IF path = d THEN "stale" ELSE path
            \/ \E d \in Daemon : Changes(d)
<1> USE DEF HostInv, Phase, Daemon, Worker
<1>1. CASE WatchdogStarts
  BY <1>1 DEF WatchdogStarts, Start, Launch, Next, Loop
<1>2. CASE (Top \/ Name \/ Poll \/ Judge \/ Count) /\ UNCHANGED hostVars
  <2>1. daemon' = daemon /\ phase' = phase /\ path' = path /\ [Next]_vars
    BY <1>2 DEF hostVars, Top, Name, Poll, Judge, Count, Next, Loop
  <2> QED BY <2>1
<1>3. CASE WatchdogKills
  <2>1. Deadline /\ phase' = [phase EXCEPT !["watched"] = "off"]
        /\ path' = IF path = "watched" THEN "stale" ELSE path
    BY <1>3 DEF WatchdogKills, Falls
  <2>2. daemon' = "CRASHED"
    BY <2>1 DEF Deadline
  <2> QED BY <2>1, <2>2 DEF Next
<1>4. CASE Signal /\ UNCHANGED hostVars
  BY <1>4 DEF hostVars, Signal, Next
<1>5. ASSUME NEW d \in Daemon, Progress(d) \/ Crash(d)
      PROVE  Changes(d)
  BY <1>5 DEF Progress, Changes
<1>6. ASSUME NEW d \in Daemon, Request(d)
      PROVE  UNCHANGED <<vars, phase, path>>
  BY <1>6 DEF Request, vars
<1>7. CASE DevStart
  BY <1>7 DEF DevStart, DevMoves, Launch, vars
<1>8. CASE DevLeaves \/ Term \/ Reap \/ StartFails \/ DevAsked
  BY <1>8 DEF DevLeaves, Term, Reap, StartFails, DevAsked, DevMoves, vars
<1>9. CASE Wait
  BY <1>9 DEF Wait, Falls, vars
<1>10. ASSUME NEW s, ServiceEnds(s)
       PROVE  UNCHANGED <<vars, phase, path>>
  BY <1>10 DEF ServiceEnds
<1>11. CASE UNCHANGED allVars
  BY <1>11 DEF allVars, hostVars, vars
<1>12. ASSUME NEW d \in Daemon, Changes(d)
       PROVE  [Next]_vars /\ HostInv'
  BY <1>12, ChangesRefine
<1>13. UNCHANGED <<vars, phase, path>> => [Next]_vars /\ HostInv'
  BY DEF vars
<1> QED
  BY <1>1, <1>2, <1>3, <1>4, <1>5, <1>6, <1>7, <1>8, <1>9, <1>10, <1>11, <1>12, <1>13
     DEF HostNext, WatchdogLoop, DevLoop

(***************************************************************************)
(* No daemon outlives the watchdog when daemons share the path with those  *)
(* of the supervisor, which start, crash and are killed beside them.       *)
(***************************************************************************)
THEOREM HostNoOrphan == HostSpec => []NoOrphan
<1>1. HostInit => HostInv /\ Inv
  BY HostInvInit, InvInit DEF HostInit
<1>2. (HostInv /\ Inv) /\ [HostNext]_allVars => (HostInv /\ Inv)'
  <2>1. HostInv /\ [HostNext]_allVars => [Next]_vars /\ HostInv'
    BY HostCases
  <2> QED BY <2>1, InvNext
<1>3. Inv => NoOrphan
  BY DEF Inv, NoOrphan
<1> QED BY <1>1, <1>2, <1>3, PTL DEF HostSpec

\* What a start relies on.
Exclusive ==
  \A d \in Daemon : \A e \in Daemon \ {d} :
     phase[d] \in {"unlink", "bind", "bound", "closed"} => ~Live(e)

Bound == \A d \in Daemon : phase[d] = "bound" => path = d

SafeInv == HostInv /\ Reachable /\ BindSucceeds /\ Bound /\ Exclusive

\* A daemon that changes nothing but its own phase to one that promises
\* nothing, whatever becomes of the path it named.
LEMMA AwaySafe ==
  ASSUME SafeInv, HostInv', NEW d \in Daemon, NEW to \in {"off", "launch", "probe"},
         phase' = [phase EXCEPT ![d] = to],
         path' = path \/ path' = IF path = d THEN "stale" ELSE path
  PROVE  SafeInv'
BY DEF SafeInv, HostInv, Reachable, BindSucceeds, Bound, Exclusive, Live, Daemon, Worker

LEMMA ChangesSafe ==
  ASSUME SafeInv, Calm, Calm', HostInv', NEW d \in Daemon, Changes(d)
  PROVE  SafeInv'
<1>1. CASE Install(d)
  BY <1>1, AwaySafe DEF Install, Goes, Leaves
<1>2. CASE OnSignal(d)
  <2>1. phase' = [phase EXCEPT ![d] = IF @ = "serving" THEN "closed" ELSE @] /\ path' = path
    BY <1>2 DEF OnSignal
  <2> QED BY <2>1 DEF SafeInv, HostInv, Reachable, BindSucceeds, Bound, Exclusive, Live, Daemon
<1>3. CASE Probe(d)
  <2>1. \/ phase' = [phase EXCEPT ![d] = "off"] /\ path' = path
        \/ phase' = [phase EXCEPT ![d] = "bind"] /\ path' = path /\ path = "none"
        \/ /\ phase' = [phase EXCEPT ![d] = "unlink"] /\ path' = path
           /\ path \in Daemon => ~Live(path)
    BY <1>3 DEF Probe, Goes, Leaves, Daemon, Worker
  <2>2. phase[d] = "probe"
    BY <1>3 DEF Probe
  <2> QED
    BY <2>1, <2>2, AwaySafe
       DEF SafeInv, HostInv, Reachable, BindSucceeds, Bound, Exclusive, Live, Daemon, Calm,
           Starting, Worker
<1>4. CASE Unlink(d)
  <2>1. phase[d] = "unlink" /\ phase' = [phase EXCEPT ![d] = "bind"] /\ path' = "none"
    BY <1>4 DEF Unlink, Goes
  <2> QED
    BY <2>1 DEF SafeInv, HostInv, Reachable, BindSucceeds, Bound, Exclusive, Live, Calm,
                Starting, Daemon
<1>5. CASE Bind(d)
  <2>1. phase[d] = "bind" /\ path = "none"
    BY <1>5 DEF Bind, SafeInv, BindSucceeds
  <2>2. phase' = [phase EXCEPT ![d] = "bound"] /\ path' = d
    BY <1>5, <2>1 DEF Bind, Goes
  <2> QED
    BY <2>1, <2>2 DEF SafeInv, HostInv, Reachable, BindSucceeds, Bound, Exclusive, Live, Calm,
                      Starting, Daemon
<1>6. CASE Listen(d)
  <2>1. phase[d] = "bound" /\ phase' = [phase EXCEPT ![d] = "serving"] /\ path' = path
    BY <1>6 DEF Listen, Goes
  <2> QED
    BY <2>1 DEF SafeInv, HostInv, Reachable, BindSucceeds, Bound, Exclusive, Live, Calm,
                Starting, Daemon
<1>7. CASE LeaveLoop(d)
  <2>1. phase[d] = "serving" /\ phase' = [phase EXCEPT ![d] = "closed"] /\ path' = path
    BY <1>7 DEF LeaveLoop, Goes
  <2> QED
    BY <2>1 DEF SafeInv, HostInv, Reachable, BindSucceeds, Bound, Exclusive, Live, Daemon
<1>8. CASE Cleanup(d)
  <2>1. phase[d] = "closed" /\ phase' = [phase EXCEPT ![d] = "off"] /\ path' = "none"
    BY <1>8 DEF Cleanup, Leaves
  <2> QED
    BY <2>1 DEF SafeInv, HostInv, Reachable, BindSucceeds, Bound, Exclusive, Live, Calm,
                Starting, Daemon
<1>9. CASE Crash(d)
  BY <1>9, AwaySafe DEF Crash, Falls, Leaves
<1> QED BY <1>1, <1>2, <1>3, <1>4, <1>5, <1>6, <1>7, <1>8, <1>9 DEF Changes

(***************************************************************************)
(* As long as no two daemons start or clean up at once, a daemon that      *)
(* serves can be reached at the path, and a start is refused on account of *)
(* a living daemon only (_prepare_socket, daemon.py:108-129).              *)
(***************************************************************************)
THEOREM HostStartsSafely == HostSpec => StartsSafely
<1>1. HostInit => SafeInv
  BY HostInvInit DEF HostInit, SafeInv, Reachable, BindSucceeds, Bound, Exclusive, Live, Daemon,
     Worker
<1>2. SafeInv /\ Calm /\ Calm' /\ [HostNext]_allVars => SafeInv'
  <2> SUFFICES ASSUME SafeInv, Calm, Calm', [HostNext]_allVars PROVE SafeInv'
    OBVIOUS
  <2>1. HostInv'
    BY HostCases DEF SafeInv
  <2>2. CASE UNCHANGED <<phase, path>>
    BY <2>1, <2>2 DEF SafeInv, Reachable, BindSucceeds, Bound, Exclusive, Live
  <2>3. CASE \E d \in Daemon : phase' = [phase EXCEPT ![d] = "launch"] /\ path' = path
    BY <2>1, <2>3, AwaySafe
  <2>4. CASE \E d \in Daemon : /\ phase' = [phase EXCEPT ![d] = "off"]
                              /\ path' = IF path = d THEN "stale" ELSE path
    BY <2>1, <2>4, AwaySafe
  <2>5. CASE \E d \in Daemon : Changes(d)
    BY <2>1, <2>5, ChangesSafe
  <2> QED BY <2>2, <2>3, <2>4, <2>5, HostCases DEF SafeInv
<1>3. SafeInv => Reachable /\ BindSucceeds
  BY DEF SafeInv
<1> QED BY <1>1, <1>2, <1>3, PTL DEF HostSpec, StartsSafely
=============================================================================
