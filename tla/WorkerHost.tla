------------------------------ MODULE WorkerHost ------------------------------
(***************************************************************************)
(* The processes of one machine that share the worker's socket path: the   *)
(* watchdog with the daemons it starts, and the development supervisor     *)
(* (tools/platform/dev.py), which starts a daemon of its own beside the    *)
(* backend and the frontend.  Nothing but the path keeps them apart.       *)
(*                                                                         *)
(* A daemon that starts probes the path, unlinks it when nobody answers,   *)
(* and binds it (_prepare_socket, platform/worker/daemon.py); one that     *)
(* stops unlinks whatever the path names by then (_cleanup); one that is   *)
(* killed leaves it.  All that the daemon does with jobs is in             *)
(* WorkerDaemon.                                                           *)
(***************************************************************************)
EXTENDS Watchdog, Sequences, FiniteSets

CONSTANT Service     \* the supervisor's services in the order of service_specs

Worker == "worker"

ASSUME HostAssumption == Service[1] = Worker /\ Service \in Seq(STRING)

VARIABLES
  phase,     \* [Daemon -> how far it is]
  stopping,  \* [Daemon -> _stopping]
  path,      \* whose socket the path names: a Daemon, "stale" or "none"
  dev,       \* the supervisor: where it is, at which service, asked to stop
  service    \* [services -> "OFF" | "ON" | "TERMED" | "KILLED" | "ENDED"]

hostVars == <<phase, stopping, path, dev, service>>
allVars == <<at, stop, named, daemon, told, restarts, signals, hostVars>>

\* The daemon of the watchdog and that of the supervisor.
Daemon == {"watched", Worker}

Live(e) == phase[e] = "serving"
SigtermPending(d) ==
  ~stopping[d] /\ IF d = "watched" THEN told ELSE service[Worker] = "TERMED"

\* A process ends: with status 0 or another one, seen by whoever started it.
Leaves(d, status) ==
  /\ phase' = [phase EXCEPT ![d] = "off"]
  /\ IF d = "watched"
     THEN daemon' = status /\ UNCHANGED service
     ELSE service' = [service EXCEPT ![Worker] = "ENDED"] /\ UNCHANGED daemon
  /\ UNCHANGED <<at, stop, named, told, restarts, signals, stopping, dev>>

Goes(d, to) ==
  /\ phase' = [phase EXCEPT ![d] = to]
  /\ UNCHANGED <<at, stop, named, daemon, told, restarts, signals,
                 stopping, dev, service>>

-----------------------------------------------------------------------------
(* A daemon                                                                *)

\* serve_forever installs the handlers; a signal before that ends it.
Install(d) ==
  /\ phase[d] = "launch"
  /\ IF SigtermPending(d) THEN Leaves(d, "CRASHED") ELSE Goes(d, "probe")
  /\ UNCHANGED path

\* _on_signal: the listening socket is closed, if it is on record.
OnSignal(d) ==
  /\ SigtermPending(d) /\ phase[d] \notin {"off", "launch"}
  /\ stopping' = [stopping EXCEPT ![d] = TRUE]
  /\ phase' = [phase EXCEPT ![d] = IF @ = "serving" THEN "closed" ELSE @]
  /\ UNCHANGED <<at, stop, named, daemon, told, restarts, signals,
                 path, dev, service>>

\* A shutdown request, which comes through the path.
Request(d) ==
  /\ Live(d) /\ path = d
  /\ stopping' = [stopping EXCEPT ![d] = TRUE]
  /\ UNCHANGED <<at, stop, named, daemon, told, restarts, signals,
                 phase, path, dev, service>>

\* _prepare_socket: only a listening daemon answers the probe.
Mutant_TrustsNobody(d) ==
  /\ phase[d] = "probe"
  /\ Goes(d, IF path = "none" THEN "bind" ELSE "unlink")
  /\ UNCHANGED path
Probe(d) ==
  /\ phase[d] = "probe"
  /\ IF path = "none" THEN Goes(d, "bind")
     ELSE IF path # "stale" /\ Live(path) THEN Leaves(d, "CRASHED")
     ELSE Goes(d, "unlink")
  /\ UNCHANGED path

Unlink(d) ==
  /\ phase[d] = "unlink"
  /\ path' = "none"
  /\ Goes(d, "bind")

Bind(d) ==
  /\ phase[d] = "bind"
  /\ IF path = "none" THEN path' = d /\ Goes(d, "bound")
     ELSE UNCHANGED path /\ Leaves(d, "CRASHED")

Listen(d) ==
  /\ phase[d] = "bound"
  /\ Goes(d, "serving")
  /\ UNCHANGED path

LeaveLoop(d) ==
  /\ phase[d] = "serving" /\ stopping[d]
  /\ Goes(d, "closed")
  /\ UNCHANGED path

\* _cleanup after the socket is closed and the jobs are killed.
Cleanup(d) ==
  /\ phase[d] = "closed"
  /\ path' = "none"
  /\ Leaves(d, "EXITED")

\* A crash or a SIGKILL; the path stays and names a dead socket.
Falls(d) ==
  /\ phase[d] # "off"
  /\ path' = IF path = d THEN "stale" ELSE path

Crash(d) == Falls(d) /\ Leaves(d, "CRASHED")

Progress(d) ==
  \/ Install(d) \/ OnSignal(d) \/ Probe(d) \/ Unlink(d) \/ Bind(d)
  \/ Listen(d) \/ LeaveLoop(d) \/ Cleanup(d)

-----------------------------------------------------------------------------
(* The watchdog: its steps are those of Watchdog, with its daemon.         *)

Launch(d) ==
  /\ phase' = [phase EXCEPT ![d] = "launch"]
  /\ stopping' = [stopping EXCEPT ![d] = FALSE]

WatchdogStarts == Start /\ Launch("watched") /\ UNCHANGED <<path, dev, service>>

WatchdogKills ==
  /\ Deadline /\ Falls("watched")
  /\ phase' = [phase EXCEPT !["watched"] = "off"]
  /\ UNCHANGED <<stopping, dev, service>>

WatchdogLoop ==
  \/ WatchdogStarts
  \/ (Top \/ Name \/ Poll \/ Judge \/ Count) /\ UNCHANGED hostVars

-----------------------------------------------------------------------------
(* The supervisor                                                          *)

DevMoves(to) == dev' = to /\ UNCHANGED <<vars, path>>

\* The loop over `processes` in reverse, from the last one that was started.
Back(step, next) ==
  IF dev.k > 1 THEN [dev EXCEPT !.k = @ - 1]
  ELSE [dev EXCEPT !.at = next, !.k = dev.started]

Stopping == [dev EXCEPT !.at = IF dev.started = 0 THEN "done" ELSE "term",
                        !.k = dev.started]

\* Supervisor.start, one service after the other.
DevStart ==
  /\ dev.at = "start" /\ dev.started < Len(Service)
  /\ LET s == Service[dev.started + 1] IN
     /\ service' = [service EXCEPT ![s] = "ON"]
     /\ IF s = Worker THEN Launch(Worker) ELSE UNCHANGED <<phase, stopping>>
  /\ DevMoves([dev EXCEPT !.started = @ + 1,
                 !.at = IF dev.started + 1 = Len(Service) THEN "watch" ELSE @])

\* Popen raises; what was started is stopped.
Mutant_StartFailsOpen ==
  /\ dev.at = "start"
  /\ DevMoves([dev EXCEPT !.at = "done"])
  /\ UNCHANGED <<phase, stopping, service>>
StartFails ==
  /\ dev.at = "start"
  /\ DevMoves(Stopping)
  /\ UNCHANGED <<phase, stopping, service>>

\* request_stop, which the loop sees 0.25 s later at the latest.
DevAsked ==
  /\ dev.at # "done" /\ ~dev.asked
  /\ DevMoves([dev EXCEPT !.asked = TRUE])
  /\ UNCHANGED <<phase, stopping, service>>

Ended(s) == service[s] = "ENDED"

DevLeaves ==
  /\ dev.at = "watch"
  /\ dev.asked \/ \E k \in 1..Len(Service) : Ended(Service[k])
  /\ DevMoves(Stopping)
  /\ UNCHANGED <<phase, stopping, service>>

\* SIGTERM to the group of each service that runs.
Term ==
  /\ dev.at = "term"
  /\ service' = [service EXCEPT ![Service[dev.k]] =
                   IF @ = "ENDED" THEN @ ELSE "TERMED"]
  /\ DevMoves(Back("term", "wait"))
  /\ UNCHANGED <<phase, stopping>>

\* It ends within the grace period that all share, or it is killed.
Wait ==
  /\ dev.at = "wait"
  /\ dev' = Back("wait", "reap")
  /\ LET s == Service[dev.k] IN
     \/ Ended(s) /\ UNCHANGED <<path, phase, service>>
     \/ /\ ~Ended(s)
        /\ IF s = Worker
           THEN Falls(Worker) /\ phase' = [phase EXCEPT ![Worker] = "off"]
           ELSE UNCHANGED <<path, phase>>
        /\ service' = [service EXCEPT ![s] = IF s = Worker THEN "ENDED" ELSE "KILLED"]
  /\ UNCHANGED <<vars, stopping>>

\* The last wait, of two seconds, ends either way.
Reap ==
  /\ dev.at = "reap"
  /\ DevMoves(Back("reap", "done"))
  /\ UNCHANGED <<phase, stopping, service>>

DevLoop == DevStart \/ DevLeaves \/ Term \/ Wait \/ Reap

\* The other services end: on their own, when told to, or killed.
ServiceEnds(s) ==
  /\ s # Worker /\ service[s] \in {"ON", "TERMED", "KILLED"}
  /\ service' = [service EXCEPT ![s] = "ENDED"]
  /\ UNCHANGED <<vars, phase, stopping, path, dev>>

-----------------------------------------------------------------------------
HostInit ==
  /\ Init
  /\ phase = [d \in Daemon |-> "off"]
  /\ stopping = [d \in Daemon |-> FALSE]
  /\ path \in {"none", "stale"}
  /\ dev = [at |-> "start", started |-> 0, k |-> 0, asked |-> FALSE]
  /\ service = [s \in {Service[k] : k \in 1..Len(Service)} |-> "OFF"]

HostNext ==
  \/ WatchdogLoop \/ WatchdogKills
  \/ Signal /\ UNCHANGED hostVars
  \/ \E d \in Daemon : Progress(d) \/ Request(d) \/ Crash(d)
  \/ DevLoop \/ StartFails \/ DevAsked
  \/ \E s \in DOMAIN service : ServiceEnds(s)

\* The loops run on, and so does a daemon that starts or was told to stop.
HostSpec ==
  /\ HostInit /\ [][HostNext]_allVars
  /\ WF_allVars(WatchdogLoop) /\ WF_allVars(DevLoop)
  /\ \A d \in Daemon : WF_allVars(Progress(d))

-----------------------------------------------------------------------------
(* Properties                                                              *)

(***************************************************************************)
(* The path is a lock between processes that a crash cannot leave locked   *)
(* (_prepare_socket): as long as no daemon starts while another one is     *)
(* starting or cleaning up, a daemon that serves is the one the path names *)
(* - a second start finds it and leaves it alone - and a start fails on    *)
(* account of a living daemon only, never of a dead one's socket.          *)
(***************************************************************************)
Starting == {"probe", "unlink", "bind", "bound"}

Calm ==
  \A d \in Daemon : \A e \in Daemon \ {d} :
     phase[d] \in Starting => phase[e] \in {"off", "launch", "serving"}

Reachable == \A d \in Daemon : Live(d) => path = d

BindSucceeds == \A d \in Daemon : phase[d] = "bind" => path = "none"

StartsSafely == []Calm => [](Reachable /\ BindSucceeds)

(***************************************************************************)
(* When the supervisor is asked to stop, or one of its services ends, it   *)
(* ends, whatever the others do with the SIGTERM and however far it had    *)
(* come with starting them, and leaves no service that it did not kill.    *)
(***************************************************************************)
LeftNothing == \A s \in DOMAIN service : service[s] \in {"OFF", "KILLED", "ENDED"}

DevStops ==
  (dev.asked \/ \E s \in DOMAIN service : Ended(s))
    ~> (dev.at = "done" /\ LeftNothing)
=============================================================================
