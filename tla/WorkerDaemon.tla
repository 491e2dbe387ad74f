---------------------------- MODULE WorkerDaemon ----------------------------
(***************************************************************************)
(* The execution worker: the daemon's request threads and job table        *)
(* (platform/worker/daemon.py), the supervision of the isolated child of   *)
(* each job (run_job of platform/worker/sandbox.py), what the child leaves *)
(* behind (restricted_child.py) and the backend's RPC client               *)
(* (platform/backend/app/core/worker_client.py).                           *)
(*                                                                         *)
(* A Job is one execute_task request with the id the daemon makes for it:  *)
(* the backend never sends one.  Each request has a thread; the threads    *)
(* share the job table under a lock, and an action is what a thread does   *)
(* between two lock sections or system calls.  Cancels come in threads of  *)
(* their own, from anybody who knows the id.                               *)
(*                                                                         *)
(* _Job.status is left out: the daemon writes it and never reads it.       *)
(* So is time: a deadline is a step that may be taken at any moment.       *)
(***************************************************************************)
EXTENDS Naturals

CONSTANT Job

VARIABLES
  daemon,   \* "UP" | "STOPPING" | "KILLING" | "DOWN" | "CRASHED"
  client,   \* [Job -> "IDLE" | "WAITING" | what the client was told]
  thread,   \* [Job -> [at: where its thread is, answer: what run_job decided]]
  table,    \* [Job -> its _Job record: [known, pgid, cancel]]
  child,    \* [Job -> its process: [end, file, late]]
  cancel,   \* [Job -> "NONE" | "KILL" | "SAID"]: the cancel requests for it
  doomed    \* the jobs whose process group _kill_all_jobs still has to kill

vars == <<daemon, client, thread, table, child, cancel, doomed>>

Outcome == {"SUCCESS", "FAILED", "DENIED", "CRASHED", "TIMEOUT"}
Answer  == Outcome \cup {"CANCELLED"}
Place   == {"IDLE", "ACCEPTED", "REGISTERED", "SPAWNED", "CHECK", "WAIT",
            "DECIDED", "RECORDED", "ANSWERED", "LOST"}
\* How the process ended: "DONE" with exit code 0, "EXIT" with another one,
\* "KILL" by the worker or the kernel's memory killer, "CPU" and "XCPU" by its
\* CPU limit (SIGKILL or SIGXCPU), "XFSZ" by the limit on the size of a file.
Ending  == {"NONE", "ALIVE", "DONE", "EXIT", "KILL", "CPU", "XCPU", "XFSZ"}
LimitSignal == {"XCPU", "XFSZ"}

Running == daemon \in {"UP", "STOPPING", "KILLING"}
At(j, place) == Running /\ thread[j].at = place
Alive(j) == child[j].end = "ALIVE"
Dead(j)  == child[j].end \notin {"NONE", "ALIVE"}

Go(j, place) == thread' = [thread EXCEPT ![j].at = place]
Decide(j, answer) == thread' = [thread EXCEPT ![j] = [at |-> "DECIDED", answer |-> answer]]

\* kill_process_group: SIGTERM, then SIGKILL; a process that is gone stays as it is.
Killed(c) == IF c.end = "ALIVE" THEN [c EXCEPT !.end = "KILL"] ELSE c
Mutant_LeaveChild(j) == UNCHANGED child
Kill(j) == child' = [child EXCEPT ![j] = Killed(@)]

-----------------------------------------------------------------------------
(* The client                                                              *)

\* The accept loop may still take a request when it is told to stop.
Request(j) ==
  /\ client[j] = "IDLE"
  /\ \/ /\ daemon \in {"UP", "STOPPING"}
        /\ Go(j, "ACCEPTED")
        /\ client' = [client EXCEPT ![j] = "WAITING"]
     \/ /\ daemon # "UP"
        /\ client' = [client EXCEPT ![j] = "UNAVAILABLE"]
        /\ UNCHANGED thread
  /\ UNCHANGED <<daemon, table, child, cancel, doomed>>

\* The socket's own timeout, a few seconds longer than the job's; or the
\* connection ends without a response because the daemon is gone.
GiveUp(j) ==
  /\ client[j] = "WAITING"
  /\ client' = [client EXCEPT ![j] = "UNAVAILABLE"]
  /\ UNCHANGED <<daemon, thread, table, child, cancel, doomed>>

-----------------------------------------------------------------------------
(* execute_task and run_job                                                *)

Register(j) ==
  /\ At(j, "ACCEPTED")
  /\ table' = [table EXCEPT ![j].known = TRUE]
  /\ Go(j, "REGISTERED")
  /\ UNCHANGED <<daemon, client, child, cancel, doomed>>

\* The preflight refuses the code, or the process cannot be started.
Refuse(j) ==
  /\ At(j, "REGISTERED")
  /\ \E answer \in {"FAILED", "DENIED", "CRASHED"} : Decide(j, answer)
  /\ UNCHANGED <<daemon, client, table, child, cancel, doomed>>

Spawn(j) ==
  /\ At(j, "REGISTERED")
  /\ child' = [child EXCEPT ![j].end = "ALIVE"]
  /\ Go(j, "SPAWNED")
  /\ UNCHANGED <<daemon, client, table, cancel, doomed>>

\* pgid_callback
NotePgid(j) ==
  /\ At(j, "SPAWNED")
  /\ table' = [table EXCEPT ![j].pgid = TRUE]
  /\ Go(j, "CHECK")
  /\ UNCHANGED <<daemon, client, child, cancel, doomed>>

\* The loop of run_job asks, in this order: cancelled? late? too much output?
StopCancelled(j) ==
  /\ At(j, "CHECK") /\ table[j].cancel
  /\ Kill(j)
  /\ Decide(j, "CANCELLED")
  /\ UNCHANGED <<daemon, client, table, cancel, doomed>>

StopLate(j) ==
  /\ At(j, "CHECK") /\ ~ table[j].cancel /\ child[j].late
  /\ Kill(j)
  /\ Decide(j, "TIMEOUT")
  /\ UNCHANGED <<daemon, client, table, cancel, doomed>>

StopLoud(j) ==
  /\ At(j, "CHECK") /\ ~ table[j].cancel /\ ~ child[j].late
  /\ Kill(j)
  /\ Decide(j, "FAILED")
  /\ UNCHANGED <<daemon, client, table, cancel, doomed>>

\* ... and waits for the child, for 50 ms at most.
StartWait(j) ==
  /\ At(j, "CHECK") /\ ~ table[j].cancel /\ ~ child[j].late
  /\ Go(j, "WAIT")
  /\ UNCHANGED <<daemon, client, table, child, cancel, doomed>>

Mutant_WaitForever(j) == At(j, "WAIT") /\ Alive(j) /\ UNCHANGED vars
WaitAgain(j) ==
  /\ At(j, "WAIT") /\ Alive(j)
  /\ Go(j, "CHECK")
  /\ UNCHANGED <<daemon, client, table, child, cancel, doomed>>

\* The child is gone although this loop did not stop it.  The result file is
\* believed unless the signal of a limit ended the child.  Without a file the
\* exit code or the signal decides, and code that ends its process with exit
\* code 0 before anything was written is a SUCCESS.
Mutant_SignalIsSuccess(c) ==
  CASE c.end \in LimitSignal -> "TIMEOUT"
    [] c.end \notin LimitSignal /\ c.file # "NONE" -> c.file
    [] c.end = "EXIT" /\ c.file = "NONE" -> "FAILED"
    [] OTHER -> "SUCCESS"
Verdict(c) ==
  CASE c.end \in LimitSignal -> "TIMEOUT"
    [] c.end \notin LimitSignal /\ c.file # "NONE" -> c.file
    [] c.end = "DONE" /\ c.file = "NONE" -> "SUCCESS"
    [] c.end = "EXIT" /\ c.file = "NONE" -> "FAILED"
    [] OTHER -> "CRASHED"

Collect(j) ==
  /\ At(j, "WAIT") /\ Dead(j)
  /\ Decide(j, Verdict(child[j]))
  /\ UNCHANGED <<daemon, client, table, child, cancel, doomed>>

\* _execute_task forgets the process group, then the response is sent.
Release(j) ==
  /\ At(j, "DECIDED")
  /\ table' = [table EXCEPT ![j].pgid = FALSE]
  /\ Go(j, "RECORDED")
  /\ UNCHANGED <<daemon, client, child, cancel, doomed>>

Respond(j) ==
  /\ At(j, "RECORDED")
  /\ Go(j, "ANSWERED")
  /\ client' = [client EXCEPT ![j] = IF @ = "WAITING" THEN thread[j].answer ELSE @]
  /\ UNCHANGED <<daemon, table, child, cancel, doomed>>

-----------------------------------------------------------------------------
(* cancel: the lock section, then the kill.  An unknown id is NOT_FOUND.   *)

Mutant_KillOnly(j) ==
  /\ Running /\ table[j].known /\ cancel[j] # "KILL"
  /\ cancel' = [cancel EXCEPT ![j] = IF table[j].pgid THEN "KILL" ELSE "SAID"]
  /\ UNCHANGED <<daemon, client, thread, table, child, doomed>>
Cancel(j) ==
  /\ Running /\ table[j].known /\ cancel[j] # "KILL"
  /\ table' = [table EXCEPT ![j].cancel = TRUE]
  /\ cancel' = [cancel EXCEPT ![j] = IF table[j].pgid THEN "KILL" ELSE "SAID"]
  /\ UNCHANGED <<daemon, client, thread, child, doomed>>

CancelKill(j) ==
  /\ Running /\ cancel[j] = "KILL"
  /\ Kill(j)
  /\ cancel' = [cancel EXCEPT ![j] = "SAID"]
  /\ UNCHANGED <<daemon, client, thread, table, doomed>>

-----------------------------------------------------------------------------
(* The child                                                               *)

\* _write_result replaces result.json atomically, once.  The alarm of the
\* runner inside the child is set later than the deadline of the loop.
WriteResult(j) ==
  /\ Alive(j) /\ child[j].file = "NONE"
  /\ \E outcome \in Outcome :
        /\ outcome = "TIMEOUT" => child[j].late
        /\ child' = [child EXCEPT ![j].file = outcome]
  /\ UNCHANGED <<daemon, client, thread, table, cancel, doomed>>

\* It exits, before or after it has written its result, or the kernel ends it.
\* The soft RLIMIT_CPU is timeout_sec (SIGXCPU); where the hard one is not above
\* it, Linux sends SIGKILL.
End(j) ==
  /\ Alive(j)
  /\ \E end \in Ending \ {"NONE", "ALIVE"} :
        child' = [child EXCEPT ![j].end = end]
  /\ UNCHANGED <<daemon, client, thread, table, cancel, doomed>>

Deadline(j) ==
  /\ thread[j].at \in {"CHECK", "WAIT"} /\ ~ child[j].late
  /\ child' = [child EXCEPT ![j].late = TRUE]
  /\ UNCHANGED <<daemon, client, thread, table, cancel, doomed>>

-----------------------------------------------------------------------------
(* The daemon                                                              *)

\* SIGTERM, SIGINT or the shutdown request: the accept loop ends.
Stop ==
  /\ daemon = "UP"
  /\ daemon' = "STOPPING"
  /\ UNCHANGED <<client, thread, table, child, cancel, doomed>>

Noted(j) == table[j].known /\ table[j].pgid

\* The lock section of _kill_all_jobs, its kills, and the end of the process,
\* which takes the request threads with it.
Mutant_DoomNobody ==
  /\ daemon = "STOPPING"
  /\ daemon' = "KILLING"
  /\ table' = [j \in Job |->
       IF table[j].known THEN [table[j] EXCEPT !.cancel = TRUE] ELSE table[j]]
  /\ UNCHANGED <<client, thread, child, cancel, doomed>>
Snapshot ==
  /\ daemon = "STOPPING"
  /\ daemon' = "KILLING"
  /\ doomed' = {j \in Job : Noted(j)}
  /\ table' = [j \in Job |->
       IF table[j].known THEN [table[j] EXCEPT !.cancel = TRUE] ELSE table[j]]
  /\ UNCHANGED <<client, thread, child, cancel>>

KillDoomed(j) ==
  /\ daemon = "KILLING" /\ j \in doomed
  /\ Kill(j)
  /\ doomed' = doomed \ {j}
  /\ UNCHANGED <<daemon, client, thread, table, cancel>>

Lost(t) == IF t.at \in {"IDLE", "ANSWERED"} THEN t ELSE [t EXCEPT !.at = "LOST"]

Exit ==
  /\ daemon = "KILLING" /\ doomed = {}
  /\ daemon' = "DOWN"
  /\ thread' = [j \in Job |-> Lost(thread[j])]
  /\ UNCHANGED <<client, table, child, cancel, doomed>>

Crash ==
  /\ Running
  /\ daemon' = "CRASHED"
  /\ thread' = [j \in Job |-> Lost(thread[j])]
  /\ UNCHANGED <<client, table, child, cancel, doomed>>

-----------------------------------------------------------------------------
Init ==
  /\ daemon = "UP"
  /\ client = [j \in Job |-> "IDLE"]
  /\ thread = [j \in Job |-> [at |-> "IDLE", answer |-> "NONE"]]
  /\ table = [j \in Job |-> [known |-> FALSE, pgid |-> FALSE, cancel |-> FALSE]]
  /\ child = [j \in Job |-> [end |-> "NONE", file |-> "NONE", late |-> FALSE]]
  /\ cancel = [j \in Job |-> "NONE"]
  /\ doomed = {}

Execute(j) ==
  \/ Register(j) \/ Refuse(j) \/ Spawn(j) \/ NotePgid(j)
  \/ StopCancelled(j) \/ StopLate(j) \/ StopLoud(j)
  \/ StartWait(j) \/ WaitAgain(j) \/ Collect(j)
  \/ Release(j) \/ Respond(j)

Next ==
  \/ \E j \in Job :
        \/ Request(j) \/ GiveUp(j)
        \/ Execute(j)
        \/ Cancel(j) \/ CancelKill(j)
        \/ WriteResult(j) \/ End(j) \/ Deadline(j)
        \/ KillDoomed(j)
  \/ Stop \/ Snapshot \/ Exit \/ Crash

Spec == Init /\ [][Next]_vars

(***************************************************************************)
(* The threads run.  Nothing makes the child end, its deadline pass, or the *)
(* client give up.                                                         *)
(***************************************************************************)
Fairness == \A j \in Job : WF_vars(Execute(j))

FairSpec == Spec /\ Fairness

-----------------------------------------------------------------------------
(* Properties                                                              *)

Told   == {"IDLE", "WAITING", "UNAVAILABLE"} \cup Answer
Thread == [at : Place, answer : Answer \cup {"NONE"}]
Record == [known : BOOLEAN, pgid : BOOLEAN, cancel : BOOLEAN]
Child  == [end : Ending, file : Outcome \cup {"NONE"}, late : BOOLEAN]

TypeOK ==
  /\ daemon \in {"UP", "STOPPING", "KILLING", "DOWN", "CRASHED"}
  /\ client \in [Job -> Told]
  /\ thread \in [Job -> Thread]
  /\ table \in [Job -> Record]
  /\ child \in [Job -> Child]
  /\ cancel \in [Job -> {"NONE", "KILL", "SAID"}]
  /\ doomed \subseteq Job

Decided(j) == thread[j].answer # "NONE"

(***************************************************************************)
(* No learner code runs on behind an answer: when run_job has decided, its *)
(* process is gone, whichever of the loop, a cancel, the shutdown or the   *)
(* kernel ended it.                                                        *)
(***************************************************************************)
NoJobOutlivesAnswer == \A j \in Job : Decided(j) => ~ Alive(j)

(***************************************************************************)
(* The answer, and what the client was told, is what happened to the       *)
(* process, through every race of exit, cancel, deadline and shutdown.     *)
(*   SUCCESS: the result file says so, or there is none and the process    *)
(*     ended by itself with exit code 0.  In the second case nobody knows  *)
(*     whether the code ran to its end (sandbox.py:537); a child that was  *)
(*     killed before it wrote its result is never a success.               *)
(*   CANCELLED: somebody cancelled.                                        *)
(*   TIMEOUT: the deadline has passed, or a limit of the kernel ended it.  *)
(*   CRASHED: the file says so, or there is none and the process did not   *)
(*     exit by itself, or was never started.                               *)
(***************************************************************************)
Silent(j, end) == child[j].file = "NONE" /\ child[j].end = end

Honest(j, answer) ==
  /\ answer = "SUCCESS" => child[j].file = "SUCCESS" \/ Silent(j, "DONE")
  /\ answer = "CANCELLED" => table[j].cancel
  /\ answer = "TIMEOUT" => child[j].late \/ child[j].end \in LimitSignal
  /\ answer = "CRASHED" =>
        child[j].file = "CRASHED" \/ \E end \in {"NONE", "KILL", "CPU"} : Silent(j, end)

AnswerHonest == \A j \in Job : Honest(j, thread[j].answer) /\ Honest(j, client[j])

(***************************************************************************)
(* A clean stop leaves no process whose group was on record when the stop  *)
(* was requested.  One that is only being started then may be left behind. *)
(***************************************************************************)
StopKillsNoted ==
  \A j \in Job :
     [](daemon = "STOPPING" /\ Noted(j) => [](daemon = "DOWN" => ~ Alive(j)))

(***************************************************************************)
(* A cancelled job ends, without waiting for its deadline and even if the  *)
(* cancel came before there was a process to kill - unless the daemon goes *)
(* away first.                                                             *)
(***************************************************************************)
CancelEndsJob ==
  \A j \in Job : (cancel[j] # "NONE" /\ Alive(j)) ~> (Dead(j) \/ ~ Running)

(***************************************************************************)
(* A job whose deadline has passed is answered, while the daemon lives,    *)
(* although the code may never end by itself and the client may have given *)
(* up long before: nobody else would end what the client left behind.      *)
(***************************************************************************)
JobsEnd ==
  \A j \in Job : child[j].late ~> (thread[j].at = "ANSWERED" \/ ~ Running)
=============================================================================
