------------------------- MODULE WorkerDaemonProofs -------------------------
(***************************************************************************)
(* Proofs about WorkerDaemon, for any number of jobs.                      *)
(*                                                                         *)
(* The inductive invariant ties the place of a thread to its process:      *)
(* before the spawn there is none, until the loop has decided there is no  *)
(* answer, and after that the process is gone and stays as it is.  A child *)
(* that reports a timeout is late.  From a stop on, Doomed follows a       *)
(* process whose group is on record.                                       *)
(***************************************************************************)
EXTENDS WorkerDaemon, TLAPS

Fresh(j) ==
  thread[j].at \in {"IDLE", "ACCEPTED", "REGISTERED"} =>
     /\ thread[j].answer = "NONE"
     /\ child[j].end = "NONE" /\ child[j].file = "NONE"

Undecided(j) ==
  thread[j].at \in {"SPAWNED", "CHECK", "WAIT"} => thread[j].answer = "NONE"

Settled(j) ==
  thread[j].at \in {"DECIDED", "RECORDED", "ANSWERED"} => thread[j].answer \in Answer

\* The child reports a timeout only when it is late.
Reported(j) == child[j].file = "TIMEOUT" => child[j].late

JobInv(j) ==
  /\ Reported(j)
  /\ Fresh(j)
  /\ Settled(j)
  /\ Undecided(j)
  /\ Decided(j) => ~ Alive(j)
  /\ Honest(j, thread[j].answer)
  /\ client[j] = "IDLE" => thread[j].at = "IDLE"
  /\ client[j] \in Answer => client[j] = thread[j].answer

Inv == TypeOK /\ \A j \in Job : JobInv(j)

-----------------------------------------------------------------------------
(* Types                                                                   *)

LEMMA Places ==
  /\ "IDLE" \in Place /\ "ACCEPTED" \in Place /\ "REGISTERED" \in Place
  /\ "SPAWNED" \in Place /\ "CHECK" \in Place /\ "WAIT" \in Place
  /\ "DECIDED" \in Place /\ "RECORDED" \in Place /\ "ANSWERED" \in Place
  /\ "LOST" \in Place
BY DEF Place

LEMMA Answers ==
  /\ \A answer \in {"FAILED", "DENIED", "CRASHED", "TIMEOUT", "CANCELLED"} : answer \in Answer
  /\ Outcome \subseteq Answer
BY DEF Answer, Outcome

LEMMA Endings ==
  /\ \A end \in {"DONE", "EXIT", "KILL", "CPU", "XCPU", "XFSZ"} : end \in Ending
  /\ "NONE" \in Ending /\ "ALIVE" \in Ending
BY DEF Ending

LEMMA GoType ==
  ASSUME thread \in [Job -> Thread], NEW j \in Job, NEW place \in Place, Go(j, place)
  PROVE  thread' \in [Job -> Thread]
BY DEF Go, Thread

LEMMA DecideType ==
  ASSUME thread \in [Job -> Thread], NEW j \in Job, NEW answer \in Answer, Decide(j, answer)
  PROVE  thread' \in [Job -> Thread]
BY Places DEF Decide, Thread

LEMMA KillType ==
  ASSUME child \in [Job -> Child], NEW j \in Job, Kill(j)
  PROVE  child' \in [Job -> Child]
<1>1. Killed(child[j]) \in Child
  <2>1. child[j] \in Child
    OBVIOUS
  <2> QED
    BY <2>1, Endings DEF Killed, Child
<1> QED
  BY <1>1 DEF Kill

LEMMA VerdictType ==
  ASSUME NEW c \in Child
  PROVE  /\ Verdict(c) \in Answer
         /\ Verdict(c) = "SUCCESS" => c.file = "SUCCESS" \/ (c.file = "NONE" /\ c.end = "DONE")
         /\ Verdict(c) = "TIMEOUT" => c.file = "TIMEOUT" \/ c.end \in LimitSignal
         /\ Verdict(c) = "CRASHED" =>
              \/ c.file = "CRASHED"
              \/ c.file = "NONE" /\ c.end \notin LimitSignal \cup {"DONE", "EXIT"}
         /\ Verdict(c) # "CANCELLED"
<1>1. CASE c.end \in LimitSignal
  BY <1>1, Answers DEF Verdict, LimitSignal
<1>2. CASE c.end \notin LimitSignal /\ c.file # "NONE"
  <2>1. Verdict(c) = c.file
    BY <1>2 DEF Verdict
  <2>2. c.file \in Outcome /\ "CANCELLED" \notin Outcome
    BY <1>2 DEF Child, Outcome
  <2> QED
    BY <1>2, <2>1, <2>2, Answers
<1>3. CASE c.end \notin LimitSignal /\ c.file = "NONE"
  <2>1. CASE c.end = "DONE"
    <3>1. Verdict(c) = "SUCCESS"
      BY <1>3, <2>1 DEF Verdict
    <3> QED
      BY <1>3, <2>1, <3>1 DEF Answer, Outcome
  <2>2. CASE c.end = "EXIT"
    <3>1. Verdict(c) = "FAILED"
      BY <1>3, <2>2 DEF Verdict
    <3> QED
      BY <3>1, Answers
  <2>3. CASE c.end \notin {"DONE", "EXIT"}
    <3>1. Verdict(c) = "CRASHED"
      BY <1>3, <2>3 DEF Verdict
    <3> QED
      BY <1>3, <2>3, <3>1, Answers
  <2> QED
    BY <2>1, <2>2, <2>3
<1> QED
  BY <1>1, <1>2, <1>3

LEMMA LostType ==
  ASSUME thread \in [Job -> Thread], thread' = [j \in Job |-> Lost(thread[j])]
  PROVE  thread' \in [Job -> Thread]
<1>1. \A t \in Thread : Lost(t) \in Thread
  BY Places DEF Lost, Thread
<1> QED
  BY <1>1

LEMMA RecordType ==
  ASSUME NEW r \in Record, NEW b \in BOOLEAN
  PROVE  /\ [r EXCEPT !.known = b] \in Record
         /\ [r EXCEPT !.pgid = b] \in Record
         /\ [r EXCEPT !.cancel = b] \in Record
BY DEF Record

LEMMA ChildType ==
  ASSUME NEW c \in Child
  PROVE  /\ \A end \in Ending : [c EXCEPT !.end = end] \in Child
         /\ \A outcome \in Outcome : [c EXCEPT !.file = outcome] \in Child
         /\ [c EXCEPT !.late = TRUE] \in Child
BY DEF Child

LEMMA TypeInit == Init => TypeOK
<1> SUFFICES ASSUME Init PROVE TypeOK
  OBVIOUS
<1>1. thread \in [Job -> Thread] /\ client \in [Job -> Told]
  BY Places DEF Init, Thread, Told
<1>2. child \in [Job -> Child] /\ table \in [Job -> Record]
  BY Endings DEF Init, Child, Record
<1> QED
  BY <1>1, <1>2 DEF Init, TypeOK

LEMMA TypeNext ==
  ASSUME TypeOK, \A j \in Job : Settled(j), [Next]_vars
  PROVE  TypeOK'
<1> USE DEF TypeOK
<1>1. CASE UNCHANGED vars
  BY <1>1 DEF vars
<1>2. ASSUME NEW j \in Job, Request(j) \/ GiveUp(j) PROVE TypeOK'
  <2>1. client' \in [Job -> Told]
    BY <1>2 DEF Request, GiveUp, Told
  <2>2. thread' \in [Job -> Thread]
    BY <1>2, GoType, Places DEF Request, GiveUp
  <2> QED
    BY <1>2, <2>1, <2>2 DEF Request, GiveUp
<1>3. ASSUME NEW j \in Job, Execute(j) PROVE TypeOK'
  <2>1. ASSUME Register(j) \/ NotePgid(j) \/ Release(j) PROVE TypeOK'
    <3>1. table' \in [Job -> Record]
      <4>1. \E r \in Record : table' = [table EXCEPT ![j] = r]
        <5>1. table[j] \in Record
          OBVIOUS
        <5> QED
          BY <2>1, <5>1, RecordType DEF Register, NotePgid, Release
      <4> QED
        BY <4>1
    <3>2. thread' \in [Job -> Thread]
      BY <2>1, GoType, Places DEF Register, NotePgid, Release
    <3> QED
      BY <2>1, <3>1, <3>2 DEF Register, NotePgid, Release
  <2>2. ASSUME Spawn(j) PROVE TypeOK'
    <3>1. child' \in [Job -> Child]
      BY <2>2, Endings DEF Spawn, Child
    <3>2. thread' \in [Job -> Thread]
      BY <2>2, GoType, Places DEF Spawn
    <3> QED
      BY <2>2, <3>1, <3>2 DEF Spawn
  <2>3. ASSUME Refuse(j) \/ Collect(j) PROVE TypeOK'
    <3>1. thread' \in [Job -> Thread]
      BY <2>3, DecideType, Answers, VerdictType DEF Refuse, Collect
    <3> QED
      BY <2>3, <3>1 DEF Refuse, Collect
  <2>4. ASSUME StopCancelled(j) \/ StopLate(j) \/ StopLoud(j) PROVE TypeOK'
    <3>1. child' \in [Job -> Child] /\ thread' \in [Job -> Thread]
      BY <2>4, KillType, DecideType, Answers DEF StopCancelled, StopLate, StopLoud
    <3> QED
      BY <2>4, <3>1 DEF StopCancelled, StopLate, StopLoud
  <2>5. ASSUME StartWait(j) \/ WaitAgain(j) PROVE TypeOK'
    <3>1. thread' \in [Job -> Thread]
      BY <2>5, GoType, Places DEF StartWait, WaitAgain
    <3> QED
      BY <2>5, <3>1 DEF StartWait, WaitAgain
  <2>6. ASSUME Respond(j) PROVE TypeOK'
    <3>1. thread' \in [Job -> Thread]
      BY <2>6, GoType, Places DEF Respond
    <3>2. thread[j].answer \in Answer
      BY <2>6 DEF Respond, Settled, At
    <3>3. client' \in [Job -> Told]
      BY <2>6, <3>2 DEF Respond, Told
    <3> QED
      BY <2>6, <3>1, <3>3 DEF Respond
  <2> QED
    BY <1>3, <2>1, <2>2, <2>3, <2>4, <2>5, <2>6 DEF Execute
<1>4. ASSUME NEW j \in Job, Cancel(j) \/ CancelKill(j) \/ KillDoomed(j) PROVE TypeOK'
  <2>1. child' \in [Job -> Child]
    BY <1>4, KillType DEF Cancel, CancelKill, KillDoomed
  <2>2. table' \in [Job -> Record]
    <3>1. table[j] \in Record
      OBVIOUS
    <3>2. \E r \in Record : table' = [table EXCEPT ![j] = r]
      <4>1. table = [table EXCEPT ![j] = table[j]]
        OBVIOUS
      <4> QED
        BY <1>4, <3>1, <4>1, RecordType DEF Cancel, CancelKill, KillDoomed
    <3> QED
      BY <3>2
  <2> QED
    BY <1>4, <2>1, <2>2 DEF Cancel, CancelKill, KillDoomed
<1>5. ASSUME NEW j \in Job, WriteResult(j) \/ End(j) \/ Deadline(j) PROVE TypeOK'
  <2>1. child' \in [Job -> Child]
    <3>1. child[j] \in Child
      OBVIOUS
    <3>2. \E c \in Child : child' = [child EXCEPT ![j] = c]
      BY <1>5, <3>1, Endings, ChildType DEF WriteResult, End, Deadline
    <3> QED
      BY <3>2
  <2> QED
    BY <1>5, <2>1 DEF WriteResult, End, Deadline
<1>6. CASE Stop \/ Snapshot \/ Exit \/ Crash
  <2>1. thread' \in [Job -> Thread]
    BY <1>6, LostType DEF Stop, Snapshot, Exit, Crash
  <2>2. table' \in [Job -> Record]
    BY <1>6, RecordType DEF Stop, Snapshot, Exit, Crash
  <2> QED
    BY <1>6, <2>1, <2>2 DEF Stop, Snapshot, Exit, Crash
<1> QED
  BY <1>1, <1>2, <1>3, <1>4, <1>5, <1>6 DEF Next

-----------------------------------------------------------------------------
(* The invariant                                                           *)

\* What the invariant of a job reads: the entries of that job.
Same(j) ==
  /\ thread'[j] = thread[j] /\ child'[j] = child[j]
  /\ table'[j] = table[j] /\ client'[j] = client[j]

LEMMA SameKeeps ==
  ASSUME NEW j \in Job, JobInv(j), Same(j)
  PROVE  JobInv(j)'
BY DEF JobInv, Same, Reported, Fresh, Undecided, Settled, Decided, Alive, Honest, Silent

LEMMA NothingHonest == \A j : Honest(j, "NONE") /\ Honest(j, "IDLE")
                             /\ Honest(j, "WAITING") /\ Honest(j, "UNAVAILABLE")
BY DEF Honest, Silent

\* The facts an answer rests on never go away.
Keeps(j) ==
  /\ child[j].file # "NONE" => child'[j].file = child[j].file
  /\ child'[j].file # child[j].file => Alive(j)
  /\ table[j].cancel => table'[j].cancel
  /\ child[j].late => child'[j].late
  /\ ~ Alive(j) => child'[j].end = child[j].end

LEMMA OthersSame ==
  ASSUME TypeOK, NEW i \in Job, NEW j \in Job, i # j,
         \/ Request(i) \/ GiveUp(i) \/ Execute(i) \/ Cancel(i) \/ CancelKill(i)
         \/ WriteResult(i) \/ End(i) \/ Deadline(i) \/ KillDoomed(i)
  PROVE  Same(j)
<1> USE DEF TypeOK, Same
<1>1. CASE Request(i) \/ GiveUp(i)
  BY <1>1 DEF Request, GiveUp, Go
<1>2. CASE Execute(i)
  BY <1>2 DEF Execute, Register, Refuse, Spawn, NotePgid, StopCancelled, StopLate,
              StopLoud, StartWait, WaitAgain, Collect, Release, Respond, Go, Decide, Kill
<1>3. CASE Cancel(i) \/ CancelKill(i) \/ KillDoomed(i)
  BY <1>3 DEF Cancel, CancelKill, KillDoomed, Kill
<1>4. CASE WriteResult(i) \/ End(i) \/ Deadline(i)
  BY <1>4 DEF WriteResult, End, Deadline
<1> QED
  BY <1>1, <1>2, <1>3, <1>4

LEMMA JobKept ==
  ASSUME TypeOK, NEW j \in Job, JobInv(j),
         \/ thread'[j] = thread[j]
         \/ thread[j].at # "IDLE" /\ thread'[j] = [thread[j] EXCEPT !.at = "LOST"],
         client'[j] = client[j] \/ client'[j] = "UNAVAILABLE",
         Keeps(j), Reported(j)',
         child[j].end = "NONE" => child'[j].end = "NONE"
  PROVE  JobInv(j)'
<1>1. thread'[j].answer = thread[j].answer
  BY DEF TypeOK, Thread
<1>2. thread'[j].at = thread[j].at \/ thread'[j].at = "LOST"
  BY DEF TypeOK, Thread
<1>3. (Decided(j) => ~ Alive(j))'
  BY <1>1 DEF JobInv, Decided, Alive, Keeps
<1>4. Fresh(j)'
  BY <1>1, <1>2 DEF JobInv, Fresh, Keeps, Alive
<1>5. Undecided(j)' /\ Settled(j)'
  BY <1>1, <1>2 DEF JobInv, Undecided, Settled
<1>6. ASSUME NEW answer, Honest(j, answer), answer # "NONE" => ~ Alive(j)
      PROVE  Honest(j, answer)'
  BY <1>6 DEF Honest, Silent, Keeps
<1>7. client'[j] \in Answer => client'[j] = thread'[j].answer
  BY <1>1 DEF JobInv, Answer, Outcome
<1>8. client'[j] = "IDLE" => thread'[j].at = "IDLE"
  BY DEF JobInv
<1> QED
  BY <1>1, <1>3, <1>4, <1>5, <1>6, <1>7, <1>8 DEF JobInv, Decided

\* A step of the thread of j that leaves its process alone.
LEMMA ThreadMoved ==
  ASSUME TypeOK, NEW j \in Job, JobInv(j), child' = child,
         table[j].cancel => table'[j].cancel, client'[j] = client[j],
         NEW place \in Place, Go(j, place),
         thread[j].at # "IDLE", place # "IDLE",
         place \in {"ACCEPTED", "REGISTERED"} => thread[j].at \in {"ACCEPTED", "REGISTERED"},
         place \in {"SPAWNED", "CHECK", "WAIT"} =>
            thread[j].at \in {"REGISTERED", "SPAWNED", "CHECK", "WAIT"},
         place \in {"DECIDED", "RECORDED", "ANSWERED"} =>
            thread[j].at \in {"DECIDED", "RECORDED", "ANSWERED"}
  PROVE  JobInv(j)'
<1>1. thread'[j].at = place /\ thread'[j].answer = thread[j].answer
  BY DEF Go, TypeOK, Thread
<1>2. Fresh(j)' /\ Undecided(j)' /\ Settled(j)' /\ Reported(j)'
  BY <1>1 DEF JobInv, Fresh, Undecided, Settled, Reported
<1>3. (Decided(j) => ~ Alive(j))' /\ Honest(j, thread[j].answer)'
  BY <1>1 DEF JobInv, Decided, Alive, Honest, Silent
<1> QED
  BY <1>1, <1>2, <1>3 DEF JobInv

\* The loop of j decides.
LEMMA ThreadDecided ==
  ASSUME TypeOK, NEW j \in Job, JobInv(j), table' = table, client' = client,
         NEW answer \in Answer, Decide(j, answer),
         thread[j].at \in {"REGISTERED", "CHECK", "WAIT"},
         ~ Alive(j)', Honest(j, answer)', Reported(j)'
  PROVE  JobInv(j)'
<1>1. thread'[j] = [at |-> "DECIDED", answer |-> answer]
  BY DEF Decide, TypeOK
<1>2. answer # "NONE" /\ "NONE" \notin Answer
  BY DEF Answer, Outcome
<1>3. thread[j].answer = "NONE"
  BY DEF JobInv, Fresh, Undecided
<1> QED
  BY <1>1, <1>2, <1>3 DEF JobInv, Fresh, Undecided, Settled, Decided

LEMMA KillKeeps ==
  ASSUME TypeOK, NEW j \in Job, Kill(j)
  PROVE  /\ ~ Alive(j)'
         /\ Reported(j) => Reported(j)'
         /\ child'[j].file = child[j].file /\ child'[j].late = child[j].late
         /\ ~ Alive(j) => child'[j].end = child[j].end
BY DEF Kill, Killed, Alive, TypeOK, Child, Reported

LEMMA ExecuteKeeps ==
  ASSUME TypeOK, NEW j \in Job, JobInv(j), Execute(j)
  PROVE  JobInv(j)'
<1>1. CASE Register(j)
  <2>1. table[j].cancel => table'[j].cancel
    BY <1>1 DEF Register, TypeOK, Record
  <2> QED
    BY <1>1, <2>1, ThreadMoved, Places DEF Register, At
<1>2. CASE Refuse(j)
  <2>1. PICK answer \in {"FAILED", "DENIED", "CRASHED"} : Decide(j, answer)
    BY <1>2 DEF Refuse
  <2>2. child' = child /\ thread[j].at = "REGISTERED"
    BY <1>2 DEF Refuse, At
  <2>3. ~ Alive(j)' /\ Honest(j, answer)' /\ Reported(j)'
    BY <2>2 DEF JobInv, Fresh, Alive, Honest, Silent, Reported
  <2> QED
    BY <1>2, <2>1, <2>2, <2>3, ThreadDecided, Answers DEF Refuse
<1>3. CASE Spawn(j)
  <2>1. thread[j].at = "REGISTERED" /\ thread'[j] = [thread[j] EXCEPT !.at = "SPAWNED"]
    BY <1>3 DEF Spawn, At, Go, TypeOK
  <2>2. thread'[j].at = "SPAWNED" /\ thread'[j].answer = "NONE"
    BY <2>1 DEF JobInv, Fresh, TypeOK, Thread
  <2>3. client'[j] = client[j] /\ thread[j].answer = "NONE"
    BY <1>3, <2>1 DEF Spawn, JobInv, Fresh
  <2>4. client'[j] # "IDLE" /\ Reported(j)'
    BY <1>3, <2>1, <2>3 DEF JobInv, Reported, Spawn, TypeOK, Child
  <2> QED
    BY <2>2, <2>3, <2>4, NothingHonest
    DEF JobInv, Fresh, Undecided, Settled, Decided, Honest, Silent
<1>4. CASE NotePgid(j)
  <2>1. table[j].cancel => table'[j].cancel
    BY <1>4 DEF NotePgid, TypeOK, Record
  <2> QED
    BY <1>4, <2>1, ThreadMoved, Places DEF NotePgid, At
<1>5. CASE StopCancelled(j)
  <2>1. Honest(j, "CANCELLED")'
    BY <1>5 DEF StopCancelled, Honest, Silent
  <2> QED
    BY <1>5, <2>1, ThreadDecided, KillKeeps, Answers DEF StopCancelled, At, JobInv
<1>6. CASE StopLate(j)
  <2>1. Honest(j, "TIMEOUT")'
    BY <1>6, KillKeeps DEF StopLate, Honest, Silent
  <2> QED
    BY <1>6, <2>1, ThreadDecided, KillKeeps, Answers DEF StopLate, At, JobInv
<1>7. CASE StopLoud(j)
  <2>1. Honest(j, "FAILED")'
    BY DEF Honest, Silent
  <2> QED
    BY <1>7, <2>1, ThreadDecided, KillKeeps, Answers DEF StopLoud, At, JobInv
<1>8. CASE StartWait(j) \/ WaitAgain(j)
  BY <1>8, ThreadMoved, Places DEF StartWait, WaitAgain, At
<1>9. CASE Collect(j)
  <2>1. child[j] \in Child /\ child' = child /\ ~ Alive(j) /\ thread[j].at = "WAIT"
    BY <1>9 DEF Collect, TypeOK, Dead, Alive, At
  <2>2. Honest(j, Verdict(child[j]))
    <3>1. child[j].end \in {"NONE", "KILL", "CPU"} \cup LimitSignal \cup {"DONE", "EXIT"}
      BY <2>1 DEF Child, Ending, Alive, LimitSignal
    <3> QED
      BY <2>1, <3>1, VerdictType DEF Honest, Silent, JobInv, Reported
  <2>3. ~ Alive(j)' /\ Honest(j, Verdict(child[j]))' /\ Reported(j)'
    BY <1>9, <2>1, <2>2 DEF Collect, Alive, Honest, Silent, JobInv, Reported
  <2>4. Decide(j, Verdict(child[j])) /\ Verdict(child[j]) \in Answer
    BY <1>9, <2>1, VerdictType DEF Collect
  <2>5. ASSUME NEW answer, answer = Verdict(child[j]) PROVE JobInv(j)'
    <3>1. Honest(j, answer)'
      BY <2>1, <2>2, <2>5, <1>9 DEF Honest, Silent, Collect
    <3> QED
      BY <1>9, <2>1, <2>3, <2>4, <2>5, <3>1, ThreadDecided DEF Collect
  <2> QED
    BY <2>5
<1>10. CASE Release(j)
  <2>1. table[j].cancel => table'[j].cancel
    BY <1>10 DEF Release, TypeOK, Record
  <2> QED
    BY <1>10, <2>1, ThreadMoved, Places DEF Release, At
<1>11. CASE Respond(j)
  <2>1. /\ thread[j].at = "RECORDED" /\ child' = child /\ table' = table
        /\ thread'[j].at = "ANSWERED" /\ thread'[j].answer = thread[j].answer
    BY <1>11 DEF Respond, Go, At, TypeOK, Thread
  <2>2. client'[j] = client[j] \/ client'[j] = thread[j].answer
    BY <1>11 DEF Respond, TypeOK
  <2>3. thread[j].answer \in Answer /\ "IDLE" \notin Answer
    BY <2>1 DEF JobInv, Settled, Answer, Outcome
  <2>4. client'[j] # "IDLE"
    BY <2>1, <2>2, <2>3 DEF JobInv
  <2>5. Fresh(j)' /\ Undecided(j)' /\ Settled(j)' /\ Reported(j)'
    BY <2>1, <2>3 DEF JobInv, Fresh, Undecided, Settled, Reported
  <2>6. (Decided(j) => ~ Alive(j))' /\ Honest(j, thread[j].answer)'
    BY <2>1 DEF JobInv, Decided, Alive, Honest, Silent
  <2> QED
    BY <2>1, <2>2, <2>4, <2>5, <2>6 DEF JobInv
<1> QED
  BY <1>1, <1>2, <1>3, <1>4, <1>5, <1>6, <1>7, <1>8, <1>9, <1>10, <1>11 DEF Execute

LEMMA ClientKeeps ==
  ASSUME TypeOK, NEW j \in Job, JobInv(j), Request(j) \/ GiveUp(j)
  PROVE  JobInv(j)'
<1>1. CASE Request(j)
  <2>1. thread[j].at = "IDLE" /\ child' = child /\ table' = table
    BY <1>1 DEF Request, JobInv
  <2>2. thread[j].answer = "NONE" /\ child[j].end = "NONE" /\ child[j].file = "NONE"
    BY <2>1 DEF JobInv, Fresh
  <2>3. client'[j] \in {"WAITING", "UNAVAILABLE"}
    BY <1>1 DEF Request, TypeOK
  <2>4. thread'[j].at \in {"IDLE", "ACCEPTED"} /\ thread'[j].answer = "NONE"
    BY <1>1, <2>1, <2>2 DEF Request, Go, TypeOK, Thread
  <2> QED
    BY <2>1, <2>2, <2>3, <2>4
    DEF JobInv, Reported, Fresh, Undecided, Settled, Decided, Honest, Silent, Answer, Outcome
<1>2. CASE GiveUp(j)
  BY <1>2, JobKept DEF GiveUp, Keeps, TypeOK, JobInv, Reported
<1> QED
  BY <1>1, <1>2

LEMMA OthersKeep ==
  ASSUME TypeOK, NEW j \in Job, JobInv(j),
         \/ Cancel(j) \/ CancelKill(j) \/ KillDoomed(j)
         \/ WriteResult(j) \/ End(j) \/ Deadline(j)
  PROVE  JobInv(j)'
<1>1. thread'[j] = thread[j] /\ client'[j] = client[j]
  BY DEF Cancel, CancelKill, KillDoomed, WriteResult, End, Deadline
<1>2. CASE Cancel(j)
  <2>1. Keeps(j) /\ Reported(j)'
    BY <1>2 DEF Cancel, Keeps, TypeOK, Record, JobInv, Reported
  <2> QED
    BY <1>1, <1>2, <2>1, JobKept DEF Cancel
<1>3. CASE CancelKill(j) \/ KillDoomed(j)
  <2>1. Keeps(j) /\ Reported(j)'
    BY <1>3, KillKeeps DEF CancelKill, KillDoomed, Keeps, JobInv
  <2>2. child[j].end = "NONE" => child'[j].end = "NONE"
    BY <1>3, KillKeeps DEF CancelKill, KillDoomed, Alive
  <2> QED
    BY <1>1, <2>1, <2>2, JobKept
<1>4. CASE WriteResult(j)
  <2>1. Keeps(j) /\ child'[j].end = child[j].end /\ Reported(j)'
    BY <1>4 DEF WriteResult, Keeps, TypeOK, Child, Alive, Reported
  <2> QED
    BY <1>1, <2>1, JobKept
<1>5. CASE End(j)
  <2>1. Keeps(j) /\ child[j].end # "NONE" /\ Reported(j)'
    BY <1>5 DEF End, Keeps, TypeOK, Child, Alive, JobInv, Reported
  <2> QED
    BY <1>1, <2>1, JobKept
<1>6. CASE Deadline(j)
  <2>1. Keeps(j) /\ child'[j].end = child[j].end /\ Reported(j)'
    BY <1>6 DEF Deadline, Keeps, TypeOK, Child, Alive, Reported
  <2> QED
    BY <1>1, <2>1, JobKept
<1> QED
  BY <1>2, <1>3, <1>4, <1>5, <1>6

LEMMA DaemonKeeps ==
  ASSUME TypeOK, NEW j \in Job, JobInv(j), Stop \/ Snapshot \/ Exit \/ Crash
  PROVE  JobInv(j)'
<1>1. child' = child /\ client' = client
  BY DEF Stop, Snapshot, Exit, Crash
<1>2. table[j].cancel => table'[j].cancel
  BY DEF Stop, Snapshot, Exit, Crash, TypeOK, Record
<1>3. \/ thread'[j] = thread[j]
      \/ thread[j].at # "IDLE" /\ thread'[j] = [thread[j] EXCEPT !.at = "LOST"]
  BY DEF Stop, Snapshot, Exit, Crash, Lost
<1> QED
  BY <1>1, <1>2, <1>3, JobKept DEF Keeps, JobInv, Reported

LEMMA InvInit == Init => Inv
<1> SUFFICES ASSUME Init, NEW j \in Job PROVE JobInv(j)
  BY TypeInit DEF Inv
<1> QED
  BY DEF Init, JobInv, Reported, Fresh, Undecided, Settled, Decided, Honest, Silent, Answer, Outcome

LEMMA InvNext == Inv /\ [Next]_vars => Inv'
<1> SUFFICES ASSUME Inv, [Next]_vars PROVE Inv'
  OBVIOUS
<1>0. TypeOK /\ \A j \in Job : JobInv(j)
  BY DEF Inv
<1>1. TypeOK'
  BY <1>0, TypeNext DEF JobInv
<1>2. ASSUME NEW j \in Job PROVE JobInv(j)'
  <2>1. CASE UNCHANGED vars
    BY <1>0, <2>1, SameKeeps DEF vars, Same
  <2>2. CASE Stop \/ Snapshot \/ Exit \/ Crash
    BY <1>0, <2>2, DaemonKeeps
  <2>3. ASSUME NEW i \in Job,
               \/ Request(i) \/ GiveUp(i) \/ Execute(i) \/ Cancel(i) \/ CancelKill(i)
               \/ WriteResult(i) \/ End(i) \/ Deadline(i) \/ KillDoomed(i)
        PROVE  JobInv(j)'
    <3>1. CASE i # j
      BY <1>0, <2>3, <3>1, OthersSame, SameKeeps
    <3>2. CASE i = j
      BY <1>0, <2>3, <3>2, ClientKeeps, ExecuteKeeps, OthersKeep
    <3> QED
      BY <3>1, <3>2
  <2> QED
    BY <2>1, <2>2, <2>3 DEF Next
<1> QED
  BY <1>1, <1>2 DEF Inv

-----------------------------------------------------------------------------
(* The stop                                                                *)

\* A group on record is that of a process that was started.
Started(j) ==
  thread[j].at = "SPAWNED" \/ table[j].pgid => child[j].end # "NONE"

LEMMA StartedInit ==
  ASSUME Init
  PROVE  \A j \in Job : Started(j)
BY DEF Init, Started

\* A process that was started is not started again, and one that ended stays
\* as it ended.
LEMMA EndKept ==
  ASSUME Inv, [Next]_vars, NEW j \in Job, child[j].end # "NONE"
  PROVE  /\ child'[j].end # "NONE"
         /\ ~ Alive(j) => child'[j].end = child[j].end
<1>0. TypeOK /\ JobInv(j)
  BY DEF Inv
<1>1. CASE child' = child
  BY <1>1
<1>2. ASSUME NEW i \in Job, i # j,
             \/ Execute(i) \/ CancelKill(i) \/ KillDoomed(i)
             \/ WriteResult(i) \/ End(i) \/ Deadline(i)
      PROVE  child'[j] = child[j]
  BY <1>0, <1>2, OthersSame DEF Same
<1>3. CASE CancelKill(j) \/ KillDoomed(j) \/ StopCancelled(j) \/ StopLate(j) \/ StopLoud(j)
  <2>1. Kill(j)
    BY <1>3 DEF CancelKill, KillDoomed, StopCancelled, StopLate, StopLoud
  <2>2. child'[j].end \in {child[j].end, "KILL"}
    BY <1>0, <2>1 DEF Kill, Killed, TypeOK, Child
  <2> QED BY <1>0, <2>1, <2>2, KillKeeps
<1>4. ~ Spawn(j)
  BY <1>0 DEF Spawn, At, JobInv, Fresh
<1>5. CASE WriteResult(j) \/ End(j) \/ Deadline(j)
  BY <1>0, <1>5 DEF WriteResult, End, Deadline, Alive, TypeOK, Child
<1>6. ASSUME NEW i \in Job, Request(i) \/ GiveUp(i) \/ Cancel(i)
      PROVE  child' = child
  BY <1>6 DEF Request, GiveUp, Cancel
<1>7. Stop \/ Snapshot \/ Exit \/ Crash \/ UNCHANGED vars => child' = child
  BY DEF Stop, Snapshot, Exit, Crash, vars
<1>8. Execute(j) => Spawn(j) \/ StopCancelled(j) \/ StopLate(j) \/ StopLoud(j) \/ child' = child
  BY DEF Execute, Register, Refuse, NotePgid, StartWait, WaitAgain, Collect, Release, Respond
<1>9. CASE \E i \in Job : Execute(i) \/ CancelKill(i) \/ KillDoomed(i)
                          \/ WriteResult(i) \/ End(i) \/ Deadline(i)
  BY <1>1, <1>2, <1>3, <1>4, <1>5, <1>8, <1>9
<1> QED BY <1>1, <1>6, <1>7, <1>9 DEF Next

LEMMA StartedNext ==
  ASSUME Inv, \A j \in Job : Started(j), [Next]_vars
  PROVE  \A j \in Job : Started(j)'
<1> SUFFICES ASSUME NEW j \in Job PROVE Started(j)'
  OBVIOUS
<1>0. TypeOK /\ JobInv(j) /\ Started(j)
  BY DEF Inv
<1>1. CASE child[j].end # "NONE"
  BY <1>1, EndKept DEF Started
<1>2. CASE child[j].end = "NONE"
  <2>1. thread[j].at # "SPAWNED" /\ ~ table[j].pgid
    BY <1>0, <1>2 DEF Started
  <2>2. CASE Same(j)
    BY <2>1, <2>2 DEF Same, Started
  <2>3. CASE Spawn(j)
    BY <1>0, <2>3 DEF Spawn, Started, TypeOK, Child
  <2>4. CASE ~ Spawn(j) /\ Execute(j)
    <3>1. ~ NotePgid(j)
      BY <2>1 DEF NotePgid, At
    <3>2. ~ table'[j].pgid
      BY <1>0, <2>1, <2>4, <3>1
         DEF Execute, Register, Refuse, StopCancelled, StopLate, StopLoud, StartWait, WaitAgain,
             Collect, Release, Respond, TypeOK, Record
    <3>3. thread'[j].at # "SPAWNED"
      BY <1>0, <2>4, <3>1
         DEF Execute, Register, Refuse, StopCancelled, StopLate, StopLoud, StartWait, WaitAgain,
             Collect, Release, Respond, Go, Decide, TypeOK, Thread
    <3> QED BY <3>2, <3>3 DEF Started
  <2>5. CASE Request(j)
    BY <1>0, <2>1, <2>5 DEF Request, Go, Started, TypeOK, Thread
  <2>6. CASE GiveUp(j) \/ Cancel(j) \/ CancelKill(j) \/ KillDoomed(j)
             \/ WriteResult(j) \/ End(j) \/ Deadline(j)
    <3>1. thread' = thread /\ table'[j].pgid = table[j].pgid
      BY <1>0, <2>6
         DEF GiveUp, Cancel, CancelKill, KillDoomed, WriteResult, End, Deadline, TypeOK, Record
    <3> QED BY <2>1, <3>1 DEF Started
  <2>7. CASE Stop \/ Snapshot \/ Exit \/ Crash \/ UNCHANGED vars
    <3>1. table'[j].pgid = table[j].pgid
      BY <1>0, <2>7 DEF Stop, Snapshot, Exit, Crash, vars, TypeOK, Record
    <3>2. thread'[j].at \in {thread[j].at, "LOST"}
      BY <1>0, <2>7 DEF Stop, Snapshot, Exit, Crash, vars, Lost, TypeOK, Thread
    <3> QED BY <2>1, <3>1, <3>2 DEF Started
  <2> QED BY <1>0, <2>2, <2>3, <2>4, <2>5, <2>6, <2>7, OthersSame DEF Next
<1> QED BY <1>1, <1>2

\* From the stop on: a process on record is doomed, or has ended.
Doomed(j) ==
  \/ Dead(j)
  \/ daemon = "STOPPING" /\ Noted(j)
  \/ daemon = "KILLING" /\ j \in doomed /\ child[j].end # "NONE"
  \/ daemon = "CRASHED"

LEMMA DeadKept ==
  ASSUME Inv, [Next]_vars, NEW j \in Job, Dead(j)
  PROVE  Dead(j)'
BY EndKept DEF Dead, Alive

LEMMA DoomedNext ==
  ASSUME Inv, \A j \in Job : Started(j), [Next]_vars, NEW j \in Job, Doomed(j)
  PROVE  Doomed(j)'
<1>0. TypeOK /\ JobInv(j) /\ Started(j)
  BY DEF Inv
<1>1. CASE Dead(j)
  BY <1>1, DeadKept DEF Doomed
<1>2. CASE daemon = "CRASHED"
  BY <1>2 DEF Doomed, Next, vars, Request, GiveUp, Execute, Register, Refuse, Spawn, NotePgid,
       StopCancelled, StopLate, StopLoud, StartWait, WaitAgain, Collect, Release, Respond, Cancel,
       CancelKill, WriteResult, End, Deadline, KillDoomed, Stop, Snapshot, Exit, Crash, Running, At
<1>3. CASE daemon = "STOPPING" /\ Noted(j)
  <2>1. CASE daemon' # "STOPPING"
    <3>1. Snapshot \/ Crash
      BY <1>3, <2>1 DEF Next, vars, Request, GiveUp, Execute, Register, Refuse, Spawn, NotePgid,
       StopCancelled, StopLate, StopLoud, StartWait, WaitAgain, Collect, Release, Respond, Cancel,
       CancelKill, WriteResult, End, Deadline, KillDoomed, Stop, Exit
    <3> QED BY <1>0, <1>3, <3>1 DEF Snapshot, Crash, Doomed, Noted, Started
  <2>2. CASE daemon' = "STOPPING" /\ Noted(j)'
    BY <2>2 DEF Doomed
  <2>3. CASE daemon' = "STOPPING" /\ ~ Noted(j)'
    <3>1. Release(j)
      <4>1. ~ Same(j)
        BY <1>3, <2>3 DEF Same, Noted
      <4>2. ~ (Stop \/ Snapshot \/ Exit \/ Crash)
        BY <1>3, <2>3 DEF Stop, Snapshot, Exit, Crash
      <4>3. table' # table
        BY <1>3, <2>3 DEF Noted
      <4>4. ~ (Register(j) \/ NotePgid(j) \/ Cancel(j))
        BY <1>0, <1>3, <2>3 DEF Register, NotePgid, Cancel, Noted, TypeOK, Record
      <4> QED BY <1>0, <4>1, <4>2, <4>3, <4>4, OthersSame
              DEF Next, vars, Same, Request, GiveUp, Execute, Refuse, Spawn, StopCancelled, StopLate,
                  StopLoud, StartWait, WaitAgain, Collect, Respond, CancelKill, WriteResult, End,
                  Deadline, KillDoomed
    <3>2. ~ Alive(j) /\ child[j].end # "NONE" /\ child' = child
      <4>1. thread[j].answer \in Answer /\ "NONE" \notin Answer
        BY <1>0, <3>1 DEF Release, At, JobInv, Settled, Answer, Outcome
      <4> QED BY <1>0, <1>3, <3>1, <4>1 DEF Release, JobInv, Decided, Noted, Started
    <3> QED BY <3>2 DEF Doomed, Dead, Alive
  <2> QED BY <2>1, <2>2, <2>3
<1>4. CASE daemon = "KILLING" /\ j \in doomed /\ child[j].end # "NONE"
  <2>1. CASE KillDoomed(j)
    <3>1. ~ Alive(j)' /\ child'[j].end # "NONE"
      BY <1>0, <1>4, <2>1, KillKeeps, EndKept DEF KillDoomed
    <3> QED BY <3>1 DEF Doomed, Dead, Alive
  <2>2. CASE ~ KillDoomed(j)
    <3>1. daemon' \in {"KILLING", "CRASHED"} /\ j \in doomed'
      BY <1>4, <2>2 DEF Next, vars, Request, GiveUp, Execute, Register, Refuse, Spawn, NotePgid,
       StopCancelled, StopLate, StopLoud, StartWait, WaitAgain, Collect, Release, Respond, Cancel,
       CancelKill, WriteResult, End, Deadline, KillDoomed, Stop, Snapshot, Exit, Crash
    <3> QED BY <1>4, <3>1, EndKept DEF Doomed
  <2> QED BY <2>1, <2>2
<1> QED BY <1>1, <1>2, <1>3, <1>4 DEF Doomed

-----------------------------------------------------------------------------
(* Theorems                                                                *)

(***************************************************************************)
(* The state of the worker has the types the code gives it.                *)
(***************************************************************************)
THEOREM TypeCorrect == Spec => []TypeOK
<1>1. Inv => TypeOK
  BY DEF Inv
<1> QED
  BY <1>1, InvInit, InvNext, PTL DEF Spec

(***************************************************************************)
(* No process runs on behind the answer of its job (sandbox.py, run_job),  *)
(* however many jobs, cancels and stops race.                              *)
(***************************************************************************)
THEOREM NoJobOutlivesAnswerHolds == Spec => []NoJobOutlivesAnswer
<1>1. Inv => NoJobOutlivesAnswer
  BY DEF Inv, JobInv, NoJobOutlivesAnswer
<1> QED
  BY <1>1, InvInit, InvNext, PTL DEF Spec

(***************************************************************************)
(* The answers of run_job (sandbox.py) are what happened to the process,   *)
(* for every number of jobs: SUCCESS only for a result that says so or an  *)
(* exit with code 0 that left none, TIMEOUT only for a job that is late or *)
(* was ended by the signal of a limit, CANCELLED only after a cancel.      *)
(***************************************************************************)
THEOREM AnswerHonestHolds == Spec => []AnswerHonest
<1>1. Inv => AnswerHonest
  <2> SUFFICES ASSUME Inv, NEW j \in Job
               PROVE  Honest(j, thread[j].answer) /\ Honest(j, client[j])
    BY DEF AnswerHonest
  <2>1. client[j] \in {"IDLE", "WAITING", "UNAVAILABLE"} \/ client[j] \in Answer
    BY DEF Inv, TypeOK, Told
  <2> QED
    BY <2>1, NothingHonest DEF Inv, JobInv
<1> QED
  BY <1>1, InvInit, InvNext, PTL DEF Spec

(***************************************************************************)
(* A clean stop leaves no process whose group was on record when the stop  *)
(* was requested (_kill_all_jobs, daemon.py), for every number of jobs.    *)
(***************************************************************************)
THEOREM StopKillsNotedHolds == Spec => StopKillsNoted
<1> SUFFICES ASSUME NEW j \in Job
             PROVE  Spec => [](daemon = "STOPPING" /\ Noted(j) => [](daemon = "DOWN" => ~ Alive(j)))
  BY DEF StopKillsNoted
<1>1. daemon = "STOPPING" /\ Noted(j) => Doomed(j)
  BY DEF Doomed
<1>2. Doomed(j) => (daemon = "DOWN" => ~ Alive(j))
  BY DEF Doomed, Dead, Alive
<1>3. Init => Inv /\ \A i \in Job : Started(i)
  BY InvInit, StartedInit
<1>4. Inv /\ (\A i \in Job : Started(i)) /\ [Next]_vars => Inv' /\ (\A i \in Job : Started(i))'
  BY InvNext, StartedNext
<1>5. Inv /\ (\A i \in Job : Started(i)) /\ [Next]_vars /\ Doomed(j) => Doomed(j)'
  BY DoomedNext
<1> QED BY <1>1, <1>2, <1>3, <1>4, <1>5, PTL DEF Spec
=============================================================================
