------------------------ MODULE SessionRuntimeProofs ------------------------
(***************************************************************************)
(* Proofs about SessionRuntime for every set of learners, missions and     *)
(* gate contracts and any number of sessions, and about Today for every    *)
(* catalog.                                                                *)
(***************************************************************************)
EXTENDS Today, FiniteSetTheorems, WellFoundedInduction, TLAPS

-----------------------------------------------------------------------------
(* What the helpers return                                                 *)

\* insert_claim is only given claims of the submitted stage (evidence.py:350-421).
LEMMA ClaimsType ==
  ASSUME NEW m \in Mission, NEW k \in Stage, NEW a \in Artifacts
  PROVE  SubmissionClaims(Contract[m], k, a, m \in Noded)
           \subseteq [stage : {k}, competency : Competency, kind : Kind]
<1> DEFINE matching == {c \in {Contract[m].criteria[i] : i \in DOMAIN Contract[m].criteria} :
                            c.stage = k}
           records == {[competency |-> c.competency, kind |-> c.kind, node |-> c.node] :
                          c \in matching} \cup a
<1>1. \A i \in DOMAIN Contract[m].criteria : Contract[m].criteria[i] \in Criterion
  BY ContractAssumption
<1>2. records \subseteq Artifact
  <2>1. {[competency |-> c.competency, kind |-> c.kind, node |-> c.node] : c \in matching}
          \subseteq Artifact
    BY <1>1 DEF Criterion, Artifact
  <2>2. a \subseteq Artifact
    BY ArtifactsAssumption
  <2> QED BY <2>1, <2>2
<1>3. ASSUME NEW r \in records, r.competency # Unset
      PROVE  /\ r.competency \in Competency
             /\ (IF r.kind = Unset THEN "explanation" ELSE r.kind) \in Kind
  BY <1>2, <1>3, SentinelAssumption DEF Artifact
<1> QED
  BY <1>3 DEF SubmissionClaims

\* evaluate_contract answers one of four statuses (gates.py:126-213).
LEMMA VerdictType ==
  ASSUME NEW s \in Session
  PROVE  GateVerdict(s) \in {"EVALUATED", "PASSED", "REPAIR_REQUIRED", "FAILED"}
BY DEF GateVerdict, Verdict

\* increment_competencies keeps levels within 0..MaxLevel (gates.py:254-298).
LEMMA RaisedType ==
  ASSUME NEW levels \in [Competency -> 0..MaxLevel], NEW C
  PROVE  Raised(levels, C) \in [Competency -> 0..MaxLevel]
BY DEF Raised, MaxLevel

LEMMA NextStageType ==
  ASSUME NEW m \in Mission, NEW k \in Stage
  PROVE  /\ NextStage(m, k) \in Stage \cup {0}
         /\ NextStage(m, k) # 0 => NextStage(m, k) = k + 1 /\ k < NumStages[m]
         /\ NextStage(m, k) = 0 => k >= NumStages[m]
BY NumStagesAssumption, BoundsAssumption DEF NextStage, Stage

-----------------------------------------------------------------------------
(* Types                                                                   *)

LEMMA InitTypeOK == Init => TypeOK
BY BoundsAssumption
  DEF Init, TypeOK, SessionRow, NoSession, Attempt, NoAttempt, AttemptStatus, MaxLevel, Busy

\* A row whose status is not ABSENT is that of a session.
LEMMA ExistsType ==
  ASSUME TypeOK, NEW s \in Session, Exists(s)
  PROVE  /\ sessions[s] \in [status : {"ACTIVE", "COMPLETED"}, learner : Learner,
                             mission : Mission, current : Stage]
         /\ MissionOf(s) \in Mission
BY DEF TypeOK, SessionRow, NoSession, Exists, MissionOf

\* The columns a handler writes keep an attempt well-formed.
LEMMA AttemptKept ==
  ASSUME NEW x \in Attempt
  PROVE  /\ \A t \in AttemptStatus : [x EXCEPT !.status = t] \in Attempt
         /\ \A h \in Hypothesis : [x EXCEPT !.prediction = h] \in Attempt
         /\ \A h \in Hypothesis \cup {NoPrediction} :
              [x EXCEPT !.runs = @ \cup {h}] \in Attempt
         /\ EnsureReady(x) \in Attempt
<1>1. \A t \in AttemptStatus : [x EXCEPT !.status = t] \in Attempt
  BY DEF Attempt
<1>2. \A h \in Hypothesis : [x EXCEPT !.prediction = h] \in Attempt
  BY DEF Attempt
<1>3. \A h \in Hypothesis \cup {NoPrediction} : [x EXCEPT !.runs = @ \cup {h}] \in Attempt
  BY DEF Attempt
<1>4. EnsureReady(x) \in Attempt
  BY <1>1 DEF EnsureReady, AttemptStatus
<1> QED BY <1>1, <1>2, <1>3, <1>4

LEMMA AttemptType ==
  ASSUME TypeOK, NEW s \in Session, NEW k \in Stage
  PROVE  attempts[s][k] \in Attempt
BY DEF TypeOK

\* A handler that replaces one attempt by a well-formed one keeps the table so.
LEMMA AttemptsType ==
  ASSUME TypeOK, NEW s \in Session, NEW k \in Stage, NEW x \in Attempt
  PROVE  [attempts EXCEPT ![s][k] = x] \in [Session -> [Stage -> Attempt]]
BY DEF TypeOK

LEMMA StepTypeOK == TypeOK /\ [Next]_vars => TypeOK'
<1> SUFFICES ASSUME TypeOK, [Next]_vars PROVE TypeOK'
  OBVIOUS
<1>1. ASSUME NEW s \in Session, NEW l \in Learner, NEW m \in Mission, CreateSession(s, l, m)
      PROVE  TypeOK'
  <2>1. 1 \in Stage
    BY NumStagesAssumption, BoundsAssumption DEF Stage
  <2>2. sessions' \in [Session -> SessionRow]
    BY <1>1, <2>1 DEF TypeOK, CreateSession, SessionRow
  <2>3. attempts' \in [Session -> [Stage -> Attempt]]
    <3>1. EnsureReady(attempts[s][1]) \in Attempt
      BY <2>1, AttemptType, AttemptKept
    <3> QED BY <1>1, <2>1, <3>1, AttemptsType DEF CreateSession
  <2> QED BY <1>1, <2>2, <2>3 DEF TypeOK, CreateSession
<1>2. ASSUME NEW s \in Session, NEW k \in Stage, EnterStage(s, k)
      PROVE  TypeOK'
  <2>1. attempts' \in [Session -> [Stage -> Attempt]]
    <3>1. [attempts[s][k] EXCEPT !.status = "ACTIVE"] \in Attempt
      BY AttemptType, AttemptKept DEF AttemptStatus
    <3> QED BY <1>2, <3>1, AttemptsType DEF EnterStage
  <2> QED BY <1>2, <2>1 DEF TypeOK, EnterStage
<1>3. ASSUME NEW s \in Session, NEW k \in Stage, NEW h \in Hypothesis, CommitPrediction(s, k, h)
      PROVE  TypeOK'
  <2>1. attempts' \in [Session -> [Stage -> Attempt]]
    <3>1. [attempts[s][k] EXCEPT !.prediction = h] \in Attempt
      BY AttemptType, AttemptKept
    <3> QED BY <1>3, <3>1, AttemptsType DEF CommitPrediction
  <2> QED BY <1>3, <2>1 DEF TypeOK, CommitPrediction
<1>4. ASSUME NEW s \in Session, NEW k \in Stage, SendToWorker(s, k)
      PROVE  TypeOK'
  <2>1. busy' \in Busy
    BY <1>4 DEF TypeOK, SendToWorker, Attempt, Busy
  <2> QED BY <1>4, <2>1 DEF TypeOK, SendToWorker
<1>5. ASSUME NEW s \in Session, NEW k \in Stage, NEW a \in Artifacts, SubmitStage(s, k, a)
      PROVE  TypeOK'
  <2>1. Exists(s)
    BY <1>5 DEF SubmitStage, Mutable, Exists
  <2>2. NextStage(MissionOf(s), k) \in Stage \cup {0}
    BY <2>1, ExistsType, NextStageType
  <2>3. sessions' \in [Session -> SessionRow]
    <3> DEFINE next == NextStage(MissionOf(s), k)
               row  == [sessions[s] EXCEPT !.current = IF next = 0 THEN @ ELSE next]
    <3>1. row \in SessionRow
      BY <2>1, <2>2, ExistsType DEF SessionRow
    <3>2. sessions' = [sessions EXCEPT ![s] = row]
      BY <1>5 DEF SubmitStage
    <3> QED BY <3>1, <3>2 DEF TypeOK
  <2>4. attempts' \in [Session -> [Stage -> Attempt]]
    <3>1. \A j \in Stage : EnsureReady(attempts[s][j]) \in Attempt
      BY AttemptType, AttemptKept
    <3>2. \A j \in Stage : [attempts[s][j] EXCEPT !.status = "SUBMITTED"] \in Attempt
      BY AttemptType, AttemptKept DEF AttemptStatus
    <3> QED BY <1>5, <3>1, <3>2 DEF TypeOK, SubmitStage
  <2>5. EvidenceRows(s, k, a) \subseteq EvidenceRow
    <3> DEFINE m == MissionOf(s)
               claims == SubmissionClaims(Contract[m], k, a, m \in Noded)
    <3>1. claims \subseteq [stage : {k}, competency : Competency, kind : Kind]
      BY <2>1, ExistsType, ClaimsType
    <3>2. sessions[s].learner \in Learner /\ m \in Mission
      BY <2>1, ExistsType
    <3> QED BY <3>1, <3>2 DEF EvidenceRows, EvidenceRow
  <2>6. busy' \in Busy
    BY <1>5 DEF SubmitStage, Busy, Event, EventRow
  <2> QED BY <1>5, <2>3, <2>4, <2>5, <2>6 DEF TypeOK, SubmitStage
<1>6. ASSUME NEW s \in Session, EvaluateGate(s)
      PROVE  TypeOK'
  <2>1. Exists(s)
    BY <1>6 DEF EvaluateGate
  <2>2. sessions' \in [Session -> SessionRow]
    <3>1. [sessions[s] EXCEPT !.status = "COMPLETED"] \in SessionRow
      BY <2>1, ExistsType DEF SessionRow
    <3>2. sessions' = sessions \/ sessions' = [sessions EXCEPT ![s].status = "COMPLETED"]
      BY <1>6 DEF EvaluateGate
    <3> QED BY <3>1, <3>2 DEF TypeOK
  <2>3. mastery' \in [Learner -> [Competency -> 0..MaxLevel]]
    BY <1>6, <2>1, ExistsType, RaisedType DEF TypeOK, EvaluateGate
  <2>4. busy' \in Busy
    BY <1>6, VerdictType DEF EvaluateGate, Busy, Event, EventRow
  <2> QED BY <1>6, <2>2, <2>3, <2>4 DEF TypeOK, EvaluateGate
<1>7. ASSUME RecordExecution PROVE TypeOK'
  <2>1. /\ busy.session \in Session /\ busy.stage \in Stage
        /\ busy.sealed \in Hypothesis \cup {NoPrediction}
    BY <1>7 DEF TypeOK, RecordExecution, Busy, Idle
  <2>2. attempts' \in [Session -> [Stage -> Attempt]]
    <3>1. [attempts[busy.session][busy.stage] EXCEPT !.runs = @ \cup {busy.sealed}]
            \in Attempt
      BY <2>1, AttemptType, AttemptKept
    <3> QED BY <1>7, <2>1, <3>1, AttemptsType DEF RecordExecution
  <2> QED BY <1>7, <2>2 DEF TypeOK, RecordExecution, Busy
<1>8. ASSUME RecordActivity PROVE TypeOK'
  <2>1. busy.event \in EventRow
    BY <1>8 DEF TypeOK, RecordActivity, Busy, Idle
  <2> QED BY <1>8, <2>1 DEF TypeOK, RecordActivity, Busy
<1>9. ASSUME Abandon PROVE TypeOK'
  BY <1>9 DEF TypeOK, Abandon, Busy
<1>10. CASE UNCHANGED vars
  BY <1>10 DEF TypeOK, vars
<1> QED
  BY <1>1, <1>2, <1>3, <1>4, <1>5, <1>6, <1>7, <1>8, <1>9, <1>10 DEF Next

(***************************************************************************)
(* Every row of the database has one of the statuses, stages and levels    *)
(* the handlers know, whatever the missions and contracts.                 *)
(***************************************************************************)
THEOREM TypeCorrect == Spec => []TypeOK
BY InitTypeOK, StepTypeOK, PTL DEF Spec

-----------------------------------------------------------------------------
(* The pipeline                                                            *)

(***************************************************************************)
(* The inductive invariant.  PipelineOrder alone is not inductive: an      *)
(* execution is inserted for an attempt read before the worker was called, *)
(* so WorkerHoldsStage must say that the attempt is still the current one. *)
(***************************************************************************)
Inv == TypeOK /\ PipelineOrder /\ WorkerHoldsStage /\ PredictionSealed

LEMMA InitInv == Init => Inv
<1> SUFFICES ASSUME Init PROVE Inv
  OBVIOUS
<1>1. TypeOK
  BY InitTypeOK
<1>2. \A s \in Session : ~Exists(s)
  BY DEF Init, NoSession, Exists
<1>3. PipelineOrder
  BY <1>2 DEF Init, PipelineOrder, InOrder
<1>4. WorkerHoldsStage
  BY DEF Init, WorkerHoldsStage, Idle
<1>5. PredictionSealed
  BY <1>2 DEF PredictionSealed
<1> QED BY <1>1, <1>3, <1>4, <1>5 DEF Inv

\* The current stage of a session is one of its mission's.
LEMMA CurrentType ==
  ASSUME Inv, NEW s \in Session, Exists(s)
  PROVE  /\ MissionOf(s) \in Mission
         /\ sessions[s].learner \in Learner
         /\ sessions[s].current \in 1..NumStages[MissionOf(s)]
         /\ sessions[s].current \in Stage
BY ExistsType DEF Inv, PipelineOrder, InOrder

\* A handler that writes an attempt of the current stage of session s and leaves
\* sessions alone preserves the order of every session.
LEMMA CurrentWritten ==
  ASSUME Inv, NEW s \in Session, Exists(s), NEW k \in Stage, k = sessions[s].current,
         NEW x \in Attempt, x.status # "NONE",
         sessions' = sessions, attempts' = [attempts EXCEPT ![s][k] = x]
  PROVE  PipelineOrder'
<1> SUFFICES ASSUME NEW t \in Session PROVE InOrder(t)'
  BY DEF PipelineOrder
<1>1. InOrder(t) /\ attempts \in [Session -> [Stage -> Attempt]]
  BY DEF Inv, PipelineOrder, TypeOK
<1>2. CASE t # s
  BY <1>1, <1>2 DEF InOrder, Exists, MissionOf
<1>3. CASE t = s
  <2>1. \A j \in Stage : attempts'[s][j] = IF j = k THEN x ELSE attempts[s][j]
    BY <1>1
  <2>2. sessions[s].current \in Nat /\ \A j \in Stage : j \in Nat
    BY CurrentType, BoundsAssumption, NumStagesAssumption DEF Stage
  <2> QED BY <1>1, <1>3, <2>1, <2>2 DEF InOrder, Exists, MissionOf
<1> QED BY <1>2, <1>3

LEMMA StepPipelineOrder == Inv /\ [Next]_vars => PipelineOrder'
<1> SUFFICES ASSUME Inv, [Next]_vars PROVE PipelineOrder'
  OBVIOUS
<1> USE DEF Inv
<1>1. ASSUME NEW s \in Session, NEW l \in Learner, NEW m \in Mission, CreateSession(s, l, m)
      PROVE  PipelineOrder'
  <2> SUFFICES ASSUME NEW t \in Session PROVE InOrder(t)'
    BY DEF PipelineOrder
  <2>1. ~Exists(s) /\ InOrder(s) /\ InOrder(t)
    BY <1>1, BoundsAssumption DEF CreateSession, PipelineOrder, Session
  <2>2. CASE t # s
    BY <1>1, <2>1, <2>2 DEF CreateSession, TypeOK, InOrder, Exists, MissionOf
  <2>3. CASE t = s
    <3>1. sessions'[s] = [status |-> "ACTIVE", learner |-> l, mission |-> m, current |-> 1]
      BY <1>1 DEF CreateSession, TypeOK
    <3>2. 1 \in Stage /\ 1 \in 1..NumStages[m] /\ \A j \in Stage : j \in Nat \ {0}
      BY NumStagesAssumption, BoundsAssumption DEF Stage
    <3>3. \A j \in Stage : attempts[s][j] = NoAttempt
      BY <2>1 DEF InOrder
    <3>4. \A j \in Stage : attempts'[s][j] = IF j = 1 THEN EnsureReady(NoAttempt) ELSE NoAttempt
      BY <1>1, <3>2, <3>3 DEF CreateSession, TypeOK
    <3>5. EnsureReady(NoAttempt).status # "NONE"
      BY DEF EnsureReady, NoAttempt
    <3> QED BY <2>3, <3>1, <3>2, <3>4, <3>5 DEF InOrder, Exists, MissionOf
  <2> QED BY <2>2, <2>3
<1>2. ASSUME NEW s \in Session, NEW k \in Stage, EnterStage(s, k)
      PROVE  PipelineOrder'
  <2>1. [attempts[s][k] EXCEPT !.status = "ACTIVE"] \in Attempt
    BY AttemptType, AttemptKept DEF AttemptStatus
  <2>2. [attempts[s][k] EXCEPT !.status = "ACTIVE"].status # "NONE"
    BY AttemptType DEF Attempt
  <2> QED BY <1>2, <2>1, <2>2, CurrentWritten DEF EnterStage, Mutable, Exists, StageIsCurrent
<1>3. ASSUME NEW s \in Session, NEW k \in Stage, NEW h \in Hypothesis, CommitPrediction(s, k, h)
      PROVE  PipelineOrder'
  <2>1. [attempts[s][k] EXCEPT !.prediction = h] \in Attempt
    BY AttemptType, AttemptKept
  <2>2. [attempts[s][k] EXCEPT !.prediction = h].status # "NONE"
    BY <1>3, AttemptType DEF Attempt, CommitPrediction
  <2> QED BY <1>3, <2>1, <2>2, CurrentWritten DEF CommitPrediction, Mutable, Exists, StageIsCurrent
<1>4. ASSUME NEW s \in Session, NEW k \in Stage, SendToWorker(s, k)
      PROVE  PipelineOrder'
  BY <1>4 DEF SendToWorker, PipelineOrder, InOrder, Exists, MissionOf
<1>5. ASSUME NEW s \in Session, NEW k \in Stage, NEW a \in Artifacts, SubmitStage(s, k, a)
      PROVE  PipelineOrder'
  <2> SUFFICES ASSUME NEW t \in Session PROVE InOrder(t)'
    BY DEF PipelineOrder
  <2>1. InOrder(s) /\ InOrder(t)
    BY DEF PipelineOrder
  <2>2. CASE t # s
    BY <1>5, <2>1, <2>2 DEF SubmitStage, TypeOK, InOrder, Exists, MissionOf
  <2>3. CASE t = s
    <3> DEFINE m == MissionOf(s)
               next == NextStage(m, k)
    <3>1. Exists(s) /\ k = sessions[s].current /\ k <= NumStages[m]
      BY <1>5 DEF SubmitStage, Mutable, Exists, StageIsCurrent
    <3>2. /\ m \in Mission /\ NumStages[m] \in Nat /\ k \in 1..NumStages[m]
          /\ \A j \in Stage : j \in Nat \ {0}
      BY <3>1, CurrentType, NumStagesAssumption, BoundsAssumption DEF Stage
    <3>3. \/ next = k + 1 /\ next \in 1..NumStages[m]
          \/ next = 0 /\ k = NumStages[m]
      BY <3>1, <3>2 DEF NextStage
    <3>4. MissionOf(s)' = m /\ Exists(s)' /\ sessions'[s].current = IF next = 0 THEN k ELSE next
      BY <1>5, <3>1, ExistsType DEF SubmitStage, TypeOK, MissionOf, Exists
    <3>5. \A j \in Stage : /\ j = k => attempts'[s][j].status = "SUBMITTED"
                           /\ (j # k /\ j = next) => attempts'[s][j].status # "NONE"
                           /\ (j # k /\ j # next) => attempts'[s][j] = attempts[s][j]
      <4>1. \A j \in Stage : attempts'[s][j] =
              IF j = k THEN [attempts[s][j] EXCEPT !.status = "SUBMITTED"]
              ELSE IF j = next THEN EnsureReady(attempts[s][j])
              ELSE attempts[s][j]
        BY <1>5 DEF SubmitStage, TypeOK
      <4>2. \A j \in Stage : /\ [attempts[s][j] EXCEPT !.status = "SUBMITTED"].status = "SUBMITTED"
                             /\ EnsureReady(attempts[s][j]).status # "NONE"
        BY AttemptType DEF Attempt, EnsureReady
      <4> QED BY <4>1, <4>2
    <3>7. \A j \in Stage : /\ j < k => attempts[s][j].status = "SUBMITTED"
                           /\ j > k => attempts[s][j] = NoAttempt
      BY <2>1, <3>1 DEF InOrder
    <3>8. sessions'[s].current \in 1..NumStages[m]
      BY <3>2, <3>3, <3>4
    <3> DEFINE cur == sessions'[s].current
    <3>9. \/ cur = k + 1 /\ next = cur
          \/ cur = k /\ next = 0
      BY <3>2, <3>3, <3>4
    <3> HIDE DEF m, next, cur
    <3>10. ASSUME NEW j \in Stage
           PROVE  /\ j < cur => attempts'[s][j].status = "SUBMITTED"
                  /\ j = cur => attempts'[s][j].status # "NONE"
                  /\ j > cur => attempts'[s][j] = NoAttempt
      <4>1. j \in Nat \ {0} /\ k \in Nat
        BY <3>2
      <4>2. CASE j < k
        BY <3>5, <3>7, <3>9, <4>1, <4>2
      <4>3. CASE j = k
        BY <3>5, <3>9, <4>1, <4>3
      <4>4. CASE j > k
        BY <3>5, <3>7, <3>9, <4>1, <4>4
      <4>5. j < k \/ j = k \/ j > k
        BY <4>1
      <4> QED BY <4>2, <4>3, <4>4, <4>5
    <3> QED BY <2>3, <3>4, <3>8, <3>10 DEF InOrder, m, cur
  <2> QED BY <2>2, <2>3
<1>6. ASSUME NEW s \in Session, EvaluateGate(s)
      PROVE  PipelineOrder'
  <2>1. \/ sessions' = sessions
        \/ sessions' = [sessions EXCEPT ![s].status = "COMPLETED"] /\ Exists(s)
    BY <1>6 DEF EvaluateGate
  <2>2. \A t \in Session : /\ sessions'[t].current = sessions[t].current
                           /\ MissionOf(t)' = MissionOf(t)
                           /\ Exists(t)' = Exists(t)
    <3>1. CASE sessions' = sessions
      BY <3>1 DEF MissionOf, Exists
    <3>2. CASE sessions' = [sessions EXCEPT ![s].status = "COMPLETED"] /\ Exists(s)
      <4>1. \A t \in Session : sessions'[t] =
              IF t = s THEN [sessions[s] EXCEPT !.status = "COMPLETED"] ELSE sessions[t]
        BY <3>2 DEF TypeOK
      <4>2. LET row == [sessions[s] EXCEPT !.status = "COMPLETED"] IN
            /\ row.current = sessions[s].current
            /\ row.mission = sessions[s].mission
            /\ row.status = "COMPLETED"
        BY <3>2, ExistsType
      <4> QED BY <3>2, <4>1, <4>2 DEF MissionOf, Exists
    <3> QED BY <2>1, <3>1, <3>2
  <2> QED BY <1>6, <2>2 DEF EvaluateGate, PipelineOrder, InOrder
<1>7. ASSUME RecordExecution PROVE PipelineOrder'
  <2> DEFINE s == busy.session
             k == busy.stage
             x == [attempts[s][k] EXCEPT !.runs = @ \cup {busy.sealed}]
  <2>1. s \in Session /\ k \in Stage /\ busy.sealed \in Hypothesis \cup {NoPrediction}
    BY <1>7 DEF TypeOK, RecordExecution, Busy, Idle
  <2>2. Exists(s) /\ k = sessions[s].current /\ attempts[s][k].status = "ACTIVE"
    BY <1>7 DEF RecordExecution, WorkerHoldsStage, Mutable, Exists, StageIsCurrent
  <2>3. x \in Attempt /\ x.status # "NONE"
    <3>1. attempts[s][k] \in Attempt
      BY <2>1, AttemptType
    <3>2. x \in Attempt
      BY <2>1, <3>1, AttemptKept
    <3>3. x.status = attempts[s][k].status
      BY <3>1 DEF Attempt
    <3> QED BY <2>2, <3>2, <3>3
  <2>4. sessions' = sessions /\ attempts' = [attempts EXCEPT ![s][k] = x]
    BY <1>7 DEF RecordExecution
  <2> HIDE DEF s, k, x
  <2> QED BY <2>1, <2>2, <2>3, <2>4, CurrentWritten
<1>8. CASE RecordActivity \/ Abandon \/ UNCHANGED vars
  BY <1>8 DEF RecordActivity, Abandon, vars, PipelineOrder, InOrder, Exists, MissionOf
<1> QED
  BY <1>1, <1>2, <1>3, <1>4, <1>5, <1>6, <1>7, <1>8 DEF Next

LEMMA StepWorkerHoldsStage == Inv /\ [Next]_vars => WorkerHoldsStage'
<1> SUFFICES ASSUME Inv, [Next]_vars PROVE WorkerHoldsStage'
  OBVIOUS
<1>1. ASSUME NEW s \in Session, NEW k \in Stage, SendToWorker(s, k)
      PROVE  WorkerHoldsStage'
  BY <1>1 DEF SendToWorker, WorkerHoldsStage, Mutable, StageIsCurrent, MissionOf
<1>2. CASE UNCHANGED vars
  BY <1>2 DEF Inv, vars, WorkerHoldsStage, Mutable, StageIsCurrent, MissionOf
<1>3. CASE busy'.op # "execute"
  BY <1>3 DEF WorkerHoldsStage
<1>4. ASSUME ~ \E s \in Session, k \in Stage : SendToWorker(s, k), Next
      PROVE  busy'.op # "execute"
  <2>1. Idle.op # "execute"
    BY DEF Idle
  <2>2. ASSUME NEW s \in Session, NEW l \in Learner, NEW m \in Mission, CreateSession(s, l, m)
        PROVE  busy' = Idle
    BY <2>2 DEF CreateSession
  <2>3. ASSUME NEW s \in Session, NEW k \in Stage
        PROVE  /\ EnterStage(s, k) => busy' = Idle
               /\ \A h \in Hypothesis : CommitPrediction(s, k, h) => busy' = Idle
               /\ \A a \in Artifacts : SubmitStage(s, k, a) => busy'.op = "record"
    BY DEF EnterStage, CommitPrediction, SubmitStage
  <2>4. ASSUME NEW s \in Session, EvaluateGate(s)
        PROVE  busy'.op = "record"
    BY <2>4 DEF EvaluateGate
  <2>5. RecordExecution \/ RecordActivity \/ Abandon => busy' = Idle
    BY DEF RecordExecution, RecordActivity, Abandon
  <2> QED BY <1>4, <2>1, <2>2, <2>3, <2>4, <2>5 DEF Next
<1> QED BY <1>1, <1>2, <1>3, <1>4

\* An attempt keeps what the seal is about: its prediction, its executions.
LEMMA StepPredictionSealed == Inv /\ [Next]_vars => PredictionSealed'
<1> SUFFICES ASSUME Inv, [Next]_vars,
                    NEW s \in Session, NEW k \in Stage,
                    Exists(s)', (k \in Experiments[MissionOf(s)])'
             PROVE  (/\ attempts[s][k].runs \subseteq {attempts[s][k].prediction} \ {NoPrediction}
                     /\ (busy.op = "execute" /\ busy.session = s /\ busy.stage = k) =>
                           busy.sealed = attempts[s][k].prediction /\ busy.sealed # NoPrediction)'
  BY DEF PredictionSealed
<1> USE DEF Inv
<1> DEFINE Sealed == attempts[s][k].runs \subseteq {attempts[s][k].prediction} \ {NoPrediction}
           Waits  == busy.op = "execute" /\ busy.session = s /\ busy.stage = k
<1>0. /\ Idle.op # "execute"
      /\ attempts[s][k] \in Attempt
      /\ Exists(s) /\ MissionOf(s)' = MissionOf(s) =>
           Sealed /\ (Waits => /\ busy.sealed = attempts[s][k].prediction
                               /\ busy.sealed # NoPrediction)
  BY AttemptType DEF Idle, PredictionSealed
<1>1. ASSUME NEW t \in Session, NEW l \in Learner, NEW m \in Mission, CreateSession(t, l, m)
      PROVE  Sealed' /\ ~Waits'
  <2>1. ~Waits'
    BY <1>0, <1>1 DEF CreateSession
  <2>2. CASE t = s
    <3>1. attempts[s][k] = NoAttempt
      BY <1>1, <2>2, BoundsAssumption DEF CreateSession, PipelineOrder, InOrder, Session
    <3>2. attempts'[s][k] \in {NoAttempt, EnsureReady(NoAttempt)}
      BY <1>1, <2>2, <3>1 DEF CreateSession, TypeOK
    <3> QED BY <2>1, <3>2 DEF EnsureReady, NoAttempt
  <2>3. CASE t # s
    <3>1. attempts'[s] = attempts[s] /\ sessions'[s] = sessions[s]
      BY <1>1, <2>3 DEF CreateSession, TypeOK
    <3> QED BY <1>0, <2>1, <3>1 DEF Exists, MissionOf
  <2> QED BY <2>2, <2>3
<1>2. ASSUME NEW t \in Session, NEW j \in Stage, EnterStage(t, j)
      PROVE  Sealed' /\ ~Waits'
  <2>1. Exists(s) /\ MissionOf(s)' = MissionOf(s)
    BY <1>2 DEF EnterStage, Exists, MissionOf
  <2>2. attempts'[s][k] \in {attempts[s][k], [attempts[s][k] EXCEPT !.status = "ACTIVE"]}
    BY <1>2 DEF EnterStage, TypeOK
  <2> QED BY <1>0, <1>2, <2>1, <2>2 DEF EnterStage, Attempt
<1>3. ASSUME NEW t \in Session, NEW j \in Stage, NEW h \in Hypothesis, CommitPrediction(t, j, h)
      PROVE  Sealed' /\ ~Waits'
  <2>1. Exists(s) /\ MissionOf(s)' = MissionOf(s)
    BY <1>3 DEF CommitPrediction, Exists, MissionOf
  <2>2. ~Waits'
    BY <1>0, <1>3 DEF CommitPrediction
  <2>3. CASE t = s /\ j = k
    <3>1. attempts[s][k].runs = {}
      BY <1>0, <1>3, <2>1, <2>3 DEF CommitPrediction
    <3>2. attempts'[s][k].runs = {}
      BY <1>0, <1>3, <2>3, <3>1 DEF CommitPrediction, TypeOK, Attempt
    <3> QED BY <2>2, <3>2
  <2>4. CASE ~(t = s /\ j = k)
    <3>1. attempts'[s][k] = attempts[s][k]
      BY <1>3, <2>4 DEF CommitPrediction, TypeOK
    <3> QED BY <1>0, <2>1, <2>2, <3>1
  <2> QED BY <2>3, <2>4
<1>4. ASSUME NEW t \in Session, NEW j \in Stage, SendToWorker(t, j)
      PROVE  /\ Sealed'
             /\ Waits' => busy'.sealed = attempts'[s][k].prediction /\ busy'.sealed # NoPrediction
  BY <1>0, <1>4 DEF SendToWorker, Exists, MissionOf
<1>5. ASSUME NEW t \in Session, NEW j \in Stage, NEW a \in Artifacts, SubmitStage(t, j, a)
      PROVE  Sealed' /\ ~Waits'
  <2>1. Exists(s) /\ MissionOf(s)' = MissionOf(s)
    <3>1. CASE t = s
      BY <1>5, <3>1, ExistsType DEF SubmitStage, TypeOK, Exists, Mutable, MissionOf
    <3>2. CASE t # s
      BY <1>5, <3>2 DEF SubmitStage, TypeOK, Exists, MissionOf
    <3> QED BY <3>1, <3>2
  <2>2. attempts'[s][k] \in {attempts[s][k], EnsureReady(attempts[s][k]),
                             [attempts[s][k] EXCEPT !.status = "SUBMITTED"]}
    BY <1>5 DEF SubmitStage, TypeOK
  <2>3. /\ attempts'[s][k].runs = attempts[s][k].runs
        /\ attempts'[s][k].prediction = attempts[s][k].prediction
    BY <1>0, <2>2 DEF EnsureReady, Attempt
  <2>4. ~Waits'
    BY <1>5 DEF SubmitStage
  <2> QED BY <1>0, <2>1, <2>3, <2>4
<1>6. ASSUME NEW t \in Session, EvaluateGate(t)
      PROVE  Sealed' /\ ~Waits'
  <2>1. Exists(s) /\ MissionOf(s)' = MissionOf(s)
    <3>1. CASE t = s
      BY <1>6, <3>1, ExistsType DEF EvaluateGate, TypeOK, Exists, MissionOf
    <3>2. CASE t # s
      BY <1>6, <3>2 DEF EvaluateGate, TypeOK, Exists, MissionOf
    <3> QED BY <3>1, <3>2
  <2>2. ~Waits' /\ attempts' = attempts
    BY <1>6 DEF EvaluateGate
  <2> QED BY <1>0, <2>1, <2>2
<1>7. ASSUME RecordExecution PROVE Sealed' /\ ~Waits'
  <2>1. Exists(s) /\ MissionOf(s)' = MissionOf(s)
    BY <1>7 DEF RecordExecution, Exists, MissionOf
  <2>2. ~Waits'
    BY <1>0, <1>7 DEF RecordExecution
  <2>3. CASE busy.session = s /\ busy.stage = k
    <3>1. attempts'[s][k] = [attempts[s][k] EXCEPT !.runs = @ \cup {busy.sealed}]
      BY <1>7, <2>3 DEF RecordExecution, TypeOK
    <3>2. /\ attempts'[s][k].prediction = attempts[s][k].prediction
          /\ attempts'[s][k].runs = attempts[s][k].runs \cup {busy.sealed}
      BY <1>0, <3>1 DEF Attempt
    <3>3. Waits
      BY <1>7, <2>3 DEF RecordExecution
    <3> QED BY <1>0, <2>1, <2>2, <3>2, <3>3
  <2>4. CASE ~(busy.session = s /\ busy.stage = k)
    <3>1. attempts'[s][k] = attempts[s][k]
      BY <1>7, <2>4 DEF RecordExecution, TypeOK
    <3> QED BY <1>0, <2>1, <2>2, <3>1
  <2> QED BY <2>3, <2>4
<1>8. CASE RecordActivity \/ Abandon
  BY <1>0, <1>8 DEF RecordActivity, Abandon, Exists, MissionOf
<1>9. CASE UNCHANGED vars
  BY <1>0, <1>9 DEF vars, Exists, MissionOf
<1> QED
  BY <1>1, <1>2, <1>3, <1>4, <1>5, <1>6, <1>7, <1>8, <1>9 DEF Next

(***************************************************************************)
(* The theorems about the pipeline: no stage is open before the one in     *)
(* front of it was submitted, whatever the handlers are asked and wherever *)
(* the process dies; and an experiment runs under the prediction sealed    *)
(* for it and no other.                                                    *)
(***************************************************************************)
LEMMA InvCorrect == Spec => []Inv
<1>1. Inv /\ [Next]_vars => Inv'
  BY StepTypeOK, StepPipelineOrder, StepWorkerHoldsStage, StepPredictionSealed DEF Inv
<1> QED BY InitInv, <1>1, PTL DEF Spec

\* The stage order of WP-122 holds in every reachable state of the runtime.
THEOREM PipelineOrderHolds == Spec => []PipelineOrder
BY InvCorrect, PTL DEF Inv

\* The attempt an execution is inserted for is open when the worker answers.
THEOREM WorkerHoldsStageHolds == Spec => []WorkerHoldsStage
BY InvCorrect, PTL DEF Inv

\* No execution of an experiment lacks its sealed prediction (WP-123).
THEOREM PredictionSealedHolds == Spec => []PredictionSealed
BY InvCorrect, PTL DEF Inv

-----------------------------------------------------------------------------
(* What is closed stays closed                                             *)

\* The rows a submission persists name its session and its stage.
LEMMA EvidenceRowsName ==
  ASSUME TypeOK, NEW s \in Session, Exists(s), NEW k \in Stage, NEW a \in Artifacts
  PROVE  \A e \in EvidenceRows(s, k, a) : e.session = s /\ e.stage = k
<1>1. MissionOf(s) \in Mission
  BY ExistsType
<1>2. \A c \in SubmissionClaims(Contract[MissionOf(s)], k, a, MissionOf(s) \in Noded) :
        c.stage = k
  BY <1>1, ClaimsType
<1> QED BY <1>2 DEF EvidenceRows

(***************************************************************************)
(* A handler writes an attempt, or evidence, of a session only while that  *)
(* session is ACTIVE, and only of the stage it is at while the attempt is  *)
(* not SUBMITTED.                                                          *)
(***************************************************************************)
LEMMA OnlyCurrentWritten ==
  ASSUME Inv, [Next]_vars, NEW s \in Session, NEW k \in Stage,
         Exists(s), ~Mutable(s) \/ attempts[s][k].status = "SUBMITTED"
  PROVE  attempts'[s][k] = attempts[s][k] /\ EvidenceFor(s, k)' = EvidenceFor(s, k)
<1> USE DEF Inv
<1>1. ASSUME NEW t \in Session, NEW l \in Learner, NEW m \in Mission, CreateSession(t, l, m)
      PROVE  attempts'[s][k] = attempts[s][k] /\ evidence' = evidence
  <2>1. t # s
    BY <1>1, BoundsAssumption DEF CreateSession, Session
  <2> QED BY <1>1, <2>1 DEF CreateSession, TypeOK
<1>2. ASSUME NEW t \in Session, NEW j \in Stage, EnterStage(t, j)
      PROVE  attempts'[s][k] = attempts[s][k] /\ evidence' = evidence
  BY <1>2 DEF EnterStage, TypeOK
<1>3. ASSUME NEW t \in Session, NEW j \in Stage, NEW h \in Hypothesis, CommitPrediction(t, j, h)
      PROVE  attempts'[s][k] = attempts[s][k] /\ evidence' = evidence
  BY <1>3 DEF CommitPrediction, TypeOK
<1>4. ASSUME NEW t \in Session, NEW j \in Stage, NEW a \in Artifacts, SubmitStage(t, j, a)
      PROVE  attempts'[s][k] = attempts[s][k] /\ EvidenceFor(s, k)' = EvidenceFor(s, k)
  <2>1. Exists(t) /\ Mutable(t) /\ attempts[t][j].status = "ACTIVE" /\ j = sessions[t].current
    BY <1>4 DEF SubmitStage, Mutable, Exists, StageIsCurrent
  <2>2. ~(t = s /\ j = k)
    BY <2>1
  <2>3. EvidenceFor(s, k)' = EvidenceFor(s, k)
    <3>1. evidence' = evidence \cup EvidenceRows(t, j, a)
      BY <1>4 DEF SubmitStage
    <3>2. \A e \in EvidenceRows(t, j, a) : ~(e.session = s /\ e.stage = k)
      BY <2>1, <2>2, EvidenceRowsName
    <3> QED BY <3>1, <3>2 DEF EvidenceFor
  <2>4. attempts'[s][k] = attempts[s][k]
    <3>1. CASE t # s
      BY <1>4, <3>1 DEF SubmitStage, TypeOK
    <3>2. CASE t = s
      <4>1. attempts[s][k].status = "SUBMITTED"
        BY <2>1, <3>2
      <4>2. EnsureReady(attempts[s][k]) = attempts[s][k]
        BY <4>1 DEF EnsureReady
      <4> QED BY <1>4, <2>2, <3>2, <4>2 DEF SubmitStage, TypeOK
    <3> QED BY <3>1, <3>2
  <2> QED BY <2>3, <2>4
<1>5. ASSUME NEW t \in Session, EvaluateGate(t)
      PROVE  attempts'[s][k] = attempts[s][k] /\ evidence' = evidence
  BY <1>5 DEF EvaluateGate
<1>6. ASSUME RecordExecution
      PROVE  attempts'[s][k] = attempts[s][k] /\ evidence' = evidence
  <2>1. /\ Mutable(busy.session)
        /\ attempts[busy.session][busy.stage].status = "ACTIVE"
    BY <1>6 DEF RecordExecution, WorkerHoldsStage
  <2>2. ~(busy.session = s /\ busy.stage = k)
    BY <2>1
  <2> QED BY <1>6, <2>2 DEF RecordExecution, TypeOK
<1>7. CASE RecordActivity \/ Abandon
  BY <1>7 DEF RecordActivity, Abandon, EvidenceFor
<1>8. CASE UNCHANGED vars
  BY <1>8 DEF vars, EvidenceFor
<1>9. ASSUME NEW t \in Session, NEW j \in Stage, SendToWorker(t, j)
      PROVE  attempts'[s][k] = attempts[s][k] /\ evidence' = evidence
  BY <1>9 DEF SendToWorker
<1>10. evidence' = evidence => EvidenceFor(s, k)' = EvidenceFor(s, k)
  BY DEF EvidenceFor
<1> QED
  BY <1>1, <1>2, <1>3, <1>4, <1>5, <1>6, <1>7, <1>8, <1>9, <1>10 DEF Next

\* A submission is final, for any contract and any number of sessions.
THEOREM SubmissionFinalHolds == Spec => SubmissionFinal
<1>1. ASSUME Inv, [Next]_vars, NEW s \in Session, NEW k \in Stage,
             attempts[s][k].status = "SUBMITTED"
      PROVE  attempts'[s][k] = attempts[s][k] /\ EvidenceFor(s, k)' = EvidenceFor(s, k)
  <2>1. Exists(s)
    BY <1>1 DEF Inv, PipelineOrder, InOrder, NoAttempt
  <2> QED BY <1>1, <2>1, OnlyCurrentWritten
<1>2. Inv /\ [Next]_vars =>
        [\A s \in Session, k \in Stage :
           attempts[s][k].status = "SUBMITTED" =>
              attempts'[s][k] = attempts[s][k] /\ EvidenceFor(s, k)' = EvidenceFor(s, k)]_vars
  BY <1>1
<1> QED BY InvCorrect, <1>2, PTL DEF Spec, SubmissionFinal

LEMMA CompletedKept ==
  ASSUME Inv, [Next]_vars, NEW s \in Session, sessions[s].status = "COMPLETED"
  PROVE  sessions'[s] = sessions[s] /\ attempts'[s] = attempts[s]
<1>1. Exists(s) /\ ~Mutable(s)
  BY DEF Exists, Mutable
<1>2. Inv'
  BY StepTypeOK, StepPipelineOrder, StepWorkerHoldsStage, StepPredictionSealed DEF Inv
<1>3. \A k \in Stage : attempts'[s][k] = attempts[s][k]
  BY <1>1, OnlyCurrentWritten
<1>4. attempts'[s] = attempts[s]
  BY <1>2, <1>3 DEF Inv, TypeOK
<1>5. sessions'[s] = sessions[s]
  <2>1. ASSUME NEW t \in Session, NEW l \in Learner, NEW m \in Mission, CreateSession(t, l, m)
        PROVE  sessions'[s] = sessions[s]
    <3>1. t # s
      BY <1>1, <2>1, BoundsAssumption DEF CreateSession, Session
    <3> QED BY <2>1, <3>1 DEF CreateSession, Inv, TypeOK
  <2>2. ASSUME NEW t \in Session, NEW j \in Stage, NEW a \in Artifacts, SubmitStage(t, j, a)
        PROVE  sessions'[s] = sessions[s]
    BY <1>1, <2>2 DEF SubmitStage, Inv, TypeOK
  <2>3. ASSUME NEW t \in Session, EvaluateGate(t)
        PROVE  sessions'[s] = sessions[s]
    <3>1. [sessions[s] EXCEPT !.status = "COMPLETED"] = sessions[s]
      BY <1>1, ExistsType DEF Inv
    <3>2. \/ sessions' = sessions
          \/ sessions' = [sessions EXCEPT ![t] = [sessions[t] EXCEPT !.status = "COMPLETED"]]
      BY <2>3 DEF EvaluateGate
    <3>3. sessions'[s] \in {sessions[s], [sessions[s] EXCEPT !.status = "COMPLETED"]}
      BY <3>2 DEF Inv, TypeOK
    <3> QED BY <3>1, <3>3
  <2>4. ASSUME NEW t \in Session, NEW j \in Stage
        PROVE  /\ EnterStage(t, j) => sessions' = sessions
               /\ \A h \in Hypothesis : CommitPrediction(t, j, h) => sessions' = sessions
               /\ SendToWorker(t, j) => sessions' = sessions
    BY DEF EnterStage, CommitPrediction, SendToWorker
  <2>5. RecordExecution \/ RecordActivity \/ Abandon \/ UNCHANGED vars => sessions' = sessions
    BY DEF RecordExecution, RecordActivity, Abandon, vars
  <2> QED BY <2>1, <2>2, <2>3, <2>4, <2>5 DEF Next
<1> QED BY <1>4, <1>5

\* Only a passing gate completes a session.
LEMMA OnlyGateCompletes ==
  ASSUME Inv, [Next]_vars, NEW s \in Session,
         sessions[s].status # "COMPLETED", sessions'[s].status = "COMPLETED"
  PROVE  EvaluateGate(s) /\ GatePasses(s)
<1> USE DEF Inv, TypeOK
<1>1. ASSUME NEW t \in Session, NEW l \in Learner, NEW m \in Mission, CreateSession(t, l, m)
      PROVE  FALSE
  BY <1>1 DEF CreateSession
<1>2. ASSUME NEW t \in Session, NEW j \in Stage, NEW a \in Artifacts, SubmitStage(t, j, a)
      PROVE  FALSE
  BY <1>2, ExistsType DEF SubmitStage, Mutable, Exists
<1>3. ASSUME NEW t \in Session, EvaluateGate(t)
      PROVE  EvaluateGate(s) /\ GatePasses(s)
  BY <1>3 DEF EvaluateGate
<1>4. ASSUME NEW t \in Session, NEW j \in Stage
      PROVE  /\ EnterStage(t, j) => sessions' = sessions
             /\ \A h \in Hypothesis : CommitPrediction(t, j, h) => sessions' = sessions
             /\ SendToWorker(t, j) => sessions' = sessions
  BY DEF EnterStage, CommitPrediction, SendToWorker
<1>5. RecordExecution \/ RecordActivity \/ Abandon \/ UNCHANGED vars => sessions' = sessions
  BY DEF RecordExecution, RecordActivity, Abandon, vars
<1> QED BY <1>1, <1>2, <1>3, <1>4, <1>5 DEF Next

\* A COMPLETED session is closed, for any contract and any number of sessions.
THEOREM CompletedFrozenHolds == Spec => CompletedFrozen
<1>1. Inv /\ [Next]_vars =>
        [\A s \in Session :
           sessions[s].status = "COMPLETED" =>
              sessions'[s] = sessions[s] /\ attempts'[s] = attempts[s]]_vars
  BY CompletedKept
<1> QED BY InvCorrect, <1>1, PTL DEF Spec, CompletedFrozen

-----------------------------------------------------------------------------
(* The gate                                                                *)

\* A set of criteria that passes still passes when more of them are met.
LEMMA ThresholdMonotone ==
  ASSUME NEW m \in Mission, NEW before, NEW after,
         before \subseteq after, after \subseteq DOMAIN Contract[m].criteria,
         MeetsPassThreshold(Cardinality(before), Len(Contract[m].criteria),
                            Contract[m].threshold)
  PROVE  MeetsPassThreshold(Cardinality(after), Len(Contract[m].criteria),
                            Contract[m].threshold)
<1> DEFINE a == Cardinality(after)
           b == Cardinality(before)
           n == Len(Contract[m].criteria)
           t == Contract[m].threshold
<1>1. n \in Nat /\ t \in Int /\ t * n \in Int /\ DOMAIN Contract[m].criteria = 1..n
  BY ContractAssumption
<1>2. IsFiniteSet(after)
  <2>1. IsFiniteSet(1..n)
    BY <1>1, FS_Interval
  <2> QED BY <1>1, <2>1, FS_Subset
<1>3. a \in Nat /\ b \in Nat /\ b <= a
  BY <1>2, FS_Subset, FS_CardinalityType
<1>4. MeetsPassThreshold(b, n, t)
  OBVIOUS
<1> HIDE DEF a, b, n, t
<1>5. 100 * b <= 100 * a
  BY <1>3
<1>6. MeetsPassThreshold(a, n, t)
  BY <1>1, <1>3, <1>4, <1>5 DEF MeetsPassThreshold
<1> QED BY <1>6 DEF a, n, t

(***************************************************************************)
(* The gate is monotone (gates.py:42-76): with more claims and more        *)
(* submitted stages a contract that passes still passes.                   *)
(***************************************************************************)
LEMMA VerdictMonotone ==
  ASSUME NEW m \in Mission,
         NEW claims, NEW more, claims \subseteq more,
         NEW submitted, NEW later, submitted \subseteq later,
         Verdict(Contract[m], claims, submitted) = "PASSED"
  PROVE  Verdict(Contract[m], more, later) = "PASSED"
<1> DEFINE before == Passed(Contract[m], claims, submitted)
           after  == Passed(Contract[m], more, later)
<1>1. before \subseteq after
  BY DEF Passed, CriterionSatisfied
<1>2. after \subseteq DOMAIN Contract[m].criteria
  BY DEF Passed
<1>3. /\ Contract[m].criteria # <<>>
      /\ MeetsPassThreshold(Cardinality(before), Len(Contract[m].criteria),
                            Contract[m].threshold)
  BY DEF Verdict
<1> HIDE DEF before, after
<1>4. MeetsPassThreshold(Cardinality(after), Len(Contract[m].criteria), Contract[m].threshold)
  BY <1>1, <1>2, <1>3, ThresholdMonotone
<1> QED BY <1>3, <1>4 DEF Verdict, after

\* Claims are never deleted or rewritten: what a gate sees only grows.
LEMMA EvidenceGrows ==
  ASSUME [Next]_vars
  PROVE  evidence \subseteq evidence'
BY DEF Next, vars, CreateSession, EnterStage, CommitPrediction, SendToWorker, SubmitStage,
       EvaluateGate, RecordExecution, RecordActivity, Abandon

(***************************************************************************)
(* A certificate stays deserved, for any contracts and any interleaving of *)
(* sessions: the gate of a COMPLETED session passes on what the database   *)
(* holds now.                                                              *)
(***************************************************************************)
THEOREM CompletedStillPassesHolds == Spec => []CompletedStillPasses
<1>1. Init => CompletedStillPasses
  BY DEF Init, CompletedStillPasses, NoSession
<1>2. Inv /\ CompletedStillPasses /\ [Next]_vars => CompletedStillPasses'
  <2> SUFFICES ASSUME Inv, CompletedStillPasses, [Next]_vars,
                      NEW s \in Session, sessions'[s].status = "COMPLETED"
               PROVE  GateVerdict(s)' = "PASSED"
    BY DEF CompletedStillPasses
  <2>1. /\ Exists(s) /\ GateVerdict(s) = "PASSED"
        /\ sessions'[s].learner = sessions[s].learner /\ MissionOf(s)' = MissionOf(s)
    <3>1. CASE sessions[s].status = "COMPLETED"
      <4>1. sessions'[s] = sessions[s]
        BY <3>1, CompletedKept
      <4> QED BY <3>1, <4>1 DEF CompletedStillPasses, Exists, MissionOf
    <3>2. CASE sessions[s].status # "COMPLETED"
      <4>1. EvaluateGate(s) /\ GatePasses(s)
        BY <3>2, OnlyGateCompletes
      <4>2. sessions' = [sessions EXCEPT ![s].status = "COMPLETED"] /\ Exists(s)
        BY <4>1 DEF EvaluateGate
      <4>3. /\ sessions'[s].learner = sessions[s].learner
            /\ sessions'[s].mission = sessions[s].mission
        BY <4>2, ExistsType DEF Inv, TypeOK
      <4> QED BY <4>1, <4>2, <4>3 DEF GatePasses, MissionOf
    <3> QED BY <3>1, <3>2
  <2>2. ClaimsOf(s) \subseteq ClaimsOf(s)'
    BY <2>1, EvidenceGrows DEF ClaimsOf
  <2>3. SubmittedStages(s) \subseteq SubmittedStages(s)'
    BY <2>1, OnlyCurrentWritten DEF SubmittedStages
  <2>4. MissionOf(s) \in Mission
    BY <2>1, ExistsType DEF Inv
  <2>5. Verdict(Contract[MissionOf(s)], ClaimsOf(s), SubmittedStages(s)) = "PASSED"
    BY <2>1 DEF GateVerdict
  <2>6. Verdict(Contract[MissionOf(s)], ClaimsOf(s)', SubmittedStages(s)') = "PASSED"
    BY <2>2, <2>3, <2>4, <2>5, VerdictMonotone
  <2> QED BY <2>1, <2>6 DEF GateVerdict
<1> QED BY InvCorrect, <1>1, <1>2, PTL DEF Spec

-----------------------------------------------------------------------------
(* What happened                                                           *)

\* Nothing but create_session writes whose session it is, and of which mission.
LEMMA RowKept ==
  ASSUME Inv, [Next]_vars, NEW s \in Session, Exists(s)
  PROVE  /\ sessions'[s].learner = sessions[s].learner
         /\ MissionOf(s)' = MissionOf(s) /\ Exists(s)'
<1> USE DEF Inv, TypeOK
<1>0. sessions' = sessions =>
        /\ sessions'[s].learner = sessions[s].learner
        /\ MissionOf(s)' = MissionOf(s) /\ Exists(s)'
  BY DEF MissionOf, Exists
<1>1. ASSUME NEW t \in Session, NEW l \in Learner, NEW m \in Mission, CreateSession(t, l, m)
      PROVE  sessions'[s] = sessions[s]
  <2>1. t # s
    BY <1>1, BoundsAssumption DEF CreateSession, Session
  <2> QED BY <1>1, <2>1 DEF CreateSession
<1>2. ASSUME NEW t \in Session, NEW j \in Stage, NEW a \in Artifacts, SubmitStage(t, j, a)
      PROVE  /\ sessions'[s].learner = sessions[s].learner
             /\ sessions'[s].mission = sessions[s].mission
             /\ sessions'[s].status = sessions[s].status
  <2>1. PICK x : sessions' = [sessions EXCEPT ![t].current = x]
    BY <1>2 DEF SubmitStage
  <2> QED BY <2>1, ExistsType
<1>3. ASSUME NEW t \in Session, EvaluateGate(t)
      PROVE  /\ sessions'[s].learner = sessions[s].learner
             /\ sessions'[s].mission = sessions[s].mission
             /\ sessions'[s].status # "ABSENT"
  <2>1. sessions' = sessions \/ sessions' = [sessions EXCEPT ![t].status = "COMPLETED"]
    BY <1>3 DEF EvaluateGate
  <2> QED BY <2>1, ExistsType DEF Exists
<1>4. ASSUME NEW t \in Session, NEW j \in Stage
      PROVE  /\ EnterStage(t, j) => sessions' = sessions
             /\ \A h \in Hypothesis : CommitPrediction(t, j, h) => sessions' = sessions
             /\ SendToWorker(t, j) => sessions' = sessions
  BY DEF EnterStage, CommitPrediction, SendToWorker
<1>5. RecordExecution \/ RecordActivity \/ Abandon \/ UNCHANGED vars => sessions' = sessions
  BY DEF RecordExecution, RecordActivity, Abandon, vars
<1> QED BY <1>0, <1>1, <1>2, <1>3, <1>4, <1>5 DEF Next, Exists, MissionOf

\* What was submitted stays submitted.
LEMMA SubmittedKept ==
  ASSUME Inv, [Next]_vars, NEW s \in Session, NEW k \in SubmittedStages(s)
  PROVE  Exists(s) /\ k \in SubmittedStages(s)'
<1>1. k \in Stage /\ attempts[s][k].status = "SUBMITTED"
  BY DEF SubmittedStages
<1>2. Exists(s)
  BY <1>1 DEF Inv, PipelineOrder, InOrder, NoAttempt
<1> QED BY <1>1, <1>2, OnlyCurrentWritten DEF SubmittedStages

\* Only submit_stage submits.
LEMMA OnlySubmitSubmits ==
  ASSUME Inv, [Next]_vars, NEW s \in Session, NEW k \in Stage,
         attempts[s][k].status # "SUBMITTED", attempts'[s][k].status = "SUBMITTED"
  PROVE  \E a \in Artifacts : SubmitStage(s, k, a)
<1> USE DEF Inv, TypeOK
<1>1. attempts[s][k] \in Attempt
  OBVIOUS
<1>2. EnsureReady(attempts[s][k]).status # "SUBMITTED"
  BY <1>1 DEF EnsureReady, Attempt
<1>3. ASSUME NEW t \in Session, NEW l \in Learner, NEW m \in Mission, CreateSession(t, l, m)
      PROVE  FALSE
  <2>1. attempts'[s][k] \in {attempts[s][k], EnsureReady(attempts[s][k])}
    BY <1>3 DEF CreateSession
  <2> QED BY <1>2, <2>1
<1>4. ASSUME NEW t \in Session, NEW j \in Stage, NEW a \in Artifacts, SubmitStage(t, j, a)
      PROVE  t = s /\ j = k
  <2>1. CASE t # s
    BY <1>4, <2>1 DEF SubmitStage
  <2>2. CASE t = s /\ j # k
    <3>1. attempts'[s][k] \in {attempts[s][k], EnsureReady(attempts[s][k])}
      BY <1>4, <2>2 DEF SubmitStage
    <3> QED BY <1>2, <3>1
  <2> QED BY <2>1, <2>2
<1>5. ASSUME NEW t \in Session, NEW j \in Stage, EnterStage(t, j)
      PROVE  FALSE
  <2>1. attempts'[s][k] \in {attempts[s][k], [attempts[s][k] EXCEPT !.status = "ACTIVE"]}
    BY <1>5 DEF EnterStage
  <2> QED BY <1>1, <2>1 DEF Attempt
<1>6. ASSUME NEW t \in Session, NEW j \in Stage, NEW h \in Hypothesis, CommitPrediction(t, j, h)
      PROVE  FALSE
  <2>1. attempts'[s][k] \in {attempts[s][k], [attempts[s][k] EXCEPT !.prediction = h]}
    BY <1>6 DEF CommitPrediction
  <2> QED BY <1>1, <2>1 DEF Attempt
<1>7. ASSUME RecordExecution PROVE FALSE
  <2>1. PICK x : attempts'[s][k] \in {attempts[s][k], [attempts[s][k] EXCEPT !.runs = x]}
    <3>1. attempts' = [attempts EXCEPT ![busy.session][busy.stage].runs
                          = attempts[busy.session][busy.stage].runs \cup {busy.sealed}]
      BY <1>7 DEF RecordExecution
    <3> QED BY <3>1
  <2> QED BY <1>1, <2>1 DEF Attempt
<1>8. ASSUME NEW t \in Session
      PROVE  /\ EvaluateGate(t) => FALSE
             /\ \A j \in Stage : SendToWorker(t, j) => FALSE
  BY DEF EvaluateGate, SendToWorker
<1>9. ~(RecordActivity \/ Abandon \/ UNCHANGED vars)
  BY DEF RecordActivity, Abandon, vars
<1> QED BY <1>3, <1>4, <1>5, <1>6, <1>7, <1>8, <1>9 DEF Next

LEMMA RowsMonotone ==
  ASSUME NEW s, NEW k, NEW a
  PROVE  EvidenceRows(s, k, {}) \subseteq EvidenceRows(s, k, a)
<1>1. SubmissionClaims(Contract[MissionOf(s)], k, {}, MissionOf(s) \in Noded)
        \subseteq SubmissionClaims(Contract[MissionOf(s)], k, a, MissionOf(s) \in Noded)
  BY DEF SubmissionClaims
<1> QED BY <1>1 DEF EvidenceRows

LEMMA SameRows ==
  ASSUME NEW s, NEW k, NEW a, sessions'[s].learner = sessions[s].learner,
         MissionOf(s)' = MissionOf(s)
  PROVE  EvidenceRows(s, k, a)' = EvidenceRows(s, k, a)
BY DEF EvidenceRows

LEMMA StepProvenance == Inv /\ EvidenceProvenance /\ [Next]_vars => EvidenceProvenance'
<1> SUFFICES ASSUME Inv, EvidenceProvenance, [Next]_vars PROVE EvidenceProvenance'
  OBVIOUS
<1>1. ASSUME NEW s \in Session, NEW k \in Stage, NEW a \in Artifacts, SubmitStage(s, k, a)
      PROVE  /\ Exists(s) /\ k \in SubmittedStages(s)'
             /\ evidence' = evidence \cup EvidenceRows(s, k, a)
  BY <1>1 DEF SubmitStage, Mutable, Exists, SubmittedStages, Inv, TypeOK
<1>2. ASSUME NEW e \in evidence'
      PROVE  /\ attempts'[e.session][e.stage].status = "SUBMITTED"
             /\ sessions'[e.session].learner = e.learner
             /\ sessions'[e.session].mission = e.mission
  <2>1. CASE e \in evidence
    <3>1. e.session \in Session /\ e.stage \in SubmittedStages(e.session)
      BY <2>1 DEF Inv, TypeOK, EvidenceRow, EvidenceProvenance, SubmittedStages
    <3> QED BY <2>1, <3>1, SubmittedKept, RowKept
            DEF EvidenceProvenance, SubmittedStages, MissionOf
  <2>2. CASE e \notin evidence
    <3>1. PICK s \in Session, k \in Stage, a \in Artifacts :
            SubmitStage(s, k, a) /\ e \in EvidenceRows(s, k, a)
      BY <2>2, <1>1 DEF Next, vars, CreateSession, EnterStage, CommitPrediction, SendToWorker,
         EvaluateGate, RecordExecution, RecordActivity, Abandon
    <3>2. e.session = s /\ e.stage = k
      BY <1>1, <3>1, EvidenceRowsName DEF Inv
    <3>3. e.learner = sessions[s].learner /\ e.mission = MissionOf(s)
      BY <3>1 DEF EvidenceRows
    <3> QED BY <1>1, <3>1, <3>2, <3>3, RowKept DEF SubmittedStages, MissionOf
  <2> QED BY <2>1, <2>2
<1>3. ASSUME NEW s \in Session, NEW k \in SubmittedStages(s)'
      PROVE  EvidenceRows(s, k, {})' \subseteq evidence'
  <2>1. k \in Stage /\ attempts'[s][k].status = "SUBMITTED"
    BY <1>3 DEF SubmittedStages
  <2>2. CASE attempts[s][k].status = "SUBMITTED"
    <3>1. k \in SubmittedStages(s)
      BY <2>1, <2>2 DEF SubmittedStages
    <3>2. EvidenceRows(s, k, {}) \subseteq evidence
      BY <3>1 DEF EvidenceProvenance
    <3> QED BY <3>1, <3>2, SubmittedKept, RowKept, SameRows, EvidenceGrows
  <2>3. CASE attempts[s][k].status # "SUBMITTED"
    <3>1. PICK a \in Artifacts : SubmitStage(s, k, a)
      BY <2>1, <2>3, OnlySubmitSubmits
    <3> QED BY <1>1, <2>1, <3>1, RowKept, SameRows, RowsMonotone
  <2> QED BY <2>2, <2>3
<1> QED BY <1>2, <1>3 DEF EvidenceProvenance

LEMMA ProvenanceCorrect == Spec => [](Inv /\ EvidenceProvenance)
<1>1. Init => EvidenceProvenance
  BY DEF Init, EvidenceProvenance, SubmittedStages, NoAttempt
<1> QED BY InvCorrect, <1>1, StepProvenance, PTL DEF Spec

(***************************************************************************)
(* Evidence and submissions say the same thing (persist_submission_        *)
(* evidence, evidence.py:350), for any contract, any number of sessions    *)
(* and wherever the process dies.                                          *)
(***************************************************************************)
THEOREM EvidenceProvenanceHolds == Spec => []EvidenceProvenance
BY ProvenanceCorrect, PTL

\* Work done stays done.
LEMMA WorkedKept ==
  ASSUME Inv, [Next]_vars, NEW l, NEW m, NEW c, Worked(l, m, c)
  PROVE  Worked(l, m, c)'
<1>1. PICK t \in Session, i \in DOMAIN Contract[m].criteria :
        /\ sessions[t].learner = l /\ MissionOf(t) = m
        /\ Contract[m].criteria[i].competency = c
        /\ \E k \in SubmittedStages(t) : Matches(Contract[m].criteria[i].stage, k)
  BY DEF Worked
<1>2. PICK k \in SubmittedStages(t) : Matches(Contract[m].criteria[i].stage, k)
  BY <1>1
<1>3. k \in SubmittedStages(t)' /\ sessions'[t].learner = l /\ MissionOf(t)' = m
  BY <1>1, <1>2, SubmittedKept, RowKept
<1> QED BY <1>1, <1>2, <1>3 DEF Worked

\* A criterion the gate counts as satisfied was worked for by that learner.
LEMMA PassedWorked ==
  ASSUME Inv, EvidenceProvenance, NEW s \in Session, Exists(s),
         NEW i \in Passed(Contract[MissionOf(s)], ClaimsOf(s), SubmittedStages(s))
  PROVE  \E t \in Session :
            /\ sessions[t].learner = sessions[s].learner /\ MissionOf(t) = MissionOf(s)
            /\ \E k \in SubmittedStages(t) :
                  Matches(Contract[MissionOf(s)].criteria[i].stage, k)
<1> DEFINE m == MissionOf(s)
<1>1. CriterionSatisfied(Contract[m].criteria[i], ClaimsOf(s), SubmittedStages(s))
  BY DEF Passed
<1>2. CASE \E e \in ClaimsOf(s) : Matches(Contract[m].criteria[i].stage, e.stage)
  <2>1. PICK e \in ClaimsOf(s) : Matches(Contract[m].criteria[i].stage, e.stage)
    BY <1>2
  <2>2. e \in evidence /\ e.learner = sessions[s].learner /\ e.mission = m
    BY DEF ClaimsOf
  <2>3. /\ e.session \in Session /\ e.stage \in SubmittedStages(e.session)
        /\ sessions[e.session].learner = e.learner /\ MissionOf(e.session) = e.mission
    BY <2>2 DEF Inv, TypeOK, EvidenceRow, EvidenceProvenance, SubmittedStages, MissionOf
  <2> QED BY <2>1, <2>2, <2>3
<1>3. CASE Contract[m].criteria[i].stage \in SubmittedStages(s)
  BY <1>3 DEF Matches
<1> QED BY <1>1, <1>2, <1>3 DEF CriterionSatisfied

\* What evaluate_gate raises is backed by what the learner submitted.
LEMMA IncrementsWorked ==
  ASSUME Inv, EvidenceProvenance, NEW s \in Session, Exists(s),
         NEW c \in Increments(Contract[MissionOf(s)], ClaimsOf(s), SubmittedStages(s))
  PROVE  Worked(sessions[s].learner, MissionOf(s), c)
<1>1. PICK i \in Passed(Contract[MissionOf(s)], ClaimsOf(s), SubmittedStages(s)) :
        Contract[MissionOf(s)].criteria[i].competency = c
  BY DEF Increments
<1>2. i \in DOMAIN Contract[MissionOf(s)].criteria
  BY DEF Passed
<1> QED BY <1>1, <1>2, PassedWorked DEF Worked

(***************************************************************************)
(* Levels are earned (increment_competencies, gates.py:254), for any       *)
(* contracts and however learners share missions and sessions share claims.*)
(***************************************************************************)
THEOREM MasteryEarnedHolds == Spec => []MasteryEarned
<1>1. Init => MasteryEarned
  BY DEF Init, MasteryEarned
<1>2. Inv /\ EvidenceProvenance /\ MasteryEarned /\ [Next]_vars => MasteryEarned'
  <2> SUFFICES ASSUME Inv, EvidenceProvenance, MasteryEarned, [Next]_vars,
                      NEW l \in Learner, NEW c \in Competency, mastery'[l][c] > 0
               PROVE  \E s \in Session :
                         /\ sessions'[s].status = "COMPLETED"
                         /\ sessions'[s].learner = l
                         /\ Worked(l, MissionOf(s), c)'
    BY DEF MasteryEarned
  <2>1. CASE mastery[l][c] > 0
    <3>1. PICK s \in Session : /\ sessions[s].status = "COMPLETED" /\ sessions[s].learner = l
                               /\ Worked(l, MissionOf(s), c)
      BY <2>1 DEF MasteryEarned
    <3>2. sessions'[s] = sessions[s]
      BY <3>1, CompletedKept
    <3>3. MissionOf(s)' = MissionOf(s)
      BY <3>2 DEF MissionOf
    <3>4. Worked(l, MissionOf(s), c)'
      BY <3>1, <3>3, WorkedKept
    <3> QED BY <3>1, <3>2, <3>4
  <2>2. CASE ~(mastery[l][c] > 0)
    <3>1. mastery' # mastery
      BY <2>2
    <3>2. PICK s \in Session : EvaluateGate(s)
      BY <3>1 DEF Next, vars, CreateSession, EnterStage, CommitPrediction, SendToWorker,
         SubmitStage, RecordExecution, RecordActivity, Abandon
    <3>3. /\ Exists(s)
          /\ mastery' = [mastery EXCEPT ![sessions[s].learner] = Raised(@,
                 Increments(Contract[MissionOf(s)], ClaimsOf(s), SubmittedStages(s)))]
          /\ sessions' = [sessions EXCEPT ![s].status = "COMPLETED"]
      BY <3>1, <3>2 DEF EvaluateGate
    <3>4. sessions[s].learner = l
      BY <2>2, <3>3 DEF Inv, TypeOK
    <3>5. c \in Increments(Contract[MissionOf(s)], ClaimsOf(s), SubmittedStages(s))
      BY <2>2, <3>3, <3>4 DEF Inv, TypeOK, Raised
    <3>6. Worked(l, MissionOf(s), c)
      BY <3>3, <3>4, <3>5, IncrementsWorked
    <3>7. /\ sessions'[s].status = "COMPLETED" /\ sessions'[s].learner = l
          /\ MissionOf(s)' = MissionOf(s)
      BY <3>3, <3>4, RowKept, ExistsType DEF Inv, TypeOK
    <3>8. Worked(l, MissionOf(s), c)'
      BY <3>6, <3>7, WorkedKept
    <3> QED BY <3>7, <3>8
  <2> QED BY <2>1, <2>2
<1> QED BY ProvenanceCorrect, <1>1, <1>2, PTL DEF Spec

\* What an event of the ledger tells.
Happened(e) ==
  /\ e.type = "stage_submitted" => attempts[e.session][e.stage].status = "SUBMITTED"
  /\ e.status = "PASSED" => sessions[e.session].status = "COMPLETED"

\* ActivityTruthful is not inductive: the event is written after the commit.
Told == (\A e \in activity : Happened(e)) /\ (busy.op = "record" => Happened(busy.event))

LEMMA HappenedKept ==
  ASSUME Inv, [Next]_vars, NEW e \in EventRow, Happened(e)
  PROVE  Happened(e)'
<1>1. e.session \in Session
  BY DEF EventRow
<1>2. e.type = "stage_submitted" => attempts'[e.session][e.stage].status = "SUBMITTED"
  <2> SUFFICES ASSUME e.type = "stage_submitted"
               PROVE  attempts'[e.session][e.stage].status = "SUBMITTED"
    OBVIOUS
  <2>1. e.stage \in SubmittedStages(e.session)
    BY DEF EventRow, Happened, SubmittedStages
  <2> QED BY <1>1, <2>1, SubmittedKept DEF SubmittedStages
<1>3. e.status = "PASSED" => sessions'[e.session].status = "COMPLETED"
  BY <1>1, CompletedKept DEF Happened
<1> QED BY <1>2, <1>3 DEF Happened

(***************************************************************************)
(* The ledger never tells of a submission or of a certificate that did not *)
(* happen (record_activity, evidence.py:61), although it is written in a   *)
(* transaction of its own and the process may die before.                  *)
(***************************************************************************)
THEOREM ActivityTruthfulHolds == Spec => []ActivityTruthful
<1>1. Init => Told
  BY DEF Init, Told, Idle
<1>2. Inv /\ Told /\ [Next]_vars => Told'
  <2> SUFFICES ASSUME Inv, Told, [Next]_vars PROVE Told'
    OBVIOUS
  <2>1. \A e \in activity : e \in EventRow /\ Happened(e)'
    BY HappenedKept DEF Inv, TypeOK, Told
  <2>2. busy.op = "record" => busy.event \in EventRow /\ Happened(busy.event)
    BY DEF Inv, TypeOK, Busy, Idle, Told
  <2>3. ASSUME NEW s \in Session, NEW k \in Stage, NEW a \in Artifacts, SubmitStage(s, k, a)
        PROVE  Told'
    <3>1. attempts'[s][k].status = "SUBMITTED"
      BY <2>3 DEF SubmitStage, Inv, TypeOK
    <3>2. Happened(Event("stage_submitted", s, k, "SUBMITTED"))'
      BY <3>1 DEF Happened, Event
    <3>3. /\ busy' = [op |-> "record", event |-> Event("stage_submitted", s, k, "SUBMITTED")]
          /\ activity' = activity
      BY <2>3 DEF SubmitStage
    <3> QED BY <2>1, <3>2, <3>3 DEF Told
  <2>4. ASSUME NEW s \in Session, EvaluateGate(s)
        PROVE  Told'
    <3>1. PICK e : e = Event("gate_evaluated", s, 0, GateVerdict(s))
      OBVIOUS
    <3>2. e.type = "gate_evaluated" /\ e.session = s /\ e.status = GateVerdict(s)
      BY <3>1 DEF Event
    <3>3. busy' = [op |-> "record", event |-> e] /\ activity' = activity
      BY <2>4, <3>1 DEF EvaluateGate
    <3>4. ASSUME GatePasses(s) PROVE sessions'[s].status = "COMPLETED"
      <4>1. Exists(s) /\ sessions' = [sessions EXCEPT ![s].status = "COMPLETED"]
        BY <2>4, <3>4 DEF EvaluateGate
      <4> QED BY <4>1, ExistsType DEF Inv, TypeOK
    <3>5. Happened(e)'
      BY <3>2, <3>4 DEF Happened, GatePasses
    <3>6. busy'.event = e
      BY <3>3
    <3> QED BY <2>1, <3>3, <3>5, <3>6 DEF Told, Happened
  <2>5. CASE RecordActivity
    <3>1. PICK e : e = busy.event
      OBVIOUS
    <3>2. e \in EventRow /\ Happened(e)
      BY <2>2, <2>5, <3>1 DEF RecordActivity
    <3>3. Happened(e)'
      BY <3>2, HappenedKept
    <3>4. activity' = activity \cup {e} /\ busy'.op # "record"
      BY <2>5, <3>1 DEF RecordActivity, Idle
    <3> QED BY <2>1, <3>3, <3>4 DEF Told
  <2>6. activity' = activity /\ busy' = busy => Told'
    <3> SUFFICES ASSUME activity' = activity, busy' = busy PROVE Told'
      OBVIOUS
    <3>1. busy.op = "record" => Happened(busy.event)'
      BY <2>2, HappenedKept
    <3> QED BY <2>1, <3>1 DEF Told
  <2>7. activity' = activity /\ busy'.op # "record" => Told'
    BY <2>1 DEF Told
  <2> QED
    BY <2>3, <2>4, <2>5, <2>6, <2>7 DEF Next, vars, CreateSession, EnterStage, CommitPrediction,
       SendToWorker, RecordExecution, Abandon, Idle
<1>3. Told => ActivityTruthful
  BY DEF Told, Happened, ActivityTruthful
<1> QED BY InvCorrect, <1>1, <1>2, <1>3, PTL DEF Spec

-----------------------------------------------------------------------------
(* The journey                                                             *)

\* The state of MissionJourney as Journey maps it.
Enrolled  == [s \in Session |-> [learner |-> sessions[s].learner, mission |-> sessions[s].mission]]
Done      == [s \in Session |-> Cardinality(SubmittedStages(s))]
Certified == {s \in Session : sessions[s].status = "COMPLETED"}

\* Stages are submitted from the first on, without a gap, so counting them is
\* enough to know which.
LEMMA DonePrefix ==
  ASSUME Inv, NEW s \in Session
  PROVE  /\ Done[s] \in Nat /\ SubmittedStages(s) = 1..Done[s]
         /\ \A k \in Stage : k = sessions[s].current /\ Exists(s)
                             /\ attempts[s][k].status = "ACTIVE" => Done[s] = k - 1
<1>1. PICK n \in Nat : /\ SubmittedStages(s) = 1..n
                       /\ \A k \in Stage : k = sessions[s].current /\ Exists(s)
                             /\ attempts[s][k].status = "ACTIVE" => n = k - 1
  <2>1. InOrder(s)
    BY DEF Inv, PipelineOrder
  <2>2. CASE ~Exists(s)
    <3>1. SubmittedStages(s) = 1..0
      BY <2>1, <2>2 DEF InOrder, NoAttempt, SubmittedStages
    <3> QED BY <2>2, <3>1
  <2>3. CASE Exists(s)
    <3>1. PICK c : c = sessions[s].current
      OBVIOUS
    <3>2. c \in Stage /\ c \in Nat /\ c >= 1 /\ c <= MaxStages /\ MaxStages \in Nat
      BY <2>3, <3>1, CurrentType, BoundsAssumption DEF Stage
    <3>3. \A k \in Stage : /\ k < c => attempts[s][k].status = "SUBMITTED"
                           /\ k > c => attempts[s][k].status # "SUBMITTED"
      BY <2>1, <2>3, <3>1 DEF InOrder, NoAttempt
    <3>4. CASE attempts[s][c].status = "SUBMITTED"
      <4>1. SubmittedStages(s) = 1..c
        BY <3>2, <3>3, <3>4 DEF SubmittedStages, Stage
      <4> QED BY <3>1, <3>2, <3>4, <4>1
    <3>5. CASE attempts[s][c].status # "SUBMITTED"
      <4>1. SubmittedStages(s) = 1..(c - 1)
        BY <3>2, <3>3, <3>5 DEF SubmittedStages, Stage
      <4> QED BY <3>1, <3>2, <4>1
    <3> QED BY <3>4, <3>5
  <2> QED BY <2>2, <2>3
<1>2. Cardinality(1..n) = n
  BY FS_Interval
<1> QED BY <1>1, <1>2 DEF Done

\* A step that is not a submission leaves what is done alone.
LEMMA DoneUnlessSubmit ==
  ASSUME Inv, [Next]_vars,
         \A s \in Session, k \in Stage, a \in Artifacts : ~SubmitStage(s, k, a)
  PROVE  Done' = Done
<1> SUFFICES ASSUME NEW s \in Session PROVE SubmittedStages(s)' = SubmittedStages(s)
  BY DEF Done
<1>1. SubmittedStages(s) \subseteq SubmittedStages(s)'
  BY SubmittedKept
<1>2. SubmittedStages(s)' \subseteq SubmittedStages(s)
  BY OnlySubmitSubmits DEF SubmittedStages
<1> QED BY <1>1, <1>2

\* submit_stage does the next stage of one enrolment.
LEMMA SubmitDoesStage ==
  ASSUME Inv, Inv', [Next]_vars, NEW s \in Session, NEW k \in Stage, NEW a \in Artifacts,
         SubmitStage(s, k, a)
  PROVE  Journey!DoStage(s)
<1>1. /\ Mutable(s) /\ Exists(s) /\ k = sessions[s].current
      /\ attempts[s][k].status = "ACTIVE" /\ mastery' = mastery
  BY DEF SubmitStage, StageIsCurrent, Mutable, Exists
<1>2. k \in Nat /\ k >= 1 /\ k <= NumStages[MissionOf(s)] /\ NumStages[MissionOf(s)] \in Nat
  BY <1>1, CurrentType, NumStagesAssumption, BoundsAssumption DEF Stage
<1>3. Done[s] = k - 1
  BY <1>1, DonePrefix
<1>4. PICK x : sessions' = [sessions EXCEPT ![s].current = x]
  BY DEF SubmitStage
<1>5. \A t \in Session : Exists(t) => sessions[t] \in [status : {"ACTIVE", "COMPLETED"},
           learner : Learner, mission : Mission, current : Stage]
  BY ExistsType DEF Inv
<1>6. \A t \in Session : /\ sessions'[t].learner = sessions[t].learner
                         /\ sessions'[t].mission = sessions[t].mission
                         /\ sessions'[t].status = sessions[t].status
  BY <1>1, <1>4, <1>5 DEF Inv, TypeOK
<1>7. Enrolled' = Enrolled /\ Certified' = Certified
  BY <1>6 DEF Enrolled, Certified
<1>8. SubmittedStages(s)' = SubmittedStages(s) \cup {k}
  <2>1. \A j \in Stage : attempts'[s][j].status = "SUBMITTED" <=>
                            (j = k \/ attempts[s][j].status = "SUBMITTED")
    <3>1. PICK n : \A j \in Stage : attempts'[s][j] =
             IF j = k THEN [attempts[s][j] EXCEPT !.status = "SUBMITTED"]
             ELSE IF j = n THEN EnsureReady(attempts[s][j]) ELSE attempts[s][j]
      BY DEF SubmitStage, Inv, TypeOK
    <3>2. \A j \in Stage : attempts[s][j] \in Attempt
      BY DEF Inv, TypeOK
    <3>3. \A x1 \in Attempt : EnsureReady(x1).status = "SUBMITTED" <=> x1.status = "SUBMITTED"
      BY DEF EnsureReady, Attempt
    <3>4. \A x1 \in Attempt : [x1 EXCEPT !.status = "SUBMITTED"].status = "SUBMITTED"
      BY DEF Attempt
    <3> SUFFICES ASSUME NEW j \in Stage
                 PROVE  attempts'[s][j].status = "SUBMITTED" <=>
                          (j = k \/ attempts[s][j].status = "SUBMITTED")
      OBVIOUS
    <3>5. PICK old : old = attempts[s][j] /\ old \in Attempt
      BY <3>2
    <3>6. attempts'[s][j] = IF j = k THEN [old EXCEPT !.status = "SUBMITTED"]
                            ELSE IF j = n THEN EnsureReady(old) ELSE old
      BY <3>1, <3>5
    <3> QED BY <3>3, <3>4, <3>5, <3>6
  <2> QED BY <2>1 DEF SubmittedStages
<1>9. \A t \in Session : t # s => SubmittedStages(t)' = SubmittedStages(t)
  BY DEF SubmitStage, SubmittedStages, Inv, TypeOK
<1>10. Done'[s] = k
  <2>1. SubmittedStages(s)' = 1..k
    BY <1>2, <1>3, <1>8, DonePrefix
  <2>2. Cardinality(1..k) = k
    BY <1>2, FS_Interval
  <2> QED BY <2>1, <2>2 DEF Done
<1>11. Done' = [Done EXCEPT ![s] = @ + 1]
  <2>1. \A t \in Session : t # s => Done'[t] = Done[t]
    BY <1>9 DEF Done
  <2>2. Done'[s] = Done[s] + 1
    BY <1>2, <1>3, <1>10
  <2>3. Done = [t \in Session |-> Done[t]] /\ Done' = [t \in Session |-> Done'[t]]
    BY DEF Done
  <2> HIDE DEF Done
  <2> QED BY <2>1, <2>2, <2>3
<1>12. /\ Enrolled[s] # Journey!Nobody /\ s \notin Certified
       /\ Done[s] < NumStages[Enrolled[s].mission]
  <2>1. sessions[s].mission \in Mission /\ sessions[s].learner \in Learner
    BY <1>1, CurrentType DEF MissionOf
  <2>2. Enrolled[s] = [learner |-> sessions[s].learner, mission |-> sessions[s].mission]
    BY DEF Enrolled
  <2>3. Enrolled[s] # Journey!Nobody
    BY <2>1, <2>2, SentinelAssumption DEF Journey!Nobody
  <2> QED BY <1>1, <1>2, <1>3, <2>2, <2>3 DEF Certified, Mutable, MissionOf
<1> QED BY <1>1, <1>7, <1>11, <1>12 DEF Journey!DoStage, Enrolled, Done, Certified

\* create_session enrols the learner.
LEMMA CreateEnrols ==
  ASSUME Inv, [Next]_vars, NEW s \in Session, NEW l \in Learner, NEW m \in Mission,
         CreateSession(s, l, m)
  PROVE  Journey!Enrol(s, l, m)
<1>1. ~Exists(s) /\ sessions[s] = NoSession
  <2>1. ~Exists(s)
    BY BoundsAssumption DEF CreateSession, Session
  <2> QED BY <2>1 DEF Exists, Inv, TypeOK, SessionRow
<1>2. Enrolled[s] = Journey!Nobody
  BY <1>1 DEF Enrolled, NoSession, Journey!Nobody
<1>3. \A t \in Session : sessions'[t] =
        IF t = s THEN [status |-> "ACTIVE", learner |-> l, mission |-> m, current |-> 1]
        ELSE sessions[t]
  BY DEF CreateSession, Inv, TypeOK
<1>4. Enrolled' = [Enrolled EXCEPT ![s] = [learner |-> l, mission |-> m]]
  <2>1. \A t \in Session : Enrolled'[t] = IF t = s THEN [learner |-> l, mission |-> m]
                                         ELSE Enrolled[t]
    BY <1>3 DEF Enrolled
  <2>2. /\ Enrolled = [t \in Session |-> Enrolled[t]]
        /\ Enrolled' = [t \in Session |-> Enrolled'[t]]
    BY DEF Enrolled
  <2> HIDE DEF Enrolled
  <2> QED BY <2>1, <2>2
<1>5. Certified' = Certified
  BY <1>1, <1>3 DEF Certified, NoSession
<1>6. Done' = Done /\ mastery' = mastery
  <2>1. \A t \in Session, k \in Stage, a \in Artifacts : ~SubmitStage(t, k, a)
    BY DEF CreateSession, SubmitStage, Idle
  <2> QED BY <2>1, DoneUnlessSubmit DEF CreateSession
<1> QED BY <1>2, <1>4, <1>5, <1>6 DEF Journey!Enrol, Enrolled, Done, Certified

\* What the gate counts as satisfied, the journey has an answer for.
LEMMA PassedAnswered ==
  ASSUME Inv, EvidenceProvenance, NEW s \in Session, Exists(s)
  PROVE  Passed(Contract[MissionOf(s)], ClaimsOf(s), SubmittedStages(s))
           \subseteq Journey!Answered(sessions[s].learner, MissionOf(s))
<1> SUFFICES ASSUME NEW i \in Passed(Contract[MissionOf(s)], ClaimsOf(s), SubmittedStages(s))
             PROVE  i \in Journey!Answered(sessions[s].learner, MissionOf(s))
  OBVIOUS
<1>1. PICK t \in Session :
        /\ sessions[t].learner = sessions[s].learner /\ MissionOf(t) = MissionOf(s)
        /\ \E k \in SubmittedStages(t) : Matches(Contract[MissionOf(s)].criteria[i].stage, k)
  BY PassedWorked
<1> PICK k \in SubmittedStages(t) : Matches(Contract[MissionOf(s)].criteria[i].stage, k)
  BY <1>1
<1>2. k \in 1..Done[t] /\ Done[t] = Cardinality(SubmittedStages(t))
  BY DonePrefix DEF Done
<1>3. Enrolled[t] = [learner |-> sessions[s].learner, mission |-> MissionOf(s)]
  BY <1>1 DEF Enrolled, MissionOf
<1>4. k \in Journey!Covered(sessions[s].learner, MissionOf(s))
  BY <1>2, <1>3 DEF Journey!Covered, Enrolled, Done
<1>5. i \in DOMAIN Contract[MissionOf(s)].criteria
  BY DEF Passed
<1> QED BY <1>1, <1>4, <1>5 DEF Journey!Answered, Matches, Journey!Matches

LEMMA SameCardinality ==
  ASSUME NEW S
  PROVE  Journey!Cardinality(S) = Cardinality(S)
BY DEF Cardinality, Journey!Cardinality

LEMMA SameThreshold ==
  ASSUME NEW passed, NEW required, NEW threshold
  PROVE  MeetsPassThreshold(passed, required, threshold)
           = Journey!MeetsPassThreshold(passed, required, threshold)
BY DEF MeetsPassThreshold, Journey!MeetsPassThreshold

\* A gate that passes certifies an enrolment that deserves it; one that does not
\* changes nothing of the journey.
LEMMA GateCertifies ==
  ASSUME Inv, EvidenceProvenance, [Next]_vars, NEW s \in Session, EvaluateGate(s)
  PROVE  Journey!Certify(s) \/ UNCHANGED Journey!vars
<1>1. Exists(s)
  BY DEF EvaluateGate
<1>2. Done' = Done
  <2>1. \A t \in Session, k \in Stage, a \in Artifacts : ~SubmitStage(t, k, a)
    <3>1. busy'.event.type = "gate_evaluated"
      BY DEF EvaluateGate, Event
    <3>2. \A t \in Session, k \in Stage, a \in Artifacts :
            SubmitStage(t, k, a) => busy'.event.type = "stage_submitted"
      BY DEF SubmitStage, Event
    <3> QED BY <3>1, <3>2
  <2> QED BY <2>1, DoneUnlessSubmit
<1>3. CASE ~GatePasses(s)
  <2>1. sessions' = sessions /\ mastery' = mastery
    BY <1>3 DEF EvaluateGate
  <2> QED BY <1>2, <2>1 DEF Journey!vars, Done
<1>4. CASE GatePasses(s)
  <2> DEFINE l == sessions[s].learner
             m == MissionOf(s)
             C == Increments(Contract[m], ClaimsOf(s), SubmittedStages(s))
  <2>1. /\ sessions' = [sessions EXCEPT ![s].status = "COMPLETED"]
        /\ mastery' = [mastery EXCEPT ![l] = Raised(@, C)]
    BY <1>4 DEF EvaluateGate
  <2>2. /\ m \in Mission /\ l \in Learner
        /\ sessions[s] \in [status : {"ACTIVE", "COMPLETED"}, learner : Learner,
                            mission : Mission, current : Stage]
    BY <1>1, ExistsType DEF Inv
  <2>3. \A t \in Session : /\ sessions'[t].learner = sessions[t].learner
                           /\ sessions'[t].mission = sessions[t].mission
                           /\ sessions'[t].status =
                                IF t = s THEN "COMPLETED" ELSE sessions[t].status
    BY <2>1, <2>2 DEF Inv, TypeOK
  <2>4. Enrolled' = Enrolled /\ Certified' = Certified \cup {s}
    BY <2>3 DEF Enrolled, Certified
  <2>5. Enrolled[s].learner = l /\ Enrolled[s].mission = m /\ Enrolled[s] # Journey!Nobody
    BY <2>2, SentinelAssumption DEF Enrolled, Journey!Nobody, MissionOf
  <2>6. Journey!Deserved(l, m)
    <3>1. MeetsPassThreshold(Cardinality(Passed(Contract[m], ClaimsOf(s), SubmittedStages(s))),
                             Len(Contract[m].criteria), Contract[m].threshold)
      BY <1>4 DEF GatePasses, GateVerdict, Verdict
    <3>2. Journey!Answered(l, m) \subseteq DOMAIN Contract[m].criteria
      BY DEF Journey!Answered
    <3>3. MeetsPassThreshold(Cardinality(Journey!Answered(l, m)),
                             Len(Contract[m].criteria), Contract[m].threshold)
      BY <1>1, <2>2, <3>1, <3>2, PassedAnswered, ThresholdMonotone
    <3> QED BY <3>3, SameThreshold, SameCardinality DEF Journey!Deserved
  <2>7. C \in SUBSET {Contract[m].criteria[i].competency : i \in Journey!Answered(l, m)}
    <3> SUFFICES ASSUME NEW c \in C
                 PROVE  \E i \in Journey!Answered(l, m) : Contract[m].criteria[i].competency = c
      OBVIOUS
    <3>1. PICK i \in Passed(Contract[m], ClaimsOf(s), SubmittedStages(s)) :
            Contract[m].criteria[i].competency = c
      BY DEF Increments
    <3> QED BY <1>1, <3>1, PassedAnswered
  <2>8. mastery' = [mastery EXCEPT ![l] =
          [c \in Competency |-> IF c \in C /\ @[c] < MaxLevel THEN @[c] + 1 ELSE @[c]]]
    BY <2>1 DEF Raised
  <2> HIDE DEF C, l, m
  <2>9. \E D \in SUBSET {Contract[Enrolled[s].mission].criteria[i].competency :
                 i \in Journey!Answered(Enrolled[s].learner, Enrolled[s].mission)} :
          mastery' = [mastery EXCEPT ![Enrolled[s].learner] =
            [c \in Competency |-> IF c \in D /\ @[c] < MaxLevel THEN @[c] + 1 ELSE @[c]]]
    <3>1. C \in SUBSET {Contract[Enrolled[s].mission].criteria[i].competency :
                 i \in Journey!Answered(Enrolled[s].learner, Enrolled[s].mission)}
      BY <2>5, <2>7
    <3>2. mastery' = [mastery EXCEPT ![Enrolled[s].learner] =
            [c \in Competency |-> IF c \in C /\ @[c] < MaxLevel THEN @[c] + 1 ELSE @[c]]]
      BY <2>5, <2>8
    <3> QED BY <3>1, <3>2, Zenon
  <2>10. Journey!Deserved(Enrolled[s].learner, Enrolled[s].mission)
    BY <2>5, <2>6
  <2>11. Journey!Certify(s)
    BY <1>2, <2>4, <2>5, <2>9, <2>10 DEF Journey!Certify, Enrolled, Done, Certified
  <2> QED BY <2>11
<1> QED BY <1>3, <1>4

(***************************************************************************)
(* The session runtime implements MissionJourney, for any missions and     *)
(* contracts: create_session enrols, submit_stage does the next stage, a   *)
(* passing evaluate_gate certifies, and every other step, the crashes      *)
(* included, is invisible.                                                 *)
(***************************************************************************)
THEOREM ImplementsJourneyHolds == Spec => ImplementsJourney
<1>1. Init => Journey!Init
  <2> SUFFICES ASSUME Init PROVE Journey!Init
    OBVIOUS
  <2>1. \A s \in Session : SubmittedStages(s) = {}
    BY DEF Init, SubmittedStages, NoAttempt
  <2>2. Cardinality({}) = 0
    BY FS_EmptySet
  <2> QED BY <2>1, <2>2 DEF Init, NoSession, Journey!Init, Journey!Nobody
<1>2. Inv /\ Inv' /\ EvidenceProvenance /\ [Next]_vars => [Journey!Next]_(Journey!vars)
  <2> SUFFICES ASSUME Inv, Inv', EvidenceProvenance, [Next]_vars
               PROVE  Journey!Next \/ UNCHANGED Journey!vars
    OBVIOUS
  <2>1. ASSUME NEW s \in Session, NEW l \in Learner, NEW m \in Mission, CreateSession(s, l, m)
        PROVE  Journey!Next
    BY <2>1, CreateEnrols DEF Journey!Next
  <2>2. ASSUME NEW s \in Session, NEW k \in Stage, NEW a \in Artifacts, SubmitStage(s, k, a)
        PROVE  Journey!Next
    BY <2>2, SubmitDoesStage DEF Journey!Next
  <2>3. ASSUME NEW s \in Session, EvaluateGate(s)
        PROVE  Journey!Next \/ UNCHANGED Journey!vars
    BY <2>3, GateCertifies DEF Journey!Next
  <2>4. ASSUME sessions' = sessions, mastery' = mastery,
               \A s \in Session, k \in Stage, a \in Artifacts : ~SubmitStage(s, k, a)
        PROVE  UNCHANGED Journey!vars
    BY <2>4, DoneUnlessSubmit DEF Journey!vars, Done
  <2>5. CASE \/ \E s \in Session, k \in Stage :
                  EnterStage(s, k) \/ (\E h \in Hypothesis : CommitPrediction(s, k, h))
                    \/ SendToWorker(s, k)
             \/ RecordExecution \/ RecordActivity \/ Abandon \/ UNCHANGED vars
    <3>1. sessions' = sessions /\ mastery' = mastery
      BY <2>5 DEF EnterStage, CommitPrediction, SendToWorker, RecordExecution,
         RecordActivity, Abandon, vars
    <3> QED BY <2>2, <2>4, <3>1
  <2> QED BY <2>1, <2>2, <2>3, <2>5 DEF Next
<1> QED BY ProvenanceCorrect, <1>1, <1>2, PTL DEF Spec, ImplementsJourney, Journey!Spec

-----------------------------------------------------------------------------
(* Today                                                                   *)

\* The orders the dispatcher chooses by have an end.
LEMMA LeastOf ==
  ASSUME NEW S, S \subseteq Nat, S # {}
  PROVE  \E x \in S : \A y \in S : x <= y
<1>1. \E x \in S : \A y \in S : ~ (<<y, x>> \in OpToRel(<, Nat))
  BY NatLessThanWellFounded, WFMin
<1>2. PICK x \in S : \A y \in S : ~ (y < x)
  BY <1>1 DEF OpToRel
<1> QED BY <1>2

LEMMA LatestOf ==
  ASSUME NEW S, S \subseteq Session, S # {}
  PROVE  \E x \in S : \A y \in S : y <= x
<1>1. /\ MaxSessions \in Nat
      /\ \A x \in S : x \in Nat /\ MaxSessions - x \in Nat
  BY BoundsAssumption DEF Session
<1>2. PICK n \in {MaxSessions - x : x \in S} : \A m \in {MaxSessions - x : x \in S} : n <= m
  BY <1>1, LeastOf
<1>3. PICK x \in S : n = MaxSessions - x
  BY <1>2
<1>4. \A y \in S : MaxSessions - x <= MaxSessions - y
  BY <1>2, <1>3
<1> QED BY <1>1, <1>4

(***************************************************************************)
(* submit_stage opens the next stage in the same commit, so a session that *)
(* waits at a SUBMITTED stage is at its last one.  PipelineOrder does not  *)
(* say so; with it, the claim is inductive.                                *)
(***************************************************************************)
WaitsAtLast ==
  \A s \in Session :
     Exists(s) /\ attempts[s][sessions[s].current].status = "SUBMITTED" =>
       sessions[s].current = NumStages[MissionOf(s)]

LEMMA WaitsInit == Init => WaitsAtLast
BY DEF Init, NoSession, Exists, WaitsAtLast

\* Only submit_stage moves a session on.
LEMMA CurrentMoved ==
  ASSUME Inv, [Next]_vars, NEW s \in Session, Exists(s),
         \A k \in Stage, a \in Artifacts : ~SubmitStage(s, k, a)
  PROVE  sessions'[s].current = sessions[s].current
<1> USE DEF Inv, TypeOK
<1>1. ASSUME NEW t \in Session, NEW l \in Learner, NEW m \in Mission, CreateSession(t, l, m)
      PROVE  sessions'[s] = sessions[s]
  <2>1. t # s
    BY <1>1, BoundsAssumption DEF CreateSession, Session
  <2> QED BY <1>1, <2>1 DEF CreateSession
<1>2. ASSUME NEW t \in Session, NEW j \in Stage, NEW a \in Artifacts, SubmitStage(t, j, a)
      PROVE  sessions'[s] = sessions[s]
  <2>1. t # s
    BY <1>2
  <2> QED BY <1>2, <2>1 DEF SubmitStage
<1>3. ASSUME NEW t \in Session, EvaluateGate(t)
      PROVE  sessions'[s].current = sessions[s].current
  <2>1. sessions' = sessions \/ sessions' = [sessions EXCEPT ![t].status = "COMPLETED"]
    BY <1>3 DEF EvaluateGate
  <2> QED BY <2>1, ExistsType DEF Exists
<1>4. ASSUME NEW t \in Session, NEW j \in Stage
      PROVE  /\ EnterStage(t, j) => sessions' = sessions
             /\ \A h \in Hypothesis : CommitPrediction(t, j, h) => sessions' = sessions
             /\ SendToWorker(t, j) => sessions' = sessions
  BY DEF EnterStage, CommitPrediction, SendToWorker
<1>5. RecordExecution \/ RecordActivity \/ Abandon \/ UNCHANGED vars => sessions' = sessions
  BY DEF RecordExecution, RecordActivity, Abandon, vars
<1> QED BY <1>1, <1>2, <1>3, <1>4, <1>5 DEF Next

\* A submission opens the next stage, or there is none.
LEMMA SubmitOpensNext ==
  ASSUME Inv, NEW s \in Session, NEW k \in Stage, NEW a \in Artifacts, SubmitStage(s, k, a),
         attempts'[s][sessions'[s].current].status = "SUBMITTED"
  PROVE  k = NumStages[MissionOf(s)] /\ sessions'[s].current = k
<1>1. /\ Exists(s) /\ k = sessions[s].current /\ k <= NumStages[MissionOf(s)]
      /\ NumStages[MissionOf(s)] \in Stage
  BY CurrentType, NumStagesAssumption DEF SubmitStage, StageIsCurrent, Mutable, Exists
<1>2. k \in Nat /\ NumStages[MissionOf(s)] \in Nat /\ NumStages[MissionOf(s)] <= MaxStages
  BY <1>1, BoundsAssumption DEF Stage
<1>3. CASE k < NumStages[MissionOf(s)]
  <2>1. NextStage(MissionOf(s), k) = k + 1 /\ k + 1 # 0 /\ k + 1 \in Stage
    BY <1>2, <1>3, BoundsAssumption DEF NextStage, Stage
  <2>2. sessions' = [sessions EXCEPT ![s].current = k + 1]
    BY <2>1 DEF SubmitStage
  <2>3. sessions'[s].current = k + 1
    BY <1>1, <2>2, ExistsType DEF Inv, TypeOK
  <2>4. attempts'[s][k + 1] = EnsureReady(attempts[s][k + 1])
    BY <1>2, <2>1 DEF SubmitStage, Inv, TypeOK
  <2>5. attempts[s][k + 1] = NoAttempt
    BY <1>1, <1>2, <2>1 DEF Inv, PipelineOrder, InOrder
  <2>6. EnsureReady(NoAttempt).status = "READY"
    BY DEF EnsureReady, NoAttempt
  <2> QED BY <2>3, <2>4, <2>5, <2>6
<1>4. CASE k = NumStages[MissionOf(s)]
  <2>1. NextStage(MissionOf(s), k) = 0
    BY <1>2, <1>4 DEF NextStage
  <2>2. sessions' = [sessions EXCEPT ![s].current = sessions[s].current]
    BY <2>1 DEF SubmitStage
  <2> QED BY <1>1, <1>4, <2>2, ExistsType DEF Inv, TypeOK
<1> QED BY <1>1, <1>2, <1>3, <1>4

LEMMA WaitsNext ==
  ASSUME Inv, Inv', WaitsAtLast, [Next]_vars
  PROVE  WaitsAtLast'
<1> SUFFICES ASSUME NEW s \in Session, Exists(s)',
                    attempts'[s][sessions'[s].current].status = "SUBMITTED"
             PROVE  sessions'[s].current = NumStages[MissionOf(s)']
  BY DEF WaitsAtLast
<1>1. sessions'[s].current \in Stage
  BY DEF Inv, TypeOK, SessionRow, NoSession, Exists
<1>2. CASE \E k \in Stage, a \in Artifacts : SubmitStage(s, k, a)
  <2>1. PICK k \in Stage, a \in Artifacts : SubmitStage(s, k, a)
    BY <1>2
  <2>2. Exists(s)
    BY <2>1 DEF SubmitStage, Mutable, Exists
  <2> QED BY <2>1, <2>2, SubmitOpensNext, RowKept
<1>3. CASE \A k \in Stage, a \in Artifacts : ~SubmitStage(s, k, a)
  <2>1. attempts[s][sessions'[s].current].status = "SUBMITTED"
    BY <1>1, <1>3, OnlySubmitSubmits
  <2>2. Exists(s)
    BY <1>1, <2>1, SubmittedKept DEF SubmittedStages
  <2> QED BY <1>3, <2>1, <2>2, CurrentMoved, RowKept DEF WaitsAtLast
<1> QED BY <1>2, <1>3

\* The session the dispatcher looks at is an ACTIVE one of the learner.
LEMMA LooksAtActive ==
  ASSUME NEW l \in Learner, SessionsOf(l, "ACTIVE") # {}
  PROVE  \E s \in SessionsOf(l, "ACTIVE") : NextAction(l) = SessionAction(s)
<1> DEFINE active == SessionsOf(l, "ACTIVE")
<1>1. active \subseteq Session
  BY DEF SessionsOf
<1>2. \E s \in active : \A t \in active : t <= s
  BY <1>1, LatestOf
<1>3. (CHOOSE s \in active : \A t \in active : t <= s) \in active
  BY <1>2
<1> QED BY <1>3 DEF NextAction

\* Actions of its own: a session never starts a mission.
LEMMA SessionActionIs ==
  ASSUME NEW s \in Session
  PROVE  /\ SessionAction(s).action \in {"ENTER_STAGE", "EVALUATE_GATE", "CONTINUE_STAGE"}
         /\ SessionAction(s).session = s
BY DEF SessionAction, Recommend

LEMMA MissionActionIs ==
  ASSUME NEW l
  PROVE  MissionAction(l).action \in {"START_MISSION", "IDLE"}
BY DEF MissionAction, Recommend

\* What is recommended for an ACTIVE session is accepted.
LEMMA SessionActionAccepted ==
  ASSUME Inv, WaitsAtLast, NEW s \in Session, Mutable(s)
  PROVE  Accepted(SessionAction(s))
<1> DEFINE m == MissionOf(s)
           k == sessions[s].current
           status == attempts[s][k].status
<1>1. Exists(s) /\ m \in Mission /\ k \in 1..NumStages[m] /\ k \in Stage
  BY CurrentType DEF Mutable, Exists
<1>2. k \in Nat /\ NumStages[m] \in Nat /\ k <= NumStages[m]
  BY <1>1, NumStagesAssumption DEF Stage
<1>3. StageIsCurrent(s, k)
  BY <1>2 DEF StageIsCurrent
<1>4. CASE status = "SUBMITTED"
  <2>1. NextStage(m, k) = 0
    BY <1>1, <1>2, <1>4 DEF WaitsAtLast, NextStage
  <2>2. SessionAction(s) = Recommend("EVALUATE_GATE", "GATE_PENDING", m, s, k)
    BY <1>4, <2>1 DEF SessionAction
  <2> QED BY <2>2 DEF Accepted, Recommend
<1>5. CASE status # "SUBMITTED"
  <2>1. SessionAction(s) \in {Recommend("CONTINUE_STAGE", "STAGE_IN_PROGRESS", m, s, k),
                              Recommend("ENTER_STAGE", "CURRENT_SESSION_STAGE", m, s, k)}
    BY <1>5 DEF SessionAction
  <2> QED BY <1>3, <1>5, <2>1 DEF Accepted, Recommend
<1> QED BY <1>4, <1>5

LEMMA NextActionAccepted ==
  ASSUME Inv, WaitsAtLast, NEW l \in Learner
  PROVE  Accepted(NextAction(l))
<1>1. CASE SessionsOf(l, "ACTIVE") # {}
  <2>1. PICK s \in SessionsOf(l, "ACTIVE") : NextAction(l) = SessionAction(s)
    BY <1>1, LooksAtActive
  <2>2. s \in Session /\ Mutable(s)
    BY DEF SessionsOf, Mutable
  <2> QED BY <2>1, <2>2, SessionActionAccepted
<1>2. CASE SessionsOf(l, "ACTIVE") = {}
  <2>1. NextAction(l) = MissionAction(l)
    BY <1>2 DEF NextAction
  <2> QED BY <2>1, MissionActionIs DEF Accepted
<1> QED BY <1>1, <1>2

(***************************************************************************)
(* Whatever learners call, in any catalog and with any contracts, the next *)
(* action of project_today (projection.py) is one the handlers accept.     *)
(***************************************************************************)
THEOREM RecommendationAcceptedHolds == Spec => []RecommendationAccepted
<1>1. Inv /\ WaitsAtLast => RecommendationAccepted
  BY NextActionAccepted DEF RecommendationAccepted
<1> QED BY InvCorrect, WaitsInit, WaitsNext, <1>1, PTL DEF Spec

-----------------------------------------------------------------------------
(* The spine                                                               *)

\* A recommended mission is one that the learner has not done and may start.
LEMMA RecommendsStartable ==
  ASSUME NEW l \in Learner, NextAction(l).action = "START_MISSION"
  PROVE  /\ SessionsOf(l, "ACTIVE") = {}
         /\ NextAction(l).mission \in Mission
         /\ NextAction(l).mission \notin CompletedMissions(l)
         /\ Unlocked(NextAction(l).mission, CompletedMissions(l))
<1>1. SessionsOf(l, "ACTIVE") = {}
  BY LooksAtActive, SessionActionIs DEF SessionsOf
<1>2. NextAction(l) = MissionAction(l)
  BY <1>1 DEF NextAction
<1>3. Startable(l) # {}
  BY <1>2 DEF MissionAction, Recommend
<1> DEFINE i == CHOOSE j \in Startable(l) : \A h \in Startable(l) : j <= h
<1>4. i \in Startable(l)
  <2>1. Startable(l) \subseteq Nat
    BY CatalogAssumption DEF Startable
  <2>2. \E j \in Startable(l) : \A h \in Startable(l) : j <= h
    BY <1>3, <2>1, LeastOf
  <2> QED BY <2>2
<1>5. NextAction(l).mission = Catalog[i]
  BY <1>2, <1>3 DEF MissionAction, Recommend
<1> HIDE DEF i
<1>6. Catalog[i] \in Mission
  BY <1>4, CatalogAssumption DEF Startable
<1> QED BY <1>1, <1>4, <1>5, <1>6 DEF Startable

\* What is recommended for a session is about an ACTIVE session of the learner.
LEMMA RecommendsSession ==
  ASSUME NEW l \in Learner, NextAction(l).action \notin {"START_MISSION", "IDLE"}
  PROVE  NextAction(l).session \in Session /\ Mutable(NextAction(l).session)
<1>1. SessionsOf(l, "ACTIVE") # {}
  BY MissionActionIs DEF NextAction
<1> QED BY <1>1, LooksAtActive, SessionActionIs DEF SessionsOf, Mutable

\* A step of the follower is one of the handlers', and other calls than that of
\* the recommended mission create no session.
LEMMA FollowNextIs ==
  ASSUME Inv, FollowNext
  PROVE  /\ Next
         /\ \/ \E l \in Learner, s \in Session :
                  /\ NextAction(l).action = "START_MISSION"
                  /\ CreateSession(s, l, NextAction(l).mission)
            \/ \A s \in Session : Exists(s)' => Exists(s)
<1> DEFINE Same == \A s \in Session : Exists(s)' => Exists(s)
           Created == \E l \in Learner, s \in Session :
                        /\ NextAction(l).action = "START_MISSION"
                        /\ CreateSession(s, l, NextAction(l).mission)
<1>1. ASSUME NEW l \in Learner, Start(l)
      PROVE  Next /\ Created
  BY <1>1, RecommendsStartable DEF Start, Next
<1>2. ASSUME NEW l \in Learner, Enter(l)
      PROVE  Next /\ Same
  <2> DEFINE s == NextAction(l).session
             k == NextAction(l).stage
  <2>1. s \in Session /\ EnterStage(s, k) /\ k \in Stage
    BY <1>2, RecommendsSession, CurrentType DEF Enter, EnterStage, StageIsCurrent, Mutable, Exists
  <2> HIDE DEF s, k
  <2> QED BY <2>1 DEF Next, EnterStage, Exists
<1>3. ASSUME NEW l \in Learner, Work(l)
      PROVE  Next /\ Same
  <2> DEFINE s == NextAction(l).session
             k == NextAction(l).stage
  <2>1. /\ s \in Session /\ Mutable(s)
        /\ (\E h \in Hypothesis : CommitPrediction(s, k, h)) \/ SendToWorker(s, k)
    BY <1>3, RecommendsSession DEF Work
  <2>2. k \in Stage
    BY <2>1, CurrentType DEF CommitPrediction, SendToWorker, StageIsCurrent, Mutable, Exists
  <2> HIDE DEF s, k
  <2> QED BY <2>1, <2>2 DEF Next, CommitPrediction, SendToWorker, Exists
<1>4. ASSUME NEW l \in Learner, Submit(l)
      PROVE  Next /\ Same
  <2> DEFINE s == NextAction(l).session
             k == NextAction(l).stage
  <2>1. PICK a \in Artifacts : SubmitStage(s, k, a)
    BY <1>4 DEF Submit
  <2>2. s \in Session /\ Mutable(s) /\ k \in Stage
    BY <1>4, <2>1, RecommendsSession, CurrentType
       DEF Submit, SubmitStage, StageIsCurrent, Mutable, Exists
  <2> HIDE DEF s, k
  <2>3. PICK x : sessions' = [sessions EXCEPT ![s].current = x]
    BY <2>1 DEF SubmitStage
  <2>4. \A t \in Session : t # s => sessions'[t] = sessions[t]
    BY <2>3 DEF Inv, TypeOK
  <2>5. Exists(s)
    BY <2>2 DEF Mutable, Exists
  <2> QED BY <2>1, <2>2, <2>4, <2>5 DEF Next, Exists
<1>5. ASSUME NEW l \in Learner, Evaluate(l)
      PROVE  Next /\ Same
  <2> DEFINE s == NextAction(l).session
  <2>1. s \in Session /\ EvaluateGate(s) /\ Mutable(s)
    BY <1>5, RecommendsSession DEF Evaluate
  <2> HIDE DEF s
  <2>2. \A t \in Session : t # s => sessions'[t] = sessions[t]
    BY <2>1 DEF EvaluateGate, Inv, TypeOK
  <2>3. Exists(s)
    BY <2>1 DEF Mutable, Exists
  <2> QED BY <2>1, <2>2, <2>3 DEF Next, Exists
<1>6. CASE RecordExecution \/ RecordActivity \/ Abandon
  BY <1>6 DEF Next, RecordExecution, RecordActivity, Abandon, Exists
<1> QED BY <1>1, <1>2, <1>3, <1>4, <1>5, <1>6 DEF FollowNext

\* What is completed stays completed, and nothing but a gate changes a status.
LEMMA CompletedGrows ==
  ASSUME Inv, [Next]_vars, NEW l
  PROVE  CompletedMissions(l) \subseteq CompletedMissions(l)'
<1> SUFFICES ASSUME NEW s \in SessionsOf(l, "COMPLETED")
             PROVE  MissionOf(s) \in CompletedMissions(l)'
  BY DEF CompletedMissions
<1>1. s \in Session /\ sessions[s].status = "COMPLETED" /\ sessions[s].learner = l
  BY DEF SessionsOf
<1>2. sessions'[s] = sessions[s]
  BY <1>1, CompletedKept
<1> QED BY <1>1, <1>2 DEF CompletedMissions, SessionsOf, MissionOf

LEMMA StatusGoesOn ==
  ASSUME Inv, [Next]_vars, NEW s \in Session, Exists(s), sessions'[s].status = "ACTIVE"
  PROVE  sessions[s].status = "ACTIVE"
<1>1. sessions[s].status \in {"ACTIVE", "COMPLETED"}
  BY ExistsType DEF Inv
<1> QED BY <1>1, CompletedKept

\* Two sessions of the spine.
Apart(s, t) ==
  Exists(s) /\ Exists(t) /\ s # t /\ sessions[s].learner = sessions[t].learner =>
    /\ MissionOf(s) # MissionOf(t)
    /\ ~(sessions[s].status = "ACTIVE" /\ sessions[t].status = "ACTIVE")

Ready(s) ==
  Exists(s) => Blocking[MissionOf(s)] \cap Mission \subseteq CompletedMissions(sessions[s].learner)

LEMMA SpineParts == SpineRespected <=> \A s \in Session : Ready(s) /\ \A t \in Session : Apart(s, t)
<1>1. \A x, y : {x, y} # {"ACTIVE"} <=> ~(x = "ACTIVE" /\ y = "ACTIVE")
  OBVIOUS
<1> QED BY <1>1 DEF SpineRespected, Ready, Apart

LEMMA ReadyKept ==
  ASSUME Inv, [Next]_vars, NEW s \in Session, Exists(s), Ready(s)
  PROVE  Ready(s)'
BY RowKept, CompletedGrows DEF Ready

LEMMA ApartKept ==
  ASSUME Inv, [Next]_vars, NEW s \in Session, NEW t \in Session, Exists(s), Exists(t), Apart(s, t)
  PROVE  Apart(s, t)'
BY RowKept, StatusGoesOn DEF Apart

\* A session that Today recommended is apart from every other one.
LEMMA CreatedApart ==
  ASSUME Inv, [Next]_vars, NEW l \in Learner, NEW s \in Session,
         NextAction(l).action = "START_MISSION", CreateSession(s, l, NextAction(l).mission)
  PROVE  /\ Ready(s)'
         /\ \A t \in Session : Apart(s, t)' /\ Apart(t, s)'
         /\ \A t \in Session : t # s => (Exists(t)' <=> Exists(t))
<1> DEFINE m == NextAction(l).mission
<1>1. /\ SessionsOf(l, "ACTIVE") = {} /\ m \in Mission /\ m \notin CompletedMissions(l)
      /\ Blocking[m] \cap Mission \subseteq CompletedMissions(l)
  BY RecommendsStartable DEF Unlocked
<1> HIDE DEF m
<1>2. sessions' = [sessions EXCEPT ![s] =
         [status |-> "ACTIVE", learner |-> l, mission |-> m, current |-> 1]]
  BY DEF CreateSession, m
<1>3. /\ sessions'[s].learner = l /\ sessions'[s].mission = m
      /\ \A t \in Session : t # s => sessions'[t] = sessions[t]
  BY <1>2 DEF Inv, TypeOK
<1>4. Ready(s)'
  BY <1>1, <1>3, CompletedGrows DEF Ready, MissionOf
<1>5. ASSUME NEW t \in Session, t # s, Exists(t), sessions[t].learner = l
      PROVE  sessions[t].mission # m /\ sessions[t].status # "ACTIVE"
  <2>1. sessions[t].status # "ACTIVE"
    BY <1>1, <1>5 DEF SessionsOf
  <2>2. sessions[t].status = "COMPLETED"
    BY <1>5, <2>1, ExistsType DEF Inv
  <2> QED BY <1>1, <1>5, <2>1, <2>2 DEF CompletedMissions, SessionsOf, MissionOf
<1> QED BY <1>3, <1>4, <1>5 DEF Apart, Exists, MissionOf

(***************************************************************************)
(* Following Today respects the spine, for any catalog whose blocking      *)
(* prerequisites come earlier (project_today and mission_unlocked): one    *)
(* ACTIVE session at a time, one session per mission, and nothing started  *)
(* before what blocks it is completed.                                     *)
(***************************************************************************)
THEOREM SpineRespectedHolds == FollowSpec => []SpineRespected
<1>1. Init => SpineRespected
  BY DEF Init, NoSession, Exists, SpineRespected
<1>2. Inv /\ SpineRespected /\ [FollowNext]_vars => SpineRespected'
  <2> SUFFICES ASSUME Inv, SpineRespected, [FollowNext]_vars
               PROVE  \A s \in Session : Ready(s)' /\ \A t \in Session : Apart(s, t)'
    <3>1. SpineRespected' <=> (\A s \in Session : Ready(s) /\ \A t \in Session : Apart(s, t))'
      BY SpineParts, PTL
    <3> QED BY <3>1
  <2>1. \A s, t \in Session : Ready(s) /\ Apart(s, t)
    BY SpineParts
  <2>2. [Next]_vars
    BY FollowNextIs
  <2>3. CASE \A s \in Session : Exists(s)' => Exists(s)
    BY <2>1, <2>2, <2>3, ReadyKept, ApartKept DEF Ready, Apart
  <2>4. ASSUME NEW l \in Learner, NEW u \in Session, NextAction(l).action = "START_MISSION",
               CreateSession(u, l, NextAction(l).mission), NEW s \in Session
        PROVE  Ready(s)' /\ \A t \in Session : Apart(s, t)'
    <3>1. CASE s = u
      BY <2>2, <2>4, <3>1, CreatedApart
    <3>2. CASE s # u
      <4>1. \A t \in Session : t # u => (Exists(t)' <=> Exists(t))
        BY <2>2, <2>4, CreatedApart
      <4>2. Ready(s)'
        BY <2>1, <2>2, <3>2, <4>1, ReadyKept DEF Ready
      <4>3. ASSUME NEW t \in Session PROVE Apart(s, t)'
        <5>1. CASE t = u
          BY <2>2, <2>4, <5>1, CreatedApart
        <5>2. CASE t # u
          BY <2>1, <2>2, <3>2, <4>1, <5>2, ApartKept DEF Apart
        <5> QED BY <5>1, <5>2
      <4> QED BY <4>2, <4>3
    <3> QED BY <3>1, <3>2
  <2>5. CASE UNCHANGED vars
    BY <2>1, <2>2, <2>5, ReadyKept, ApartKept DEF Ready, Apart, Exists, vars
  <2> QED BY <2>3, <2>4, <2>5, FollowNextIs
<1>3. Init /\ [][FollowNext]_vars => []Inv
  <2>1. Inv /\ [FollowNext]_vars => Inv'
    BY FollowNextIs, StepTypeOK, StepPipelineOrder, StepWorkerHoldsStage, StepPredictionSealed DEF Inv
  <2> QED BY InitInv, <2>1, PTL
<1> QED BY <1>1, <1>2, <1>3, PTL DEF FollowSpec
=============================================================================
