--------------------------- MODULE SessionRuntime ---------------------------
(***************************************************************************)
(* The mission player's server side: mission sessions, the attempt of each *)
(* stage, sealed predictions, executions, evidence, the competency gate    *)
(* and mastery levels (platform/backend/app/api/runtime.py, core/gates.py, *)
(* core/evidence.py and the session handler of api/routes.py).             *)
(*                                                                         *)
(* One backend process owns the database.  Its handlers are coroutines     *)
(* with synchronous bodies, so they run one at a time; each commits one    *)
(* SQLite transaction.  Two of them do more than one atomic step, and      *)
(* `busy` is the handler that is half way:                                 *)
(*   - execute_stage checks its guards, then blocks on the worker, then    *)
(*     inserts the execution;                                              *)
(*   - submit_stage and evaluate_gate commit, then append an event to the  *)
(*     learning ledger in a transaction of its own, whose failure          *)
(*     record_activity swallows.                                           *)
(* The process may die between the two halves: what was committed stays,   *)
(* the rest is lost.                                                       *)
(*                                                                         *)
(* A call the code answers with an error, or answers again without writing *)
(* (entering an ACTIVE stage, sealing the same prediction twice, submitting*)
(* a SUBMITTED stage), leaves the database alone and is a stuttering step. *)
(*                                                                         *)
(* Stages are named by their position in the mission's stages list, and    *)
(* the mission specifications do not change while sessions run.            *)
(***************************************************************************)
EXTENDS GateContract

CONSTANTS
  Learner, Mission, Competency, Kind,
  Hypothesis,    \* contents of a prediction, up to its canonical SHA-256
  MaxSessions,   \* bound: sessions ever created
  MaxStages,     \* length of the longest mission
  NumStages,     \* [Mission -> 1..MaxStages]
  Experiments,   \* [Mission -> SUBSET Stage]: the stages of type "experiment"
  Contract,      \* [Mission -> gate contract]
  Noded,         \* the missions that list a knowledge node
  Artifacts,     \* the artifact lists a learner may attach to a submission
  NoPrediction   \* an attempt without a sealed prediction

Session == 1..MaxSessions     \* in the order of their rowids
Stage   == 1..MaxStages
MaxLevel == 5

Criterion == [stage : Nat \cup {Unset}, competency : Competency \cup {Unset},
              kind : Kind \cup {Unset}, node : BOOLEAN]
Artifact  == [competency : Competency \cup {Unset}, kind : Kind \cup {Unset}, node : BOOLEAN]

ASSUME BoundsAssumption == MaxSessions \in Nat /\ MaxStages \in Nat
ASSUME NumStagesAssumption == NumStages \in [Mission -> Stage]
ASSUME ExperimentsAssumption == Experiments \in [Mission -> SUBSET Stage]
ASSUME ContractAssumption ==
  /\ DOMAIN Contract = Mission
  /\ \A m \in Mission :
       /\ Contract[m].criteria \in Seq(Criterion)
       /\ Contract[m].threshold \in Int
       /\ Contract[m].repair \in BOOLEAN
ASSUME ArtifactsAssumption == \A a \in Artifacts : a \subseteq Artifact
ASSUME SentinelAssumption ==
  /\ NoPrediction \notin Hypothesis
  /\ Unset \notin Competency \cup Mission
  /\ "explanation" \in Kind

VARIABLES
  sessions,   \* [Session -> row of mission_sessions]; status "ABSENT": no row
  attempts,   \* [Session -> [Stage -> row of stage_attempts with its children]]
  evidence,   \* rows of evidence_items
  mastery,    \* [Learner -> [Competency -> 0..MaxLevel]]; 0: no row
  activity,   \* the events in the learning ledger
  busy        \* the handler that is half way, or Idle

vars == <<sessions, attempts, evidence, mastery, activity, busy>>

AttemptStatus == {"NONE", "READY", "ACTIVE", "SUBMITTED"}

\* A stage has at most one attempt: insert_attempt is only reached when
\* latest_attempt found nothing.  runs is the set of predictions that were
\* sealed when code was sent to the worker, one per recorded execution.
NoAttempt == [status |-> "NONE", prediction |-> NoPrediction, runs |-> {}]

NoSession == [status |-> "ABSENT", learner |-> Unset, mission |-> Unset, current |-> 0]

Idle == [op |-> "idle"]
Event(type, s, k, status) ==
  [type |-> type, session |-> s, stage |-> k, status |-> status]

-----------------------------------------------------------------------------
(* Guards and helpers                                                      *)

Exists(s)    == sessions[s].status # "ABSENT"
MissionOf(s) == sessions[s].mission

Mutant_MutableAny(s) == Exists(s)
Mutable(s) == sessions[s].status = "ACTIVE"

NextStage(m, k) == IF k < NumStages[m] THEN k + 1 ELSE 0

\* get_stage raises 404 for a stage the mission does not have, and
\* assert_stage_is_current 409 for any other stage than the current one.
Mutant_AnyStage(s, k) == k <= NumStages[MissionOf(s)]
StageIsCurrent(s, k) ==
  /\ k <= NumStages[MissionOf(s)]
  /\ k = sessions[s].current

EnsureReady(attempt) ==
  IF attempt.status = "NONE" THEN [attempt EXCEPT !.status = "READY"] ELSE attempt

SubmittedStages(s) == {k \in Stage : attempts[s][k].status = "SUBMITTED"}

\* The claims the gate of session s sees: the learner's, for this mission,
\* from whatever session.
Mutant_ClaimsOfAnyone(s) == {e \in evidence : e.mission = MissionOf(s)}
ClaimsOf(s) ==
  {e \in evidence :
      e.learner = sessions[s].learner /\ e.mission = MissionOf(s)}

GateVerdict(s) ==
  Verdict(Contract[MissionOf(s)], ClaimsOf(s), SubmittedStages(s))

Mutant_GatePassesOnRepair(s) == GateVerdict(s) \in {"PASSED", "REPAIR_REQUIRED"}
GatePasses(s) == GateVerdict(s) = "PASSED"

Raised(levels, competencies) ==
  [c \in Competency |->
     IF c \in competencies /\ levels[c] < MaxLevel THEN levels[c] + 1 ELSE levels[c]]

-----------------------------------------------------------------------------
(* Handlers                                                                *)

CreateSession(s, learner, m) ==
  /\ busy = Idle
  /\ \A t \in Session : Exists(t) <=> t < s
  /\ sessions' = [sessions EXCEPT ![s] =
       [status |-> "ACTIVE", learner |-> learner, mission |-> m, current |-> 1]]
  /\ attempts' = [attempts EXCEPT ![s][1] = EnsureReady(@)]
  /\ UNCHANGED <<evidence, mastery, activity, busy>>

Mutant_EnterAgain(s, k) ==
  /\ busy = Idle
  /\ Mutable(s)
  /\ StageIsCurrent(s, k)
  /\ attempts' = [attempts EXCEPT ![s][k].status = "ACTIVE"]
  /\ UNCHANGED <<sessions, evidence, mastery, activity, busy>>
EnterStage(s, k) ==
  /\ busy = Idle
  /\ Mutable(s)
  /\ StageIsCurrent(s, k)
  /\ attempts[s][k].status \in {"NONE", "READY"}
  /\ attempts' = [attempts EXCEPT ![s][k].status = "ACTIVE"]
  /\ UNCHANGED <<sessions, evidence, mastery, activity, busy>>

\* A sealed prediction is answered again or refused, never replaced.
Mutant_Reseal(s, k, hypothesis) ==
  /\ busy = Idle
  /\ Mutable(s)
  /\ StageIsCurrent(s, k)
  /\ attempts[s][k].status = "ACTIVE"
  /\ attempts' = [attempts EXCEPT ![s][k].prediction = hypothesis]
  /\ UNCHANGED <<sessions, evidence, mastery, activity, busy>>
CommitPrediction(s, k, hypothesis) ==
  /\ busy = Idle
  /\ Mutable(s)
  /\ StageIsCurrent(s, k)
  /\ attempts[s][k].status = "ACTIVE"
  /\ attempts[s][k].prediction = NoPrediction
  /\ attempts' = [attempts EXCEPT ![s][k].prediction = hypothesis]
  /\ UNCHANGED <<sessions, evidence, mastery, activity, busy>>

\* execute_stage up to the call of the worker.
SendToWorker(s, k) ==
  /\ busy = Idle
  /\ Mutable(s)
  /\ StageIsCurrent(s, k)
  /\ attempts[s][k].status = "ACTIVE"
  /\ k \in Experiments[MissionOf(s)] => attempts[s][k].prediction # NoPrediction
  /\ busy' = [op |-> "execute", session |-> s, stage |-> k,
              sealed |-> attempts[s][k].prediction]
  /\ UNCHANGED <<sessions, attempts, evidence, mastery, activity>>

\* The worker answered, refused, or could not be reached: each becomes an
\* execution of the attempt read before the call.
RecordExecution ==
  /\ busy.op = "execute"
  /\ attempts' = [attempts EXCEPT ![busy.session][busy.stage].runs = @ \cup {busy.sealed}]
  /\ busy' = Idle
  /\ UNCHANGED <<sessions, evidence, mastery, activity>>

EvidenceRows(s, k, artifacts) ==
  {[learner |-> sessions[s].learner, mission |-> MissionOf(s), session |-> s,
    stage |-> c.stage, competency |-> c.competency, kind |-> c.kind] :
      c \in SubmissionClaims(Contract[MissionOf(s)], k, artifacts,
                             MissionOf(s) \in Noded)}

\* The attempt, its evidence and the step to the next stage are one commit.
SubmitStage(s, k, artifacts) ==
  LET next == NextStage(MissionOf(s), k) IN
  /\ busy = Idle
  /\ Mutable(s)
  /\ StageIsCurrent(s, k)
  /\ attempts[s][k].status = "ACTIVE"
  /\ attempts' = [attempts EXCEPT ![s] =
       [j \in Stage |->
          IF j = k THEN [attempts[s][j] EXCEPT !.status = "SUBMITTED"]
          ELSE IF j = next THEN EnsureReady(attempts[s][j])
          ELSE attempts[s][j]]]
  /\ sessions' = [sessions EXCEPT ![s].current = IF next = 0 THEN @ ELSE next]
  /\ evidence' = evidence \cup EvidenceRows(s, k, artifacts)
  /\ busy' = [op |-> "record", event |-> Event("stage_submitted", s, k, "SUBMITTED")]
  /\ UNCHANGED <<mastery, activity>>

\* Unlike the other handlers, evaluate_gate does not ask for a mutable session.
EvaluateGate(s) ==
  LET m       == MissionOf(s)
      learner == sessions[s].learner
  IN
  /\ busy = Idle
  /\ Exists(s)
  /\ IF GatePasses(s)
       THEN /\ mastery' = [mastery EXCEPT ![learner] =
                 Raised(@, Increments(Contract[m], ClaimsOf(s), SubmittedStages(s)))]
            /\ sessions' = [sessions EXCEPT ![s].status = "COMPLETED"]
       ELSE UNCHANGED <<mastery, sessions>>
  /\ busy' = [op |-> "record", event |-> Event("gate_evaluated", s, 0, GateVerdict(s))]
  /\ UNCHANGED <<attempts, evidence, activity>>

\* The second transaction of submit_stage and evaluate_gate.
RecordActivity ==
  /\ busy.op = "record"
  /\ activity' = activity \cup {busy.event}
  /\ busy' = Idle
  /\ UNCHANGED <<sessions, attempts, evidence, mastery>>

\* The process dies half way and is started again, or the second write fails.
Abandon ==
  /\ busy # Idle
  /\ busy' = Idle
  /\ UNCHANGED <<sessions, attempts, evidence, mastery, activity>>

-----------------------------------------------------------------------------
Init ==
  /\ sessions = [s \in Session |-> NoSession]
  /\ attempts = [s \in Session |-> [k \in Stage |-> NoAttempt]]
  /\ evidence = {}
  /\ mastery = [l \in Learner |-> [c \in Competency |-> 0]]
  /\ activity = {}
  /\ busy = Idle

Next ==
  \/ \E s \in Session, l \in Learner, m \in Mission : CreateSession(s, l, m)
  \/ \E s \in Session, k \in Stage :
        \/ EnterStage(s, k)
        \/ \E h \in Hypothesis : CommitPrediction(s, k, h)
        \/ SendToWorker(s, k)
        \/ \E a \in Artifacts : SubmitStage(s, k, a)
  \/ \E s \in Session : EvaluateGate(s)
  \/ RecordExecution
  \/ RecordActivity
  \/ Abandon

Spec == Init /\ [][Next]_vars

-----------------------------------------------------------------------------
(* Properties                                                              *)

Attempt == [status : AttemptStatus, prediction : Hypothesis \cup {NoPrediction},
            runs : SUBSET (Hypothesis \cup {NoPrediction})]

SessionRow ==
  {NoSession} \cup
  [status : {"ACTIVE", "COMPLETED"}, learner : Learner, mission : Mission,
   current : Stage]

EvidenceRow ==
  [learner : Learner, mission : Mission, session : Session, stage : Stage,
   competency : Competency, kind : Kind]

EventRow ==
  [type : {"stage_submitted"}, session : Session, stage : Stage,
   status : {"SUBMITTED"}]
    \cup
  [type : {"gate_evaluated"}, session : Session, stage : {0},
   status : {"EVALUATED", "PASSED", "REPAIR_REQUIRED", "FAILED"}]

Busy ==
  {Idle}
    \cup [op : {"execute"}, session : Session, stage : Stage,
          sealed : Hypothesis \cup {NoPrediction}]
    \cup [op : {"record"}, event : EventRow]

TypeOK ==
  /\ sessions \in [Session -> SessionRow]
  /\ attempts \in [Session -> [Stage -> Attempt]]
  /\ evidence \subseteq EvidenceRow
  /\ mastery \in [Learner -> [Competency -> 0..MaxLevel]]
  /\ activity \subseteq EventRow
  /\ busy \in Busy

(***************************************************************************)
(* A session walks its mission in order: every stage before the current    *)
(* one is SUBMITTED, the current one has an attempt, and no later stage    *)
(* has one.  So no stage is ACTIVE before its predecessor was submitted    *)
(* (WP-122, first invariant), none is skipped and none is open twice.      *)
(***************************************************************************)
InOrder(s) ==
  LET row == attempts[s] cur == sessions[s].current IN
  IF Exists(s)
    THEN /\ cur \in 1..NumStages[MissionOf(s)]
         /\ \A k \in Stage :
              /\ k < cur => row[k].status = "SUBMITTED"
              /\ k = cur => row[k].status # "NONE"
              /\ k > cur => row[k] = NoAttempt
    ELSE \A k \in Stage : row[k] = NoAttempt

PipelineOrder == \A s \in Session : InOrder(s)

(***************************************************************************)
(* An execution lands in an open attempt: while execute_stage waits for    *)
(* the worker, the session it read before the call is still ACTIVE, at the *)
(* same stage, and its attempt is ACTIVE with the prediction it read.      *)
(***************************************************************************)
WorkerHoldsStage ==
  busy.op = "execute" =>
     LET s == busy.session k == busy.stage IN
     /\ Mutable(s)
     /\ StageIsCurrent(s, k)
     /\ attempts[s][k].status = "ACTIVE"
     /\ attempts[s][k].prediction = busy.sealed

(***************************************************************************)
(* Predict, commit, run (WP-123): whatever an experiment stage executed or *)
(* is executing was sent to the worker under a sealed prediction, and that *)
(* prediction is still the one on record, although the learner may ask to  *)
(* seal another one before, between and after executions.                  *)
(***************************************************************************)
PredictionSealed ==
  \A s \in Session, k \in Stage :
     (Exists(s) /\ k \in Experiments[MissionOf(s)]) =>
        /\ attempts[s][k].runs \subseteq {attempts[s][k].prediction} \ {NoPrediction}
        /\ (busy.op = "execute" /\ busy.session = s /\ busy.stage = k) =>
              busy.sealed = attempts[s][k].prediction /\ busy.sealed # NoPrediction

(***************************************************************************)
(* Evidence and submissions say the same thing: each row belongs to a      *)
(* SUBMITTED attempt of the learner and mission it names, and a submitted  *)
(* stage left a row for every criterion that names it.                     *)
(***************************************************************************)
EvidenceProvenance ==
  /\ \A e \in evidence :
       /\ attempts[e.session][e.stage].status = "SUBMITTED"
       /\ sessions[e.session].learner = e.learner
       /\ sessions[e.session].mission = e.mission
  /\ \A s \in Session : \A k \in SubmittedStages(s) :
       EvidenceRows(s, k, {}) \subseteq evidence

(***************************************************************************)
(* A certificate stays deserved: the gate of a COMPLETED session passes on *)
(* what the database holds now, not only on what it held when the gate     *)
(* was evaluated.                                                          *)
(***************************************************************************)
CompletedStillPasses ==
  \A s \in Session : sessions[s].status = "COMPLETED" => GateVerdict(s) = "PASSED"

(***************************************************************************)
(* Levels are earned: a learner is above level 0 in a competency only with *)
(* a COMPLETED session of a mission whose contract asks for it, and only   *)
(* by having submitted, in that session or in another one of the mission,  *)
(* a stage the contract accepts for it.  Nobody passes on the claims of    *)
(* another learner.                                                        *)
(***************************************************************************)
Worked(l, m, c) ==
  \E t \in Session, i \in DOMAIN Contract[m].criteria :
     /\ sessions[t].learner = l /\ MissionOf(t) = m
     /\ Contract[m].criteria[i].competency = c
     /\ \E k \in SubmittedStages(t) : Matches(Contract[m].criteria[i].stage, k)

MasteryEarned ==
  \A l \in Learner, c \in Competency : mastery[l][c] > 0 =>
     \E s \in Session :
        /\ sessions[s].status = "COMPLETED"
        /\ sessions[s].learner = l
        /\ Worked(l, MissionOf(s), c)

(***************************************************************************)
(* The ledger may miss an event (a crash between the two commits) but it   *)
(* never tells of a submission or of a certificate that did not happen.    *)
(***************************************************************************)
ActivityTruthful ==
  \A e \in activity :
     /\ e.type = "stage_submitted" =>
           attempts[e.session][e.stage].status = "SUBMITTED"
     /\ e.status = "PASSED" => sessions[e.session].status = "COMPLETED"

(***************************************************************************)
(* A submission is final: the attempt, the executions and the evidence it  *)
(* was made with never change again, although the handlers accept further  *)
(* calls for the stage and one may be blocked on the worker.               *)
(***************************************************************************)
EvidenceFor(s, k) == {e \in evidence : e.session = s /\ e.stage = k}

SubmissionFinal ==
  [][\A s \in Session, k \in Stage :
       attempts[s][k].status = "SUBMITTED" =>
          attempts'[s][k] = attempts[s][k] /\ EvidenceFor(s, k)' = EvidenceFor(s, k)]_vars

(***************************************************************************)
(* A COMPLETED session is closed: it stays COMPLETED at the stage it was   *)
(* in, and none of its attempts moves, even those the gate left open.      *)
(***************************************************************************)
CompletedFrozen ==
  [][\A s \in Session :
       sessions[s].status = "COMPLETED" =>
          sessions'[s] = sessions[s] /\ attempts'[s] = attempts[s]]_vars

(***************************************************************************)
(* The session runtime implements MissionJourney: sessions are enrolments, *)
(* the SUBMITTED stages what is done, COMPLETED sessions the certified     *)
(* ones.  So the claims in the database never say more than the learner    *)
(* did, and gate and levels follow from work done in order.                *)
(***************************************************************************)
Journey ==
  INSTANCE MissionJourney WITH
    Enrolment <- Session,
    enrolled  <- [s \in Session |-> [learner |-> sessions[s].learner,
                                     mission |-> sessions[s].mission]],
    done      <- [s \in Session |-> Cardinality(SubmittedStages(s))],
    certified <- {s \in Session : sessions[s].status = "COMPLETED"},
    levels    <- mastery

ImplementsJourney == Journey!Spec
=============================================================================
