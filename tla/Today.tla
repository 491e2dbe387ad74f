------------------------------- MODULE Today -------------------------------
(***************************************************************************)
(* The "today" dispatcher: which action the backend recommends to a        *)
(* learner (platform/backend/app/core/projection.py), over the mission     *)
(* catalog and the flagship prerequisites (core/flagship.py).              *)
(*                                                                         *)
(* NextAction reads the tables of SessionRuntime and writes nothing.  Two  *)
(* kinds of learner are specified: Spec, inherited from SessionRuntime,    *)
(* where learners call the handlers as they like, and FollowSpec, where    *)
(* they call what NextAction recommends and nothing else.                  *)
(***************************************************************************)
EXTENDS SessionRuntime

CONSTANTS
  Catalog,   \* the missions table ordered by order_index: a sequence
  Blocking   \* [Mission -> set of mission ids]: flagship blocking prerequisites

\* Contract of _validate_index for the missions of the spine: a blocking
\* prerequisite has a smaller order_index.  It need not be in the catalog.
ASSUME CatalogAssumption ==
  /\ Catalog \in Seq(Mission)
  /\ \A m \in Mission : \E i \in DOMAIN Catalog : Catalog[i] = m
  /\ \A i \in DOMAIN Catalog, j \in DOMAIN Catalog :
       Catalog[j] \in Blocking[Catalog[i]] => j < i

-----------------------------------------------------------------------------
Mutant_AnyStatus(l, status) ==
  {s \in Session : Exists(s) /\ sessions[s].learner = l}
SessionsOf(l, status) ==
  {s \in Session : sessions[s].status = status /\ sessions[s].learner = l}

CompletedMissions(l) == {MissionOf(s) : s \in SessionsOf(l, "COMPLETED")}

\* mission_unlocked: prerequisites the catalog does not have do not count.
Mutant_CountMissing(m, completed) == Blocking[m] \subseteq completed
Unlocked(m, completed) == Blocking[m] \cap Mission \subseteq completed

Recommend(action, reason, m, s, k) ==
  [action |-> action, reason |-> reason, mission |-> m, session |-> s, stage |-> k]

\* The learner's ACTIVE session of the highest rowid decides.
SessionAction(s) ==
  LET m == MissionOf(s) k == sessions[s].current status == attempts[s][k].status IN
  IF status = "SUBMITTED" /\ NextStage(m, k) # 0
    THEN Recommend("ENTER_STAGE", "NEXT_STAGE", m, s, NextStage(m, k))
  ELSE IF status = "SUBMITTED" THEN Recommend("EVALUATE_GATE", "GATE_PENDING", m, s, k)
  ELSE IF status = "ACTIVE" THEN Recommend("CONTINUE_STAGE", "STAGE_IN_PROGRESS", m, s, k)
  ELSE Recommend("ENTER_STAGE", "CURRENT_SESSION_STAGE", m, s, k)

\* Without one: the first mission of the catalog that is neither done nor locked.
Startable(l) ==
  {i \in DOMAIN Catalog :
      /\ Catalog[i] \notin CompletedMissions(l)
      /\ Unlocked(Catalog[i], CompletedMissions(l))}

MissionAction(l) ==
  IF Startable(l) # {}
    THEN LET i == CHOOSE j \in Startable(l) : \A h \in Startable(l) : j <= h
         IN  Recommend("START_MISSION", "NEXT_MISSION", Catalog[i], 0, 1)
  ELSE IF \E m \in Mission : m \notin CompletedMissions(l)
    THEN Recommend("IDLE", "PREREQUISITES_UNMET", Unset, 0, 0)
  ELSE IF Catalog # <<>>
    THEN Recommend("IDLE", "ALL_MISSIONS_COMPLETE", Unset, 0, 0)
  ELSE Recommend("IDLE", "NO_AVAILABLE_MISSIONS", Unset, 0, 0)

Mutant_IgnoreActive(l) == MissionAction(l)
NextAction(l) ==
  LET active == SessionsOf(l, "ACTIVE") IN
  IF active # {}
    THEN SessionAction(CHOOSE s \in active : \A t \in active : t <= s)
    ELSE MissionAction(l)

-----------------------------------------------------------------------------
(* A learner who follows the recommendations                               *)

Start(l) ==
  /\ NextAction(l).action = "START_MISSION"
  /\ \E s \in Session : CreateSession(s, l, NextAction(l).mission)

Enter(l) ==
  /\ NextAction(l).action = "ENTER_STAGE"
  /\ EnterStage(NextAction(l).session, NextAction(l).stage)

\* Work on the stage: seal a prediction, run code, as often as wanted.
Work(l) ==
  LET today == NextAction(l) IN
  /\ today.action = "CONTINUE_STAGE"
  /\ \/ \E h \in Hypothesis : CommitPrediction(today.session, today.stage, h)
     \/ SendToWorker(today.session, today.stage)

Submit(l) ==
  LET today == NextAction(l) IN
  /\ today.action = "CONTINUE_STAGE"
  /\ \E a \in Artifacts : SubmitStage(today.session, today.stage, a)

Evaluate(l) ==
  /\ NextAction(l).action = "EVALUATE_GATE"
  /\ EvaluateGate(NextAction(l).session)

FollowNext ==
  \/ \E l \in Learner : Start(l) \/ Enter(l) \/ Work(l) \/ Submit(l) \/ Evaluate(l)
  \/ RecordExecution
  \/ RecordActivity
  \/ Abandon

(***************************************************************************)
(* The learner does not give up: a call that is recommended again and      *)
(* again is made, although the server may be busy with somebody else in    *)
(* between, and a stage that can be submitted is not worked on for ever.   *)
(* A handler that is half way ends: the worker call has a timeout          *)
(* (worker_client.py), and if the process dies it is started again.        *)
(***************************************************************************)
Fairness ==
  /\ \A l \in Learner :
        /\ SF_vars(Start(l))
        /\ SF_vars(Enter(l))
        /\ SF_vars(Submit(l))
        /\ SF_vars(Evaluate(l))
  /\ WF_vars(RecordExecution \/ RecordActivity \/ Abandon)

FollowSpec == Init /\ [][FollowNext]_vars /\ Fairness

-----------------------------------------------------------------------------
(* Properties                                                              *)

\* The criteria name stages of the mission, and the threshold is a ratio.
WellFormed(m) ==
  /\ Contract[m].criteria # <<>>
  /\ Contract[m].threshold \in 0..100
  /\ \A i \in DOMAIN Contract[m].criteria :
        Contract[m].criteria[i].stage \in 1..NumStages[m]

(***************************************************************************)
(* Whatever the learner did before, the recommended call is one the        *)
(* handlers accept: the dispatcher, which reads the tables on its own,     *)
(* never sends the learner into a 404 or a 409.                            *)
(***************************************************************************)
Accepted(today) ==
  LET s == today.session k == today.stage IN
  /\ today.action \in {"ENTER_STAGE", "CONTINUE_STAGE"} =>
        /\ Mutable(s) /\ StageIsCurrent(s, k)
        /\ attempts[s][k].status # "SUBMITTED"
  /\ today.action = "EVALUATE_GATE" => Mutable(s)

RecommendationAccepted == \A l \in Learner : Accepted(NextAction(l))

(***************************************************************************)
(* Following Today respects the spine: a learner has at most one ACTIVE    *)
(* session, at most one session per mission, and has completed the         *)
(* blocking prerequisites of whatever was started.                         *)
(***************************************************************************)
SpineRespected ==
  \A s \in Session : Exists(s) =>
     LET l == sessions[s].learner m == MissionOf(s) IN
     /\ Blocking[m] \cap Mission \subseteq CompletedMissions(l)
     /\ \A t \in Session :
          (t # s /\ Exists(t) /\ sessions[t].learner = l) =>
             /\ MissionOf(t) # m
             /\ {sessions[s].status, sessions[t].status} # {"ACTIVE"}

(***************************************************************************)
(* Following Today leads to the end: every mission is completed, through   *)
(* crashes and lost executions, if the contracts are well-formed.          *)
(***************************************************************************)
JourneyEnds == \A l \in Learner : <>(CompletedMissions(l) = Mission)

=============================================================================
