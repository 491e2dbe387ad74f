---------------------------- MODULE GateSessions ----------------------------
(***************************************************************************)
(* The gate of one mission while a learner goes through sessions of it,    *)
(* submitting stages in any order and again in the next session.  Which    *)
(* stages a session may submit is SessionRuntime's business: here the gate *)
(* answers for every set of claims and submissions there could be.         *)
(***************************************************************************)
EXTENDS GateContract

CONSTANTS
  Stages,     \* the stages of the mission
  Contracts,  \* the contracts it may have; their criteria may name no stage of it
  Artifacts   \* the artifacts a submission may bring

ASSUME ContractsAssumption ==
  \A c \in Contracts :
     /\ c.criteria \in Seq({c.criteria[i] : i \in DOMAIN c.criteria})
     /\ c.threshold \in Int

VARIABLES
  contract,   \* the contract, chosen once
  noded,      \* whether the mission lists a knowledge node
  claims,     \* evidence claims of this learner and mission
  submitted   \* stages submitted in this session

vars == <<contract, noded, claims, submitted>>

Init ==
  /\ contract \in Contracts
  /\ noded \in BOOLEAN
  /\ claims = {}
  /\ submitted = {}

Submit(stage, artifacts) ==
  /\ stage \notin submitted
  /\ claims' = claims \cup SubmissionClaims(contract, stage, artifacts, noded)
  /\ submitted' = submitted \cup {stage}
  /\ UNCHANGED <<contract, noded>>

\* A new session of the same mission: the claims stay, the stages start over.
NewSession ==
  /\ submitted # {}
  /\ submitted' = {}
  /\ UNCHANGED <<contract, noded, claims>>

Next ==
  \/ \E stage \in Stages, a \in SUBSET Artifacts : Submit(stage, a)
  \/ NewSession

Spec == Init /\ [][Next]_vars

Gate == Verdict(contract, claims, submitted)

\* MDL v1 (WP-136): every criterion names a stage and a competency, and the
\* threshold is a ratio.
WellFormed ==
  /\ contract.threshold \in 0..100
  /\ \A i \in DOMAIN contract.criteria :
        contract.criteria[i].stage # Unset /\ contract.criteria[i].competency # Unset

(***************************************************************************)
(* More work in a session never turns a passing gate into a failing one:   *)
(* criterion_satisfied (gates.py:50-76) only asks for the existence of a   *)
(* claim or of a submitted stage, and meets_pass_threshold is monotone.    *)
(***************************************************************************)
GateMonotone ==
  [][(Gate = "PASSED" /\ submitted \subseteq submitted') => Gate' = "PASSED"]_vars

(***************************************************************************)
(* The repair plan is sufficient: once the stages it targets               *)
(* (build_repair_plan, gates.py:97-123) are submitted, the gate passes.    *)
(***************************************************************************)
RepairPlanSuffices ==
  (WellFormed /\ Gate = "REPAIR_REQUIRED") =>
     Verdict(contract, claims,
             submitted \cup TargetStages(contract, claims, submitted)) = "PASSED"

=============================================================================
