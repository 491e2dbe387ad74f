---------------------------- MODULE GateContract ----------------------------
(***************************************************************************)
(* The competency gate as a pure function of a mission's gate_contract,    *)
(* the learner's evidence claims and the stages submitted in the session   *)
(* (platform/backend/app/core/gates.py).                                   *)
(*                                                                         *)
(* A contract is [criteria, threshold, repair]:                            *)
(*   criteria   the required_evidence list, a sequence of records          *)
(*              [stage, competency, kind] whose fields may be Unset, and   *)
(*              node, whether it names a knowledge node of its own;        *)
(*   threshold  pass_threshold in hundredths, so 0..100 is the ratio 0..1  *)
(*              and anything above is a number of criteria;                *)
(*   repair     repair_policy.allow_targeted_repair.                       *)
(* A contract that is absent, that lists nothing, or whose threshold does  *)
(* not parse is EVALUATED and never passes: criteria = <<>> is all three.  *)
(* A claim is a record with at least the fields stage, competency, kind;   *)
(* every claim the backend writes is ACCEPTED and carries a real SHA-256.  *)
(*                                                                         *)
(* An operator Mutant_X, here and in the other modules, is the definition  *)
(* after it with a plausible bug.  No specification uses it: it is what    *)
(* the properties are known to catch.                                      *)
(***************************************************************************)
EXTENDS Integers, Sequences, FiniteSets

CONSTANT Unset \* a field the record does not have, or has empty

Matches(wanted, got) == wanted \in {Unset, got}

CriterionSatisfied(criterion, claims, submitted) ==
  \/ \E claim \in claims :
        /\ Matches(criterion.stage, claim.stage)
        /\ Matches(criterion.competency, claim.competency)
        /\ Matches(criterion.kind, claim.kind)
  \/ criterion.stage # Unset /\ criterion.stage \in submitted

Mutant_ExactlyMet(passed, required, threshold) ==
  required > 0 /\ 100 * passed = threshold * required
MeetsPassThreshold(passed, required, threshold) ==
  /\ required > 0
  /\ IF threshold \in 0..100
       THEN 100 * passed >= threshold * required
       ELSE 100 * passed >= threshold

\* The positions in contract.criteria that are satisfied.
Passed(contract, claims, submitted) ==
  {i \in DOMAIN contract.criteria :
      CriterionSatisfied(contract.criteria[i], claims, submitted)}

Verdict(contract, claims, submitted) ==
  IF contract.criteria = <<>> THEN "EVALUATED"
  ELSE IF MeetsPassThreshold(Cardinality(Passed(contract, claims, submitted)),
                             Len(contract.criteria), contract.threshold)
  THEN "PASSED"
  ELSE IF contract.repair THEN "REPAIR_REQUIRED" ELSE "FAILED"

\* competency_increments: one level for each competency of a passed criterion.
Increments(contract, claims, submitted) ==
  {contract.criteria[i].competency : i \in Passed(contract, claims, submitted)}
    \ {Unset}

\* repair_plan: the criteria to drill, and the stages they send the learner to.
FailedEvidence(contract, claims, submitted) ==
  {contract.criteria[i] :
      i \in DOMAIN contract.criteria \ Passed(contract, claims, submitted)}

Mutant_FirstFailure(contract, claims, submitted) ==
  LET failed == FailedEvidence(contract, claims, submitted)
  IN  IF failed = {} THEN {} ELSE {(CHOOSE c \in failed : TRUE).stage} \ {Unset}
TargetStages(contract, claims, submitted) ==
  {c.stage : c \in FailedEvidence(contract, claims, submitted)} \ {Unset}

\* The claims a submission leaves: one for each criterion of the stage and each
\* artifact that has a competency and a knowledge node, its own or one that the
\* mission lists (noded).
SubmissionClaims(contract, stage, artifacts, noded) ==
  LET matching == {c \in {contract.criteria[i] : i \in DOMAIN contract.criteria} :
                      c.stage = stage}
      records  == {[competency |-> c.competency, kind |-> c.kind, node |-> c.node] :
                      c \in matching} \cup artifacts
  IN {[stage |-> stage, competency |-> r.competency,
       kind |-> IF r.kind = Unset THEN "explanation" ELSE r.kind] :
         r \in {q \in records : (q.node \/ noded) /\ q.competency # Unset}}
=============================================================================
