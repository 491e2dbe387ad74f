------------------------- MODULE GateSessionsProofs -------------------------
(***************************************************************************)
(* Proofs about the gate, for any contracts, stages and artifacts.         *)
(***************************************************************************)
EXTENDS GateSessions, FiniteSetTheorems, TLAPS

IsContract(c) == c.criteria \in Seq({c.criteria[i] : i \in DOMAIN c.criteria}) /\ c.threshold \in Int

\* The contract is one of the mission's throughout.
TypeOK == contract \in Contracts

LEMMA TypeCorrect == Spec => []TypeOK
<1>1. Init => TypeOK
  BY DEF Init, TypeOK
<1>2. TypeOK /\ [Next]_vars => TypeOK'
  BY DEF TypeOK, Next, vars, Submit, NewSession
<1> QED BY <1>1, <1>2, PTL DEF Spec

\* What passes is a part of what is required.
LEMMA PassedCount ==
  ASSUME NEW c, IsContract(c), NEW met, met \subseteq DOMAIN c.criteria
  PROVE  /\ IsFiniteSet(met) /\ Cardinality(met) \in Nat
         /\ Len(c.criteria) \in Nat
         /\ DOMAIN c.criteria = 1..Len(c.criteria)
<1>1. Len(c.criteria) \in Nat /\ DOMAIN c.criteria = 1..Len(c.criteria)
  BY DEF IsContract
<1>2. IsFiniteSet(DOMAIN c.criteria)
  BY <1>1, FS_Interval
<1> QED BY <1>1, <1>2, FS_Subset, FS_CardinalityType

\* The threshold is monotone in how many criteria are met.
LEMMA ThresholdMonotone ==
  ASSUME NEW a \in Nat, NEW b \in Nat, a <= b, NEW n \in Nat, NEW t \in Int,
         MeetsPassThreshold(a, n, t)
  PROVE  MeetsPassThreshold(b, n, t)
<1>1. 100 * a <= 100 * b /\ t * n \in Int
  OBVIOUS
<1> QED BY <1>1 DEF MeetsPassThreshold

\* A ratio is reached when every criterion is met.
LEMMA AllMeet ==
  ASSUME NEW n \in Nat \ {0}, NEW t \in 0..100
  PROVE  MeetsPassThreshold(n, n, t)
<1>1. 100 * n >= t * n
  OBVIOUS
<1> QED BY <1>1 DEF MeetsPassThreshold

\* More claims and more submissions satisfy no fewer criteria.
LEMMA PassedGrows ==
  ASSUME NEW c, NEW before, NEW after, before \subseteq after,
         NEW stages, NEW more, stages \subseteq more
  PROVE  Passed(c, before, stages) \subseteq Passed(c, after, more)
BY DEF Passed, CriterionSatisfied

LEMMA VerdictMonotone ==
  ASSUME NEW c, IsContract(c), NEW before, NEW after, before \subseteq after,
         NEW stages, NEW more, stages \subseteq more,
         Verdict(c, before, stages) = "PASSED"
  PROVE  Verdict(c, after, more) = "PASSED"
<1> DEFINE old == Passed(c, before, stages)
           new == Passed(c, after, more)
<1>1. old \subseteq new /\ new \subseteq DOMAIN c.criteria
  BY PassedGrows DEF Passed
<1>2. /\ c.criteria # <<>>
      /\ MeetsPassThreshold(Cardinality(old), Len(c.criteria), c.threshold)
  BY DEF Verdict
<1> HIDE DEF old, new
<1>3. IsFiniteSet(new) /\ Cardinality(new) \in Nat /\ Len(c.criteria) \in Nat
  BY <1>1, PassedCount
<1>4. Cardinality(old) \in Nat /\ Cardinality(old) <= Cardinality(new)
  BY <1>1, <1>3, FS_Subset, FS_CardinalityType
<1>5. MeetsPassThreshold(Cardinality(new), Len(c.criteria), c.threshold)
  BY <1>2, <1>3, <1>4, ThresholdMonotone DEF IsContract
<1> QED BY <1>2, <1>5 DEF Verdict, new

(***************************************************************************)
(* The gate of a session only improves (criterion_satisfied and            *)
(* meets_pass_threshold, gates.py:33-76), whatever the contract asks and   *)
(* however many stages, artifacts and sessions there are.                  *)
(***************************************************************************)
THEOREM GateMonotoneHolds == Spec => GateMonotone
<1>1. TypeOK /\ [Next]_vars =>
        [(Gate = "PASSED" /\ submitted \subseteq submitted') => Gate' = "PASSED"]_vars
  <2> SUFFICES ASSUME TypeOK, Next, Gate = "PASSED", submitted \subseteq submitted'
               PROVE  Gate' = "PASSED"
    OBVIOUS
  <2>1. contract' = contract /\ claims \subseteq claims'
    BY DEF Next, Submit, NewSession
  <2>2. IsContract(contract)
    BY ContractsAssumption DEF TypeOK, IsContract
  <2>3. Verdict(contract, claims', submitted') = "PASSED"
    BY <2>1, <2>2, VerdictMonotone DEF Gate
  <2> QED BY <2>1, <2>3 DEF Gate
<1> QED BY TypeCorrect, <1>1, PTL DEF Spec, GateMonotone

\* Submitting what the repair plan targets leaves no criterion unmet.
LEMMA TargetsMeetAll ==
  ASSUME NEW c, NEW held, NEW stages, \A i \in DOMAIN c.criteria : c.criteria[i].stage # Unset
  PROVE  Passed(c, held, stages \cup TargetStages(c, held, stages)) = DOMAIN c.criteria
<1> DEFINE more == stages \cup TargetStages(c, held, stages)
<1>1. ASSUME NEW i \in DOMAIN c.criteria
      PROVE  CriterionSatisfied(c.criteria[i], held, more)
  <2>1. CASE i \in Passed(c, held, stages)
    <3>1. Passed(c, held, stages) \subseteq Passed(c, held, more)
      BY PassedGrows
    <3> QED BY <2>1, <3>1 DEF Passed
  <2>2. CASE i \notin Passed(c, held, stages)
    <3>1. c.criteria[i].stage \in TargetStages(c, held, stages)
      BY <2>2 DEF TargetStages, FailedEvidence
    <3> QED BY <3>1 DEF CriterionSatisfied
  <2> QED BY <2>1, <2>2
<1> QED BY <1>1 DEF Passed

(***************************************************************************)
(* The repair plan (build_repair_plan, gates.py:97-123) is enough, for any *)
(* well-formed contract and whatever was submitted before.                 *)
(***************************************************************************)
THEOREM RepairPlanSufficesHolds == Spec => []RepairPlanSuffices
<1>1. TypeOK => RepairPlanSuffices
  <2> SUFFICES ASSUME TypeOK, WellFormed, Gate = "REPAIR_REQUIRED"
               PROVE  Verdict(contract, claims,
                        submitted \cup TargetStages(contract, claims, submitted)) = "PASSED"
    BY DEF RepairPlanSuffices
  <2> DEFINE n == Len(contract.criteria)
             met == Passed(contract, claims,
                           submitted \cup TargetStages(contract, claims, submitted))
  <2>1. IsContract(contract)
    BY ContractsAssumption DEF TypeOK, IsContract
  <2>2. met = DOMAIN contract.criteria
    BY TargetsMeetAll DEF WellFormed
  <2>3. contract.criteria # <<>>
    BY DEF Gate, Verdict
  <2>4. n \in Nat /\ n # 0 /\ met = 1..n
    BY <2>1, <2>2, <2>3 DEF IsContract
  <2>5. Cardinality(met) = n
    <3>1. Cardinality(1..n) = IF 1 > n THEN 0 ELSE n - 1 + 1
      BY <2>4, FS_Interval
    <3> QED BY <2>4, <3>1
  <2>6. MeetsPassThreshold(n, n, contract.threshold)
    BY <2>4, AllMeet DEF WellFormed
  <2> QED BY <2>3, <2>5, <2>6 DEF Verdict
<1> QED BY TypeCorrect, <1>1, PTL
=============================================================================
