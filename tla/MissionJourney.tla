--------------------------- MODULE MissionJourney ---------------------------
(***************************************************************************)
(* What the mission player promises, without attempts, predictions,        *)
(* evidence rows, ledger or crashes: a learner enrols in missions, does    *)
(* the stages of each enrolment in order and one at a time, is certified   *)
(* when the work done - in any enrolment of the learner in that mission -  *)
(* meets the gate contract, and rises in level only by being certified, in *)
(* the competencies the covered part of the contract names.                *)
(*                                                                         *)
(* SessionRuntime implements this specification.                           *)
(***************************************************************************)
EXTENDS GateContract

CONSTANTS
  Learner, Mission, Competency,
  Enrolment,   \* the enrolments that may ever be made
  NumStages,   \* [Mission -> Nat]
  Contract,    \* [Mission -> gate contract]
  MaxLevel

VARIABLES
  enrolled,    \* [Enrolment -> Nobody, or [learner, mission]]
  done,        \* [Enrolment -> Nat]: stages 1..done[e] are done
  certified,   \* the certified enrolments
  levels       \* [Learner -> [Competency -> 0..MaxLevel]]

vars == <<enrolled, done, certified, levels>>

Nobody == [learner |-> Unset, mission |-> Unset]

\* What learner l has done of mission m, over all enrolments.
Covered(l, m) ==
  UNION {1..done[e] : e \in {f \in Enrolment :
                               enrolled[f] = [learner |-> l, mission |-> m]}}

\* The positions of the criteria of mission m that this work can answer for.
Answered(l, m) ==
  {i \in DOMAIN Contract[m].criteria :
      \E k \in Covered(l, m) : Matches(Contract[m].criteria[i].stage, k)}

Deserved(l, m) ==
  MeetsPassThreshold(Cardinality(Answered(l, m)), Len(Contract[m].criteria),
                     Contract[m].threshold)

Enrol(e, l, m) ==
  /\ enrolled[e] = Nobody
  /\ enrolled' = [enrolled EXCEPT ![e] = [learner |-> l, mission |-> m]]
  /\ UNCHANGED <<done, certified, levels>>

DoStage(e) ==
  /\ enrolled[e] # Nobody
  /\ e \notin certified
  /\ done[e] < NumStages[enrolled[e].mission]
  /\ done' = [done EXCEPT ![e] = @ + 1]
  /\ UNCHANGED <<enrolled, certified, levels>>

\* A certified enrolment may be certified again.
Certify(e) ==
  LET l == enrolled[e].learner m == enrolled[e].mission IN
  /\ enrolled[e] # Nobody
  /\ Deserved(l, m)
  /\ certified' = certified \cup {e}
  /\ \E C \in SUBSET {Contract[m].criteria[i].competency : i \in Answered(l, m)} :
        levels' = [levels EXCEPT ![l] =
          [c \in Competency |-> IF c \in C /\ @[c] < MaxLevel THEN @[c] + 1 ELSE @[c]]]
  /\ UNCHANGED <<enrolled, done>>

Init ==
  /\ enrolled = [e \in Enrolment |-> Nobody]
  /\ done = [e \in Enrolment |-> 0]
  /\ certified = {}
  /\ levels = [l \in Learner |-> [c \in Competency |-> 0]]

Next ==
  \E e \in Enrolment :
     \/ \E l \in Learner, m \in Mission : Enrol(e, l, m)
     \/ DoStage(e)
     \/ Certify(e)

Spec == Init /\ [][Next]_vars
=============================================================================
