--------------------------- MODULE MCGateContract ---------------------------
(***************************************************************************)
(* Every contract of up to two criteria for a mission with two stages, and *)
(* every contract of three that differ in stage and kind only.  Thresholds *)
(* stand at and around every ratio there can be of up to three criteria,   *)
(* and at two counts.                                                      *)
(***************************************************************************)
EXTENDS GateSessions

MCStages == 1..2

\* Stage 3 stands for a stage_id that names no stage of the mission: the
\* schema asks for a string, not for a stage that exists.
Criteria ==
  [stage : MCStages \cup {3, Unset}, competency : {"map", Unset},
   kind : {"trace", Unset}, node : BOOLEAN]
Simple == {c \in Criteria : c.competency = "map" /\ ~ c.node}
MCContracts ==
  [criteria : UNION {[1..n -> Criteria] : n \in 0..2} \cup [1..3 -> Simple],
   threshold : {0, 33, 34, 50, 66, 67, 100, 200, 300}, repair : BOOLEAN]
MCArtifacts == {[competency |-> "map", kind |-> "trace", node |-> FALSE],
                [competency |-> "map", kind |-> Unset, node |-> TRUE]}

=============================================================================
