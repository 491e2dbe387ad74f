-------------------------- MODULE MCSessionRuntime --------------------------
(***************************************************************************)
(* The missions of the runs.  M01 has three stages, the second an          *)
(* experiment, and a gate that asks for the first two: like every shipped  *)
(* mission, its last stage carries no required evidence.  M02 has two      *)
(* stages, no knowledge node, and passes at a third of three criteria, one *)
(* of which names a stage it does not have.                                *)
(***************************************************************************)
EXTENDS SessionRuntime, TLC

Record(k, c, t) == [stage |-> k, competency |-> c, kind |-> t, node |-> FALSE]

MCCompetency    == {"map", "debug"}
MCKind          == {"trace", "explanation"}
SoloNumStages   == "M01" :> 3 @@ "M02" :> 2
SoloExperiments == "M01" :> {2} @@ "M02" :> {1}
SoloContract ==
  "M01" :> [criteria |-> <<Record(1, "map", "trace"), Record(2, "debug", Unset)>>,
            threshold |-> 100, repair |-> TRUE]
  @@
  "M02" :> [criteria |-> <<Record(1, "map", "trace"), Record(2, "debug", "trace"),
                           Record(3, "debug", "trace")>>,
            threshold |-> 33, repair |-> FALSE]

SoloMission     == {"M01", "M02"}
Hypotheses      == Permutations(Hypothesis)
\* The artifact names its own node, so it leaves a claim in M02 as well.
SoloArtifacts   == {{}, {[competency |-> "debug", kind |-> Unset, node |-> TRUE]}}

=============================================================================
