------------------------------ MODULE MCToday ------------------------------
(***************************************************************************)
(* M01 has two stages, the first an experiment.  M02 and M03 have one and  *)
(* are blocked by M01; M03 also by a mission the catalog does not have.    *)
(* M02 lists no knowledge node, so its gate has no claims to go by, only   *)
(* submitted stages.  No criterion names a node of its own either.         *)
(***************************************************************************)
EXTENDS Today, TLC

Record(k) == [stage |-> k, competency |-> "map", kind |-> Unset, node |-> FALSE]

Stages == "M01" :> 2 @@ "M02" :> 1 @@ "M03" :> 1
Gates ==
  LET gate(cs, t) == [criteria |-> cs, threshold |-> t, repair |-> TRUE] IN
  "M01" :> gate(<<Record(1), Record(2)>>, 100)
  @@ "M02" :> gate(<<Record(1)>>, 100)
  @@ "M03" :> gate(<<Record(1), Record(1)>>, 50)
Prerequisites == "M01" :> {} @@ "M02" :> {"M01"} @@ "M03" :> {"M01", "M00"}

Only(f, catalog) == [m \in {catalog[i] : i \in DOMAIN catalog} |-> f[m]]

MCCompetency  == {"map"}
MCKind        == {"explanation"}
MCArtifacts   == {{}}

AnyMission     == {"M01", "M02", "M03"}
AnyCatalog     == <<"M01", "M02", "M03">>
AnyBlocking    == Only(Prerequisites, AnyCatalog)
AnyNumStages   == Only(Stages, AnyCatalog)
AnyExperiments == [m \in AnyMission |-> IF m = "M01" THEN {1} ELSE {}]
AnyContract    == Only(Gates, AnyCatalog)

FollowMission     == {"M01", "M03"}
FollowCatalog     == <<"M01", "M03">>
FollowBlocking    == Only(Prerequisites, FollowCatalog)
FollowNumStages   == Only(Stages, FollowCatalog)
FollowExperiments == [m \in FollowMission |-> IF m = "M01" THEN {1} ELSE {}]
FollowContract    == Only(Gates, FollowCatalog)

Learners == Permutations(Learner)

\* Bound: events that reached the ledger.  No guard and no property reads them.
MaxEvents == 0
FewEvents == Cardinality(activity) <= MaxEvents
=============================================================================
