--------------------------- MODULE MCLearningLoop ---------------------------
(***************************************************************************)
(* Instances of LearningLoop for TLC.                                      *)
(***************************************************************************)
EXTENDS LearningLoop

MCCompetencies == [m \in Mission |-> IF m = "M01" THEN <<"a">> ELSE <<"a">>]

Evidence(m, type, b) ==
  [mission |-> m, type |-> type, explanation |-> b, transfer |-> b, no_ai |-> b,
   competencies |-> {"a"}]
MCRecords == {Evidence("M01", "review", TRUE), Evidence("M01", "artifact", FALSE)}

MCHandSignals == {{"failed_transfer"}, Increase}
MCIntervals == <<1, 2>>
=============================================================================
