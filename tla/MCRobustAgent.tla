---------------------------- MODULE MCRobustAgent ----------------------------
(***************************************************************************)
(* Instances of RobustAgent for TLC: two keys, one of them the purchase's. *)
(***************************************************************************)
EXTENDS RobustAgent

CONSTANTS k1, k2

MCSafetyCeiling == {None, 4}
=============================================================================
