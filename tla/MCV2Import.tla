------------------------------ MODULE MCV2Import ------------------------------
(* A learner of the backend, the V2 learner p at two moments and q once,   *)
(* whose user names collide.                                               *)
EXTENDS V2Import
CONSTANTS ann, v2p, v2q, m1, p1, p2, q, v2

MCDesired == (p1 :> v2p) @@ (p2 :> v2p) @@ (q :> v2q)
MCBaseName == [b \in {p1, p2, q} |-> v2]
MCLevelIn == (p1 :> 0) @@ (p2 :> 2) @@ (q :> 1)
MCLog == (p1 :> <<"v2_import", "v2_artifacts">>) @@ (p2 :> <<"v2_import">>)
         @@ (q :> <<"v2_import">>)
MCExports == {<<p1>>, <<p2, q>>}
MCUserName == {<<v2, 1>>}
=============================================================================
