------------------------- MODULE MCRestructureApply -------------------------
(* Small instances of RestructureApply for TLC.                            *)
EXTENDS RestructureApply, TLC

CONSTANTS f1, f2, a, b, x, R, S

OneRoot == [p \in {a, b, x} |-> R]
HomeAB == (f1 :> a @@ f2 :> b)
=============================================================================
