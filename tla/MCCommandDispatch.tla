------------------------- MODULE MCCommandDispatch -------------------------
(* Small instances of CommandDispatch for TLC.                             *)
EXTENDS CommandDispatch, TLC

CONSTANTS s1, deep, move, wipe

KindOfAll == (s1 :> "scan" @@ deep :> "deep" @@ move :> "restructure" @@ wipe :> "wipe")
Kind == [r \in Requests |-> KindOfAll[r]]
=============================================================================
