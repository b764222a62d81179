------------------------- MODULE MCVariableUpdates -------------------------
(***************************************************************************)
(* An instance of VariableUpdates for TLC: a variable that one goroutine   *)
(* writes and one that two write.                                          *)
(***************************************************************************)
EXTENDS VariableUpdates, TLC

CONSTANTS v1, v2, w1, w2, h1

TwoVars == {v1, v2}
TwoWriters == {w1, w2}
OneAndBoth == v1 :> {w1} @@ v2 :> {w1, w2}
OneHandler == {h1}
=============================================================================
