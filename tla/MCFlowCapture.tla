--------------------------- MODULE MCFlowCapture ---------------------------
(* Values of FlowCapture's constants for TLC. *)
EXTENDS FlowCapture, TLC

CONSTANTS f1, f2

OneFlow == {f1}
TwoFlows == {f1, f2}
MCLabel == (f1 :> "elephant") @@ (f2 :> "mice")
OneLabel == f1 :> "elephant"
=============================================================================
