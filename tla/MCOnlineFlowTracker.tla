------------------------ MODULE MCOnlineFlowTracker ------------------------
(* Values of OnlineFlowTracker's constants for TLC. *)
EXTENDS OnlineFlowTracker, TLC

CONSTANT c1

OneConnection == {c1}
OneSize == c1 :> <<2, 2>>
ThreeSize == c1 :> <<2, 2, 1>>
=============================================================================
