------------------------ MODULE MCOnlineExperiments ------------------------
(* Values of OnlineExperiments' constants for TLC: the client of the one    *)
(* request is attached at p1, its server at p2.                             *)
EXTENDS OnlineExperiments

CONSTANTS r1, p1, p2

MCRequests == {r1}
MCPoints == {p1, p2}
MCHome == [k \in Keys |-> IF k[2] = "src_to_dst" THEN p1 ELSE p2]
\* The same addresses carry another flow in every run.
MCLabel == [f \in Flows |-> IF f[1] = 1 THEN "elephant" ELSE "mice"]
=============================================================================
