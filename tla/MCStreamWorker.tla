------------------------- MODULE MCStreamWorker -------------------------
(* Values of StreamWorker's constants for TLC. *)
EXTENDS StreamWorker

CONSTANTS w1, w2

OneWorker == {w1}
TwoWorkers == {w1, w2}
=============================================================================
