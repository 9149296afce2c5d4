--------------------------- MODULE MCUniv1Builder ---------------------------
(* Values of Univ1Builder's constants for TLC.                              *)
EXTENDS Univ1Builder

CONSTANTS c1, c2

MCConnections == {c1, c2}
\* Trace 1 under both names, trace 2 without suffix, and a name out of range.
MCDirectory == {<<1, "">>, <<1, ".pcap">>, <<2, "">>, <<21, ".pcap">>}
MCQuantiles == <<0, 300, 500, 800, 1000>>
Symmetry == Permutations(MCConnections)
=============================================================================
