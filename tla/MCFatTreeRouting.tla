-------------------------- MODULE MCFatTreeRouting --------------------------
(* Values of FatTreeRouting's constants for TLC. *)
EXTENDS FatTreeRouting

\* Two switches above each other are set up while the packet travels.
LateSwitches == {Agg(2, 0), Edge(2, 0)}
\* To another pod through the late switches downwards, to the neighbour, to the
\* same pod and to another one through them upwards.
SomePairs == {<<<<0, 0, 1>>, <<2, 0, 2>>>>, <<<<2, 0, 1>>, <<2, 0, 2>>>>,
              <<<<2, 0, 1>>, <<2, 1, 1>>>>, <<<<2, 0, 1>>, <<0, 1, 1>>>>}
=============================================================================
