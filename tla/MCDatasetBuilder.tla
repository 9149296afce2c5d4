-------------------------- MODULE MCDatasetBuilder --------------------------
(* Values of DatasetBuilder's constants for TLC. *)
EXTENDS DatasetBuilder, TLC

CONSTANT c1

\* Two ports that store the same packets stamp them alike or not.
FiveCaptures == {<<"host", 0>>} \cup ({"all", "uplink"} \X {0, 1})

OneConnection == {c1}
TwoSizes == (<<c1, 1>> :> 3) @@ (<<c1, 2>> :> 1)
\* The second request starts when the first one ends, or later.
Intervals(start2) == (<<c1, 1>> :> [start |-> 1, stop |-> 2])
                       @@ (<<c1, 2>> :> [start |-> start2, stop |-> start2 + 1])
TwoSchedules == {Intervals(2), Intervals(3)}
=============================================================================
