------------------------- MODULE ClassifierService -------------------------
(***************************************************************************)
(* What the capture processes may count on from the classifier workers     *)
(* behind the Redis stream, whatever their number and however they fail:   *)
(* a request is answered at most once, no answer comes for a request that  *)
(* was given up, and answers come in any order.                            *)
(***************************************************************************)
EXTENDS Naturals

VARIABLES submitted,  \* number of entries ever added to the stream
          answered,   \* ids whose result was published
          givenUp     \* ids that will never be answered

vars == <<submitted, answered, givenUp>>

Open == (1 .. submitted) \ (answered \cup givenUp)

Init == submitted = 0 /\ answered = {} /\ givenUp = {}

Submit == /\ submitted' = submitted + 1
          /\ UNCHANGED <<answered, givenUp>>

Answer(id) == /\ id \in Open
              /\ answered' = answered \cup {id}
              /\ UNCHANGED <<submitted, givenUp>>

GiveUp(S) == /\ S \subseteq Open
             /\ givenUp' = givenUp \cup S
             /\ UNCHANGED <<submitted, answered>>

Next == \/ Submit
        \/ \E id \in Open : Answer(id)
        \/ \E S \in SUBSET Open : GiveUp(S)

Spec == Init /\ [][Next]_vars
=============================================================================
