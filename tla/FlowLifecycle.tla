--------------------------- MODULE FlowLifecycle ---------------------------
(***************************************************************************)
(* What the online flow cache promises about one flow, seen from outside:  *)
(* the table of states in docs/REALTIME_PACKET_REDIS_PIPELINE.md read       *)
(* against FLOW_STATUSES.  A flow is collected (default), locked while its *)
(* request is on the way (pending), and labelled only by the answer to a   *)
(* request.  The lock may be released while no publish of the flow has     *)
(* been confirmed; a confirmed publish is final, and all that can happen   *)
(* to its flow is the label.                                               *)
(***************************************************************************)
CONSTANTS Flows,   \* the keys of RealtimeFlowCache.entries (OnlineFlowKey)
          Label    \* the class the model assigns to a flow's features

VARIABLES status,    \* status of the entry, "absent" before it is created
          sent,      \* flows with a request in the Redis stream
          confirmed  \* flows of which a publish() has stored all it had to

vars == <<status, sent, confirmed>>

Classes == {"elephant", "mice"}

Init == /\ status = [f \in Flows |-> "absent"]
        /\ sent = {}
        /\ confirmed = {}

Collect(f) == /\ status[f] = "absent"
              /\ status' = [status EXCEPT ![f] = "default"]
              /\ UNCHANGED <<sent, confirmed>>

\* An answer may have come between the test of the status and the lock.
Lock(f) == /\ \/ status[f] = "default"
              \/ status[f] \in Classes /\ f \in sent
           /\ f \notin confirmed
           /\ status' = [status EXCEPT ![f] = "pending"]
           /\ UNCHANGED <<sent, confirmed>>

Send(f) == /\ status[f] \in {"pending"} \cup Classes
           /\ f \notin confirmed
           /\ sent' = sent \cup {f}
           /\ UNCHANGED <<status, confirmed>>

Confirm(f) == /\ status[f] \in {"pending"} \cup Classes
              /\ f \in sent \ confirmed
              /\ confirmed' = confirmed \cup {f}
              /\ UNCHANGED <<status, sent>>

Release(f) == /\ status[f] \in {"pending"} \cup Classes
              /\ f \notin confirmed
              /\ status' = [status EXCEPT ![f] = "default"]
              /\ UNCHANGED <<sent, confirmed>>

Classify(f) == /\ status[f] # "absent"
               /\ f \in sent
               /\ status' = [status EXCEPT ![f] = Label[f]]
               /\ UNCHANGED <<sent, confirmed>>

Next == \E f \in Flows :
          \/ Collect(f) \/ Lock(f) \/ Send(f) \/ Confirm(f)
          \/ Release(f) \/ Classify(f)

Spec == Init /\ [][Next]_vars
=============================================================================
