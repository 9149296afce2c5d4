------------------------ MODULE FlowCapture_proofs ------------------------
(***************************************************************************)
(* Proofs about FlowCapture, for any flows, packet counts and failures.    *)
(***************************************************************************)
EXTENDS FlowCapture, TLAPS

-----------------------------------------------------------------------------
(* Sequences, as the publish queue and the stream use them. *)

\* What put() and XADD do to a sequence.
LEMMA AppendFacts ==
  ASSUME NEW S, NEW s \in Seq(S), NEW e \in S
  PROVE  /\ Append(s, e) \in Seq(S)
         /\ Len(Append(s, e)) = Len(s) + 1
         /\ Append(s, e)[Len(s) + 1] = e
         /\ \A i \in 1 .. Len(s) : Append(s, e)[i] = s[i]
  OBVIOUS

\* What get() does to the queue.
LEMMA TailFacts ==
  ASSUME NEW S, NEW s \in Seq(S), s # <<>>
  PROVE  /\ Tail(s) \in Seq(S)
         /\ Len(Tail(s)) = Len(s) - 1
         /\ Len(s) > 0
         /\ Head(s) = s[1]
         /\ Head(s) \in S
         /\ \A i \in 1 .. Len(s) - 1 : Tail(s)[i] = s[i + 1]
  OBVIOUS

\* The id XADD just gave out is an id of the stream.
LEMMA LastIsElement ==
  ASSUME NEW S, NEW s \in Seq(S), s # <<>>
  PROVE  Len(s) \in 1 .. Len(s)
  OBVIOUS

\* A queue without items is the empty one.
LEMMA EmptyIsZero ==
  ASSUME NEW S, NEW s \in Seq(S), Len(s) = 0
  PROVE  s = <<>>
  OBVIOUS

-----------------------------------------------------------------------------
(* Types. *)

\* An empty cache, and every thread at its start.
LEMMA InitTypes == Init => TypeOK
  BY CountsAssumption DEF Init, TypeOK, Statuses, MainPcs, HandlerPcs, PubPcs, SubscriberStates, Ids

\* Steps of the service and of the subscriber thread only move ids about.
LEMMA MovedIdsTypes ==
  ASSUME TypeOK,
         UNCHANGED <<status, packets, toArrive, mainPc, mainFlow, queue, pubPc, pubFlow,
                     stream, latency, cleanFailures, halfFailures, publishMode>>,
         unanswered' \subseteq Ids, results' \subseteq Ids, lost' \subseteq Ids,
         subscriber' \in SubscriberStates
  PROVE  TypeOK'
<1>1. Ids' = Ids BY DEF Ids
<1> QED BY <1>1 DEF TypeOK

\* Every step keeps the types.
LEMMA NextTypes ==
  ASSUME TypeOK, [Next]_vars
  PROVE  TypeOK'
<1> USE DEF TypeOK, Statuses, Classes, MainPcs, HandlerPcs, ShutdownPcs, PubPcs,
            SubscriberStates, Ids, cacheVars, mainVars, pubVars, redisVars, failureVars
<1>1. ASSUME NEW f \in Flows, PacketArrives(f) PROVE TypeOK'
  <2>1. toArrive' \in [Flows -> Nat] /\ status' \in [Flows -> Statuses]
    BY <1>1 DEF PacketArrives
  <2>2. mainPc' \in {"append", "isReady"} /\ mainFlow' = f
    BY <1>1 DEF PacketArrives
  <2> QED BY <1>1, <2>1, <2>2 DEF PacketArrives
<1>2. CASE AppendPacket
  <2>1. mainFlow \in Flows BY <1>2 DEF AppendPacket
  <2>2. packets[mainFlow] < FeaturePacketCount
          => packets[mainFlow] + 1 \in 0 .. FeaturePacketCount
    BY <2>1, CountsAssumption
  <2>3. packets' \in [Flows -> 0 .. FeaturePacketCount]
    BY <1>2, <2>1, <2>2 DEF AppendPacket
  <2> QED BY <1>2, <2>1, <2>3 DEF AppendPacket
<1>3. CASE CheckReady
  BY <1>3, SMTT(30) DEF CheckReady, Ready
<1>4. CASE MarkUnpublished
  BY <1>4 DEF MarkUnpublished
<1>5. CASE MarkPending
  BY <1>5 DEF MarkPending
<1>6. CASE HandOver
  <2>1. mainFlow \in Flows BY <1>6 DEF HandOver
  <2>2. CASE publishMode = "queue"
    <3>1. queue' = Append(queue, mainFlow)
      BY <1>6, <2>2 DEF HandOver
    <3>2. queue' \in Seq(Flows \cup {Stop})
      BY <2>1, <3>1
    <3> QED BY <1>6, <2>2, <3>2 DEF HandOver
  <2>3. CASE publishMode = "inline"
    BY <1>6, <2>1, <2>3 DEF HandOver
  <2> QED BY <1>6, <2>2, <2>3 DEF HandOver
<1>7. CASE TakeRequest
  <2>1. Tail(queue) \in Seq(Flows \cup {Stop}) /\ Head(queue) \in Flows \cup {Stop}
    BY <1>7, TailFacts DEF TakeRequest
  <2> QED BY <1>7, <2>1, ZenonT(60) DEF TakeRequest
<1>8. ASSUME pubPc = "xadd", StoreRequest
      PROVE  /\ stream' \in Seq(Flows)
             /\ Len(stream') = Len(stream) + 1
             /\ unanswered' \subseteq Ids'
  <2>1. pubFlow \in Flows BY <1>8
  <2>2. stream' \in Seq(Flows) /\ Len(stream') = Len(stream) + 1
    BY <1>8, <2>1, AppendFacts DEF StoreRequest
  <2>3. Len(stream) \in Nat OBVIOUS
  <2>4. unanswered' = unanswered \cup {Len(stream) + 1} BY <1>8 DEF StoreRequest
  <2>5. \A id \in Ids : id \in 1 .. Len(stream')
    BY <2>2, <2>3
  <2>6. Len(stream) + 1 \in 1 .. Len(stream')
    BY <2>2, <2>3
  <2> QED BY <2>2, <2>4, <2>5, <2>6
<1>9. CASE AddRequest
  <2>1. pubPc = "xadd" /\ StoreRequest BY <1>9 DEF AddRequest
  <2>2. Ids \subseteq Ids' BY <1>8, <2>1
  <2> QED BY <1>8, <1>9, <2>1, <2>2 DEF AddRequest, StoreRequest
<1>10. CASE RequestRefused
  <2>1. cleanFailures' \in Nat BY <1>10 DEF RequestRefused
  <2> QED BY <1>10, <2>1 DEF RequestRefused
<1>11. CASE ReplyLost
  <2>1. pubPc = "xadd" /\ StoreRequest BY <1>11 DEF ReplyLost
  <2>2. Ids \subseteq Ids' BY <1>8, <2>1
  <2>3. halfFailures' \in Nat BY <1>11 DEF ReplyLost
  <2> QED BY <1>8, <1>11, <2>1, <2>2, <2>3 DEF ReplyLost, StoreRequest
<1>12. CASE AddLatencyRow
  <2>1. pubFlow \in Flows /\ pubPc = "latency" BY <1>12 DEF AddLatencyRow
  <2>2. latency' \subseteq Ids /\ stream' = stream
    <3>1. Len(stream) \in 1 .. Len(stream) BY <2>1, LastIsElement, Zenon
    <3> QED BY <1>12, <3>1 DEF AddLatencyRow
  <2>3. mainPc' \in MainPcs /\ (mainPc' \in HandlerPcs => mainPc' = mainPc)
    BY <1>12 DEF AddLatencyRow, PublishReturns
  <2> QED BY <1>12, <2>1, <2>2, <2>3 DEF AddLatencyRow, PublishReturns
<1>13. CASE LatencyRowRefused
  <2>1. halfFailures' \in Nat BY <1>13 DEF LatencyRowRefused
  <2> QED BY <1>13, <2>1 DEF LatencyRowRefused
<1>14. CASE ResetStatus
  BY <1>14 DEF ResetStatus, PublishReturns
<1>15. CASE (\E id \in Ids : Answer(id) \/ Lose(id)) \/ Subscribe \/ SubscriberFails
             \/ UNCHANGED vars
  <2>1. unanswered' \subseteq Ids /\ results' \subseteq Ids /\ lost' \subseteq Ids
    BY <1>15 DEF Answer, Lose, Subscribe, SubscriberFails, vars
  <2>2. subscriber' \in SubscriberStates
    BY <1>15 DEF Answer, Lose, Subscribe, SubscriberFails, vars
  <2>3. UNCHANGED <<status, packets, toArrive, mainPc, mainFlow, queue, pubPc, pubFlow,
                    stream, latency, cleanFailures, halfFailures, publishMode>>
    BY <1>15 DEF Answer, Lose, Subscribe, SubscriberFails, vars
  <2> QED BY <2>1, <2>2, <2>3, MovedIdsTypes
<1>16. ASSUME NEW id \in Ids, ApplyResult(id) PROVE TypeOK'
  <2>1. stream[id] \in Flows BY <1>16
  <2>2. Label[stream[id]] \in Classes BY <2>1, LabelAssumption
  <2> QED BY <1>16, <2>1, <2>2, SMTT(30) DEF ApplyResult, ApplyClassificationResult
<1>17. CASE Interrupt
  <2>1. queue' = Append(queue, Stop) \/ queue' = queue
    BY <1>17 DEF Interrupt
  <2>2. queue' \in Seq(Flows \cup {Stop})
    <3>1. Stop \in Flows \cup {Stop} /\ queue \in Seq(Flows \cup {Stop}) OBVIOUS
    <3>2. Append(queue, Stop) \in Seq(Flows \cup {Stop}) BY <3>1, AppendFacts, Zenon
    <3> QED BY <2>1, <3>1, <3>2
  <2>3. mainPc' \in ShutdownPcs BY <1>17 DEF Interrupt
  <2> QED BY <1>17, <2>2, <2>3 DEF Interrupt
<1>18. CASE ShutdownStep
  BY <1>18 DEF ShutdownStep, JoinReturns, CloseProducer, CloseSubscriber
<1> QED
  BY <1>1, <1>2, <1>3, <1>4, <1>5, <1>6, <1>7, <1>9, <1>10, <1>11, <1>12, <1>13, <1>14,
     <1>15, <1>16, <1>17, <1>18
     DEF Next, HandlerStep, PublisherStep

\* Every variable keeps its type: in particular the ids in the latency rows,
\* the open requests and the results are ids of the stream.
THEOREM TypeCorrect == Spec => []TypeOK
<1>1. Init => TypeOK BY InitTypes
<1>2. TypeOK /\ [Next]_vars => TypeOK' BY NextTypes
<1> QED BY <1>1, <1>2, PTL DEF Spec

-----------------------------------------------------------------------------
(* The inductive invariant. *)

\* Nothing is cached, queued or stored.
LEMMA InitInv == Init => IndInv
<1> SUFFICES ASSUME Init PROVE IndInv
  OBVIOUS
<1>1. TypeOK BY InitTypes
<1>2. /\ queue = <<>> /\ Len(queue) = 0 /\ stream = <<>> /\ latency = {}
      /\ mainPc = "poll" /\ pubPc = "get"
      /\ \A f \in Flows : status[f] = "absent"
  BY DEF Init
<1>3. Ids = {} /\ 1 .. Len(queue) = {}
  <2>1. Len(stream) = 0 BY <1>2
  <2> QED BY <1>2, <2>1 DEF Ids
<1>4. \A f \in Flows : ~Queued(f) /\ ~MainHolds(f) /\ ~PublisherHolds(f) /\ RequestsOf(f) = {}
  BY <1>2, <1>3 DEF Queued, MainHolds, PublisherHolds, RequestsOf
<1>5. ControlFacts BY <1>2 DEF ControlFacts
<1>6. OneRequestInHand BY <1>2, <1>4 DEF OneRequestInHand
<1>7. InHandIsLocked /\ RequestsAreComplete
  BY <1>2, <1>4 DEF InHandIsLocked, RequestsAreComplete, InHand
<1>8. CompletedIsLocked /\ CompletedPublishIsFinal
  BY <1>2, <1>3 DEF CompletedIsLocked, CompletedPublishIsFinal
<1>9. LabelledWasRequested /\ JustAddedIsDue /\ PendingAwaitsAnswer
  BY <1>2, FlowsAssumption
     DEF LabelledWasRequested, Classes, JustAddedIsDue, PendingAwaitsAnswer
<1>10. StoppedPublisherLeftNothing BY <1>2 DEF StoppedPublisherLeftNothing
<1> QED
  BY <1>1, <1>5, <1>6, <1>7, <1>8, <1>9, <1>10 DEF IndInv

\* What a step without an XADD has to respect.  All but three of the actions
\* are of this kind, and are shown to be.
QuietStep ==
  /\ UNCHANGED <<stream, latency, publishMode>>
  /\ \A f \in Flows :
       /\ packets[f] = FeaturePacketCount => packets'[f] = packets[f]
       /\ InHand(f)' => InHand(f) \/ Ready(f)
       /\ InHand(f) => InHand(f)' \/ Stopping' \/ status'[f] # "pending"
       /\ status'[f] \in {"absent", "default"}
            => status[f] \in {"absent", "default"} \/ InHand(f)
       /\ status'[f] \in Classes
            => status'[f] = status[f] \/ (RequestsOf(f) # {} /\ status'[f] = Label[f])
  /\ \A f \in Flows :
       WillPublish(f) /\ status'[f] = "pending" /\ ~Stopping'
         => (status[f] = "pending" /\ ~Stopping) \/ InHand(f)
  /\ pubPc' = "latency" =>
       /\ pubPc = "latency"
       /\ pubFlow' = pubFlow
       /\ status'[pubFlow] = "pending" => status[pubFlow] = "pending"
  /\ \A id \in unanswered \cup results \cup lost :
       id \in (unanswered \cup results \cup lost)' \/ status'[stream[id]] # "pending"

\* A quiet step that keeps the structural part of the invariant keeps the rest.
LEMMA QuietStepInv ==
  ASSUME IndInv, TypeOK', ControlFacts', OneRequestInHand', InHandIsLocked',
         StoppedPublisherLeftNothing', QuietStep
  PROVE  IndInv'
<1>1. /\ stream' = stream /\ latency' = latency /\ Ids' = Ids
      /\ \A f \in Flows : RequestsOf(f)' = RequestsOf(f)
  BY DEF QuietStep, Ids, RequestsOf
<1>2. \A id \in Ids : stream[id] \in Flows
  BY DEF IndInv, TypeOK, Ids
<1>3. \A f \in Flows : Ready(f) => packets[f] = FeaturePacketCount
  BY CountsAssumption DEF IndInv, TypeOK, Ready
<1>4. RequestsAreComplete'
  BY <1>1, <1>3 DEF IndInv, RequestsAreComplete, QuietStep
<1>5. CompletedIsLocked'
  <2> SUFFICES ASSUME NEW id \in latency
               PROVE  ~InHand(stream[id])' /\ status'[stream[id]] \notin {"absent", "default"}
    BY <1>1 DEF CompletedIsLocked
  <2>1. stream[id] \in Flows BY <1>2 DEF IndInv, TypeOK
  <2>2. ~InHand(stream[id]) /\ status[stream[id]] \notin {"absent", "default"}
    BY DEF IndInv, CompletedIsLocked
  <2>3. ~Ready(stream[id]) BY <2>2 DEF Ready
  <2> QED BY <2>1, <2>2, <2>3 DEF QuietStep
<1>6. CompletedPublishIsFinal'
  BY <1>1 DEF IndInv, CompletedPublishIsFinal
<1>7. LabelledWasRequested'
  BY <1>1 DEF IndInv, LabelledWasRequested, QuietStep
<1>8. JustAddedIsDue'
  <2> SUFFICES ASSUME pubPc' = "latency", status'[pubFlow'] = "pending"
               PROVE  Len(stream) \in (unanswered \cup results \cup lost)'
    BY <1>1 DEF JustAddedIsDue
  <2>1. pubPc = "latency" /\ pubFlow' = pubFlow /\ status[pubFlow] = "pending"
    BY DEF QuietStep
  <2>2. Len(stream) \in unanswered \cup results \cup lost /\ stream[Len(stream)] = pubFlow
    BY <2>1 DEF IndInv, JustAddedIsDue, ControlFacts
  <2> QED BY <2>1, <2>2 DEF QuietStep
<1>9. PendingAwaitsAnswer'
  <2> SUFFICES ASSUME NEW f \in Flows, WillPublish(f)', status'[f] = "pending", ~Stopping',
                      ~InHand(f)'
               PROVE  \E id \in (unanswered \cup results \cup lost)' : stream[id] = f
    BY <1>1 DEF PendingAwaitsAnswer
  <2>1. WillPublish(f) BY DEF QuietStep, WillPublish
  <2>2. status[f] = "pending" /\ ~Stopping /\ ~InHand(f) BY <2>1 DEF QuietStep
  <2>3. PICK id \in unanswered \cup results \cup lost : stream[id] = f
    BY <2>1, <2>2 DEF IndInv, PendingAwaitsAnswer
  <2> QED BY <2>3 DEF QuietStep
<1> QED BY <1>4, <1>5, <1>6, <1>7, <1>8, <1>9 DEF IndInv

\* A step that leaves the queue and the publisher alone, and after which
\* on_event holds a ready flow only as before, keeps the structural part too.
LEMMA KeepHandsInv ==
  ASSUME IndInv, TypeOK', UNCHANGED <<queue, stream, latency, publishMode>>,
         /\ pubFlow' = pubFlow
         /\ pubPc' = pubPc \/ (pubPc \in {"xadd", "latency"} /\ pubPc' = "reset"),
         publishMode # "queue" /\ mainPc' # "publishing" => pubPc' = "get",
         publishMode # "inline" => mainPc' # "publishing",
         Stopping => Stopping',
         mainPc' = "notPublished" => ~WillPublish(mainFlow'),
         \A f \in Flows :
           /\ MainHolds(f)' <=> MainHolds(f)
           /\ (mainPc = "put" /\ mainFlow = f)' => status'[f] \notin {"absent", "default"}
           /\ packets[f] = FeaturePacketCount => packets'[f] = packets[f]
           /\ status'[f] \in {"absent", "default"} => status[f] \in {"absent", "default"}
           /\ status'[f] \in Classes
                => status'[f] = status[f] \/ (RequestsOf(f) # {} /\ status'[f] = Label[f])
           /\ status'[f] = "pending"
                => status[f] = "pending" \/ MainHolds(f)
                   \/ (status[f] = "default" /\ ~WillPublish(f)),
         \A id \in unanswered \cup results \cup lost :
           id \in (unanswered \cup results \cup lost)' \/ status'[stream[id]] # "pending"
  PROVE  IndInv'
<1>1. \A f \in Flows : /\ Queued(f)' <=> Queued(f)
                       /\ PublisherHolds(f)' <=> PublisherHolds(f)
                       /\ InHand(f)' <=> InHand(f)
  BY DEF Queued, PublisherHolds, InHand
<1>2. ControlFacts'
  BY DEF IndInv, ControlFacts, WillPublish
<1>3. OneRequestInHand'
  BY <1>1 DEF IndInv, OneRequestInHand
<1>4. InHandIsLocked'
  BY <1>1 DEF IndInv, InHandIsLocked
<1>5. StoppedPublisherLeftNothing'
  BY DEF IndInv, StoppedPublisherLeftNothing
<1>6. pubPc' = "latency" =>
        /\ pubPc = "latency"
        /\ status'[pubFlow] = "pending" => status[pubFlow] = "pending"
  <2>1. pubPc = "latency" =>
          /\ pubFlow \in Flows
          /\ PublisherHolds(pubFlow)
          /\ ~MainHolds(pubFlow)
          /\ status[pubFlow] \notin {"absent", "default"}
    BY DEF IndInv, TypeOK, PublisherHolds, OneRequestInHand, InHandIsLocked
  <2> QED BY <2>1
<1>7. QuietStep
  BY <1>1, <1>6, FlowsAssumption DEF QuietStep, InHand
<1> QED BY <1>2, <1>3, <1>4, <1>5, <1>7, QuietStepInv

\* on_event up to the readiness check, the other direction's pending mark, and
\* mark_pending: nothing is handed over yet.
LEMMA HandlerInv ==
  ASSUME IndInv, TypeOK',
         (\E f \in Flows : PacketArrives(f)) \/ AppendPacket \/ MarkUnpublished \/ MarkPending
  PROVE  IndInv'
<1>1. ASSUME NEW f \in Flows, PacketArrives(f) PROVE IndInv'
  <2>1. \A g \in Flows :
          status'[g] = IF g = f /\ status[f] = "absent" THEN "default" ELSE status[g]
    BY <1>1 DEF PacketArrives, IndInv, TypeOK
  <2>2. mainPc = "poll" /\ mainPc' \in {"append", "isReady"}
    BY <1>1 DEF PacketArrives
  <2>3. UNCHANGED <<packets, queue, pubPc, pubFlow, stream, latency, unanswered, results, lost,
                    publishMode>>
    BY <1>1 DEF PacketArrives, pubVars, redisVars
  <2> QED BY <2>1, <2>2, <2>3, KeepHandsInv
             DEF IndInv, ControlFacts, MainHolds, Stopping, ShutdownPcs, Classes
<1>2. CASE AppendPacket
  <2>1. UNCHANGED <<status, mainFlow, queue, pubPc, pubFlow,
                    stream, latency, unanswered, results, lost, publishMode>>
    BY <1>2 DEF AppendPacket, pubVars, redisVars
  <2>2. mainPc = "append" /\ mainPc' = "isReady"
    BY <1>2 DEF AppendPacket
  <2>3. \A f \in Flows : packets[f] = FeaturePacketCount => packets'[f] = packets[f]
    BY <1>2, CountsAssumption DEF AppendPacket, IndInv, TypeOK
  <2> QED BY <2>1, <2>2, <2>3, KeepHandsInv
             DEF IndInv, ControlFacts, MainHolds, Stopping, ShutdownPcs
<1>3. CASE MarkUnpublished
  <2>1. /\ mainPc = "notPublished" /\ mainPc' = "poll"
        /\ mainFlow \in Flows /\ ~WillPublish(mainFlow)
    BY <1>3 DEF MarkUnpublished, IndInv, TypeOK, HandlerPcs, ControlFacts
  <2>2. \A f \in Flows :
          status'[f] = IF f = mainFlow /\ status[f] = "default" THEN "pending" ELSE status[f]
    BY <1>3 DEF MarkUnpublished, IndInv, TypeOK
  <2>3. UNCHANGED <<packets, queue, pubPc, pubFlow, stream, latency, unanswered, results, lost,
                    publishMode>>
    BY <1>3 DEF MarkUnpublished, pubVars, redisVars
  <2> QED BY <2>1, <2>2, <2>3, KeepHandsInv
             DEF IndInv, ControlFacts, MainHolds, Stopping, ShutdownPcs, Classes
<1>4. CASE MarkPending
  <2>1. mainPc = "mark" /\ mainPc' = "put" /\ mainFlow' = mainFlow /\ mainFlow \in Flows
    BY <1>4 DEF MarkPending, IndInv, TypeOK, HandlerPcs
  <2>2. \A f \in Flows : status'[f] = IF f = mainFlow THEN "pending" ELSE status[f]
    BY <1>4 DEF MarkPending, IndInv, TypeOK
  <2>3. UNCHANGED <<packets, queue, pubPc, pubFlow, stream, latency, unanswered, results, lost,
                    publishMode>>
    BY <1>4 DEF MarkPending, pubVars, redisVars
  <2> QED BY <2>1, <2>2, <2>3, KeepHandsInv
             DEF IndInv, ControlFacts, MainHolds, Stopping, ShutdownPcs, Classes
<1> QED BY <1>1, <1>2, <1>3, <1>4

\* Failed publishes up to the reset, the service and the subscriber thread,
\* and the shutdown after the sentinel.
LEMMA OutsideInv ==
  ASSUME IndInv, TypeOK',
         \/ RequestRefused \/ LatencyRowRefused \/ ShutdownStep
         \/ \E id \in Ids : Answer(id) \/ Lose(id) \/ ApplyResult(id)
         \/ Subscribe \/ SubscriberFails \/ UNCHANGED vars
  PROVE  IndInv'
<1>1. CASE RequestRefused \/ LatencyRowRefused
  <2>1. pubPc \in {"xadd", "latency"} /\ pubPc' = "reset" /\ pubFlow' = pubFlow
    BY <1>1 DEF RequestRefused, LatencyRowRefused
  <2>2. UNCHANGED <<status, packets, mainPc, mainFlow, queue, stream, latency,
                    unanswered, results, lost, publishMode>>
    BY <1>1 DEF RequestRefused, LatencyRowRefused, cacheVars, mainVars, redisVars
  <2>3. publishMode # "queue" => mainPc = "publishing"
    BY <2>1 DEF IndInv, ControlFacts
  <2> QED BY <2>1, <2>2, <2>3, KeepHandsInv
             DEF IndInv, ControlFacts, MainHolds, InHandIsLocked, Stopping
<1>2. CASE ShutdownStep
  <2>1. mainPc \in ShutdownPcs /\ mainPc' \in ShutdownPcs /\ mainFlow' = mainFlow
    BY <1>2 DEF ShutdownStep, JoinReturns, CloseProducer, CloseSubscriber, ShutdownPcs
  <2>2. UNCHANGED <<status, packets, queue, pubPc, pubFlow, stream, latency, unanswered,
                    publishMode>>
    BY <1>2 DEF ShutdownStep, JoinReturns, CloseProducer, CloseSubscriber,
                cacheVars, pubVars, redisVars
  <2>3. (unanswered \cup results \cup lost)' = unanswered \cup results \cup lost
    BY <1>2 DEF ShutdownStep, JoinReturns, CloseProducer, CloseSubscriber, redisVars
  <2> QED BY <2>1, <2>2, <2>3, KeepHandsInv
             DEF IndInv, ControlFacts, MainHolds, Stopping, ShutdownPcs
<1>3. CASE (\E id \in Ids : Answer(id) \/ Lose(id)) \/ Subscribe \/ SubscriberFails \/ UNCHANGED vars
  <2>1. UNCHANGED <<status, packets, mainPc, mainFlow, queue, pubPc, pubFlow, stream, latency,
                    publishMode>>
    BY <1>3 DEF Answer, Lose, Subscribe, SubscriberFails, vars, cacheVars, mainVars, pubVars,
                redisVars
  <2>2. (unanswered \cup results \cup lost)' = unanswered \cup results \cup lost
    BY <1>3 DEF Answer, Lose, Subscribe, SubscriberFails, vars, redisVars
  <2> QED BY <2>1, <2>2, KeepHandsInv
             DEF IndInv, ControlFacts, MainHolds, InHandIsLocked, Stopping
<1>4. ASSUME NEW id \in Ids, ApplyResult(id) PROVE IndInv'
  <2>1. stream[id] \in Flows /\ Label[stream[id]] \in Classes /\ RequestsOf(stream[id]) # {}
    <3>1. stream[id] \in Flows BY DEF IndInv, TypeOK, Ids
    <3> QED BY <3>1, LabelAssumption DEF Classes, RequestsOf
  <2>2. \A f \in Flows : status'[f] = IF f = stream[id] THEN Label[f] ELSE status[f]
    BY <1>4 DEF ApplyResult, ApplyClassificationResult, IndInv, TypeOK
  <2>3. UNCHANGED <<packets, mainPc, mainFlow, queue, pubPc, pubFlow,
                    stream, latency, unanswered, lost, publishMode>>
    BY <1>4 DEF ApplyResult, mainVars, pubVars
  <2>4. \A i \in unanswered \cup results \cup lost :
          i \in (unanswered \cup results \cup lost)' \/ status'[stream[i]] # "pending"
    <3>1. results' = results \ {id} BY <1>4 DEF ApplyResult
    <3>2. status'[stream[id]] # "pending" BY <2>1, <2>2 DEF Classes
    <3> QED BY <2>3, <3>1, <3>2
  <2> QED BY <2>1, <2>2, <2>3, <2>4, KeepHandsInv
             DEF IndInv, ControlFacts, MainHolds, InHandIsLocked, Stopping, Classes
<1> QED BY <1>1, <1>2, <1>3, <1>4

\* What appending one item does to the publish queue.
LEMMA PutFacts ==
  ASSUME NEW S, queue \in Seq(S), NEW item \in S, queue' = Append(queue, item)
  PROVE  /\ Len(queue) \in Nat
         /\ Len(queue') = Len(queue) + 1
         /\ queue'[Len(queue')] = item
         /\ Len(queue') \in 1 .. Len(queue')
         /\ \A i \in 1 .. Len(queue) : queue'[i] = queue[i] /\ i \in 1 .. Len(queue') /\ i # Len(queue')
         /\ \A i \in 1 .. Len(queue') : i \in 1 .. Len(queue) \/ i = Len(queue')
         /\ \A f : Queued(f)' <=> Queued(f) \/ f = item
<1>1. Len(queue) \in Nat OBVIOUS
<1>2. /\ Len(queue') = Len(queue) + 1
      /\ queue'[Len(queue) + 1] = item
      /\ \A i \in 1 .. Len(queue) : queue'[i] = queue[i]
  BY AppendFacts
<1>3. /\ Len(queue') \in 1 .. Len(queue')
      /\ \A i \in 1 .. Len(queue) : i \in 1 .. Len(queue') /\ i # Len(queue')
      /\ \A i \in 1 .. Len(queue') : i \in 1 .. Len(queue) \/ i = Len(queue')
  BY <1>1, <1>2
<1>4. \A f : Queued(f)' <=> Queued(f) \/ f = item
  <2> TAKE f
  <2>1. ASSUME Queued(f)' PROVE Queued(f) \/ f = item
    <3>1. PICK i \in 1 .. Len(queue') : queue'[i] = f BY <2>1 DEF Queued
    <3> QED BY <1>2, <1>3, <3>1 DEF Queued
  <2>2. ASSUME Queued(f) PROVE Queued(f)'
    <3>1. PICK i \in 1 .. Len(queue) : queue[i] = f BY <2>2 DEF Queued
    <3> QED BY <1>2, <1>3, <3>1 DEF Queued
  <2>3. ASSUME f = item PROVE Queued(f)'
    BY <1>2, <1>3, <2>3 DEF Queued
  <2> QED BY <2>1, <2>2, <2>3
<1> QED BY <1>1, <1>2, <1>3, <1>4

\* The readiness check takes a flow in hand that nobody else holds.
LEMMA CheckReadyInv ==
  ASSUME IndInv, TypeOK', CheckReady
  PROVE  IndInv'
<1>1. UNCHANGED <<status, packets, queue, pubPc, pubFlow, stream, latency, unanswered, results, lost,
                  publishMode>>
  BY DEF CheckReady, cacheVars, pubVars, redisVars
<1>2. mainPc = "isReady" /\ mainPc' \in {"poll", "mark", "notPublished"} /\ mainFlow \in Flows
  BY DEF CheckReady, IndInv, TypeOK, HandlerPcs
<1>3. mainPc' = "notPublished" => ~WillPublish(mainFlow')
  BY DEF CheckReady
<1>4. \A f \in Flows : MainHolds(f)' => Ready(f)
  BY <1>2 DEF CheckReady, MainHolds
<1>5. \A f \in Flows : /\ ~MainHolds(f)
                       /\ Queued(f)' <=> Queued(f)
                       /\ PublisherHolds(f)' <=> PublisherHolds(f)
                       /\ Ready(f) => ~Queued(f) /\ ~PublisherHolds(f)
  BY <1>1, <1>2 DEF MainHolds, Queued, PublisherHolds, Ready, IndInv, InHandIsLocked
<1>6. ControlFacts'
  BY <1>1, <1>2, <1>3 DEF IndInv, ControlFacts, Stopping, ShutdownPcs, WillPublish
<1>7. OneRequestInHand'
  BY <1>1, <1>4, <1>5 DEF IndInv, OneRequestInHand
<1>8. InHandIsLocked'
  BY <1>1, <1>2, <1>5 DEF IndInv, InHandIsLocked
<1>9. StoppedPublisherLeftNothing'
  BY <1>1 DEF IndInv, StoppedPublisherLeftNothing
<1>10. QuietStep
  BY <1>1, <1>2, <1>4, <1>5, FlowsAssumption DEF QuietStep, InHand, Stopping, ShutdownPcs
<1> QED BY <1>6, <1>7, <1>8, <1>9, <1>10, QuietStepInv

\* put(), or the inline publish: the request moves on, out of on_event.
LEMMA HandOverInv ==
  ASSUME IndInv, TypeOK', HandOver
  PROVE  IndInv'
<1>1. /\ UNCHANGED <<status, packets, stream, latency, unanswered, results, lost, publishMode>>
      /\ queue \in Seq(Flows \cup {Stop})
  BY DEF HandOver, cacheVars, redisVars, IndInv, TypeOK
<1>2. /\ mainPc = "put" /\ mainFlow \in Flows /\ mainFlow # Stop /\ MainHolds(mainFlow)
      /\ mainPc' \in {"poll", "publishing"} /\ mainFlow' \notin Flows
      /\ ~Stopping /\ ~Stopping'
  BY FlowsAssumption DEF HandOver, IndInv, TypeOK, HandlerPcs, MainHolds, Stopping, ShutdownPcs
<1>3. /\ status[mainFlow] \notin {"absent", "default"}
      /\ ~Queued(mainFlow) /\ ~PublisherHolds(mainFlow)
  BY <1>2 DEF IndInv, InHandIsLocked, OneRequestInHand
<1>4. \A f \in Flows : ~MainHolds(f)' /\ (MainHolds(f) <=> f = mainFlow)
  BY <1>2 DEF MainHolds
<1>5. CASE publishMode = "queue"
  <2>1. queue' = Append(queue, mainFlow) /\ mainPc' = "poll" /\ UNCHANGED <<pubPc, pubFlow,
                                                                            publishMode>>
    BY <1>5 DEF HandOver, pubVars
  <2>2. /\ Len(queue) \in Nat
        /\ queue'[Len(queue')] = mainFlow
        /\ \A i \in 1 .. Len(queue) : queue'[i] = queue[i] /\ i # Len(queue')
        /\ \A i \in 1 .. Len(queue') : i \in 1 .. Len(queue) \/ i = Len(queue')
        /\ \A f : Queued(f)' <=> Queued(f) \/ f = mainFlow
    BY <1>1, <1>2, <2>1, PutFacts
  <2>3. \A f \in Flows : /\ PublisherHolds(f)' <=> PublisherHolds(f)
                         /\ InHand(f)' <=> InHand(f)
    BY <1>4, <2>1, <2>2 DEF PublisherHolds, InHand
  <2>4. \A i \in 1 .. Len(queue') : queue'[i] # Stop
    BY <1>2, <2>2 DEF IndInv, ControlFacts
  <2>5. ControlFacts'
    BY <1>1, <1>2, <1>5, <2>1, <2>4 DEF IndInv, ControlFacts
  <2>6. OneRequestInHand'
    <3>1. \A i \in 1 .. Len(queue) : queue[i] # mainFlow BY <1>3 DEF Queued
    <3>2. ASSUME NEW i \in 1 .. Len(queue'), NEW j \in 1 .. Len(queue'), queue'[i] = queue'[j]
          PROVE  i = j
      BY <2>2, <3>1, <3>2 DEF IndInv, OneRequestInHand
    <3> QED BY <1>3, <1>4, <2>2, <2>3, <3>2 DEF IndInv, OneRequestInHand
  <2>7. InHandIsLocked'
    BY <1>1, <1>2, <1>3, <2>1, <2>2, <2>3 DEF IndInv, InHandIsLocked
  <2>8. StoppedPublisherLeftNothing'
    BY <1>2, <2>1 DEF IndInv, ControlFacts, StoppedPublisherLeftNothing
  <2>9. QuietStep
    BY <1>1, <1>2, <2>1, <2>3, FlowsAssumption DEF QuietStep
  <2> QED BY <2>5, <2>6, <2>7, <2>8, <2>9, QuietStepInv
<1>6. CASE publishMode = "inline"
  <2>1. /\ queue' = queue /\ queue = <<>> /\ mainPc' = "publishing"
        /\ pubPc = "get" /\ pubPc' = "xadd" /\ pubFlow' = mainFlow
    BY <1>2, <1>6 DEF HandOver, IndInv, ControlFacts
  <2>2. \A f \in Flows : /\ Queued(f)' <=> Queued(f)
                         /\ ~PublisherHolds(f)
                         /\ PublisherHolds(f)' <=> f = mainFlow
                         /\ InHand(f)' <=> InHand(f)
    BY <1>4, <2>1 DEF Queued, PublisherHolds, InHand
  <2>3. ControlFacts'
    BY <1>1, <1>2, <1>6, <2>1 DEF IndInv, ControlFacts
  <2>4. OneRequestInHand'
    BY <1>3, <1>4, <2>1, <2>2 DEF IndInv, OneRequestInHand
  <2>5. InHandIsLocked'
    BY <1>1, <1>2, <1>3, <2>1, <2>2 DEF IndInv, InHandIsLocked
  <2>6. StoppedPublisherLeftNothing'
    BY <2>1 DEF StoppedPublisherLeftNothing
  <2>7. QuietStep
    BY <1>1, <1>2, <2>1, <2>2, FlowsAssumption DEF QuietStep
  <2> QED BY <2>3, <2>4, <2>5, <2>6, <2>7, QuietStepInv
<1> QED BY <1>5, <1>6 DEF HandOver

\* get(): the request moves from the queue to the publisher thread.
LEMMA TakeRequestInv ==
  ASSUME IndInv, TypeOK', TakeRequest
  PROVE  IndInv'
<1>1. /\ TypeOK /\ ControlFacts /\ OneRequestInHand
      /\ queue \in Seq(Flows \cup {Stop}) /\ queue # <<>> /\ pubPc = "get"
      /\ UNCHANGED <<status, packets, mainPc, mainFlow, stream, latency, unanswered, results, lost,
                     publishMode>>
  BY DEF IndInv, TypeOK, TakeRequest, cacheVars, mainVars, redisVars
<1>2. /\ Len(queue) \in Nat /\ Len(queue) > 0
      /\ Len(queue') = Len(queue) - 1
      /\ Head(queue) = queue[1]
      /\ queue[1] \in Flows \cup {Stop}
      /\ \A i \in 1 .. Len(queue') : queue'[i] = queue[i + 1] /\ i + 1 \in 1 .. Len(queue)
  <2>1. queue' = Tail(queue) BY DEF TakeRequest
  <2>2. Len(queue) \in Nat BY <1>1
  <2> QED BY <1>1, <2>1, <2>2, TailFacts
<1>3. publishMode = "queue" /\ (queue[1] # Stop => queue[1] \in Flows)
  BY <1>1, <1>2 DEF ControlFacts, TypeOK
<1>4. queue[1] = Stop => Len(queue) = 1 /\ queue' = <<>> /\ Stopping
  <2>1. 1 \in 1 .. Len(queue) BY <1>2
  <2>2. queue[1] = Stop => 1 = Len(queue) /\ Stopping BY <1>1, <2>1 DEF ControlFacts
  <2>3. queue' \in Seq(Flows \cup {Stop}) BY DEF TypeOK
  <2>4. Len(queue') = 0 => queue' = <<>> BY <2>3, EmptyIsZero
  <2> QED BY <1>2, <2>2, <2>4
<1>5. \A f \in Flows : Queued(f)' => Queued(f) /\ f # queue[1]
  <2> SUFFICES ASSUME NEW f \in Flows, Queued(f)' PROVE Queued(f) /\ f # queue[1]
    OBVIOUS
  <2>1. PICK i \in 1 .. Len(queue') : queue'[i] = f BY DEF Queued
  <2>2. i + 1 \in 1 .. Len(queue) /\ queue[i + 1] = f BY <1>2, <2>1
  <2>3. 1 \in 1 .. Len(queue) /\ i + 1 # 1 BY <1>2, <2>1
  <2> QED BY <1>1, <2>2, <2>3 DEF Queued, OneRequestInHand
<1>6. \A f \in Flows : f = queue[1] => Queued(f)
  BY <1>2 DEF Queued
<1>7. \/ queue[1] = Stop /\ pubPc' = "done"
      \/ queue[1] \in Flows /\ pubPc' = "xadd" /\ pubFlow' = queue[1]
  BY <1>2, <1>3 DEF TakeRequest
<1>8. \A f \in Flows : /\ MainHolds(f)' = MainHolds(f)
                       /\ PublisherHolds(f)' => pubFlow' = f /\ f = queue[1] /\ Queued(f)
  BY <1>1, <1>6, <1>7 DEF MainHolds, PublisherHolds
<1>9. \A f \in Flows : InHand(f)' <=> InHand(f)
  <2> SUFFICES ASSUME NEW f \in Flows PROVE InHand(f)' <=> InHand(f)
    OBVIOUS
  <2>1. ~PublisherHolds(f) BY <1>1 DEF PublisherHolds
  <2>2. ASSUME Queued(f) PROVE Queued(f)' \/ PublisherHolds(f)'
    <3>1. PICK i \in 1 .. Len(queue) : queue[i] = f BY <2>2 DEF Queued
    <3>2. CASE i = 1 BY <1>7, <3>1, <3>2, FlowsAssumption DEF PublisherHolds
    <3>3. CASE i # 1
      <4>1. i - 1 \in 1 .. Len(queue') BY <1>2, <3>1, <3>3
      <4>2. queue'[i - 1] = f BY <1>2, <3>1, <4>1
      <4> QED BY <4>1, <4>2 DEF Queued
    <3> QED BY <3>2, <3>3
  <2> QED BY <1>5, <1>8, <2>1, <2>2 DEF InHand
<1>10. ControlFacts'
  <2>1. \A i \in 1 .. Len(queue') : queue'[i] = Stop => i = Len(queue') /\ Stopping'
    <3> SUFFICES ASSUME NEW i \in 1 .. Len(queue'), queue'[i] = Stop
                 PROVE  i = Len(queue') /\ Stopping'
      OBVIOUS
    <3>1. i + 1 \in 1 .. Len(queue) /\ queue[i + 1] = Stop BY <1>2
    <3>2. i + 1 = Len(queue) /\ Stopping BY <1>1, <3>1 DEF ControlFacts
    <3> QED BY <1>1, <1>2, <3>2 DEF Stopping
  <2> QED BY <1>1, <1>3, <1>4, <1>7, <2>1 DEF ControlFacts, Stopping, WillPublish
<1>11. OneRequestInHand'
  <2>1. ASSUME NEW i \in 1 .. Len(queue'), NEW j \in 1 .. Len(queue'), queue'[i] = queue'[j]
        PROVE  i = j
    <3>1. /\ i + 1 \in 1 .. Len(queue) /\ queue'[i] = queue[i + 1]
          /\ j + 1 \in 1 .. Len(queue) /\ queue'[j] = queue[j + 1]
      BY <1>2
    <3>2. i + 1 = j + 1 BY <1>1, <2>1, <3>1 DEF OneRequestInHand
    <3> QED BY <3>2
  <2> QED BY <1>1, <1>5, <1>8, <2>1 DEF OneRequestInHand
<1>12. InHandIsLocked'
  BY <1>1, <1>5, <1>8 DEF IndInv, InHandIsLocked
<1>13. StoppedPublisherLeftNothing'
  BY <1>4, <1>7 DEF StoppedPublisherLeftNothing
<1>14. QuietStep
  BY <1>1, <1>7, <1>9, FlowsAssumption DEF QuietStep, Stopping
<1> QED BY <1>10, <1>11, <1>12, <1>13, <1>14, QuietStepInv

\* Ctrl-C: what on_event held is dropped, and the sentinel is queued last.
LEMMA InterruptInv ==
  ASSUME IndInv, TypeOK', Interrupt
  PROVE  IndInv'
<1>1. /\ UNCHANGED <<status, packets, pubPc, pubFlow, stream, latency, unanswered, results, lost,
                     publishMode>>
      /\ queue \in Seq(Flows \cup {Stop})
  BY DEF Interrupt, cacheVars, pubVars, redisVars, IndInv, TypeOK
<1>2. /\ mainPc' \in {"join", "close"} /\ mainPc # "publishing"
      /\ ~Stopping /\ Stopping'
  BY DEF Interrupt, HandlerPcs, Stopping, ShutdownPcs
<1>3. \A f \in Flows : ~MainHolds(f)' /\ (PublisherHolds(f)' <=> PublisherHolds(f))
  BY <1>1, <1>2 DEF MainHolds, PublisherHolds
<1>4. /\ \A f \in Flows : Queued(f)' <=> Queued(f)
      /\ \A i \in 1 .. Len(queue') : queue'[i] = Stop => i = Len(queue')
      /\ \A i, j \in 1 .. Len(queue') : queue'[i] = queue'[j] => i = j
      /\ publishMode # "queue" => queue' = <<>>
  <2>1. \A i \in 1 .. Len(queue) : queue[i] # Stop
    BY <1>2 DEF IndInv, ControlFacts
  <2>2. CASE publishMode = "queue"
    <3>1. queue' = Append(queue, Stop) BY <2>2 DEF Interrupt
    <3>2. /\ Len(queue) \in Nat
          /\ queue'[Len(queue')] = Stop
          /\ \A i \in 1 .. Len(queue) : queue'[i] = queue[i] /\ i # Len(queue')
          /\ \A i \in 1 .. Len(queue') : i \in 1 .. Len(queue) \/ i = Len(queue')
          /\ \A f : Queued(f)' <=> Queued(f) \/ f = Stop
      BY <1>1, <3>1, PutFacts
    <3>3. ASSUME NEW i \in 1 .. Len(queue'), NEW j \in 1 .. Len(queue'), queue'[i] = queue'[j]
          PROVE  i = j
      BY <2>1, <3>2, <3>3 DEF IndInv, OneRequestInHand
    <3> QED BY <2>1, <2>2, <3>2, <3>3, FlowsAssumption
  <2>3. CASE publishMode # "queue"
    <3>1. queue' = queue /\ queue = <<>> BY <2>3 DEF Interrupt, IndInv, ControlFacts
    <3>2. 1 .. Len(queue') = {} BY <3>1
    <3> QED BY <3>1, <3>2 DEF Queued
  <2> QED BY <2>2, <2>3
<1>5. \A f \in Flows : InHand(f)' => InHand(f)
  BY <1>3, <1>4 DEF InHand
<1>6. ControlFacts'
  BY <1>1, <1>2, <1>4 DEF IndInv, ControlFacts
<1>7. OneRequestInHand'
  BY <1>3, <1>4 DEF IndInv, OneRequestInHand
<1>8. InHandIsLocked'
  BY <1>1, <1>2, <1>3, <1>4 DEF IndInv, InHandIsLocked
<1>9. StoppedPublisherLeftNothing'
  BY <1>1, <1>2 DEF IndInv, ControlFacts, StoppedPublisherLeftNothing
<1>10. QuietStep
  BY <1>1, <1>2, <1>5 DEF QuietStep, IndInv, LabelledWasRequested
<1> QED BY <1>6, <1>7, <1>8, <1>9, <1>10, QuietStepInv

\* The reset after a failed publish: the flow is let go, and is default.
LEMMA ResetStatusInv ==
  ASSUME IndInv, TypeOK', ResetStatus
  PROVE  IndInv'
<1>1. UNCHANGED <<packets, mainFlow, queue, stream, latency, unanswered, results, lost,
                  publishMode>>
  BY DEF ResetStatus, redisVars
<1>2. /\ pubPc = "reset" /\ pubPc' = "get" /\ pubFlow \in Flows /\ PublisherHolds(pubFlow)
      /\ mainPc' = IF mainPc = "publishing" THEN "poll" ELSE mainPc
      /\ mainPc \in MainPcs
  BY DEF ResetStatus, PublishReturns, IndInv, TypeOK, PublisherHolds
<1>3. \A f \in Flows : status'[f] = IF f = pubFlow THEN "default" ELSE status[f]
  BY <1>2 DEF ResetStatus, IndInv, TypeOK
<1>4. /\ Stopping' <=> Stopping
      /\ mainPc' \in {"mark", "put", "notPublished"} => mainPc' = mainPc
      /\ (mainPc' = "put" /\ mainPc = "put") \/ (mainPc' # "put" /\ mainPc # "put")
  BY <1>2 DEF Stopping, ShutdownPcs
<1>5. \A f \in Flows : /\ MainHolds(f)' <=> MainHolds(f)
                       /\ Queued(f)' <=> Queued(f)
                       /\ ~PublisherHolds(f)'
                       /\ PublisherHolds(f) <=> f = pubFlow
  BY <1>1, <1>2 DEF MainHolds, Queued, PublisherHolds
<1>6. ~MainHolds(pubFlow) /\ ~Queued(pubFlow)
  BY <1>2 DEF IndInv, OneRequestInHand
<1>7. ControlFacts'
  BY <1>1, <1>2, <1>4 DEF IndInv, ControlFacts, WillPublish
<1>8. OneRequestInHand'
  BY <1>1, <1>5 DEF IndInv, OneRequestInHand
<1>9. InHandIsLocked'
  BY <1>1, <1>2, <1>3, <1>4, <1>5, <1>6 DEF IndInv, InHandIsLocked, MainHolds
<1>10. StoppedPublisherLeftNothing'
  BY <1>2 DEF StoppedPublisherLeftNothing
<1>11. QuietStep
  BY <1>1, <1>2, <1>3, <1>4, <1>5, FlowsAssumption DEF QuietStep, InHand, Classes
<1> QED BY <1>7, <1>8, <1>9, <1>10, <1>11, QuietStepInv

\* An XADD, whose reply arrives or not: the new request is of the flow the
\* publisher holds, and no request of that flow is completed.
LEMMA StoreRequestInv ==
  ASSUME IndInv, TypeOK', AddRequest \/ ReplyLost
  PROVE  IndInv'
<1>1. /\ UNCHANGED <<status, packets, mainPc, mainFlow, queue, pubFlow, latency, results, lost,
                     publishMode>>
      /\ pubPc = "xadd" /\ pubPc' \in {"latency", "reset"}
      /\ pubFlow \in Flows /\ PublisherHolds(pubFlow)
  BY DEF AddRequest, ReplyLost, StoreRequest, cacheVars, mainVars, IndInv, TypeOK, PublisherHolds
<1>2. /\ Len(stream) \in Nat
      /\ Len(stream') = Len(stream) + 1
      /\ stream'[Len(stream')] = pubFlow
      /\ \A id \in Ids : stream'[id] = stream[id] /\ id \in Ids' /\ id < Len(stream')
      /\ \A id \in Ids' : id \in Ids \/ id = Len(stream')
      /\ Len(stream') \in Ids'
      /\ unanswered' = unanswered \cup {Len(stream')}
  <2>1. stream' = Append(stream, pubFlow) /\ unanswered' = unanswered \cup {Len(stream) + 1}
    BY DEF AddRequest, ReplyLost, StoreRequest
  <2>2. stream \in Seq(Flows) BY DEF IndInv, TypeOK
  <2>3. Len(stream) \in Nat BY <2>2
  <2>4. /\ Len(stream') = Len(stream) + 1
        /\ stream'[Len(stream) + 1] = pubFlow
        /\ \A id \in 1 .. Len(stream) : stream'[id] = stream[id]
    BY <1>1, <2>1, <2>2, AppendFacts
  <2> QED BY <2>1, <2>3, <2>4 DEF Ids
<1>3. \A f \in Flows : /\ InHand(f)' <=> InHand(f)
                       /\ MainHolds(f)' <=> MainHolds(f)
                       /\ Queued(f)' <=> Queued(f)
                       /\ PublisherHolds(f)' <=> PublisherHolds(f)
                       /\ RequestsOf(f)' # {} => RequestsOf(f) # {} \/ f = pubFlow
                       /\ RequestsOf(f) # {} => RequestsOf(f)' # {}
  <2>1. \A f \in Flows : /\ InHand(f)' <=> InHand(f)
                         /\ MainHolds(f)' <=> MainHolds(f)
                         /\ Queued(f)' <=> Queued(f)
                         /\ PublisherHolds(f)' <=> PublisherHolds(f)
    BY <1>1 DEF InHand, MainHolds, Queued, PublisherHolds
  <2>2. \A f \in Flows : /\ RequestsOf(f)' # {} => RequestsOf(f) # {} \/ f = pubFlow
                         /\ RequestsOf(f) # {} => RequestsOf(f)' # {}
    BY <1>2 DEF RequestsOf
  <2> QED BY <2>1, <2>2
<1>4. ControlFacts'
  BY <1>1, <1>2 DEF IndInv, ControlFacts, Stopping, WillPublish
<1>5. OneRequestInHand' /\ InHandIsLocked'
  BY <1>1, <1>3 DEF IndInv, OneRequestInHand, InHandIsLocked
<1>6. RequestsAreComplete'
  BY <1>1, <1>3 DEF IndInv, RequestsAreComplete, InHand
<1>7. CompletedIsLocked'
  <2>1. \A id \in latency : id \in Ids /\ stream[id] \in Flows BY DEF IndInv, TypeOK, Ids
  <2> QED BY <1>1, <1>2, <1>3, <2>1 DEF IndInv, CompletedIsLocked
<1>8. CompletedPublishIsFinal'
  <2> SUFFICES ASSUME NEW i \in Ids', NEW j \in Ids', i < j, stream'[i] = stream'[j], i \in latency
               PROVE  FALSE
    BY <1>1 DEF CompletedPublishIsFinal
  <2>1. i \in Ids BY DEF IndInv, TypeOK
  <2>2. j \in Ids \/ j = Len(stream') BY <1>2
  <2>3. CASE j \in Ids
    BY <1>2, <2>1, <2>3 DEF IndInv, CompletedPublishIsFinal
  <2>4. CASE j = Len(stream')
    <3>1. stream[i] = pubFlow BY <1>2, <2>1, <2>4
    <3> QED BY <1>1, <3>1 DEF IndInv, CompletedIsLocked, InHand
  <2> QED BY <2>2, <2>3, <2>4
<1>9. LabelledWasRequested'
  BY <1>1, <1>3 DEF IndInv, LabelledWasRequested
<1>10. JustAddedIsDue'
  BY <1>1, <1>2 DEF JustAddedIsDue
<1>11. PendingAwaitsAnswer'
  <2>1. \A id \in unanswered \cup results \cup lost : stream'[id] = stream[id]
    BY <1>2 DEF IndInv, TypeOK
  <2>2. unanswered \cup results \cup lost \subseteq (unanswered \cup results \cup lost)'
    BY <1>1, <1>2
  <2> QED BY <1>1, <1>3, <2>1, <2>2, FlowsAssumption
          DEF IndInv, PendingAwaitsAnswer, Stopping, WillPublish
<1>12. StoppedPublisherLeftNothing'
  BY <1>1 DEF StoppedPublisherLeftNothing
<1> QED
  BY <1>4, <1>5, <1>6, <1>7, <1>8, <1>9, <1>10, <1>11, <1>12 DEF IndInv

\* The second XADD completes the publish: nobody holds the flow any more, and
\* the request just added is due, or its flow labelled by now.
LEMMA AddLatencyRowInv ==
  ASSUME IndInv, TypeOK', AddLatencyRow
  PROVE  IndInv'
<1>1. /\ UNCHANGED <<status, packets, mainFlow, queue, stream, unanswered, results, lost,
                     publishMode>>
      /\ pubPc = "latency" /\ pubPc' = "get" /\ pubFlow \in Flows
      /\ mainPc' = IF mainPc = "publishing" THEN "poll" ELSE mainPc
      /\ mainPc \in MainPcs
      /\ latency' = latency \cup {Len(stream)}
      /\ stream[Len(stream)] = pubFlow
  BY DEF AddLatencyRow, PublishReturns, cacheVars, IndInv, TypeOK, ControlFacts
<1>2. /\ Stopping' <=> Stopping
      /\ mainPc' = "notPublished" => mainPc = "notPublished"
      /\ mainPc' = "put" <=> mainPc = "put"
  BY <1>1 DEF Stopping, ShutdownPcs
<1>3. \A f \in Flows : /\ MainHolds(f)' <=> MainHolds(f)
                       /\ Queued(f)' <=> Queued(f)
                       /\ ~PublisherHolds(f)'
                       /\ PublisherHolds(f) <=> f = pubFlow
  BY <1>1 DEF MainHolds, Queued, PublisherHolds
<1>4. /\ ~MainHolds(pubFlow) /\ ~Queued(pubFlow)
      /\ status[pubFlow] \notin {"absent", "default"}
  BY <1>1, <1>3 DEF IndInv, OneRequestInHand, InHandIsLocked
<1>5. \A f \in Flows : InHand(f)' <=> InHand(f) /\ f # pubFlow
  BY <1>3, <1>4 DEF InHand
<1>6. Ids' = Ids /\ \A f \in Flows : RequestsOf(f)' = RequestsOf(f)
  BY <1>1 DEF Ids, RequestsOf
<1>7. ControlFacts'
  BY <1>1, <1>2 DEF IndInv, ControlFacts, WillPublish
<1>8. OneRequestInHand'
  BY <1>1, <1>3 DEF IndInv, OneRequestInHand
<1>9. InHandIsLocked'
  BY <1>1, <1>2, <1>3 DEF IndInv, InHandIsLocked
<1>10. RequestsAreComplete'
  BY <1>1, <1>5, <1>6 DEF IndInv, RequestsAreComplete
<1>11. CompletedIsLocked'
  <2>1. \A id \in latency : stream[id] \in Flows BY DEF IndInv, TypeOK, Ids
  <2> QED BY <1>1, <1>4, <1>5, <2>1 DEF IndInv, CompletedIsLocked
<1>12. CompletedPublishIsFinal'
  <2>1. Len(stream) \in Nat /\ ~\E j \in Ids : Len(stream) < j
    <3>1. Len(stream) \in Nat BY DEF IndInv, TypeOK
    <3> QED BY <3>1 DEF Ids
  <2> QED BY <1>1, <1>6, <2>1 DEF IndInv, CompletedPublishIsFinal
<1>13. LabelledWasRequested'
  BY <1>1, <1>6 DEF IndInv, LabelledWasRequested
<1>14. JustAddedIsDue' /\ StoppedPublisherLeftNothing'
  BY <1>1 DEF JustAddedIsDue, StoppedPublisherLeftNothing
<1>15. PendingAwaitsAnswer'
  <2>1. status[pubFlow] = "pending" => Len(stream) \in unanswered \cup results \cup lost
    BY <1>1 DEF IndInv, JustAddedIsDue
  <2> QED BY <1>1, <1>2, <1>5, <2>1, FlowsAssumption DEF IndInv, PendingAwaitsAnswer, WillPublish
<1> QED
  BY <1>7, <1>8, <1>9, <1>10, <1>11, <1>12, <1>13, <1>14, <1>15 DEF IndInv

\* Every step of the main, publisher and subscriber threads preserves the
\* invariant.
LEMMA NextInv ==
  ASSUME IndInv, [Next]_vars
  PROVE  IndInv'
<1>1. TypeOK' BY NextTypes DEF IndInv
<1> QED
  BY <1>1, HandlerInv, CheckReadyInv, HandOverInv, TakeRequestInv, StoreRequestInv,
     AddLatencyRowInv, ResetStatusInv, InterruptInv, OutsideInv
     DEF Next, HandlerStep, PublisherStep

\* The conjunction of the structural facts and the safety properties is
\* inductive: it holds in every reachable state, for any flows and bounds.
THEOREM Invariant == Spec => []IndInv
<1>1. Init => IndInv BY InitInv
<1>2. IndInv /\ [Next]_vars => IndInv' BY NextInv
<1> QED BY <1>1, <1>2, PTL DEF Spec

\* No interleaving of on_event with the publisher puts a flow on its way to
\* Redis twice at the same time.
THEOREM OneInHand == Spec => []OneRequestInHand
<1>1. IndInv => OneRequestInHand BY DEF IndInv
<1> QED BY <1>1, Invariant, PTL

\* Every request handed on carries all its feature packets, retries included.
THEOREM CompleteRequests == Spec => []RequestsAreComplete
<1>1. IndInv => RequestsAreComplete BY DEF IndInv
<1> QED BY <1>1, Invariant, PTL

\* After a publish that succeeded no second request of its flow is stored.
THEOREM PublishedOnce == Spec => []CompletedPublishIsFinal
<1>1. IndInv => CompletedPublishIsFinal BY DEF IndInv
<1> QED BY <1>1, Invariant, PTL

\* A pending flow of the published direction never waits for nothing.
THEOREM PendingIsDue == Spec => []PendingAwaitsAnswer
<1>1. IndInv => PendingAwaitsAnswer BY DEF IndInv
<1> QED BY <1>1, Invariant, PTL

\* The sentinel is the last item: the publisher stops on an empty queue.
THEOREM NothingLeftBehind == Spec => []StoppedPublisherLeftNothing
<1>1. IndInv => StoppedPublisherLeftNothing BY DEF IndInv
<1> QED BY <1>1, Invariant, PTL

\* Only a step of a thread that has the flow in hand overwrites a label, and a
\* flow in hand has no completed publish.
LEMMA LabelStep ==
  ASSUME IndInv, [Next]_vars, NEW f \in Flows, status[f] \in Classes, status'[f] # status[f]
  PROVE  InHand(f)
<1>1. status[f] \notin {"absent", "default"} /\ status[f] = Label[f]
  BY DEF IndInv, LabelledWasRequested, Classes
<1>2. ASSUME NEW g \in Flows, PacketArrives(g) PROVE InHand(f)
  BY <1>1, <1>2 DEF PacketArrives, IndInv, TypeOK
<1>3. CASE MarkUnpublished BY <1>1, <1>3 DEF MarkUnpublished, IndInv, TypeOK
<1>4. CASE MarkPending
  BY <1>4 DEF MarkPending, IndInv, TypeOK, HandlerPcs, InHand, MainHolds
<1>5. CASE ResetStatus
  BY <1>5 DEF ResetStatus, IndInv, TypeOK, InHand, PublisherHolds
<1>6. ASSUME NEW id \in Ids, ApplyResult(id) PROVE InHand(f)
  BY <1>1, <1>6 DEF ApplyResult, ApplyClassificationResult, IndInv, TypeOK
<1>7. status' = status \/ (\E g \in Flows : PacketArrives(g)) \/ MarkUnpublished \/ MarkPending
        \/ ResetStatus \/ \E id \in Ids : ApplyResult(id)
  BY DEF Next, HandlerStep, AppendPacket, CheckReady, HandOver, PublisherStep, TakeRequest,
         AddRequest, RequestRefused, ReplyLost, AddLatencyRow, LatencyRowRefused, Answer, Lose,
         Subscribe, SubscriberFails, Interrupt, ShutdownStep, JoinReturns, CloseProducer,
         CloseSubscriber, cacheVars, vars
<1> QED BY <1>2, <1>3, <1>4, <1>5, <1>6, <1>7

\* A label is lost only when a publish of its flow was stored and then failed.
THEOREM LabelIsKept == Spec => LabelLostOnlyAfterHalfPublish
<1>1. ASSUME IndInv, [Next]_vars
      PROVE  [\A f \in Flows : status[f] \in Classes /\ status'[f] # status[f]
                => ~(RequestsOf(f) \subseteq latency)]_vars
  <2> SUFFICES ASSUME NEW f \in Flows, status[f] \in Classes, status'[f] # status[f]
               PROVE  ~(RequestsOf(f) \subseteq latency)
    OBVIOUS
  <2>1. InHand(f) BY <1>1, LabelStep
  <2>2. PICK id \in RequestsOf(f) : TRUE BY <1>1 DEF IndInv, LabelledWasRequested
  <2> QED BY <1>1, <2>1, <2>2 DEF IndInv, CompletedIsLocked, RequestsOf
<1> QED BY <1>1, Invariant, PTL DEF Spec, LabelLostOnlyAfterHalfPublish

-----------------------------------------------------------------------------
(* Every capture implements FlowLifecycle. *)

\* The cache has an entry for every flow that has packets or is being handled.
EntryExists ==
  \A f \in Flows :
    status[f] = "absent" => packets[f] = 0 /\ ~(mainPc \in HandlerPcs /\ mainFlow = f)

\* The handler's flow is in the cache until the handler has ended.
LEMMA EntryExistsStep ==
  ASSUME IndInv, EntryExists, [Next]_vars
  PROVE  EntryExists'
<1> SUFFICES ASSUME NEW f \in Flows, status'[f] = "absent"
             PROVE  packets'[f] = 0 /\ ~(mainPc' \in HandlerPcs /\ mainFlow' = f)
  BY DEF EntryExists
<1>1. ASSUME NEW g \in Flows, PacketArrives(g)
      PROVE  status[f] = "absent" /\ packets' = packets /\ mainFlow' # f
  BY <1>1 DEF PacketArrives, IndInv, TypeOK
<1>2. CASE MarkUnpublished \/ MarkPending \/ ResetStatus
  <2>1. status[f] = "absent" /\ packets' = packets
    BY <1>2 DEF MarkUnpublished, MarkPending, ResetStatus, IndInv, TypeOK, HandlerPcs
  <2>2. mainPc' \in HandlerPcs => mainPc \in HandlerPcs /\ mainFlow' = mainFlow
    BY <1>2 DEF MarkUnpublished, MarkPending, ResetStatus, PublishReturns, HandlerPcs
  <2> QED BY <2>1, <2>2 DEF EntryExists
<1>3. ASSUME NEW id \in Ids, ApplyResult(id)
      PROVE  status[f] = "absent" /\ UNCHANGED <<packets, mainPc, mainFlow>>
  <2>1. stream[id] \in Flows BY DEF IndInv, TypeOK, Ids
  <2>2. Label[stream[id]] # "absent" BY <2>1, LabelAssumption
  <2> QED BY <1>3, <2>1, <2>2
          DEF ApplyResult, ApplyClassificationResult, mainVars, IndInv, TypeOK
<1>4. CASE AppendPacket
  <2>1. status[f] = "absent" /\ mainPc \in HandlerPcs /\ mainFlow' = mainFlow
    BY <1>4 DEF AppendPacket, HandlerPcs
  <2>2. mainFlow # f BY <2>1 DEF EntryExists
  <2> QED BY <1>4, <2>1, <2>2 DEF AppendPacket, EntryExists, IndInv, TypeOK
<1>5. CASE /\ status' = status /\ packets' = packets
           /\ mainPc' \in HandlerPcs => mainPc \in HandlerPcs /\ mainFlow' = mainFlow
  BY <1>5 DEF EntryExists
<1>6. \/ \E g \in Flows : PacketArrives(g)
      \/ MarkUnpublished \/ MarkPending \/ ResetStatus
      \/ \E id \in Ids : ApplyResult(id)
      \/ AppendPacket
      \/ /\ status' = status /\ packets' = packets
         /\ mainPc' \in HandlerPcs => mainPc \in HandlerPcs /\ mainFlow' = mainFlow
  BY DEF Next, HandlerStep, CheckReady, HandOver, PublisherStep, TakeRequest, AddRequest,
       RequestRefused, ReplyLost, AddLatencyRow, LatencyRowRefused, PublishReturns, Answer,
       Lose, Subscribe, SubscriberFails, Interrupt, ShutdownStep, JoinReturns, CloseProducer,
       CloseSubscriber, HandlerPcs, cacheVars, mainVars, vars
<1> QED BY <1>1, <1>2, <1>3, <1>4, <1>5, <1>6 DEF EntryExists

\* An absent flow has no packets and no handler.
LEMMA EntryExistsInv == Spec => []EntryExists
<1>1. Init => EntryExists BY DEF Init, EntryExists, HandlerPcs
<1>2. IndInv /\ EntryExists /\ [Next]_vars => EntryExists' BY EntryExistsStep
<1> QED BY <1>1, <1>2, Invariant, PTL DEF Spec

SentFlows == {f \in Flows : RequestsOf(f) # {}}
ConfirmedFlows == {f \in Flows : RequestsOf(f) \cap latency # {}}

\* A flow somebody holds has no confirmed publish.
LEMMA HeldIsUnconfirmed ==
  ASSUME IndInv, NEW f \in Flows, InHand(f) \/ status[f] = "default"
  PROVE  f \notin ConfirmedFlows
  BY DEF IndInv, CompletedIsLocked, ConfirmedFlows, RequestsOf

\* A flow with a request, or being handled, has an entry.
LEMMA SentHasEntry ==
  ASSUME IndInv, EntryExists, NEW f \in SentFlows
  PROVE  status[f] # "absent"
<1>1. f \in Flows /\ packets[f] = FeaturePacketCount
  BY DEF IndInv, RequestsAreComplete, SentFlows
<1> QED BY <1>1, CountsAssumption DEF EntryExists

\* Only the two XADDs change what has been sent and confirmed.
LEMMA RedisStep ==
  ASSUME IndInv, IndInv', UNCHANGED <<stream, latency>>
  PROVE  UNCHANGED <<SentFlows, ConfirmedFlows>>
  BY DEF SentFlows, ConfirmedFlows, RequestsOf, Ids

\* A request that the stream stores is a Send of the abstract specification,
\* also when its reply is lost.
LEMMA StoreIsSend ==
  ASSUME IndInv, AddRequest \/ ReplyLost
  PROVE  /\ SentFlows' = SentFlows \cup {pubFlow}
         /\ ConfirmedFlows' = ConfirmedFlows
<1>1. pubFlow \in Flows /\ stream' = Append(stream, pubFlow) /\ latency' = latency
  BY DEF AddRequest, ReplyLost, StoreRequest, IndInv, TypeOK
<1>2. stream \in Seq(Flows) /\ Len(stream) \in Nat /\ latency \subseteq 1 .. Len(stream)
  BY DEF IndInv, TypeOK, Ids
<1>3. /\ Len(stream') = Len(stream) + 1
      /\ stream'[Len(stream) + 1] = pubFlow
      /\ \A id \in 1 .. Len(stream) : stream'[id] = stream[id]
  BY <1>1, <1>2, AppendFacts
<1>4. /\ \A id \in Ids' : id \in Ids \/ id = Len(stream) + 1
      /\ \A id \in Ids : id \in Ids' /\ stream'[id] = stream[id]
      /\ Len(stream) + 1 \in Ids' /\ Len(stream) + 1 \notin latency
  BY <1>2, <1>3 DEF Ids
<1>5. \A f \in Flows :
        RequestsOf(f)' = IF f = pubFlow THEN RequestsOf(f) \cup {Len(stream) + 1}
                                        ELSE RequestsOf(f)
  BY <1>3, <1>4 DEF RequestsOf
<1>6. SentFlows' = SentFlows \cup {pubFlow} BY <1>1, <1>5 DEF SentFlows
<1>7. \A f \in Flows : RequestsOf(f)' \cap latency = RequestsOf(f) \cap latency
  BY <1>4, <1>5
<1> QED BY <1>1, <1>6, <1>7 DEF ConfirmedFlows

\* The row of the latency file is a Confirm, of a flow that was sent.
LEMMA LatencyIsConfirm ==
  ASSUME IndInv, AddLatencyRow
  PROVE  /\ SentFlows' = SentFlows
         /\ ConfirmedFlows' = ConfirmedFlows \cup {pubFlow}
         /\ pubFlow \in SentFlows
<1>1. /\ pubFlow \in Flows /\ stream # <<>> /\ stream[Len(stream)] = pubFlow
      /\ stream' = stream /\ latency' = latency \cup {Len(stream)}
      /\ stream \in Seq(Flows)
  BY DEF AddLatencyRow, IndInv, TypeOK, ControlFacts
<1>2. Len(stream) \in Ids BY <1>1, LastIsElement DEF Ids
<1>3. /\ \A f \in Flows : RequestsOf(f)' = RequestsOf(f)
      /\ \A f \in Flows : Len(stream) \in RequestsOf(f) <=> f = pubFlow
  BY <1>1, <1>2 DEF RequestsOf, Ids
<1> QED BY <1>1, <1>3 DEF SentFlows, ConfirmedFlows

\* Each step of the capture is a step of the life of one flow, or none.
LEMMA LifecycleStep ==
  ASSUME IndInv, IndInv', EntryExists, [Next]_vars
  PROVE  [Lifecycle!Next]_(Lifecycle!vars)
<1> USE DEF Lifecycle!vars, Lifecycle!Next, Lifecycle!Classes
<1>0. /\ UNCHANGED <<status, stream, latency>> => UNCHANGED Lifecycle!vars
      /\ UNCHANGED <<stream, latency>> => UNCHANGED <<SentFlows, ConfirmedFlows>>
  BY RedisStep DEF SentFlows, ConfirmedFlows
<1>1. ASSUME NEW f \in Flows, PacketArrives(f) PROVE Lifecycle!Collect(f) \/ UNCHANGED Lifecycle!vars
  <2>1. UNCHANGED <<stream, latency>> BY <1>1 DEF PacketArrives, redisVars
  <2>2. CASE status[f] = "absent"
    BY <1>0, <1>1, <2>1, <2>2
       DEF PacketArrives, Lifecycle!Collect, SentFlows, ConfirmedFlows
  <2>3. CASE status[f] # "absent"
    <3>1. status' = status BY <1>1, <2>3 DEF PacketArrives, IndInv, TypeOK
    <3> QED BY <1>0, <2>1, <3>1
  <2> QED BY <2>2, <2>3
<1>2. CASE MarkUnpublished \/ MarkPending
  <2>1. /\ mainFlow \in Flows /\ status[mainFlow] \in Statuses /\ status[mainFlow] # "absent"
        /\ UNCHANGED <<stream, latency>>
    BY <1>2 DEF MarkUnpublished, MarkPending, redisVars, EntryExists, IndInv, TypeOK, HandlerPcs
  <2>2. CASE status' = status BY <1>0, <2>1, <2>2
  <2>3. CASE status' # status
    <3>1. /\ status' = [status EXCEPT ![mainFlow] = "pending"]
          /\ status[mainFlow] = "default" \/ MarkPending
      BY <1>2, <2>1, <2>3 DEF MarkUnpublished, MarkPending, IndInv, TypeOK
    <3>2. status[mainFlow] \in {"default"} \cup Classes
      BY <2>1, <2>3, <3>1 DEF Statuses, Classes, IndInv, TypeOK
    <3>3. mainFlow \notin ConfirmedFlows
      BY <2>1, <3>1, HeldIsUnconfirmed DEF MarkPending, InHand, MainHolds
    <3>4. status[mainFlow] \in Classes => mainFlow \in SentFlows
      BY <2>1 DEF IndInv, LabelledWasRequested, SentFlows
    <3>5. Lifecycle!Lock(mainFlow)
      BY <1>0, <2>1, <3>1, <3>2, <3>3, <3>4
         DEF Lifecycle!Lock, SentFlows, ConfirmedFlows, Classes
    <3> QED BY <2>1, <3>5
  <2> QED BY <2>2, <2>3
<1>3. ASSUME pubPc \in {"xadd", "latency", "reset"}
      PROVE  /\ pubFlow \in Flows
             /\ status[pubFlow] \in {"pending"} \cup Lifecycle!Classes
             /\ pubFlow \notin ConfirmedFlows
  <2>1. pubFlow \in Flows /\ PublisherHolds(pubFlow)
    BY <1>3 DEF IndInv, TypeOK, PublisherHolds
  <2>2. status[pubFlow] \in Statuses /\ status[pubFlow] \notin {"absent", "default"}
    BY <2>1 DEF IndInv, TypeOK, InHandIsLocked
  <2> QED BY <2>1, <2>2, HeldIsUnconfirmed DEF InHand, Statuses, Classes
<1>4. CASE AddRequest \/ ReplyLost
  <2>1. status' = status /\ pubPc = "xadd"
    BY <1>4 DEF AddRequest, ReplyLost, cacheVars
  <2>2. Lifecycle!Send(pubFlow)
    BY <1>3, <1>4, <2>1, StoreIsSend DEF Lifecycle!Send, SentFlows, ConfirmedFlows
  <2> QED BY <1>3, <2>1, <2>2
<1>5. CASE AddLatencyRow
  <2>1. status' = status /\ pubPc = "latency"
    BY <1>5 DEF AddLatencyRow, cacheVars
  <2>2. Lifecycle!Confirm(pubFlow)
    BY <1>3, <1>5, <2>1, LatencyIsConfirm DEF Lifecycle!Confirm, SentFlows, ConfirmedFlows
  <2> QED BY <1>3, <2>1, <2>2
<1>6. CASE ResetStatus
  <2>1. /\ pubPc = "reset" /\ UNCHANGED <<stream, latency>>
        /\ status' = [status EXCEPT ![pubFlow] = "default"]
    BY <1>6 DEF ResetStatus, redisVars
  <2>2. Lifecycle!Release(pubFlow)
    BY <1>0, <1>3, <2>1 DEF Lifecycle!Release, SentFlows, ConfirmedFlows
  <2> QED BY <1>3, <2>1, <2>2
<1>7. ASSUME NEW id \in Ids, ApplyResult(id) PROVE [Lifecycle!Next]_(Lifecycle!vars)
  <2>1. stream[id] \in SentFlows /\ stream[id] \in Flows
    <3>1. stream[id] \in Flows BY DEF IndInv, TypeOK, Ids
    <3> QED BY <3>1 DEF SentFlows, RequestsOf
  <2>2. /\ UNCHANGED <<stream, latency>>
        /\ status' = [status EXCEPT ![stream[id]] = Label[stream[id]]]
    BY <1>7 DEF ApplyResult, ApplyClassificationResult
  <2>3. Lifecycle!Classify(stream[id])
    BY <1>0, <2>1, <2>2, SentHasEntry DEF Lifecycle!Classify, SentFlows, ConfirmedFlows
  <2> QED BY <2>1, <2>3
<1>8. \/ \E f \in Flows : PacketArrives(f)
      \/ MarkUnpublished \/ MarkPending \/ AddRequest \/ ReplyLost \/ AddLatencyRow \/ ResetStatus
      \/ \E id \in Ids : ApplyResult(id)
      \/ UNCHANGED <<status, stream, latency>>
  BY DEF Next, HandlerStep, AppendPacket, CheckReady, HandOver, PublisherStep, TakeRequest,
         RequestRefused, LatencyRowRefused, Answer, Lose, Subscribe, SubscriberFails, Interrupt,
         ShutdownStep, JoinReturns, CloseProducer, CloseSubscriber, cacheVars, redisVars, vars
<1> QED BY <1>0, <1>1, <1>2, <1>4, <1>5, <1>6, <1>7, <1>8

\* The capture implements FlowLifecycle: a flow is labelled only for a request
\* in the stream, and after a confirmed publish it is neither released nor
\* locked nor sent again.
THEOREM Refinement == Spec => LifecycleSpec
<1>1. Init => Lifecycle!Init
  BY DEF Init, Lifecycle!Init, RequestsOf, Ids
<1>2. IndInv /\ IndInv' /\ EntryExists /\ [Next]_vars => [Lifecycle!Next]_(Lifecycle!vars)
  BY LifecycleStep
<1> QED BY <1>1, <1>2, Invariant, EntryExistsInv, PTL DEF Spec, LifecycleSpec, Lifecycle!Spec
=============================================================================
