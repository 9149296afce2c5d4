---------------------------- MODULE FlowCapture ----------------------------
(***************************************************************************)
(* One online capture process (xdp/tg_xdp_capture.py, and with the same    *)
(* structure pipeline/realtime/tg_tshark_capture.py): the main thread that *)
(* turns packet events into flow cache entries, the publisher thread that  *)
(* adds requests to the Redis stream, the subscriber thread that applies   *)
(* classifier results, and the shutdown.  The three threads share the      *)
(* entries of RealtimeFlowCache without a lock, so every read and every    *)
(* write of entry.status that another thread can come between is a step    *)
(* of its own.                                                             *)
(*                                                                         *)
(* The classifier service is seen from here as: every stream entry is      *)
(* answered at most once, in any order, or lost (Answer, Lose).            *)
(***************************************************************************)
EXTENDS Naturals, Sequences

CONSTANTS
  Flows,              \* OnlineFlowKey values the process sees
  Published,          \* flows whose direction passes should_publish
  FeaturePacketCount, \* --feature-packet-count
  Label,              \* the model's class for the features of each flow
  MaxPackets,         \* bound: payload packets a flow has
  MaxCleanFailures,   \* bound: publishes that fail before Redis stores anything
  MaxHalfFailures,    \* bound: publishes that fail after the XADD was stored
  Lossy,              \* whether requests and results may get lost on the way
  Stop,               \* the publisher_stop sentinel
  NoFlow              \* no flow in hand

ASSUME FlowsAssumption == /\ Published \subseteq Flows
                          /\ Stop \notin Flows
                          /\ NoFlow \notin Flows
ASSUME CountsAssumption == /\ FeaturePacketCount \in Nat \ {0}
                           /\ MaxPackets \in Nat
                           /\ MaxCleanFailures \in Nat
                           /\ MaxHalfFailures \in Nat
                           /\ Lossy \in BOOLEAN
ASSUME LabelAssumption == Label \in [Flows -> {"elephant", "mice"}]

VARIABLES
  publishMode,   \* --publish-mode, or "off" without --redis-url; it never changes
  status,        \* entry.status, "absent" while the cache has no entry
  packets,       \* len(entry.packets)
  toArrive,      \* payload packets of the flow the network still delivers
  mainPc,        \* where the main thread is in on_event or in its shutdown
  mainFlow,      \* the entry on_event is working on
  queue,         \* publish_queue
  pubPc,         \* where publisher_loop (or an inline publish) is
  pubFlow,       \* the request it holds
  stream,        \* the Redis stream: the flow of every request, by id
  latency,       \* ids with a row in the ":latency" stream
  unanswered,    \* ids the classifier service has still to answer
  results,       \* ids whose result is in flight on the Pub/Sub channel
  lost,          \* ids that will never be applied
  subscriber,    \* the result subscriber thread
  cleanFailures, \* publishes that failed with nothing stored, so far
  halfFailures   \* publishes that failed with the request stored, so far

cacheVars == <<status, packets, toArrive>>
mainVars == <<mainPc, mainFlow>>
pubVars == <<pubPc, pubFlow>>
redisVars == <<stream, latency, unanswered, results, lost>>
failureVars == <<cleanFailures, halfFailures>>
vars == <<cacheVars, mainVars, queue, pubVars, redisVars, subscriber, failureVars,
          publishMode>>

Classes == {"elephant", "mice"}
Statuses == {"absent", "default", "pending"} \cup Classes
HandlerPcs == {"append", "isReady", "notPublished", "mark", "put"}
ShutdownPcs == {"join", "close", "closeSubscriber", "exited"}
MainPcs == {"poll", "publishing"} \cup HandlerPcs \cup ShutdownPcs
PubPcs == {"get", "xadd", "latency", "reset", "done"}
SubscriberStates == {"connecting", "listening", "dead", "closed"}

Ids == 1 .. Len(stream)
RequestsOf(f) == {id \in Ids : stream[id] = f}
Queued(f) == \E i \in 1 .. Len(queue) : queue[i] = f
Stopping == mainPc \in ShutdownPcs
Exited == mainPc = "exited"

TypeOK ==
  /\ publishMode \in {"queue", "inline", "off"}
  /\ status \in [Flows -> Statuses]
  /\ packets \in [Flows -> 0 .. FeaturePacketCount]
  /\ toArrive \in [Flows -> Nat]
  /\ mainPc \in MainPcs
  /\ mainFlow \in Flows \cup {NoFlow}
  /\ mainPc \in HandlerPcs => mainFlow \in Flows
  /\ queue \in Seq(Flows \cup {Stop})
  /\ pubPc \in PubPcs
  /\ pubFlow \in Flows \cup {NoFlow}
  /\ pubPc \in {"xadd", "latency", "reset"} => pubFlow \in Flows
  /\ stream \in Seq(Flows)
  /\ pubPc = "latency" => stream # <<>>
  /\ latency \subseteq Ids
  /\ unanswered \subseteq Ids
  /\ results \subseteq Ids
  /\ lost \subseteq Ids
  /\ subscriber \in SubscriberStates
  /\ cleanFailures \in Nat
  /\ halfFailures \in Nat

Init ==
  /\ status = [f \in Flows |-> "absent"]
  /\ packets = [f \in Flows |-> 0]
  /\ toArrive = [f \in Flows |-> MaxPackets]
  /\ mainPc = "poll"
  /\ mainFlow = NoFlow
  /\ queue = <<>>
  /\ pubPc = "get"
  /\ pubFlow = NoFlow
  /\ stream = <<>>
  /\ latency = {}
  /\ unanswered = {}
  /\ results = {}
  /\ lost = {}
  /\ publishMode \in {"queue", "inline", "off"}
  /\ subscriber = IF publishMode = "off" THEN "closed" ELSE "connecting"
  /\ cleanFailures = 0
  /\ halfFailures = 0

-----------------------------------------------------------------------------
(* The main thread: on_event and the cache operations it calls. *)

\* Mutant of PacketArrives: get_or_create makes a new entry for every event.
PacketArrivesAnew(f) ==
  /\ mainPc = "poll"
  /\ toArrive[f] > 0
  /\ toArrive' = [toArrive EXCEPT ![f] = @ - 1]
  /\ status' = [status EXCEPT ![f] = "default"]
  /\ mainFlow' = f
  /\ mainPc' = "append"
  /\ UNCHANGED <<packets, queue, pubVars, redisVars, subscriber, failureVars, publishMode>>

\* on_event up to the first read of entry.status: a payload packet of f is
\* matched, its entry is created when missing, and add_packet looks at the
\* status to decide whether to collect the packet.
PacketArrives(f) ==
  /\ mainPc = "poll"
  /\ toArrive[f] > 0
  /\ toArrive' = [toArrive EXCEPT ![f] = @ - 1]
  /\ status' = [status EXCEPT ![f] = IF @ = "absent" THEN "default" ELSE @]
  /\ mainFlow' = f
  /\ mainPc' = IF status'[f] = "default" THEN "append" ELSE "isReady"
  /\ UNCHANGED <<packets, queue, pubVars, redisVars, subscriber, failureVars, publishMode>>

\* The rest of add_packet: at most FeaturePacketCount packets are kept.
AppendPacket ==
  /\ mainPc = "append"
  /\ packets' = [packets EXCEPT ![mainFlow] =
                   IF @ < FeaturePacketCount THEN @ + 1 ELSE @]
  /\ mainPc' = "isReady"
  /\ UNCHANGED <<status, toArrive, mainFlow, queue, pubVars, redisVars, subscriber,
                 failureVars, publishMode>>

\* Mutants of Ready: is_ready without its test of the status, and one packet early.
ReadyWhateverStatus(f) == packets[f] >= FeaturePacketCount
ReadyEarly(f) == status[f] = "default" /\ packets[f] + 1 >= FeaturePacketCount

Ready(f) == status[f] = "default" /\ packets[f] >= FeaturePacketCount

\* `stream_producer is not None and should_publish(entry)`
WillPublish(f) == publishMode # "off" /\ f \in Published

\* Mutant of CheckReady: the request is handed over without mark_pending.
CheckReadyUnmarked ==
  /\ mainPc = "isReady"
  /\ \/ /\ ~Ready(mainFlow)
        /\ mainPc' = "poll"
        /\ mainFlow' = NoFlow
     \/ /\ Ready(mainFlow)
        /\ mainPc' = IF WillPublish(mainFlow) THEN "put" ELSE "notPublished"
        /\ UNCHANGED mainFlow
  /\ UNCHANGED <<cacheVars, queue, pubVars, redisVars, subscriber, failureVars, publishMode>>

CheckReady ==
  /\ mainPc = "isReady"
  /\ \/ /\ ~Ready(mainFlow)
        /\ mainPc' = "poll"
        /\ mainFlow' = NoFlow
     \/ /\ Ready(mainFlow)
        /\ mainPc' = IF WillPublish(mainFlow) THEN "mark" ELSE "notPublished"
        /\ UNCHANGED mainFlow
  /\ UNCHANGED <<cacheVars, queue, pubVars, redisVars, subscriber, failureVars, publishMode>>

\* The elif branch: a ready flow of the other direction (or without Redis) is
\* marked pending although nothing is sent.  No other thread writes its status.
MarkUnpublished ==
  /\ mainPc = "notPublished"
  /\ status' = [status EXCEPT ![mainFlow] = IF @ = "default" THEN "pending" ELSE @]
  /\ mainPc' = "poll"
  /\ mainFlow' = NoFlow
  /\ UNCHANGED <<packets, toArrive, queue, pubVars, redisVars, subscriber, failureVars,
                 publishMode>>

\* mark_pending overwrites whatever status the entry has by now.
MarkPending ==
  /\ mainPc = "mark"
  /\ status' = [status EXCEPT ![mainFlow] = "pending"]
  /\ mainPc' = "put"
  /\ UNCHANGED <<packets, toArrive, mainFlow, queue, pubVars, redisVars, subscriber,
                 failureVars, publishMode>>

\* Build the request and hand it over: publish_queue.put, or in inline mode
\* the publish call itself, which keeps the callback until it returns.
HandOver ==
  /\ mainPc = "put"
  /\ \/ /\ publishMode = "queue"
        /\ queue' = Append(queue, mainFlow)
        /\ mainPc' = "poll"
        /\ UNCHANGED pubVars
     \/ /\ publishMode = "inline"
        /\ pubPc' = "xadd"
        /\ pubFlow' = mainFlow
        /\ mainPc' = "publishing"
        /\ UNCHANGED queue
  /\ mainFlow' = NoFlow
  /\ UNCHANGED <<cacheVars, redisVars, subscriber, failureVars, publishMode>>

-----------------------------------------------------------------------------
(* The publisher thread: publisher_loop and RedisStreamProducer.publish. *)

TakeRequest ==
  /\ ~Exited
  /\ pubPc = "get"
  /\ queue # <<>>
  /\ queue' = Tail(queue)
  /\ \/ /\ Head(queue) = Stop
        /\ pubPc' = "done"
        /\ UNCHANGED pubFlow
     \/ /\ Head(queue) # Stop
        /\ pubPc' = "xadd"
        /\ pubFlow' = Head(queue)
  /\ UNCHANGED <<cacheVars, mainVars, redisVars, subscriber, failureVars, publishMode>>

\* The XADD of the request, as Redis stores it.
StoreRequest ==
  /\ stream' = Append(stream, pubFlow)
  /\ unanswered' = unanswered \cup {Len(stream) + 1}
  /\ UNCHANGED <<latency, results, lost>>

AddRequest ==
  /\ ~Exited
  /\ pubPc = "xadd"
  /\ StoreRequest
  /\ pubPc' = "latency"
  /\ UNCHANGED <<cacheVars, mainVars, queue, pubFlow, subscriber, failureVars, publishMode>>

\* The XADD raises and nothing was stored: Redis refused the connection, or
\* the shutdown closed the client under a publisher it no longer waits for.
RequestRefused ==
  /\ ~Exited
  /\ pubPc = "xadd"
  /\ \/ /\ cleanFailures < MaxCleanFailures
        /\ cleanFailures' = cleanFailures + 1
     \/ /\ mainPc = "closeSubscriber"
        /\ UNCHANGED cleanFailures
  /\ pubPc' = "reset"
  /\ UNCHANGED <<cacheVars, mainVars, queue, pubFlow, redisVars, subscriber, halfFailures,
                 publishMode>>

\* The XADD raises although Redis stored the entry: its reply was lost.
ReplyLost ==
  /\ ~Exited
  /\ pubPc = "xadd"
  /\ halfFailures < MaxHalfFailures
  /\ halfFailures' = halfFailures + 1
  /\ StoreRequest
  /\ pubPc' = "reset"
  /\ UNCHANGED <<cacheVars, mainVars, queue, pubFlow, subscriber, cleanFailures, publishMode>>

\* publish() is over: the publisher thread waits for the next item, or the
\* callback that published inline returns to the poll loop.
PublishReturns ==
  /\ pubPc' = "get"
  /\ pubFlow' = NoFlow
  /\ mainPc' = IF mainPc = "publishing" THEN "poll" ELSE mainPc

\* Mutant of AddLatencyRow: the status is reset in a finally, not an except.
AddLatencyRowAndReset ==
  /\ ~Exited
  /\ pubPc = "latency"
  /\ latency' = latency \cup {Len(stream)}
  /\ status' = [status EXCEPT ![pubFlow] = "default"]
  /\ PublishReturns
  /\ UNCHANGED <<packets, toArrive, mainFlow, queue, stream, unanswered, results, lost,
                 subscriber, failureVars, publishMode>>

\* The second XADD, to the ":latency" stream, with the id of the request.
AddLatencyRow ==
  /\ ~Exited
  /\ pubPc = "latency"
  /\ latency' = latency \cup {Len(stream)}
  /\ PublishReturns
  /\ UNCHANGED <<cacheVars, mainFlow, queue, stream, unanswered, results, lost, subscriber,
                 failureVars, publishMode>>

LatencyRowRefused ==
  /\ ~Exited
  /\ pubPc = "latency"
  /\ halfFailures < MaxHalfFailures
  /\ halfFailures' = halfFailures + 1
  /\ pubPc' = "reset"
  /\ UNCHANGED <<cacheVars, mainVars, queue, pubFlow, redisVars, subscriber, cleanFailures,
                 publishMode>>

\* Mutant of ResetStatus: the failure is only logged.
LogFailureOnly ==
  /\ ~Exited
  /\ pubPc = "reset"
  /\ PublishReturns
  /\ UNCHANGED <<cacheVars, mainFlow, queue, redisVars, subscriber, failureVars, publishMode>>

\* The except branch: set_status(entry, "default"), whatever it is by now.
ResetStatus ==
  /\ ~Exited
  /\ pubPc = "reset"
  /\ status' = [status EXCEPT ![pubFlow] = "default"]
  /\ PublishReturns
  /\ UNCHANGED <<packets, toArrive, mainFlow, queue, redisVars, subscriber, failureVars,
                 publishMode>>

-----------------------------------------------------------------------------
(* The classifier service, and the subscriber thread that hears it. *)

\* A worker publishes the result; Redis hands it to this process only while
\* the process is subscribed.
Answer(id) ==
  /\ id \in unanswered
  /\ unanswered' = unanswered \ {id}
  /\ IF subscriber = "listening"
       THEN results' = results \cup {id} /\ UNCHANGED lost
       ELSE lost' = lost \cup {id} /\ UNCHANGED results
  /\ UNCHANGED <<cacheVars, mainVars, queue, pubVars, stream, latency, subscriber, failureVars,
                 publishMode>>

\* The entry is trimmed before it is read, or a worker dies with it.
Lose(id) ==
  /\ Lossy
  /\ id \in unanswered
  /\ unanswered' = unanswered \ {id}
  /\ lost' = lost \cup {id}
  /\ UNCHANGED <<cacheVars, mainVars, queue, pubVars, stream, latency, results, subscriber,
                 failureVars, publishMode>>

\* The subscriber thread connects after the publisher has been started.
Subscribe ==
  /\ ~Exited
  /\ subscriber = "connecting"
  /\ subscriber' = "listening"
  /\ UNCHANGED <<cacheVars, mainVars, queue, pubVars, redisVars, failureVars, publishMode>>

\* The entry gets the label of the result whatever its status was.
ApplyClassificationResult(f) == status' = [status EXCEPT ![f] = Label[f]]

\* One message of the results channel in the subscriber thread.
ApplyResult(id) ==
  /\ ~Exited
  /\ subscriber = "listening"
  /\ id \in results
  /\ results' = results \ {id}
  /\ ApplyClassificationResult(stream[id])
  /\ UNCHANGED <<packets, toArrive, mainVars, queue, pubVars, stream, latency, unanswered,
                 lost, subscriber, failureVars, publishMode>>

\* An exception out of listen() ends listen_forever and its thread for good.
SubscriberFails ==
  /\ Lossy
  /\ ~Exited
  /\ subscriber \in {"connecting", "listening"}
  /\ subscriber' = "dead"
  /\ lost' = lost \cup results
  /\ results' = {}
  /\ UNCHANGED <<cacheVars, mainVars, queue, pubVars, stream, latency, unanswered,
                 failureVars, publishMode>>

-----------------------------------------------------------------------------
(* Shutdown: the finally block of main. *)

\* Mutant of Interrupt: the sentinel overtakes the requests in the queue.
InterruptAtOnce ==
  /\ \/ mainPc = "poll"
     \/ mainPc \in HandlerPcs /\ publishMode # "inline"
  /\ mainFlow' = NoFlow
  /\ \/ /\ publishMode = "queue"
        /\ queue' = <<Stop>> \o queue
        /\ mainPc' = "join"
     \/ /\ publishMode # "queue"
        /\ mainPc' = "close"
        /\ UNCHANGED queue
  /\ UNCHANGED <<cacheVars, pubVars, redisVars, subscriber, failureVars, publishMode>>

\* Ctrl-C ends the capture loop, and the tshark loop in the middle of a packet
\* too; KeyboardInterrupt is no Exception, so no handler resets the status.
Interrupt ==
  /\ \/ mainPc = "poll"
     \/ mainPc \in HandlerPcs /\ publishMode # "inline"
  /\ mainFlow' = NoFlow
  /\ \/ /\ publishMode = "queue"
        /\ queue' = Append(queue, Stop)
        /\ mainPc' = "join"
     \/ /\ publishMode # "queue"
        /\ mainPc' = "close"
        /\ UNCHANGED queue
  /\ UNCHANGED <<cacheVars, pubVars, redisVars, subscriber, failureVars, publishMode>>

\* Mutant of JoinReturns: it waits, without a timeout, for an empty queue and
\* a publisher that is ready for the next item.
JoinIdlePublisher ==
  /\ mainPc = "join"
  /\ queue = <<>>
  /\ pubPc = "get"
  /\ mainPc' = "close"
  /\ UNCHANGED <<cacheVars, mainFlow, queue, pubVars, redisVars, subscriber, failureVars,
                 publishMode>>

\* publisher_thread.join(timeout=2) returns when the publisher is done, and
\* after two seconds when it is not.
JoinReturns ==
  /\ mainPc = "join"
  /\ mainPc' = "close"
  /\ UNCHANGED <<cacheVars, mainFlow, queue, pubVars, redisVars, subscriber, failureVars,
                 publishMode>>

\* stream_producer.close(): a publisher that still runs connects again.
CloseProducer ==
  /\ mainPc = "close"
  /\ mainPc' = "closeSubscriber"
  /\ UNCHANGED <<cacheVars, mainFlow, queue, pubVars, redisVars, subscriber, failureVars,
                 publishMode>>

\* result_subscriber.close(), and the end of the process with its threads.
CloseSubscriber ==
  /\ mainPc = "closeSubscriber"
  /\ mainPc' = "exited"
  /\ subscriber' = "closed"
  /\ lost' = lost \cup results
  /\ results' = {}
  /\ UNCHANGED <<cacheVars, mainFlow, queue, pubVars, stream, latency, unanswered,
                 failureVars, publishMode>>

-----------------------------------------------------------------------------
HandlerStep == AppendPacket \/ CheckReady \/ MarkUnpublished \/ MarkPending \/ HandOver
PublisherStep == \/ TakeRequest \/ AddRequest \/ RequestRefused \/ ReplyLost
                 \/ AddLatencyRow \/ LatencyRowRefused \/ ResetStatus
ShutdownStep == JoinReturns \/ CloseProducer \/ CloseSubscriber

Next == \/ \E f \in Flows : PacketArrives(f)
        \/ HandlerStep
        \/ PublisherStep
        \/ \E id \in Ids : Answer(id) \/ Lose(id) \/ ApplyResult(id)
        \/ Subscribe
        \/ SubscriberFails
        \/ Interrupt
        \/ ShutdownStep

Spec == Init /\ [][Next]_vars

\* The threads run on: none stops in the middle of a packet, a publish or the
\* shutdown; a worker answers what it can read and the subscriber thread reads
\* its channel.  Packets, failures, losses and Ctrl-C may stay away.
AnswerSome == \E id \in Ids : Answer(id)
ApplySome == \E id \in Ids : ApplyResult(id)
Fairness == /\ WF_vars(HandlerStep)
            /\ WF_vars(PublisherStep)
            /\ WF_vars(AnswerSome)
            /\ WF_vars(Subscribe)
            /\ WF_vars(ApplySome)
            /\ WF_vars(ShutdownStep)

FairSpec == Spec /\ Fairness

-----------------------------------------------------------------------------
(* Properties. *)

MainHolds(f) == mainPc \in {"mark", "put"} /\ mainFlow = f
PublisherHolds(f) == pubPc \in {"xadd", "latency", "reset"} /\ pubFlow = f
InHand(f) == MainHolds(f) \/ Queued(f) \/ PublisherHolds(f)

\* A flow is on its way to Redis at most once at any time: not twice in the
\* publish queue, not in the queue while the publisher or on_event holds it.
\* mark_pending before put is what has to guarantee it against a publisher
\* that resets the status meanwhile.
OneRequestInHand ==
  /\ \A i, j \in 1 .. Len(queue) : queue[i] = queue[j] => i = j
  /\ \A f \in Flows : /\ ~(MainHolds(f) /\ Queued(f))
                      /\ ~(PublisherHolds(f) /\ Queued(f))
                      /\ ~(MainHolds(f) /\ PublisherHolds(f))

\* A request is handed on only with all its feature packets, also when the
\* flow was put back to "default" and is published again.
RequestsAreComplete ==
  \A f \in Flows : InHand(f) \/ RequestsOf(f) # {} => packets[f] = FeaturePacketCount

\* Once publish() has stored a request and its latency row, no later request
\* of the same flow enters the stream: a second one is always the retry of a
\* publish that failed half way.
CompletedPublishIsFinal ==
  \A i, j \in Ids : i < j /\ stream[i] = stream[j] => i \notin latency

\* While the capture runs, a published flow that is pending is being handed
\* over or has a request in Redis whose answer is still due, on its way, or
\* lost: no interleaving of the three threads leaves it waiting for nothing.
PendingAwaitsAnswer ==
  \A f \in Flows :
    WillPublish(f) /\ status[f] = "pending" /\ ~Stopping
      => InHand(f) \/ \E id \in unanswered \cup results \cup lost : stream[id] = f

\* An entry loses its label only when a publish of its flow stored the request
\* and then failed: neither late packets nor a refused publish can undo it.
LabelLostOnlyAfterHalfPublish ==
  [][\A f \in Flows : status[f] \in Classes /\ status'[f] # status[f]
                        => ~(RequestsOf(f) \subseteq latency)]_vars

\* When publisher_loop has seen the stop sentinel, no request is left behind
\* in the queue: requests are lost at shutdown only when the join times out.
StoppedPublisherLeftNothing == pubPc = "done" => queue = <<>>

(* The inductive invariant behind the safety properties. *)

\* Who can be doing what in the two publish modes, and where the sentinel is.
ControlFacts ==
  /\ publishMode # "inline" => mainPc # "publishing"
  /\ publishMode # "queue" =>
       /\ queue = <<>>
       /\ pubPc # "done"
       /\ mainPc # "publishing" => pubPc = "get"
  /\ \A i \in 1 .. Len(queue) : queue[i] = Stop => i = Len(queue) /\ Stopping
  /\ pubPc = "done" => Stopping
  /\ mainPc = "notPublished" => ~WillPublish(mainFlow)
  /\ pubPc = "latency" => stream[Len(stream)] = pubFlow

\* From mark_pending until the publish is over the flow cannot be found ready.
InHandIsLocked ==
  \A f \in Flows :
    (mainPc = "put" /\ mainFlow = f) \/ Queued(f) \/ PublisherHolds(f)
      => status[f] \notin {"absent", "default"}

\* A completed publish locks its flow for good.
CompletedIsLocked ==
  \A id \in latency : /\ ~InHand(stream[id])
                      /\ status[stream[id]] \notin {"absent", "default"}

\* A label is the answer to a request.
LabelledWasRequested ==
  \A f \in Flows : status[f] \in Classes => RequestsOf(f) # {} /\ status[f] = Label[f]

\* Between its two XADDs a request is either still due or its flow labelled.
JustAddedIsDue ==
  pubPc = "latency" /\ status[pubFlow] = "pending"
    => Len(stream) \in unanswered \cup results \cup lost

IndInv ==
  /\ TypeOK
  /\ ControlFacts
  /\ OneRequestInHand
  /\ InHandIsLocked
  /\ RequestsAreComplete
  /\ CompletedIsLocked
  /\ CompletedPublishIsFinal
  /\ LabelledWasRequested
  /\ JustAddedIsDue
  /\ PendingAwaitsAnswer
  /\ StoppedPublisherLeftNothing

\* Every capture is, for each of its flows, the life FlowLifecycle promises: a
\* label only for a request, and a publish that went through is final.
Lifecycle == INSTANCE FlowLifecycle
               WITH sent <- {f \in Flows : RequestsOf(f) # {}},
                    confirmed <- {f \in Flows : RequestsOf(f) \cap latency # {}}
LifecycleSpec == Lifecycle!Spec

\* A pending flow of the published direction gets its label or is put back to
\* default, unless its answer is lost or the capture stops.
PendingResolves ==
  \A f \in Flows :
    WillPublish(f) /\ status[f] = "pending"
                          ~> \/ status[f] # "pending"
                             \/ RequestsOf(f) \cap lost # {}
                             \/ Stopping

\* Ctrl-C ends the process, whatever the publisher is doing.
ShutdownCompletes == Stopping ~> Exited

(* Statement of the documentation and of a test that the code contradicts. *)

\* docs/REALTIME_PACKET_REDIS_PIPELINE.md:167 and tests/test_online_tg_flow_cache.py:214:
\* pending is the lock that keeps a flow from being published twice.
NoFlowIsPublishedTwice == \A i, j \in Ids : stream[i] = stream[j] => i = j
=============================================================================
