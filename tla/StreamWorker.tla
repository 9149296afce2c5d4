---------------------------- MODULE StreamWorker ----------------------------
(***************************************************************************)
(* The classifier workers of model/step_GRU/stream_worker.py: processes    *)
(* that share one consumer group of the Redis stream, read new entries in  *)
(* batches, run the model, publish the result on Pub/Sub, acknowledge the  *)
(* entry and log it, one Redis or file operation per step.  A worker has   *)
(* no exception handler around that loop: any failure ends the process,    *)
(* and what it had read stays in the group's pending entries list.         *)
(*                                                                         *)
(* The stream, its consumer group and the trimming of XADD MAXLEN are      *)
(* Redis; they are modelled by what the commands of the code do.           *)
(***************************************************************************)
EXTENDS Naturals, Sequences

CONSTANTS
  Workers,      \* worker processes
  ReadCount,    \* --read-count: entries per XREADGROUP
  MaxEntries,   \* bound: entries added to the stream
  MaxStarts,    \* bound: times a worker process is started, over all workers
  IdleTimeout,  \* whether --idle-timeout-sec is given
  Trimmed       \* whether the producer gives --redis-stream-maxlen

ASSUME WorkerAssumption == /\ ReadCount \in Nat \ {0}
                           /\ MaxEntries \in Nat
                           /\ MaxStarts \in Nat
                           /\ IdleTimeout \in BOOLEAN
                           /\ Trimmed \in BOOLEAN

VARIABLES
  stream,        \* what kind of request each id is
  oldest,        \* ids below it were trimmed
  group,         \* whether the consumer group exists
  lastDelivered, \* the group's last-delivered id
  pel,           \* the group's pending entries: delivered, not acknowledged
  pc,            \* where each worker is in run()
  batch,         \* ids of the reply of XREADGROUP a worker still has to finish
  processed,     \* processed_messages > 0
  starts,        \* how many workers were started so far
  channel,       \* results published on response_channel, in order
  log            \* ids in the result log, in order

brokerVars == <<stream, oldest, group, lastDelivered>>
workerVars == <<pc, batch, processed, starts>>
outputVars == <<channel, log>>
vars == <<brokerVars, pel, workerVars, outputVars>>

\* "good" requests can be classified; "bad" ones make json.loads or infer
\* raise (no online_flow_key, no feature rows, another schema than the model);
\* "noPayload" entries have no payload field.
Kinds == {"good", "bad", "noPayload"}
RunningPcs == {"read", "handle", "publish", "ack", "log"}
Pcs == {"down", "start", "idle"} \cup RunningPcs

Ids == 1 .. Len(stream)
Answered == {channel[i].id : i \in 1 .. Len(channel)}
Logged == {log[i] : i \in 1 .. Len(log)}
InBatch == UNION {batch[w] : w \in Workers}

TypeOK ==
  /\ stream \in Seq(Kinds)
  /\ oldest \in Nat \ {0}
  /\ oldest <= Len(stream) + 1
  /\ group \in BOOLEAN
  /\ lastDelivered \in Nat
  /\ lastDelivered <= Len(stream)
  /\ pel \subseteq 1 .. lastDelivered
  /\ pc \in [Workers -> Pcs]
  /\ batch \in [Workers -> SUBSET (1 .. lastDelivered)]
  /\ processed \in [Workers -> BOOLEAN]
  /\ starts \in Nat
  /\ channel \in Seq([id : Nat, worker : Workers])
  /\ log \in Seq(Nat)

Init ==
  /\ stream = <<>>
  /\ oldest = 1
  /\ group = FALSE
  /\ lastDelivered = 0
  /\ pel = {}
  /\ pc = [w \in Workers |-> "down"]
  /\ batch = [w \in Workers |-> {}]
  /\ processed = [w \in Workers |-> FALSE]
  /\ starts = 0
  /\ channel = <<>>
  /\ log = <<>>

-----------------------------------------------------------------------------
(* The producers' side of the stream. *)

Produce(kind) ==
  /\ Len(stream) < MaxEntries
  /\ stream' = Append(stream, kind)
  /\ UNCHANGED <<oldest, group, lastDelivered, pel, workerVars, outputVars>>

\* MAXLEN with approximate=True drops oldest entries, read or not.
Trim ==
  /\ Trimmed
  /\ oldest < Len(stream)
  /\ oldest' = oldest + 1
  /\ UNCHANGED <<stream, group, lastDelivered, pel, workerVars, outputVars>>

-----------------------------------------------------------------------------
(* run() *)

\* An operator starts the process, for the first time or again; it loads the
\* model and runs ensure_group next.
Launch(w) ==
  /\ pc[w] \in {"down", "idle"}
  /\ starts < MaxStarts
  /\ starts' = starts + 1
  /\ pc' = [pc EXCEPT ![w] = "start"]
  /\ processed' = [processed EXCEPT ![w] = FALSE]
  /\ UNCHANGED <<brokerVars, pel, batch, outputVars>>

\* Mutant of EnsureGroup: the group is destroyed and created again.
RecreateGroup(w) ==
  /\ pc[w] = "start"
  /\ group' = TRUE
  /\ lastDelivered' = 0
  /\ pel' = {}
  /\ pc' = [pc EXCEPT ![w] = "read"]
  /\ UNCHANGED <<stream, oldest, batch, processed, starts, outputVars>>

\* ensure_group: XGROUP CREATE with id 0; BUSYGROUP is ignored.
EnsureGroup(w) ==
  /\ pc[w] = "start"
  /\ group' = TRUE
  /\ lastDelivered' = IF group THEN lastDelivered ELSE 0
  /\ pc' = [pc EXCEPT ![w] = "read"]
  /\ UNCHANGED <<stream, oldest, pel, batch, processed, starts, outputVars>>

\* The ids ">" stands for: stored, and delivered to no consumer of the group.
FirstNew == IF lastDelivered + 1 < oldest THEN oldest ELSE lastDelivered + 1
\* Mutant of LastRead: always ReadCount ids.
LastReadUnbounded == FirstNew + ReadCount - 1

LastRead == IF FirstNew + ReadCount - 1 < Len(stream)
              THEN FirstNew + ReadCount - 1
              ELSE Len(stream)

\* Mutants of ReadNew: without the last entry, and without moving the group's
\* position.
ReadNewExceptLast(w) ==
  /\ pc[w] = "read"
  /\ FirstNew < Len(stream)
  /\ batch' = [batch EXCEPT ![w] = FirstNew .. LastRead]
  /\ pel' = pel \cup (FirstNew .. LastRead)
  /\ lastDelivered' = LastRead
  /\ pc' = [pc EXCEPT ![w] = "handle"]
  /\ UNCHANGED <<stream, oldest, group, processed, starts, outputVars>>

ReadNewInPlace(w) ==
  /\ pc[w] = "read"
  /\ FirstNew <= Len(stream)
  /\ batch' = [batch EXCEPT ![w] = FirstNew .. LastRead]
  /\ pel' = pel \cup (FirstNew .. LastRead)
  /\ pc' = [pc EXCEPT ![w] = "handle"]
  /\ UNCHANGED <<brokerVars, processed, starts, outputVars>>

ReadNew(w) ==
  /\ pc[w] = "read"
  /\ FirstNew <= Len(stream)
  /\ batch' = [batch EXCEPT ![w] = FirstNew .. LastRead]
  /\ pel' = pel \cup (FirstNew .. LastRead)
  /\ lastDelivered' = LastRead
  /\ pc' = [pc EXCEPT ![w] = "handle"]
  /\ UNCHANGED <<stream, oldest, group, processed, starts, outputVars>>

\* Nothing new for idle_timeout_sec after at least one message: run returns.
IdleExit(w) ==
  /\ pc[w] = "read"
  /\ IdleTimeout
  /\ FirstNew > Len(stream)
  /\ processed[w]
  /\ pc' = [pc EXCEPT ![w] = "idle"]
  /\ UNCHANGED <<brokerVars, pel, batch, processed, starts, outputVars>>

\* Mutant of Current: the reply is worked through in no particular order.
CurrentAny(w, id) == id \in batch[w]

\* The entry the for loops are at.
Current(w, id) == id \in batch[w] /\ \A other \in batch[w] : id <= other

\* The end of the loop body for the current entry.
Finish(w, id) ==
  /\ batch' = [batch EXCEPT ![w] = @ \ {id}]
  /\ processed' = [processed EXCEPT ![w] = TRUE]
  /\ pc' = [pc EXCEPT ![w] = IF batch[w] = {id} THEN "read" ELSE "handle"]

\* An entry without payload is acknowledged and skipped.
Skip(w, id) ==
  /\ pc[w] = "handle"
  /\ stream[id] = "noPayload"
  /\ pel' = pel \ {id}
  /\ Finish(w, id)
  /\ UNCHANGED <<brokerVars, starts, outputVars>>

\* Mutant of Infer: the entry is acknowledged before its result is out.
InferThenAck(w, id) ==
  /\ pc[w] = "handle"
  /\ stream[id] = "good"
  /\ pc' = [pc EXCEPT ![w] = "ack"]
  /\ UNCHANGED <<brokerVars, pel, batch, processed, starts, outputVars>>

Infer(w, id) ==
  /\ pc[w] = "handle"
  /\ stream[id] = "good"
  /\ pc' = [pc EXCEPT ![w] = "publish"]
  /\ UNCHANGED <<brokerVars, pel, batch, processed, starts, outputVars>>

\* The process is gone, and with it the reply it was working through.
Die(w) ==
  /\ pc' = [pc EXCEPT ![w] = "down"]
  /\ batch' = [batch EXCEPT ![w] = {}]
  /\ UNCHANGED <<brokerVars, pel, processed, starts, outputVars>>

\* json.loads or infer raises; nothing catches it.
InferRaises(w, id) ==
  /\ pc[w] = "handle"
  /\ stream[id] = "bad"
  /\ Die(w)

\* Mutant of Publish: the acknowledgement is left out.
PublishThenLog(w, id) ==
  /\ pc[w] = "publish"
  /\ channel' = Append(channel, [id |-> id, worker |-> w])
  /\ pc' = [pc EXCEPT ![w] = "log"]
  /\ UNCHANGED <<brokerVars, pel, batch, processed, starts, log>>

Publish(w, id) ==
  /\ pc[w] = "publish"
  /\ channel' = Append(channel, [id |-> id, worker |-> w])
  /\ pc' = [pc EXCEPT ![w] = "ack"]
  /\ UNCHANGED <<brokerVars, pel, batch, processed, starts, log>>

Ack(w, id) ==
  /\ pc[w] = "ack"
  /\ pel' = pel \ {id}
  /\ pc' = [pc EXCEPT ![w] = "log"]
  /\ UNCHANGED <<brokerVars, batch, processed, starts, outputVars>>

AppendLog(w, id) ==
  /\ pc[w] = "log"
  /\ log' = Append(log, id)
  /\ Finish(w, id)
  /\ UNCHANGED <<brokerVars, pel, starts, channel>>

\* A kill, or a Redis or file error that ends the process, at any point.
Crash(w) == pc[w] \in {"start"} \cup RunningPcs /\ Die(w)

EntryStep(w, id) ==
  /\ Current(w, id)
  /\ \/ Skip(w, id) \/ Infer(w, id) \/ InferRaises(w, id)
     \/ Publish(w, id) \/ Ack(w, id) \/ AppendLog(w, id)

WorkerStep(w) == EnsureGroup(w) \/ ReadNew(w) \/ \E id \in batch[w] : EntryStep(w, id)

Next == \/ \E kind \in Kinds : Produce(kind)
        \/ Trim
        \/ \E w \in Workers : \/ Launch(w) \/ WorkerStep(w)
                              \/ IdleExit(w) \/ Crash(w)

Spec == Init /\ [][Next]_vars

\* A worker that is up keeps going.  Nothing makes entries come, workers crash,
\* go idle or be started again.
Fairness == \A w \in Workers : WF_vars(WorkerStep(w))
FairSpec == Spec /\ Fairness

-----------------------------------------------------------------------------
(* Properties. *)

\* No request is answered twice, by one worker or two, before or after any
\* crash and restart: reading only ">" hands every entry out once.
AnsweredAtMostOnce ==
  \A i, j \in 1 .. Len(channel) : channel[i].id = channel[j].id => i = j

\* A request leaves the pending entries list only after its result was
\* published: an acknowledged request was answered.
AcknowledgedWasAnswered ==
  \A id \in 1 .. lastDelivered :
    stream[id] = "good" /\ id >= oldest /\ id \notin pel => id \in Answered

\* No two workers work on the same entry, and each entry being worked on is
\* unacknowledged until its log line is due.
OneWorkerPerEntry ==
  /\ \A v, w \in Workers : v # w => batch[v] \cap batch[w] = {}
  /\ \A w \in Workers : \A id \in batch[w] :
       id \notin pel => pc[w] = "log" /\ Current(w, id)

\* The log holds only requests that were answered and acknowledged, each once.
LogIsBehindAck ==
  /\ Logged \subseteq Answered \ pel
  /\ \A i, j \in 1 .. Len(log) : log[i] = log[j] => i = j

\* One worker answers in stream order, over restarts too; only several workers
\* can reorder results.
WorkerKeepsOrder ==
  \A i, j \in 1 .. Len(channel) :
    i < j /\ channel[i].worker = channel[j].worker => channel[i].id < channel[j].id

\* Entries that were delivered to a worker that died with them.
Stranded == pel \ InBatch

\* What a dead worker left is never taken up by any worker again.
StrandedStaysStranded == [][Stranded \subseteq Stranded']_vars

(* The inductive invariant behind the safety properties. *)

\* How far a worker is with the entry it is at, and that it has not begun the
\* others of its batch.
BatchProgress ==
  \A w \in Workers :
    /\ pc[w] \notin {"handle", "publish", "ack", "log"} => batch[w] = {}
    /\ \A id \in batch[w] :
         /\ id \notin Logged
         /\ id \in Answered => pc[w] \in {"ack", "log"} /\ Current(w, id)
         /\ Current(w, id) =>
              /\ pc[w] \in {"publish", "ack", "log"} => stream[id] = "good"
              /\ pc[w] \in {"ack", "log"} => id \in Answered
              /\ pc[w] = "log" => id \notin pel

\* Nothing is read without the group; results are about delivered entries, and
\* a worker moves upwards in ids.
ChannelProgress ==
  /\ ~group => lastDelivered = 0 /\ \A w \in Workers : pc[w] \notin RunningPcs
  /\ \A i \in 1 .. Len(channel) :
       /\ channel[i].id \in 1 .. lastDelivered
       /\ \A id \in batch[channel[i].worker] : channel[i].id <= id

IndInv ==
  /\ TypeOK
  /\ BatchProgress
  /\ ChannelProgress
  /\ OneWorkerPerEntry
  /\ AnsweredAtMostOnce
  /\ AcknowledgedWasAnswered
  /\ LogIsBehindAck
  /\ WorkerKeepsOrder

\* Ids that will never be answered: stranded before their result was out,
\* skipped for their missing payload, or trimmed before they were read.
GivenUp == {id \in Ids : /\ id \notin Answered
                         /\ \/ id <= lastDelivered /\ id \notin InBatch
                            \/ id > lastDelivered /\ id < oldest}
Service == INSTANCE ClassifierService
             WITH submitted <- Len(stream), answered <- Answered, givenUp <- GivenUp
ServiceSpec == Service!Spec

NobodyUp == \A w \in Workers : pc[w] \in {"down", "idle"}

\* While there is always a worker up, every request is answered or given up:
\* no entry is overlooked between the batches of several workers.
EveryRequestSettles ==
  \A id \in 1 .. MaxEntries : id \in Ids ~> id \in Answered \cup GivenUp \/ NobodyUp

(* Statement of a comment that the code contradicts. *)

\* stream_worker.py:385: an entry left in the pending list is redelivered over
\* and over (to whatever worker is up).
PendingIsRedelivered ==
  \A id \in 1 .. MaxEntries : id \in Stranded ~> id \in InBatch \/ NobodyUp
=============================================================================
