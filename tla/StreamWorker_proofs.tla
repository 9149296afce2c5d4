------------------------ MODULE StreamWorker_proofs ------------------------
(***************************************************************************)
(* Proofs about StreamWorker, for any workers, batch sizes, crashes and    *)
(* trimming, and that it implements ClassifierService.                     *)
(***************************************************************************)
EXTENDS StreamWorker, TLAPS

-----------------------------------------------------------------------------
(* Sequences, batches and the ids XREADGROUP hands out. *)

\* The entry a worker is at is determined by its batch.
LEMMA SmallestIsUnique ==
  ASSUME TypeOK, NEW w \in Workers, NEW id, NEW other, Current(w, id), Current(w, other)
  PROVE  id = other
<1>1. id \in Nat /\ other \in Nat BY DEF TypeOK, Current
<1> QED BY <1>1 DEF Current

\* What PUBLISH and the log file do to the sequences that record them.
LEMMA AppendFacts ==
  ASSUME NEW S, NEW s \in Seq(S), NEW e \in S
  PROVE  /\ Append(s, e) \in Seq(S)
         /\ Len(s) \in Nat
         /\ Len(Append(s, e)) = Len(s) + 1
         /\ Append(s, e)[Len(s) + 1] = e
         /\ \A i \in 1 .. Len(s) : Append(s, e)[i] = s[i]
  OBVIOUS

\* The elements of a sequence are of its kind.
LEMMA ElementFacts ==
  ASSUME NEW S, NEW s \in Seq(S)
  PROVE  \A i \in 1 .. Len(s) : s[i] \in S
  OBVIOUS

\* Every result on the channel names a worker.
LEMMA ChannelElements ==
  ASSUME TypeOK
  PROVE  \A i \in 1 .. Len(channel) : channel[i].worker \in Workers /\ channel[i].id \in Nat
<1>1. channel \in Seq([id : Nat, worker : Workers]) BY DEF TypeOK
<1>2. \A i \in 1 .. Len(channel) : channel[i] \in [id : Nat, worker : Workers]
  BY <1>1, ElementFacts
<1> QED BY <1>2

\* XREADGROUP hands out a non-empty run of ids above lastDelivered, and what it
\* leaves out below them was trimmed.
LEMMA ReadFacts ==
  ASSUME TypeOK, FirstNew <= Len(stream)
  PROVE  /\ FirstNew \in Nat /\ LastRead \in Nat
         /\ 1 <= FirstNew /\ lastDelivered < FirstNew
         /\ FirstNew <= LastRead /\ LastRead <= Len(stream)
         /\ \A id \in Nat : lastDelivered < id /\ id < FirstNew => id < oldest
<1>1. Len(stream) \in Nat /\ lastDelivered \in Nat /\ oldest \in Nat \ {0} BY DEF TypeOK
<1> QED BY <1>1, WorkerAssumption DEF FirstNew, LastRead

\* PUBLISH adds its entry to the answered ones.
LEMMA PublishAnswers ==
  ASSUME TypeOK, NEW w \in Workers, NEW id \in batch[w], Publish(w, id)
  PROVE  Answered' = Answered \cup {id}
<1>1. /\ Len(channel) \in Nat
      /\ Len(channel') = Len(channel) + 1
      /\ channel'[Len(channel) + 1] = [id |-> id, worker |-> w]
      /\ \A i \in 1 .. Len(channel) : channel'[i] = channel[i]
  <2>1. [id |-> id, worker |-> w] \in [id : Nat, worker : Workers] BY DEF TypeOK
  <2>2. channel \in Seq([id : Nat, worker : Workers]) BY DEF TypeOK
  <2>3. channel' = Append(channel, [id |-> id, worker |-> w]) BY DEF Publish
  <2> QED BY <2>1, <2>2, <2>3, AppendFacts
<1>2. \A i \in 1 .. Len(channel') : i \in 1 .. Len(channel) \/ i = Len(channel) + 1
  BY <1>1
<1>3. Len(channel) + 1 \in 1 .. Len(channel') /\ 1 .. Len(channel) \subseteq 1 .. Len(channel')
  BY <1>1
<1> QED BY <1>1, <1>2, <1>3 DEF Answered

-----------------------------------------------------------------------------
(* Every action keeps the invariant. *)

\* A step that reads, answers and acknowledges nothing: it may add entries,
\* trim them, create the group, and start or stop workers without a batch.
LEMMA QuietInv ==
  ASSUME IndInv, TypeOK', UNCHANGED <<lastDelivered, pel, batch, channel, log>>,
         \A id \in 1 .. lastDelivered : stream'[id] = stream[id],
         oldest <= oldest',
         group => group',
         \A w \in Workers :
           /\ \/ pc'[w] = pc[w]
              \/ /\ pc[w] \notin {"handle", "publish", "ack", "log"}
                 /\ pc'[w] \notin {"handle", "publish", "ack", "log"}
           /\ pc'[w] \in RunningPcs => group'
  PROVE  IndInv'
<1>1. Answered' = Answered /\ Logged' = Logged BY DEF Answered, Logged
<1>2. \A w \in Workers, id \in Nat : Current(w, id)' <=> Current(w, id) BY DEF Current
<1>3. \A w \in Workers : \A id \in batch[w] : id \in Nat /\ stream'[id] = stream[id]
  BY DEF IndInv, TypeOK
<1>4. BatchProgress'
  BY <1>1, <1>2, <1>3 DEF IndInv, BatchProgress
<1>5. ChannelProgress'
  BY DEF IndInv, ChannelProgress
<1>6. OneWorkerPerEntry'
  BY <1>2, <1>3 DEF IndInv, OneWorkerPerEntry, BatchProgress
<1>7. AnsweredAtMostOnce' /\ WorkerKeepsOrder'
  BY DEF IndInv, AnsweredAtMostOnce, WorkerKeepsOrder
<1>8. AcknowledgedWasAnswered'
  <2>1. \A id \in 1 .. lastDelivered : id >= oldest' => id >= oldest
    BY DEF IndInv, TypeOK
  <2> QED BY <1>1, <2>1 DEF IndInv, AcknowledgedWasAnswered
<1>9. LogIsBehindAck'
  BY <1>1 DEF IndInv, LogIsBehindAck
<1> QED BY <1>4, <1>5, <1>6, <1>7, <1>8, <1>9 DEF IndInv

\* The producers, and Redis trimming the stream.
LEMMA StreamInv ==
  ASSUME IndInv, (\E kind \in Kinds : Produce(kind)) \/ Trim
  PROVE  IndInv'
<1>1. ASSUME NEW kind \in Kinds, Produce(kind) PROVE IndInv'
  <2>1. /\ stream' \in Seq(Kinds) /\ Len(stream) \in Nat
        /\ Len(stream') = Len(stream) + 1
        /\ \A id \in 1 .. Len(stream) : stream'[id] = stream[id]
    BY <1>1, AppendFacts DEF Produce, IndInv, TypeOK
  <2>2. UNCHANGED <<oldest, group, lastDelivered, pel, pc, batch, processed, starts, channel, log>>
    BY <1>1 DEF Produce, workerVars, outputVars
  <2>3. TypeOK' BY <2>1, <2>2 DEF IndInv, TypeOK
  <2>4. \A id \in 1 .. lastDelivered : stream'[id] = stream[id]
    <3>1. lastDelivered \in Nat /\ lastDelivered <= Len(stream)
      BY DEF IndInv, TypeOK
    <3>2. 1 .. lastDelivered \subseteq 1 .. Len(stream)
      BY <3>1, <2>1
    <3> QED BY <3>2, <2>1
  <2>5. oldest <= oldest' /\ \A w \in Workers : pc[w] \in RunningPcs => group
    BY <2>2 DEF IndInv, TypeOK, ChannelProgress
  <2> QED BY <2>2, <2>3, <2>4, <2>5, QuietInv
<1>2. CASE Trim
  <2>1. /\ UNCHANGED <<stream, group, lastDelivered, pel, pc, batch, processed, starts, channel, log>>
        /\ oldest' = oldest + 1 /\ oldest < Len(stream)
    BY <1>2 DEF Trim, workerVars, outputVars
  <2>2. oldest' \in Nat \ {0} /\ oldest <= oldest' /\ oldest' <= Len(stream) + 1
    BY <2>1 DEF IndInv, TypeOK
  <2>3. TypeOK' BY <2>1, <2>2 DEF IndInv, TypeOK
  <2> QED BY <2>1, <2>2, <2>3, QuietInv DEF IndInv, ChannelProgress
<1> QED BY <1>1, <1>2

\* A worker is started, finds or creates the group, or goes idle.
LEMMA EmptyHandedInv ==
  ASSUME IndInv, NEW w \in Workers, Launch(w) \/ EnsureGroup(w) \/ IdleExit(w)
  PROVE  IndInv'
<1>1. /\ UNCHANGED <<stream, oldest, pel, batch, channel, log>>
      /\ group => group'
  BY DEF Launch, EnsureGroup, IdleExit, brokerVars, outputVars
<1>2. lastDelivered' = lastDelivered
  BY DEF Launch, EnsureGroup, IdleExit, brokerVars, IndInv, ChannelProgress
<1>3. TypeOK'
  <2>1. pc' \in [Workers -> Pcs]
    BY DEF Launch, EnsureGroup, IdleExit, IndInv, TypeOK, Pcs, RunningPcs
  <2>2. processed' \in [Workers -> BOOLEAN]
    BY DEF Launch, EnsureGroup, IdleExit, IndInv, TypeOK
  <2>3. starts' \in Nat
    <3>1. starts' = starts \/ starts' = starts + 1
      BY DEF Launch, EnsureGroup, IdleExit
    <3>2. starts \in Nat BY DEF IndInv, TypeOK
    <3> QED BY <3>1, <3>2
  <2>4. group' \in BOOLEAN
    BY DEF Launch, EnsureGroup, IdleExit, brokerVars, IndInv, TypeOK
  <2> QED BY <1>1, <1>2, <2>1, <2>2, <2>3, <2>4 DEF IndInv, TypeOK
<1>4. \A v \in Workers :
        /\ \/ pc'[v] = pc[v]
           \/ /\ pc[v] \notin {"handle", "publish", "ack", "log"}
              /\ pc'[v] \notin {"handle", "publish", "ack", "log"}
        /\ pc'[v] \in RunningPcs => group'
  BY DEF Launch, EnsureGroup, IdleExit, brokerVars, IndInv, TypeOK, ChannelProgress, RunningPcs
<1>5. oldest <= oldest' BY <1>1 DEF IndInv, TypeOK
<1> QED BY <1>1, <1>2, <1>3, <1>4, <1>5, QuietInv

\* XREADGROUP with ">": the new batch lies above everything delivered so far.
LEMMA ReadNewInv ==
  ASSUME IndInv, NEW w \in Workers, ReadNew(w)
  PROVE  IndInv'
<1> USE DEF IndInv, ReadNew, brokerVars, workerVars, outputVars
<1>1. Answered' = Answered /\ Logged' = Logged BY DEF Answered, Logged
<1>2. \A v \in Workers \ {w}, x \in Nat : Current(v, x)' <=> Current(v, x)
  BY DEF Current, TypeOK
<1>3. /\ FirstNew \in Nat /\ LastRead \in Nat /\ lastDelivered \in Nat
      /\ 1 <= FirstNew /\ lastDelivered < FirstNew
      /\ FirstNew <= LastRead /\ LastRead <= Len(stream)
      /\ \A id \in Nat : lastDelivered < id /\ id < FirstNew => id < oldest
  BY ReadFacts DEF TypeOK
<1>4. \A id \in 1 .. lastDelivered : id \in 1 .. LastRead /\ id \notin FirstNew .. LastRead
  BY <1>3
<1>5. \A id \in FirstNew .. LastRead : id \in 1 .. LastRead /\ id \notin 1 .. lastDelivered
  BY <1>3
<1>6. \A v \in Workers : batch'[v] = IF v = w THEN FirstNew .. LastRead ELSE batch[v]
  BY DEF TypeOK
<1>7. \A v \in Workers : batch[v] \subseteq 1 .. lastDelivered
  BY DEF TypeOK
<1>8. Answered \subseteq 1 .. lastDelivered /\ Logged \subseteq 1 .. lastDelivered
  BY DEF Answered, ChannelProgress, LogIsBehindAck
<1>9. \A v \in Workers : pc'[v] = IF v = w THEN "handle" ELSE pc[v]
  BY DEF TypeOK
<1>10. TypeOK'
  <2>1. batch' \in [Workers -> SUBSET (1 .. lastDelivered')]
    BY <1>4, <1>5, <1>7 DEF TypeOK
  <2>2. pel' \subseteq 1 .. lastDelivered'
    BY <1>4, <1>5 DEF TypeOK
  <2> QED BY <1>3, <2>1, <2>2 DEF TypeOK, Pcs, RunningPcs
<1>11. BatchProgress'
  BY <1>1, <1>2, <1>4, <1>5, <1>6, <1>7, <1>8, <1>9, <1>10
     DEF BatchProgress, TypeOK
<1>12. ChannelProgress'
  <2>1. group /\ group' BY DEF ChannelProgress, RunningPcs
  <2>2. ASSUME NEW i \in 1 .. Len(channel) 
        PROVE  /\ channel[i].id \in 1 .. LastRead
               /\ \A id \in batch'[channel[i].worker] : channel[i].id <= id
    <3>1. channel[i].worker \in Workers /\ channel[i].id \in 1 .. lastDelivered
      BY ChannelElements DEF ChannelProgress
    <3>2. \A id \in FirstNew .. LastRead : channel[i].id <= id BY <1>3, <3>1
    <3> QED BY <1>4, <1>6, <3>1, <3>2 DEF ChannelProgress
  <2> QED BY <2>1, <2>2 DEF ChannelProgress, RunningPcs, TypeOK
<1>13. OneWorkerPerEntry'
  BY <1>2, <1>4, <1>5, <1>6, <1>7, <1>9 DEF OneWorkerPerEntry, TypeOK
<1>14. AnsweredAtMostOnce' /\ WorkerKeepsOrder'
  BY DEF AnsweredAtMostOnce, WorkerKeepsOrder
<1>15. AcknowledgedWasAnswered'
  <2>1. \A x \in 1 .. LastRead : x \notin FirstNew .. LastRead /\ x >= oldest
                                => x \in 1 .. lastDelivered
    <3>1. oldest \in Nat BY DEF TypeOK
    <3> QED BY <1>3, <3>1
  <2> QED BY <1>1, <2>1 DEF AcknowledgedWasAnswered
<1>16. LogIsBehindAck'
  BY <1>1, <1>5, <1>8 DEF LogIsBehindAck
<1> QED BY <1>10, <1>11, <1>12, <1>13, <1>14, <1>15, <1>16

\* A worker dies: its batch leaves every worker's hands.
LEMMA DieInv ==
  ASSUME IndInv, NEW w \in Workers, Die(w)
  PROVE  IndInv'
<1> USE DEF IndInv, Die, brokerVars, workerVars, outputVars
<1>1. Answered' = Answered /\ Logged' = Logged BY DEF Answered, Logged
<1>2. \A v \in Workers \ {w}, x \in Nat : Current(v, x)' <=> Current(v, x)
  BY DEF Current, TypeOK
<1>3. TypeOK' BY DEF TypeOK, Pcs, RunningPcs
<1>4. BatchProgress'
  BY <1>1, <1>2, <1>3
     DEF BatchProgress, ChannelProgress, OneWorkerPerEntry, LogIsBehindAck, TypeOK
<1>5. ChannelProgress'
  <2>1. \A v \in Workers : batch'[v] \subseteq batch[v] BY DEF TypeOK
  <2>2. \A i \in 1 .. Len(channel) : channel[i].worker \in Workers BY ChannelElements
  <2> QED BY <2>1, <2>2 DEF ChannelProgress, RunningPcs, TypeOK
<1>6. OneWorkerPerEntry'
  <2>1. \A v \in Workers : /\ batch'[v] \subseteq batch[v]
                          /\ v # w => batch'[v] = batch[v] /\ pc'[v] = pc[v]
    BY DEF TypeOK
  <2>2. \A x \in batch'[w] : x \in pel'
    BY <1>1, <1>2, <1>3 DEF OneWorkerPerEntry, BatchProgress, TypeOK
  <2>3. \A v \in Workers \ {w} : \A x \in batch[v] : x \notin pel' => x \notin pel
    BY DEF OneWorkerPerEntry
  <2>4. \A v \in Workers \ {w} : \A x \in batch[v] : x \in Nat
    BY DEF TypeOK
  <2> QED BY <1>2, <2>1, <2>2, <2>3, <2>4 DEF OneWorkerPerEntry
<1>7. AnsweredAtMostOnce' /\ WorkerKeepsOrder'
  BY DEF AnsweredAtMostOnce, WorkerKeepsOrder
<1>8. AcknowledgedWasAnswered'
  BY <1>1, <1>2, <1>3 DEF AcknowledgedWasAnswered, BatchProgress, TypeOK
<1>9. LogIsBehindAck'
  BY <1>1, <1>2, <1>3 DEF LogIsBehindAck, BatchProgress, ChannelProgress, TypeOK
<1> QED BY <1>3, <1>4, <1>5, <1>6, <1>7, <1>8, <1>9

\* The acknowledgement of an entry without payload.
LEMMA SkipInv ==
  ASSUME IndInv, NEW w \in Workers, NEW id \in batch[w], Current(w, id), Skip(w, id)
  PROVE  IndInv'
<1> USE DEF IndInv, Skip, Finish, brokerVars, workerVars, outputVars
<1>1. Answered' = Answered /\ Logged' = Logged BY DEF Answered, Logged
<1>2. \A v \in Workers \ {w}, x \in Nat : Current(v, x)' <=> Current(v, x)
  BY DEF Current, TypeOK
<1>3. \A x \in Nat : Current(w, x) => x = id BY SmallestIsUnique
<1>4. TypeOK' BY DEF TypeOK, Pcs, RunningPcs
<1>5. BatchProgress'
  BY <1>1, <1>2, <1>3, <1>4
     DEF BatchProgress, ChannelProgress, OneWorkerPerEntry, LogIsBehindAck, TypeOK
<1>6. ChannelProgress'
  <2>1. \A v \in Workers : batch'[v] \subseteq batch[v] BY DEF TypeOK
  <2>2. \A i \in 1 .. Len(channel) : channel[i].worker \in Workers BY ChannelElements
  <2> QED BY <2>1, <2>2 DEF ChannelProgress, RunningPcs, TypeOK
<1>7. OneWorkerPerEntry'
  <2>1. \A v \in Workers : /\ batch'[v] \subseteq batch[v]
                          /\ v # w => batch'[v] = batch[v] /\ pc'[v] = pc[v]
    BY DEF TypeOK
  <2>2. \A x \in batch'[w] : x \in pel'
    BY <1>1, <1>2, <1>3, <1>4 DEF OneWorkerPerEntry, BatchProgress, TypeOK
  <2>3. \A v \in Workers \ {w} : \A x \in batch[v] : x \notin pel' => x \notin pel
    BY DEF OneWorkerPerEntry
  <2>4. \A v \in Workers \ {w} : \A x \in batch[v] : x \in Nat
    BY DEF TypeOK
  <2> QED BY <1>2, <2>1, <2>2, <2>3, <2>4 DEF OneWorkerPerEntry
<1>8. AnsweredAtMostOnce' /\ WorkerKeepsOrder'
  BY DEF AnsweredAtMostOnce, WorkerKeepsOrder
<1>9. AcknowledgedWasAnswered'
  BY <1>1, <1>2, <1>3, <1>4 DEF AcknowledgedWasAnswered, BatchProgress, TypeOK
<1>10. LogIsBehindAck'
  BY <1>1, <1>2, <1>3, <1>4 DEF LogIsBehindAck, BatchProgress, ChannelProgress, TypeOK
<1> QED BY <1>4, <1>5, <1>6, <1>7, <1>8, <1>9, <1>10

\* The model has run; the result is not published yet.
LEMMA InferInv ==
  ASSUME IndInv, NEW w \in Workers, NEW id \in batch[w], Current(w, id), Infer(w, id)
  PROVE  IndInv'
<1> USE DEF IndInv, Infer, brokerVars, workerVars, outputVars
<1>1. Answered' = Answered /\ Logged' = Logged BY DEF Answered, Logged
<1>2. \A v \in Workers, x \in Nat : Current(v, x)' <=> Current(v, x) BY DEF Current
<1>3. \A x \in Nat : Current(w, x) => x = id BY SmallestIsUnique
<1>4. TypeOK' BY DEF TypeOK, Pcs, RunningPcs
<1>5. BatchProgress'
  BY <1>1, <1>2, <1>3, <1>4
     DEF BatchProgress, ChannelProgress, OneWorkerPerEntry, LogIsBehindAck, TypeOK
<1>6. ChannelProgress' BY <1>1, <1>2, <1>3, <1>4 DEF ChannelProgress, RunningPcs, TypeOK
<1>7. OneWorkerPerEntry' BY <1>1, <1>2, <1>3, <1>4 DEF OneWorkerPerEntry, TypeOK
<1>8. AnsweredAtMostOnce' /\ WorkerKeepsOrder'
  BY DEF AnsweredAtMostOnce, WorkerKeepsOrder
<1>9. AcknowledgedWasAnswered'
  BY <1>1, <1>2, <1>3, <1>4 DEF AcknowledgedWasAnswered, BatchProgress, TypeOK
<1>10. LogIsBehindAck'
  BY <1>1, <1>2, <1>3, <1>4 DEF LogIsBehindAck, BatchProgress, ChannelProgress, TypeOK
<1> QED BY <1>4, <1>5, <1>6, <1>7, <1>8, <1>9, <1>10

\* PUBLISH: the entry was not answered before, and is above the worker's earlier ones.
LEMMA PublishInv ==
  ASSUME IndInv, NEW w \in Workers, NEW id \in batch[w], Current(w, id), Publish(w, id)
  PROVE  IndInv'
<1> USE DEF IndInv, Publish, brokerVars, workerVars, outputVars
<1>1. /\ Len(channel) \in Nat
      /\ Len(channel') = Len(channel) + 1
      /\ channel'[Len(channel) + 1] = [id |-> id, worker |-> w]
      /\ \A i \in 1 .. Len(channel) : channel'[i] = channel[i]
      /\ channel' \in Seq([id : Nat, worker : Workers])
  <2>1. [id |-> id, worker |-> w] \in [id : Nat, worker : Workers] BY DEF TypeOK
  <2>2. channel \in Seq([id : Nat, worker : Workers]) BY DEF TypeOK
  <2> QED BY <2>1, <2>2, AppendFacts
<1>2. \A v \in Workers, x \in Nat : Current(v, x)' <=> Current(v, x) BY DEF Current
<1>3. \A x \in Nat : Current(w, x) => x = id BY SmallestIsUnique
<1>4. Logged' = Logged BY DEF Logged
<1>5. Answered' = Answered \cup {id}
  <2>1. \A i \in 1 .. Len(channel') : i \in 1 .. Len(channel) \/ i = Len(channel) + 1
    BY <1>1
  <2>2. \A i \in 1 .. Len(channel) : i \in 1 .. Len(channel') BY <1>1
  <2>3. Len(channel) + 1 \in 1 .. Len(channel') BY <1>1
  <2> QED BY <1>1, <2>1, <2>2, <2>3 DEF Answered
<1>6. id \notin Answered /\ id \in 1 .. lastDelivered /\ id \notin Logged
  BY DEF BatchProgress, TypeOK
<1>7. \A i \in 1 .. Len(channel') : i \in 1 .. Len(channel) \/ i = Len(channel) + 1
  BY <1>1
<1>8. \A x \in batch[w] : id <= x BY DEF Current
<1>9. TypeOK' BY <1>1 DEF TypeOK, Pcs, RunningPcs
<1>10. \A v \in Workers : pc'[v] = IF v = w THEN "ack" ELSE pc[v]
  BY DEF TypeOK
<1>11. BatchProgress'
  <2> SUFFICES ASSUME NEW v \in Workers
               PROVE  /\ pc'[v] \notin {"handle", "publish", "ack", "log"} => batch[v] = {}
                      /\ \A x \in batch[v] :
                           /\ x \notin Logged
                           /\ x \in Answered' => pc'[v] \in {"ack", "log"} /\ Current(v, x)
                           /\ Current(v, x) =>
                                /\ pc'[v] \in {"publish", "ack", "log"} => stream[x] = "good"
                                /\ pc'[v] \in {"ack", "log"} => x \in Answered'
                                /\ pc'[v] = "log" => x \notin pel
    BY <1>2, <1>4, <1>9 DEF BatchProgress, TypeOK
  <2>1. \A x \in batch[v] : x \in Nat BY DEF TypeOK
  <2>2. CASE v = w BY <1>3, <1>5, <1>10, <2>1, <2>2 DEF BatchProgress
  <2>3. CASE v # w
    <3>1. id \notin batch[v] BY <2>3 DEF OneWorkerPerEntry
    <3> QED BY <1>5, <1>10, <2>3, <3>1 DEF BatchProgress
  <2> QED BY <2>2, <2>3
<1>12. ChannelProgress'
  <2>1. ASSUME NEW i \in 1 .. Len(channel')
        PROVE  /\ channel'[i].id \in 1 .. lastDelivered
               /\ \A x \in batch[channel'[i].worker] : channel'[i].id <= x
    <3>1. CASE i \in 1 .. Len(channel) BY <1>1, <3>1 DEF ChannelProgress
    <3>2. CASE i = Len(channel) + 1
      <4>1. channel'[i].id = id /\ channel'[i].worker = w BY <1>1, <3>2
      <4> QED BY <1>6, <1>8, <4>1
    <3> QED BY <1>7, <3>1, <3>2
  <2>2. group BY DEF ChannelProgress, RunningPcs
  <2> QED BY <2>1, <2>2 DEF ChannelProgress
<1>13. OneWorkerPerEntry' BY <1>2 DEF OneWorkerPerEntry, TypeOK
<1>14. AnsweredAtMostOnce'
  <2>1. \A i \in 1 .. Len(channel) : channel[i].id # id BY <1>6 DEF Answered
  <2> QED BY <1>1, <1>7, <2>1 DEF AnsweredAtMostOnce
<1>15. AcknowledgedWasAnswered' BY <1>5 DEF AcknowledgedWasAnswered
<1>16. LogIsBehindAck' BY <1>4, <1>5, <1>6 DEF LogIsBehindAck
<1>17. WorkerKeepsOrder'
  <2>1. \A i \in 1 .. Len(channel) : channel[i].worker = w => channel[i].id < id
    <3>1. \A i \in 1 .. Len(channel) : channel[i].id # id BY <1>6 DEF Answered
    <3>2. \A i \in 1 .. Len(channel) : channel[i].worker = w => channel[i].id <= id
      BY DEF ChannelProgress
    <3>3. \A i \in 1 .. Len(channel) : channel[i].id \in Nat BY DEF ChannelProgress
    <3> QED BY <1>6, <3>1, <3>2, <3>3
  <2> QED BY <1>1, <1>7, <2>1 DEF WorkerKeepsOrder
<1> QED BY <1>9, <1>11, <1>12, <1>13, <1>14, <1>15, <1>16, <1>17

\* XACK comes after the result.
LEMMA AckInv ==
  ASSUME IndInv, NEW w \in Workers, NEW id \in batch[w], Current(w, id), Ack(w, id)
  PROVE  IndInv'
<1> USE DEF IndInv, Ack, brokerVars, workerVars, outputVars
<1>1. Answered' = Answered /\ Logged' = Logged BY DEF Answered, Logged
<1>2. \A v \in Workers, x \in Nat : Current(v, x)' <=> Current(v, x) BY DEF Current
<1>3. \A x \in Nat : Current(w, x) => x = id BY SmallestIsUnique
<1>4. TypeOK' BY DEF TypeOK, Pcs, RunningPcs
<1>5. BatchProgress'
  BY <1>1, <1>2, <1>3, <1>4
     DEF BatchProgress, ChannelProgress, OneWorkerPerEntry, LogIsBehindAck, TypeOK
<1>6. ChannelProgress' BY <1>1, <1>2, <1>3, <1>4 DEF ChannelProgress, RunningPcs, TypeOK
<1>7. OneWorkerPerEntry' BY <1>1, <1>2, <1>3, <1>4 DEF OneWorkerPerEntry, TypeOK
<1>8. AnsweredAtMostOnce' /\ WorkerKeepsOrder'
  BY DEF AnsweredAtMostOnce, WorkerKeepsOrder
<1>9. AcknowledgedWasAnswered'
  BY <1>1, <1>2, <1>3, <1>4 DEF AcknowledgedWasAnswered, BatchProgress, TypeOK
<1>10. LogIsBehindAck'
  BY <1>1, <1>2, <1>3, <1>4 DEF LogIsBehindAck, BatchProgress, ChannelProgress, TypeOK
<1> QED BY <1>4, <1>5, <1>6, <1>7, <1>8, <1>9, <1>10

\* The log line, after which the worker lets the entry go.
LEMMA AppendLogInv ==
  ASSUME IndInv, NEW w \in Workers, NEW id \in batch[w], Current(w, id), AppendLog(w, id)
  PROVE  IndInv'
<1> USE DEF IndInv, AppendLog, Finish, brokerVars, workerVars, outputVars
<1>1. /\ Len(log) \in Nat
      /\ Len(log') = Len(log) + 1
      /\ log'[Len(log) + 1] = id
      /\ \A i \in 1 .. Len(log) : log'[i] = log[i]
      /\ log' \in Seq(Nat)
  <2>1. id \in Nat /\ log \in Seq(Nat) BY DEF TypeOK
  <2> QED BY <2>1, AppendFacts
<1>2. \A i \in 1 .. Len(log') : i \in 1 .. Len(log) \/ i = Len(log) + 1
  BY <1>1
<1>3. Answered' = Answered /\ Logged' = Logged \cup {id}
  <2>2. \A i \in 1 .. Len(log) : i \in 1 .. Len(log') BY <1>1
  <2>3. Len(log) + 1 \in 1 .. Len(log') BY <1>1
  <2> QED BY <1>1, <1>2, <2>2, <2>3 DEF Logged, Answered
<1>4. \A v \in Workers \ {w}, x \in Nat : Current(v, x)' <=> Current(v, x)
  BY DEF Current, TypeOK
<1>5. \A x \in Nat : Current(w, x) => x = id BY SmallestIsUnique
<1>6. TypeOK' BY <1>1 DEF TypeOK, Pcs, RunningPcs
<1>7. BatchProgress'
  BY <1>3, <1>4, <1>5, <1>6
     DEF BatchProgress, ChannelProgress, OneWorkerPerEntry, LogIsBehindAck, TypeOK
<1>8. ChannelProgress'
  <2>1. \A v \in Workers : batch'[v] \subseteq batch[v] BY DEF TypeOK
  <2>2. \A i \in 1 .. Len(channel) : channel[i].worker \in Workers BY ChannelElements
  <2> QED BY <2>1, <2>2 DEF ChannelProgress, RunningPcs, TypeOK
<1>9. OneWorkerPerEntry'
  <2>1. \A v \in Workers : /\ batch'[v] \subseteq batch[v]
                          /\ v # w => batch'[v] = batch[v] /\ pc'[v] = pc[v]
    BY DEF TypeOK
  <2>2. \A x \in batch'[w] : x \in pel'
    BY <1>3, <1>4, <1>5, <1>6 DEF OneWorkerPerEntry, BatchProgress, TypeOK
  <2>3. \A v \in Workers \ {w} : \A x \in batch[v] : x \notin pel' => x \notin pel
    BY DEF OneWorkerPerEntry
  <2>4. \A v \in Workers \ {w} : \A x \in batch[v] : x \in Nat
    BY DEF TypeOK
  <2> QED BY <1>4, <2>1, <2>2, <2>3, <2>4 DEF OneWorkerPerEntry
<1>10. AnsweredAtMostOnce' /\ WorkerKeepsOrder'
  BY DEF AnsweredAtMostOnce, WorkerKeepsOrder
<1>11. AcknowledgedWasAnswered'
  BY <1>3, <1>4, <1>5, <1>6 DEF AcknowledgedWasAnswered, BatchProgress, TypeOK
<1>12. LogIsBehindAck'
  <2>1. id \in Answered /\ id \notin pel /\ id \notin Logged
    BY DEF BatchProgress
  <2>2. \A i \in 1 .. Len(log) : log[i] # id BY <2>1 DEF Logged
  <2>3. Logged' \subseteq Answered' \ pel' BY <1>3, <2>1 DEF LogIsBehindAck
  <2>4. \A i, j \in 1 .. Len(log) : log[i] = log[j] => i = j BY DEF LogIsBehindAck
  <2>5. SUFFICES ASSUME NEW i \in 1 .. Len(log'), NEW j \in 1 .. Len(log'), log'[i] = log'[j]
                 PROVE  i = j
    BY <2>3 DEF LogIsBehindAck
  <2>6. /\ i \in 1 .. Len(log) => log'[i] = log[i] /\ log'[i] # id
        /\ j \in 1 .. Len(log) => log'[j] = log[j] /\ log'[j] # id
    BY <1>1, <2>2
  <2>7. /\ i \in 1 .. Len(log) \/ i = Len(log) + 1
        /\ j \in 1 .. Len(log) \/ j = Len(log) + 1
    BY <1>2
  <2> HIDE DEF IndInv, AppendLog, Finish
  <2> QED BY <1>1, <2>4, <2>5, <2>6, <2>7
<1> QED BY <1>6, <1>7, <1>8, <1>9, <1>10, <1>11, <1>12

-----------------------------------------------------------------------------
(* The invariant, and what it says. *)

\* An empty stream, and no worker has read.
LEMMA InitInv == Init => IndInv
<1> SUFFICES ASSUME Init PROVE IndInv
  OBVIOUS
<1>1. TypeOK
  <2>1. Len(stream) = 0 /\ stream \in Seq(Kinds) BY DEF Init
  <2>2. /\ oldest = 1 /\ lastDelivered = 0 /\ pel = {} /\ channel = <<>> /\ log = <<>>
        /\ group = FALSE
        /\ batch = [w \in Workers |-> {}]
        /\ pc = [w \in Workers |-> "down"]
        /\ processed = [w \in Workers |-> FALSE]
        /\ starts = 0
    BY DEF Init
  <2>3. /\ oldest <= Len(stream) + 1 /\ lastDelivered <= Len(stream)
        /\ oldest \in Nat \ {0} /\ lastDelivered \in Nat
    BY <2>1, <2>2
  <2>4. channel \in Seq([id : Nat, worker : Workers]) /\ log \in Seq(Nat)
    BY <2>2
  <2>5. pel \subseteq 1 .. lastDelivered /\ batch \in [Workers -> SUBSET (1 .. lastDelivered)]
    BY <2>2
  <2> QED BY <2>1, <2>2, <2>3, <2>4, <2>5 DEF TypeOK, Pcs
<1>2. /\ 1 .. lastDelivered = {} /\ 1 .. Len(channel) = {} /\ 1 .. Len(log) = {}
      /\ \A w \in Workers : batch[w] = {} /\ pc[w] = "down"
  BY DEF Init
<1>3. Answered = {} /\ Logged = {} BY <1>2 DEF Answered, Logged
<1>4. BatchProgress BY <1>2 DEF BatchProgress
<1>5. ChannelProgress BY <1>2 DEF Init, ChannelProgress, RunningPcs
<1>6. OneWorkerPerEntry BY <1>2 DEF OneWorkerPerEntry
<1>7. AnsweredAtMostOnce /\ WorkerKeepsOrder
  BY <1>2 DEF AnsweredAtMostOnce, WorkerKeepsOrder
<1>8. AcknowledgedWasAnswered BY <1>2 DEF AcknowledgedWasAnswered
<1>9. LogIsBehindAck BY <1>2, <1>3 DEF LogIsBehindAck
<1> QED BY <1>1, <1>4, <1>5, <1>6, <1>7, <1>8, <1>9 DEF IndInv

\* A step that changes nothing.
LEMMA StutterInv ==
  ASSUME IndInv, UNCHANGED vars
  PROVE  IndInv'
<1>1. UNCHANGED <<stream, oldest, group, lastDelivered, pel, pc, batch, processed, starts,
                  channel, log>>
  BY DEF vars, brokerVars, workerVars, outputVars
<1>2. TypeOK' /\ oldest <= oldest' BY <1>1 DEF IndInv, TypeOK
<1> QED BY <1>1, <1>2, QuietInv DEF IndInv, ChannelProgress

\* Every step is one of the actions the lemmas are about; a crash and a raised
\* exception both are the death of the process.
LEMMA StepCases ==
  ASSUME [Next]_vars
  PROVE  \/ UNCHANGED vars
         \/ \E kind \in Kinds : Produce(kind)
         \/ Trim
         \/ \E w \in Workers : \/ Launch(w) \/ EnsureGroup(w) \/ ReadNew(w)
                               \/ IdleExit(w) \/ Die(w)
         \/ \E w \in Workers : \E id \in batch[w] :
              /\ Current(w, id)
              /\ \/ Skip(w, id) \/ Infer(w, id) \/ Publish(w, id) \/ Ack(w, id)
                 \/ AppendLog(w, id)
  BY DEF Next, WorkerStep, EntryStep, InferRaises, Crash

\* Every step of a worker, of the producer and of the trimming preserves the
\* invariant.
LEMMA NextInv ==
  ASSUME IndInv, [Next]_vars
  PROVE  IndInv'
<1>1. ASSUME NEW w \in Workers, NEW id \in batch[w], Current(w, id),
             \/ Skip(w, id) \/ Infer(w, id) \/ Publish(w, id) \/ Ack(w, id)
             \/ AppendLog(w, id)
      PROVE  IndInv'
  BY <1>1, SkipInv, InferInv, PublishInv, AckInv, AppendLogInv
<1>2. ASSUME NEW w \in Workers,
             Launch(w) \/ EnsureGroup(w) \/ ReadNew(w) \/ IdleExit(w) \/ Die(w)
      PROVE  IndInv'
  BY <1>2, EmptyHandedInv, ReadNewInv, DieInv
<1> QED BY <1>1, <1>2, StepCases, StutterInv, StreamInv

\* The safety properties and the facts about the progress of each worker are
\* inductive together, for any workers, batch size, crashes and trimming.
THEOREM Invariant == Spec => []IndInv
<1>1. Init => IndInv BY InitInv
<1>2. IndInv /\ [Next]_vars => IndInv' BY NextInv
<1> QED BY <1>1, <1>2, PTL DEF Spec

\* However workers die and are started again, no request gets two results.
THEOREM AtMostOneAnswer == Spec => []AnsweredAtMostOnce
<1>1. IndInv => AnsweredAtMostOnce BY DEF IndInv
<1> QED BY <1>1, Invariant, PTL

\* What is no longer pending in the group was answered (or had no payload).
THEOREM AckMeansAnswered == Spec => []AcknowledgedWasAnswered
<1>1. IndInv => AcknowledgedWasAnswered BY DEF IndInv
<1> QED BY <1>1, Invariant, PTL

\* Workers never share an entry.
THEOREM EntriesAreDisjoint == Spec => []OneWorkerPerEntry
<1>1. IndInv => OneWorkerPerEntry BY DEF IndInv
<1> QED BY <1>1, Invariant, PTL

\* A log line is evidence of a published and acknowledged result.
THEOREM LogIsEvidence == Spec => []LogIsBehindAck
<1>1. IndInv => LogIsBehindAck BY DEF IndInv
<1> QED BY <1>1, Invariant, PTL

\* The results of one worker come in stream order.
THEOREM OrderPerWorker == Spec => []WorkerKeepsOrder
<1>1. IndInv => WorkerKeepsOrder BY DEF IndInv
<1> QED BY <1>1, Invariant, PTL

\* What a dead worker had read stays undelivered for good: a step takes nothing
\* off the pending list but entries of a live batch, and puts none of the list
\* into a batch.
THEOREM StrandedForGood == Spec => StrandedStaysStranded
<1>1. ASSUME IndInv, [Next]_vars
      PROVE  [Stranded \subseteq Stranded']_vars
  <2>1. CASE UNCHANGED vars
    BY <2>1
  <2>2. ASSUME NEW w \in Workers, NEW id \in batch[w],
               Skip(w, id) \/ Infer(w, id) \/ Publish(w, id) \/ Ack(w, id) \/ AppendLog(w, id)
        PROVE  Stranded \subseteq Stranded'
    <3>1. pel \ {id} \subseteq pel'
      BY <2>2 DEF Skip, Infer, Publish, Ack, AppendLog
    <3>2. \A v \in Workers : batch'[v] \subseteq batch[v]
      <4>1. batch' = batch \/ batch' = [batch EXCEPT ![w] = @ \ {id}]
        BY <2>2 DEF Skip, Infer, Publish, Ack, AppendLog, Finish
      <4> QED BY <1>1, <4>1 DEF IndInv, TypeOK
    <3>3. id \in InBatch BY DEF InBatch
    <3>4. InBatch' \subseteq InBatch BY <3>2 DEF InBatch
    <3> QED BY <3>1, <3>3, <3>4 DEF Stranded
  <2>3. ASSUME NEW w \in Workers, ReadNew(w)
        PROVE  Stranded \subseteq Stranded'
    <3>1. lastDelivered \in Nat /\ pel \subseteq 1 .. lastDelivered
      BY <1>1 DEF IndInv, TypeOK
    <3>2. FirstNew \in Nat /\ lastDelivered < FirstNew /\ LastRead \in Nat
      BY <1>1, <2>3, ReadFacts DEF IndInv, ReadNew
    <3>3. \A x \in pel : x \notin FirstNew .. LastRead BY <3>1, <3>2
    <3>4. pel \subseteq pel' BY <2>3 DEF ReadNew
    <3>5. \A v \in Workers : batch'[v] \subseteq batch[v] \cup (FirstNew .. LastRead)
      BY <1>1, <2>3 DEF ReadNew, IndInv, TypeOK
    <3> QED BY <3>3, <3>4, <3>5 DEF Stranded, InBatch
  <2>4. ASSUME \/ \E kind \in Kinds : Produce(kind)
               \/ Trim
               \/ \E w \in Workers : Launch(w) \/ EnsureGroup(w) \/ IdleExit(w) \/ Die(w)
        PROVE  Stranded \subseteq Stranded'
    <3>1. pel' = pel
      BY <2>4 DEF Produce, Trim, Launch, EnsureGroup, IdleExit, Die
    <3>2. \A v \in Workers : batch'[v] \subseteq batch[v]
      BY <1>1, <2>4 DEF Produce, Trim, Launch, EnsureGroup, IdleExit, Die, workerVars, IndInv, TypeOK
    <3> QED BY <3>1, <3>2 DEF Stranded, InBatch
  <2> QED BY <1>1, <2>1, <2>2, <2>3, <2>4, StepCases
<1> QED BY <1>1, Invariant, PTL DEF Spec, StrandedStaysStranded

-----------------------------------------------------------------------------
(* The workers implement ClassifierService. *)

\* What an abstract step can be, in terms of this module.
LEMMA ServiceStep ==
  ASSUME \/ Len(stream') = Len(stream) + 1 /\ Answered' = Answered /\ GivenUp' = GivenUp
         \/ /\ Len(stream') = Len(stream) /\ GivenUp' = GivenUp
            /\ \E id \in Ids \ (Answered \cup GivenUp) : Answered' = Answered \cup {id}
         \/ /\ Len(stream') = Len(stream) /\ Answered' = Answered
            /\ GivenUp \subseteq GivenUp' /\ GivenUp' \subseteq Ids \ Answered
  PROVE  [Service!Next]_(Service!vars)
<1> USE DEF Service!Next, Service!vars, Service!Open, Ids
<1>1. CASE Len(stream') = Len(stream) + 1 /\ Answered' = Answered /\ GivenUp' = GivenUp
  BY <1>1 DEF Service!Submit
<1>2. CASE /\ Len(stream') = Len(stream) /\ GivenUp' = GivenUp
           /\ \E id \in Ids \ (Answered \cup GivenUp) : Answered' = Answered \cup {id}
  BY <1>2 DEF Service!Answer
<1>3. CASE /\ Len(stream') = Len(stream) /\ Answered' = Answered
           /\ GivenUp \subseteq GivenUp' /\ GivenUp' \subseteq Ids \ Answered
  <2>1. Service!GiveUp(GivenUp' \ GivenUp)
    BY <1>3 DEF Service!GiveUp
  <2>2. GivenUp' \ GivenUp \in SUBSET Service!Open
    BY <1>3
  <2> QED BY <2>1, <2>2
<1> QED BY <1>1, <1>2, <1>3

\* The stream itself is changed by producers only, and the results on the
\* channel by Publish only.
LEMMA GivenUpFacts ==
  ASSUME IndInv
  PROVE  /\ Len(stream) \in Nat /\ lastDelivered \in Nat /\ oldest \in Nat
         /\ lastDelivered <= Len(stream) /\ oldest <= Len(stream) + 1
         /\ InBatch \subseteq 1 .. lastDelivered
         /\ Answered \subseteq 1 .. lastDelivered
         /\ 1 .. lastDelivered \subseteq Ids
         /\ GivenUp \subseteq Ids \ Answered
<1>1. /\ Len(stream) \in Nat /\ lastDelivered \in Nat /\ oldest \in Nat
      /\ lastDelivered <= Len(stream) /\ oldest <= Len(stream) + 1
      /\ InBatch \subseteq 1 .. lastDelivered
  BY DEF IndInv, TypeOK, InBatch
<1>2. Answered \subseteq 1 .. lastDelivered BY DEF IndInv, ChannelProgress, Answered
<1>3. 1 .. lastDelivered \subseteq Ids BY <1>1 DEF Ids
<1> QED BY <1>1, <1>2, <1>3 DEF GivenUp

\* Every step of producers, Redis and workers is an abstract one or none.
LEMMA NextService ==
  ASSUME IndInv, [Next]_vars
  PROVE  [Service!Next]_(Service!vars)
<1> USE GivenUpFacts
<1>1. CASE UNCHANGED vars
  BY <1>1 DEF vars, brokerVars, workerVars, outputVars, Service!vars, Answered, GivenUp, Ids, InBatch
<1>2. ASSUME NEW kind \in Kinds, Produce(kind)
      PROVE  [Service!Next]_(Service!vars)
  <2>1. Len(stream') = Len(stream) + 1
    BY <1>2, AppendFacts DEF Produce, IndInv, TypeOK
  <2>2. Answered' = Answered /\ InBatch' = InBatch
    BY <1>2 DEF Produce, workerVars, outputVars, Answered, InBatch
  <2>3. lastDelivered' = lastDelivered /\ oldest' = oldest
    BY <1>2 DEF Produce
  <2>4. \A id : id \in Ids' <=> id \in Ids \/ id = Len(stream) + 1
    BY <2>1 DEF Ids
  <2>5. ~(Len(stream) + 1 < oldest) /\ ~(Len(stream) + 1 <= lastDelivered)
    OBVIOUS
  <2>6. GivenUp' = GivenUp BY <2>2, <2>3, <2>4, <2>5 DEF GivenUp
  <2> QED BY <2>1, <2>2, <2>6, ServiceStep
<1>3. CASE Trim
  <2>1. UNCHANGED <<stream, lastDelivered, batch, channel>> /\ oldest' = oldest + 1
    BY <1>3 DEF Trim, workerVars, outputVars
  <2>2. Answered' = Answered /\ InBatch' = InBatch /\ Ids' = Ids
    BY <2>1 DEF Answered, InBatch, Ids
  <2>3. \A id \in Ids : id < oldest => id < oldest' BY <2>1 DEF Ids
  <2>4. GivenUp \subseteq GivenUp' /\ GivenUp' \subseteq Ids \ Answered
    BY <2>1, <2>2, <2>3 DEF GivenUp
  <2> QED BY <2>1, <2>2, <2>4, ServiceStep
<1>4. ASSUME NEW w \in Workers, Launch(w) \/ EnsureGroup(w) \/ IdleExit(w)
      PROVE  [Service!Next]_(Service!vars)
  <2>1. UNCHANGED <<stream, oldest, batch, channel>>
    BY <1>4 DEF Launch, EnsureGroup, IdleExit, brokerVars, workerVars, outputVars
  <2>2. lastDelivered' = lastDelivered
    BY <1>4 DEF Launch, EnsureGroup, IdleExit, brokerVars, IndInv, ChannelProgress
  <2>3. GivenUp' = GivenUp /\ Answered' = Answered
    BY <2>1, <2>2 DEF GivenUp, Answered, InBatch, Ids
  <2> QED BY <2>1, <2>3 DEF Service!vars
<1>5. ASSUME NEW w \in Workers, ReadNew(w)
      PROVE  [Service!Next]_(Service!vars)
  <2>1. /\ FirstNew \in Nat /\ LastRead \in Nat /\ lastDelivered < FirstNew
        /\ FirstNew <= LastRead /\ LastRead <= Len(stream)
        /\ \A id \in Nat : lastDelivered < id /\ id < FirstNew => id < oldest
        /\ oldest <= FirstNew
    <3>1. FirstNew <= Len(stream) BY <1>5 DEF ReadNew
    <3>2. oldest <= FirstNew BY DEF FirstNew
    <3> QED BY <3>1, <3>2, ReadFacts DEF IndInv
  <2>2. UNCHANGED <<stream, oldest, channel>> /\ lastDelivered' = LastRead
    BY <1>5 DEF ReadNew, outputVars
  <2>3. Ids' = Ids /\ Answered' = Answered BY <2>2 DEF Ids, Answered
  <2>4. InBatch' = InBatch \cup (FirstNew .. LastRead)
    <3>1. batch[w] = {} BY <1>5 DEF ReadNew, IndInv, BatchProgress
    <3>2. \A v \in Workers : batch'[v] = IF v = w THEN FirstNew .. LastRead ELSE batch[v]
      BY <1>5 DEF ReadNew, IndInv, TypeOK
    <3> QED BY <3>1, <3>2 DEF InBatch
  <2>5. ASSUME NEW id \in Ids
        PROVE  /\ id <= LastRead /\ id \notin InBatch'
                    <=> \/ id <= lastDelivered /\ id \notin InBatch
                        \/ lastDelivered < id /\ id < FirstNew
               /\ LastRead < id /\ id < oldest => FALSE
    <3>1. id \in Nat BY DEF Ids
    <3>2. id \in InBatch => id <= lastDelivered OBVIOUS
    <3>3. id \in InBatch' <=> id \in InBatch \/ (FirstNew <= id /\ id <= LastRead)
      BY <2>1, <2>4, <3>1
    <3> QED BY <2>1, <3>1, <3>2, <3>3
  <2>6. GivenUp' = GivenUp
    <3> SUFFICES ASSUME NEW id \in Ids
                 PROVE  id \in GivenUp' <=> id \in GivenUp
      BY <2>3 DEF GivenUp
    <3>1. id \in Nat BY DEF Ids
    <3>2. lastDelivered < id /\ id < FirstNew <=> lastDelivered < id /\ id < oldest
      BY <2>1, <3>1
    <3> QED BY <2>2, <2>3, <2>5, <3>1, <3>2 DEF GivenUp
  <2> QED BY <2>2, <2>3, <2>6 DEF Service!vars
<1>6. ASSUME NEW w \in Workers, Die(w) \/ \E id \in batch[w] : Skip(w, id)
      PROVE  [Service!Next]_(Service!vars)
  <2>1. UNCHANGED <<stream, oldest, lastDelivered, channel>>
    BY <1>6 DEF Die, Skip, brokerVars, outputVars
  <2>2. Answered' = Answered /\ Ids' = Ids BY <2>1 DEF Answered, Ids
  <2>3. InBatch' \subseteq InBatch
    <3>1. \/ batch' = [batch EXCEPT ![w] = {}]
          \/ \E id \in batch[w] : batch' = [batch EXCEPT ![w] = @ \ {id}]
      BY <1>6 DEF Die, Skip, Finish
    <3>2. \A v \in Workers : batch'[v] \subseteq batch[v] BY <3>1 DEF IndInv, TypeOK
    <3> QED BY <3>2 DEF InBatch
  <2>4. GivenUp \subseteq GivenUp' /\ GivenUp' \subseteq Ids \ Answered
    BY <2>1, <2>2, <2>3 DEF GivenUp
  <2> QED BY <2>1, <2>2, <2>4, ServiceStep
<1>7. ASSUME NEW w \in Workers, NEW id \in batch[w], Infer(w, id) \/ Ack(w, id)
      PROVE  [Service!Next]_(Service!vars)
  <2>1. UNCHANGED <<stream, oldest, lastDelivered, batch, channel>>
    BY <1>7 DEF Infer, Ack, brokerVars, outputVars
  <2> QED BY <2>1 DEF Service!vars, GivenUp, Answered, InBatch, Ids
<1>8. ASSUME NEW w \in Workers, NEW id \in batch[w], Current(w, id), Publish(w, id)
      PROVE  [Service!Next]_(Service!vars)
  <2>1. UNCHANGED <<stream, oldest, lastDelivered, batch>>
    BY <1>8 DEF Publish, brokerVars
  <2>2. Answered' = Answered \cup {id} BY <1>8, PublishAnswers DEF IndInv
  <2>3. id \in InBatch /\ id \notin Answered
    BY <1>8 DEF InBatch, Publish, IndInv, BatchProgress
  <2>4. id \in Ids \ (Answered \cup GivenUp) BY <2>3 DEF GivenUp
  <2>5. GivenUp' = GivenUp BY <2>1, <2>2, <2>3 DEF GivenUp, InBatch, Ids
  <2> QED BY <2>1, <2>2, <2>4, <2>5, ServiceStep
<1>9. ASSUME NEW w \in Workers, NEW id \in batch[w], Current(w, id), AppendLog(w, id)
      PROVE  [Service!Next]_(Service!vars)
  <2>1. UNCHANGED <<stream, oldest, lastDelivered, channel>>
    BY <1>9 DEF AppendLog, brokerVars
  <2>2. Answered' = Answered /\ Ids' = Ids BY <2>1 DEF Answered, Ids
  <2>3. id \in Answered BY <1>9 DEF AppendLog, IndInv, BatchProgress
  <2>4. InBatch' \subseteq InBatch /\ InBatch \subseteq InBatch' \cup {id}
    BY <1>9 DEF AppendLog, Finish, InBatch, IndInv, TypeOK
  <2>5. GivenUp' = GivenUp BY <2>1, <2>2, <2>3, <2>4 DEF GivenUp
  <2> QED BY <2>1, <2>2, <2>5 DEF Service!vars
<1> QED BY <1>1, <1>2, <1>3, <1>4, <1>5, <1>6, <1>7, <1>8, <1>9, StepCases

\* No request is answered or given up before the first one.
LEMMA InitService == Init => Service!Init
<1> SUFFICES ASSUME Init PROVE Service!Init
  OBVIOUS
<1>1. Len(stream) = 0 /\ 1 .. Len(channel) = {} BY DEF Init
<1> QED BY <1>1 DEF Service!Init, Answered, GivenUp, Ids

\* The capture processes may rely on ClassifierService: every request is
\* answered at most once, and never after it was given up.
THEOREM ImplementsService == Spec => ServiceSpec
<1>1. Init => Service!Init BY InitService
<1>2. IndInv /\ [Next]_vars => [Service!Next]_(Service!vars) BY NextService
<1> QED BY <1>1, <1>2, Invariant, PTL DEF Spec, ServiceSpec, Service!Spec
=============================================================================
