# Verification of the online flow classifier

The repository runs TrafficGenerator on a Mininet fat tree, captures the packets
at the edge switches, turns the first packets of every flow into a request on a
Redis stream, lets GRU workers label it `elephant` or `mice`, and writes the label
back into the capture process. A second, offline path builds the training samples
from the pcap files of finished runs, or from the public UNIV1 trace. This directory holds TLA+ models of those
parts, the TLC configurations that check them on small instances, and TLAPS proofs,
for every value of the constants, of all their safety properties.

    tlc -workers 2 -config FlowCapture.cfg MCFlowCapture    # one run
    tlapm FlowCapture_proofs.tla                            # one proof module

## 1. Inventory

| component | source | state | operations | module |
|---|---|---|---|---|
| Online capture process | `xdp/tg_xdp_capture.py`, `pipeline/realtime/tg_tshark_capture.py`, `pipeline/realtime/online_flow_cache.py`, `pipeline/redis/*` | flow entries (`status`, `packets`), `publish_queue`, Redis connections | `on_event`, `publisher_loop`, `publish`, `apply_classification_result`, shutdown | `FlowCapture`, `FlowLifecycle` |
| Classifier workers | `model/step_GRU/stream_worker.py` | position in the read batch; in Redis: last-delivered id and pending entries of the group; result log | `ensure_group`, `run`, `infer` | `StreamWorker`, `ClassifierService` |
| TrafficGenerator flow tracking | `pipeline/realtime/online_tg_flow_cache.py` | `_states`: open flow and bytes left, per connection and direction | `process_event`, `_find_state_for_event` | `OnlineFlowTracker` |
| Network and controller | `network/topology.py`, `rule_ecmp.py`, `controller.py` | links, groups and rules of 20 switches, `connected` | `install_rules`, `switch_features_handler`, forwarding | `FatTreeRouting` |
| Experiment run and capturers | `main.py`, `network/packet_capture.py`, `network/traffic_generator.py` | child processes, lists of started capturers, capture files | `main`, `start`, `stop` of the capturers | `CaptureRun` |
| Offline dataset builder | `pipeline/dataset/dataset_builder.py`, `matcher.py`, `meta_loader.py`, `flow_cache.py`, `packet_loader.py` | flow entries, seen fingerprints, complete requests | `run_dataset_builder`, `match_packet`, `add_packet`, `percentile` | `DatasetBuilder` |
| Request message | `pipeline/realtime/online_request.py` | none | `build_online_flow_request` | `OnlineExperiments`, what identifies a request |
| Merge and relabel | `pipeline/dataset/merge_mininet_runs.py`, `relabel_dataset.py` | the samples file | `relabel_samples`, `relabel` | `Univ1Builder` (relabel), `DatasetBuilder` (labels of a merge) |
| Earlier request pipeline | `pipeline/dataset/pipeline.py`, `feature_extractor.py` | flow entries | `run_pipeline` | not modelled |
| UNIV1 trace builder | `pipeline/dataset/univ1_dataset_builder.py` | streams of a public trace, four output files | `find_univ1_pcaps`, `build_stream_states`, the writers | `Univ1Builder` |
| GRU model and training | `model/step_GRU/*` but the worker | tensors | forward, loss, metrics | not modelled |
| Analysis scripts | `analyze/*` | none | joins and statistics over logs | `OnlineExperiments`, the three latency scripts |

How they interact. `main.py` starts the controller, the network, one capture process
per edge switch, and the traffic. Each capture process has three threads that share
its entries without a lock: the main thread collects packets and marks a ready flow
`pending`, the publisher thread sends it to Redis and sets it back to `default` when
that fails, and the subscriber thread writes the label. Workers read the stream
through one consumer group and answer on Pub/Sub, which keeps nothing for a
subscriber that is absent. After the run the dataset builder reads the pcap files
and TrafficGenerator's meta files.

What is hard here, and the properties that answer to it:

- *Three threads on one status field.* A flow must not be in the queue and in the
  publisher's hand at once (`OneRequestInHand`), a label must survive whatever the
  other threads do unless a publish failed half way (`LifecycleSpec`), and a pending
  flow must have an answer to wait for (`PendingAwaitsAnswer`).
- *A publish of two Redis calls, either of which may fail, or succeed with its reply
  lost* (`CompletedPublishIsFinal`, the refutation of `NoFlowIsPublishedTwice`).
- *Shutdown with a two-second join* (`StoppedPublisherLeftNothing`, `ShutdownCompletes`).
- *Workers that die between read, publish, acknowledge and log*
  (`AcknowledgedWasAnswered`, `LogIsBehindAck`, `StrandedStaysStranded`), *and trimming
  that removes what nobody has read* (`EveryRequestSettles`); that no request is answered
  twice is part of `ServiceSpec`.
- *Runs that follow one another on one Redis*, whose requests, workers and logs outlive
  them: what of an earlier run reaches the next one (`LifecycleUnlessCarried`).
- *A label, its time and its log row that are three steps of a daemon thread*, between which
  a flow may complete and the process may end: what the analysis scripts make of the logs
  then (`DeadlineVerdictIsRight`, `CountedFlowsClosedTheirLoop`), and of two streams that
  several processes append to (`SampleMissesRowOnlyByOverlap`).
- *Cutting a TCP byte stream into flows by counting bytes*, with lost, late and
  repeated segments (`MixedOnlyAfterLostHead`, `UndisturbedFlowIsExact`).
- *Rules that arrive one message at a time* under traffic (`UpThenDown`,
  `SetUpSwitchDropsNothing`), and a count of connections taken for a count of
  switches (`AnnouncedWhenAllSent`).
- *An experiment broken off*, by Ctrl-C anywhere and again in the finally block, by calls that
  raise and processes that die: what a `stop()` that returned has stopped, what a finally block
  that ran to its end has cleaned up, what the copies hold (`NothingOutlivesRun`,
  `CopiesAreComplete`).
- *Files read one after another*, an early stop, and matching by time
  (`ForeignOnlyLateOrShared`, `DirectionSampleIsExact`, `EarlyStopLosesNothing`).
- *A trace cut into files, with connections cut along*, sizes full of ties, and labels
  given anew over labels (`SamplesAreExact`, `ClientIsSourceUnlessCut`, `CdfFollowsSizes`,
  `SummaryDescribesFiles`, `LabelsFollowChosenSize`).

`PROJECT.json` lists each of these hazards at its line, those without a property too.

## 2. Modules

**FlowCapture.** One capture process. Variables are the fields of the code: `status`
and `packets` of each `OnlineFlowEntry`, `queue` (`publish_queue`), `stream` and
`latency` (the two Redis streams), `unanswered`, `results`, `lost` (the answers), and
one program counter per thread. A thread's code is cut where another thread can come
between: `on_event` into `PacketArrives` (create the entry, first read of the status),
`AppendPacket`, `CheckReady`, `MarkPending` and `HandOver`; `publish` into `AddRequest`
and `AddLatencyRow` with the failures `RequestRefused`, `ReplyLost` and
`LatencyRowRefused`; the except branch is `ResetStatus`. `publishMode` never changes: the
queue, `--publish-mode inline`, where the callback itself walks through the publisher's
steps, or no Redis at all. `CloseProducer` does not disable the publisher: redis-py connects
again on the next command, and `RequestRefused` covers the case where it cannot.
`Interrupt` may come in the middle of a packet in queue mode (the tshark loop). The
tracker that decides which flow a packet belongs to is `OnlineFlowTracker`'s business;
here a packet of a flow arrives.

**FlowLifecycle** is what all that promises for one flow: collected, locked, sent,
confirmed, labelled by an answer to a request of its own, and unlocked or locked anew only
while no publish of it is confirmed. `FlowCapture` implements it, half failures included,
with `sent` the flows that have a request in the stream and `confirmed` those with a
latency row.

**StreamWorker.** The workers and the part of Redis they use. `ReadNew` is XREADGROUP
with `>`; `Skip`, `Infer`, `Publish`, `Ack`, `AppendLog` are the loop body of `run`, one
external effect per step; `InferRaises` and `Crash` end the process, since `run` has no
handler. `Trim` is MAXLEN. `Launch` starts a worker again under its old name.
**ClassifierService** is what a capture process may count on: each request answered at
most once or given up, never both.

**OnlineExperiments.** Runs of `main.py` that follow one another on one Redis server. It
composes the capture processes, one per point and each taken as `FlowLifecycle` has it,
with the workers taken as `ClassifierService`, so that a request can be open when its run
ends and answered into the next run. `on_classifier_result` is cut into `ApplyResult`, which
looks a flow up by its key alone, as the code does, and labels it, `StampUpdate`, which takes
`cache_updated_wall_ns`, and `AppendLog`; `AppendRaises` ends the subscriber's thread, as
`listen_forever` has no handler. Between these steps TrafficGenerator may complete the
request (`FlowStops`), and the run may end (`StopExperiment`), for which a daemon thread is
not waited. `failures` bounds the latency rows that Redis refuses and the log rows that are
not written. The operators after `Next` are the joins of `online_fct_deadline.py`,
`online_e2e_latency.py` and `redis_stream_latency.py`, with one log per run and with a
log shared by `--classification-log`. Runs have distinct run ids:
with the same `--run-id` twice the scripts cannot tell the runs apart, which
`docs/PROJECT_FILE_GUIDE.md` says.

**OnlineFlowTracker.** `ProcessEvent` is `process_event` with `_find_state_for_event`
and `add_packet`; TCP and TrafficGenerator are the environment (`SendSegment`,
`DropSegment`, `Retransmit`, `Duplicate`, `LoseEvent`). `disturbed` and `headMissed` are
history variables: they record which flows the environment has disturbed. `IndInv` is the
invariant of the proofs.

**FatTreeRouting.** `Links` names each call of `addLink` by its pod, its loop nest and the two
loop variables, `Ends` says what it connects and `NotAfter` in which order the calls come,
from which Mininet's port numbers follow (`Port`, `Peer`); `CoreRules`, `AggRules`, `EdgeRules` are the messages of
`install_rules` in their order. `Late` switches connect, apply one message at a time, and
may reconnect; one packet crosses the tree meanwhile. `DpidAssumption` keeps the three
ranges of DPIDs apart, which `topology.py` starts at 1, 101 and 201: they meet from k = 16 on,
where `install_rules` would take a switch for one of another layer. The programs build k = 4.
`RulesInOrder`, `ConnectedCounts` and `OnRoute` belong to the proofs.

**CaptureRun.** `main()` from the controller's start to `pkill`, with the sleep before the try
block, the try block, the finally block and the capturers of `packet_capture.py`, for every
`--capture-mode`. In `start()`, `popen` and `processes.append` are steps of their own
(`OpenProcess`, `AppendProcess`), since Ctrl-C or an exception between them leaves a process
that no list has; in `stop()`, so are the signal and the end of the wait for each process
(`SignalProcess`, `NextProcess`, with `ProcessEnds` for the process). Children may die at any time.
Ctrl-C may come at any time and again: in the try block it leads to the finally block, as do
exceptions (`LeaveTry`), and before the try block and in the finally block it ends the
program (`EndEarly`), since `except Exception` does not catch it. The finally block is one
action per call: `stop()` again, whose exceptions are printed (`StopAgainRaises`),
`CopyAgain`, `StopNetwork`, `TerminateRyu`, `CleanMininet`, `KillTsharks`; a copy and
`network.stop` that raise end it too, while Ctrl-C during `os.system('mn -c')` ends only the command
(`CleaningCutOff`). `copied` says of
the files of each process whether the last `copytree` found them complete or cut off: a
process that was killed after the wait, or died, may leave a pcap whose last
record is missing, on which the dataset builder later raises. A `copytree` that is broken off
(`CopySome`) may cut files that the first copy had complete. Ctrl-C does not reach the capture
processes: Mininet starts the children of its hosts and switches in sessions of their own. `pkill -KILL
tshark` also ends the online processes of tshark mode, which end with the tshark they read
from (`Tsharks`); XDP processes that no list has outlive the run, which `NothingOutlivesRun`
says. Of a run that Ctrl-C ended before the try block, and of the steps of the finally block
that were skipped, the properties claim nothing: there the controller, the network and the
processes stay. The conjuncts of `IndInv` belong to the proofs.

**DatasetBuilder.** `Send` is a run in which two requests follow one another; then
`StartBuilder`, `SkipPacket`, `TakeForDirection`, `TakeForRequest`, `NextFile` and
`FinishReading` are the two nested loops of `run_dataset_builder`. The order of the files
is left open, as their sizes decide it. The run is captured in one of three ways (`Ports`): at
the ports of the hosts with `main.py`'s filter on what the host itself sends, at the same
ports without it, or at ports between switches, whose files have no host's name, so that
`--direction` cannot choose among them (`FilesFor`). Without the filter two ports store each
packet, and the second may stamp it later (`lag`). `Samples` and `MakeLabel` are what is computed
after, with the threshold of the builder (`LabelThreshold`, p80) and of a merge (`MergeThreshold`, p90).
An index into a sorted list is taken by counting: the value with at most so many below it and
more not above it, which is the same with ties and needs no sorting. `ReadPart` and what
follows it belong to the proofs.

**Univ1Builder.** `FindUniv1Pcaps`, then one step per packet that tshark prints and per end
of a file, then the four writers in the order of `main`, then any `Relabel` of
`relabel_dataset.py` over the samples file. The trace is the environment: `Rows` lets a
connection be open before the trace, go on in the next file, and send packets without
payload anywhere. Times are positions in the trace. The loop of `write_cdf` is one step per
quantile (`AddQuantile`), samples are kept by their `flow_key`, and `Percentile` counts as in
DatasetBuilder. The properties tell what a direction must hold from positions in the trace
alone (`Own`, `Total`, `Place`, `Feature`), apart from the way the builder gathers it.
The last section, from `FeatureRow` on, belongs to the proofs.

## 3. Runs

Every bound is a constant with `Max` in its name, or the size of a constant set.

| run | shows | bounds |
|---|---|---|
| `FlowCapture` | the safety of the three threads; `IndInv`, the invariant of the proofs, holds; refinement of `FlowLifecycle`; `PendingResolves`, `ShutdownCompletes` | two flows that need two of three packets, so a packet is left for a retry; one publish fails clean, one half way; all three publish modes |
| `FlowCaptureRepublish` | *refuted:* no flow is published twice | one flow |
| `StreamWorkerGroup` | no request answered twice or overlooked; refinement of `ClassifierService`; what a dead worker left stays stranded | two workers, batches of two, three entries of any kind, three starts in all, so a worker restarts while the other holds a batch |
| `StreamWorkerRedelivery` | *refuted:* a pending entry is redelivered | one worker, two entries |
| `FlowTrackerDisturbed` | which flows keep exact features and become ready | three flows in a row, up to three segments each; two drops, one repetition, one lost event |
| `FlowTrackerMixing` | *refuted:* packets of different requests never mix | two flows |
| `FatTreeRouting` | up-then-down, right host, no drop at a switch that is set up; `IndInv`, the invariant of the proofs | the real k = 4 tree; an edge and an aggregation switch late, two connections each; four kinds of host pairs |
| `CaptureRun` | what outlives a run, which files are copied whole, what is torn down; `IndInv`, the invariant of the proofs | two capture points, so that one is started and the next is not; all five modes; any number of Ctrl-C |
| `DatasetBuild` | which packets become features; labels; `IndInv`, the invariant of the proofs | two requests, four packets, three where two ports store each, one of them late or empty; all three ways of capturing, both sample modes, with and without `--direction` |
| `OnlineExperiments` | what crosses from one run into the next; what the scripts count | two runs, two stream entries, two failures; one request whose directions are seen at two points, so two processes publish, label and log at once |
| `Univ1Builder` | samples, CDF, summary, labels | four packets of up to two connections, two files, features of two packets, two relabellings |
| `DatasetFileOrder` | *refuted:* a request's sample holds its earliest packets | three packets |

Two flows suffice in FlowCapture because entries are independent except through the
queue and the threads, and two are enough to have one in the queue while another is in
the publisher's hand; the theorems below cover any number. Two workers are enough for
any pair of conflicting steps, and the theorems again cover all. In the tracker a flow
only meets the one before it, as the next is written after the peer has the last; three
flows let the middle one be both. One host pair per packet is enough in FatTreeRouting,
since rules do not depend on traffic. In OnlineExperiments a second run is all that a late
answer can reach differently from a third; two entries are the two directions of the request,
or one direction published twice, and two failures let both subscribers end. Larger instances were
run once beside the configuration and passed: three entries with one failure (20.0 million
states), and three runs with two entries and one failure (21.0 million). Univ1Builder is symmetric in its connections, and
the symmetry is sound as only invariants are checked; four packets are enough for
a direction with more packets than features beside one of another stream. The code's
`int((n - 1) * q)` is taken in exact arithmetic; with floats it differs first at 91
values and q = 0.7, by one place. The `IndInv` of
OnlineExperiments and of Univ1Builder is not in their runs, which check the properties that
follow from it; TLC takes too long for it within these bounds, and was run on it separately
(OnlineExperiments) or on smaller ones (Univ1Builder). CHECK_DEADLOCK is off throughout: each model ends
(process exited, bounds reached, reading done).

### Fairness

`FlowCapture!Fairness` says that a thread inside a packet, a publish or the shutdown goes
on, that workers answer what can be read, and that the subscriber reads its channel. It
promises no packets, no failures and no Ctrl-C. It is weak fairness per thread: these are
OS threads of one process, and each step waits for nothing but a Redis reply, a failure of
which is a step too. Answers may still be lost, and `PendingResolves` says so.
`StreamWorker!Fairness` says that a worker which is up goes on; nothing makes workers
start. `OnlineFlowTracker!Fairness` says only that captured events are handled. The other
modules state no fairness: their properties are about what may never happen.

## 4. Proofs

The modules `*_proofs` hold for every value of the constants that satisfies the ASSUMEs
of the modules they extend; those say no more than the argument parsers and the bounds do.

*FlowCapture.* `OneRequestInHand` is not inductive: the publisher may reset a status just
before the main thread looks at it. `IndInv` adds that a flow in hand is locked
(`InHandIsLocked`), that a completed publish locks its flow for good (`CompletedIsLocked`),
that a label answers a request (`LabelledWasRequested`), and where the stop sentinel and
the inline publish can be (`ControlFacts`). Steps that only look are dealt with by
`QuietStepInv` and `KeepHandsInv`; the others have a lemma each. From `[]IndInv` follow
`TypeCorrect`, `OneInHand`, `CompleteRequests`, `PublishedOnce`, `PendingIsDue`,
`NothingLeftBehind`, the action property `LabelIsKept`, and `Refinement`: every step of the
three threads is a step of `FlowLifecycle` or none, also one that fails half way, since a
flow whose publish is under way has its entry and is not confirmed.

*StreamWorker.* `IndInv` adds how far each worker is with the entry it is at
(`BatchProgress`) and that a worker's results are below its batch (`ChannelProgress`). From
it follow the safety properties, `StrandedForGood`, and `ImplementsService`, the refinement
of `ClassifierService` with answered ids, and `GivenUp` as the ids stranded, skipped or
trimmed. That no two workers hold one entry and that each keeps the order of the stream are
conjuncts of `IndInv` and theorems, not invariants of a run by themselves.

*OnlineFlowTracker.* `MixedOnlyAfterLostHead` says nothing of segments that are still under
way. `OrderInv` says that these belong to the flow the client sends now
(`UnderWayIsCurrent`), and that the first segment of that flow has been missed, is the next
to be captured, or has set the state (`HeadResynchronises`). So a continuation
segment meets the state of its own flow unless the first one was missed, which is `Mixing`.
`Exact` (`UndisturbedFlowIsExact`) needs `IndInv`, which adds for each connection
(`ConnectionInv`) that the segments of a flow follow one another (`Contiguous`), that the
wire holds the end of an undisturbed current flow (`WireHoldsRest`), so the next event is
the next segment, that a pending flow has its features, and that a flow which was left
undisturbed has left no state. A disturbance ends the claim for its own flow only
(`DisturbedExact`); `NextSegment` is the case that counts, where the bytes left after a
segment are those that follow it.

*CaptureRun.* `IndInv` says that the lists hold what was started but for `Unlisted` processes
(`ListsAreRight`), where `start()` is and which capturers it has passed (`StartFacts`), that
while `stop()` goes on every process that is alive is still to be stopped or in
no list at all (`LiveAreListed`), and what each place in the finally block may rely on
(`StoppingFacts`). `NothingOutlives` and `CopiesComplete` follow; a step that only ends
processes is dealt with once (`OnlyEnding`), and steps that touch neither processes nor
lists by `QuietStep`.
`FlattenSeq` is used for the lists of at most two capturers, and shown for these only.

*OnlineExperiments.* `IndInv` says what a publisher holds and for which id it will write a
row (`PublishFacts`), that answers under way are to requests of the current run or of
`carried` ones (`AnswerFacts`), what a subscriber has done of the result in its hand
(`HandlerFacts`), that a log row its own run wrote is not older than the
label, while a row of a later run is younger than any completion in the run of its request
(`LogFacts`), and that a label has its row, or its handling goes on, or was cut off and nothing
that its process handled later has a row (`LabelFacts`). From these `Lifecycle`,
`DeadlineVerdict` and `CountedFlows` follow; `SampleMisses` needs besides that the n rows up to a count of n, being for different ids,
cannot all be for ids up to n and miss one.

*FatTreeRouting.* Where a packet is, is no inductive claim while switches are set up.
`IndInv` adds three: each switch has a first part of its list of rules, and the rest of it is on
the way unless its connection dropped (`RulesInOrder`); without reconnections
`self.connected` counts the switches (`ConnectedCounts`); and the packet is at some place of a
shortest path to its addressee, having come along it (`OnRoute`). A first part is enough
because the group comes before the rule that refers to it, and because a default rule never
beats a downlink that matches: `DownOut` and `UpOut` say which ports a switch may use, and
`EdgeForward`, `AggForward` and `CoreForward` apply them to the lists of `install_rules`. That
the ports lead where the rules mean comes from the order of the `addLink` calls
(`EdgePeers`, `AggPeers`, `CorePeers`). All is for every even k whose DPID ranges are apart
(`DpidAssumption`), any set of late switches and any number of connections.

*DatasetBuilder.* The invariant tells what every entry holds from the part of the
files that was read (`ReadPart`, `ReadOf`). In direction mode with host-facing captures an
entry is the first packets of its own in that part (`DirectionFacts`), by positions, so the order
of the files does not matter. In request mode a request that is not complete has stored
every record with a key of its own that was read of it (`TakenSoFar`), so that it is short only if
the capture is, and the early stop leaves no record out. Records are distinct packets unless two
ports stamp the copies of one packet differently; `StampedOnce` excludes that where the theorem
speaks of packets. `ElephantShare` rests on lemmas about the value with a
given rank, which hold for any finite family of sizes.

*Univ1Builder.* A stream holds what its two ends sent (`BothGathered`), the features by their
places and the bytes as one element per byte of payload (`GrownTotal` adds a packet to
them), and was opened by the first packet of its connection in its file (`Opened`). From the
second follows `ClientIsSource`; from the first, with the outputs told field by field
(`StatsFacts`, `DatasetFacts`), `ExactSamples`. While `write_cdf` is at work `RowsFollow` holds: the first
row that a quantile does not exceed has its value, also where rows were merged. `CdfRows`
follows as percentiles grow with the quantile, the last is the largest size, and the first row is
never 0 0, so it is always put before. The summary counts candidates where the file has
what was written; they are the same directions (`WrittenAreCandidates`), because a direction with
bytes has a feature when the packet count is not 0 (`SizesAssumption`). Labels come from a
threshold whatever the size, which `LabelsAndSizes` needs and every relabelling keeps.

*Only model-checked:* liveness (`PendingResolves`, `ShutdownCompletes`,
`EveryRequestSettles`, `UndisturbedFlowBecomesReady`), since the prover has neither
fairness nor ENABLED. The statements that the code refutes have a counterexample each. That
a percentile taken by counting is the entry of a sorted list is an induction over
the list, which the provers cannot do; the models therefore count from the start.

## 5. Where code and documentation disagree

- `NoFlowIsPublishedTwice`: `docs/REALTIME_PACKET_REDIS_PIPELINE.md:167` has pending
  prevent duplicate publishing. When the second XADD of `publish` fails, the flow goes back to
  `default` and its next packet sends it again. By `CompletedPublishIsFinal` this is the only way.
- `PendingIsRedelivered`: the comment at `stream_worker.py:385` says a pending entry is
  redelivered over and over; the worker reads only `>` and nothing claims entries.
- `RequestsDoNotMix`: a test calls it the purpose of the tracker; a first segment that is
  captured late lets its flow's other segments count for the flow before. By
  `MixedOnlyAfterLostHead` a missed first segment is the only cause.
- `RequestSampleIsEarliest`: in request mode the file that is read first fills the sample.

One divergence has no run of its own, as `EarlyStopLosesNothing` states the rule and names its
exception: the docstring at `dataset_builder.py:79` says that the fingerprint recognises a packet
captured at several ports, but the fingerprint includes `ts_us` (line 81). Copies that the ports
stamp differently count as several packets, so one packet may make a request complete.

Some facts have no statement to hold them against. A ready flow of the direction that is
not published is marked pending and stays so, and a failed publish is retried only when
another packet of its flow comes. `pipeline.py:76` calls `mark_feature_sent`, which no class
defines, so that pipeline stops at its first ready flow. `verify_xdp_tshark_capture.py`
looks for `h*.ingress.pcap`, while the capturers write `<interface>.pcap`, so it finds
nothing to compare. In a CDF whose smallest size occurs several times, the first row has
this size at probability 0, and TrafficGenerator may draw sizes below it. And
`online_e2e_latency.py:8` takes every row of the log for a flow whose loop ended, where
late answers in a shared log are the exception that `CountedFlowsClosedTheirLoop` names.

## 6. Not modelled

Counters, printing and argument parsing anywhere; the header checks of the eBPF program and
the tshark text formats; feature rows, scaling and padding, and the time stamps in a
message; retries that redis-py makes by itself, which could repeat an XADD whose reply was lost;
a clock that is set back or cannot tell two steps apart; the neural network, its training and
metrics; the statistics the latency scripts compute from their joins; `compare_cdfs.py`, `pcap_to_csv.py` and `ecmp_verification.py`,
which print tables of one input; `verify_xdp_tshark_capture.py` and `pipeline.py`, which do
not get past the points above; the merge of several runs; in the UNIV1 builder
`--raw-sequences` and packets whose time stamps are not in the order of the file; the
single-interface `XdpPacketCapturer`, which `main.py` does not use. Redis, Open vSwitch,
Mininet, TCP and TrafficGenerator are modelled by what this code sees of them, and marked
external in the map.

## 7. Plan

Done in this order: the two core modules with their abstract specifications and proofs; the
tracker, the network, the experiment run and the dataset builder; then runs that follow one
another on one Redis (`OnlineExperiments`, which holds what was planned as the composition
with the workers and as the join of the deadline script), files cut off by a killed tshark,
the UNIV1 builder and relabelling; the proofs about the tracker, the experiment
run and the runs on one Redis; then those about the network, the dataset builder and the
UNIV1 builder, for which the models of the three were restated where a definition sorted or
folded, which cannot be proved about.

Left, most important first:

1. The merge of several runs before relabelling.
2. Trimming and several workers below `OnlineExperiments`, which now takes them as
   `ClassifierService`.
