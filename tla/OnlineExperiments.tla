-------------------------- MODULE OnlineExperiments --------------------------
(***************************************************************************)
(* Experiments that follow one another on one Redis server.  Every run of  *)
(* main.py starts a capture process at each point, and all of them share   *)
(* the request stream, its ":latency" stream, the results channel and the  *)
(* workers, which outlive the runs; the result log may be shared too       *)
(* (--classification-log).  A capture process is taken as FlowLifecycle    *)
(* describes it and the workers as ClassifierService does; what is looked  *)
(* at here is what crosses the border of a run, and what the scripts under *)
(* analyze/ make of the logs afterwards.                                   *)
(***************************************************************************)
EXTENDS Naturals, Sequences, FiniteSets, FiniteSetsExt, SequencesExt

CONSTANTS
  MaxExperiments,  \* bound: runs of main.py, the last of which is not stopped
  Requests,        \* requests of TrafficGenerator, the same addresses in every run
  Points,          \* capture points; a direction of a request is seen at one of them
  Home,            \* where: the host that sends in that direction is attached there
  Label,           \* the model's class for the features of each flow
  MaxEntries,      \* bound: requests in the stream
  MaxFailures      \* bound: latency rows refused and log rows not written

Experiments == 1 .. MaxExperiments
Keys == Requests \X {"src_to_dst", "dst_to_src"}
Flows == Experiments \X Keys

ASSUME BoundsAssumption ==
  MaxExperiments \in Nat /\ MaxEntries \in Nat /\ MaxFailures \in Nat
ASSUME HomeAssumption == Home \in [Keys -> Points]
ASSUME LabelAssumption == Label \in [Flows -> {"elephant", "mice"}]

VARIABLES
  exp,         \* the current or last experiment, 0 before the first
  up,          \* whether it is running
  clock,       \* wall-clock time of the host
  status,      \* status of each flow's entry, final when its run is over
  stopTime,    \* stop_time_us in the run's metadata, 0 while there is none
  pubPc,       \* what the publisher of each capture process does
  hand,        \* the key it publishes
  stream,      \* the flow of every request, by stream id
  rows,        \* source_stream_id of every row of the latency stream
  answered,    \* ids whose result was published
  inbox,       \* results on their way to each subscriber
  subPc,       \* what the subscriber thread of each capture process does
  got,         \* the id whose result it has applied, 0 for none
  updatedAt,   \* cache_updated_wall_ns of that result, 0 before it is taken
  log,         \* rows of the result logs, with the run that wrote them
  failures,    \* latency rows refused and log rows not written so far
  carried,     \* history: ids that were open when an experiment started
  labelledAt   \* history: when a flow's own process first got its own answer

publisherVars == <<pubPc, hand>>
subscriberVars == <<subPc, got, updatedAt>>
redisVars == <<stream, rows, answered, inbox>>
vars == <<exp, up, clock, stopTime, status, failures, publisherVars, subscriberVars, redisVars,
          log, carried, labelledAt>>

Classes == {"elephant", "mice"}
Ids == 1 .. Len(stream)
Open == Ids \ answered
NoKey == <<>>

TypeOK ==
  /\ exp \in 0 .. MaxExperiments
  /\ up \in BOOLEAN
  /\ clock \in Nat
  /\ status \in [Flows -> {"absent", "default", "pending"} \cup Classes]
  /\ stopTime \in [Experiments \X Requests -> 0 .. clock]
  /\ pubPc \in [Points -> {"get", "xadd", "latency"}]
  /\ hand \in [Points -> Keys \cup {NoKey}]
  /\ stream \in Seq(Flows)
  /\ rows \in Seq(Ids)
  /\ answered \subseteq Ids
  /\ inbox \in [Points -> Seq(answered)]
  /\ subPc \in [Points -> {"listen", "stamp", "append", "ended"}]
  /\ got \in [Points -> {0} \cup answered]
  /\ updatedAt \in [Points -> 0 .. clock]
  /\ log \in Seq([id : answered, at : 1 .. clock, writer : 1 .. exp])
  /\ failures \in 0 .. MaxFailures
  /\ carried \subseteq Ids
  /\ labelledAt \in [Flows -> 0 .. clock]

Init ==
  /\ exp = 0
  /\ up = FALSE
  /\ clock = 1
  /\ status = [f \in Flows |-> "absent"]
  /\ stopTime = [r \in Experiments \X Requests |-> 0]
  /\ pubPc = [p \in Points |-> "get"]
  /\ hand = [p \in Points |-> NoKey]
  /\ stream = <<>>
  /\ rows = <<>>
  /\ answered = {}
  /\ inbox = [p \in Points |-> <<>>]
  /\ subPc = [p \in Points |-> "listen"]
  /\ got = [p \in Points |-> 0]
  /\ updatedAt = [p \in Points |-> 0]
  /\ log = <<>>
  /\ failures = 0
  /\ carried = {}
  /\ labelledAt = [f \in Flows |-> 0]

-----------------------------------------------------------------------------
(* main.py: runs one after the other. *)

\* The controller takes seconds to start, so the clock has moved on.
StartExperiment ==
  /\ ~up
  /\ exp < MaxExperiments
  /\ exp' = exp + 1
  /\ up' = TRUE
  /\ clock' = clock + 1
  /\ carried' = carried \cup Open
  /\ UNCHANGED <<stopTime, status, failures, publisherVars, subscriberVars, redisVars, log,
                 labelledAt>>

\* The processes end wherever their threads are.
EndProcesses ==
  /\ pubPc' = [p \in Points |-> "get"]
  /\ hand' = [p \in Points |-> NoKey]
  /\ subPc' = [p \in Points |-> "listen"]
  /\ got' = [p \in Points |-> 0]
  /\ updatedAt' = [p \in Points |-> 0]

\* Mutant of StopExperiment: results wait for the next subscriber.
StopButKeepResults ==
  /\ up
  /\ exp < MaxExperiments
  /\ up' = FALSE
  /\ EndProcesses
  /\ UNCHANGED <<exp, clock, status, stopTime, redisVars, log, failures, carried, labelledAt>>

\* The capture processes end, with what they hold and what Pub/Sub has not
\* delivered yet; the subscriber's thread is a daemon, for which nothing waits.
StopExperiment ==
  /\ up
  /\ exp < MaxExperiments
  /\ up' = FALSE
  /\ EndProcesses
  /\ inbox' = [p \in Points |-> <<>>]
  /\ UNCHANGED <<exp, clock, status, stopTime, stream, rows, answered, log, failures, carried,
                 labelledAt>>

\* TrafficGenerator completes a request and notes the time in the metadata.
\* The clock advances when an entry is labelled and when the label gets its
\* time, so the completion has the time of the last of these before it: the
\* boundary of `<=`, and no other order of them and completions is left out.
FlowStops(r) ==
  /\ up
  /\ stopTime[<<exp, r>>] = 0
  /\ \E k \in Keys : k[1] = r /\ status[<<exp, k>>] # "absent"
  /\ stopTime' = [stopTime EXCEPT ![<<exp, r>>] = clock]
  /\ UNCHANGED <<exp, up, clock, status, failures, publisherVars, subscriberVars, redisVars, log,
                 carried, labelledAt>>

-----------------------------------------------------------------------------
(* The capture processes of the experiment: packets and the publisher. *)

FirstPacket(k) ==
  /\ up
  /\ status[<<exp, k>>] = "absent"
  /\ status' = [status EXCEPT ![<<exp, k>>] = "default"]
  /\ UNCHANGED <<exp, up, clock, stopTime, failures, publisherVars, subscriberVars, redisVars, log,
                 carried, labelledAt>>

\* A flow whose entry is still "default" has its packets: on_event marks it
\* and hands its request to the publisher, which tags it with the run.
Ready(k) ==
  LET p == Home[k]
  IN /\ up
     /\ status[<<exp, k>>] = "default"
     /\ pubPc[p] = "get"
     /\ Len(stream) < MaxEntries
     /\ status' = [status EXCEPT ![<<exp, k>>] = "pending"]
     /\ pubPc' = [pubPc EXCEPT ![p] = "xadd"]
     /\ hand' = [hand EXCEPT ![p] = k]
     /\ UNCHANGED <<exp, up, clock, stopTime, failures, subscriberVars, redisVars, log, carried,
                    labelledAt>>

AddRequest(p) ==
  /\ pubPc[p] = "xadd"
  /\ Len(stream) < MaxEntries
  /\ stream' = Append(stream, <<exp, hand[p]>>)
  /\ pubPc' = [pubPc EXCEPT ![p] = "latency"]
  /\ UNCHANGED <<exp, up, clock, stopTime, status, hand, failures, subscriberVars, rows, answered,
                 inbox, log, carried, labelledAt>>

\* The id that the first XADD of this publish returned.
SourceId(p) == Max({id \in Ids : stream[id] = <<exp, hand[p]>>})

PublishReturns(p) ==
  /\ pubPc' = [pubPc EXCEPT ![p] = "get"]
  /\ hand' = [hand EXCEPT ![p] = NoKey]

\* Mutant of AddLatencyRow: the call is repeated when its reply is lost.
AddLatencyRowTwice(p) ==
  /\ pubPc[p] = "latency"
  /\ rows' \in {Append(rows, SourceId(p)), rows \o <<SourceId(p), SourceId(p)>>}
  /\ PublishReturns(p)
  /\ UNCHANGED <<exp, up, clock, stopTime, status, failures, subscriberVars, stream, answered, inbox,
                 log, carried, labelledAt>>

AddLatencyRow(p) ==
  /\ pubPc[p] = "latency"
  /\ rows' = Append(rows, SourceId(p))
  /\ PublishReturns(p)
  /\ UNCHANGED <<exp, up, clock, stopTime, status, failures, subscriberVars, stream, answered, inbox,
                 log, carried, labelledAt>>

LatencyRowRefused(p) ==
  /\ pubPc[p] = "latency"
  /\ failures < MaxFailures
  /\ failures' = failures + 1
  /\ status' = [status EXCEPT ![<<exp, hand[p]>>] = "default"]
  /\ PublishReturns(p)
  /\ UNCHANGED <<exp, up, clock, stopTime, subscriberVars, redisVars, log, carried, labelledAt>>

-----------------------------------------------------------------------------
(* The capture processes: the subscriber's thread, in on_classifier_result. *)

\* The next result is applied: the entry is looked up by its key alone, and a
\* result without an entry is dropped.
ApplyResult(p) ==
  LET id == Head(inbox[p])
      k == stream[id][2]
      f == <<exp, k>>
  IN /\ up
     /\ subPc[p] = "listen"
     /\ inbox[p] # <<>>
     /\ inbox' = [inbox EXCEPT ![p] = Tail(@)]
     /\ \/ /\ status[f] = "absent"
           /\ UNCHANGED <<clock, status, subPc, got, labelledAt>>
        \/ /\ status[f] # "absent"
           /\ clock' = clock + 1
           /\ status' = [status EXCEPT ![f] = Label[stream[id]]]
           /\ subPc' = [subPc EXCEPT ![p] = "stamp"]
           /\ got' = [got EXCEPT ![p] = id]
           /\ labelledAt' = [labelledAt EXCEPT ![f] =
                               IF @ = 0 /\ stream[id] = f THEN clock' ELSE @]
     /\ UNCHANGED <<exp, up, stopTime, failures, publisherVars, updatedAt, stream, rows, answered,
                    log, carried>>

\* cache_updated_wall_ns is taken after the update.
StampUpdate(p) ==
  /\ subPc[p] = "stamp"
  /\ clock' = clock + 1
  /\ updatedAt' = [updatedAt EXCEPT ![p] = clock']
  /\ subPc' = [subPc EXCEPT ![p] = "append"]
  /\ UNCHANGED <<exp, up, stopTime, status, failures, publisherVars, got, redisVars, log, carried,
                 labelledAt>>

HandlerReturns(p, next) ==
  /\ subPc' = [subPc EXCEPT ![p] = next]
  /\ got' = [got EXCEPT ![p] = 0]
  /\ updatedAt' = [updatedAt EXCEPT ![p] = 0]

\* _append_jsonl
AppendLog(p) ==
  /\ subPc[p] = "append"
  /\ log' = Append(log, [id |-> got[p], at |-> updatedAt[p], writer |-> exp])
  /\ HandlerReturns(p, "listen")
  /\ UNCHANGED <<exp, up, clock, stopTime, status, failures, publisherVars, redisVars, carried,
                 labelledAt>>

\* The log cannot be written: the exception ends listen_forever, and with it
\* the thread.
AppendRaises(p) ==
  /\ subPc[p] = "append"
  /\ failures < MaxFailures
  /\ failures' = failures + 1
  /\ HandlerReturns(p, "ended")
  /\ UNCHANGED <<exp, up, clock, stopTime, status, publisherVars, redisVars, log, carried,
                 labelledAt>>

-----------------------------------------------------------------------------
(* The workers, which serve whatever experiment a request came from. *)

\* Mutant of RowRunId: the row is tagged by the process that writes it.
WritersRunId(row) == row.writer

\* The worker copies the run_id of the request into its result.
RowRunId(row) == stream[row.id][1]

\* A request that is given up looks from here like one whose answer is late.
Service == INSTANCE ClassifierService WITH submitted <- Len(stream), givenUp <- {}

\* Every subscriber hears the result, and all but the one at the home of the
\* key drop it, as no other process ever has an entry for it.
Answer(id) ==
  /\ UNCHANGED <<exp, up, clock, stopTime, status, failures, publisherVars, subscriberVars, stream,
                 rows, log, carried, labelledAt>>
  /\ Service!Answer(id)
  /\ inbox' = IF up THEN [inbox EXCEPT ![Home[stream[id][2]]] = Append(@, id)] ELSE inbox

Next ==
  \/ StartExperiment
  \/ StopExperiment
  \/ \E r \in Requests : FlowStops(r)
  \/ \E k \in Keys : FirstPacket(k) \/ Ready(k)
  \/ \E p \in Points : AddRequest(p) \/ AddLatencyRow(p) \/ LatencyRowRefused(p)
  \/ \E p \in Points : ApplyResult(p) \/ StampUpdate(p) \/ AppendLog(p) \/ AppendRaises(p)
  \/ \E id \in Open : Answer(id)

Spec == Init /\ [][Next]_vars

-----------------------------------------------------------------------------
(* The analysis scripts, run on what is on disk and in Redis. *)

\* main.py: the log is one of the run's directory, unless all runs were given
\* the same --classification-log.
ClassificationLog(e, shared) == {row \in ToSet(log) : shared \/ row.writer = e}

\* online_e2e_latency.filter_rows: the rows with the run id of the run.
FilterRows(e, shared) == {row \in ClassificationLog(e, shared) : RowRunId(row) = e}

\* online_fct_deadline.flow_join_key_from_result: a result of either direction
\* belongs to the request, whose metadata has the addresses of src_to_dst.
JoinKey(row) == stream[row.id][2][1]

\* read_flow_metadata: the requests of the run that were completed.
FlowMetadata(e) == {r \in Requests : stopTime[<<e, r>>] # 0}

\* Mutant of CacheUpdated: the last row of the request.
LastUpdate(rs) == Max({row.at : row \in rs})

\* build_rows keeps the row of a request that was applied first.
CacheUpdated(rs) == Min({row.at : row \in rs})

\* build_rows and build_summary: requests with a result, and those of them
\* whose result was in the cache by the time the request was complete.
MatchedRows(e, r, shared) == {row \in FilterRows(e, shared) : JoinKey(row) = r}
Classified(e, shared) == {r \in FlowMetadata(e) : MatchedRows(e, r, shared) # {}}
CacheBeforeFct(e, shared) ==
  {r \in Classified(e, shared) :
     CacheUpdated(MatchedRows(e, r, shared)) <= stopTime[<<e, r>>]}

\* online_e2e_latency.build_summary: the flows with a row.
UniqueLogicalFlows(e, shared) == {stream[row.id] : row \in FilterRows(e, shared)}

\* redis_stream_latency.main with --count n: both streams are read up to n
\* entries, and a request is merged with the row that names its id.
MergedSamples(n) ==
  {id \in Ids : id <= n /\ id \in ToSet(SubSeq(rows, 1, Min({n, Len(rows)})))}

-----------------------------------------------------------------------------
(* Properties. *)

\* Within a run every capture process lives the FlowLifecycle of its flows;
\* the only steps outside of it apply an answer to a request of an earlier run
\* that was still open when this one started.  Nothing compares run ids, so it
\* is Pub/Sub forgetting its messages that keeps all other results out.
Capture == INSTANCE FlowLifecycle
             WITH sent <- ToSet(stream),
                  confirmed <- {stream[id] : id \in ToSet(rows)}
AppliesCarried == \E p \in Points : /\ inbox[p] # <<>>
                                    /\ Head(inbox[p]) \in carried
                                    /\ inbox'[p] = Tail(inbox[p])
LifecycleUnlessCarried ==
  [][UNCHANGED Capture!vars \/ AppliesCarried \/ Capture!Next]_vars

\* The capture point whose process wrote a row.
RowPoint(row) == Home[stream[row.id][2]]

\* online_fct_deadline says of no request that the cache was updated before its
\* completion unless its own capture process had labelled one of its directions
\* by then, also with rows of several runs in one log, requests published twice,
\* and late answers that were applied to another run's flow.  When it does not
\* say so of a request that was labelled in time, that was the last label of its
\* process by then: no result handled from there to the completion has a row.
DeadlineVerdictIsRight ==
  \A e \in Experiments, shared \in BOOLEAN : \A r \in FlowMetadata(e) :
    LET inTime == {k \in Keys : /\ k[1] = r
                                /\ labelledAt[<<e, k>>] \in 1 .. stopTime[<<e, r>>]}
    IN IF r \in CacheBeforeFct(e, shared)
         THEN inTime # {}
         ELSE \A k \in inTime, row \in ToSet(log) :
                row.writer = e /\ RowPoint(row) = Home[k] =>
                  row.at \notin labelledAt[<<e, k>>] .. stopTime[<<e, r>>]

\* A flow counted by online_e2e_latency closed its loop in its own run; in a
\* shared log it may also be one whose answer came when its run was over.  A flow
\* that closed its loop and is not counted is the last one its process labelled:
\* its handling goes on, or was cut by the end of the process or the exception
\* that ended the subscriber, and no result handled after it has a row.
CountedFlowsClosedTheirLoop ==
  \A e \in Experiments :
    LET closed == {f \in Flows : f[1] = e /\ labelledAt[f] # 0}
    IN /\ UniqueLogicalFlows(e, FALSE) \subseteq closed
       /\ UniqueLogicalFlows(e, TRUE) \ closed \subseteq {stream[id] : id \in carried}
       /\ \A f \in closed \ UniqueLogicalFlows(e, FALSE), row \in ToSet(log) :
            row.writer = e /\ RowPoint(row) = Home[f[2]] => row.at < labelledAt[f]

\* Reading both streams up to one count leaves a request without its row only
\* when a later request, beyond the count, had its row written first: capture
\* processes publish at once, and their two XADDs interleave.
SampleMissesRowOnlyByOverlap ==
  \A n \in Ids : \A id \in 1 .. n :
    id \in ToSet(rows) =>
      \/ id \in MergedSamples(n)
      \/ \E i, j \in 1 .. Len(rows) : i < j /\ rows[i] > n /\ rows[j] = id

-----------------------------------------------------------------------------
(* The inductive invariant of the proofs. *)

\* Only a running experiment publishes and listens; what is in the stream, and
\* what is labelled, comes from experiments that have started.
RunFacts ==
  /\ up => exp # 0
  /\ ~up => \A p \in Points : pubPc[p] = "get" /\ inbox[p] = <<>>
  /\ \A id \in Ids : stream[id][1] <= exp
  /\ \A f \in Flows : labelledAt[f] # 0 => f[1] <= exp

\* What can be answered, or is on its way to the subscriber of its point, belongs
\* to the current experiment or was open when it started.
AnswerFacts ==
  /\ up => \A id \in Open : stream[id][1] = exp \/ id \in carried
  /\ \A p \in Points : \A i \in DOMAIN inbox[p] :
       /\ stream[inbox[p][i]][1] = exp \/ inbox[p][i] \in carried
       /\ Home[stream[inbox[p][i]][2]] = p

\* Flows with a latency row, where FlowLifecycle has them confirmed.
WithRow == {stream[id] : id \in ToSet(rows)}

\* A publisher holds a flow of its point whose publish is not confirmed yet,
\* and writes a row for an id that has none.
PublishFacts ==
  /\ \A p \in Points : pubPc[p] # "get" =>
       /\ hand[p] \in Keys
       /\ Home[hand[p]] = p
       /\ status[<<exp, hand[p]>>] \in {"pending"} \cup Classes
       /\ <<exp, hand[p]>> \notin WithRow
  /\ \A p \in Points : pubPc[p] = "latency" =>
       /\ SourceId(p) \in Ids
       /\ stream[SourceId(p)] = <<exp, hand[p]>>
  /\ \A f \in WithRow : status[f] \in {"pending"} \cup Classes
  /\ \A i, j \in DOMAIN rows : rows[i] = rows[j] => i = j

\* What a subscriber holds was applied, and was labelled if it is of this run;
\* its time is later than that of all rows its process has written.
HandlerFacts ==
  /\ ~up => \A p \in Points : subPc[p] = "listen"
  /\ \A p \in Points : subPc[p] \in {"stamp", "append"} =>
       /\ got[p] \in answered
       /\ Home[stream[got[p]][2]] = p
       /\ \/ stream[got[p]][1] = exp /\ labelledAt[stream[got[p]]] # 0
          \/ stream[got[p]][1] # exp /\ got[p] \in carried
  /\ \A p \in Points : subPc[p] = "append" =>
       /\ updatedAt[p] # 0
       /\ stream[got[p]][1] = exp => labelledAt[stream[got[p]]] <= updatedAt[p]
       /\ \A r \in Requests : stream[got[p]][1] # exp =>
            stopTime[<<stream[got[p]][1], r>>] < updatedAt[p]
       /\ \A i \in DOMAIN log :
            log[i].writer = exp /\ RowPoint(log[i]) = p => log[i].at < updatedAt[p]

\* A row that the run of its request wrote is not older than the label of its
\* flow; any other row is younger than every completion in that run.
LogFacts ==
  \A i \in DOMAIN log :
    LET row == log[i]
        f == stream[row.id]
    IN /\ f[1] <= row.writer
       /\ f[1] = row.writer => labelledAt[f] \in 1 .. row.at
       /\ f[1] # row.writer =>
            /\ row.id \in carried
            /\ \A r \in Requests : stopTime[<<f[1], r>>] < row.at

\* Rows that the process of flow f has written since it labelled f.
Since(f) == {i \in DOMAIN log : /\ log[i].writer = f[1]
                                /\ RowPoint(log[i]) = Home[f[2]]
                                /\ labelledAt[f] <= log[i].at}

\* The process is still handling the result that labelled f, or handles no more.
Unlogged(f) ==
  /\ Since(f) = {}
  /\ f[1] = exp /\ up =>
       \/ subPc[Home[f[2]]] = "ended"
       \/ subPc[Home[f[2]]] \in {"stamp", "append"} /\ stream[got[Home[f[2]]]] = f

\* The first row that a process writes after a label is that of the label.
Logged(f) == \E i \in Since(f) : /\ stream[log[i].id] = f
                                 /\ \A j \in Since(f) : log[i].at <= log[j].at

LabelFacts == \A f \in Flows : labelledAt[f] # 0 => Logged(f) \/ Unlogged(f)

IndInv ==
  /\ TypeOK
  /\ RunFacts
  /\ AnswerFacts
  /\ PublishFacts
  /\ HandlerFacts
  /\ LogFacts
  /\ LabelFacts
=============================================================================
