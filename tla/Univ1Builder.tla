---------------------------- MODULE Univ1Builder ----------------------------
(***************************************************************************)
(* univ1_dataset_builder.py: the packets of a public trace, cut into pcap  *)
(* files univ1_pt1, univ1_pt2, ..., are collected per TCP stream of a file *)
(* and direction, and from these come the samples with their labels, the   *)
(* table of streams, the size distribution that TrafficGenerator draws     *)
(* from, and a summary.  relabel_dataset.py then labels the samples anew   *)
(* by another size or threshold, as often as it is run.                    *)
(*                                                                         *)
(* The trace is the environment: a connection may be open before the first *)
(* packet of the trace or go on in the next file, packets without payload  *)
(* come anywhere, and tshark may fail at the end of a file.  Times are the *)
(* positions of the packets in the trace.                                  *)
(***************************************************************************)
EXTENDS Naturals, Sequences, FiniteSets, FiniteSetsExt, SequencesExt

CONSTANTS
  Connections,   \* TCP connections over IPv4
  NoIPv4,        \* stands for any connection whose ip.src and ip.dst are empty
  Lengths,       \* payload bytes of a packet
  PacketCount,   \* --packet-count
  Directory,     \* names in --pcap-dir, as <<trace index, suffix>>
  Quantiles,     \* QUANTILES_FOR_CDF, in thousandths
  Threshold,     \* a --threshold-bytes for relabel_dataset
  MaxPackets,    \* bound: packets in the trace
  MaxRelabels    \* bound: runs of relabel_dataset

\* Quantiles 1.0, 0.80 and 0.90.
One == 1000
P80 == 800
P90 == 900

\* --packet-count 0 would leave every direction without features.
ASSUME SizesAssumption ==
  /\ Lengths \subseteq Nat /\ IsFiniteSet(Lengths) /\ Lengths # {}
  /\ {PacketCount, Threshold, MaxPackets, MaxRelabels} \subseteq Nat
  /\ PacketCount > 0
ASSUME ConnectionsAssumption == NoIPv4 \notin Connections
ASSUME DirectoryAssumption == IsFiniteSet(Directory) /\ Directory \subseteq Nat \X {"", ".pcap"}
ASSUME QuantilesAssumption ==
  /\ Quantiles \in Seq(0 .. One)
  /\ Len(Quantiles) > 1
  /\ Quantiles[1] = 0 /\ Quantiles[Len(Quantiles)] = One
  /\ \A i, j \in 1 .. Len(Quantiles) : i < j => Quantiles[i] < Quantiles[j]

Ends == {"client", "server"}
Peer(end) == IF end = "client" THEN "server" ELSE "client"
Directions == {"src_to_dst", "dst_to_src"}

VARIABLES
  pc,        \* where main() is, "relabel" once it has returned
  files,     \* pcap_files: paths still to be read, the open one first
  streams,   \* the values of the streams dict, in the order they were inserted
  dataset,   \* the samples of the JSONL file, by their flow_key
  stats,     \* the rows of the CSV file
  ranks,     \* quantiles of QUANTILES_FOR_CDF that write_cdf has been through
  cdf,       \* its rows <<value, quantile>>, in the CDF file in the end
  summary,   \* the counts in the JSON file
  relabels,  \* runs of relabel_dataset so far
  trace,     \* history: the packets tshark delivered, each with its file
  field      \* history: the size the labels were last given by

outputs == <<dataset, stats, ranks, cdf, summary>>
vars == <<pc, files, streams, outputs, relabels, trace, field>>

Init ==
  /\ pc = "find"
  /\ files = <<>>
  /\ streams = <<>>
  /\ dataset = <<>> /\ stats = <<>> /\ ranks = 0 /\ cdf = <<>> /\ summary = <<>>
  /\ relabels = 0
  /\ trace = <<>>
  /\ field = "directional"

-----------------------------------------------------------------------------
(* find_univ1_pcaps *)

\* univ1_pcap_index: only traces 1 to 20 count.
HasIndex(path) == path[1] \in 1 .. 20

\* The name with ".pcap" replaces the one without, in whichever order glob()
\* lists them.
IsChosen(path) == HasIndex(path) /\ (path[2] = ".pcap" \/ <<path[1], ".pcap">> \notin Directory)

FindUniv1Pcaps ==
  /\ pc = "find"
  /\ \E order \in SetToSeqs({path \in Directory : IsChosen(path)}) :
       /\ \A i, j \in DOMAIN order : i < j => order[i][1] < order[j][1]
       /\ files' = order
  /\ pc' = IF files' = <<>> THEN "exit" ELSE "read"
  /\ UNCHANGED <<streams, outputs, relabels, trace, field>>

-----------------------------------------------------------------------------
(* build_stream_states *)

NewDirection == [packets |-> 0, bytes |-> 0, first |-> 0, prev |-> 0, features |-> <<>>]

NewStream(pkt) ==
  [file |-> pkt.file, conn |-> pkt.conn, src |-> pkt.from, firstTs |-> pkt.ts,
   lastTs |-> pkt.ts, fwd |-> NewDirection, rev |-> NewDirection]

\* Mutant of AddPacketToDirection: an ACK sets the time of the last packet.
AddPacketAckToo(dir, pkt) ==
  LET first == IF dir.first = 0 THEN pkt.ts ELSE dir.first
      bytes == dir.bytes + pkt.len
      feature == [len |-> pkt.len, iat |-> IF dir.prev = 0 THEN 0 ELSE pkt.ts - dir.prev,
                  elapsed |-> pkt.ts - first, cum |-> bytes]
  IN IF pkt.len = 0 THEN [dir EXCEPT !.prev = pkt.ts]
     ELSE [packets |-> dir.packets + 1, bytes |-> bytes, first |-> first, prev |-> pkt.ts,
           features |-> IF Len(dir.features) >= PacketCount THEN dir.features
                        ELSE Append(dir.features, feature)]

\* Counts go on when the features are full; a packet without payload is no packet.
AddPacketToDirection(dir, pkt) ==
  LET first == IF dir.first = 0 THEN pkt.ts ELSE dir.first
      bytes == dir.bytes + pkt.len
      feature == [len |-> pkt.len, iat |-> IF dir.prev = 0 THEN 0 ELSE pkt.ts - dir.prev,
                  elapsed |-> pkt.ts - first, cum |-> bytes]
  IN IF pkt.len = 0 THEN dir
     ELSE [packets |-> dir.packets + 1, bytes |-> bytes, first |-> first, prev |-> pkt.ts,
           features |-> IF Len(dir.features) >= PacketCount THEN dir.features
                        ELSE Append(dir.features, feature)]

\* Mutant of AddToStream: the first payload decides the direction.
AddToStreamByPayload(stream, pkt) ==
  LET s == [stream EXCEPT !.lastTs = pkt.ts,
                          !.src = IF stream.fwd.packets + stream.rev.packets = 0 THEN pkt.from ELSE @]
  IN IF pkt.from = s.src THEN [s EXCEPT !.fwd = AddPacketToDirection(@, pkt)]
                         ELSE [s EXCEPT !.rev = AddPacketToDirection(@, pkt)]

\* The end that sent the first packet of the stream, of whatever kind, is src.
AddToStream(stream, pkt) ==
  LET s == [stream EXCEPT !.lastTs = pkt.ts]
  IN IF pkt.from = s.src THEN [s EXCEPT !.fwd = AddPacketToDirection(@, pkt)]
                         ELSE [s EXCEPT !.rev = AddPacketToDirection(@, pkt)]

\* Streams are looked up by the file and tshark's number of the connection in it.
AddRow(ss, pkt) ==
  LET found == {i \in DOMAIN ss : ss[i].file = pkt.file /\ ss[i].conn = pkt.conn}
  IN IF pkt.conn = NoIPv4 THEN ss
     ELSE IF found = {} THEN Append(ss, AddToStream(NewStream(pkt), pkt))
     ELSE [i \in DOMAIN ss |-> IF i \in found THEN AddToStream(ss[i], pkt) ELSE ss[i]]

\* A connection that opens in the trace does so with its client's SYN.
Rows ==
  [conn : Connections, from : Ends, len : Lengths, syn : {FALSE}]
    \cup {[conn |-> c, from |-> "client", len |-> 0, syn |-> TRUE] :
            c \in {d \in Connections : \A i \in DOMAIN trace : trace[i].conn # d}}
    \cup {[conn |-> NoIPv4, from |-> "client", len |-> Max(Lengths), syn |-> FALSE]}

ReadRow(row) ==
  LET pkt == [file |-> Head(files)[1], ts |-> Len(trace) + 1, conn |-> row.conn,
              from |-> row.from, len |-> row.len, syn |-> row.syn]
  IN /\ pc = "read"
     /\ Len(trace) < MaxPackets
     /\ trace' = Append(trace, pkt)
     /\ streams' = AddRow(streams, pkt)
     /\ UNCHANGED <<pc, files, outputs, relabels, field>>

\* The end of a file; after the last one, the outputs are written.
NextFile ==
  /\ pc = "read"
  /\ files' = Tail(files)
  /\ pc' = IF files' = <<>> THEN "stats" ELSE "read"
  /\ UNCHANGED <<streams, outputs, relabels, trace, field>>

\* tshark ends with an error: RuntimeError, before anything was written.
TsharkFails ==
  /\ pc = "read"
  /\ pc' = "exit"
  /\ UNCHANGED <<files, streams, outputs, relabels, trace, field>>

-----------------------------------------------------------------------------
(* The outputs, written one after the other. *)

FlowSizeBytes(s) == Max({s.fwd.bytes, s.rev.bytes})

StatsRow(s) ==
  [src |-> s.src, bytesFwd |-> s.fwd.bytes, bytesRev |-> s.rev.bytes,
   size |-> FlowSizeBytes(s), duration |-> s.lastTs - s.firstTs]

WriteStatsCsv ==
  /\ pc = "stats"
  /\ stats' = [i \in DOMAIN streams |-> StatsRow(streams[i])]
  /\ pc' = "dataset"
  /\ UNCHANGED <<files, streams, dataset, ranks, cdf, summary, relabels, trace, field>>

\* How many of the sizes are below v, and how many are not above it.
Below(sizes, v) == Cardinality({i \in DOMAIN sizes : sizes[i] < v})
UpTo(sizes, v) == Cardinality({i \in DOMAIN sizes : sizes[i] <= v})

\* The size with this index, from 0, in the sorted list of the sizes.
Ranked(sizes, index) ==
  CHOOSE v \in Range(sizes) : Below(sizes, v) <= index /\ index < UpTo(sizes, v)

\* Mutant of Percentile: the index counts from all values.
PercentileOfAll(sizes, q) ==
  LET n == Cardinality(DOMAIN sizes)
  IN IF n = 0 THEN 0 ELSE Ranked(sizes, Min({n - 1, (n * q) \div One}))

\* percentile of the sorted sizes, q in thousandths.
Index(n, q) == ((n - 1) * q) \div One
Percentile(sizes, q) ==
  LET n == Cardinality(DOMAIN sizes)
  IN IF n = 0 THEN 0 ELSE Ranked(sizes, Index(n, q))

\* fwd and rev of every stream, as iter_directional_states yields them.
DirectionalStates == (DOMAIN streams) \X Directions
StateOf(d) == IF d[2] = "src_to_dst" THEN streams[d[1]].fwd ELSE streams[d[1]].rev
ParentSize(d) == FlowSizeBytes(streams[d[1]])

\* Mutant of IsCandidate: without a look at the features.
HasStream(d) == ParentSize(d) > 0

\* A direction whose size counts for the threshold.
IsCandidate(d) == StateOf(d).bytes > 0 /\ StateOf(d).features # <<>>

Candidates == {d \in DirectionalStates : IsCandidate(d)}
CandidateSizes == [d \in Candidates |-> StateOf(d).bytes]
ElephantThreshold == Percentile(CandidateSizes, P80)

\* pad_feature_packets: the last observed packet is repeated.
PadFeaturePackets(features) ==
  [i \in 1 .. PacketCount |-> features[Min({i, Len(features)})]]

\* A sample is written for a direction with features.
IsWritten(d) == ParentSize(d) > 0 /\ StateOf(d).features # <<>>
Written == {d \in DirectionalStates : IsWritten(d)}

Sample(d) ==
  [file |-> streams[d[1]].file, conn |-> streams[d[1]].conn,
   x |-> PadFeaturePackets(StateOf(d).features), seqLen |-> Len(StateOf(d).features),
   directional |-> StateOf(d).bytes, parent |-> ParentSize(d), flowSize |-> StateOf(d).bytes,
   label |-> IF StateOf(d).bytes >= ElephantThreshold THEN 1 ELSE 0]

WriteDatasetJsonl ==
  /\ pc = "dataset"
  /\ dataset' = [d \in Written |-> Sample(d)]
  /\ pc' = "cdf"
  /\ UNCHANGED <<files, streams, stats, ranks, cdf, summary, relabels, trace, field>>

\* The flows with payload.
Flows == {i \in DOMAIN streams : FlowSizeBytes(streams[i]) > 0}
Sizes == [i \in Flows |-> FlowSizeBytes(streams[i])]
Largest == IF Flows = {} THEN 0 ELSE Max(Range(Sizes))

\* A value that repeats moves its row up to the higher quantile.
AddQuantile ==
  /\ pc = "cdf"
  /\ ranks < Len(Quantiles)
  /\ ranks' = ranks + 1
  /\ LET q == Quantiles[ranks + 1]
         value == Percentile(Sizes, q)
     IN cdf' = IF cdf # <<>> /\ cdf[Len(cdf)][1] = value
                 THEN [cdf EXCEPT ![Len(cdf)] = <<value, q>>]
                 ELSE Append(cdf, <<value, q>>)
  /\ UNCHANGED <<pc, files, streams, dataset, stats, summary, relabels, trace, field>>

WriteCdf ==
  /\ pc = "cdf"
  /\ ranks = Len(Quantiles)
  /\ cdf' = LET started == IF Head(cdf) = <<0, 0>> THEN cdf ELSE <<<<0, 0>>>> \o cdf
            IN IF started[Len(started)][2] = One THEN started
               ELSE Append(started, <<Largest, One>>)
  /\ pc' = "summary"
  /\ UNCHANGED <<files, streams, dataset, stats, ranks, summary, relabels, trace, field>>

WriteSummary ==
  /\ pc = "summary"
  /\ summary' = [flowCount |-> Cardinality(Flows),
                 packetStreamCount |-> Len(streams),
                 datasetCandidateCount |-> Cardinality(Candidates),
                 elephantThreshold |-> ElephantThreshold,
                 datasetElephantCount |->
                   Cardinality({d \in Candidates : CandidateSizes[d] >= ElephantThreshold}),
                 maxBytes |-> Largest]
  /\ pc' = "relabel"
  /\ UNCHANGED <<files, streams, dataset, stats, ranks, cdf, relabels, trace, field>>

-----------------------------------------------------------------------------
(* relabel_dataset.py, over the file its last run or the builder wrote. *)

SizeFields == {"directional", "flowSize", "parent"}

RelabelThreshold(samples, name, quantile) ==
  Percentile([d \in DOMAIN samples |-> samples[d][name]], quantile)

\* Mutant of RelabelSample: flow_size_bytes is left alone.
RelabelSampleOnly(sample, name, threshold) ==
  [sample EXCEPT !.label = IF sample[name] >= threshold THEN 1 ELSE 0]

RelabelSample(sample, name, threshold) ==
  [sample EXCEPT !.flowSize = sample[name],
                 !.label = IF sample[name] >= threshold THEN 1 ELSE 0]

\* With --label-size-field name, and a threshold given or taken at the 90th percentile.
Relabel(name) ==
  /\ pc = "relabel"
  /\ relabels < MaxRelabels
  /\ relabels' = relabels + 1
  /\ \E threshold \in {Threshold, RelabelThreshold(dataset, name, P90)} :
       dataset' = [d \in DOMAIN dataset |-> RelabelSample(dataset[d], name, threshold)]
  /\ field' = IF name = "flowSize" THEN field ELSE name
  /\ UNCHANGED <<pc, files, streams, stats, ranks, cdf, summary, trace>>

Next ==
  \/ FindUniv1Pcaps
  \/ \E row \in Rows : ReadRow(row)
  \/ NextFile
  \/ TsharkFails
  \/ WriteStatsCsv
  \/ WriteDatasetJsonl
  \/ AddQuantile
  \/ WriteCdf
  \/ WriteSummary
  \/ \E name \in SizeFields : Relabel(name)

Spec == Init /\ [][Next]_vars

-----------------------------------------------------------------------------
(* Properties. *)

\* The packets with payload from one end of a connection in a file, by their
\* positions in the trace.
Own(file, conn, end) ==
  {p \in DOMAIN trace : /\ trace[p].file = file /\ trace[p].conn = conn
                        /\ trace[p].from = end /\ trace[p].len > 0}

\* Each byte of their payload once.
Total(own) == Cardinality(UNION {{p} \X (1 .. trace[p].len) : p \in own})

\* The place of a packet among them, and its feature row.
Place(own, p) == Cardinality({q \in own : q <= p})
Feature(own, p) ==
  LET before == {q \in own : q < p}
  IN [len |-> trace[p].len, iat |-> IF before = {} THEN 0 ELSE p - Max(before),
      elapsed |-> p - Min(own), cum |-> Total(before \cup {p})]

SampledEnd(d) == IF d[2] = "src_to_dst" THEN stats[d[1]].src ELSE Peer(stats[d[1]].src)
Sampled(d) == <<dataset[d].file, dataset[d].conn, SampledEnd(d)>>

\* x holds the first packets with payload, with the times since the last and
\* since the first of them and the bytes so far, the last one repeated up to the
\* packet count; the sizes count all packets, the ones after the last feature
\* and of the peer too, and none of a file or connection but its own.
IsExactSample(d) ==
  LET s == dataset[d]
      own == Own(s.file, s.conn, SampledEnd(d))
  IN /\ own # {}
     /\ s.seqLen = Min({PacketCount, Cardinality(own)})
     /\ \A p \in own : Place(own, p) <= PacketCount => s.x[Place(own, p)] = Feature(own, p)
     /\ \A i \in s.seqLen + 1 .. PacketCount : s.x[i] = s.x[s.seqLen]
     /\ s.directional = Total(own)
     /\ s.parent = Max({Total(own), Total(Own(s.file, s.conn, Peer(SampledEnd(d))))})

\* Each end of a connection with payload in a file has exactly one sample, an
\* exact one, and no other end has one.
SamplesAreExact ==
  pc \in {"cdf", "summary", "relabel"} =>
    /\ \A d \in DOMAIN dataset : IsExactSample(d)
    /\ \A d, e \in DOMAIN dataset : Sampled(d) = Sampled(e) => d = e
    /\ \A p \in DOMAIN trace : trace[p].conn # NoIPv4 /\ trace[p].len > 0 =>
         \E d \in DOMAIN dataset : Sampled(d) = <<trace[p].file, trace[p].conn, trace[p].from>>

\* src_to_dst is the direction of the client, also where the server sends the
\* first payload, except in a file in which a connection goes on that began in
\* an earlier file or before the trace.
ClientIsSourceUnlessCut ==
  \A p \in DOMAIN trace, i \in DOMAIN streams :
    /\ trace[p].syn
    /\ streams[i].file = trace[p].file /\ streams[i].conn = trace[p].conn
    => streams[i].src = "client"

\* The row of the CDF file that a quantile leads to.
RowOf(rows, q) ==
  CHOOSE i \in 2 .. Len(rows) : q <= rows[i][2] /\ \A j \in 2 .. i - 1 : rows[j][2] < q

\* The CDF file starts at 0 0 and ends at the largest flow with 1, values rise
\* and quantiles never fall, and although rows were merged each quantile still
\* leads to its order statistic: with ties, few flows and no flow at all.
CdfFollowsSizes ==
  pc \in {"summary", "relabel"} =>
    LET flows == {i \in DOMAIN stats : stats[i].size > 0}
        sizes == {stats[i].size : i \in flows}
        n == Cardinality(flows)
    IN /\ cdf[1] = <<0, 0>>
       /\ cdf[Len(cdf)] = <<Max({0} \cup sizes), One>>
       /\ \A i \in 2 .. Len(cdf) :
            /\ cdf[i - 1][1] < cdf[i][1] \/ n = 0
            /\ cdf[i - 1][2] <= cdf[i][2]
       /\ n > 0 =>
            \A k \in 1 .. Len(Quantiles) - 1 :
              LET q == Quantiles[k]
                  value == cdf[RowOf(cdf, q)][1]
              IN /\ One * Cardinality({i \in flows : stats[i].size < value}) <= (n - 1) * q
                 /\ (n - 1) * q < One * Cardinality({i \in flows : stats[i].size <= value})

\* The summary, computed from the streams anew, tells of the JSONL, CSV and CDF
\* files that were written: the number of samples, of elephants among them, of
\* flows they come from, and the largest; and a fifth are elephants.
SummaryDescribesFiles ==
  pc = "relabel" /\ relabels = 0 =>
    LET samples == DOMAIN dataset
    IN /\ summary.datasetCandidateCount = Cardinality(samples)
       /\ summary.datasetElephantCount = Cardinality({d \in samples : dataset[d].label = 1})
       /\ 5 * summary.datasetElephantCount >= Cardinality(samples)
       /\ summary.flowCount = Cardinality({d[1] : d \in samples})
       /\ summary.packetStreamCount = Len(stats)
       /\ summary.maxBytes = cdf[Len(cdf)][1]

\* However often the samples were labelled anew, no elephant is smaller than a
\* mouse by the size chosen last, where flow_size_bytes stands for the one that
\* was chosen before it.
LabelsFollowChosenSize ==
  \A d, e \in DOMAIN dataset :
    dataset[d].label = 1 /\ dataset[d][field] <= dataset[e][field] => dataset[e].label = 1

-----------------------------------------------------------------------------
(* The inductive invariant of the proofs. *)

FeatureRow == [len : Nat, iat : Nat, elapsed : Nat, cum : Nat]
DirectionState ==
  [packets : Nat, bytes : Nat, first : Nat, prev : Nat, features : Seq(FeatureRow)]
StreamState ==
  [file : Nat, conn : Connections, src : Ends, firstTs : Nat, lastTs : Nat,
   fwd : DirectionState, rev : DirectionState]
Packet ==
  [file : Nat, ts : Nat, conn : Connections \cup {NoIPv4}, from : Ends, len : Nat, syn : BOOLEAN]

TypeOK ==
  /\ pc \in {"find", "read", "stats", "dataset", "cdf", "summary", "relabel", "exit"}
  /\ files \in Seq(Directory)
  /\ streams \in Seq(StreamState)
  /\ trace \in Seq(Packet)
  /\ ranks \in 0 .. Len(Quantiles)
  /\ relabels \in Nat
  /\ field \in {"directional", "parent"}

\* Times are positions, and only the first packet of a connection is a SYN.
TraceFacts ==
  \A p \in DOMAIN trace :
    /\ trace[p].ts = p
    /\ trace[p].syn => /\ trace[p].from = "client"
                       /\ \A q \in 1 .. p - 1 : trace[q].conn # trace[p].conn

\* What a direction has gathered from the packets at these positions.
Gathered(dir, own) ==
  /\ dir.bytes = Total(own)
  /\ dir.first = IF own = {} THEN 0 ELSE Min(own)
  /\ dir.prev = IF own = {} THEN 0 ELSE Max(own)
  /\ Len(dir.features) = Min({PacketCount, Cardinality(own)})
  /\ \A p \in own : Place(own, p) <= PacketCount => dir.features[Place(own, p)] = Feature(own, p)

OfStream(p, s) == trace[p].file = s.file /\ trace[p].conn = s.conn

\* Both directions of a stream hold what came from its ends.
BothGathered(s) ==
  /\ Gathered(s.fwd, Own(s.file, s.conn, s.src))
  /\ Gathered(s.rev, Own(s.file, s.conn, Peer(s.src)))

\* The first packet of its connection in its file came from src.
Opened(s) ==
  \E p \in DOMAIN trace : /\ OfStream(p, s) /\ trace[p].from = s.src
                         /\ \A q \in 1 .. p - 1 : ~ OfStream(q, s)

\* One stream for each connection of a file.
StreamFacts ==
  /\ \A i \in DOMAIN streams : BothGathered(streams[i]) /\ Opened(streams[i])
  /\ \A i, j \in DOMAIN streams :
       streams[i].file = streams[j].file /\ streams[i].conn = streams[j].conn => i = j
  /\ \A p \in DOMAIN trace :
       trace[p].conn # NoIPv4 => \E i \in DOMAIN streams : OfStream(p, streams[i])

\* What the outputs are, as far as they were written.
StatsFacts ==
  pc \in {"dataset", "cdf", "summary", "relabel"} =>
    stats = [i \in DOMAIN streams |-> StatsRow(streams[i])]

\* relabel_dataset leaves these fields.
Kept == {"file", "conn", "x", "seqLen", "directional", "parent"}

DatasetFacts ==
  IF pc \in {"cdf", "summary", "relabel"}
    THEN /\ DOMAIN dataset = Written
         /\ \A d \in Written :
              /\ DOMAIN dataset[d] = Kept \cup {"flowSize", "label"}
              /\ \A name \in Kept : dataset[d][name] = Sample(d)[name]
              /\ dataset[d].flowSize = dataset[d][field]
              /\ relabels = 0 => dataset[d].label = Sample(d).label
    ELSE dataset = <<>>

Values == [k \in 1 .. Len(Quantiles) |-> Percentile(Sizes, Quantiles[k])]

\* The rows after k quantiles with these values: the first row that a quantile
\* does not exceed has its value.
RowsFollow(rows, value, k) ==
  /\ rows \in Seq(Nat \X Nat)
  /\ k = 0 => rows = <<>>
  /\ k > 0 => rows # <<>> /\ rows[Len(rows)] = <<value[k], Quantiles[k]>>
  /\ \A i, j \in 1 .. Len(rows) : i < j => rows[i][1] < rows[j][1] /\ rows[i][2] < rows[j][2]
  /\ \A m \in 1 .. k : \E i \in 1 .. Len(rows) :
       /\ rows[i][1] = value[m]
       /\ Quantiles[m] <= rows[i][2]
       /\ \A j \in 1 .. i - 1 : rows[j][2] < Quantiles[m]

CdfFacts ==
  /\ pc \in {"find", "read", "stats", "dataset", "exit"} => ranks = 0 /\ cdf = <<>>
  /\ pc = "cdf" => RowsFollow(cdf, Values, ranks)

IndInv ==
  /\ TypeOK
  /\ pc = "read" => files # <<>>
  /\ pc # "relabel" => relabels = 0 /\ field = "directional"
  /\ TraceFacts
  /\ StreamFacts
  /\ StatsFacts
  /\ DatasetFacts
  /\ CdfFacts
  /\ CdfFollowsSizes
  /\ SummaryDescribesFiles
  /\ LabelsFollowChosenSize
=============================================================================
