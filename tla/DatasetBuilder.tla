--------------------------- MODULE DatasetBuilder ---------------------------
(***************************************************************************)
(* run_dataset_builder of pipeline/dataset/dataset_builder.py, for one     *)
(* request source host and one server: the pcap files of a finished run    *)
(* are read one after the other, smallest first, each packet is matched to *)
(* a request by its connection and its time, and the first packets of each *)
(* request or each direction become the features of a labelled sample.     *)
(*                                                                         *)
(* The run itself is the environment: on a persistent connection the       *)
(* requests follow one another, each side sends packets while a request is *)
(* open, and a spurious retransmission may be captured after its end.      *)
(***************************************************************************)
EXTENDS Naturals, Sequences, FiniteSets, SequencesExt

CONSTANTS
  Connections,    \* persistent TCP connections of the source host
  RequestCount,   \* requests sent one after the other on each connection
  Size,           \* Size[r]: size_bytes of request r in the meta file
  PacketCount,    \* --packet-count
  Lengths,        \* tcp_len of the packets, 0 for a pure ACK
  Schedules,      \* when the requests of the run may start and stop
  Filters,        \* values of --direction, "both" when not given
  Captures,       \* which ports may be captured, and the lag of the second one
  MaxTime,        \* bound: last time stamp of a packet
  MaxPackets,     \* bound: packets sent in the run
  MaxRecords,     \* bound: a packet is sent only below so many in the files
  MaxOdd          \* bound: late retransmissions and pure ACKs among them

Requests == Connections \X (1 .. RequestCount)
Directions == {"src_to_dst", "dst_to_src"}
Entries == Requests \X Directions
\* Two captured ports on the way of every packet: those of the source host and
\* of the server, or two others.
Files == {"src", "dst"}
FileOf(d) == IF d = "src_to_dst" THEN "src" ELSE "dst"
\* "host": the ports of the hosts, with main.py's filter on the host's own
\* packets; "all": the same ports without a filter; "uplink": ports between
\* switches, whose files bear no host's name.
Ports == {"host", "all", "uplink"}

ASSUME BuilderAssumption == /\ IsFiniteSet(Connections)
                            /\ RequestCount \in Nat \ {0}
                            /\ Size \in [Requests -> Nat]
                            /\ PacketCount \in Nat \ {0}
                            /\ Lengths \subseteq Nat
                            /\ Filters \subseteq Directions \cup {"both"}
                            /\ Captures \subseteq Ports \X Nat
ASSUME BoundsAssumption ==
  MaxTime \in Nat /\ MaxPackets \in Nat /\ MaxRecords \in Nat /\ MaxOdd \in Nat
\* The requests of a connection take their time, one after the other.
ASSUME ScheduleAssumption ==
  \A s \in Schedules :
    /\ s \in [Requests -> [start : Nat, stop : Nat]]
    /\ \A r, q \in Requests : /\ s[r].start < s[r].stop
                              /\ r[1] = q[1] /\ r[2] < q[2] => s[r].stop <= s[q].start

VARIABLES
  phase,      \* "run", then "read" through the files, then "done"
  meta,       \* start_time_us and stop_time_us of each request
  clock,      \* time of the last packet, in microseconds
  sent,       \* packets sent so far, in each direction
  odd,        \* late retransmissions and pure ACKs among them
  ports,      \* which ports were captured, and how
  lag,        \* how much later the second port stamps a packet it stores too
  pcap,       \* the capture files, each in the order of its time stamps
  mode,       \* --sample-mode
  filter,     \* --direction, "both" when not given
  files,      \* pcap files still to be read, the one being read first
  pos,        \* packets of it that were read
  packets,    \* entry.packets of the flow cache
  bytes,      \* entry.payload_bytes
  seen,       \* request_seen_packets
  complete    \* complete_requests

runVars == <<meta, clock, sent, odd, ports, lag, pcap>>
optionVars == <<mode, filter>>
cacheVars == <<packets, bytes, seen, complete>>
vars == <<phase, runVars, optionVars, files, pos, cacheVars>>

\* A captured packet; which request it was sent for is known to nobody but the
\* reader of this module.
Packet == [request : Requests, direction : Directions, ts : Nat, len : Lengths, seq : Nat]

TypeOK ==
  /\ phase \in {"run", "read", "done"}
  /\ meta \in Schedules
  /\ clock \in 0 .. MaxTime
  /\ sent \in [Directions -> 0 .. MaxPackets]
  /\ odd \in 0 .. MaxOdd
  /\ ports \in Ports
  /\ lag \in Nat
  /\ pcap \in [Files -> Seq(Packet)]
  /\ mode \in {"direction", "request"}
  /\ filter \in Directions \cup {"both"}
  /\ files \in Seq(Files)
  /\ pos \in Nat
  /\ packets \in [Entries -> Seq(Packet)]
  /\ \A e \in Entries : Len(packets[e]) <= PacketCount
  /\ bytes \in [Entries -> Nat]
  /\ DOMAIN seen = Requests
  /\ complete \subseteq Requests

Init ==
  /\ phase = "run"
  /\ meta \in Schedules
  /\ clock = 0
  /\ sent = [d \in Directions |-> 0]
  /\ odd = 0
  /\ \E c \in Captures : ports = c[1] /\ lag = c[2]
  /\ pcap = [file \in Files |-> <<>>]
  /\ mode = "direction"
  /\ filter = "both"
  /\ files = <<>>
  /\ pos = 0
  /\ packets = [e \in Entries |-> <<>>]
  /\ bytes = [e \in Entries |-> 0]
  /\ seen = [r \in Requests |-> {}]
  /\ complete = {}

-----------------------------------------------------------------------------
(* The run. *)

\* main.py's captures store what their own host sent; captures without its
\* filter store every packet once per port on its way.
Captured(file, pkt) ==
  CASE ports # "host" -> Append(pcap[file], IF file = "src" THEN pkt
                                              ELSE [pkt EXCEPT !.ts = @ + lag])
    [] ports = "host" -> IF file = FileOf(pkt.direction)
                           THEN Append(pcap[file], pkt) ELSE pcap[file]

\* A side of request r sends a packet at time ts, or one is sent again after
\* the request ended.
Send(r, direction, len, ts) ==
  LET isLate == ts > meta[r].stop
      isOdd == isLate \/ len = 0
  IN /\ phase = "run"
     /\ sent["src_to_dst"] + sent["dst_to_src"] < MaxPackets
     /\ Len(pcap["src"]) + Len(pcap["dst"]) < MaxRecords
     /\ clock <= ts /\ meta[r].start <= ts
     /\ isOdd => odd < MaxOdd
     /\ isLate => len > 0
     /\ odd' = IF isOdd THEN odd + 1 ELSE odd
     /\ clock' = ts
     /\ sent' = [sent EXCEPT ![direction] = @ + 1]
     /\ pcap' = [file \in Files |->
                   Captured(file, [request |-> r, direction |-> direction, ts |-> ts, len |-> len,
                                   seq |-> sent'[direction]])]
     /\ UNCHANGED <<phase, meta, ports, lag, optionVars, files, pos, cacheVars>>

-----------------------------------------------------------------------------
(* Matching a packet with the meta files. *)

\* The requests build_meta_index keeps under one connection, sorted by start.
MetaIndex(c) == [i \in 1 .. RequestCount |-> <<c, i>>]

\* The binary search finds the last request that started by then; the scan
\* back from it stops at the first one that ended before.
FindTimeCandidates(metas, ts) ==
  LET left == Cardinality({i \in DOMAIN metas : meta[metas[i]].start <= ts})
  IN {metas[i] : i \in {j \in 1 .. left : \A k \in j .. left : meta[metas[k]].stop >= ts}}

\* Mutant of MatchPacket: the candidate that started first.
MatchOldest(pkt) ==
  LET candidates == FindTimeCandidates(MetaIndex(pkt.request[1]), pkt.ts)
  IN {r \in candidates : \A q \in candidates : meta[r].start <= meta[q].start}

\* match_packet looks under the packet's addresses and under the reversed ones,
\* which both lead to its connection and tell the direction; of several
\* requests it takes the one whose start is closest.
MatchPacket(pkt) ==
  LET candidates == FindTimeCandidates(MetaIndex(pkt.request[1]), pkt.ts)
      distance(r) == pkt.ts - meta[r].start
  IN {r \in candidates : \A q \in candidates : distance(r) <= distance(q)}

\* The key of a captured packet: its time stamp and its headers.  Two copies of
\* a packet have one key only if both ports stamped them alike.
PacketFingerprint(pkt) ==
  <<pkt.ts, pkt.request[1], pkt.direction, pkt.seq, pkt.len>>

-----------------------------------------------------------------------------
(* run_dataset_builder *)

\* The files named after the hosts that send what is wanted, or every pcap file
\* when there is none of those names.
FilesFor(direction) ==
  IF direction = "both" \/ ports = "uplink" THEN Files ELSE {FileOf(direction)}

\* They are read in the order of their sizes, which may be any.
FindPcapFiles == SetToSeqs(FilesFor(filter'))

StartBuilder ==
  /\ phase = "run"
  /\ phase' = "read"
  /\ mode' \in {"direction", "request"}
  /\ filter' \in Filters
  /\ files' \in FindPcapFiles
  /\ UNCHANGED <<runVars, pos, cacheVars>>

Current == pcap[Head(files)][pos + 1]
Reading == phase = "read" /\ files # <<>> /\ pos < Len(pcap[Head(files)])
AllComplete == Cardinality(complete) >= Cardinality(Requests)

\* Mutants of AddPacket: bytes of the kept packets only, and no limit.
AddPacketKeptBytes(e, pkt) ==
  LET kept == Len(packets[e]) < PacketCount
  IN /\ bytes' = IF kept THEN [bytes EXCEPT ![e] = @ + pkt.len] ELSE bytes
     /\ packets' = IF kept THEN [packets EXCEPT ![e] = Append(@, pkt)] ELSE packets

AddPacketUnlimited(e, pkt) ==
  /\ bytes' = [bytes EXCEPT ![e] = @ + pkt.len]
  /\ packets' = [packets EXCEPT ![e] = Append(@, pkt)]

\* FlowCache.add_packet: every byte is counted, the first packets are kept.
AddPacket(e, pkt) ==
  /\ bytes' = [bytes EXCEPT ![e] = @ + pkt.len]
  /\ packets' = IF Len(packets[e]) < PacketCount
                  THEN [packets EXCEPT ![e] = Append(@, pkt)] ELSE packets

Wanted(pkt) == filter \in {"both", pkt.direction} /\ pkt.len > 0

\* The continue statements before add_packet.
SkipPacket ==
  /\ Reading
  /\ \/ MatchPacket(Current) = {}
     \/ ~Wanted(Current)
     \/ /\ mode = "request"
        /\ \E r \in MatchPacket(Current) :
             r \in complete \/ PacketFingerprint(Current) \in seen[r]
  /\ pos' = pos + 1
  /\ UNCHANGED <<phase, runVars, optionVars, files, cacheVars>>

TakeForDirection ==
  /\ Reading
  /\ mode = "direction"
  /\ Wanted(Current)
  /\ \E r \in MatchPacket(Current) : AddPacket(<<r, Current.direction>>, Current)
  /\ pos' = pos + 1
  /\ UNCHANGED <<phase, runVars, optionVars, files, seen, complete>>

\* request_packet_counts counts what request_seen_packets holds.
RequestIsComplete(r) == Cardinality(seen[r]) + 1 >= PacketCount

TakeForRequest ==
  /\ Reading
  /\ mode = "request"
  /\ Wanted(Current)
  /\ \E r \in MatchPacket(Current) :
       /\ r \notin complete
       /\ PacketFingerprint(Current) \notin seen[r]
       /\ AddPacket(<<r, Current.direction>>, Current)
       /\ complete' = IF RequestIsComplete(r) THEN complete \cup {r} ELSE complete
       /\ seen' = [seen EXCEPT ![r] = IF RequestIsComplete(r) THEN {}
                                        ELSE @ \cup {PacketFingerprint(Current)}]
  /\ pos' = pos + 1
  /\ UNCHANGED <<phase, runVars, optionVars, files>>

\* Mutant of StopReading: any complete request ends the reading.
StopAtFirst == mode = "request" /\ complete # {}

\* The two breaks of request mode.
StopReading == mode = "request" /\ AllComplete

NextFile ==
  /\ phase = "read"
  /\ ~StopReading
  /\ files # <<>>
  /\ pos = Len(pcap[Head(files)])
  /\ files' = Tail(files)
  /\ pos' = 0
  /\ UNCHANGED <<phase, runVars, optionVars, cacheVars>>

FinishReading ==
  /\ phase = "read"
  /\ StopReading \/ files = <<>>
  /\ phase' = "done"
  /\ UNCHANGED <<runVars, optionVars, files, pos, cacheVars>>

ReadStep == ~StopReading /\ (SkipPacket \/ TakeForDirection \/ TakeForRequest)

Next == \/ \E r \in Requests, d \in Directions, len \in Lengths, ts \in 1 .. MaxTime :
             Send(r, d, len, ts)
        \/ StartBuilder
        \/ ReadStep
        \/ NextFile
        \/ FinishReading

Spec == Init /\ [][Next]_vars

-----------------------------------------------------------------------------
(* Labels, once the reading is over. *)

Eligible == {e \in Entries : packets[e] # <<>>}

\* What becomes a sample: a request with its entries, or a single entry.
Samples == IF mode = "request" THEN {e[1] : e \in Eligible} ELSE Eligible

\* meta_sizes has every request, so parent_sizes is never its fallback.
SampleSize(s) == IF mode = "request" THEN Size[s] ELSE bytes[s]

\* percentile(sorted(label_sizes), q / 100): the size with this index in the
\* sorted list, so at most index many are below it, and more are not above it.
Percentile(q) ==
  LET index == ((Cardinality(Samples) - 1) * q) \div 100
      below(v) == Cardinality({s \in Samples : SampleSize(s) < v})
      upTo(v) == Cardinality({s \in Samples : SampleSize(s) <= v})
  IN IF Samples = {} THEN 0
     ELSE CHOOSE v \in {SampleSize(s) : s \in Samples} : below(v) <= index /\ index < upTo(v)

\* The thresholds of the builder and of merge_mininet_runs over its samples.
LabelThreshold == Percentile(80)
MergeThreshold == Percentile(90)

\* Mutant of MakeLabel: strictly above the threshold.
LabelAbove(s, threshold) == IF SampleSize(s) > threshold THEN 1 ELSE 0

MakeLabel(s, threshold) == IF SampleSize(s) >= threshold THEN 1 ELSE 0

Elephants == {s \in Samples : MakeLabel(s, LabelThreshold) = 1}
RelabelledElephants == {s \in Samples : MakeLabel(s, MergeThreshold) = 1}

-----------------------------------------------------------------------------
(* Properties. *)

Stored(r) == UNION {Range(packets[<<r, d>>]) : d \in Directions}
FilesRead == FilesFor(filter)

\* The wanted packets that were captured while request r was the last one that
\* had started on its connection and had not ended.
Belongs(r, pkt) ==
  /\ pkt.request[1] = r[1]
  /\ meta[r].start <= pkt.ts /\ pkt.ts <= meta[r].stop
  /\ \A q \in Requests : q[1] = r[1] /\ meta[r].start < meta[q].start => pkt.ts < meta[q].start
CapturedFor(r) == {pkt \in UNION {Range(pcap[f]) : f \in FilesRead} : Belongs(r, pkt) /\ Wanted(pkt)}
Fingerprints(S) == {PacketFingerprint(pkt) : pkt \in S}

\* The packets of which S has records: their headers, without the time stamps.
PacketIdentity(pkt) == <<pkt.request[1], pkt.direction, pkt.seq, pkt.len>>
DistinctPackets(S) == {PacketIdentity(pkt) : pkt \in S}
StampedOnce(S) ==
  \A a, b \in S : PacketIdentity(a) = PacketIdentity(b) => a.ts = b.ts

\* A packet gets into the sample of another request only when its time stamp is
\* not before the end of its own: when it was sent again later, when both
\* requests share the microsecond, or when a second port stamped it later.
ForeignOnlyLateOrShared ==
  \A e \in Entries : \A pkt \in Range(packets[e]) :
    pkt.request = e[1] \/ pkt.ts >= meta[pkt.request].stop

\* The first n packets of the host-facing file of direction d that belong to
\* request r, by their positions.
OwnPositions(r, d, n) ==
  {p \in 1 .. n : Belongs(r, pcap[FileOf(d)][p]) /\ Wanted(pcap[FileOf(d)][p])}

\* The list holds the first PacketCount packets at these positions of the file,
\* in their order, and the size counts each byte of their payload once.
FirstOf(list, size, file, own) ==
  LET place(p) == Cardinality({q \in own : q <= p})
  IN /\ Len(list) = IF Cardinality(own) < PacketCount THEN Cardinality(own) ELSE PacketCount
     /\ \A p \in own : place(p) <= PacketCount => list[place(p)] = file[p]
     /\ size = Cardinality(UNION {{p} \X (1 .. file[p].len) : p \in own})

HoldsFirst(r, d, n) ==
  FirstOf(packets[<<r, d>>], bytes[<<r, d>>], pcap[FileOf(d)], OwnPositions(r, d, n))

\* A direction sample of a host-facing capture holds the first packets of its
\* request and direction in the order they were captured, and the payload of
\* all of them, in whatever order the files are read.
DirectionSampleIsExact ==
  phase = "done" /\ mode = "direction" /\ ports = "host" =>
    \A r \in Requests, d \in Directions : HoldsFirst(r, d, Len(pcap[FileOf(d)]))

\* Stopping early and skipping what was seen loses no record: each request ends
\* up with the wanted number of records of different keys, or with all that were
\* captured.  Its sample has as many distinct packets as that, or all captured
\* ones, if no packet of it was captured under two time stamps; copies stamped
\* differently are not recognised, and each takes the place of a packet.
EarlyStopLosesNothing ==
  phase = "done" /\ mode = "request" =>
    \A r \in Requests :
      LET captured == Cardinality(Fingerprints(CapturedFor(r)))
          distinct == Cardinality(DistinctPackets(CapturedFor(r)))
      IN /\ Cardinality(Fingerprints(Stored(r)))
              = IF captured < PacketCount THEN captured ELSE PacketCount
         /\ Cardinality(Fingerprints(Stored(r)))
              = Len(packets[<<r, "src_to_dst">>]) + Len(packets[<<r, "dst_to_src">>])
         /\ StampedOnce(CapturedFor(r)) =>
              Cardinality(DistinctPackets(Stored(r)))
                = IF distinct < PacketCount THEN distinct ELSE PacketCount

\* At least a fifth of the samples, and never none, are labelled elephants; the
\* merge keeps at least a tenth of them, and makes no elephant of a mouse.
ElephantShare ==
  phase = "done" /\ Samples # {} =>
    /\ 5 * Cardinality(Elephants) >= Cardinality(Samples)
    /\ 10 * Cardinality(RelabelledElephants) >= Cardinality(Samples)
    /\ RelabelledElephants \subseteq Elephants

(* Statement of comments that the code contradicts. *)

\* dataset_builder.py:181 and :324: the sample of a request mixes the packets
\* of both directions by time and needs only the first ones, so no captured
\* packet of the request is older than one of its sample without being in it.
RequestSampleIsEarliest ==
  phase = "done" /\ mode = "request" /\ ports = "host" =>
    \A r \in Requests : \A pkt \in CapturedFor(r) \ Stored(r) :
      \A kept \in Stored(r) : kept.ts <= pkt.ts

-----------------------------------------------------------------------------
(* The inductive invariant of the proofs. *)

\* How many packets of a file were read.
ReadPart(file) ==
  IF phase = "run" \/ file \notin FilesRead THEN 0
  ELSE IF file \notin Range(files) THEN Len(pcap[file])
  ELSE IF file = Head(files) THEN pos ELSE 0
ReadOf(r) ==
  {pkt \in UNION {{pcap[file][p] : p \in 1 .. ReadPart(file)} : file \in Files} :
     Belongs(r, pkt) /\ Wanted(pkt)}

\* No packet is stamped before its request started, and main.py's files have one
\* direction each.
CaptureFacts ==
  \A file \in Files : \A p \in 1 .. Len(pcap[file]) :
    /\ pcap[file][p].ts >= meta[pcap[file][p].request].start
    /\ ports = "host" => file = FileOf(pcap[file][p].direction)

\* The files are read one after the other, each once, and to the end unless
\* every request is complete.
ReadingFacts ==
  /\ phase = "run" => files = <<>> /\ filter = "both" /\ mode = "direction"
  /\ Range(files) \subseteq FilesRead
  /\ \A i, j \in 1 .. Len(files) : i # j => files[i] # files[j]
  /\ IF files = <<>> THEN pos = 0 ELSE pos <= Len(pcap[Head(files)])
  /\ phase = "done" => StopReading \/ files = <<>>

\* What was stored was read, belongs to its entry, and was wanted.
StoredFacts ==
  \A e \in Entries :
    LET read == ReadOf(e[1])
    IN \A i \in 1 .. Len(packets[e]) : packets[e][i] \in read

\* Direction mode, at each position of the reading.
DirectionFacts ==
  mode = "direction" =>
    /\ complete = {} /\ seen = [r \in Requests |-> {}]
    /\ ports = "host" =>
         \A r \in Requests, d \in Directions : HoldsFirst(r, d, ReadPart(FileOf(d)))

\* Request mode: a request that is not complete has everything of it that was
\* read, and each stored packet has a fingerprint of its own.
TakenSoFar(r) ==
  /\ Cardinality(Fingerprints(Stored(r)))
       = Len(packets[<<r, "src_to_dst">>]) + Len(packets[<<r, "dst_to_src">>])
  /\ r \in complete => Cardinality(Fingerprints(Stored(r))) = PacketCount
  /\ r \notin complete => /\ seen[r] = Fingerprints(ReadOf(r))
                          /\ seen[r] = Fingerprints(Stored(r))
                          /\ Cardinality(seen[r]) < PacketCount
RequestFacts == mode = "request" => \A r \in Requests : TakenSoFar(r)

IndInv ==
  /\ TypeOK
  /\ CaptureFacts
  /\ ReadingFacts
  /\ StoredFacts
  /\ DirectionFacts
  /\ RequestFacts
=============================================================================
