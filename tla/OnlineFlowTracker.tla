------------------------- MODULE OnlineFlowTracker -------------------------
(***************************************************************************)
(* TrafficGeneratorOnlineFlowCache.process_event: cutting the byte stream  *)
(* of persistent TCP connections into TrafficGenerator flows, by the       *)
(* metadata at the start of each flow and by counting payload bytes.       *)
(*                                                                         *)
(* The environment is TrafficGenerator over TCP as the capture sees it on  *)
(* one direction of a connection: the next flow is written only when the   *)
(* peer has all of the current one, segments arrive in order on the one    *)
(* path of the connection, a segment dropped before the capture comes      *)
(* again later, a segment of the current flow may come twice, and the perf *)
(* buffer may drop an event.                                               *)
(***************************************************************************)
EXTENDS Naturals, Sequences

CONSTANTS
  Connections,        \* directional 4-tuples (src_ip, src_port, dst_ip, dst_port)
  FlowCount,          \* flows sent one after the other on each connection
  Size,               \* Size[c][f]: size_bytes in the metadata of flow f
  MetaSize,           \* TG_METADATA_SIZE
  MaxSegment,         \* payload bytes of the largest segment
  FeaturePacketCount, \* --feature-packet-count
  MaxDrops,           \* bound: segments dropped before the capture
  MaxDuplicates,      \* bound: segments the capture sees again
  MaxEventLosses      \* bound: events the perf buffer drops

Flows == 1 .. FlowCount

ASSUME SizesAssumption == /\ FlowCount \in Nat
                          /\ MetaSize \in Nat \ {0}
                          /\ MaxSegment \in Nat
                          /\ MaxSegment >= MetaSize
                          /\ FeaturePacketCount \in Nat \ {0}
                          /\ Size \in [Connections -> [Flows -> Nat]]
ASSUME BoundsAssumption == /\ MaxDrops \in Nat
                           /\ MaxDuplicates \in Nat
                           /\ MaxEventLosses \in Nat

VARIABLES
  current,    \* flow being sent on each connection, 0 before the first
  sent,       \* segments of each flow the sender has cut, in order
  wire,       \* segments on their way to the capture, in order
  missing,    \* segments dropped before the capture, to be sent again
  state,      \* _states: the open flow of a connection, or Closed
  packets,    \* entry.packets of each flow
  status,     \* entry.status of each flow
  drops, duplicates, eventLosses, \* counts against the bounds
  disturbed,  \* <<c, f>>: some segment of f was dropped, repeated or not seen
  headMissed  \* <<c, f>>: the first segment of f was dropped or not seen

senderVars == <<current, sent, wire, missing>>
trackerVars == <<state, packets, status>>
countVars == <<drops, duplicates, eventLosses>>
ghostVars == <<disturbed, headMissed>>
vars == <<senderVars, trackerVars, countVars, ghostVars>>

\* A payload segment: which flow it belongs to, its offset and its length.
\* The tracker sees the flow only in the metadata of the segment at offset 0.
Segments == [flow : Flows, offset : Nat, len : Nat \ {0}]

\* The XDP program copies the first bytes of a payload that has MAX_PAYLOAD_PREFIX
\* of them (as many as the metadata), and none of a shorter one.
HasPrefix(seg) == seg.len >= MetaSize

\* parse_tg_metadata.  The environment is assumed to send no payload that reads
\* like metadata: a flow id that is not 0 and a direction of 0 or 1.
HasMetadata(seg) == HasPrefix(seg) /\ seg.offset = 0

Closed == [flow |-> 0, remaining |-> 0]
TotalBytes(c, f) == MetaSize + Size[c][f]

\* End of what the sender has cut of flow f.
SentBytes(c, f) == IF sent[c][f] = <<>> THEN 0
                   ELSE sent[c][f][Len(sent[c][f])].offset + sent[c][f][Len(sent[c][f])].len

TypeOK ==
  /\ current \in [Connections -> 0 .. FlowCount]
  /\ sent \in [Connections -> [Flows -> Seq(Segments)]]
  /\ wire \in [Connections -> Seq(Segments)]
  /\ missing \in [Connections -> SUBSET Segments]
  /\ state \in [Connections -> [flow : 0 .. FlowCount, remaining : Nat]]
  /\ packets \in [Connections -> [Flows -> Seq(Segments)]]
  /\ status \in [Connections -> [Flows -> {"absent", "default", "pending"}]]
  /\ drops \in Nat
  /\ duplicates \in Nat
  /\ eventLosses \in Nat
  /\ disturbed \subseteq Connections \X Flows
  /\ headMissed \subseteq Connections \X Flows

Init ==
  /\ current = [c \in Connections |-> 0]
  /\ sent = [c \in Connections |-> [f \in Flows |-> <<>>]]
  /\ wire = [c \in Connections |-> <<>>]
  /\ missing = [c \in Connections |-> {}]
  /\ state = [c \in Connections |-> Closed]
  /\ packets = [c \in Connections |-> [f \in Flows |-> <<>>]]
  /\ status = [c \in Connections |-> [f \in Flows |-> "absent"]]
  /\ drops = 0
  /\ duplicates = 0
  /\ eventLosses = 0
  /\ disturbed = {}
  /\ headMissed = {}

-----------------------------------------------------------------------------
(* TrafficGenerator and TCP. *)

\* The peer has every byte of the current flow.
Delivered(c) == /\ wire[c] = <<>>
                /\ missing[c] = {}
                /\ current[c] # 0 => SentBytes(c, current[c]) = TotalBytes(c, current[c])

StartFlow(c) ==
  /\ current[c] < FlowCount
  /\ Delivered(c)
  /\ current' = [current EXCEPT ![c] = @ + 1]
  /\ UNCHANGED <<sent, wire, missing, trackerVars, countVars, ghostVars>>

\* TCP cuts the next segment; the first one of a flow holds the metadata whole.
SendSegment(c, len) ==
  LET f == current[c]
      offset == SentBytes(c, f)
      seg == [flow |-> f, offset |-> offset, len |-> len]
  IN /\ f # 0
     /\ offset + len <= TotalBytes(c, f)
     /\ offset = 0 => len >= MetaSize
     /\ sent' = [sent EXCEPT ![c][f] = Append(@, seg)]
     /\ wire' = [wire EXCEPT ![c] = Append(@, seg)]
     /\ UNCHANGED <<current, missing, trackerVars, countVars, ghostVars>>

Disturb(c, seg) == disturbed' = disturbed \cup {<<c, seg.flow>>}
NoteHead(c, seg) == headMissed' = IF HasMetadata(seg)
                                    THEN headMissed \cup {<<c, seg.flow>>}
                                    ELSE headMissed

DropSegment(c) ==
  /\ drops < MaxDrops
  /\ wire[c] # <<>>
  /\ drops' = drops + 1
  /\ wire' = [wire EXCEPT ![c] = Tail(@)]
  /\ missing' = [missing EXCEPT ![c] = @ \cup {Head(wire[c])}]
  /\ Disturb(c, Head(wire[c]))
  /\ NoteHead(c, Head(wire[c]))
  /\ UNCHANGED <<current, sent, trackerVars, duplicates, eventLosses>>

Retransmit(c, seg) ==
  /\ seg \in missing[c]
  /\ missing' = [missing EXCEPT ![c] = @ \ {seg}]
  /\ wire' = [wire EXCEPT ![c] = Append(@, seg)]
  /\ UNCHANGED <<current, sent, trackerVars, countVars, ghostVars>>

\* A spurious retransmission, or one of a segment lost behind the capture.
Duplicate(c) ==
  /\ current[c] # 0
  /\ duplicates < MaxDuplicates
  /\ duplicates' = duplicates + 1
  /\ \E i \in DOMAIN sent[c][current[c]] :
       LET seg == sent[c][current[c]][i]
       IN wire' = [wire EXCEPT ![c] = Append(@, seg)] /\ Disturb(c, seg)
  /\ UNCHANGED <<current, sent, missing, trackerVars, drops, eventLosses, headMissed>>

\* The perf buffer drops the event of a segment that the host did receive.
LoseEvent(c) ==
  /\ eventLosses < MaxEventLosses
  /\ wire[c] # <<>>
  /\ eventLosses' = eventLosses + 1
  /\ wire' = [wire EXCEPT ![c] = Tail(@)]
  /\ Disturb(c, Head(wire[c]))
  /\ NoteHead(c, Head(wire[c]))
  /\ UNCHANGED <<current, sent, missing, trackerVars, drops, duplicates>>

-----------------------------------------------------------------------------
(* process_event *)

\* Mutants of FindState: the metadata itself is not counted, and an open state
\* is kept over new metadata.
FindPayloadState(c, seg) ==
  IF HasMetadata(seg) THEN [flow |-> seg.flow, remaining |-> Size[c][seg.flow]]
                      ELSE state[c]

FindOpenState(c, seg) ==
  IF state[c] = Closed /\ HasMetadata(seg)
    THEN [flow |-> seg.flow, remaining |-> TotalBytes(c, seg.flow)]
    ELSE state[c]

\* The state a segment is accounted to: a new one when it carries metadata,
\* else the open one of its connection.
FindState(c, seg) ==
  IF HasMetadata(seg) THEN [flow |-> seg.flow, remaining |-> TotalBytes(c, seg.flow)]
                      ELSE state[c]

\* Mutants of Consume: the state stays open at zero, and is never popped.
ConsumeToZero(st, len) == IF st.remaining >= len
                            THEN [st EXCEPT !.remaining = @ - len]
                            ELSE Closed
ConsumeForever(st, len) == [st EXCEPT !.remaining = @ - len]

\* remaining_tcp_payload_bytes -= tcp_len; the state is popped at zero or less.
Consume(st, len) == IF st.remaining > len
                      THEN [st EXCEPT !.remaining = @ - len]
                      ELSE Closed

\* Mutant of AddPacket: the last feature packet is left out.
AddPacketButLast(c, f, seg) ==
  packets' = [packets EXCEPT ![c][f] =
                IF status[c][f] # "pending" /\ Len(@) + 1 < FeaturePacketCount
                  THEN Append(@, seg) ELSE @]

\* add_packet of RealtimeFlowCache.
AddPacket(c, f, seg) ==
  packets' = [packets EXCEPT ![c][f] =
                IF status[c][f] # "pending" /\ Len(@) < FeaturePacketCount
                  THEN Append(@, seg) ELSE @]

\* process_event, and mark_pending when it leaves the flow ready.
ProcessEvent(c) ==
  LET seg == Head(wire[c])
      st == FindState(c, seg)
  IN /\ wire[c] # <<>>
     /\ wire' = [wire EXCEPT ![c] = Tail(@)]
     /\ \/ /\ st = Closed
           /\ UNCHANGED trackerVars
        \/ /\ st # Closed
           /\ AddPacket(c, st.flow, seg)
           /\ state' = [state EXCEPT ![c] = Consume(st, seg.len)]
           /\ status' = [status EXCEPT ![c][st.flow] =
                           IF Len(packets'[c][st.flow]) >= FeaturePacketCount
                             THEN "pending" ELSE "default"]
     /\ UNCHANGED <<current, sent, missing, countVars, ghostVars>>

Next == \E c \in Connections :
          \/ StartFlow(c)
          \/ \E len \in 1 .. MaxSegment : SendSegment(c, len)
          \/ DropSegment(c)
          \/ \E seg \in missing[c] : Retransmit(c, seg)
          \/ Duplicate(c)
          \/ LoseEvent(c)
          \/ ProcessEvent(c)

Spec == Init /\ [][Next]_vars

\* The capture handles every event it gets; TrafficGenerator and TCP go on.
Fairness == \A c \in Connections : WF_vars(ProcessEvent(c))
FairSpec == Spec /\ Fairness

-----------------------------------------------------------------------------
(* Properties. *)

\* A packet gets into the features of another flow only when the first segment
\* of its own flow was dropped or not seen: repeated segments, lost data and
\* states left open by earlier flows are not enough.
MixedOnlyAfterLostHead ==
  \A c \in Connections : \A f \in Flows : \A i \in DOMAIN packets[c][f] :
    LET g == packets[c][f][i].flow
    IN g # f => <<c, g>> \in headMissed

\* What the inductive proof of MixedOnlyAfterLostHead needs of one connection:
\* all that is under way belongs to the current flow, and its first segment, if
\* it was not missed, is next on the wire or has set the tracker's state.
UnderWayIsCurrent(c) ==
  /\ \A f \in Flows : \A i \in DOMAIN sent[c][f] : sent[c][f][i].flow = f
  /\ \A f \in Flows : f > current[c] => sent[c][f] = <<>>
  /\ \A i \in DOMAIN wire[c] : wire[c][i].flow = current[c]
  /\ \A seg \in missing[c] : seg.flow = current[c]
HeadResynchronises(c) ==
  \/ <<c, current[c]>> \in headMissed
  \/ wire[c] = <<>> /\ missing[c] = {} /\ (current[c] # 0 => sent[c][current[c]] = <<>>)
  \/ wire[c] # <<>> /\ HasMetadata(wire[c][1])
  \/ state[c].flow \in {0, current[c]}

\* Types, and in which order a flow's segments reach the tracker: inductive.
OrderInv ==
  /\ TypeOK
  /\ \A c \in Connections : /\ state[c].flow = 0 => state[c] = Closed
                            /\ UnderWayIsCurrent(c)
                            /\ HeadResynchronises(c)
  /\ MixedOnlyAfterLostHead

\* Segments of flow f that have passed the capture, when f is undisturbed.
Seen(c, f) == IF f = current[c] THEN Len(sent[c][f]) - Len(wire[c]) ELSE Len(sent[c][f])

\* The first n segments of a flow, as many as features are taken of.
Features(c, f, n) ==
  SubSeq(sent[c][f], 1, IF n < FeaturePacketCount THEN n ELSE FeaturePacketCount)

\* What the tracker holds of an open flow of which n > 0 segments have passed.
StateAfter(c, f, n) ==
  LET left == TotalBytes(c, f) - (sent[c][f][n].offset + sent[c][f][n].len)
  IN IF left = 0 THEN Closed ELSE [flow |-> f, remaining |-> left]

\* A flow none of whose segments was dropped, repeated or missed has exactly
\* its first segments as features, whatever happened to the flows before it on
\* the connection, as the metadata resynchronises the tracker; and its state is
\* closed when its last byte has passed, and not before.
FlowIsExact(c, f) ==
  /\ packets[c][f] = Features(c, f, Seen(c, f))
  /\ f = current[c] /\ Seen(c, f) > 0 => state[c] = StateAfter(c, f, Seen(c, f))
UndisturbedFlowIsExact ==
  \A c \in Connections : \A f \in Flows : <<c, f>> \notin disturbed => FlowIsExact(c, f)

\* What the inductive proof of UndisturbedFlowIsExact needs.  The segments of a
\* flow follow one another from its metadata on, up to its last byte;
Contiguous(c, f) ==
  \A i \in DOMAIN sent[c][f] :
    LET seg == sent[c][f][i]
    IN /\ i = 1 => HasMetadata(seg)
       /\ i > 1 => seg.offset = sent[c][f][i - 1].offset + sent[c][f][i - 1].len
       /\ seg.offset + seg.len <= TotalBytes(c, f)

\* the wire holds the last segments of an undisturbed current flow, in order;
IsRest(w, s) == /\ Len(w) <= Len(s)
                /\ \A i \in DOMAIN w : w[i] = s[Len(s) - Len(w) + i]
WireHoldsRest(c) == missing[c] = {} /\ IsRest(wire[c], sent[c][current[c]])

\* and the state is never that of an undisturbed flow which has been left.
ExactFacts(c, f) ==
  /\ Contiguous(c, f)
  /\ status[c][f] = "pending" => Len(packets[c][f]) >= FeaturePacketCount
  /\ <<c, f>> \notin disturbed =>
       /\ f # current[c] => state[c].flow # f
       /\ f = current[c] => WireHoldsRest(c)

\* The inductive invariant of the proofs.
ConnectionInv(c) ==
  /\ state[c].flow <= current[c]
  /\ \A f \in Flows : ExactFacts(c, f) /\ (<<c, f>> \notin disturbed => FlowIsExact(c, f))
IndInv == OrderInv /\ \A c \in Connections : ConnectionInv(c)

\* An undisturbed flow with enough segments becomes ready for publishing.
UndisturbedFlowBecomesReady ==
  \A c \in Connections : \A f \in Flows :
    Len(sent[c][f]) >= FeaturePacketCount
      ~> status[c][f] = "pending" \/ <<c, f>> \in disturbed

(* Statement of a test that the code contradicts. *)

\* tests/test_online_tg_flow_cache.py:127: flows of a persistent connection are
\* separated, packets of different requests do not mix in one model input.
RequestsDoNotMix ==
  \A c \in Connections : \A f \in Flows : \A i \in DOMAIN packets[c][f] :
    packets[c][f][i].flow = f
=============================================================================
