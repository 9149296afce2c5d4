---------------------- MODULE OnlineFlowTracker_proofs ----------------------
(***************************************************************************)
(* Proofs about OnlineFlowTracker, for any connections, flow sizes,        *)
(* segment sizes and numbers of disturbances.                              *)
(***************************************************************************)
EXTENDS OnlineFlowTracker, TLAPS

-----------------------------------------------------------------------------
(* Sequences, as the wire and the feature packets use them. *)

\* What the sender, TCP and add_packet do to a sequence.
LEMMA AppendFacts ==
  ASSUME NEW S, NEW s \in Seq(S), NEW e \in S
  PROVE  /\ Append(s, e) \in Seq(S)
         /\ Append(s, e) # <<>>
         /\ Len(Append(s, e)) = Len(s) + 1
         /\ DOMAIN Append(s, e) = 1 .. Len(s) + 1
         /\ DOMAIN s = 1 .. Len(s)
         /\ Append(s, e)[Len(s) + 1] = e
         /\ \A i \in 1 .. Len(s) : Append(s, e)[i] = s[i]
  OBVIOUS

\* What is true of all elements and of the new one is true of all after Append.
LEMMA AppendFlows ==
  ASSUME NEW s \in Seq(Segments), NEW e \in Segments, NEW f,
         \A i \in DOMAIN s : s[i].flow = f, e.flow = f
  PROVE  \A i \in DOMAIN Append(s, e) : Append(s, e)[i].flow = f
  BY AppendFacts

\* What a segment that leaves the wire does to it.
LEMMA TailFacts ==
  ASSUME NEW S, NEW s \in Seq(S), s # <<>>
  PROVE  /\ Tail(s) \in Seq(S)
         /\ Len(s) > 0
         /\ 1 \in DOMAIN s
         /\ Head(s) = s[1]
         /\ Head(s) \in S
         /\ DOMAIN Tail(s) = 1 .. Len(s) - 1
         /\ DOMAIN s = 1 .. Len(s)
         /\ \A i \in 1 .. Len(s) - 1 : Tail(s)[i] = s[i + 1]
  OBVIOUS

\* A segment that leaves the wire leaves its flow to the rest.
LEMMA TailFlows ==
  ASSUME NEW s \in Seq(Segments), s # <<>>, NEW f, \A i \in DOMAIN s : s[i].flow = f
  PROVE  /\ \A i \in DOMAIN Tail(s) : Tail(s)[i].flow = f
         /\ Head(s).flow = f
  BY TailFacts

\* What is cut of a flow so far: nothing of it, or its last segment's end.
LEMMA SentBytesFacts ==
  ASSUME TypeOK, NEW c \in Connections, NEW f \in Flows
  PROVE  /\ SentBytes(c, f) \in Nat
         /\ sent[c][f] = <<>> <=> SentBytes(c, f) = 0
<1>1. sent[c][f] \in Seq(Segments) BY DEF TypeOK
<1>2. CASE sent[c][f] = <<>> BY <1>2 DEF SentBytes
<1>3. CASE sent[c][f] # <<>>
  <2>1. Len(sent[c][f]) \in 1 .. Len(sent[c][f]) BY <1>1, <1>3
  <2>2. sent[c][f][Len(sent[c][f])] \in Segments BY <1>1, <2>1
  <2> QED BY <1>3, <2>2 DEF SentBytes, Segments
<1> QED BY <1>2, <1>3

\* FlowCount counts the flows, and a flow's bytes are a positive number.
LEMMA Numbers ==
  /\ FlowCount \in Nat /\ MetaSize \in Nat \ {0} /\ MaxSegment \in Nat
  /\ Flows = 1 .. FlowCount
  /\ Closed.flow = 0 /\ Closed.remaining = 0
  /\ Closed \in [flow : 0 .. FlowCount, remaining : Nat]
  /\ \A c \in Connections : \A f \in Flows : TotalBytes(c, f) \in Nat /\ TotalBytes(c, f) >= MetaSize
  BY SizesAssumption DEF Flows, TotalBytes, Closed

-----------------------------------------------------------------------------
(* The environment's steps. *)

\* Nothing that a connection's invariant speaks of is changed on the others.
LEMMA OtherConnections ==
  ASSUME OrderInv, NEW d \in Connections,
         current'[d] = current[d], sent'[d] = sent[d], wire'[d] = wire[d],
         missing'[d] = missing[d], state'[d] = state[d], headMissed \subseteq headMissed'
  PROVE  /\ state'[d].flow = 0 => state'[d] = Closed
         /\ UnderWayIsCurrent(d)'
         /\ HeadResynchronises(d)'
  BY DEF OrderInv, UnderWayIsCurrent, HeadResynchronises, HasMetadata, HasPrefix

\* The features do not change, and nothing is taken out of headMissed.
LEMMA MixedKept ==
  ASSUME MixedOnlyAfterLostHead, packets' = packets, headMissed \subseteq headMissed'
  PROVE  MixedOnlyAfterLostHead'
  BY DEF MixedOnlyAfterLostHead

\* The wire is empty, and the new flow has sent nothing.
LEMMA StartFlowInv ==
  ASSUME OrderInv, NEW c \in Connections, StartFlow(c)
  PROVE  OrderInv'
<1>0. /\ current \in [Connections -> 0 .. FlowCount]
      /\ current[c] < FlowCount
      /\ current' = [current EXCEPT ![c] = current[c] + 1]
      /\ UNCHANGED <<sent, wire, missing, state, packets, status, drops, duplicates, eventLosses,
                     disturbed, headMissed>>
  BY DEF OrderInv, StartFlow, trackerVars, countVars, ghostVars, TypeOK
<1>1. TypeOK'
  <2>1. current' \in [Connections -> 0 .. FlowCount] BY <1>0, Numbers
  <2> QED BY <1>0, <2>1 DEF OrderInv, TypeOK
<1>2. ASSUME NEW d \in Connections
      PROVE  /\ state'[d].flow = 0 => state'[d] = Closed
             /\ UnderWayIsCurrent(d)'
             /\ HeadResynchronises(d)'
  <2>1. CASE d # c
    <3>1. current'[d] = current[d] BY <1>0, <2>1
    <3> QED BY <1>0, <3>1, OtherConnections
  <2>2. CASE d = c
    <3>1. current'[c] = current[c] + 1 /\ current'[c] \in Flows /\ current[c] \in Nat
      BY <1>0, Numbers
    <3>2. wire[c] = <<>> /\ missing[c] = {} BY DEF StartFlow, Delivered
    <3>3. UNCHANGED <<sent, wire, missing, state>> BY <1>0
    <3>4. \A f \in Flows : f > current'[c] => f > current[c] BY <3>1, Numbers
    <3>5. sent[c][current'[c]] = <<>> BY <3>1, Numbers DEF OrderInv, UnderWayIsCurrent
    <3>6. UnderWayIsCurrent(c)'
      BY <3>2, <3>3, <3>4 DEF OrderInv, UnderWayIsCurrent
    <3>7. HeadResynchronises(c)'
      BY <3>2, <3>3, <3>5 DEF HeadResynchronises
    <3> QED BY <2>2, <3>3, <3>6, <3>7 DEF OrderInv
  <2> QED BY <2>1, <2>2
<1>3. MixedOnlyAfterLostHead' BY <1>0, MixedKept DEF OrderInv
<1> QED BY <1>1, <1>2, <1>3 DEF OrderInv

\* The first segment of a flow meets an empty wire.
LEMMA SendSegmentInv ==
  ASSUME OrderInv, NEW c \in Connections, NEW len \in 1 .. MaxSegment, SendSegment(c, len)
  PROVE  OrderInv'
<1> DEFINE f == current[c]
           seg == [flow |-> f, offset |-> SentBytes(c, f), len |-> len]
<1>1. f \in Flows BY Numbers DEF SendSegment, OrderInv, TypeOK
<1>2. seg \in Segments /\ seg.flow = f
  BY <1>1, SentBytesFacts, Numbers DEF OrderInv, Segments
<1>3. /\ sent' = [sent EXCEPT ![c] = [sent[c] EXCEPT ![f] = Append(sent[c][f], seg)]]
      /\ wire' = [wire EXCEPT ![c] = Append(wire[c], seg)]
      /\ UNCHANGED <<current, missing, state, packets, status, drops, duplicates, eventLosses,
                     disturbed, headMissed>>
  BY DEF SendSegment, trackerVars, countVars, ghostVars
<1>4. /\ sent[c][f] \in Seq(Segments) /\ wire[c] \in Seq(Segments)
      /\ sent \in [Connections -> [Flows -> Seq(Segments)]] /\ sent[c] \in [Flows -> Seq(Segments)]
      /\ wire \in [Connections -> Seq(Segments)]
  BY <1>1 DEF OrderInv, TypeOK
<1>5. /\ Append(sent[c][f], seg) \in Seq(Segments)
      /\ Append(wire[c], seg) \in Seq(Segments)
  BY <1>2, <1>4, AppendFacts
<1> HIDE DEF seg
<1>6. TypeOK'
  <2>1. sent' \in [Connections -> [Flows -> Seq(Segments)]] BY <1>1, <1>3, <1>4, <1>5
  <2>2. wire' \in [Connections -> Seq(Segments)] BY <1>3, <1>4, <1>5
  <2> QED BY <1>3, <2>1, <2>2 DEF OrderInv, TypeOK
<1>7. ASSUME NEW d \in Connections
      PROVE  /\ state'[d].flow = 0 => state'[d] = Closed
             /\ UnderWayIsCurrent(d)'
             /\ HeadResynchronises(d)'
  <2>1. CASE d # c
    <3>1. sent'[d] = sent[d] /\ wire'[d] = wire[d] BY <1>3, <1>4, <2>1
    <3> QED BY <1>3, <3>1, OtherConnections
  <2>2. CASE d = c
    <3>1. /\ sent'[c] = [sent[c] EXCEPT ![f] = Append(sent[c][f], seg)]
          /\ wire'[c] = Append(wire[c], seg)
      BY <1>3, <1>4
    <3>2. UnderWayIsCurrent(c)'
      <4>1. \A i \in DOMAIN wire'[c] : wire'[c][i].flow = f
        BY <1>2, <1>4, <3>1, AppendFlows DEF OrderInv, UnderWayIsCurrent
      <4>2. ASSUME NEW g \in Flows PROVE \A i \in DOMAIN sent'[c][g] : sent'[c][g][i].flow = g
        <5>1. CASE g = f
          BY <1>1, <1>2, <1>4, <3>1, <5>1, AppendFlows DEF OrderInv, UnderWayIsCurrent
        <5>2. CASE g # f
          BY <1>1, <1>4, <3>1, <5>2 DEF OrderInv, UnderWayIsCurrent
        <5> QED BY <5>1, <5>2
      <4>3. ASSUME NEW g \in Flows, g > f PROVE sent'[c][g] = <<>>
        <5>1. g # f /\ sent[c][g] = <<>> BY <1>1, <4>3, Numbers DEF OrderInv, UnderWayIsCurrent
        <5> QED BY <1>4, <3>1, <5>1
      <4>4. \A g \in missing'[c] : g.flow = current'[c]
        BY <1>3 DEF OrderInv, UnderWayIsCurrent
      <4> QED BY <1>3, <4>1, <4>2, <4>3, <4>4 DEF UnderWayIsCurrent
    <3>3. CASE wire[c] # <<>>
      <4>1. wire'[c] # <<>> /\ wire'[c][1] = wire[c][1]
        BY <1>2, <1>4, <3>1, <3>3, AppendFacts, TailFacts, SMTT(30)
      <4> QED BY <1>3, <2>2, <3>2, <3>3, <4>1
              DEF OrderInv, HeadResynchronises, HasMetadata, HasPrefix
    <3>4. CASE wire[c] = <<>> /\ sent[c][f] = <<>>
      <4>1. wire'[c] # <<>> /\ wire'[c][1] = seg
        BY <1>2, <1>4, <3>1, <3>4, AppendFacts
      <4>2. seg.offset = 0 /\ seg.len = len /\ len >= MetaSize
        BY <1>1, <3>4, SentBytesFacts DEF seg, SendSegment, OrderInv
      <4>3. HasMetadata(wire'[c][1]) BY <4>1, <4>2 DEF HasMetadata, HasPrefix
      <4>4. HeadResynchronises(c)' BY <4>1, <4>3 DEF HeadResynchronises, HasMetadata, HasPrefix
      <4> QED BY <1>3, <2>2, <3>2, <4>4 DEF OrderInv
    <3>5. CASE wire[c] = <<>> /\ sent[c][f] # <<>>
      <4>1. <<c, f>> \in headMissed \/ state[c].flow \in {0, f}
        <5>1. HeadResynchronises(c) BY DEF OrderInv
        <5>2. f # 0 BY <1>1, Numbers
        <5> QED BY <3>5, <5>1, <5>2 DEF HeadResynchronises
      <4>2. HeadResynchronises(c)' BY <1>3, <4>1 DEF HeadResynchronises
      <4> QED BY <1>3, <2>2, <3>2, <4>2 DEF OrderInv
    <3> QED BY <3>3, <3>4, <3>5
  <2> QED BY <2>1, <2>2
<1>8. MixedOnlyAfterLostHead' BY <1>3, MixedKept DEF OrderInv
<1> QED BY <1>6, <1>7, <1>8 DEF OrderInv

\* A segment leaves the wire of c unseen, dropped or lost by the perf buffer.
LEMMA MissedSegmentInv ==
  ASSUME OrderInv, NEW c \in Connections, wire[c] # <<>>,
         NEW lost \in SUBSET Segments, lost \subseteq missing[c] \cup {Head(wire[c])},
         wire' = [wire EXCEPT ![c] = Tail(wire[c])],
         missing' = [missing EXCEPT ![c] = missing[c] \cup lost],
         Disturb(c, Head(wire[c])), NoteHead(c, Head(wire[c])),
         UNCHANGED <<current, sent, state, packets, status, duplicates>>,
         drops' \in Nat, eventLosses' \in Nat
  PROVE  OrderInv'
<1> DEFINE seg == Head(wire[c])
<1>1. /\ wire \in [Connections -> Seq(Segments)] /\ wire[c] \in Seq(Segments)
      /\ missing \in [Connections -> SUBSET Segments] /\ missing[c] \subseteq Segments
  BY DEF OrderInv, TypeOK
<1>2. /\ seg \in Segments /\ seg = wire[c][1] /\ 1 \in DOMAIN wire[c]
      /\ Tail(wire[c]) \in Seq(Segments)
  BY <1>1, TailFacts
<1>3. seg.flow \in Flows /\ seg.flow = current[c]
  BY <1>2 DEF Segments, OrderInv, UnderWayIsCurrent
<1> HIDE DEF seg
<1>4. /\ headMissed \subseteq headMissed' /\ headMissed' \subseteq Connections \X Flows
      /\ HasMetadata(seg) => <<c, current[c]>> \in headMissed'
      /\ disturbed' \subseteq Connections \X Flows
  BY <1>3 DEF NoteHead, Disturb, OrderInv, TypeOK, seg
<1>5. wire'[c] = Tail(wire[c]) /\ missing'[c] = missing[c] \cup lost
  BY <1>1
<1>6. TypeOK'
  <2>1. wire' \in [Connections -> Seq(Segments)] BY <1>1, <1>2
  <2>2. missing' \in [Connections -> SUBSET Segments] BY <1>1
  <2> QED BY <1>4, <2>1, <2>2 DEF OrderInv, TypeOK
<1>7. ASSUME NEW d \in Connections
      PROVE  /\ state'[d].flow = 0 => state'[d] = Closed
             /\ UnderWayIsCurrent(d)'
             /\ HeadResynchronises(d)'
  <2>1. CASE d # c
    <3>1. wire'[d] = wire[d] /\ missing'[d] = missing[d] BY <1>1, <2>1
    <3> QED BY <1>4, <3>1, OtherConnections
  <2>2. CASE d = c
    <3>1. \A i \in DOMAIN wire'[c] : wire'[c][i].flow = current[c]
      BY <1>1, <1>5, TailFlows DEF OrderInv, UnderWayIsCurrent
    <3>2. \A g \in missing'[c] : g.flow = current[c]
      BY <1>3, <1>5 DEF seg, OrderInv, UnderWayIsCurrent
    <3>3. UnderWayIsCurrent(c)' BY <3>1, <3>2 DEF OrderInv, UnderWayIsCurrent
    <3>4. HeadResynchronises(c)'
      <4>1. HeadResynchronises(c) BY DEF OrderInv
      <4>2. CASE <<c, current[c]>> \in headMissed BY <1>4, <4>2 DEF HeadResynchronises
      <4>3. CASE HasMetadata(wire[c][1]) BY <1>2, <1>4, <4>3 DEF HeadResynchronises
      <4>4. CASE state[c].flow \in {0, current[c]} BY <4>4 DEF HeadResynchronises
      <4> QED BY <4>1, <4>2, <4>3, <4>4 DEF HeadResynchronises
    <3> QED BY <2>2, <3>3, <3>4 DEF OrderInv
  <2> QED BY <2>1, <2>2
<1>8. MixedOnlyAfterLostHead' BY <1>4, MixedKept DEF OrderInv
<1> QED BY <1>6, <1>7, <1>8 DEF OrderInv

\* A segment of the current flow is put on the wire again.
LEMMA RepeatedSegmentInv ==
  ASSUME OrderInv, NEW c \in Connections, NEW seg \in Segments, seg.flow = current[c],
         seg \in missing[c] \/ sent[c][current[c]] # <<>>,
         wire' = [wire EXCEPT ![c] = Append(wire[c], seg)],
         missing' \in [Connections -> SUBSET Segments],
         \A d \in Connections : missing'[d] \subseteq missing[d],
         \A d \in Connections \ {c} : missing'[d] = missing[d],
         disturbed' \subseteq Connections \X Flows,
         UNCHANGED <<current, sent, state, packets, status, drops, eventLosses, headMissed>>,
         duplicates' \in Nat
  PROVE  OrderInv'
<1>1. wire \in [Connections -> Seq(Segments)] /\ wire[c] \in Seq(Segments)
  BY DEF OrderInv, TypeOK
<1>2. Append(wire[c], seg) \in Seq(Segments) /\ wire'[c] = Append(wire[c], seg)
  BY <1>1, AppendFacts
<1>3. TypeOK'
  <2>1. wire' \in [Connections -> Seq(Segments)] BY <1>1, <1>2
  <2> QED BY <2>1 DEF OrderInv, TypeOK
<1>4. ASSUME NEW d \in Connections
      PROVE  /\ state'[d].flow = 0 => state'[d] = Closed
             /\ UnderWayIsCurrent(d)'
             /\ HeadResynchronises(d)'
  <2>1. CASE d # c
    <3>1. wire'[d] = wire[d] /\ missing'[d] = missing[d] BY <1>1, <2>1
    <3> QED BY <3>1, OtherConnections
  <2>2. CASE d = c
    <3>1. \A i \in DOMAIN wire'[c] : wire'[c][i].flow = current[c]
      BY <1>1, <1>2, AppendFlows DEF OrderInv, UnderWayIsCurrent
    <3>2. UnderWayIsCurrent(c)' BY <3>1 DEF OrderInv, UnderWayIsCurrent
    <3>3. HeadResynchronises(c)'
      <4>1. HeadResynchronises(c) BY DEF OrderInv
      <4>2. CASE wire[c] # <<>>
        <5>1. wire'[c] # <<>> /\ wire'[c][1] = wire[c][1]
          BY <1>1, <1>2, <4>2, AppendFacts, TailFacts
        <5> QED BY <4>1, <4>2, <5>1 DEF HeadResynchronises, HasMetadata, HasPrefix
      <4>3. CASE wire[c] = <<>>
        <5>1. current[c] # 0
          <6>1. seg.flow \in Flows BY DEF Segments
          <6> QED BY <6>1, Numbers
        <5>2. <<c, current[c]>> \in headMissed \/ state[c].flow \in {0, current[c]}
          BY <4>1, <4>3, <5>1 DEF HeadResynchronises
        <5> QED BY <5>2 DEF HeadResynchronises
      <4> QED BY <4>2, <4>3
    <3> QED BY <2>2, <3>2, <3>3 DEF OrderInv
  <2> QED BY <2>1, <2>2
<1>5. MixedOnlyAfterLostHead' BY MixedKept DEF OrderInv
<1> QED BY <1>3, <1>4, <1>5 DEF OrderInv

\* DropSegment, LoseEvent, Retransmit and Duplicate are such steps.
LEMMA DisturbanceInv ==
  ASSUME OrderInv, NEW c \in Connections,
         \/ DropSegment(c) \/ LoseEvent(c) \/ Duplicate(c)
         \/ \E seg \in missing[c] : Retransmit(c, seg)
  PROVE  OrderInv'
<1>1. /\ missing \in [Connections -> SUBSET Segments] /\ missing[c] \subseteq Segments
      /\ wire \in [Connections -> Seq(Segments)] /\ wire[c] \in Seq(Segments)
      /\ drops \in Nat /\ duplicates \in Nat /\ eventLosses \in Nat
      /\ disturbed \subseteq Connections \X Flows
  BY DEF OrderInv, TypeOK
<1>2. CASE DropSegment(c)
  <2>1. /\ wire[c] # <<>>
        /\ wire' = [wire EXCEPT ![c] = Tail(wire[c])]
        /\ missing' = [missing EXCEPT ![c] = missing[c] \cup {Head(wire[c])}]
        /\ Disturb(c, Head(wire[c])) /\ NoteHead(c, Head(wire[c]))
        /\ drops' \in Nat /\ eventLosses' \in Nat
        /\ UNCHANGED <<current, sent, state, packets, status, duplicates>>
    BY <1>1, <1>2 DEF DropSegment, trackerVars
  <2>2. {Head(wire[c])} \in SUBSET Segments BY <1>1, <2>1, TailFacts
  <2> QED BY <2>1, <2>2, MissedSegmentInv
<1>3. CASE LoseEvent(c)
  <2>1. /\ wire[c] # <<>>
        /\ wire' = [wire EXCEPT ![c] = Tail(wire[c])]
        /\ missing' = missing
        /\ Disturb(c, Head(wire[c])) /\ NoteHead(c, Head(wire[c]))
        /\ drops' \in Nat /\ eventLosses' \in Nat
        /\ UNCHANGED <<current, sent, state, packets, status, duplicates>>
    BY <1>1, <1>3 DEF LoseEvent, trackerVars
  <2>2. missing' = [missing EXCEPT ![c] = missing[c] \cup {}] BY <1>1, <2>1
  <2>3. {} \in SUBSET Segments /\ {} \subseteq missing[c] \cup {Head(wire[c])} OBVIOUS
  <2> QED BY <2>1, <2>2, <2>3, MissedSegmentInv
<1>4. ASSUME NEW seg \in missing[c], Retransmit(c, seg) PROVE OrderInv'
  <2>1. seg \in Segments /\ seg.flow = current[c] BY <1>1 DEF OrderInv, UnderWayIsCurrent
  <2>2. /\ wire' = [wire EXCEPT ![c] = Append(wire[c], seg)]
        /\ missing' = [missing EXCEPT ![c] = missing[c] \ {seg}]
        /\ UNCHANGED <<current, sent, state, packets, status, drops, duplicates, eventLosses,
                       disturbed, headMissed>>
    BY <1>4 DEF Retransmit, trackerVars, countVars, ghostVars
  <2>3. /\ missing' \in [Connections -> SUBSET Segments]
        /\ \A d \in Connections : missing'[d] \subseteq missing[d]
        /\ \A d \in Connections \ {c} : missing'[d] = missing[d]
    BY <1>1, <2>2
  <2> QED BY <1>1, <2>1, <2>2, <2>3, RepeatedSegmentInv
<1>5. CASE Duplicate(c)
  <2>1. PICK i \in DOMAIN sent[c][current[c]] :
          /\ wire' = [wire EXCEPT ![c] = Append(wire[c], sent[c][current[c]][i])]
          /\ Disturb(c, sent[c][current[c]][i])
    BY <1>5 DEF Duplicate
  <2>2. /\ current[c] \in Flows /\ duplicates' \in Nat
        /\ UNCHANGED <<current, sent, missing, state, packets, status, drops, eventLosses, headMissed>>
    BY <1>1, <1>5, Numbers DEF Duplicate, trackerVars, OrderInv, TypeOK
  <2>3. sent[c][current[c]] \in Seq(Segments) BY <2>2 DEF OrderInv, TypeOK
  <2>4. /\ sent[c][current[c]][i] \in Segments /\ sent[c][current[c]] # <<>>
        /\ sent[c][current[c]][i].flow = current[c]
    BY <2>2, <2>3 DEF OrderInv, UnderWayIsCurrent
  <2>5. disturbed' \subseteq Connections \X Flows BY <1>1, <2>1, <2>2, <2>4 DEF Disturb
  <2> QED BY <1>1, <2>1, <2>2, <2>4, <2>5, RepeatedSegmentInv
<1> QED BY <1>2, <1>3, <1>4, <1>5

-----------------------------------------------------------------------------
(* The tracker's step. *)

\* The state a segment is accounted to, and what is left of it.
LEMMA StateFacts ==
  ASSUME OrderInv, NEW c \in Connections, NEW seg \in Segments
  PROVE  /\ FindState(c, seg) \in [flow : 0 .. FlowCount, remaining : Nat]
         /\ FindState(c, seg).flow = 0 => FindState(c, seg) = Closed
         /\ \A st \in [flow : 0 .. FlowCount, remaining : Nat] :
              LET left == Consume(st, seg.len)
              IN /\ left \in [flow : 0 .. FlowCount, remaining : Nat]
                 /\ left.flow \in {0, st.flow}
                 /\ left.flow = 0 => left = Closed \/ st.flow = 0
<1>1. seg.flow \in Flows /\ seg.len \in Nat \ {0} BY DEF Segments
<1>2. state[c] \in [flow : 0 .. FlowCount, remaining : Nat] /\ (state[c].flow = 0 => state[c] = Closed)
  BY DEF OrderInv, TypeOK
<1>3. seg.flow \in 0 .. FlowCount /\ seg.flow # 0 BY <1>1, Numbers
<1>4. TotalBytes(c, seg.flow) \in Nat BY <1>1, Numbers
<1>5. /\ FindState(c, seg) \in [flow : 0 .. FlowCount, remaining : Nat]
      /\ FindState(c, seg).flow = 0 => FindState(c, seg) = Closed
  BY <1>2, <1>3, <1>4 DEF FindState
<1>6. ASSUME NEW st \in [flow : 0 .. FlowCount, remaining : Nat]
      PROVE  /\ Consume(st, seg.len) \in [flow : 0 .. FlowCount, remaining : Nat]
             /\ Consume(st, seg.len).flow \in {0, st.flow}
             /\ Consume(st, seg.len).flow = 0 => Consume(st, seg.len) = Closed \/ st.flow = 0
  BY <1>1, Numbers DEF Consume
<1> QED BY <1>5, <1>6

\* A segment without metadata that is counted at all is counted for its own
\* flow, or its flow's first segment was missed.
LEMMA CountedForOwnFlow ==
  ASSUME OrderInv, NEW c \in Connections, wire[c] # <<>>, Head(wire[c]) = wire[c][1],
         Head(wire[c]).flow = current[c], FindState(c, Head(wire[c])) # Closed
  PROVE  \/ FindState(c, Head(wire[c])).flow = current[c]
         \/ <<c, current[c]>> \in headMissed
<1>1. CASE HasMetadata(Head(wire[c])) BY <1>1 DEF FindState
<1>2. CASE ~HasMetadata(Head(wire[c]))
  <2>1. FindState(c, Head(wire[c])) = state[c] BY <1>2 DEF FindState
  <2>2. state[c].flow # 0 BY <2>1 DEF OrderInv
  <2>3. HeadResynchronises(c) BY DEF OrderInv
  <2> QED BY <1>2, <2>1, <2>2, <2>3 DEF HeadResynchronises
<1> QED BY <1>1, <1>2

\* A first segment sets the state, any other one is counted down.
LEMMA ProcessEventInv ==
  ASSUME OrderInv, NEW c \in Connections, ProcessEvent(c)
  PROVE  OrderInv'
<1> DEFINE seg == Head(wire[c])
           st == FindState(c, seg)
           States == [flow : 0 .. FlowCount, remaining : Nat]
<1>1. /\ wire[c] # <<>>
      /\ wire' = [wire EXCEPT ![c] = Tail(wire[c])]
      /\ UNCHANGED <<current, sent, missing, drops, duplicates, eventLosses, disturbed, headMissed>>
      /\ \/ st = Closed /\ UNCHANGED <<state, packets, status>>
         \/ /\ st # Closed
            /\ AddPacket(c, st.flow, seg)
            /\ state' = [state EXCEPT ![c] = Consume(st, seg.len)]
            /\ status' = [status EXCEPT ![c] = [status[c] EXCEPT ![st.flow] =
                            IF Len(packets'[c][st.flow]) >= FeaturePacketCount
                              THEN "pending" ELSE "default"]]
  BY DEF ProcessEvent, trackerVars, countVars, ghostVars
<1>2. /\ wire \in [Connections -> Seq(Segments)] /\ wire[c] \in Seq(Segments)
      /\ state \in [Connections -> States] /\ state[c] \in States
      /\ packets \in [Connections -> [Flows -> Seq(Segments)]]
      /\ packets[c] \in [Flows -> Seq(Segments)]
      /\ status \in [Connections -> [Flows -> {"absent", "default", "pending"}]]
      /\ status[c] \in [Flows -> {"absent", "default", "pending"}]
  BY DEF OrderInv, TypeOK
<1>3. /\ seg \in Segments /\ seg = wire[c][1] /\ 1 \in DOMAIN wire[c]
      /\ Tail(wire[c]) \in Seq(Segments)
  BY <1>1, <1>2, TailFacts
<1>4. seg.flow \in Flows /\ seg.flow = current[c]
  BY <1>3 DEF Segments, OrderInv, UnderWayIsCurrent
<1>5. /\ st \in States /\ (st.flow = 0 => st = Closed)
      /\ Consume(st, seg.len) \in States
      /\ Consume(st, seg.len).flow \in {0, st.flow}
      /\ st # Closed /\ Consume(st, seg.len).flow = 0 => Consume(st, seg.len) = Closed
  BY <1>3, StateFacts
<1>6. st = Closed \/ st.flow = current[c] \/ <<c, current[c]>> \in headMissed
  BY <1>1, <1>3, <1>4, CountedForOwnFlow
<1>7. st # Closed => st.flow \in Flows
  BY <1>5, Numbers
<1>8. st # Closed =>
        \E v \in {packets[c][st.flow], Append(packets[c][st.flow], seg)} :
          packets' = [packets EXCEPT ![c] = [packets[c] EXCEPT ![st.flow] = v]]
  <2> SUFFICES ASSUME st # Closed
               PROVE  \E v \in {packets[c][st.flow], Append(packets[c][st.flow], seg)} :
                        packets' = [packets EXCEPT ![c] = [packets[c] EXCEPT ![st.flow] = v]]
    OBVIOUS
  <2> DEFINE v == IF status[c][st.flow] # "pending" /\ Len(packets[c][st.flow]) < FeaturePacketCount
                    THEN Append(packets[c][st.flow], seg) ELSE packets[c][st.flow]
  <2>1. packets' = [packets EXCEPT ![c] = [packets[c] EXCEPT ![st.flow] = v]]
    BY <1>1 DEF AddPacket
  <2> QED BY <2>1
<1>9. HasMetadata(seg) => st.flow = current[c] BY <1>4 DEF FindState
<1>10. st = Closed => state' = state /\ packets' = packets /\ status' = status
  BY <1>1
<1>11. st # Closed => state' = [state EXCEPT ![c] = Consume(st, seg.len)]
  BY <1>1
<1>12. \/ status' = status
       \/ \E v \in {"pending", "default"} :
            status' = [status EXCEPT ![c] = [status[c] EXCEPT ![st.flow] = v]]
  <2>1. CASE st = Closed BY <1>1, <2>1
  <2>2. CASE st # Closed
    <3> DEFINE v == IF Len(packets'[c][st.flow]) >= FeaturePacketCount THEN "pending" ELSE "default"
    <3>1. v \in {"pending", "default"} OBVIOUS
    <3>2. status' = [status EXCEPT ![c] = [status[c] EXCEPT ![st.flow] = v]] BY <1>1, <2>2
    <3> QED BY <3>1, <3>2
  <2> QED BY <2>1, <2>2
<1>13. ~HasMetadata(seg) => st = state[c] BY DEF FindState
<1> HIDE DEF st, seg
<1>20. TypeOK'
  <2>1. wire' \in [Connections -> Seq(Segments)] BY <1>1, <1>2, <1>3
  <2>2. state' \in [Connections -> States] BY <1>2, <1>5, <1>10, <1>11
  <2>3. packets' \in [Connections -> [Flows -> Seq(Segments)]]
    <3>1. CASE st = Closed BY <1>2, <1>10, <3>1
    <3>2. CASE st # Closed
      <4>1. Append(packets[c][st.flow], seg) \in Seq(Segments) /\ packets[c][st.flow] \in Seq(Segments)
        BY <1>2, <1>3, <1>7, <3>2, AppendFacts
      <4>2. PICK v \in Seq(Segments) :
              packets' = [packets EXCEPT ![c] = [packets[c] EXCEPT ![st.flow] = v]]
        BY <1>8, <3>2, <4>1
      <4>3. [packets[c] EXCEPT ![st.flow] = v] \in [Flows -> Seq(Segments)] BY <1>2
      <4> QED BY <1>2, <4>2, <4>3
    <3> QED BY <3>1, <3>2
  <2>4. status' \in [Connections -> [Flows -> {"absent", "default", "pending"}]]
    <3>1. CASE status' = status BY <1>2, <3>1
    <3>2. ASSUME NEW v \in {"pending", "default"},
                 status' = [status EXCEPT ![c] = [status[c] EXCEPT ![st.flow] = v]]
          PROVE  status' \in [Connections -> [Flows -> {"absent", "default", "pending"}]]
      <4>1. [status[c] EXCEPT ![st.flow] = v] \in [Flows -> {"absent", "default", "pending"}]
        BY <1>2
      <4> QED BY <1>2, <3>2, <4>1
    <3> QED BY <1>12, <3>1, <3>2
  <2> QED BY <1>1, <2>1, <2>2, <2>3, <2>4 DEF OrderInv, TypeOK
<1>21. ASSUME NEW d \in Connections
       PROVE  /\ state'[d].flow = 0 => state'[d] = Closed
              /\ UnderWayIsCurrent(d)'
              /\ HeadResynchronises(d)'
  <2>1. CASE d # c
    <3>1. wire'[d] = wire[d] /\ state'[d] = state[d] BY <1>1, <1>2, <1>10, <1>11, <2>1
    <3> QED BY <1>1, <3>1, OtherConnections
  <2>2. CASE d = c
    <3>1. \A i \in DOMAIN wire'[c] : wire'[c][i].flow = current[c]
      <4>1. wire'[c] = Tail(wire[c]) BY <1>1, <1>2
      <4> QED BY <1>1, <1>2, <4>1, TailFlows DEF OrderInv, UnderWayIsCurrent
    <3>2. UnderWayIsCurrent(c)' BY <1>1, <3>1 DEF OrderInv, UnderWayIsCurrent
    <3>3. state'[c].flow = 0 => state'[c] = Closed
      BY <1>2, <1>5, <1>10, <1>11 DEF OrderInv
    <3>4. <<c, current[c]>> \in headMissed \/ state'[c].flow \in {0, current[c]}
      <4>1. CASE st = Closed
        <5>1. HeadResynchronises(c) /\ state'[c] = state[c] BY <1>10, <4>1 DEF OrderInv
        <5>2. ~HasMetadata(seg)
          <6>1. current[c] # 0 BY <1>4, Numbers
          <6> QED BY <1>9, <4>1, <6>1, Numbers
        <5>3. state[c].flow = 0 BY <1>13, <4>1, <5>2, Numbers
        <5> QED BY <5>1, <5>3
      <4>2. CASE st # Closed
        <5>1. state'[c] = Consume(st, seg.len) BY <1>2, <1>11, <4>2
        <5> QED BY <1>5, <1>6, <4>2, <5>1
      <4> QED BY <4>1, <4>2
    <3>5. HeadResynchronises(c)' BY <1>1, <3>4 DEF HeadResynchronises
    <3> QED BY <2>2, <3>2, <3>3, <3>5
  <2> QED BY <2>1, <2>2
<1>22. MixedOnlyAfterLostHead'
  <2> SUFFICES ASSUME NEW d \in Connections, NEW f \in Flows, NEW i \in DOMAIN packets'[d][f],
                      packets'[d][f][i].flow # f
               PROVE  <<d, packets'[d][f][i].flow>> \in headMissed'
    BY DEF MixedOnlyAfterLostHead
  <2>1. CASE packets'[d][f] = packets[d][f]
    BY <1>1, <2>1 DEF OrderInv, MixedOnlyAfterLostHead
  <2>2. CASE packets'[d][f] # packets[d][f]
    <3>1. st # Closed /\ d = c /\ f = st.flow /\ packets'[d][f] = Append(packets[c][f], seg)
      BY <1>2, <1>7, <1>8, <1>10, <2>2, SMTT(30)
    <3>2. packets[c][f] \in Seq(Segments) BY <1>2
    <3>3. CASE i = Len(packets[c][f]) + 1
      <4>1. packets'[d][f][i] = seg BY <1>3, <3>1, <3>2, <3>3, AppendFacts
      <4> QED BY <1>1, <1>4, <1>6, <3>1, <4>1
    <3>4. CASE i \in DOMAIN packets[c][f]
      <4>1. packets'[d][f][i] = packets[c][f][i] BY <1>3, <3>1, <3>2, <3>4, AppendFacts
      <4> QED BY <1>1, <3>1, <3>4, <4>1 DEF OrderInv, MixedOnlyAfterLostHead
    <3>5. i \in 1 .. Len(packets[c][f]) + 1 BY <1>3, <3>1, <3>2, AppendFacts
    <3>6. DOMAIN packets[c][f] = 1 .. Len(packets[c][f]) /\ Len(packets[c][f]) \in Nat BY <3>2
    <3> QED BY <3>3, <3>4, <3>5, <3>6
  <2> QED BY <2>1, <2>2
<1> QED BY <1>20, <1>21, <1>22 DEF OrderInv

-----------------------------------------------------------------------------
(* The theorems. *)

\* Nothing is under way.
LEMMA InitInv == Init => OrderInv
<1> SUFFICES ASSUME Init PROVE OrderInv
  OBVIOUS
<1>1. TypeOK BY Numbers DEF Init, TypeOK
<1>2. ASSUME NEW c \in Connections
      PROVE  /\ state[c].flow = 0 => state[c] = Closed
             /\ UnderWayIsCurrent(c)
             /\ HeadResynchronises(c)
  BY DEF Init, UnderWayIsCurrent, HeadResynchronises
<1>3. MixedOnlyAfterLostHead BY DEF Init, MixedOnlyAfterLostHead
<1> QED BY <1>1, <1>2, <1>3 DEF OrderInv

\* Nothing changes.
LEMMA StutterInv == OrderInv /\ UNCHANGED vars => OrderInv'
  BY SMTT(30) DEF vars, senderVars, trackerVars, countVars, ghostVars, OrderInv, TypeOK, UnderWayIsCurrent,
         HeadResynchronises, HasMetadata, HasPrefix, MixedOnlyAfterLostHead

\* The types hold, and on every connection what is under way belongs to the
\* current flow, whose first segment has been missed, is next, or has set the
\* state of process_event.
THEOREM Order == Spec => []OrderInv
<1>1. OrderInv /\ [Next]_vars => OrderInv'
  BY StutterInv, StartFlowInv, SendSegmentInv, DisturbanceInv, ProcessEventInv DEF Next
<1> QED BY <1>1, InitInv, PTL DEF Spec

\* A packet gets into the features of another flow only when the first segment
\* of its own flow was dropped or not seen, however the segments are cut.
THEOREM Mixing == Spec => []MixedOnlyAfterLostHead
<1>1. OrderInv => MixedOnlyAfterLostHead BY DEF OrderInv
<1> QED BY <1>1, Order, PTL

-----------------------------------------------------------------------------
(* Undisturbed flows. *)

\* A segment sent is the last of both.
LEMMA RestAppend ==
  ASSUME NEW S, NEW s \in Seq(S), NEW w \in Seq(S), NEW e \in S, IsRest(w, s)
  PROVE  IsRest(Append(w, e), Append(s, e))
<1> DEFINE a == Append(w, e)
           b == Append(s, e)
<1>1. Len(s) \in Nat /\ Len(w) \in Nat /\ Len(w) <= Len(s) BY DEF IsRest
<1>2. /\ Len(a) = Len(w) + 1 /\ DOMAIN a = 1 .. Len(w) + 1 /\ DOMAIN w = 1 .. Len(w)
      /\ a[Len(w) + 1] = e /\ \A i \in 1 .. Len(w) : a[i] = w[i]
  BY AppendFacts
<1>3. Len(b) = Len(s) + 1 /\ b[Len(s) + 1] = e /\ \A i \in 1 .. Len(s) : b[i] = s[i]
  BY AppendFacts
<1> HIDE DEF a, b
<1>4. Len(b) - Len(a) = Len(s) - Len(w) /\ Len(a) <= Len(b) BY <1>1, <1>2, <1>3
<1>5. ASSUME NEW i \in 1 .. Len(w) + 1 PROVE a[i] = b[Len(s) - Len(w) + i]
  <2>1. CASE i = Len(w) + 1
    <3>1. Len(s) - Len(w) + i = Len(s) + 1 BY <1>1, <2>1
    <3> QED BY <1>2, <1>3, <2>1, <3>1
  <2>2. CASE i # Len(w) + 1
    <3>1. i \in 1 .. Len(w) /\ Len(s) - Len(w) + i \in 1 .. Len(s) BY <1>1, <2>2
    <3>2. w[i] = s[Len(s) - Len(w) + i] BY <1>2, <3>1 DEF IsRest
    <3> QED BY <1>2, <1>3, <3>1, <3>2
  <2> QED BY <2>1, <2>2
<1>6. IsRest(a, b) BY <1>2, <1>4, <1>5 DEF IsRest
<1> QED BY <1>6 DEF a, b

\* The rest after the next segment.
LEMMA RestTail ==
  ASSUME NEW S, NEW s \in Seq(S), NEW w \in Seq(S), w # <<>>, IsRest(w, s)
  PROVE  /\ IsRest(Tail(w), s)
         /\ Len(s) - Len(w) + 1 \in 1 .. Len(s)
         /\ Head(w) = s[Len(s) - Len(w) + 1]
         /\ Len(s) - Len(Tail(w)) = Len(s) - Len(w) + 1
<1>1. Len(s) \in Nat /\ Len(w) \in Nat /\ Len(w) <= Len(s) /\ Len(w) > 0
  BY TailFacts DEF IsRest
<1>2. /\ Tail(w) \in Seq(S) /\ DOMAIN w = 1 .. Len(w) /\ Head(w) = w[1]
      /\ DOMAIN Tail(w) = 1 .. Len(w) - 1 /\ Len(Tail(w)) = Len(w) - 1
      /\ \A i \in 1 .. Len(w) - 1 : Tail(w)[i] = w[i + 1]
  BY TailFacts
<1>3. Head(w) = s[Len(s) - Len(w) + 1] BY <1>1, <1>2 DEF IsRest
<1>4. ASSUME NEW i \in 1 .. Len(w) - 1 PROVE Tail(w)[i] = s[Len(s) - Len(Tail(w)) + i]
  <2>1. i + 1 \in 1 .. Len(w) /\ Len(s) - Len(Tail(w)) + i = Len(s) - Len(w) + (i + 1)
    BY <1>1, <1>2
  <2>2. w[i + 1] = s[Len(s) - Len(w) + (i + 1)] BY <1>2, <2>1 DEF IsRest
  <2> QED BY <1>2, <2>1, <2>2
<1>5. IsRest(Tail(w), s) BY <1>1, <1>2, <1>4 DEF IsRest
<1> QED BY <1>1, <1>2, <1>3, <1>5

\* The first k elements stay when another is appended.
LEMMA PrefixKept ==
  ASSUME NEW S, NEW s \in Seq(S), NEW e \in S, NEW k \in 0 .. Len(s)
  PROVE  SubSeq(Append(s, e), 1, k) = SubSeq(s, 1, k)
  OBVIOUS

\* The first k + 1 elements are the first k and the next.
LEMMA PrefixNext ==
  ASSUME NEW S, NEW s \in Seq(S), NEW k \in Nat, k < Len(s)
  PROVE  /\ SubSeq(s, 1, k + 1) = Append(SubSeq(s, 1, k), s[k + 1])
         /\ Len(SubSeq(s, 1, k)) = k
  OBVIOUS
\* The first k elements.
LEMMA PrefixLength ==
  ASSUME NEW S, NEW s \in Seq(S), NEW k \in 0 .. Len(s)
  PROVE  Len(SubSeq(s, 1, k)) = k
  OBVIOUS

\* The types of what a connection keeps.
LEMMA Types ==
  ASSUME OrderInv, NEW c \in Connections
  PROVE  /\ current[c] \in 0 .. FlowCount
         /\ sent[c] \in [Flows -> Seq(Segments)]
         /\ wire[c] \in Seq(Segments)
         /\ missing[c] \subseteq Segments
         /\ state[c] \in [flow : 0 .. FlowCount, remaining : Nat]
         /\ packets[c] \in [Flows -> Seq(Segments)]
         /\ status[c] \in [Flows -> {"absent", "default", "pending"}]
  BY DEF OrderInv, TypeOK

\* A connection on which nothing happens keeps its invariant.
LEMMA OtherExact ==
  ASSUME NEW d \in Connections, ConnectionInv(d), disturbed \subseteq disturbed',
         current'[d] = current[d], sent'[d] = sent[d], wire'[d] = wire[d],
         missing'[d] = missing[d], state'[d] = state[d], packets'[d] = packets[d],
         status'[d] = status[d]
  PROVE  ConnectionInv(d)'
<1>1. ASSUME NEW f \in Flows PROVE ExactFacts(d, f)'
  <2>1. ExactFacts(d, f) BY DEF ConnectionInv
  <2>2. Contiguous(d, f)' BY <2>1 DEF ExactFacts, Contiguous, HasMetadata, HasPrefix, TotalBytes
  <2>3. WireHoldsRest(d) => WireHoldsRest(d)' BY DEF WireHoldsRest
  <2> QED BY <2>1, <2>2, <2>3 DEF ExactFacts
<1>2. ASSUME NEW f \in Flows, <<d, f>> \notin disturbed' PROVE FlowIsExact(d, f)'
  <2>1. Seen(d, f)' = Seen(d, f) BY DEF Seen
  <2>2. FlowIsExact(d, f) BY <1>2 DEF ConnectionInv
  <2> QED BY <2>1, <2>2 DEF FlowIsExact, Features, StateAfter, TotalBytes
<1> QED BY <1>1, <1>2 DEF ConnectionInv

\* Once the current flow of c is disturbed, what is on the wire matters no more.
LEMMA DisturbedExact ==
  ASSUME NEW c \in Connections, ConnectionInv(c), disturbed \subseteq disturbed',
         <<c, current[c]>> \in disturbed',
         current'[c] = current[c], sent'[c] = sent[c], state'[c] = state[c],
         packets'[c] = packets[c], status'[c] = status[c]
  PROVE  ConnectionInv(c)'
<1>1. state'[c].flow <= current'[c] BY DEF ConnectionInv
<1>2. ASSUME NEW f \in Flows PROVE ExactFacts(c, f)'
  BY DEF ConnectionInv, ExactFacts, Contiguous, HasMetadata, HasPrefix, TotalBytes
<1>3. ASSUME NEW f \in Flows, <<c, f>> \notin disturbed' PROVE FlowIsExact(c, f)'
  <2>1. f # current[c] /\ FlowIsExact(c, f) BY <1>3 DEF ConnectionInv
  <2> QED BY <2>1 DEF FlowIsExact, Features, Seen
<1> QED BY <1>1, <1>2, <1>3 DEF ConnectionInv

\* The four disturbances.
LEMMA DisturbanceExact ==
  ASSUME OrderInv, NEW c \in Connections, \A d \in Connections : ConnectionInv(d),
         \/ DropSegment(c) \/ LoseEvent(c) \/ Duplicate(c)
         \/ \E seg \in missing[c] : Retransmit(c, seg)
  PROVE  \A d \in Connections : ConnectionInv(d)'
<1>1. /\ wire \in [Connections -> Seq(Segments)] /\ wire[c] \in Seq(Segments)
      /\ missing \in [Connections -> SUBSET Segments] /\ missing[c] \subseteq Segments
  BY DEF OrderInv, TypeOK
<1>2. /\ UNCHANGED <<current, sent, state, packets, status>>
      /\ disturbed \subseteq disturbed'
      /\ \A d \in Connections \ {c} : wire'[d] = wire[d] /\ missing'[d] = missing[d]
  <2>1. CASE DropSegment(c) BY <1>1, <2>1 DEF DropSegment, Disturb, trackerVars
  <2>2. CASE LoseEvent(c) BY <1>1, <2>2 DEF LoseEvent, Disturb, trackerVars
  <2>3. CASE Duplicate(c) BY <1>1, <2>3 DEF Duplicate, Disturb, trackerVars
  <2>4. CASE \E seg \in missing[c] : Retransmit(c, seg)
    BY <1>1, <2>4 DEF Retransmit, trackerVars, countVars, ghostVars
  <2> QED BY <2>1, <2>2, <2>3, <2>4
<1>3. <<c, current[c]>> \in disturbed'
  <2>1. CASE DropSegment(c) \/ LoseEvent(c)
    <3>1. wire[c] # <<>> /\ Disturb(c, Head(wire[c])) BY <2>1 DEF DropSegment, LoseEvent
    <3>2. Head(wire[c]).flow = current[c] BY <1>1, <3>1, TailFlows DEF OrderInv, UnderWayIsCurrent
    <3> QED BY <3>1, <3>2 DEF Disturb
  <2>2. CASE Duplicate(c)
    <3>1. PICK i \in DOMAIN sent[c][current[c]] : Disturb(c, sent[c][current[c]][i])
      BY <2>2 DEF Duplicate
    <3>2. current[c] \in Flows BY <2>2, Numbers, Types DEF Duplicate
    <3>3. sent[c][current[c]][i].flow = current[c] BY <3>1, <3>2 DEF OrderInv, UnderWayIsCurrent
    <3> QED BY <3>1, <3>3 DEF Disturb
  <2>3. ASSUME NEW seg \in missing[c], Retransmit(c, seg) PROVE <<c, current[c]>> \in disturbed'
    <3>1. current[c] \in Flows BY <1>1 DEF OrderInv, UnderWayIsCurrent, Segments
    <3>2. ~WireHoldsRest(c) BY DEF WireHoldsRest
    <3>3. ExactFacts(c, current[c]) BY <3>1 DEF ConnectionInv
    <3> QED BY <1>2, <3>1, <3>2, <3>3 DEF ExactFacts
  <2> QED BY <2>1, <2>2, <2>3
<1>4. ASSUME NEW d \in Connections PROVE ConnectionInv(d)'
  <2>1. CASE d = c BY <1>2, <1>3, <2>1, DisturbedExact
  <2>2. CASE d # c BY <1>2, <2>2, OtherExact
  <2> QED BY <2>1, <2>2
<1> QED BY <1>4

\* The flow that is left has passed whole, and of the new one nothing has.
LEMMA StartFlowExact ==
  ASSUME OrderInv, NEW c \in Connections, \A d \in Connections : ConnectionInv(d), StartFlow(c)
  PROVE  \A d \in Connections : ConnectionInv(d)'
<1>1. /\ current \in [Connections -> 0 .. FlowCount]
      /\ current' = [current EXCEPT ![c] = current[c] + 1]
      /\ wire[c] = <<>> /\ missing[c] = {}
      /\ UNCHANGED <<sent, wire, missing, state, packets, status, disturbed>>
  BY DEF OrderInv, TypeOK, StartFlow, Delivered, trackerVars, countVars, ghostVars
<1>2. ASSUME NEW d \in Connections, d # c PROVE ConnectionInv(d)'
  <2>1. current'[d] = current[d] BY <1>1, <1>2
  <2> QED BY <1>1, <2>1, OtherExact
<1>3. /\ current'[c] = current[c] + 1 /\ current[c] \in Nat
      /\ state[c] \in [flow : 0 .. FlowCount, remaining : Nat]
      /\ sent[c] \in [Flows -> Seq(Segments)]
  BY <1>1, Types, Numbers
<1>4. state'[c].flow <= current'[c] BY <1>1, <1>3, Numbers DEF ConnectionInv
<1>5. ASSUME NEW f \in Flows PROVE Contiguous(c, f)'
                                   /\ (status'[c][f] = "pending" => Len(packets'[c][f]) >= FeaturePacketCount)
  BY <1>1, ZenonT(60) DEF ConnectionInv, ExactFacts, Contiguous, HasMetadata, HasPrefix, TotalBytes
<1>6. ASSUME NEW f \in Flows, <<c, f>> \notin disturbed'
      PROVE  /\ f # current'[c] => state'[c].flow # f
             /\ f = current'[c] => WireHoldsRest(c)'
             /\ FlowIsExact(c, f)'
  <2>1. ExactFacts(c, f) /\ FlowIsExact(c, f) BY <1>1, <1>6 DEF ConnectionInv
  <2>2. CASE f = current[c] + 1
    <3>1. sent[c][f] = <<>> BY <1>3, <2>2, Numbers, SMTT(30) DEF OrderInv, UnderWayIsCurrent
    <3>2. WireHoldsRest(c)'
      <4>1. Len(wire'[c]) = 0 /\ DOMAIN wire'[c] = {} /\ missing'[c] = {} BY <1>1
      <4>2. Len(sent'[c][current'[c]]) = 0 BY <1>1, <1>3, <2>2, <3>1
      <4> QED BY <4>1, <4>2 DEF WireHoldsRest, IsRest
    <3>3. f # current[c] BY <1>3, <2>2
    <3>4. Seen(c, f) = 0 /\ Seen(c, f)' = 0 BY <1>1, <1>3, <2>2, <3>1, <3>3 DEF Seen
    <3>5. FlowIsExact(c, f)' BY <1>1, <2>1, <3>4 DEF FlowIsExact, Features
    <3> QED BY <1>3, <2>2, <3>2, <3>5
  <2>3. CASE f = current[c]
    <3>1. SentBytes(c, f) = TotalBytes(c, f) /\ TotalBytes(c, f) \in Nat /\ TotalBytes(c, f) > 0
      BY <2>3, Numbers DEF StartFlow, Delivered
    <3>2. sent[c][f] # <<>> /\ sent[c][f] \in Seq(Segments)
      BY <1>3, <3>1, SentBytesFacts DEF OrderInv
    <3>3. Len(sent[c][f]) \in Nat /\ Len(sent[c][f]) > 0 BY <3>2
    <3>4. Seen(c, f) = Len(sent[c][f]) /\ Seen(c, f)' = Len(sent[c][f])
      <4>1. Len(wire[c]) = 0 /\ f # current'[c] /\ sent' = sent BY <1>1, <1>3, <2>3
      <4> QED BY <2>3, <3>3, <4>1 DEF Seen
    <3>5. state[c] = StateAfter(c, f, Len(sent[c][f]))
      BY <2>1, <2>3, <3>3, <3>4 DEF FlowIsExact
    <3>6. SentBytes(c, f) = sent[c][f][Len(sent[c][f])].offset + sent[c][f][Len(sent[c][f])].len
      BY <3>2 DEF SentBytes
    <3>7. state[c] = Closed BY <3>1, <3>5, <3>6 DEF StateAfter
    <3>8. state'[c].flow # f BY <1>1, <3>7, Numbers
    <3>9. f # current'[c] BY <1>3, <2>3
    <3>10. FlowIsExact(c, f)' BY <1>1, <2>1, <3>4, <3>9 DEF FlowIsExact, Features
    <3> QED BY <3>8, <3>9, <3>10
  <2>4. CASE f # current[c] /\ f # current[c] + 1
    <3>1. state[c].flow # f BY <1>6, <2>1, <2>4, <1>1 DEF ExactFacts
    <3>2. Seen(c, f)' = Seen(c, f) BY <1>1, <1>3, <2>4 DEF Seen
    <3>3. FlowIsExact(c, f)' BY <1>1, <1>3, <2>1, <2>4, <3>2 DEF FlowIsExact, Features
    <3> QED BY <1>1, <1>3, <2>4, <3>1, <3>3
  <2> QED BY <2>2, <2>3, <2>4
<1>7. ConnectionInv(c)' BY <1>4, <1>5, <1>6 DEF ConnectionInv, ExactFacts
<1> QED BY <1>2, <1>7

\* The next segment goes to the end of the flow and of the wire.
LEMMA SendSegmentExact ==
  ASSUME OrderInv, NEW c \in Connections, \A d \in Connections : ConnectionInv(d),
         NEW len \in 1 .. MaxSegment, SendSegment(c, len)
  PROVE  \A d \in Connections : ConnectionInv(d)'
<1>1. PICK f \in Flows : f = current[c] BY Numbers DEF SendSegment, OrderInv, TypeOK
<1> DEFINE s == sent[c][f]
           w == wire[c]
           seg == [flow |-> f, offset |-> SentBytes(c, f), len |-> len]
<1>2. seg \in Segments BY <1>1, SentBytesFacts, Numbers DEF OrderInv, Segments
<1>3. /\ sent' = [sent EXCEPT ![c] = [sent[c] EXCEPT ![f] = Append(s, seg)]]
      /\ wire' = [wire EXCEPT ![c] = Append(w, seg)]
      /\ UNCHANGED <<current, missing, state, packets, status, disturbed>>
      /\ SentBytes(c, f) + len <= TotalBytes(c, f)
      /\ SentBytes(c, f) = 0 => len >= MetaSize
  BY <1>1 DEF SendSegment, trackerVars, countVars, ghostVars
<1>4. /\ s \in Seq(Segments) /\ w \in Seq(Segments)
      /\ sent \in [Connections -> [Flows -> Seq(Segments)]] /\ sent[c] \in [Flows -> Seq(Segments)]
      /\ wire \in [Connections -> Seq(Segments)]
  BY <1>1 DEF OrderInv, TypeOK
<1>5. ASSUME NEW d \in Connections, d # c PROVE ConnectionInv(d)'
  <2>1. sent'[d] = sent[d] /\ wire'[d] = wire[d] BY <1>3, <1>4, <1>5
  <2> QED BY <1>3, <2>1, <1>5, OtherExact
<1>6. /\ sent'[c][f] = Append(s, seg) /\ wire'[c] = Append(w, seg)
      /\ \A g \in Flows \ {f} : sent'[c][g] = sent[c][g]
  BY <1>1, <1>3, <1>4
<1>7. /\ Len(s) \in Nat /\ Len(w) \in Nat
      /\ Len(Append(s, seg)) = Len(s) + 1 /\ Len(Append(w, seg)) = Len(w) + 1
      /\ DOMAIN s = 1 .. Len(s) /\ DOMAIN w = 1 .. Len(w)
      /\ DOMAIN Append(s, seg) = 1 .. Len(s) + 1 /\ DOMAIN Append(w, seg) = 1 .. Len(w) + 1
      /\ Append(s, seg)[Len(s) + 1] = seg /\ Append(w, seg)[Len(w) + 1] = seg
      /\ \A i \in 1 .. Len(s) : Append(s, seg)[i] = s[i]
      /\ \A i \in 1 .. Len(w) : Append(w, seg)[i] = w[i]
  BY <1>2, <1>4, AppendFacts
<1>8. seg.offset = SentBytes(c, f) /\ seg.len = len OBVIOUS
<1>9. ExactFacts(c, f) BY <1>1 DEF ConnectionInv
<1>10. Contiguous(c, f)'
  <2>1. ASSUME NEW i \in 1 .. Len(s)
        PROVE  /\ i = 1 => HasMetadata(s[i])
               /\ i > 1 => s[i].offset = s[i - 1].offset + s[i - 1].len
               /\ s[i].offset + s[i].len <= TotalBytes(c, f)
    BY <1>7, <1>9 DEF ExactFacts, Contiguous
  <2>2. Len(s) = 0 => HasMetadata(seg)
    <3>1. Len(s) = 0 => s = <<>> BY <1>4
    <3> QED BY <1>1, <1>3, <1>8, <3>1, SentBytesFacts DEF OrderInv, HasMetadata, HasPrefix
  <2>3. Len(s) > 0 => seg.offset = s[Len(s)].offset + s[Len(s)].len
    <3>1. Len(s) > 0 => s # <<>> BY <1>4
    <3> QED BY <1>8, <3>1 DEF SentBytes
  <2>4. SentBytes(c, f) \in Nat /\ TotalBytes(c, f) \in Nat
    BY <1>1, SentBytesFacts, Numbers DEF OrderInv
  <2> HIDE DEF s, w, seg
  <2>5. ASSUME NEW i \in DOMAIN sent'[c][f]
        PROVE  LET g == sent'[c][f][i]
               IN /\ i = 1 => HasMetadata(g)
                  /\ i > 1 => g.offset = sent'[c][f][i - 1].offset + sent'[c][f][i - 1].len
                  /\ g.offset + g.len <= TotalBytes(c, f)
    <3>1. i \in 1 .. Len(s) + 1 BY <1>6, <1>7
    <3>2. CASE i = Len(s) + 1
      <4>1. sent'[c][f][i] = seg BY <1>6, <1>7, <3>2
      <4>2. i = 1 => HasMetadata(seg) BY <1>7, <2>2, <3>2
      <4>3. ASSUME i > 1 PROVE seg.offset = sent'[c][f][i - 1].offset + sent'[c][f][i - 1].len
        <5>1. i - 1 = Len(s) /\ Len(s) > 0 BY <1>7, <3>2, <4>3
        <5>2. sent'[c][f][i - 1] = s[Len(s)] BY <1>6, <1>7, <5>1
        <5> QED BY <2>3, <5>1, <5>2
      <4>4. seg.offset + seg.len <= TotalBytes(c, f) BY <1>3, <1>8
      <4> QED BY <4>1, <4>2, <4>3, <4>4
    <3>3. CASE i \in 1 .. Len(s)
      <4>1. sent'[c][f][i] = s[i] BY <1>6, <1>7, <3>3
      <4>2. ASSUME i > 1 PROVE sent'[c][f][i - 1] = s[i - 1]
        <5>1. i - 1 \in 1 .. Len(s) BY <1>7, <3>3, <4>2
        <5> QED BY <1>6, <1>7, <5>1
      <4> QED BY <2>1, <3>3, <4>1, <4>2
    <3> QED BY <1>7, <3>1, <3>2, <3>3
  <2> QED BY <2>5, <1>3 DEF Contiguous, HasMetadata, HasPrefix, TotalBytes
<1>11. ASSUME WireHoldsRest(c) PROVE WireHoldsRest(c)'
  <2>1. missing'[c] = {} /\ IsRest(w, s) BY <1>1, <1>3, <1>11 DEF WireHoldsRest
  <2>2. IsRest(Append(w, seg), Append(s, seg)) BY <1>2, <1>4, <2>1, RestAppend
  <2>3. IsRest(wire'[c], sent'[c][current'[c]]) BY <1>1, <1>3, <1>6, <2>2
  <2> QED BY <2>1, <2>3 DEF WireHoldsRest, IsRest
<1>12. ASSUME <<c, f>> \notin disturbed PROVE FlowIsExact(c, f)'
  <2>1. FlowIsExact(c, f) /\ WireHoldsRest(c) BY <1>1, <1>9, <1>12 DEF ConnectionInv, ExactFacts
  <2>0. Len(s) \in Nat /\ Len(w) \in Nat /\ Len(w) <= Len(s)
    <3>1. Len(s) \in Nat /\ Len(w) \in Nat BY <1>7
    <3> QED BY <1>1, <2>1, <3>1 DEF WireHoldsRest, IsRest
  <2>2. PICK n \in 0 .. Len(s) : n = Len(s) - Len(w)
    <3> HIDE DEF s, w
    <3>1. Len(s) - Len(w) \in 0 .. Len(s) BY <2>0
    <3> QED BY <3>1, Zenon
  <2> DEFINE k == IF n < FeaturePacketCount THEN n ELSE FeaturePacketCount
  <2>3. k \in 0 .. Len(s)
    <3> HIDE DEF s
    <3> QED BY <2>0, <2>2, SizesAssumption
  <2>4. Seen(c, f) = n /\ Seen(c, f)' = n
    <3>1. Len(sent'[c][f]) = Len(s) + 1 /\ Len(wire'[c]) = Len(w) + 1 BY <1>6, <1>7
    <3>2. Seen(c, f)' = Len(s) + 1 - (Len(w) + 1)
      <4>1. f = current'[c] BY <1>1, <1>3
      <4> HIDE DEF s, w
      <4> QED BY <3>1, <4>1 DEF Seen
    <3>3. Seen(c, f) = n BY <1>1, <2>2 DEF Seen
    <3> HIDE DEF s, w
    <3> QED BY <2>0, <2>2, <3>2, <3>3
  <2>5. SubSeq(sent'[c][f], 1, k) = SubSeq(s, 1, k)
    <3> HIDE DEF k
    <3> QED BY <1>2, <1>4, <1>6, <2>3, PrefixKept
  <2>6. n > 0 => sent'[c][f][n] = s[n]
    <3>1. \A i \in 1 .. Len(s) : sent'[c][f][i] = s[i] BY <1>6, <1>7
    <3> HIDE DEF s, w, seg, k
    <3>2. n > 0 => n \in 1 .. Len(s) BY <2>0
    <3> QED BY <3>1, <3>2, Zenon
  <2>7. packets'[c][f] = SubSeq(sent'[c][f], 1, k)
    BY <1>3, <2>1, <2>4, <2>5 DEF FlowIsExact, Features
  <2>8. ASSUME n > 0 PROVE state'[c] = StateAfter(c, f, n)'
    <3>1. state[c] = StateAfter(c, f, n) BY <1>1, <2>1, <2>4, <2>8 DEF FlowIsExact
    <3> QED BY <1>3, <2>6, <2>8, <3>1 DEF StateAfter, TotalBytes
  <2> QED BY <1>1, <1>3, <2>4, <2>7, <2>8 DEF FlowIsExact, Features
<1>13. ASSUME NEW g \in Flows, g # f
       PROVE  ExactFacts(c, g)' /\ (<<c, g>> \notin disturbed' => FlowIsExact(c, g)')
  <2>1. ExactFacts(c, g) /\ (<<c, g>> \notin disturbed => FlowIsExact(c, g)) BY DEF ConnectionInv
  <2>2. sent'[c][g] = sent[c][g] BY <1>6, <1>13
  <2>3. Contiguous(c, g)'
    BY <1>3, <2>1, <2>2 DEF ExactFacts, Contiguous, HasMetadata, HasPrefix, TotalBytes
  <2>4. ExactFacts(c, g)' BY <1>1, <1>3, <1>13, <2>1, <2>3 DEF ExactFacts
  <2>5. Seen(c, g)' = Seen(c, g) BY <1>1, <1>3, <1>13, <2>2 DEF Seen
  <2>6. FlowIsExact(c, g) => FlowIsExact(c, g)'
    BY <1>1, <1>3, <1>13, <2>2, <2>5 DEF FlowIsExact, Features
  <2> QED BY <1>3, <2>1, <2>4, <2>6
<1>14. ExactFacts(c, f)' BY <1>1, <1>3, <1>9, <1>10, <1>11 DEF ExactFacts
<1>15. state'[c].flow <= current'[c] BY <1>3 DEF ConnectionInv
<1>16. ConnectionInv(c)' BY <1>3, <1>12, <1>13, <1>14, <1>15 DEF ConnectionInv
<1> QED BY <1>5, <1>16

\* The next segment of an undisturbed flow is accounted to the flow, of which
\* it leaves what follows the segment.
LEMMA NextSegment ==
  ASSUME OrderInv, NEW c \in Connections, ConnectionInv(c), NEW f \in Flows, f = current[c],
         <<c, f>> \notin disturbed, wire[c] # <<>>,
         NEW n \in Nat, n = Seen(c, f)
  PROVE  /\ n + 1 \in 1 .. Len(sent[c][f])
         /\ Head(wire[c]) = sent[c][f][n + 1]
         /\ FindState(c, Head(wire[c])).flow = f
         /\ Consume(FindState(c, Head(wire[c])), Head(wire[c]).len) = StateAfter(c, f, n + 1)
<1> DEFINE s == sent[c][f]
           seg == Head(wire[c])
           total == TotalBytes(c, f)
<1>1. s \in Seq(Segments) /\ wire[c] \in Seq(Segments) BY Types
<1>2. Contiguous(c, f) /\ WireHoldsRest(c) /\ FlowIsExact(c, f) BY DEF ConnectionInv, ExactFacts
<1>3. n + 1 \in 1 .. Len(s) /\ seg = s[n + 1]
  BY <1>1, <1>2, RestTail DEF WireHoldsRest, Seen
<1>4. /\ n + 1 = 1 => HasMetadata(seg)
      /\ n + 1 > 1 => seg.offset = s[n].offset + s[n].len
      /\ seg.offset + seg.len <= total
  <2>1. \A i \in DOMAIN s : /\ i = 1 => HasMetadata(s[i])
                            /\ i > 1 => s[i].offset = s[i - 1].offset + s[i - 1].len
                            /\ s[i].offset + s[i].len <= total
    BY <1>2 DEF Contiguous
  <2>2. DOMAIN s = 1 .. Len(s) BY <1>1
  <2>3. n + 1 - 1 = n OBVIOUS
  <2> HIDE DEF s, seg, total
  <2> QED BY <1>3, <2>1, <2>2, <2>3
<1>5. seg \in Segments /\ seg.flow = f
  <2>1. seg.flow = f BY <1>1, TailFlows DEF OrderInv, UnderWayIsCurrent
  <2> QED BY <1>1, <2>1, TailFacts
<1>6. seg.offset \in Nat /\ seg.len \in Nat \ {0} /\ total \in Nat
  <2>1. total \in Nat BY Numbers
  <2> HIDE DEF seg, total
  <2> QED BY <1>5, <2>1 DEF Segments
<1>7. FindState(c, seg) = [flow |-> f, remaining |-> total - seg.offset]
  <2>1. CASE n = 0
    <3>1. HasMetadata(seg) BY <1>4, <2>1
    <3>2. seg.offset = 0 BY <3>1 DEF HasMetadata
    <3>3. FindState(c, seg) = [flow |-> f, remaining |-> total] BY <1>5, <3>1 DEF FindState
    <3>4. total - 0 = total BY <1>6
    <3> QED BY <3>2, <3>3, <3>4
  <2>2. CASE n > 0
    <3>1. s[n].offset \in Nat /\ s[n].len \in Nat \ {0}
      <4>1. Len(s) \in Nat BY <1>1
      <4> HIDE DEF s
      <4>2. n \in 1 .. Len(s) BY <1>3, <2>2, <4>1
      <4>3. s[n] \in Segments BY <1>1, <4>2
      <4> QED BY <4>3 DEF Segments
    <3>2. seg.offset = s[n].offset + s[n].len
      <4> HIDE DEF s, seg, total
      <4> QED BY <1>4, <2>2
    <3>3. seg.offset # 0
      <4> HIDE DEF s, seg
      <4> QED BY <3>1, <3>2
    <3>4. ~HasMetadata(seg) BY <3>3 DEF HasMetadata
    <3>5. state[c] = StateAfter(c, f, n) BY <1>2, <2>2 DEF FlowIsExact
    <3>6. total - seg.offset # 0
      <4> HIDE DEF seg, total
      <4> QED BY <1>4, <1>6
    <3>7. state[c] = [flow |-> f, remaining |-> total - seg.offset]
      BY <3>2, <3>5, <3>6 DEF StateAfter
    <3>8. FindState(c, seg) = state[c] BY <3>4 DEF FindState
    <3> QED BY <3>7, <3>8
  <2>3. n = 0 \/ n > 0 OBVIOUS
  <2> HIDE DEF seg, total
  <2> QED BY <2>1, <2>2, <2>3
<1>8. Consume(FindState(c, seg), seg.len) =
        IF total - (seg.offset + seg.len) = 0
          THEN Closed ELSE [flow |-> f, remaining |-> total - (seg.offset + seg.len)]
  <2>1. total - seg.offset > seg.len <=> total - (seg.offset + seg.len) # 0
    <3> HIDE DEF seg, total
    <3> QED BY <1>4, <1>6
  <2>2. total - seg.offset - seg.len = total - (seg.offset + seg.len)
    <3> HIDE DEF seg, total
    <3> QED BY <1>6
  <2> HIDE DEF seg, total
  <2> QED BY <1>7, <2>1, <2>2 DEF Consume
<1>9. Consume(FindState(c, seg), seg.len) = StateAfter(c, f, n + 1)
  <2>1. StateAfter(c, f, n + 1) =
          IF total - (s[n + 1].offset + s[n + 1].len) = 0
            THEN Closed ELSE [flow |-> f, remaining |-> total - (s[n + 1].offset + s[n + 1].len)]
    BY DEF StateAfter
  <2> HIDE DEF s, seg, total
  <2> QED BY <1>3, <1>8, <2>1
<1>10. FindState(c, seg).flow = f BY <1>7
<1> QED BY <1>3, <1>9, <1>10

\* The first segments are kept until there are FeaturePacketCount of them.
LEMMA NextFeature ==
  ASSUME NEW s \in Seq(Segments), NEW n \in Nat, n < Len(s), NEW r \in {"absent", "default", "pending"},
         NEW old, old = SubSeq(s, 1, IF n < FeaturePacketCount THEN n ELSE FeaturePacketCount),
         r = "pending" => Len(old) >= FeaturePacketCount
  PROVE  (IF r # "pending" /\ Len(old) < FeaturePacketCount THEN Append(old, s[n + 1]) ELSE old)
           = SubSeq(s, 1, IF n + 1 < FeaturePacketCount THEN n + 1 ELSE FeaturePacketCount)
<1>1. FeaturePacketCount \in Nat \ {0} /\ Len(s) \in Nat BY SizesAssumption
<1>2. CASE n < FeaturePacketCount
  <2>1. old = SubSeq(s, 1, n) /\ Len(old) = n BY <1>2, PrefixNext
  <2>2. r # "pending" /\ Len(old) < FeaturePacketCount BY <1>1, <1>2, <2>1
  <2>3. SubSeq(s, 1, n + 1) = Append(old, s[n + 1]) BY <2>1, PrefixNext
  <2>4. n + 1 = IF n + 1 < FeaturePacketCount THEN n + 1 ELSE FeaturePacketCount
    BY <1>1, <1>2
  <2> QED BY <2>2, <2>3, <2>4
<1>3. CASE ~(n < FeaturePacketCount)
  <2>1. FeaturePacketCount \in 0 .. Len(s) /\ ~(n + 1 < FeaturePacketCount) BY <1>1, <1>3
  <2>2. old = SubSeq(s, 1, FeaturePacketCount) BY <1>3
  <2>3. Len(old) = FeaturePacketCount BY <2>1, <2>2, PrefixLength
  <2>4. ~(Len(old) < FeaturePacketCount) BY <1>1, <2>3
  <2> QED BY <2>1, <2>2, <2>4
<1> QED BY <1>2, <1>3

\* An event changes the current flow as said, another flow only if disturbed.
LEMMA ProcessEventExact ==
  ASSUME OrderInv, NEW c \in Connections, \A d \in Connections : ConnectionInv(d), ProcessEvent(c)
  PROVE  \A d \in Connections : ConnectionInv(d)'
<1> DEFINE seg == Head(wire[c])
           st == FindState(c, seg)
           States == [flow : 0 .. FlowCount, remaining : Nat]
           Added(g) == IF status[c][g] # "pending" /\ Len(packets[c][g]) < FeaturePacketCount
                         THEN Append(packets[c][g], seg) ELSE packets[c][g]
           Ready(g) == IF Len(packets'[c][g]) >= FeaturePacketCount THEN "pending" ELSE "default"
<1>1. /\ wire[c] # <<>>
      /\ wire' = [wire EXCEPT ![c] = Tail(wire[c])]
      /\ UNCHANGED <<current, sent, missing, disturbed>>
      /\ st = Closed => UNCHANGED <<state, packets, status>>
      /\ st # Closed =>
           /\ packets' = [packets EXCEPT ![c] = [packets[c] EXCEPT ![st.flow] = Added(st.flow)]]
           /\ state' = [state EXCEPT ![c] = Consume(st, seg.len)]
           /\ status' = [status EXCEPT ![c] = [status[c] EXCEPT ![st.flow] = Ready(st.flow)]]
  BY DEF ProcessEvent, AddPacket, trackerVars, countVars, ghostVars
<1>2. /\ wire \in [Connections -> Seq(Segments)] /\ wire[c] \in Seq(Segments)
      /\ state \in [Connections -> States] /\ state[c] \in States
      /\ packets \in [Connections -> [Flows -> Seq(Segments)]]
      /\ packets[c] \in [Flows -> Seq(Segments)]
      /\ status \in [Connections -> [Flows -> {"absent", "default", "pending"}]]
      /\ status[c] \in [Flows -> {"absent", "default", "pending"}]
      /\ sent[c] \in [Flows -> Seq(Segments)]
  BY DEF OrderInv, TypeOK
<1>3. seg \in Segments /\ seg.flow \in Flows /\ seg.flow = current[c]
  <2>1. seg \in Segments BY <1>1, <1>2, TailFacts
  <2>2. seg.flow = current[c] BY <1>1, <1>2, TailFlows DEF OrderInv, UnderWayIsCurrent
  <2> HIDE DEF seg
  <2> QED BY <2>1, <2>2 DEF Segments
<1>4. PICK f \in Flows : f = current[c] BY <1>3
<1>5. /\ st \in States /\ (st.flow = 0 => st = Closed)
      /\ Consume(st, seg.len) \in States
      /\ Consume(st, seg.len).flow \in {0, st.flow}
  BY <1>3, StateFacts
<1>6. st # Closed => st.flow \in Flows BY <1>5, Numbers
<1>7. st = state[c] \/ st.flow = f BY <1>3, <1>4 DEF FindState
<1>8. ASSUME NEW d \in Connections, d # c PROVE ConnectionInv(d)'
  <2>1. /\ wire'[d] = wire[d] /\ state'[d] = state[d]
        /\ packets'[d] = packets[d] /\ status'[d] = status[d]
    BY <1>1, <1>2, <1>8
  <2> QED BY <1>1, <1>8, <2>1, OtherExact
<1>9. /\ wire'[c] = Tail(wire[c])
      /\ st = Closed => state'[c] = state[c]
      /\ st # Closed => state'[c] = Consume(st, seg.len)
      /\ \A g \in Flows : st = Closed \/ g # st.flow =>
           packets'[c][g] = packets[c][g] /\ status'[c][g] = status[c][g]
      /\ st # Closed => /\ packets'[c][st.flow] = Added(st.flow)
                        /\ status'[c][st.flow] = Ready(st.flow)
  BY <1>1, <1>2, <1>6
<1>10. st # Closed /\ st.flow # f => <<c, st.flow>> \in disturbed
  BY <1>4, <1>6, <1>7 DEF ConnectionInv, ExactFacts
<1> HIDE DEF seg, st, Added, Ready
<1>11. state'[c].flow <= current'[c]
  <2>1. state[c].flow <= f /\ f \in Nat BY <1>4, Numbers DEF ConnectionInv
  <2>2. st.flow <= f BY <1>7, <2>1
  <2>3. Closed.flow = 0 BY Numbers
  <2>4. CASE st = Closed BY <1>1, <1>4, <1>9, <2>1, <2>4
  <2>5. CASE st # Closed
    <3>1. state'[c].flow \in {0, st.flow} BY <1>5, <1>9, <2>5
    <3> QED BY <1>1, <1>4, <2>1, <2>2, <3>1
  <2> QED BY <2>4, <2>5
<1>12. ASSUME NEW g \in Flows
       PROVE  /\ Contiguous(c, g)'
              /\ status'[c][g] = "pending" => Len(packets'[c][g]) >= FeaturePacketCount
  <2>1. ExactFacts(c, g) BY DEF ConnectionInv
  <2>2. Contiguous(c, g)'
    BY <1>1, <2>1 DEF ExactFacts, Contiguous, HasMetadata, HasPrefix, TotalBytes
  <2>3. status'[c][g] = "pending" => Len(packets'[c][g]) >= FeaturePacketCount
    BY <1>9, <2>1 DEF ExactFacts, Ready
  <2> QED BY <2>2, <2>3
<1>13. ASSUME NEW g \in Flows, g # f, <<c, g>> \notin disturbed'
       PROVE  state'[c].flow # g /\ FlowIsExact(c, g)'
  <2>1. FlowIsExact(c, g) /\ state[c].flow # g
    BY <1>1, <1>4, <1>13 DEF ConnectionInv, ExactFacts
  <2>2. st = Closed \/ g # st.flow BY <1>1, <1>10, <1>13
  <2>3. g # 0 BY Numbers
  <2>4. state'[c].flow # g BY <1>5, <1>9, <2>1, <2>2, <2>3
  <2>5. packets'[c][g] = packets[c][g] BY <1>9, <2>2
  <2>6. Seen(c, g)' = Seen(c, g) BY <1>1, <1>4, <1>13 DEF Seen
  <2>7. FlowIsExact(c, g)' BY <1>1, <1>4, <1>13, <2>1, <2>5, <2>6 DEF FlowIsExact, Features
  <2> QED BY <2>4, <2>7
<1>14. ASSUME <<c, f>> \notin disturbed'
       PROVE  WireHoldsRest(c)' /\ FlowIsExact(c, f)'
  <2> DEFINE s == sent[c][f]
             w == wire[c]
  <2>1. /\ ConnectionInv(c) /\ <<c, f>> \notin disturbed
        /\ ExactFacts(c, f) /\ FlowIsExact(c, f) /\ WireHoldsRest(c)
    BY <1>1, <1>4, <1>14 DEF ConnectionInv, ExactFacts
  <2>2. /\ s \in Seq(Segments) /\ w \in Seq(Segments) /\ w # <<>> /\ IsRest(w, s)
        /\ missing[c] = {}
    BY <1>1, <1>2, <1>4, <2>1 DEF WireHoldsRest
  <2>3. /\ IsRest(Tail(w), s) /\ Len(s) - Len(w) + 1 \in 1 .. Len(s)
        /\ Len(s) - Len(Tail(w)) = Len(s) - Len(w) + 1
    BY <2>2, RestTail
  <2>4. WireHoldsRest(c)'
    <3>1. missing'[c] = {} BY <1>1, <2>2
    <3>2. IsRest(wire'[c], sent'[c][current'[c]]) BY <1>1, <1>4, <1>9, <2>3
    <3> QED BY <3>1, <3>2 DEF WireHoldsRest, IsRest
  <2>5. PICK n \in Nat : n = Len(s) - Len(w)
    <3>1. Len(s) \in Nat /\ Len(w) \in Nat /\ Len(w) <= Len(s) BY <2>2 DEF IsRest
    <3> HIDE DEF s, w
    <3>2. Len(s) - Len(w) \in Nat BY <3>1
    <3> QED BY <3>2, Zenon
  <2>6. /\ n + 1 \in 1 .. Len(s) /\ seg = s[n + 1]
        /\ st.flow = f /\ Consume(st, seg.len) = StateAfter(c, f, n + 1)
    <3>1. n = Seen(c, f) BY <1>4, <2>5 DEF Seen
    <3> HIDE DEF s
    <3> QED BY <1>1, <1>4, <2>1, <3>1, NextSegment DEF seg, st, s
  <2>7. st # Closed BY <2>6, Numbers
  <2>8. Seen(c, f) = n /\ Seen(c, f)' = n + 1
    <3>1. Seen(c, f) = n BY <1>4, <2>5 DEF Seen
    <3>2. Seen(c, f)' = Len(s) - Len(Tail(w))
      <4>1. f = current'[c] /\ sent'[c][f] = s /\ wire'[c] = Tail(w) BY <1>1, <1>4, <1>9
      <4> HIDE DEF s, w
      <4> QED BY <4>1 DEF Seen
    <3> QED BY <2>3, <2>5, <3>1, <3>2
  <2>9. packets'[c][f] = Features(c, f, n + 1)
    <3>1. packets'[c][f] = Added(f) BY <1>9, <2>6, <2>7
    <3>2. packets[c][f] = SubSeq(s, 1, IF n < FeaturePacketCount THEN n ELSE FeaturePacketCount)
      BY <2>1, <2>8 DEF FlowIsExact, Features
    <3>3. n < Len(s) BY <2>2, <2>6
    <3>4. status[c][f] \in {"absent", "default", "pending"} BY <1>2
    <3>5. status[c][f] = "pending" => Len(packets[c][f]) >= FeaturePacketCount
      BY <2>1 DEF ExactFacts
    <3>6. Added(f) = SubSeq(s, 1, IF n + 1 < FeaturePacketCount THEN n + 1 ELSE FeaturePacketCount)
      BY <2>2, <2>6, <3>2, <3>3, <3>4, <3>5, NextFeature, ZenonT(60) DEF Added
    <3> QED BY <3>1, <3>6 DEF Features
  <2>10. state'[c] = StateAfter(c, f, n + 1) BY <1>9, <2>6, <2>7
  <2>11. /\ Features(c, f, n + 1)' = Features(c, f, n + 1)
         /\ StateAfter(c, f, n + 1)' = StateAfter(c, f, n + 1)
    BY <1>1 DEF Features, StateAfter, TotalBytes
  <2>12. FlowIsExact(c, f)' BY <2>8, <2>9, <2>10, <2>11 DEF FlowIsExact
  <2> QED BY <2>4, <2>12
<1>15. ASSUME NEW g \in Flows
       PROVE  ExactFacts(c, g)' /\ (<<c, g>> \notin disturbed' => FlowIsExact(c, g)')
  <2>1. f = current'[c] BY <1>1, <1>4
  <2> QED BY <1>12, <1>13, <1>14, <2>1 DEF ExactFacts
<1>16. ConnectionInv(c)' BY <1>11, <1>15 DEF ConnectionInv
<1> QED BY <1>8, <1>16

\* No flow has begun.
LEMMA InitExact == Init => \A c \in Connections : ConnectionInv(c)
<1> SUFFICES ASSUME Init, NEW c \in Connections PROVE ConnectionInv(c)
  OBVIOUS
<1>1. current[c] = 0 /\ state[c].flow = 0 BY Numbers DEF Init
<1>2. ASSUME NEW f \in Flows PROVE ExactFacts(c, f) /\ FlowIsExact(c, f)
  <2>1. /\ f # 0 /\ sent[c][f] = <<>> /\ packets[c][f] = <<>> /\ status[c][f] = "absent"
    BY Numbers DEF Init
  <2>2. ExactFacts(c, f) BY <1>1, <2>1 DEF ExactFacts, Contiguous
  <2>3. FeaturePacketCount \in Nat \ {0} /\ Len(<<>>) = 0 BY SizesAssumption
  <2>4. Seen(c, f) = 0 BY <1>1, <2>1, <2>3 DEF Seen
  <2>5. Features(c, f, 0) = <<>> BY <2>1, <2>3 DEF Features
  <2> QED BY <1>1, <2>1, <2>2, <2>4, <2>5 DEF FlowIsExact
<1> QED BY <1>1, <1>2 DEF ConnectionInv

\* Nothing changes on any connection.
LEMMA StutterExact ==
  ASSUME \A d \in Connections : ConnectionInv(d), UNCHANGED vars
  PROVE  \A d \in Connections : ConnectionInv(d)'
  BY OtherExact DEF vars, senderVars, trackerVars, countVars, ghostVars

\* The inductive invariant: the order of what is under way, and on every
\* connection the exactness of the flows that nothing has disturbed.
THEOREM Invariant == Spec => []IndInv
<1>1. Init => IndInv BY InitInv, InitExact DEF IndInv
<1>2. IndInv /\ OrderInv' /\ [Next]_vars => IndInv'
  <2> SUFFICES ASSUME IndInv, OrderInv', [Next]_vars
               PROVE  \A d \in Connections : ConnectionInv(d)'
    BY DEF IndInv
  <2>1. OrderInv /\ \A d \in Connections : ConnectionInv(d) BY DEF IndInv
  <2>2. CASE UNCHANGED vars BY <2>1, <2>2, StutterExact
  <2>3. ASSUME NEW c \in Connections, StartFlow(c)
        PROVE  \A d \in Connections : ConnectionInv(d)'
    BY <2>1, <2>3, StartFlowExact
  <2>4. ASSUME NEW c \in Connections, NEW len \in 1 .. MaxSegment, SendSegment(c, len)
        PROVE  \A d \in Connections : ConnectionInv(d)'
    BY <2>1, <2>4, SendSegmentExact
  <2>5. ASSUME NEW c \in Connections,
               \/ DropSegment(c) \/ LoseEvent(c) \/ Duplicate(c)
               \/ \E seg \in missing[c] : Retransmit(c, seg)
        PROVE  \A d \in Connections : ConnectionInv(d)'
    BY <2>1, <2>5, DisturbanceExact
  <2>6. ASSUME NEW c \in Connections, ProcessEvent(c)
        PROVE  \A d \in Connections : ConnectionInv(d)'
    BY <2>1, <2>6, ProcessEventExact
  <2> QED BY <2>2, <2>3, <2>4, <2>5, <2>6 DEF Next
<1> QED BY <1>1, <1>2, Order, PTL DEF Spec

\* process_event gives a flow none of whose segments was dropped, repeated or
\* missed its first FeaturePacketCount segments and no others, and closes its
\* state with its last byte, whatever happened to the flows before it.
THEOREM Exact == Spec => []UndisturbedFlowIsExact
<1>1. IndInv => UndisturbedFlowIsExact BY DEF IndInv, ConnectionInv, UndisturbedFlowIsExact
<1> QED BY <1>1, Invariant, PTL
=============================================================================
