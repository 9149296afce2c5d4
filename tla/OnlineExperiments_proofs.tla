---------------------- MODULE OnlineExperiments_proofs ----------------------
(***************************************************************************)
(* Proofs about OnlineExperiments, for any number of runs, requests and    *)
(* capture points, wherever the hosts are attached.                        *)
(***************************************************************************)
EXTENDS OnlineExperiments, FiniteSetTheorems, WellFoundedInduction, TLAPS

-----------------------------------------------------------------------------
(* Numbers, sequences and finite sets. *)

\* CacheUpdated is the time of some row, and no row is older.
LEMMA MinFacts ==
  ASSUME NEW S \in SUBSET Nat, S # {}
  PROVE  /\ Min(S) \in S
         /\ \A n \in S : Min(S) <= n
<1> DEFINE R == OpToRel(<, Nat)
<1>1. IsWellFoundedOn(R, Nat) BY NatLessThanWellFounded
<1>2. \E m \in S : \A n \in S : ~ (<<n, m>> \in R) BY <1>1, WFMin
<1>3. PICK m \in S : \A n \in S : <<n, m>> \notin R BY <1>2
<1>4. \A n \in S : <<n, m>> \in R <=> n < m BY DEF OpToRel
<1> HIDE DEF R
<1>5. \A n \in S : ~ (n < m) BY <1>3, <1>4, Zenon
<1>6. \A n \in S : m <= n BY <1>5
<1> QED BY <1>6 DEF Min

\* The id an XADD returned is the largest in the stream.
LEMMA MaxFacts ==
  ASSUME NEW S \in SUBSET Nat, NEW n \in S, \A i \in S : i <= n
  PROVE  Max(S) = n
<1>1. \A i \in S : n >= i OBVIOUS
<1>2. Max(S) \in S /\ \A i \in S : Max(S) >= i BY <1>1 DEF Max
<1>3. Max(S) \in Nat /\ n \in Nat /\ Max(S) >= n /\ n >= Max(S) BY <1>1, <1>2
<1> QED BY <1>3

\* n rows for different ids that are at most n leave none of them out.
LEMMA Pigeonhole ==
  ASSUME NEW n \in Nat, NEW f \in [1 .. n -> 1 .. n],
         \A i, j \in 1 .. n : f[i] = f[j] => i = j,
         NEW k \in 1 .. n
  PROVE  \E i \in 1 .. n : f[i] = k
<1>1. f \in Injection(1 .. n, 1 .. n) BY DEF Injection, IsInjective
<1>2. IsFiniteSet(1 .. n) BY FS_Interval
<1>3. f \in Surjection(1 .. n, 1 .. n) BY <1>1, <1>2, FS_Injection
<1> QED BY <1>3 DEF Surjection

\* What XADD, a result or a row of a log does to a sequence.
LEMMA AppendFacts ==
  ASSUME NEW S, NEW s \in Seq(S), NEW e \in S
  PROVE  /\ Append(s, e) \in Seq(S)
         /\ Len(s) \in Nat
         /\ Len(Append(s, e)) = Len(s) + 1
         /\ DOMAIN s = 1 .. Len(s)
         /\ DOMAIN Append(s, e) = 1 .. Len(s) + 1
         /\ Append(s, e)[Len(s) + 1] = e
         /\ \A i \in 1 .. Len(s) : Append(s, e)[i] = s[i]
  OBVIOUS

\* What handling a result does to the inbox.
LEMMA TailFacts ==
  ASSUME NEW S, NEW s \in Seq(S), s # <<>>
  PROVE  /\ Tail(s) \in Seq(S)
         /\ Head(s) \in S
         /\ Head(s) = s[1]
         /\ 1 \in DOMAIN s
         /\ DOMAIN s = 1 .. Len(s)
         /\ DOMAIN Tail(s) = 1 .. Len(s) - 1
         /\ \A i \in 1 .. Len(s) - 1 : Tail(s)[i] = s[i + 1] /\ i + 1 \in DOMAIN s
  OBVIOUS

\* What reading a stream up to a count returns.
LEMMA SubSeqFacts ==
  ASSUME NEW S, NEW s \in Seq(S), NEW m \in Nat, m <= Len(s)
  PROVE  /\ DOMAIN SubSeq(s, 1, m) = 1 .. m
         /\ \A i \in 1 .. m : SubSeq(s, 1, m)[i] = s[i]
  OBVIOUS

\* A sequence over a set is one over any larger set.
LEMMA SeqMonotone ==
  ASSUME NEW S, NEW T, S \subseteq T, NEW s \in Seq(S)
  PROVE  s \in Seq(T)
  OBVIOUS

\* A row that is written adds its flow to those with a row.
LEMMA ToSetAppend ==
  ASSUME NEW S, NEW s \in Seq(S), NEW e \in S
  PROVE  ToSet(Append(s, e)) = ToSet(s) \cup {e}
<1>1. \A x \in ToSet(s) : x \in ToSet(Append(s, e)) BY AppendFacts DEF ToSet
<1>2. e \in ToSet(Append(s, e)) BY AppendFacts DEF ToSet
<1>3. \A x \in ToSet(Append(s, e)) : x \in ToSet(s) \cup {e} BY AppendFacts DEF ToSet
<1> QED BY <1>1, <1>2, <1>3

\* The parts of the types that the steps below need again and again.
LEMMA Types ==
  ASSUME TypeOK
  PROVE  /\ exp \in Nat /\ clock \in Nat
         /\ Len(stream) \in Nat
         /\ DOMAIN stream = Ids
         /\ \A id \in Ids : stream[id] \in Flows
         /\ \A f \in Flows : /\ f[1] \in Experiments
                             /\ f[2] \in Keys
                             /\ f[2][1] \in Requests
                             /\ f = <<f[1], f[2]>>
         /\ up /\ exp # 0 => \A k \in Keys : <<exp, k>> \in Flows
  BY BoundsAssumption DEF TypeOK, Flows, Keys, Experiments, Ids

\* What a row of a log names.
LEMMA LogTypes ==
  ASSUME TypeOK
  PROVE  /\ DOMAIN log = 1 .. Len(log)
         /\ \A i \in DOMAIN log : /\ log[i].id \in answered
                                  /\ log[i].id \in Ids
                                  /\ log[i].at \in 1 .. clock
                                  /\ log[i].writer \in 1 .. exp
                                  /\ log[i].at \in Nat
                                  /\ stream[log[i].id] \in Flows
<1>1. DOMAIN log = 1 .. Len(log) BY DEF TypeOK
<1>2. \A i \in DOMAIN log : log[i] \in [id : answered, at : 1 .. clock, writer : 1 .. exp]
  <2> DEFINE Rows == [id : answered, at : 1 .. clock, writer : 1 .. exp]
  <2>1. log \in Seq(Rows) BY DEF TypeOK
  <2> HIDE DEF Rows
  <2>2. \A i \in DOMAIN log : log[i] \in Rows BY <2>1
  <2> QED BY <2>2 DEF Rows
<1>3. clock \in Nat /\ answered \subseteq Ids BY DEF TypeOK
<1> QED BY <1>1, <1>2, <1>3, Types

\* What waits in an inbox, and what has a row.
LEMMA IdTypes ==
  ASSUME TypeOK
  PROVE  /\ \A p \in Points : \A i \in DOMAIN inbox[p] : inbox[p][i] \in answered /\ inbox[p][i] \in Ids
         /\ \A i \in DOMAIN rows : rows[i] \in Ids
         /\ ToSet(rows) \subseteq Ids
         /\ WithRow \subseteq Flows
<1>1. \A p \in Points : \A i \in DOMAIN inbox[p] : inbox[p][i] \in answered /\ inbox[p][i] \in Ids
  BY DEF TypeOK
<1>2. \A i \in DOMAIN rows : rows[i] \in Ids BY DEF TypeOK
<1>3. ToSet(rows) \subseteq Ids BY <1>2 DEF ToSet
<1>4. WithRow \subseteq Flows BY <1>3, Types DEF WithRow
<1> QED BY <1>1, <1>2, <1>3, <1>4

-----------------------------------------------------------------------------
(* The steps of main.py. *)

\* What a subscriber holds, and the rows its process wrote since a label, are
\* the same when the log and what it names are.
LEMMA SinceKept ==
  ASSUME TypeOK, UNCHANGED log, \A id \in Ids : stream'[id] = stream[id],
         NEW f \in Flows, labelledAt'[f] = labelledAt[f]
  PROVE  /\ Since(f)' = Since(f)
         /\ Logged(f)' <=> Logged(f)
<1>1. \A i \in DOMAIN log : stream'[log[i].id] = stream[log[i].id] BY LogTypes
<1>2. \A i \in DOMAIN log : RowPoint(log[i])' = RowPoint(log[i]) BY <1>1 DEF RowPoint
<1>3. Since(f)' = Since(f) BY <1>2 DEF Since
<1>4. \A i \in Since(f) : i \in DOMAIN log BY DEF Since
<1>5. Logged(f)' <=> Logged(f) BY <1>1, <1>3, <1>4 DEF Logged
<1> QED BY <1>3, <1>5

\* Nothing that HandlerFacts, LogFacts and LabelFacts speak of is changed.
LEMMA ResultsKept ==
  ASSUME IndInv, UNCHANGED <<exp, up, stopTime, subscriberVars, log, labelledAt>>,
         \A id \in Ids : stream'[id] = stream[id],
         carried \subseteq carried', answered \subseteq answered'
  PROVE  HandlerFacts' /\ LogFacts' /\ LabelFacts'
<1>1. /\ TypeOK
      /\ UNCHANGED <<exp, up, stopTime, subPc, got, updatedAt, log, labelledAt>>
  BY DEF IndInv, subscriberVars
<1>2. \A i \in DOMAIN log : /\ stream'[log[i].id] = stream[log[i].id]
                            /\ RowPoint(log[i])' = RowPoint(log[i])
  BY <1>1, LogTypes DEF RowPoint
<1>3. \A p \in Points : subPc[p] \in {"stamp", "append"} =>
        got[p] \in Ids /\ stream'[got[p]] = stream[got[p]]
  BY <1>1 DEF IndInv, HandlerFacts, TypeOK
<1>4. HandlerFacts'
  <2>1. \A p \in Points : subPc'[p] \in {"stamp", "append"} =>
          /\ got'[p] \in answered'
          /\ Home[stream'[got'[p]][2]] = p
          /\ \/ stream'[got'[p]][1] = exp' /\ labelledAt'[stream'[got'[p]]] # 0
             \/ stream'[got'[p]][1] # exp' /\ got'[p] \in carried'
    BY <1>1, <1>3 DEF IndInv, HandlerFacts
  <2>2. ASSUME NEW p \in Points, subPc'[p] = "append"
        PROVE  /\ updatedAt'[p] # 0
               /\ stream'[got'[p]][1] = exp' => labelledAt'[stream'[got'[p]]] <= updatedAt'[p]
               /\ \A q \in Requests : stream'[got'[p]][1] # exp' =>
                    stopTime'[<<stream'[got'[p]][1], q>>] < updatedAt'[p]
               /\ \A i \in DOMAIN log' :
                    log'[i].writer = exp' /\ RowPoint(log[i])' = p => log'[i].at < updatedAt'[p]
    BY <1>1, <1>2, <1>3, <2>2 DEF IndInv, HandlerFacts
  <2>3. ~up' => \A p \in Points : subPc'[p] = "listen" BY <1>1 DEF IndInv, HandlerFacts
  <2> QED BY <1>1, <2>1, <2>2, <2>3 DEF HandlerFacts, RowPoint
<1>5. LogFacts' BY <1>1, <1>2 DEF IndInv, LogFacts
<1>6. LabelFacts'
  <2>1. ASSUME NEW f \in Flows, labelledAt[f] # 0 PROVE Logged(f)' \/ Unlogged(f)'
    <3>1. Since(f)' = Since(f) /\ (Logged(f)' <=> Logged(f)) BY <1>1, SinceKept
    <3>2. Logged(f) \/ Unlogged(f) BY <2>1 DEF IndInv, LabelFacts
    <3>3. f[2] \in Keys /\ Home[f[2]] \in Points BY <1>1, Types, HomeAssumption
    <3>4. ASSUME Unlogged(f) PROVE Unlogged(f)'
      BY <1>1, <1>3, <3>1, <3>3, <3>4 DEF Unlogged
    <3> QED BY <3>1, <3>2, <3>4
  <2> QED BY <1>1, <2>1 DEF LabelFacts
<1> QED BY <1>4, <1>5, <1>6

\* What was open is now carried.
LEMMA StartExperimentInv ==
  ASSUME IndInv, StartExperiment
  PROVE  IndInv'
<1>1. TypeOK'
  <2>1. TypeOK BY DEF IndInv
  <2>2. exp \in Nat /\ clock \in Nat BY <2>1, Types
  <2>3. exp' \in 0 .. MaxExperiments /\ up' \in BOOLEAN /\ clock' \in Nat
    BY <2>1, BoundsAssumption DEF TypeOK, StartExperiment
  <2>4. stopTime' \in [Experiments \X Requests -> 0 .. clock'] /\ labelledAt' \in [Flows -> 0 .. clock']
    BY <2>1, <2>2 DEF TypeOK, StartExperiment
  <2>5. log' \in Seq([id : answered', at : 1 .. clock', writer : 1 .. exp'])
    <3>1. [id : answered, at : 1 .. clock, writer : 1 .. exp] \subseteq
             [id : answered', at : 1 .. clock', writer : 1 .. exp']
      BY <2>2 DEF StartExperiment, redisVars
    <3>2. log \in Seq([id : answered, at : 1 .. clock, writer : 1 .. exp]) BY <2>1 DEF TypeOK
    <3>3. log \in Seq([id : answered', at : 1 .. clock', writer : 1 .. exp'])
      BY <3>1, <3>2, SeqMonotone
    <3> QED BY <3>3 DEF StartExperiment
  <2>6. carried' \subseteq Ids' BY <2>1 DEF TypeOK, StartExperiment, Open, Ids, redisVars
  <2>7. updatedAt' \in [Points -> 0 .. clock'] BY <2>1, <2>2 DEF TypeOK, StartExperiment, subscriberVars
  <2> QED BY <2>1, <2>3, <2>4, <2>5, <2>6, <2>7
      DEF TypeOK, StartExperiment, Ids, publisherVars, subscriberVars, redisVars
<1>2. RunFacts'
  <2>1. exp \in Nat /\ (\A id \in Ids : stream[id][1] \in Nat) /\ \A f \in Flows : f[1] \in Nat
    BY Types DEF IndInv, Experiments
  <2> QED BY <2>1 DEF IndInv, RunFacts, StartExperiment, Ids, publisherVars, subscriberVars, redisVars
<1>3. AnswerFacts'
  BY DEF IndInv, AnswerFacts, RunFacts, StartExperiment, Ids, Open, publisherVars, subscriberVars, redisVars
<1>4. PublishFacts'
  <2>1. \A p \in Points : pubPc'[p] = "get"
    BY DEF IndInv, RunFacts, StartExperiment, publisherVars, subscriberVars
  <2>2. rows' = rows /\ status' = status /\ WithRow' = WithRow
    BY DEF StartExperiment, publisherVars, subscriberVars, redisVars, WithRow
  <2> QED BY <2>1, <2>2 DEF IndInv, PublishFacts
<1>5. LogFacts' BY DEF IndInv, LogFacts, StartExperiment, redisVars
<1>6. HandlerFacts'
  BY DEF IndInv, HandlerFacts, StartExperiment, subscriberVars
<1>7. LabelFacts'
  <2>1. TypeOK /\ exp' = exp + 1 /\ exp \in Nat /\ UNCHANGED <<stream, log, labelledAt, subscriberVars>>
    BY Types DEF IndInv, StartExperiment, redisVars
  <2>2. ASSUME NEW f \in Flows, labelledAt[f] # 0 PROVE Logged(f)' \/ Unlogged(f)'
    <3>1. Since(f)' = Since(f) /\ (Logged(f)' <=> Logged(f)) BY <2>1, SinceKept
    <3>2. f[1] <= exp /\ f[1] \in Nat BY <2>1, <2>2, Types DEF IndInv, RunFacts, Experiments
    <3>3. f[1] # exp' BY <2>1, <3>2
    <3>4. Unlogged(f) => Unlogged(f)' BY <3>1, <3>3 DEF Unlogged
    <3> QED BY <2>2, <3>1, <3>4 DEF IndInv, LabelFacts
  <2> QED BY <2>1, <2>2 DEF LabelFacts
<1> QED BY <1>1, <1>2, <1>3, <1>4, <1>5, <1>6, <1>7 DEF IndInv

\* What was in an inbox is forgotten.
LEMMA StopExperimentInv ==
  ASSUME IndInv, StopExperiment
  PROVE  IndInv'
<1>1. TypeOK'
  <2>1. inbox' \in [Points -> Seq(answered')] BY DEF StopExperiment
  <2>2. /\ pubPc' \in [Points -> {"get", "xadd", "latency"}]
        /\ hand' \in [Points -> Keys \cup {NoKey}]
    BY DEF StopExperiment, EndProcesses
  <2>3. /\ subPc' \in [Points -> {"listen", "stamp", "append", "ended"}]
        /\ got' \in [Points -> {0} \cup answered']
        /\ updatedAt' \in [Points -> 0 .. clock']
    BY Types DEF IndInv, StopExperiment, EndProcesses
  <2> QED BY <2>1, <2>2, <2>3 DEF IndInv, TypeOK, StopExperiment, Ids
<1>2. RunFacts'
  BY DEF IndInv, TypeOK, RunFacts, StopExperiment, EndProcesses, Ids
<1>3. AnswerFacts'
  BY DEF IndInv, AnswerFacts, StopExperiment, Ids, Open
<1>4. PublishFacts'
  <2>1. \A p \in Points : pubPc'[p] = "get" BY DEF StopExperiment, EndProcesses
  <2>2. rows' = rows /\ status' = status /\ WithRow' = WithRow
    BY DEF StopExperiment, WithRow
  <2> QED BY <2>1, <2>2 DEF IndInv, PublishFacts
<1>5. LogFacts' BY DEF IndInv, LogFacts, StopExperiment
<1>6. HandlerFacts' BY DEF HandlerFacts, StopExperiment, EndProcesses
<1>7. LabelFacts'
  <2>1. TypeOK /\ ~up' /\ UNCHANGED <<stream, log, labelledAt>> BY DEF IndInv, StopExperiment
  <2>2. ASSUME NEW f \in Flows, labelledAt[f] # 0 PROVE Logged(f)' \/ Unlogged(f)'
    <3>1. Since(f)' = Since(f) /\ (Logged(f)' <=> Logged(f)) BY <2>1, SinceKept
    <3>2. Unlogged(f) => Unlogged(f)' BY <2>1, <3>1 DEF Unlogged
    <3> QED BY <2>2, <3>1, <3>2 DEF IndInv, LabelFacts
  <2> QED BY <2>1, <2>2 DEF LabelFacts
<1> QED BY <1>1, <1>2, <1>3, <1>4, <1>5, <1>6, <1>7 DEF IndInv

\* The completion is not later than any row still to come.
LEMMA FlowStopsInv ==
  ASSUME IndInv, NEW r \in Requests, FlowStops(r)
  PROVE  IndInv'
<1>1. TypeOK'
  <2>1. exp \in Experiments BY BoundsAssumption DEF IndInv, TypeOK, RunFacts, FlowStops, Experiments
  <2>2. stopTime' \in [Experiments \X Requests -> 0 .. clock'] BY <2>1, Types DEF IndInv, TypeOK, FlowStops
  <2> QED BY <2>2 DEF IndInv, TypeOK, FlowStops, Ids, publisherVars, subscriberVars, redisVars
<1>2. RunFacts'
  BY DEF IndInv, RunFacts, FlowStops, Ids, publisherVars, subscriberVars, redisVars
<1>3. AnswerFacts'
  BY DEF IndInv, AnswerFacts, FlowStops, Ids, Open, publisherVars, subscriberVars, redisVars
<1>4. PublishFacts'
  <2>1. rows' = rows /\ status' = status /\ WithRow' = WithRow
    BY DEF FlowStops, publisherVars, subscriberVars, redisVars, WithRow
  <2>2. \A p \in Points : SourceId(p)' = SourceId(p)
    BY DEF FlowStops, SourceId, Ids, publisherVars, subscriberVars, redisVars
  <2> QED BY <2>1, <2>2 DEF IndInv, PublishFacts, FlowStops, Ids, publisherVars, subscriberVars, redisVars
<1>5. LogFacts'
  <2>1. ASSUME NEW i \in DOMAIN log, stream[log[i].id][1] # log[i].writer, NEW q \in Requests
        PROVE  stopTime'[<<stream[log[i].id][1], q>>] < log[i].at
    <3>1. stream[log[i].id][1] <= log[i].writer BY DEF IndInv, LogFacts
    <3>2. stream[log[i].id][1] # exp
      BY <2>1, <3>1, LogTypes, Types DEF IndInv, Experiments
    <3>3. stopTime'[<<stream[log[i].id][1], q>>] = stopTime[<<stream[log[i].id][1], q>>]
      BY <3>2, LogTypes, Types DEF IndInv, TypeOK, FlowStops
    <3> QED BY <2>1, <3>3 DEF IndInv, LogFacts
  <2> QED BY <2>1 DEF IndInv, LogFacts, FlowStops, redisVars
<1>6. HandlerFacts'
  <2>1. ASSUME NEW p \in Points, subPc[p] = "append", stream[got[p]][1] # exp, NEW q \in Requests
        PROVE  stopTime'[<<stream[got[p]][1], q>>] = stopTime[<<stream[got[p]][1], q>>]
    <3>1. got[p] \in Ids BY <2>1 DEF IndInv, HandlerFacts, TypeOK
    <3>2. stream[got[p]][1] \in Experiments BY <3>1, Types DEF IndInv
    <3> QED BY <2>1, <3>2 DEF IndInv, TypeOK, FlowStops
  <2> QED BY <2>1 DEF IndInv, HandlerFacts, FlowStops, subscriberVars, redisVars, RowPoint
<1>7. LabelFacts'
  <2>1. TypeOK /\ UNCHANGED <<exp, up, stream, log, labelledAt, subPc, got>>
    BY DEF IndInv, FlowStops, subscriberVars, redisVars
  <2>2. ASSUME NEW f \in Flows, labelledAt[f] # 0 PROVE Logged(f)' \/ Unlogged(f)'
    <3>1. Since(f)' = Since(f) /\ (Logged(f)' <=> Logged(f)) BY <2>1, SinceKept
    <3>2. Unlogged(f) => Unlogged(f)' BY <2>1, <3>1 DEF Unlogged
    <3> QED BY <2>2, <3>1, <3>2 DEF IndInv, LabelFacts
  <2> QED BY <2>1, <2>2 DEF LabelFacts
<1> QED BY <1>1, <1>2, <1>3, <1>4, <1>5, <1>6, <1>7 DEF IndInv

-----------------------------------------------------------------------------
(* The steps of the capture processes. *)

\* The step changes nothing that AnswerFacts speaks of.
LEMMA AnswersKept ==
  ASSUME AnswerFacts, UNCHANGED <<exp, up, stream, answered, inbox, carried>>
  PROVE  AnswerFacts'
  BY DEF AnswerFacts, Open, Ids

\* A new entry is in nobody's hand.
LEMMA FirstPacketInv ==
  ASSUME IndInv, NEW k \in Keys, FirstPacket(k)
  PROVE  IndInv'
<1>1. TypeOK'
  <2>1. status' \in [Flows -> {"absent", "default", "pending"} \cup Classes]
    BY DEF IndInv, TypeOK, FirstPacket
  <2> QED BY <2>1 DEF IndInv, TypeOK, FirstPacket, Ids, publisherVars, subscriberVars, redisVars
<1>2. RunFacts' BY DEF IndInv, RunFacts, FirstPacket, Ids, publisherVars, subscriberVars, redisVars
<1>3. AnswerFacts' BY AnswersKept DEF IndInv, FirstPacket, redisVars
<1>4. PublishFacts'
  <2>1. rows' = rows /\ WithRow' = WithRow
    BY DEF FirstPacket, redisVars, WithRow
  <2>2. \A p \in Points : SourceId(p)' = SourceId(p)
    BY DEF FirstPacket, SourceId, Ids, publisherVars, redisVars
  <2>3. \A f \in Flows : status[f] \in {"pending"} \cup Classes => status'[f] = status[f]
    BY DEF IndInv, TypeOK, FirstPacket, Classes
  <2>4. \A p \in Points : pubPc[p] # "get" => <<exp, hand[p]>> \in Flows
    BY Types DEF IndInv, RunFacts, FirstPacket, PublishFacts, publisherVars
  <2> QED BY <2>1, <2>2, <2>3, <2>4, IdTypes
      DEF IndInv, PublishFacts, FirstPacket, Ids, publisherVars, subscriberVars, redisVars
<1>5. HandlerFacts' /\ LogFacts' /\ LabelFacts' BY ResultsKept DEF FirstPacket, redisVars
<1> QED BY <1>1, <1>2, <1>3, <1>4, <1>5 DEF IndInv

\* The publisher of the point takes a flow whose publish is not confirmed.
LEMMA ReadyInv ==
  ASSUME IndInv, NEW k \in Keys, Ready(k)
  PROVE  IndInv'
<1> DEFINE q == Home[k]
           f == <<exp, k>>
<1>1. q \in Points /\ f \in Flows BY HomeAssumption, Types DEF IndInv, RunFacts, Ready
<1>2. TypeOK'
  <2>1. /\ status' \in [Flows -> {"absent", "default", "pending"} \cup Classes]
        /\ pubPc' \in [Points -> {"get", "xadd", "latency"}]
        /\ hand' \in [Points -> Keys \cup {NoKey}]
    BY <1>1 DEF IndInv, TypeOK, Ready
  <2> QED BY <2>1 DEF IndInv, TypeOK, Ready, Ids, subscriberVars, redisVars
<1>3. RunFacts' BY DEF IndInv, RunFacts, Ready, Ids, redisVars
<1>4. AnswerFacts' BY AnswersKept DEF IndInv, Ready, redisVars
<1>5. PublishFacts'
  <2>1. rows' = rows /\ WithRow' = WithRow /\ exp' = exp /\ stream' = stream /\ Ids' = Ids
    BY DEF Ready, redisVars, WithRow, Ids
  <2>2. \A p \in Points : p # q => /\ pubPc'[p] = pubPc[p]
                                   /\ hand'[p] = hand[p]
                                   /\ SourceId(p)' = SourceId(p)
    BY <2>1 DEF IndInv, TypeOK, Ready, SourceId
  <2>3. pubPc'[q] = "xadd" /\ hand'[q] = k BY <1>1 DEF IndInv, TypeOK, Ready
  <2>4. status'[f] = "pending" /\ \A g \in Flows \ {f} : status'[g] = status[g]
    BY <1>1 DEF IndInv, TypeOK, Ready
  <2>5. f \notin WithRow BY DEF IndInv, PublishFacts, Ready, Classes
  <2>6. ASSUME NEW p \in Points, p # q, pubPc[p] # "get"
        PROVE  <<exp, hand[p]>> \in Flows \ {f}
    BY <2>6, Types DEF IndInv, RunFacts, PublishFacts, Ready
  <2>7. \A p \in Points : pubPc'[p] # "get" =>
           /\ hand'[p] \in Keys
           /\ Home[hand'[p]] = p
           /\ status'[<<exp, hand'[p]>>] \in {"pending"} \cup Classes
           /\ <<exp, hand'[p]>> \notin WithRow
    BY <2>2, <2>3, <2>4, <2>5, <2>6 DEF IndInv, PublishFacts
  <2>8. \A p \in Points : pubPc'[p] = "latency" =>
           /\ SourceId(p)' \in Ids
           /\ stream[SourceId(p)'] = <<exp, hand'[p]>>
    BY <2>2, <2>3 DEF IndInv, PublishFacts
  <2>9. \A g \in WithRow : status'[g] \in {"pending"} \cup Classes
    BY <2>4, <2>5, IdTypes DEF IndInv, PublishFacts
  <2> QED BY <2>1, <2>7, <2>8, <2>9 DEF IndInv, PublishFacts
<1>6. HandlerFacts' /\ LogFacts' /\ LabelFacts' BY ResultsKept DEF Ready, redisVars
<1> QED BY <1>2, <1>3, <1>4, <1>5, <1>6 DEF IndInv

\* What a publisher holds, and that no other one holds it.
LEMMA HandFacts ==
  ASSUME IndInv, NEW p \in Points, pubPc[p] # "get"
  PROVE  /\ up /\ exp # 0
         /\ hand[p] \in Keys
         /\ <<exp, hand[p]>> \in Flows
         /\ <<exp, hand[p]>> \notin WithRow
         /\ status[<<exp, hand[p]>>] \in {"pending"} \cup Classes
         /\ \A q \in Points : q # p /\ pubPc[q] # "get" =>
              /\ <<exp, hand[q]>> # <<exp, hand[p]>>
              /\ <<exp, hand[q]>> \in Flows
<1>1. up /\ exp # 0 BY DEF IndInv, RunFacts
<1>2. \A q \in Points : pubPc[q] # "get" => hand[q] \in Keys /\ Home[hand[q]] = q
  BY DEF IndInv, PublishFacts
<1>3. \A q \in Points : pubPc[q] # "get" => <<exp, hand[q]>> \in Flows
  BY <1>1, <1>2, Types DEF IndInv
<1>4. /\ <<exp, hand[p]>> \notin WithRow
      /\ status[<<exp, hand[p]>>] \in {"pending"} \cup Classes
  BY DEF IndInv, PublishFacts
<1>5. \A q \in Points : q # p /\ pubPc[q] # "get" => <<exp, hand[q]>> # <<exp, hand[p]>>
  BY <1>2
<1> QED BY <1>1, <1>2, <1>3, <1>4, <1>5

\* The new id is the one its publisher goes on with.
LEMMA AddRequestInv ==
  ASSUME IndInv, NEW p \in Points, AddRequest(p)
  PROVE  IndInv'
<1> DEFINE f == <<exp, hand[p]>>
           n == Len(stream) + 1
<1>1. /\ TypeOK /\ f \in Flows
      /\ stream \in Seq(Flows) /\ stream' = Append(stream, f)
      /\ exp \in Nat /\ Len(stream) \in Nat
  BY HandFacts, Types DEF IndInv, AddRequest, TypeOK
<1>2. /\ stream' \in Seq(Flows)
      /\ Ids' = Ids \cup {n}
      /\ n \notin Ids
      /\ \A id \in Ids : stream'[id] = stream[id]
      /\ stream'[n] = f
      /\ \A id \in Ids : id < n
      /\ Ids \subseteq Nat
  BY <1>1, AppendFacts DEF Ids
<1>3. WithRow' = WithRow
  BY <1>1, <1>2, IdTypes DEF WithRow, AddRequest
<1>4. TypeOK'
  <2>1. rows' \in Seq(Ids') BY <1>1, <1>2, SeqMonotone DEF TypeOK, AddRequest
  <2>2. pubPc' \in [Points -> {"get", "xadd", "latency"}] BY <1>1 DEF TypeOK, AddRequest
  <2>3. answered' \subseteq Ids' /\ carried' \subseteq Ids' BY <1>1, <1>2 DEF TypeOK, AddRequest
  <2> QED BY <1>1, <1>2, <2>1, <2>2, <2>3 DEF TypeOK, AddRequest, subscriberVars
<1>5. RunFacts'
  <2>1. \A id \in Ids : stream[id][1] <= exp BY DEF IndInv, RunFacts
  <2>2. \A id \in Ids' : stream'[id][1] <= exp
    <3>1. stream'[n][1] = exp BY <1>2
    <3>2. stream'[n][1] <= exp BY <1>1, <3>1
    <3> QED BY <1>2, <2>1, <3>2
  <2>3. up /\ exp # 0 BY HandFacts DEF AddRequest
  <2> QED BY <2>2, <2>3 DEF IndInv, RunFacts, AddRequest
<1>6. AnswerFacts'
  <2>1. \A id \in Open' : stream'[id][1] = exp \/ id \in carried
    <3>1. up BY HandFacts DEF AddRequest
    <3>2. Open' = (Ids \cup {n}) \ answered BY <1>2 DEF Open, AddRequest
    <3>3. stream'[n][1] = exp BY <1>2
    <3>4. \A id \in Open : stream[id][1] = exp \/ id \in carried
      BY <3>1 DEF IndInv, AnswerFacts
    <3> QED BY <1>2, <3>2, <3>3, <3>4 DEF Open
  <2>2. \A q \in Points : \A i \in DOMAIN inbox[q] :
          /\ stream'[inbox[q][i]][1] = exp \/ inbox[q][i] \in carried
          /\ Home[stream'[inbox[q][i]][2]] = q
    <3>1. \A q \in Points : \A i \in DOMAIN inbox[q] : inbox[q][i] \in Ids BY <1>1, IdTypes
    <3>2. \A q \in Points : \A i \in DOMAIN inbox[q] : stream'[inbox[q][i]] = stream[inbox[q][i]]
      BY <1>2, <3>1
    <3> QED BY <3>2 DEF IndInv, AnswerFacts
  <2> QED BY <2>1, <2>2 DEF AnswerFacts, AddRequest
<1>7. PublishFacts'
  <2>1. \A q \in Points : q # p => pubPc'[q] = pubPc[q] BY <1>1 DEF TypeOK, AddRequest
  <2>2. pubPc[p] = "xadd" /\ pubPc'[p] = "latency" BY <1>1 DEF TypeOK, AddRequest
  <2>3. exp' = exp /\ hand' = hand /\ status' = status /\ rows' = rows BY DEF AddRequest
  <2>4. SourceId(p)' = n
    <3>1. SourceId(p)' = Max({id \in Ids' : stream'[id] = f}) BY <2>3 DEF SourceId
    <3> DEFINE S == {id \in Ids' : stream'[id] = f}
    <3>2. n \in Nat /\ \A id \in Ids' : id \in Nat /\ id <= n BY <1>1, <1>2
    <3> HIDE DEF n
    <3>3. n \in S /\ S \subseteq Nat /\ \A id \in S : id <= n BY <1>2, <3>2
    <3> HIDE DEF S
    <3>4. Max(S) = n BY <3>3, MaxFacts
    <3> QED BY <3>1, <3>4 DEF S
  <2>5. ASSUME NEW q \in Points, q # p, pubPc[q] # "get" PROVE SourceId(q)' = SourceId(q)
    <3>1. <<exp, hand[q]>> # f BY <2>2, <2>5, HandFacts
    <3>2. {id \in Ids' : stream'[id] = <<exp, hand[q]>>} = {id \in Ids : stream[id] = <<exp, hand[q]>>}
      BY <1>2, <3>1
    <3> QED BY <2>3, <3>2 DEF SourceId
  <2>6. \A q \in Points : pubPc'[q] = "latency" =>
           /\ SourceId(q)' \in Ids'
           /\ stream'[SourceId(q)'] = <<exp, hand[q]>>
    BY <1>2, <2>1, <2>4, <2>5, ZenonT(60) DEF IndInv, PublishFacts
  <2>7. \A q \in Points : pubPc'[q] # "get" => pubPc[q] # "get" BY <2>1, <2>2
  <2> QED BY <1>3, <2>3, <2>6, <2>7 DEF IndInv, PublishFacts
<1>8. HandlerFacts' /\ LogFacts' /\ LabelFacts' BY <1>2, ResultsKept DEF AddRequest
<1> QED BY <1>4, <1>5, <1>6, <1>7, <1>8 DEF IndInv

\* The id that has no row yet gets one.
LEMMA AddLatencyRowInv ==
  ASSUME IndInv, NEW p \in Points, AddLatencyRow(p)
  PROVE  IndInv'
<1> DEFINE f == <<exp, hand[p]>>
           s == SourceId(p)
<1>1. TypeOK /\ pubPc[p] = "latency" /\ rows' = Append(rows, s) BY DEF IndInv, AddLatencyRow
<1>2. s \in Ids /\ stream[s] = f /\ f \notin WithRow /\ f \in Flows
  BY <1>1, HandFacts DEF IndInv, PublishFacts
<1>3. rows \in Seq(Ids) /\ s \notin ToSet(rows) BY <1>1, <1>2 DEF TypeOK, WithRow
<1>4. /\ \A q \in Points \ {p} : pubPc'[q] = pubPc[q] /\ hand'[q] = hand[q]
      /\ pubPc'[p] = "get"
      /\ pubPc' \in [Points -> {"get", "xadd", "latency"}]
      /\ hand' \in [Points -> Keys \cup {NoKey}]
  BY <1>1 DEF TypeOK, AddLatencyRow, PublishReturns
<1>5. /\ rows' \in Seq(Ids)
      /\ DOMAIN rows = 1 .. Len(rows) /\ Len(rows) \in Nat
      /\ DOMAIN rows' = 1 .. Len(rows) + 1
      /\ rows'[Len(rows) + 1] = s
      /\ \A i \in DOMAIN rows : rows'[i] = rows[i]
  BY <1>1, <1>2, <1>3, AppendFacts
<1>6. WithRow' = WithRow \cup {f}
  <2>1. ToSet(rows') = ToSet(rows) \cup {s} BY <1>1, <1>2, <1>3, ToSetAppend
  <2> QED BY <1>2, <2>1 DEF WithRow, AddLatencyRow
<1>7. UNCHANGED <<exp, up, clock, stopTime, status, failures, subPc, got, updatedAt, stream, answered,
                  inbox, log, carried, labelledAt>> /\ Ids' = Ids
  BY DEF AddLatencyRow, subscriberVars, Ids
<1>8. TypeOK' BY <1>1, <1>4, <1>5, <1>7 DEF TypeOK
<1>9. RunFacts' BY <1>4, <1>7 DEF IndInv, RunFacts
<1>10. AnswerFacts' BY <1>7, AnswersKept DEF IndInv
<1>11. PublishFacts'
  <2>1. \A q \in Points \ {p} : SourceId(q)' = SourceId(q) BY <1>4, <1>7 DEF SourceId
  <2>2. \A q \in Points : pubPc'[q] # "get" =>
           /\ q # p
           /\ hand'[q] \in Keys
           /\ Home[hand'[q]] = q
           /\ status[<<exp, hand'[q]>>] \in {"pending"} \cup Classes
           /\ <<exp, hand'[q]>> \notin WithRow'
    BY <1>1, <1>4, <1>6, HandFacts, ZenonT(60) DEF IndInv, PublishFacts
  <2>3. \A q \in Points : pubPc'[q] = "latency" =>
           /\ SourceId(q)' \in Ids
           /\ stream[SourceId(q)'] = <<exp, hand'[q]>>
    BY <1>4, <2>1, <2>2 DEF IndInv, PublishFacts
  <2>4. status[f] \in {"pending"} \cup Classes BY <1>1, HandFacts
  <2>5. \A i \in DOMAIN rows : rows[i] # s BY <1>3 DEF ToSet
  <2>6. \A i, j \in DOMAIN rows' : rows'[i] = rows'[j] => i = j
    BY <1>5, <2>5 DEF IndInv, PublishFacts
  <2> QED BY <1>6, <1>7, <2>2, <2>3, <2>4, <2>6 DEF IndInv, PublishFacts
<1>12. HandlerFacts' /\ LogFacts' /\ LabelFacts' BY <1>7, ResultsKept DEF subscriberVars
<1> QED BY <1>8, <1>9, <1>10, <1>11, <1>12 DEF IndInv

\* The flow whose row was refused has no row.
LEMMA LatencyRowRefusedInv ==
  ASSUME IndInv, NEW p \in Points, LatencyRowRefused(p)
  PROVE  IndInv'
<1> DEFINE f == <<exp, hand[p]>>
<1>1. TypeOK /\ pubPc[p] = "latency" /\ f \in Flows /\ f \notin WithRow
  BY HandFacts DEF IndInv, LatencyRowRefused
<1>2. /\ \A q \in Points \ {p} : pubPc'[q] = pubPc[q] /\ hand'[q] = hand[q]
      /\ pubPc'[p] = "get"
      /\ pubPc' \in [Points -> {"get", "xadd", "latency"}]
      /\ hand' \in [Points -> Keys \cup {NoKey}]
  BY <1>1 DEF TypeOK, LatencyRowRefused, PublishReturns
<1>3. /\ status' \in [Flows -> {"absent", "default", "pending"} \cup Classes]
      /\ \A g \in Flows \ {f} : status'[g] = status[g]
  BY <1>1 DEF TypeOK, LatencyRowRefused
<1>4. UNCHANGED <<exp, up, clock, stopTime, subPc, got, updatedAt, stream, rows, answered, inbox, log,
                  carried, labelledAt>> /\ Ids' = Ids /\ WithRow' = WithRow
  BY DEF LatencyRowRefused, subscriberVars, redisVars, Ids, WithRow
<1>5. failures' \in 0 .. MaxFailures
  BY <1>1, BoundsAssumption DEF TypeOK, LatencyRowRefused
<1>6. TypeOK' BY <1>1, <1>2, <1>3, <1>4, <1>5 DEF TypeOK
<1>7. RunFacts' BY <1>2, <1>4 DEF IndInv, RunFacts
<1>8. AnswerFacts' BY <1>4, AnswersKept DEF IndInv
<1>9. PublishFacts'
  <2>1. \A q \in Points \ {p} : SourceId(q)' = SourceId(q) BY <1>2, <1>4 DEF SourceId
  <2>2. \A q \in Points : pubPc'[q] # "get" =>
           /\ q # p
           /\ hand'[q] \in Keys
           /\ Home[hand'[q]] = q
           /\ status'[<<exp, hand'[q]>>] \in {"pending"} \cup Classes
           /\ <<exp, hand'[q]>> \notin WithRow
    BY <1>1, <1>2, <1>3, HandFacts DEF IndInv, PublishFacts
  <2>3. \A q \in Points : pubPc'[q] = "latency" =>
           /\ SourceId(q)' \in Ids
           /\ stream[SourceId(q)'] = <<exp, hand'[q]>>
    BY <1>2, <2>1, <2>2 DEF IndInv, PublishFacts
  <2>4. \A g \in WithRow : status'[g] \in {"pending"} \cup Classes
    BY <1>1, <1>3, IdTypes DEF IndInv, PublishFacts
  <2> QED BY <1>4, <2>2, <2>3, <2>4 DEF IndInv, PublishFacts
<1>10. HandlerFacts' /\ LogFacts' /\ LabelFacts' BY <1>4, ResultsKept DEF subscriberVars
<1> QED BY <1>6, <1>7, <1>8, <1>9, <1>10 DEF IndInv

\* The next result for p, and the entry it is applied to.
LEMMA ResultFacts ==
  ASSUME IndInv, NEW p \in Points, ApplyResult(p)
  PROVE  LET id == Head(inbox[p])
             k == stream[id][2]
         IN /\ id \in answered /\ id \in Ids
            /\ k \in Keys
            /\ <<exp, k>> \in Flows
            /\ stream[id] \in Flows
            /\ stream[id][1] <= exp
            /\ stream[id][1] = exp => stream[id] = <<exp, k>>
            /\ stream[id][1] = exp \/ id \in carried
            /\ Home[k] = p
<1> DEFINE id == Head(inbox[p])
<1>1. inbox[p] \in Seq(answered) /\ inbox[p] # <<>> BY DEF IndInv, TypeOK, ApplyResult
<1>2. id \in answered /\ 1 \in DOMAIN inbox[p] /\ id = inbox[p][1] BY <1>1, TailFacts
<1>3. id \in Ids BY <1>2 DEF IndInv, TypeOK
<1>4. stream[id] \in Flows /\ stream[id][2] \in Keys /\ stream[id] = <<stream[id][1], stream[id][2]>>
  BY <1>3, Types DEF IndInv
<1>5. <<exp, stream[id][2]>> \in Flows BY <1>4, Types DEF IndInv, RunFacts, ApplyResult
<1>6. stream[id][1] <= exp BY <1>3 DEF IndInv, RunFacts
<1>7. (stream[id][1] = exp \/ id \in carried) /\ Home[stream[id][2]] = p
  BY <1>2 DEF IndInv, AnswerFacts
<1> QED BY <1>2, <1>3, <1>4, <1>5, <1>6, <1>7

\* Time passes.
LEMMA ClockMoves ==
  ASSUME TypeOK, clock' = clock + 1, UNCHANGED <<exp, stopTime, answered, log>>
  PROVE  /\ clock' \in Nat
         /\ stopTime' \in [Experiments \X Requests -> 0 .. clock']
         /\ log' \in Seq([id : answered', at : 1 .. clock', writer : 1 .. exp'])
         /\ 0 .. clock \subseteq 0 .. clock'
<1> DEFINE Rows(at) == [id : answered, at : 1 .. at, writer : 1 .. exp]
<1>1. clock \in Nat /\ clock' \in Nat BY Types
<1>2. 0 .. clock \subseteq 0 .. clock' BY <1>1
<1>3. stopTime' \in [Experiments \X Requests -> 0 .. clock'] BY <1>2 DEF TypeOK
<1>4. log \in Seq(Rows(clock)) /\ Rows(clock) \subseteq Rows(clock') BY <1>1 DEF TypeOK
<1>5. log \in Seq(Rows(clock'))
  <2> HIDE DEF Rows
  <2> QED BY <1>4, SeqMonotone
<1> QED BY <1>1, <1>2, <1>3, <1>5

\* A subscriber's step on its own leaves the publishers and the answers alone.
LEMMA PublishersKept ==
  ASSUME IndInv, UNCHANGED <<exp, up, status, publisherVars, redisVars, carried, labelledAt>>
  PROVE  RunFacts' /\ AnswerFacts' /\ PublishFacts'
<1>1. /\ UNCHANGED <<exp, up, status, pubPc, hand, stream, rows, answered, inbox, carried, labelledAt>>
      /\ Ids' = Ids /\ WithRow' = WithRow
  BY DEF publisherVars, redisVars, Ids, WithRow
<1>2. RunFacts' BY <1>1 DEF IndInv, RunFacts
<1>3. AnswerFacts' BY <1>1, AnswersKept DEF IndInv
<1>4. PublishFacts'
  <2>1. \A p \in Points : SourceId(p)' = SourceId(p) BY <1>1 DEF SourceId
  <2> QED BY <1>1, <2>1 DEF IndInv, PublishFacts
<1> QED BY <1>2, <1>3, <1>4

\* The first result for a flow labels it, and a later one changes nothing that
\* the rows are compared with.
LEMMA ApplyResultInv ==
  ASSUME IndInv, NEW p \in Points, ApplyResult(p)
  PROVE  IndInv'
<1> DEFINE id == Head(inbox[p])
           k == stream[id][2]
           f == <<exp, k>>
<1>1. TypeOK /\ up /\ inbox[p] # <<>> /\ subPc[p] = "listen" /\ exp \in Nat /\ clock \in Nat
  <2>1. TypeOK BY DEF IndInv
  <2>2. exp \in Nat /\ clock \in Nat BY <2>1, BoundsAssumption DEF TypeOK
  <2>3. up /\ inbox[p] # <<>> /\ subPc[p] = "listen" BY DEF ApplyResult
  <2> QED BY <2>1, <2>2, <2>3
<1>2. /\ id \in answered /\ id \in Ids /\ k \in Keys /\ f \in Flows /\ stream[id] \in Flows
      /\ stream[id][1] <= exp
      /\ stream[id][1] = exp => stream[id] = f
      /\ stream[id][1] = exp \/ id \in carried
      /\ Home[k] = p
  BY ResultFacts
<1>3. UNCHANGED <<exp, up, stopTime, pubPc, hand, failures, updatedAt, stream, rows, answered, log, carried>>
      /\ Ids' = Ids /\ WithRow' = WithRow /\ Open' = Open
  BY DEF ApplyResult, publisherVars, Ids, WithRow, Open
<1>4. /\ inbox' = [inbox EXCEPT ![p] = Tail(@)]
      /\ inbox' \in [Points -> Seq(answered)]
      /\ \A q \in Points : \A i \in DOMAIN inbox'[q] :
           \E j \in DOMAIN inbox[q] : inbox'[q][i] = inbox[q][j]
  <2>1. inbox' = [inbox EXCEPT ![p] = Tail(@)] BY DEF ApplyResult
  <2>2. inbox[p] \in Seq(answered) /\ inbox \in [Points -> Seq(answered)] BY <1>1 DEF TypeOK
  <2>3. /\ Tail(inbox[p]) \in Seq(answered)
        /\ \A i \in DOMAIN Tail(inbox[p]) : \E j \in DOMAIN inbox[p] : Tail(inbox[p])[i] = inbox[p][j]
    <3>1. /\ Tail(inbox[p]) \in Seq(answered)
          /\ DOMAIN Tail(inbox[p]) = 1 .. Len(inbox[p]) - 1
          /\ \A i \in 1 .. Len(inbox[p]) - 1 :
               Tail(inbox[p])[i] = inbox[p][i + 1] /\ i + 1 \in DOMAIN inbox[p]
      BY <1>1, <2>2, TailFacts
    <3> QED BY <3>1
  <2> QED BY <2>1, <2>2, <2>3
<1>5. AnswerFacts' BY <1>1, <1>3, <1>4 DEF IndInv, AnswerFacts
<1>6. CASE status[f] = "absent" /\ UNCHANGED <<clock, status, subPc, got, labelledAt>>
  <2>1. TypeOK' BY <1>1, <1>3, <1>4, <1>6 DEF TypeOK
  <2>2. \A q \in Points : SourceId(q)' = SourceId(q) BY <1>3 DEF SourceId
  <2>3. PublishFacts' BY <1>3, <1>6, <2>2 DEF IndInv, PublishFacts
  <2>4. HandlerFacts' /\ LogFacts' /\ LabelFacts'
    BY <1>3, <1>6, ResultsKept DEF subscriberVars
  <2>5. RunFacts' BY <1>1, <1>3, <1>6 DEF IndInv, RunFacts
  <2> QED BY <1>5, <2>1, <2>3, <2>4, <2>5 DEF IndInv
<1>7. CASE /\ status[f] # "absent"
           /\ clock' = clock + 1
           /\ status' = [status EXCEPT ![f] = Label[stream[id]]]
           /\ subPc' = [subPc EXCEPT ![p] = "stamp"]
           /\ got' = [got EXCEPT ![p] = id]
           /\ labelledAt' = [labelledAt EXCEPT ![f] =
                               IF @ = 0 /\ stream[id] = f THEN clock' ELSE @]
  <2>1. /\ status' \in [Flows -> {"absent", "default", "pending"} \cup Classes]
        /\ status'[f] \in Classes
        /\ \A g \in Flows \ {f} : status'[g] = status[g]
    BY <1>1, <1>2, <1>7, LabelAssumption DEF TypeOK, Classes
  <2>2. /\ labelledAt' \in [Flows -> 0 .. clock']
        /\ labelledAt'[f] = IF labelledAt[f] = 0 /\ stream[id] = f THEN clock' ELSE labelledAt[f]
        /\ \A g \in Flows \ {f} : labelledAt'[g] = labelledAt[g]
        /\ labelledAt[f] \in 0 .. clock
    <3>1. labelledAt \in [Flows -> 0 .. clock] /\ clock \in Nat /\ f \in Flows
      BY <1>1, <1>2 DEF TypeOK
    <3>2. clock' = clock + 1 /\ clock' \in 0 .. clock' /\ 0 .. clock \subseteq 0 .. clock'
      BY <1>7, <3>1
    <3> DEFINE v == IF labelledAt[f] = 0 /\ stream[id] = f THEN clock' ELSE labelledAt[f]
    <3>3. labelledAt' = [labelledAt EXCEPT ![f] = v] BY <1>7
    <3>4. v \in 0 .. clock' BY <3>1, <3>2
    <3>5. labelledAt'[f] = v BY <3>1, <3>3
    <3> HIDE DEF f, v
    <3>6. labelledAt' \in [Flows -> 0 .. clock'] BY <3>1, <3>2, <3>3, <3>4
    <3>7. \A g \in Flows \ {f} : labelledAt'[g] = labelledAt[g] BY <3>1, <3>3
    <3> QED BY <3>1, <3>5, <3>6, <3>7 DEF v
  <2>3. \A g \in Flows : labelledAt[g] # 0 => labelledAt'[g] = labelledAt[g] BY <2>2
  <2>4. /\ subPc' \in [Points -> {"listen", "stamp", "append", "ended"}]
        /\ got' \in [Points -> {0} \cup answered]
        /\ subPc'[p] = "stamp" /\ got'[p] = id
        /\ \A q \in Points : q # p => subPc'[q] = subPc[q] /\ got'[q] = got[q]
    BY <1>1, <1>2, <1>7 DEF TypeOK
  <2>5. TypeOK'
    <3>1. /\ clock' \in Nat /\ stopTime' \in [Experiments \X Requests -> 0 .. clock']
          /\ log' \in Seq([id : answered', at : 1 .. clock', writer : 1 .. exp'])
          /\ 0 .. clock \subseteq 0 .. clock'
      BY <1>1, <1>3, <1>7, ClockMoves
    <3>2. updatedAt' \in [Points -> 0 .. clock'] BY <1>1, <1>3, <3>1 DEF TypeOK
    <3> QED BY <1>1, <1>3, <1>4, <2>1, <2>2, <2>4, <3>1, <3>2 DEF TypeOK
  <2>6. RunFacts'
    <3>1. \A g \in Flows : labelledAt'[g] # 0 => g[1] <= exp
      <4>1. f[1] <= exp BY <1>1
      <4> HIDE DEF f
      <4> QED BY <2>2, <4>1 DEF IndInv, RunFacts
    <3> QED BY <1>1, <1>3, <3>1 DEF IndInv, RunFacts
  <2>7. PublishFacts'
    <3>1. \A q \in Points : SourceId(q)' = SourceId(q) BY <1>3 DEF SourceId
    <3>2. \A g \in Flows : status[g] \in {"pending"} \cup Classes
                             => status'[g] \in {"pending"} \cup Classes
      BY <2>1
    <3>3. \A q \in Points : pubPc[q] # "get" =>
             status'[<<exp, hand[q]>>] \in {"pending"} \cup Classes
      BY <3>2, HandFacts
    <3>4. \A g \in WithRow : status'[g] \in {"pending"} \cup Classes
      BY <1>1, <3>2, IdTypes DEF IndInv, PublishFacts
    <3> QED BY <1>3, <3>1, <3>3, <3>4 DEF IndInv, PublishFacts
  <2>8. HandlerFacts'
    <3>1. ASSUME NEW q \in Points, subPc'[q] \in {"stamp", "append"}
          PROVE  /\ got'[q] \in answered
                 /\ Home[stream[got'[q]][2]] = q
                 /\ \/ stream[got'[q]][1] = exp /\ labelledAt'[stream[got'[q]]] # 0
                    \/ stream[got'[q]][1] # exp /\ got'[q] \in carried
      <4>1. CASE q = p
        <5>1. got'[q] = id BY <2>4, <4>1
        <5>2. ASSUME stream[id][1] = exp PROVE labelledAt'[stream[id]] # 0
          <6>1. stream[id] = f /\ clock' # 0 BY <1>1, <1>2, <1>7, <5>2
          <6>2. labelledAt'[f] # 0
            <7> HIDE DEF f, id
            <7> QED BY <2>2, <6>1
          <6> QED BY <6>1, <6>2
        <5> QED BY <1>2, <4>1, <5>1, <5>2
      <4>2. CASE q # p
        <5>1. got'[q] = got[q] /\ subPc[q] \in {"stamp", "append"} BY <2>4, <3>1, <4>2
        <5>2. /\ got[q] \in answered
              /\ Home[stream[got[q]][2]] = q
              /\ \/ stream[got[q]][1] = exp /\ labelledAt[stream[got[q]]] # 0
                 \/ stream[got[q]][1] # exp /\ got[q] \in carried
          BY <5>1 DEF IndInv, HandlerFacts
        <5>3. stream[got[q]] \in Flows BY <1>1, <5>2, Types DEF TypeOK
        <5> QED BY <2>3, <5>1, <5>2, <5>3
      <4> QED BY <4>1, <4>2
    <3>2. ASSUME NEW q \in Points, subPc'[q] = "append"
          PROVE  /\ updatedAt[q] # 0
                 /\ stream[got'[q]][1] = exp => labelledAt'[stream[got'[q]]] <= updatedAt[q]
                 /\ \A r \in Requests : stream[got'[q]][1] # exp =>
                      stopTime[<<stream[got'[q]][1], r>>] < updatedAt[q]
                 /\ \A i \in DOMAIN log :
                      log[i].writer = exp /\ RowPoint(log[i]) = q => log[i].at < updatedAt[q]
      <4>1. q # p /\ got'[q] = got[q] /\ subPc[q] = "append" BY <2>4, <3>2
      <4>2. got[q] \in answered
            /\ (stream[got[q]][1] = exp => labelledAt[stream[got[q]]] # 0)
        BY <4>1 DEF IndInv, HandlerFacts
      <4>3. stream[got[q]] \in Flows BY <1>1, <4>2, Types DEF TypeOK
      <4>4. stream[got[q]][1] = exp => labelledAt'[stream[got[q]]] = labelledAt[stream[got[q]]]
        BY <2>3, <4>2, <4>3
      <4> QED BY <4>1, <4>4 DEF IndInv, HandlerFacts
    <3>3. \A i \in DOMAIN log : RowPoint(log[i])' = RowPoint(log[i]) BY <1>3 DEF RowPoint
    <3> QED BY <1>1, <1>3, <3>1, <3>2, <3>3 DEF HandlerFacts
  <2>9. LogFacts'
    <3>1. ASSUME NEW i \in DOMAIN log, stream[log[i].id][1] = log[i].writer
          PROVE  labelledAt'[stream[log[i].id]] \in 1 .. log[i].at
      <4>1. labelledAt[stream[log[i].id]] \in 1 .. log[i].at BY <3>1 DEF IndInv, LogFacts
      <4>2. stream[log[i].id] \in Flows /\ log[i].at \in Nat BY <1>1, LogTypes
      <4>3. labelledAt[stream[log[i].id]] # 0 BY <4>1, <4>2
      <4> QED BY <2>3, <4>1, <4>2, <4>3
    <3> QED BY <1>3, <3>1 DEF IndInv, LogFacts
  <2>10. LabelFacts'
    <3>1. ASSUME NEW g \in Flows, labelledAt'[g] # 0 PROVE Logged(g)' \/ Unlogged(g)'
      <4>1. CASE labelledAt[g] = 0
        <5>1. g = f /\ stream[id] = f /\ labelledAt'[g] = clock + 1
          <6> HIDE DEF f, id
          <6> QED BY <1>7, <2>2, <3>1, <4>1
        <5>2. Since(g)' = {}
          <6>1. \A i \in DOMAIN log : ~ (clock + 1 <= log[i].at) BY <1>1, LogTypes
          <6> QED BY <1>3, <5>1, <6>1 DEF Since
        <5>3. g[2] = k BY <5>1
        <5>4. subPc'[Home[g[2]]] = "stamp" /\ stream'[got'[Home[g[2]]]] = g
          BY <1>2, <1>3, <2>4, <5>1, <5>3
        <5> QED BY <5>2, <5>4 DEF Unlogged
      <4>2. CASE labelledAt[g] # 0
        <5>1. labelledAt'[g] = labelledAt[g] BY <2>3, <4>2
        <5>2. Since(g)' = Since(g) /\ (Logged(g)' <=> Logged(g)) BY <1>1, <1>3, <5>1, SinceKept
        <5>3. g[2] \in Keys /\ Home[g[2]] \in Points BY <1>1, Types, HomeAssumption
        <5>4. ASSUME Unlogged(g) PROVE Unlogged(g)'
          <6>1. g[1] = exp => Home[g[2]] # p BY <1>1, <5>4 DEF Unlogged
          <6> QED BY <1>1, <1>3, <2>4, <5>2, <5>3, <5>4, <6>1 DEF Unlogged
        <5> QED BY <4>2, <5>2, <5>4 DEF IndInv, LabelFacts
      <4> QED BY <4>1, <4>2
    <3> QED BY <3>1 DEF LabelFacts
  <2> QED BY <1>5, <2>5, <2>6, <2>7, <2>8, <2>9, <2>10 DEF IndInv
<1> QED BY <1>6, <1>7 DEF ApplyResult

\* The label gets its time, which is later than all times so far.
LEMMA StampUpdateInv ==
  ASSUME IndInv, NEW p \in Points, StampUpdate(p)
  PROVE  IndInv'
<1>1. /\ TypeOK /\ clock \in Nat /\ subPc[p] = "stamp"
      /\ clock' = clock + 1
      /\ UNCHANGED <<exp, up, stopTime, status, failures, publisherVars, got, redisVars, log, carried,
                     labelledAt>>
      /\ UNCHANGED <<answered, stream>>
  BY Types DEF IndInv, StampUpdate, redisVars
<1>2. /\ clock' \in Nat /\ stopTime' \in [Experiments \X Requests -> 0 .. clock']
      /\ log' \in Seq([id : answered', at : 1 .. clock', writer : 1 .. exp'])
      /\ 0 .. clock \subseteq 0 .. clock'
  BY <1>1, ClockMoves
<1>3. /\ subPc' \in [Points -> {"listen", "stamp", "append", "ended"}]
      /\ updatedAt' \in [Points -> 0 .. clock']
      /\ subPc'[p] = "append" /\ updatedAt'[p] = clock + 1
      /\ \A q \in Points : q # p => subPc'[q] = subPc[q] /\ updatedAt'[q] = updatedAt[q]
  <2>1. updatedAt \in [Points -> 0 .. clock'] BY <1>1, <1>2 DEF TypeOK
  <2>2. clock' \in 0 .. clock' BY <1>2
  <2>3. updatedAt' = [updatedAt EXCEPT ![p] = clock'] BY DEF StampUpdate
  <2>4. subPc \in [Points -> {"listen", "stamp", "append", "ended"}]
        /\ subPc' = [subPc EXCEPT ![p] = "append"]
    BY <1>1 DEF TypeOK, StampUpdate
  <2> QED BY <1>1, <2>1, <2>2, <2>3, <2>4
<1>4. TypeOK'
  <2>1. labelledAt' \in [Flows -> 0 .. clock'] BY <1>1, <1>2 DEF TypeOK
  <2> QED BY <1>1, <1>2, <1>3, <2>1 DEF TypeOK, publisherVars, redisVars, Ids
<1>5. RunFacts' /\ AnswerFacts' /\ PublishFacts' BY <1>1, PublishersKept
<1>6. HandlerFacts'
  <2>1. \A q \in Points : subPc'[q] \in {"stamp", "append"} => subPc[q] \in {"stamp", "append"}
    BY <1>1, <1>3
  <2>2. ASSUME NEW q \in Points, subPc'[q] = "append"
        PROVE  /\ updatedAt'[q] # 0
               /\ stream[got[q]][1] = exp => labelledAt[stream[got[q]]] <= updatedAt'[q]
               /\ \A r \in Requests : stream[got[q]][1] # exp =>
                    stopTime[<<stream[got[q]][1], r>>] < updatedAt'[q]
               /\ \A i \in DOMAIN log :
                    log[i].writer = exp /\ RowPoint(log[i]) = q => log[i].at < updatedAt'[q]
    <3>1. CASE q = p
      <4>1. stream[got[p]] \in Flows
        <5>1. got[p] \in Ids BY <1>1 DEF IndInv, HandlerFacts, TypeOK
        <5> QED BY <1>1, <5>1, Types
      <4>2. labelledAt[stream[got[p]]] \in 0 .. clock BY <1>1, <4>1 DEF TypeOK
      <4>3. \A r \in Requests : stopTime[<<stream[got[p]][1], r>>] \in 0 .. clock
        BY <1>1, <4>1, Types DEF TypeOK
      <4>4. \A i \in DOMAIN log : log[i].at \in 1 .. clock BY <1>1, LogTypes
      <4>5. updatedAt'[q] = clock + 1 BY <1>3, <3>1
      <4>6. labelledAt[stream[got[p]]] <= clock + 1 BY <1>1, <4>2
      <4>7. \A r \in Requests : stopTime[<<stream[got[p]][1], r>>] < clock + 1 BY <1>1, <4>3
      <4>8. \A i \in DOMAIN log : log[i].at < clock + 1 BY <1>1, <4>4
      <4>9. clock + 1 # 0 BY <1>1
      <4> QED BY <3>1, <4>5, <4>6, <4>7, <4>8, <4>9
    <3>2. CASE q # p
      <4>1. subPc[q] = "append" /\ updatedAt'[q] = updatedAt[q] BY <1>3, <2>2, <3>2
      <4> QED BY <4>1 DEF IndInv, HandlerFacts
    <3> QED BY <3>1, <3>2
  <2>3. \A i \in DOMAIN log : RowPoint(log[i])' = RowPoint(log[i]) BY <1>1 DEF RowPoint
  <2>4. ~up => FALSE BY <1>1 DEF IndInv, HandlerFacts
  <2> QED BY <1>1, <2>1, <2>2, <2>3, <2>4 DEF IndInv, HandlerFacts
<1>7. LogFacts' BY <1>1 DEF IndInv, LogFacts
<1>8. LabelFacts'
  <2>1. ASSUME NEW g \in Flows, labelledAt[g] # 0 PROVE Logged(g)' \/ Unlogged(g)'
    <3>1. Since(g)' = Since(g) /\ (Logged(g)' <=> Logged(g)) BY <1>1, SinceKept
    <3>2. g[2] \in Keys /\ Home[g[2]] \in Points BY <1>1, Types, HomeAssumption
    <3>3. ASSUME Unlogged(g) PROVE Unlogged(g)'
      <4>1. CASE Home[g[2]] = p BY <1>1, <1>3, <3>1, <3>3, <4>1 DEF Unlogged
      <4>2. CASE Home[g[2]] # p BY <1>1, <1>3, <3>1, <3>2, <3>3, <4>2 DEF Unlogged
      <4> QED BY <4>1, <4>2
    <3> QED BY <2>1, <3>1, <3>3 DEF IndInv, LabelFacts
  <2> QED BY <1>1, <2>1 DEF LabelFacts
<1> QED BY <1>4, <1>5, <1>6, <1>7, <1>8 DEF IndInv

\* What the end of the handler leaves of its state.
LEMMA HandlerReturnsFacts ==
  ASSUME TypeOK, NEW p \in Points, NEW next \in {"listen", "ended"}, HandlerReturns(p, next)
  PROVE  /\ subPc' \in [Points -> {"listen", "stamp", "append", "ended"}]
         /\ got' \in [Points -> {0} \cup answered]
         /\ updatedAt' \in [Points -> 0 .. clock]
         /\ subPc'[p] = next
         /\ \A q \in Points : q # p =>
              subPc'[q] = subPc[q] /\ got'[q] = got[q] /\ updatedAt'[q] = updatedAt[q]
<1>1. clock \in Nat BY Types
<1> QED BY <1>1 DEF TypeOK, HandlerReturns

\* The row of the result is later than all rows its process has written.
LEMMA AppendLogInv ==
  ASSUME IndInv, NEW p \in Points, AppendLog(p)
  PROVE  IndInv'
<1> DEFINE row == [id |-> got[p], at |-> updatedAt[p], writer |-> exp]
           n == Len(log) + 1
<1>1. /\ TypeOK /\ exp \in Nat /\ clock \in Nat /\ subPc[p] = "append"
      /\ UNCHANGED <<exp, up, clock, stopTime, status, failures, publisherVars, redisVars, carried,
                     labelledAt>>
      /\ UNCHANGED <<answered, stream>>
      /\ HandlerReturns(p, "listen")
  BY Types DEF IndInv, AppendLog, redisVars
<1>2. /\ up /\ exp # 0
      /\ got[p] \in answered /\ Home[stream[got[p]][2]] = p
      /\ \/ stream[got[p]][1] = exp /\ labelledAt[stream[got[p]]] # 0
         \/ stream[got[p]][1] # exp /\ got[p] \in carried
      /\ updatedAt[p] # 0
      /\ stream[got[p]][1] = exp => labelledAt[stream[got[p]]] <= updatedAt[p]
      /\ \A r \in Requests : stream[got[p]][1] # exp =>
           stopTime[<<stream[got[p]][1], r>>] < updatedAt[p]
      /\ \A i \in DOMAIN log :
           log[i].writer = exp /\ RowPoint(log[i]) = p => log[i].at < updatedAt[p]
  BY <1>1 DEF IndInv, HandlerFacts, RunFacts
<1>3. /\ got[p] \in Ids /\ stream[got[p]] \in Flows /\ stream[got[p]][1] <= exp
      /\ stream[got[p]][1] \in Nat
      /\ updatedAt[p] \in 1 .. clock /\ updatedAt[p] \in Nat
      /\ labelledAt[stream[got[p]]] \in Nat
  <2>1. got[p] \in Ids BY <1>1, <1>2 DEF TypeOK
  <2>2. stream[got[p]] \in Flows /\ stream[got[p]][1] <= exp /\ stream[got[p]][1] \in Nat
    BY <1>1, <2>1, Types DEF IndInv, RunFacts, Experiments
  <2>3. updatedAt[p] \in 0 .. clock BY <1>1 DEF TypeOK
  <2>4. labelledAt[stream[got[p]]] \in 0 .. clock BY <1>1, <2>2 DEF TypeOK
  <2> QED BY <1>1, <1>2, <2>1, <2>2, <2>3, <2>4
<1>4. /\ row.id = got[p] /\ row.at = updatedAt[p] /\ row.writer = exp
      /\ row \in [id : answered, at : 1 .. clock, writer : 1 .. exp]
      /\ RowPoint(row) = p
  <2>1. exp \in 1 .. exp BY <1>1, <1>2
  <2> QED BY <1>2, <1>3, <2>1 DEF RowPoint
<1>5. /\ log' \in Seq([id : answered, at : 1 .. clock, writer : 1 .. exp])
      /\ DOMAIN log = 1 .. Len(log) /\ Len(log) \in Nat
      /\ DOMAIN log' = 1 .. n
      /\ log'[n] = row
      /\ \A i \in DOMAIN log : log'[i] = log[i]
  <2> DEFINE Rows == [id : answered, at : 1 .. clock, writer : 1 .. exp]
  <2>1. log' = Append(log, row) BY DEF AppendLog
  <2>2. log \in Seq(Rows) /\ row \in Rows BY <1>1, <1>4 DEF TypeOK
  <2> HIDE DEF Rows, row
  <2>3. log' \in Seq(Rows) /\ DOMAIN log = 1 .. Len(log) /\ Len(log) \in Nat
        /\ DOMAIN log' = 1 .. n /\ log'[n] = row /\ \A i \in DOMAIN log : log'[i] = log[i]
    BY <2>1, <2>2, AppendFacts
  <2> QED BY <2>3 DEF Rows
<1>6. \A i \in DOMAIN log' : (i \in DOMAIN log /\ log'[i] = log[i]) \/ (i = n /\ log'[i] = row)
  <2> HIDE DEF row
  <2> QED BY <1>5
<1> HIDE DEF row
<1>7. /\ subPc' \in [Points -> {"listen", "stamp", "append", "ended"}]
      /\ got' \in [Points -> {0} \cup answered]
      /\ updatedAt' \in [Points -> 0 .. clock]
      /\ subPc'[p] = "listen"
      /\ \A q \in Points : q # p =>
           subPc'[q] = subPc[q] /\ got'[q] = got[q] /\ updatedAt'[q] = updatedAt[q]
  BY <1>1, HandlerReturnsFacts
<1>8. TypeOK' BY <1>1, <1>5, <1>7 DEF TypeOK, publisherVars, redisVars, Ids
<1>9. RunFacts' /\ AnswerFacts' /\ PublishFacts' BY <1>1, PublishersKept
<1> DEFINE PointOf(i) == Home[stream[log'[i].id][2]]
<1>10. /\ \A i \in DOMAIN log : PointOf(i) = RowPoint(log[i])
       /\ PointOf(n) = p
       /\ \A i \in DOMAIN log' : RowPoint(log[i])' = PointOf(i)
  BY <1>1, <1>4, <1>5 DEF RowPoint
<1> HIDE DEF PointOf
<1>11. HandlerFacts'
  <2>1. ASSUME NEW q \in Points, subPc'[q] \in {"stamp", "append"}
        PROVE  /\ q # p /\ subPc[q] = subPc'[q] /\ got'[q] = got[q] /\ updatedAt'[q] = updatedAt[q]
    BY <1>7, <2>1
  <2>2. ASSUME NEW q \in Points, subPc'[q] = "append", NEW i \in DOMAIN log',
               log'[i].writer = exp, PointOf(i) = q
        PROVE  log'[i].at < updatedAt'[q]
    <3>1. q # p /\ subPc[q] = "append" /\ updatedAt'[q] = updatedAt[q] BY <2>1, <2>2
    <3>2. i \in DOMAIN log /\ log'[i] = log[i]
      <4>1. CASE i = n /\ log'[i] = row BY <1>10, <2>2, <3>1, <4>1
      <4> QED BY <1>6, <4>1
    <3>3. RowPoint(log[i]) = q BY <1>10, <2>2, <3>2
    <3> QED BY <2>2, <3>1, <3>2, <3>3 DEF IndInv, HandlerFacts
  <2>3. \A q \in Points : subPc'[q] \in {"stamp", "append"} =>
          /\ got'[q] \in answered
          /\ Home[stream[got'[q]][2]] = q
          /\ \/ stream[got'[q]][1] = exp /\ labelledAt[stream[got'[q]]] # 0
             \/ stream[got'[q]][1] # exp /\ got'[q] \in carried
    BY <2>1 DEF IndInv, HandlerFacts
  <2>4. ASSUME NEW q \in Points, subPc'[q] = "append"
        PROVE  /\ updatedAt'[q] # 0
               /\ stream[got'[q]][1] = exp => labelledAt[stream[got'[q]]] <= updatedAt'[q]
               /\ \A r \in Requests : stream[got'[q]][1] # exp =>
                    stopTime[<<stream[got'[q]][1], r>>] < updatedAt'[q]
    <3>1. subPc[q] = "append" /\ got'[q] = got[q] /\ updatedAt'[q] = updatedAt[q] BY <2>1, <2>4
    <3> QED BY <3>1 DEF IndInv, HandlerFacts
  <2>5. \A q \in Points : subPc'[q] = "append" => \A i \in DOMAIN log' :
          log'[i].writer = exp /\ RowPoint(log[i])' = q => log'[i].at < updatedAt'[q]
    BY <1>10, <2>2
  <2> QED BY <1>1, <1>2, <2>3, <2>4, <2>5 DEF HandlerFacts
<1>12. LogFacts'
  <2> DEFINE RowOK(r) ==
               LET g == stream[r.id]
               IN /\ g[1] <= r.writer
                  /\ g[1] = r.writer => labelledAt[g] \in 1 .. r.at
                  /\ g[1] # r.writer => /\ r.id \in carried
                                        /\ \A q \in Requests : stopTime[<<g[1], q>>] < r.at
  <2>1. \A i \in DOMAIN log : RowOK(log[i]) BY DEF IndInv, LogFacts
  <2>2. RowOK(row) BY <1>2, <1>3, <1>4
  <2>3. \A i \in DOMAIN log' : RowOK(log'[i])
    <3> HIDE DEF RowOK
    <3> QED BY <1>6, <2>1, <2>2
  <2> QED BY <1>1, <2>3 DEF LogFacts
<1>13. LabelFacts'
  <2>1. ASSUME NEW g \in Flows, labelledAt[g] # 0 PROVE Logged(g)' \/ Unlogged(g)'
    <3>1. g[2] \in Keys /\ Home[g[2]] \in Points BY <1>1, Types, HomeAssumption
    <3>2. \A i : i \in Since(g)' <=> /\ i \in DOMAIN log'
                                     /\ log'[i].writer = g[1]
                                     /\ PointOf(i) = Home[g[2]]
                                     /\ labelledAt[g] <= log'[i].at
      BY <1>1, <1>10 DEF Since
    <3>3. \A i \in DOMAIN log : i \in DOMAIN log' /\ log'[i] = log[i] /\ (i \in Since(g)' <=> i \in Since(g))
      <4>1. \A i \in DOMAIN log : i \in DOMAIN log' /\ log'[i] = log[i] BY <1>5
      <4>2. \A i \in DOMAIN log : PointOf(i) = RowPoint(log[i]) BY <1>10
      <4> QED BY <3>2, <4>1, <4>2 DEF Since
    <3>4. n \in DOMAIN log' BY <1>5
    <3>5. n \in Since(g)' <=> /\ exp = g[1]
                              /\ p = Home[g[2]]
                              /\ labelledAt[g] <= updatedAt[p]
      BY <1>1, <1>4, <1>5, <1>10, <3>4, <3>2
    <3>6. \A j \in Since(g)' : j = n \/ j \in Since(g)
      <4>1. \A j \in Since(g)' : j \in DOMAIN log' BY DEF Since
      <4> QED BY <1>6, <3>3, <4>1
    <3>7. \A j \in Since(g) : j \in DOMAIN log BY DEF Since
    <3>8. CASE Logged(g)
      <4>1. PICK i \in Since(g) : stream[log[i].id] = g /\ \A j \in Since(g) : log[i].at <= log[j].at
        BY <3>8 DEF Logged
      <4>2. i \in DOMAIN log /\ i \in Since(g)' /\ log'[i] = log[i] /\ stream'[log'[i].id] = g
        BY <1>1, <3>3, <3>7, <4>1
      <4>3. ASSUME NEW j \in Since(g)' PROVE log'[i].at <= log'[j].at
        <5>1. CASE j \in Since(g) BY <3>3, <3>7, <4>1, <4>2, <5>1
        <5>2. CASE j = n
          <6>1. exp = g[1] /\ p = Home[g[2]] BY <3>5, <4>3, <5>2
          <6>2. log[i].writer = exp /\ RowPoint(log[i]) = p BY <4>1, <6>1 DEF Since
          <6>3. log[i].at < updatedAt[p] BY <1>2, <4>2, <6>2
          <6>4. log[i].at \in Nat BY <1>1, <4>2, LogTypes
          <6>5. log[i].at <= updatedAt[p] BY <1>3, <6>3, <6>4
          <6> QED BY <1>4, <1>5, <4>2, <5>2, <6>5
        <5> QED BY <3>6, <5>1, <5>2
      <4> QED BY <4>2, <4>3 DEF Logged
    <3>9. CASE Unlogged(g)
      <4>1. Since(g) = {} BY <3>9 DEF Unlogged
      <4>2. CASE g[1] = exp /\ Home[g[2]] = p
        <5>1. stream[got[p]] = g BY <1>1, <1>2, <3>9, <4>2 DEF Unlogged
        <5>2. n \in Since(g)' BY <1>2, <3>5, <4>2, <5>1
        <5>3. stream'[log'[n].id] = g BY <1>1, <1>4, <1>5, <5>1
        <5>4. \A j \in Since(g)' : j = n BY <3>6, <4>1
        <5>5. log'[n].at <= log'[n].at BY <1>3, <1>4, <1>5
        <5>6. \A j \in Since(g)' : log'[n].at <= log'[j].at BY <5>4, <5>5
        <5> QED BY <5>2, <5>3, <5>6 DEF Logged
      <4>3. CASE ~ (g[1] = exp /\ Home[g[2]] = p)
        <5>1. Since(g)' = {} BY <3>5, <3>6, <4>1, <4>3
        <5>2. g[1] = exp /\ up =>
                \/ subPc'[Home[g[2]]] = "ended"
                \/ subPc'[Home[g[2]]] \in {"stamp", "append"} /\ stream'[got'[Home[g[2]]]] = g
          BY <1>1, <1>7, <3>1, <3>9, <4>3 DEF Unlogged
        <5> QED BY <1>1, <5>1, <5>2 DEF Unlogged
      <4> QED BY <4>2, <4>3
    <3> QED BY <2>1, <3>8, <3>9 DEF IndInv, LabelFacts
  <2> QED BY <1>1, <2>1 DEF LabelFacts
<1> QED BY <1>8, <1>9, <1>11, <1>12, <1>13 DEF IndInv

\* The subscriber handles no more results.
LEMMA AppendRaisesInv ==
  ASSUME IndInv, NEW p \in Points, AppendRaises(p)
  PROVE  IndInv'
<1>1. /\ TypeOK /\ subPc[p] = "append"
      /\ UNCHANGED <<exp, up, clock, stopTime, status, publisherVars, redisVars, log, carried, labelledAt>>
      /\ UNCHANGED <<answered, stream>>
      /\ HandlerReturns(p, "ended")
  BY DEF IndInv, AppendRaises, redisVars
<1>2. /\ subPc' \in [Points -> {"listen", "stamp", "append", "ended"}]
      /\ got' \in [Points -> {0} \cup answered]
      /\ updatedAt' \in [Points -> 0 .. clock]
      /\ subPc'[p] = "ended"
      /\ \A q \in Points : q # p =>
           subPc'[q] = subPc[q] /\ got'[q] = got[q] /\ updatedAt'[q] = updatedAt[q]
  BY <1>1, HandlerReturnsFacts
<1>3. TypeOK'
  <2>1. failures' \in 0 .. MaxFailures BY <1>1, BoundsAssumption DEF TypeOK, AppendRaises
  <2> QED BY <1>1, <1>2, <2>1 DEF TypeOK, publisherVars, redisVars, Ids
<1>4. RunFacts' /\ AnswerFacts' /\ PublishFacts' BY <1>1, PublishersKept
<1>5. HandlerFacts'
  <2>1. \A q \in Points : subPc'[q] \in {"stamp", "append"} =>
          subPc[q] = subPc'[q] /\ got'[q] = got[q] /\ updatedAt'[q] = updatedAt[q]
    BY <1>2
  <2>2. \A i \in DOMAIN log : RowPoint(log[i])' = RowPoint(log[i]) BY <1>1 DEF RowPoint
  <2>3. up BY <1>1 DEF IndInv, HandlerFacts
  <2>4. \A q \in Points : subPc'[q] \in {"stamp", "append"} =>
          /\ got'[q] \in answered
          /\ Home[stream[got'[q]][2]] = q
          /\ \/ stream[got'[q]][1] = exp /\ labelledAt[stream[got'[q]]] # 0
             \/ stream[got'[q]][1] # exp /\ got'[q] \in carried
    BY <2>1 DEF IndInv, HandlerFacts
  <2>5. ASSUME NEW q \in Points, subPc'[q] = "append"
        PROVE  /\ updatedAt'[q] # 0
               /\ stream[got'[q]][1] = exp => labelledAt[stream[got'[q]]] <= updatedAt'[q]
               /\ \A r \in Requests : stream[got'[q]][1] # exp =>
                    stopTime[<<stream[got'[q]][1], r>>] < updatedAt'[q]
               /\ \A i \in DOMAIN log :
                    log[i].writer = exp /\ RowPoint(log[i]) = q => log[i].at < updatedAt'[q]
    <3>1. subPc[q] = "append" /\ got'[q] = got[q] /\ updatedAt'[q] = updatedAt[q] BY <2>1, <2>5
    <3> QED BY <3>1 DEF IndInv, HandlerFacts
  <2> QED BY <1>1, <2>2, <2>3, <2>4, <2>5 DEF HandlerFacts
<1>6. LogFacts' BY <1>1 DEF IndInv, LogFacts
<1>7. LabelFacts'
  <2>1. ASSUME NEW g \in Flows, labelledAt[g] # 0 PROVE Logged(g)' \/ Unlogged(g)'
    <3>1. Since(g)' = Since(g) /\ (Logged(g)' <=> Logged(g)) BY <1>1, SinceKept
    <3>2. g[2] \in Keys /\ Home[g[2]] \in Points BY <1>1, Types, HomeAssumption
    <3>3. ASSUME Unlogged(g) PROVE Unlogged(g)'
      <4>1. CASE Home[g[2]] = p BY <1>2, <3>1, <3>3, <4>1 DEF Unlogged
      <4>2. CASE Home[g[2]] # p BY <1>1, <1>2, <3>1, <3>2, <3>3, <4>2 DEF Unlogged
      <4> QED BY <4>1, <4>2
    <3> QED BY <2>1, <3>1, <3>3 DEF IndInv, LabelFacts
  <2> QED BY <1>1, <2>1 DEF LabelFacts
<1> QED BY <1>3, <1>4, <1>5, <1>6, <1>7 DEF IndInv

-----------------------------------------------------------------------------
(* The workers' step. *)

\* What is answered was open.
LEMMA AnswerInv ==
  ASSUME IndInv, NEW id \in Open, Answer(id)
  PROVE  IndInv'
<1>1. /\ TypeOK /\ id \in Ids /\ id \notin answered
      /\ answered' = answered \cup {id}
      /\ UNCHANGED <<exp, up, clock, stopTime, status, pubPc, hand, subPc, got, updatedAt, failures,
                     stream, rows, log, carried, labelledAt>>
      /\ Ids' = Ids /\ WithRow' = WithRow
  BY DEF IndInv, Open, Answer, Service!Answer, publisherVars, subscriberVars, Ids, WithRow
<1>2. stream[id][2] \in Keys /\ Home[stream[id][2]] \in Points BY <1>1, Types, HomeAssumption
<1> DEFINE q == Home[stream[id][2]]
<1>3. inbox \in [Points -> Seq(answered')]
  <2>1. \A p \in Points : inbox[p] \in Seq(answered') BY <1>1, SeqMonotone DEF TypeOK
  <2> QED BY <1>1, <2>1 DEF TypeOK
<1>4. /\ inbox' \in [Points -> Seq(answered')]
      /\ \A p \in Points : \A i \in DOMAIN inbox'[p] :
           \/ up /\ inbox'[p][i] = id /\ p = q
           \/ i \in DOMAIN inbox[p] /\ inbox'[p][i] = inbox[p][i]
      /\ ~up => inbox' = inbox
  <2>1. CASE up
    <3>1. inbox' = [inbox EXCEPT ![q] = Append(@, id)] BY <2>1 DEF Answer
    <3>2. /\ Append(inbox[q], id) \in Seq(answered')
          /\ \A i \in DOMAIN Append(inbox[q], id) :
               \/ Append(inbox[q], id)[i] = id
               \/ i \in DOMAIN inbox[q] /\ Append(inbox[q], id)[i] = inbox[q][i]
      BY <1>1, <1>2, <1>3, AppendFacts
    <3> QED BY <1>2, <1>3, <2>1, <3>1, <3>2
  <2>2. CASE ~up
    <3>1. inbox' = inbox BY <2>2 DEF Answer
    <3> QED BY <1>3, <2>2, <3>1
  <2> QED BY <2>1, <2>2
<1>5. TypeOK'
  <2>1. log' \in Seq([id : answered', at : 1 .. clock', writer : 1 .. exp'])
    <3>1. [id : answered, at : 1 .. clock, writer : 1 .. exp] \subseteq
             [id : answered', at : 1 .. clock', writer : 1 .. exp']
      BY <1>1
    <3>2. log \in Seq([id : answered, at : 1 .. clock, writer : 1 .. exp]) BY <1>1 DEF TypeOK
    <3>3. log \in Seq([id : answered', at : 1 .. clock', writer : 1 .. exp'])
      BY <3>1, <3>2, SeqMonotone
    <3> QED BY <1>1, <3>3
  <2> QED BY <1>1, <1>4, <2>1 DEF TypeOK
<1>6. RunFacts' BY <1>1, <1>4 DEF IndInv, RunFacts
<1>7. AnswerFacts'
  <2>1. up => stream[id][1] = exp \/ id \in carried BY DEF IndInv, AnswerFacts
  <2>2. \A j \in Open' : j \in Open BY <1>1 DEF Open
  <2>3. \A p \in Points : \A i \in DOMAIN inbox'[p] :
          /\ stream[inbox'[p][i]][1] = exp \/ inbox'[p][i] \in carried
          /\ Home[stream[inbox'[p][i]][2]] = p
    BY <1>4, <2>1 DEF IndInv, AnswerFacts
  <2> QED BY <1>1, <2>2, <2>3 DEF IndInv, AnswerFacts
<1>8. PublishFacts'
  <2>1. \A p \in Points : SourceId(p)' = SourceId(p) BY <1>1 DEF SourceId
  <2> QED BY <1>1, <2>1 DEF IndInv, PublishFacts
<1>9. HandlerFacts' /\ LogFacts' /\ LabelFacts'
  BY <1>1, ResultsKept DEF subscriberVars
<1> QED BY <1>5, <1>6, <1>7, <1>8, <1>9 DEF IndInv

-----------------------------------------------------------------------------
(* The theorems. *)

\* No experiment has been started.
LEMMA InitInv == Init => IndInv
<1> SUFFICES ASSUME Init PROVE IndInv OBVIOUS
<1>1. Ids = {} /\ WithRow = {} BY DEF Init, Ids, WithRow, ToSet
<1>2. TypeOK
  <2>1. /\ exp \in 0 .. MaxExperiments /\ clock \in Nat /\ failures \in 0 .. MaxFailures
    BY BoundsAssumption DEF Init
  <2>2. up \in BOOLEAN /\ answered \subseteq Ids /\ carried \subseteq Ids BY DEF Init
  <2>3. /\ stream \in Seq(Flows) /\ rows \in Seq(Ids)
        /\ log \in Seq([id : answered, at : 1 .. clock, writer : 1 .. exp])
    BY DEF Init
  <2>4. /\ status \in [Flows -> {"absent", "default", "pending"} \cup Classes]
        /\ pubPc \in [Points -> {"get", "xadd", "latency"}]
        /\ hand \in [Points -> Keys \cup {NoKey}]
        /\ inbox \in [Points -> Seq(answered)]
        /\ subPc \in [Points -> {"listen", "stamp", "append", "ended"}]
        /\ got \in [Points -> {0} \cup answered]
    BY DEF Init
  <2>5. /\ stopTime \in [Experiments \X Requests -> 0 .. clock]
        /\ labelledAt \in [Flows -> 0 .. clock]
        /\ updatedAt \in [Points -> 0 .. clock]
    BY DEF Init
  <2> QED BY <2>1, <2>2, <2>3, <2>4, <2>5 DEF TypeOK
<1>3. RunFacts BY <1>1 DEF Init, RunFacts
<1>4. AnswerFacts BY DEF Init, AnswerFacts
<1>5. PublishFacts BY <1>1 DEF Init, PublishFacts
<1>6. HandlerFacts /\ LogFacts /\ LabelFacts
  BY DEF Init, HandlerFacts, LogFacts, LabelFacts
<1> QED BY <1>2, <1>3, <1>4, <1>5, <1>6 DEF IndInv

\* Nothing changes.
LEMMA StutterInv == IndInv /\ UNCHANGED vars => IndInv'
<1> SUFFICES ASSUME IndInv, UNCHANGED vars PROVE IndInv' OBVIOUS
<1>1. UNCHANGED <<exp, up, clock, stopTime, status, pubPc, hand, subPc, got, updatedAt, failures,
                  stream, rows, answered, inbox, log, carried, labelledAt>>
      /\ Ids' = Ids /\ WithRow' = WithRow
  BY DEF vars, publisherVars, subscriberVars, redisVars, Ids, WithRow
<1>2. TypeOK' BY <1>1 DEF IndInv, TypeOK
<1>3. RunFacts' BY <1>1 DEF IndInv, RunFacts
<1>4. AnswerFacts' BY <1>1, AnswersKept DEF IndInv
<1>5. PublishFacts'
  <2>1. \A p \in Points : SourceId(p)' = SourceId(p) BY <1>1 DEF SourceId
  <2> QED BY <1>1, <2>1 DEF IndInv, PublishFacts
<1>6. HandlerFacts' /\ LogFacts' /\ LabelFacts'
  BY <1>1, ResultsKept DEF subscriberVars
<1> QED BY <1>2, <1>3, <1>4, <1>5, <1>6 DEF IndInv

\* The inductive invariant of the runs on one Redis: types, what a publisher
\* and a subscriber hold, to which run requests, results and rows of the logs
\* belong, and which labels have their row.
THEOREM Invariant == Spec => []IndInv
<1>1. IndInv /\ [Next]_vars => IndInv'
  BY StutterInv, StartExperimentInv, StopExperimentInv, FlowStopsInv, FirstPacketInv, ReadyInv,
     AddRequestInv, AddLatencyRowInv, LatencyRowRefusedInv, ApplyResultInv, StampUpdateInv, AppendLogInv,
     AppendRaisesInv, AnswerInv DEF Next
<1> QED BY <1>1, InitInv, PTL DEF Spec

\* A step of the capture processes that FlowLifecycle does not allow applies
\* an answer to a request of an earlier run that was open when this run began.
LEMMA LifecycleStep ==
  ASSUME IndInv, [Next]_vars
  PROVE  UNCHANGED Capture!vars \/ AppliesCarried \/ Capture!Next
<1> DEFINE Sent == ToSet(stream)
           Abstract(f) == \/ Capture!Collect(f) \/ Capture!Lock(f) \/ Capture!Send(f)
                          \/ Capture!Confirm(f) \/ Capture!Release(f) \/ Capture!Classify(f)
<1>1. ASSUME UNCHANGED <<status, stream, rows>> PROVE UNCHANGED Capture!vars
  BY <1>1 DEF Capture!vars
<1>2. ASSUME NEW f \in Flows, Abstract(f) PROVE Capture!Next BY <1>2 DEF Capture!Next
<1>3. WithRow = {stream[id] : id \in ToSet(rows)} BY DEF WithRow
<1>4. CASE UNCHANGED vars BY <1>1, <1>4 DEF vars, publisherVars, subscriberVars, redisVars
<1>5. CASE StartExperiment BY <1>1, <1>5 DEF StartExperiment, publisherVars, subscriberVars, redisVars
<1>6. CASE StopExperiment BY <1>1, <1>6 DEF StopExperiment
<1>7. ASSUME NEW r \in Requests, FlowStops(r) PROVE UNCHANGED Capture!vars
  BY <1>1, <1>7 DEF FlowStops, publisherVars, subscriberVars, redisVars
<1>8. ASSUME NEW k \in Keys, FirstPacket(k) PROVE Capture!Next
  <2>1. <<exp, k>> \in Flows BY <1>8, Types DEF IndInv, RunFacts, FirstPacket
  <2>2. Capture!Collect(<<exp, k>>) BY <1>8 DEF FirstPacket, redisVars, Capture!Collect
  <2> QED BY <1>2, <2>1, <2>2
<1>9. ASSUME NEW k \in Keys, Ready(k) PROVE Capture!Next
  <2>1. <<exp, k>> \in Flows BY <1>9, Types DEF IndInv, RunFacts, Ready
  <2>2. <<exp, k>> \notin WithRow BY <1>9, <2>1 DEF IndInv, PublishFacts, Ready, Classes
  <2>3. Capture!Lock(<<exp, k>>) BY <1>9, <2>2 DEF Ready, redisVars, Capture!Lock, WithRow
  <2> QED BY <1>2, <2>1, <2>3
<1>10. ASSUME NEW p \in Points, AddRequest(p) PROVE Capture!Next
  <2> DEFINE f == <<exp, hand[p]>>
  <2>1. /\ f \in Flows /\ f \notin WithRow
        /\ status[f] \in {"pending"} \cup Classes
    BY <1>10, HandFacts DEF AddRequest
  <2>2. stream \in Seq(Flows) /\ stream' = Append(stream, f) BY <1>10 DEF IndInv, TypeOK, AddRequest
  <2>3. ToSet(stream') = ToSet(stream) \cup {f} BY <2>1, <2>2, ToSetAppend
  <2>4. \A id \in Ids : stream'[id] = stream[id] BY <2>1, <2>2, AppendFacts DEF Ids
  <2>5. WithRow' = WithRow BY <1>10, <2>4, IdTypes DEF IndInv, WithRow, AddRequest
  <2>6. Capture!Send(f)
    BY <1>10, <2>1, <2>3, <2>5 DEF AddRequest, Capture!Send, Capture!Classes, Classes, WithRow
  <2> QED BY <1>2, <2>1, <2>6
<1>11. ASSUME NEW p \in Points, AddLatencyRow(p) PROVE Capture!Next
  <2> DEFINE f == <<exp, hand[p]>>
  <2>1. /\ f \in Flows /\ f \notin WithRow
        /\ status[f] \in {"pending"} \cup Classes
    BY <1>11, HandFacts DEF AddLatencyRow
  <2>2. SourceId(p) \in Ids /\ stream[SourceId(p)] = f BY <1>11 DEF IndInv, PublishFacts, AddLatencyRow
  <2>3. f \in ToSet(stream) BY <2>2, Types DEF IndInv, ToSet
  <2>4. ToSet(rows') = ToSet(rows) \cup {SourceId(p)}
    BY <1>11, <2>2, ToSetAppend DEF IndInv, TypeOK, AddLatencyRow
  <2>5. WithRow' = WithRow \cup {f} BY <1>11, <2>2, <2>4 DEF WithRow, AddLatencyRow
  <2>6. PICK g \in Flows : g = f BY <2>1
  <2>7. Capture!Confirm(g)
    BY <2>6, <1>11, <2>1, <2>3, <2>5 DEF AddLatencyRow, Capture!Confirm, Capture!Classes, Classes, WithRow
  <2> QED BY <1>2, <2>7
<1>12. ASSUME NEW p \in Points, LatencyRowRefused(p) PROVE Capture!Next
  <2> DEFINE f == <<exp, hand[p]>>
  <2>1. /\ f \in Flows /\ f \notin WithRow
        /\ status[f] \in {"pending"} \cup Classes
    BY <1>12, HandFacts DEF LatencyRowRefused
  <2>2. Capture!Release(f)
    BY <1>12, <2>1 DEF LatencyRowRefused, redisVars, Capture!Release, Capture!Classes, Classes, WithRow
  <2> QED BY <1>2, <2>1, <2>2
<1>13. ASSUME NEW p \in Points, ApplyResult(p)
       PROVE  UNCHANGED Capture!vars \/ AppliesCarried \/ Capture!Next
  <2> DEFINE id == Head(inbox[p])
             f == <<exp, stream[id][2]>>
  <2>1. /\ id \in Ids /\ f \in Flows
        /\ stream[id][1] = exp => stream[id] = f
        /\ stream[id][1] = exp \/ id \in carried
    BY <1>13, ResultFacts
  <2>2. CASE id \in carried
    <3>1. inbox[p] # <<>> /\ inbox'[p] = Tail(inbox[p]) BY <1>13 DEF IndInv, TypeOK, ApplyResult
    <3> QED BY <2>2, <3>1 DEF AppliesCarried
  <2>3. CASE UNCHANGED <<clock, status, subPc, got, labelledAt>>
    BY <1>1, <1>13, <2>3 DEF ApplyResult
  <2>4. CASE /\ stream[id][1] = exp
             /\ status[f] # "absent"
             /\ status' = [status EXCEPT ![f] = Label[stream[id]]]
    <3>1. stream[id] = f BY <2>1, <2>4
    <3>2. f \in ToSet(stream) BY <2>1, <3>1, Types DEF IndInv, ToSet
    <3>3. UNCHANGED <<stream, rows>> BY <1>13 DEF ApplyResult
    <3>4. Capture!Classify(f) BY <2>4, <3>1, <3>2, <3>3 DEF Capture!Classify
    <3> QED BY <1>2, <2>1, <3>4
  <2> QED BY <1>13, <2>1, <2>2, <2>3, <2>4 DEF ApplyResult
<1>14. ASSUME NEW id \in Open, Answer(id) PROVE UNCHANGED Capture!vars
  BY <1>1, <1>14 DEF Answer, publisherVars, subscriberVars
<1>15. ASSUME NEW p \in Points, StampUpdate(p) \/ AppendLog(p) \/ AppendRaises(p)
       PROVE  UNCHANGED Capture!vars
  BY <1>1, <1>15 DEF StampUpdate, AppendLog, AppendRaises, redisVars
<1> QED BY <1>4, <1>5, <1>6, <1>7, <1>8, <1>9, <1>10, <1>11, <1>12, <1>13, <1>14, <1>15 DEF Next

\* Every capture process lives the FlowLifecycle of its flows, but for answers
\* to requests of an earlier run that were open when its run started.
THEOREM Lifecycle == Spec => LifecycleUnlessCarried
<1>1. IndInv /\ [Next]_vars => [UNCHANGED Capture!vars \/ AppliesCarried \/ Capture!Next]_vars
  BY LifecycleStep
<1> QED BY <1>1, Invariant, PTL DEF Spec, LifecycleUnlessCarried

\* What the scripts read of a run: every row with its run id that its own run
\* wrote, and maybe rows that a later run wrote.
LEMMA RowFacts ==
  ASSUME IndInv, NEW e \in Experiments, NEW shared \in BOOLEAN,
         NEW row \in FilterRows(e, shared)
  PROVE  LET f == stream[row.id]
         IN /\ f \in Flows /\ f[1] = e /\ row.at \in Nat /\ row.id \in Ids
            /\ row.writer = e => labelledAt[f] \in 1 .. row.at
            /\ row.writer # e =>
                 /\ shared
                 /\ row.id \in carried
                 /\ \A r \in Requests : stopTime[<<e, r>>] < row.at
<1>1. PICK i \in DOMAIN log : row = log[i]
  BY DEF FilterRows, ClassificationLog, ToSet
<1>2. stream[row.id][1] = e BY DEF FilterRows, RowRunId
<1>3. shared \/ row.writer = e BY DEF FilterRows, ClassificationLog
<1>4. stream[row.id] \in Flows /\ row.at \in Nat /\ row.id \in Ids BY <1>1, LogTypes DEF IndInv
<1> QED BY <1>1, <1>2, <1>3, <1>4 DEF IndInv, LogFacts

\* When a process has written a row since it labelled a flow, it has written
\* that of the label first.
LEMMA LabelRow ==
  ASSUME IndInv, NEW e \in Experiments, NEW shared \in BOOLEAN,
         NEW f \in Flows, f[1] = e, labelledAt[f] # 0,
         NEW row \in ToSet(log), row.writer = e, RowPoint(row) = Home[f[2]], labelledAt[f] <= row.at
  PROVE  \E own \in FilterRows(e, shared) :
           stream[own.id] = f /\ own.at <= row.at /\ own.at \in Nat
<1>1. PICK j \in DOMAIN log : row = log[j] BY DEF ToSet
<1>2. j \in Since(f) BY <1>1 DEF Since
<1>3. ~Unlogged(f) BY <1>2 DEF Unlogged
<1>4. Logged(f) BY <1>3 DEF IndInv, LabelFacts
<1>5. PICK i \in Since(f) : stream[log[i].id] = f /\ \A m \in Since(f) : log[i].at <= log[m].at
  BY <1>4 DEF Logged
<1>6. i \in DOMAIN log /\ log[i].writer = e BY <1>5 DEF Since
<1>7. log[i] \in FilterRows(e, shared)
  BY <1>5, <1>6 DEF FilterRows, ClassificationLog, RowRunId, ToSet
<1>8. log[i].at \in Nat BY <1>6, LogTypes DEF IndInv
<1>9. log[i].at <= row.at BY <1>1, <1>2, <1>5
<1> QED BY <1>5, <1>7, <1>8, <1>9

\* For any number of runs, requests and capture points: online_fct_deadline
\* counts no request that its own capture process had not labelled by its
\* completion, and leaves one that was labelled in time out only when no row of
\* that process lies between the label and the completion.
THEOREM DeadlineVerdict == Spec => []DeadlineVerdictIsRight
<1>1. ASSUME IndInv PROVE DeadlineVerdictIsRight
  <2> SUFFICES ASSUME NEW e \in Experiments, NEW shared \in BOOLEAN, NEW r \in FlowMetadata(e)
               PROVE  LET inTime == {k \in Keys : /\ k[1] = r
                                                  /\ labelledAt[<<e, k>>] \in 1 .. stopTime[<<e, r>>]}
                      IN IF r \in CacheBeforeFct(e, shared)
                           THEN inTime # {}
                           ELSE \A k \in inTime, row \in ToSet(log) :
                                  row.writer = e /\ RowPoint(row) = Home[k] =>
                                    row.at \notin labelledAt[<<e, k>>] .. stopTime[<<e, r>>]
    BY DEF DeadlineVerdictIsRight
  <2> DEFINE M == MatchedRows(e, r, shared)
             T == {row.at : row \in M}
  <2>1. /\ r \in Requests
        /\ stopTime[<<e, r>>] \in Nat
    BY <1>1, Types DEF IndInv, TypeOK, FlowMetadata
  <2>2. \A row \in M : row \in FilterRows(e, shared) /\ stream[row.id][2][1] = r
    BY DEF MatchedRows, JoinKey
  <2>3. T \in SUBSET Nat BY <1>1, <2>2, RowFacts
  <2>4. r \in CacheBeforeFct(e, shared) <=> M # {} /\ Min(T) <= stopTime[<<e, r>>]
    BY DEF CacheBeforeFct, Classified, CacheUpdated
  <2>5. ASSUME M # {}, Min(T) <= stopTime[<<e, r>>]
        PROVE  \E k \in Keys : k[1] = r /\ labelledAt[<<e, k>>] \in 1 .. stopTime[<<e, r>>]
    <3>1. Min(T) \in T
      <4>1. T # {} BY <2>5
      <4> HIDE DEF T
      <4> QED BY <2>3, <4>1, MinFacts
    <3>2. PICK row \in M : row.at = Min(T) BY <3>1
    <3>3. row \in FilterRows(e, shared) /\ stream[row.id][2][1] = r BY <2>2
    <3> DEFINE f == stream[row.id]
    <3>4. /\ f \in Flows /\ f[1] = e /\ row.at \in Nat
          /\ row.writer = e => labelledAt[f] \in 1 .. row.at
          /\ row.writer # e => stopTime[<<e, r>>] < row.at
      BY <1>1, <2>1, <3>3, RowFacts
    <3>5. row.writer = e BY <2>1, <2>5, <3>2, <3>4
    <3>6. labelledAt[f] \in 1 .. stopTime[<<e, r>>] BY <2>1, <2>5, <3>2, <3>4, <3>5
    <3>7. f[2] \in Keys /\ f[2][1] = r /\ f = <<e, f[2]>> BY <1>1, <3>3, <3>4, Types DEF IndInv
    <3> QED BY <3>6, <3>7
  <2>6. ASSUME NEW k \in Keys, k[1] = r, labelledAt[<<e, k>>] \in 1 .. stopTime[<<e, r>>],
               NEW row \in ToSet(log), row.writer = e, RowPoint(row) = Home[k],
               row.at \in labelledAt[<<e, k>>] .. stopTime[<<e, r>>]
        PROVE  M # {} /\ Min(T) <= stopTime[<<e, r>>]
    <3> DEFINE f == <<e, k>>
    <3>1. f \in Flows /\ f[1] = e /\ f[2] = k BY DEF Flows
    <3>2. labelledAt[f] # 0 /\ labelledAt[f] <= row.at /\ row.at <= stopTime[<<e, r>>] /\ row.at \in Nat
      <4>1. row.at \in Nat BY <1>1, LogTypes DEF IndInv, ToSet
      <4> QED BY <2>1, <2>6, <4>1
    <3> HIDE DEF f
    <3>3. RowPoint(row) = Home[f[2]] BY <2>6, <3>1
    <3>4. PICK own \in FilterRows(e, shared) :
            stream[own.id] = f /\ own.at <= row.at /\ own.at \in Nat
      BY <1>1, <2>6, <3>1, <3>2, <3>3, LabelRow
    <3>5. own \in M BY <2>6, <3>1, <3>4 DEF MatchedRows, JoinKey
    <3>6. own.at \in T BY <3>5
    <3>7. Min(T) <= own.at /\ Min(T) \in Nat
      <4> HIDE DEF T
      <4> QED BY <2>3, <3>6, MinFacts
    <3> HIDE DEF T
    <3>8. Min(T) <= stopTime[<<e, r>>] BY <2>1, <3>2, <3>4, <3>7
    <3> QED BY <3>5, <3>8
  <2> QED BY <2>4, <2>5, <2>6
<1> QED BY <1>1, Invariant, PTL

\* The flows online_e2e_latency counts are flows that their own process labelled,
\* and with a shared log perhaps some whose answer came when the run was over;
\* the labelled flows that it does not count are the last of their process.
THEOREM CountedFlows == Spec => []CountedFlowsClosedTheirLoop
<1>1. ASSUME IndInv PROVE CountedFlowsClosedTheirLoop
  <2> SUFFICES ASSUME NEW e \in Experiments
               PROVE  LET closed == {f \in Flows : f[1] = e /\ labelledAt[f] # 0}
                      IN /\ UniqueLogicalFlows(e, FALSE) \subseteq closed
                         /\ UniqueLogicalFlows(e, TRUE) \ closed
                              \subseteq {stream[id] : id \in carried}
                         /\ \A f \in closed \ UniqueLogicalFlows(e, FALSE), row \in ToSet(log) :
                              row.writer = e /\ RowPoint(row) = Home[f[2]] => row.at < labelledAt[f]
    BY DEF CountedFlowsClosedTheirLoop
  <2> DEFINE closed == {f \in Flows : f[1] = e /\ labelledAt[f] # 0}
  <2>1. ASSUME NEW shared \in BOOLEAN, NEW row \in FilterRows(e, shared)
        PROVE  stream[row.id] \in closed \/ (shared /\ row.id \in carried)
    BY <1>1, RowFacts
  <2>2. UniqueLogicalFlows(e, FALSE) \subseteq closed BY <2>1 DEF UniqueLogicalFlows
  <2>3. UniqueLogicalFlows(e, TRUE) \ closed \subseteq {stream[id] : id \in carried}
    BY <2>1 DEF UniqueLogicalFlows
  <2>4. ASSUME NEW f \in closed \ UniqueLogicalFlows(e, FALSE), NEW row \in ToSet(log),
               row.writer = e, RowPoint(row) = Home[f[2]]
        PROVE  row.at < labelledAt[f]
    <3>1. row.at \in Nat /\ labelledAt[f] \in Nat
      <4>1. row.at \in Nat BY <1>1, LogTypes DEF IndInv, ToSet
      <4>2. f \in Flows /\ labelledAt \in [Flows -> 0 .. clock] BY <1>1 DEF IndInv, TypeOK
      <4>3. labelledAt[f] \in 0 .. clock BY <4>2
      <4> QED BY <4>1, <4>3
    <3>2. SUFFICES ASSUME labelledAt[f] <= row.at PROVE FALSE BY <3>1
    <3>3. f \in Flows /\ f[1] = e /\ labelledAt[f] # 0 OBVIOUS
    <3>4. PICK shared \in BOOLEAN : shared = FALSE OBVIOUS
    <3>5. \E own \in FilterRows(e, shared) :
             stream[own.id] = f /\ own.at <= row.at /\ own.at \in Nat
      <4> HIDE DEF closed
      <4> QED BY <1>1, <2>4, <3>2, <3>3, LabelRow
    <3> QED BY <3>4, <3>5 DEF UniqueLogicalFlows
  <2> QED BY <2>2, <2>3, <2>4
<1> QED BY <1>1, Invariant, PTL

\* Up to one count of both streams, a request misses its row only when a later
\* request had its row written before: else the rows up to the count would all
\* name different requests up to the count, and so leave none out.
THEOREM SampleMisses == Spec => []SampleMissesRowOnlyByOverlap
<1>1. ASSUME IndInv PROVE SampleMissesRowOnlyByOverlap
  <2> SUFFICES ASSUME NEW n \in Ids, NEW id \in 1 .. n, id \in ToSet(rows),
                      id \notin MergedSamples(n)
               PROVE  \E i, j \in 1 .. Len(rows) : i < j /\ rows[i] > n /\ rows[j] = id
    BY DEF SampleMissesRowOnlyByOverlap
  <2>1. /\ n \in Nat /\ id \in Ids /\ Len(stream) \in Nat
        /\ Ids = 1 .. Len(stream)
        /\ rows \in Seq(Ids) /\ Len(rows) \in Nat /\ DOMAIN rows = 1 .. Len(rows)
        /\ \A i \in 1 .. Len(rows) : rows[i] \in Ids /\ rows[i] \in Nat
    <3>1. Len(stream) \in Nat /\ Ids = 1 .. Len(stream) BY <1>1, Types DEF IndInv, Ids
    <3>2. rows \in Seq(Ids) BY <1>1 DEF IndInv, TypeOK
    <3>3. \A i \in 1 .. Len(rows) : rows[i] \in Ids
      <4> HIDE DEF Ids
      <4> QED BY <3>2
    <3> QED BY <3>1, <3>2, <3>3
  <2>2. PICK j \in 1 .. Len(rows) : rows[j] = id BY <2>1 DEF ToSet
  <2> DEFINE m == Min({n, Len(rows)})
  <2>3. m \in Nat /\ m <= n /\ m <= Len(rows) /\ (m = n \/ m = Len(rows))
    <3>1. {n, Len(rows)} \in SUBSET Nat /\ {n, Len(rows)} # {} BY <2>1
    <3>2. m \in {n, Len(rows)} /\ \A i \in {n, Len(rows)} : m <= i BY <3>1, MinFacts
    <3> QED BY <2>1, <3>2
  <2> HIDE DEF m
  <2>4. /\ DOMAIN SubSeq(rows, 1, m) = 1 .. m
        /\ \A i \in 1 .. m : SubSeq(rows, 1, m)[i] = rows[i]
    BY <2>1, <2>3, SubSeqFacts
  <2>5. \A i \in 1 .. m : rows[i] # id
    <3>1. id \notin ToSet(SubSeq(rows, 1, m)) BY <2>1 DEF MergedSamples, m
    <3> QED BY <2>4, <3>1 DEF ToSet
  <2>6. j > m /\ m = n
    <3>1. ~ (j \in 1 .. m) BY <2>2, <2>5
    <3>2. j \in Nat /\ 1 <= j /\ j <= Len(rows) BY <2>1
    <3>3. ~ (j <= m) BY <3>1, <3>2
    <3>4. m # Len(rows) BY <3>2, <3>3
    <3>5. m = n BY <2>3, <3>4, Zenon
    <3>6. j > m BY <2>3, <3>2, <3>3
    <3> QED BY <3>5, <3>6
  <2>7. \E i \in 1 .. n : rows[i] > n
    <3> SUFFICES ASSUME \A i \in 1 .. n : ~ (rows[i] > n) PROVE FALSE OBVIOUS
    <3> DEFINE g == [i \in 1 .. n |-> rows[i]]
    <3>1. \A i \in 1 .. n : rows[i] \in 1 .. n BY <2>1, <2>3, <2>6
    <3>2. g \in [1 .. n -> 1 .. n] BY <3>1
    <3>3. \A i, k \in 1 .. n : g[i] = g[k] => i = k
      <4>1. \A i \in 1 .. n : i \in DOMAIN rows /\ g[i] = rows[i] BY <2>1, <2>3, <2>6
      <4>2. \A i, k \in DOMAIN rows : rows[i] = rows[k] => i = k BY <1>1 DEF IndInv, PublishFacts
      <4> QED BY <4>1, <4>2
    <3>4. \E i \in 1 .. n : g[i] = id
      <4> HIDE DEF g
      <4> QED BY <2>1, <3>2, <3>3, Pigeonhole, ZenonT(60)
    <3> QED BY <2>5, <2>6, <3>4
  <2> QED BY <2>1, <2>2, <2>3, <2>6, <2>7
<1> QED BY <1>1, Invariant, PTL
=============================================================================
