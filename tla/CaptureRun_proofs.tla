------------------------- MODULE CaptureRun_proofs -------------------------
(***************************************************************************)
(* Proofs about CaptureRun, for any number of capture points.              *)
(***************************************************************************)
EXTENDS CaptureRun, TLAPS

-----------------------------------------------------------------------------
(* The processes stop() goes through. *)

\* The second capturer is appended to the list of the first.
LEMMA AppendToOne ==
  ASSUME NEW S, NEW a \in S, NEW b \in S
  PROVE  Append(<<a>>, b) = <<a, b>>
<1> DEFINE s == Append(<<a>>, b)
           t == <<a, b>>
<1>1. s \in Seq(S) /\ Len(s) = 2 /\ s[1] = a /\ s[2] = b OBVIOUS
<1>2. t \in Seq(S) /\ Len(t) = 2 /\ t[1] = a /\ t[2] = b OBVIOUS
<1> HIDE DEF s, t
<1>3. \A i \in 1 .. 2 : s[i] = t[i] BY <1>1, <1>2
<1>4. s \in [1 .. 2 -> S] /\ t \in [1 .. 2 -> S] BY <1>1, <1>2
<1>5. s = t BY <1>3, <1>4
<1> QED BY <1>5 DEF s, t

\* What looking at the first process of the list leaves of it.
LEMMA TailFacts ==
  ASSUME NEW S, NEW s \in Seq(S), s # <<>>
  PROVE  /\ Tail(s) \in Seq(S)
         /\ Head(s) \in S
         /\ \A i \in DOMAIN s : s[i] = Head(s) \/ \E j \in DOMAIN Tail(s) : Tail(s)[j] = s[i]
<1>1. /\ Tail(s) \in Seq(S) /\ Head(s) \in S /\ Head(s) = s[1]
      /\ DOMAIN s = 1 .. Len(s) /\ Len(s) \in Nat /\ DOMAIN Tail(s) = 1 .. Len(s) - 1
      /\ \A j \in 1 .. Len(s) - 1 : Tail(s)[j] = s[j + 1]
  OBVIOUS
<1>2. ASSUME NEW i \in DOMAIN s, i # 1 PROVE \E j \in DOMAIN Tail(s) : Tail(s)[j] = s[i]
  <2>1. i - 1 \in 1 .. Len(s) - 1 /\ (i - 1) + 1 = i BY <1>1, <1>2
  <2>2. Tail(s)[i - 1] = s[i] BY <1>1, <2>1
  <2> QED BY <1>1, <2>1, <2>2
<1> QED BY <1>1, <1>2

\* Lists of one and of two capturers' processes, one after the other.
LEMMA FlattenFacts ==
  ASSUME NEW S, NEW a \in Seq(S), NEW b \in Seq(S)
  PROVE  /\ FlattenSeq(<<>>) = <<>>
         /\ FlattenSeq(<<a>>) = a
         /\ FlattenSeq(<<a, b>>) = a \o b
<1>1. FlattenSeq(<<>>) = <<>> BY DEF FlattenSeq
<1>2. FlattenSeq(<<a>>) = a
  <2> DEFINE s == <<a>>
             F(f) == [i \in 1 .. 1 |-> IF i = 1 THEN s[i] ELSE f[i - 1] \o s[i]]
             g == CHOOSE f : f = F(f)
             h == [i \in 1 .. 1 |-> a]
  <2>1. h = F(h) OBVIOUS
  <2>2. g = F(g) BY <2>1
  <2>3. g[1] = a BY <2>2
  <2>4. FlattenSeq(s) = g[1] BY DEF FlattenSeq
  <2> QED BY <2>3, <2>4
<1>3. FlattenSeq(<<a, b>>) = a \o b
  <2> DEFINE s == <<a, b>>
             F(f) == [i \in 1 .. 2 |-> IF i = 1 THEN s[i] ELSE f[i - 1] \o s[i]]
             g == CHOOSE f : f = F(f)
             h == [i \in 1 .. 2 |-> IF i = 1 THEN a ELSE a \o b]
  <2>1. h = F(h) OBVIOUS
  <2>2. g = F(g) BY <2>1
  <2>3. FlattenSeq(s) = g[2] BY DEF FlattenSeq
  <2> HIDE DEF g
  <2>4. \A i \in 1 .. 2 : g[i] = IF i = 1 THEN s[i] ELSE g[i - 1] \o s[i] BY <2>2
  <2>5. s[1] = a /\ s[2] = b /\ 2 - 1 = 1 OBVIOUS
  <2> HIDE DEF s
  <2>6. g[1] = a BY <2>4, <2>5
  <2>7. 2 \in 1 .. 2 /\ 2 # 1 OBVIOUS
  <2>8. g[2] = g[2 - 1] \o s[2] BY <2>4, <2>7, Zenon
  <2> QED BY <2>3, <2>5, <2>6, <2>8 DEF s
<1> QED BY <1>1, <1>2, <1>3

\* The processes of a capturer are in its list.
LEMMA ProcessesOfFacts ==
  ASSUME TypeOK, NEW c \in Capturers
  PROVE  /\ ProcessesOf(c) \in Seq(Processes)
         /\ \A n \in Points : n <= processes[c] =>
              n \in DOMAIN ProcessesOf(c) /\ ProcessesOf(c)[n] = <<c, n>>
<1>1. processes[c] \in Nat /\ processes[c] <= PointCount BY PointAssumption DEF TypeOK
<1>2. \A n \in 1 .. processes[c] : <<c, n>> \in Processes
  BY <1>1, PointAssumption DEF Processes, Points
<1>3. \A n \in Points : n <= processes[c] => n \in 1 .. processes[c]
  BY <1>1, PointAssumption DEF Points
<1> QED BY <1>1, <1>2, <1>3 DEF ProcessesOf

\* Either of two lists is part of both.
LEMMA ConcatFacts ==
  ASSUME NEW S, NEW a \in Seq(S), NEW b \in Seq(S)
  PROVE  /\ a \o b \in Seq(S)
         /\ \A i \in DOMAIN a : i \in DOMAIN (a \o b) /\ (a \o b)[i] = a[i]
         /\ \A i \in DOMAIN b : Len(a) + i \in DOMAIN (a \o b) /\ (a \o b)[Len(a) + i] = b[i]
  OBVIOUS

\* The lists that stop() goes through, in each mode.
LEMMA ManagedLists ==
  ASSUME TypeOK,
         started = ReturnedCapturers
  PROVE  ManagedProcesses =
           CASE mode = "none" -> <<>>
             [] mode = "pcap" -> ProcessesOf("pcap")
             [] mode \in {"tshark", "xdp"} -> ProcessesOf("online")
             [] mode = "xdp-verify" /\ position = 1 -> <<>>
             [] mode = "xdp-verify" /\ position = 2 -> ProcessesOf("pcap")
             [] mode = "xdp-verify" /\ position = 3 -> ProcessesOf("online") \o ProcessesOf("pcap")
<1>1. ProcessesOf("pcap") \in Seq(Processes) /\ ProcessesOf("online") \in Seq(Processes)
  BY ProcessesOfFacts DEF Capturers
<1>2. /\ FlattenSeq(<<>>) = <<>>
      /\ FlattenSeq(<<ProcessesOf("pcap")>>) = ProcessesOf("pcap")
      /\ FlattenSeq(<<ProcessesOf("online")>>) = ProcessesOf("online")
      /\ FlattenSeq(<<ProcessesOf("online"), ProcessesOf("pcap")>>) =
           ProcessesOf("online") \o ProcessesOf("pcap")
  BY <1>1, FlattenFacts
<1>3. CASE mode = "none"
  <2>1. [i \in DOMAIN CapturersOf(mode) |-> ProcessesOf(CapturersOf(mode)[i])] = <<>>
    BY <1>3 DEF CapturersOf
  <2> QED BY <1>2, <1>3, <2>1 DEF ManagedProcesses
<1>4. CASE mode = "pcap"
  <2>1. [i \in DOMAIN CapturersOf(mode) |-> ProcessesOf(CapturersOf(mode)[i])] = <<ProcessesOf("pcap")>>
    BY <1>4 DEF CapturersOf
  <2> QED BY <1>2, <1>4, <2>1 DEF ManagedProcesses
<1>5. CASE mode \in {"tshark", "xdp"}
  <2>1. [i \in DOMAIN CapturersOf(mode) |-> ProcessesOf(CapturersOf(mode)[i])] = <<ProcessesOf("online")>>
    BY <1>5 DEF CapturersOf
  <2> QED BY <1>2, <1>5, <2>1 DEF ManagedProcesses
<1>6. CASE mode = "xdp-verify"
  <2>2. /\ position = 1 => started = <<>>
        /\ position = 2 => started = <<"pcap">>
        /\ position = 3 => started = <<"pcap", "online">>
    BY <1>6 DEF ReturnedCapturers
  <2>3. CASE position = 1
    <3>1. started = <<>> BY <2>2, <2>3
    <3>2. [i \in DOMAIN started |-> ProcessesOf(Reverse(started)[i])] = <<>> BY <3>1
    <3> QED BY <1>2, <1>6, <2>3, <3>2 DEF ManagedProcesses
  <2>4. CASE position = 2
    <3>1. started = <<"pcap">> BY <2>2, <2>4
    <3>2. DOMAIN started = 1 .. 1 /\ Reverse(started) = <<"pcap">>
      <4>1. Reverse(started) = [i \in 1 .. 1 |-> <<"pcap">>[1 - i + 1]] BY <3>1 DEF Reverse
      <4> QED BY <3>1, <4>1
    <3>3. [i \in 1 .. 1 |-> ProcessesOf(<<"pcap">>[i])] = <<ProcessesOf("pcap")>> OBVIOUS
    <3> QED BY <1>2, <1>6, <2>4, <3>2, <3>3 DEF ManagedProcesses
  <2>5. CASE position = 3
    <3>1. started = <<"pcap", "online">> BY <2>2, <2>5
    <3>2. DOMAIN started = 1 .. 2 /\ Reverse(started) = <<"online", "pcap">>
      <4>1. Reverse(started) = [i \in 1 .. 2 |-> <<"pcap", "online">>[2 - i + 1]] BY <3>1 DEF Reverse
      <4> QED BY <3>1, <4>1
    <3>3. [i \in 1 .. 2 |-> ProcessesOf(<<"online", "pcap">>[i])]
            = <<ProcessesOf("online"), ProcessesOf("pcap")>>
      OBVIOUS
    <3>4. ManagedProcesses = FlattenSeq([i \in 1 .. 2 |-> ProcessesOf(<<"online", "pcap">>[i])])
      BY <1>6, <3>2 DEF ManagedProcesses
    <3>5. ManagedProcesses = ProcessesOf("online") \o ProcessesOf("pcap")
      BY <1>2, <3>3, <3>4
    <3> QED BY <1>6, <2>5, <3>5
  <2>6. position = 1 \/ position = 2 \/ position = 3 BY DEF TypeOK
  <2> QED BY <2>3, <2>4, <2>5, <2>6
<1>7. mode \in Modes BY DEF TypeOK
<1> QED BY <1>3, <1>4, <1>5, <1>6, <1>7 DEF Modes

\* When stop() begins and none has returned yet, every process that is alive is
\* in the list it goes through, or in nobody's.
LEMMA ManagedCovers ==
  ASSUME TypeOK, ListsAreRight, started = ReturnedCapturers
  PROVE  /\ ManagedProcesses \in Seq(Processes)
         /\ \A p \in Processes : Live(p) =>
              Unlisted(p) \/ \E i \in DOMAIN ManagedProcesses : ManagedProcesses[i] = p
<1>1. started = ReturnedCapturers OBVIOUS
<1>2. position \in 1 .. 3 /\ mode \in Modes BY DEF TypeOK
<1>3. ProcessesOf("pcap") \in Seq(Processes) /\ ProcessesOf("online") \in Seq(Processes)
  BY ProcessesOfFacts DEF Capturers
<1>4. ManagedProcesses \in Seq(Processes)
  <2>1. ProcessesOf("online") \o ProcessesOf("pcap") \in Seq(Processes) BY <1>3
  <2>2. <<>> \in Seq(Processes) OBVIOUS
  <2>3. position = 1 \/ position = 2 \/ position = 3 BY <1>2
  <2>4. \/ ManagedProcesses = <<>>
        \/ ManagedProcesses = ProcessesOf("pcap")
        \/ ManagedProcesses = ProcessesOf("online")
        \/ ManagedProcesses = ProcessesOf("online") \o ProcessesOf("pcap")
    BY <1>1, <1>2, <2>3, ManagedLists DEF Modes
  <2> QED BY <1>3, <2>1, <2>2, <2>4
<1>5. ASSUME NEW p \in Processes, Live(p), ~Unlisted(p)
      PROVE  \E i \in DOMAIN ManagedProcesses : ManagedProcesses[i] = p
  <2>1. PICK c \in Capturers, n \in Points : p = <<c, n>> BY DEF Processes
  <2>2. n <= processes[c] /\ processes[c] > 0
    <3>1. n <= processes[c] BY <1>5, <2>1 DEF ListsAreRight, Live
    <3> QED BY <3>1, PointAssumption DEF TypeOK, Points
  <2>3. n \in DOMAIN ProcessesOf(c) /\ ProcessesOf(c)[n] = p BY <2>1, <2>2, ProcessesOfFacts
  <2>4. PICK i \in DOMAIN CapturersOf(mode) : i <= position /\ CapturersOf(mode)[i] = c
    BY <2>2 DEF ListsAreRight
  <2>5. CASE mode \in {"none", "pcap", "tshark", "xdp"}
    <3>1. ManagedProcesses = ProcessesOf(c)
      BY <1>1, <2>4, <2>5, ManagedLists DEF CapturersOf
    <3> QED BY <2>3, <3>1
  <2>6. CASE mode = "xdp-verify"
    <3>1. CapturersOf(mode) = <<"pcap", "online">> BY <2>6 DEF CapturersOf
    <3>2. position <= 2 => i < position
      <4>1. position <= 2 => c # CapturersOf(mode)[position]
        <5>1. p[1] = c /\ Len(CapturersOf(mode)) = 2 BY <2>1, <3>1
        <5> QED BY <1>5, <2>6, <5>1 DEF Unlisted, Starting
      <4> QED BY <1>2, <2>4, <3>1, <4>1
    <3>3. CASE position = 3
      <4>1. ManagedProcesses = ProcessesOf("online") \o ProcessesOf("pcap")
        BY <1>1, <2>6, <3>3, ManagedLists
      <4>2. c = "online" \/ c = "pcap" BY DEF Capturers
      <4>3. CASE c = "online" BY <1>3, <2>3, <4>1, <4>3, ConcatFacts
      <4>4. CASE c = "pcap"
        <5> DEFINE k == Len(ProcessesOf("online")) + n
        <5>1. k \in DOMAIN ManagedProcesses /\ ManagedProcesses[k] = p
          BY <1>3, <2>3, <4>1, <4>4, ConcatFacts
        <5> QED BY <5>1
      <4> QED BY <4>2, <4>3, <4>4
    <3>4. CASE position = 2
      <4>1. ManagedProcesses = ProcessesOf("pcap") BY <1>1, <2>6, <3>4, ManagedLists
      <4>2. c = "pcap" BY <2>4, <3>1, <3>2, <3>4
      <4> QED BY <2>3, <4>1, <4>2
    <3>5. position # 1 BY <2>4, <3>1, <3>2
    <3> QED BY <1>2, <3>3, <3>4, <3>5
  <2> QED BY <1>2, <2>5, <2>6 DEF Modes
<1> QED BY <1>4, <1>5

-----------------------------------------------------------------------------
(* What the steps leave alone. *)

\* The capturers' lists and what was started stay as they are.
LEMMA ListsKept ==
  ASSUME ListsAreRight, UNCHANGED <<mode, position, processes>>,
         \A p \in Processes : process'[p] = "none" <=> process[p] = "none"
  PROVE  /\ ListsAreRight'
         /\ \A p \in Processes : Unlisted(p)' <=> Unlisted(p)
<1>1. \A p \in Processes : Unlisted(p)' <=> Unlisted(p) BY DEF Unlisted, Starting
<1>2. CapturersOf(mode)' = CapturersOf(mode) OBVIOUS
<1>3. ASSUME NEW c \in Capturers, NEW n \in Points
      PROVE  /\ n <= processes'[c] => process'[<<c, n>>] # "none"
             /\ process'[<<c, n>>] # "none" => n <= processes'[c] \/ Unlisted(<<c, n>>)'
  <2>1. <<c, n>> \in Processes BY DEF Processes
  <2>2. /\ n <= processes[c] => process[<<c, n>>] # "none"
        /\ process[<<c, n>>] # "none" => n <= processes[c] \/ Unlisted(<<c, n>>)
    BY DEF ListsAreRight
  <2>3. process'[<<c, n>>] = "none" <=> process[<<c, n>>] = "none" BY <2>1
  <2>4. Unlisted(<<c, n>>)' <=> Unlisted(<<c, n>>) BY <1>1, <2>1
  <2> QED BY <2>2, <2>3, <2>4
<1> QED BY <1>1, <1>2, <1>3 DEF ListsAreRight

\* Before a stop() has returned or a copy was made nothing is claimed of them.
LEMMA EarlyKept ==
  ASSUME StoppingFacts, pc \notin {"copy", "analysis", "ended"} \cup FinallyPcs
  PROVE  done = {} /\ ~saved
BY DEF StoppingFacts

LEMMA NothingToClaim ==
  ASSUME done' = {}, ~saved'
  PROVE  NothingOutlivesRun' /\ CopiesAreComplete'
BY DEF NothingOutlivesRun, CopiesAreComplete, Stopped

\* The properties are kept when processes only end.
LEMMA OnlyEnding ==
  ASSUME ListsAreRight, NothingOutlivesRun, CopiesAreComplete,
         UNCHANGED <<mode, position, processes, network, ryu, copied, saved, done>>,
         \A p \in Processes : /\ Live(p)' => Live(p)
                              /\ process'[p] = "none" <=> process[p] = "none"
                              /\ process[p] \in {"died", "killed"} => process'[p] \in {"died", "killed"}
  PROVE  NothingOutlivesRun' /\ CopiesAreComplete'
<1>1. \A p \in Processes : Unlisted(p)' <=> Unlisted(p) BY DEF Unlisted, Starting
<1>2. Tsharks' = Tsharks /\ Tsharks \subseteq Processes BY DEF Tsharks
<1>3. NothingOutlivesRun' BY <1>1, <1>2 DEF NothingOutlivesRun, Stopped
<1>4. CopiesAreComplete' BY <1>1 DEF CopiesAreComplete, Stopped
<1> QED BY <1>3, <1>4

\* Steps that touch no process and no list.
LEMMA QuietStep ==
  ASSUME IndInv, UNCHANGED <<mode, position, processes, process>>
  PROVE  /\ ListsAreRight'
         /\ \A p \in Processes : (Unlisted(p)' <=> Unlisted(p)) /\ (Live(p)' <=> Live(p))
         /\ Tsharks' = Tsharks /\ Tsharks \subseteq Processes
         /\ ReturnedCapturers' = ReturnedCapturers
<1>1. \A p \in Processes : process'[p] = "none" <=> process[p] = "none" OBVIOUS
<1>2. ListsAreRight' /\ \A p \in Processes : Unlisted(p)' <=> Unlisted(p)
  BY <1>1, ListsKept DEF IndInv
<1> QED BY <1>2 DEF Live, Tsharks, ReturnedCapturers

-----------------------------------------------------------------------------
(* The steps. *)

\* No process has been started.
LEMMA InitInv == Init => IndInv
<1> SUFFICES ASSUME Init PROVE IndInv
  OBVIOUS
<1>1. TypeOK
  <2>1. 0 \in 0 .. PointCount /\ 1 \in 1 .. 3 /\ <<>> \in Seq(Capturers) /\ <<>> \in Seq(Processes)
    BY PointAssumption
  <2> QED BY <2>1 DEF Init, TypeOK, Pcs
<1>2. ListsAreRight
  BY PointAssumption DEF Init, ListsAreRight, Capturers, Processes, Points
<1>3. StartFacts BY DEF Init, StartFacts, ReturnedCapturers
<1>4. LiveAreListed BY DEF Init, LiveAreListed, StoppingPcs
<1>5. StoppingFacts BY DEF Init, StoppingFacts
<1>6. NothingOutlivesRun /\ CopiesAreComplete
  BY DEF Init, NothingOutlivesRun, CopiesAreComplete, Stopped
<1> QED BY <1>1, <1>2, <1>3, <1>4, <1>5, <1>6 DEF IndInv

\* The controller and the network are started.
LEMMA BeforeInv == IndInv /\ (StartRyu \/ WaitForRyu \/ StartNetwork) => IndInv'
<1> SUFFICES ASSUME IndInv, StartRyu \/ WaitForRyu \/ StartNetwork PROVE IndInv'
  OBVIOUS
<1>1. /\ pc \in {"ryu", "wait", "network"}
      /\ pc' \in {"wait", "network", "start", "traffic"}
      /\ pc' = "start" => mode # "none"
      /\ UNCHANGED <<mode, position, processes, process, started, toStop, copied, saved, done>>
      /\ network' = network \/ network' = "built"
      /\ ryu' = ryu \/ ryu' = "up"
  BY DEF StartRyu, WaitForRyu, StartNetwork, capturerVars, startVars
<1>2. TypeOK' BY <1>1 DEF IndInv, TypeOK, Pcs, TryPcs
<1>3. StartFacts'
  <2>1. mode # "none" => 1 \in DOMAIN CapturersOf(mode) BY DEF IndInv, TypeOK, Modes, CapturersOf
  <2>2. position = 1 /\ started = ReturnedCapturers BY <1>1 DEF IndInv, StartFacts
  <2>3. ReturnedCapturers' = ReturnedCapturers /\ CapturersOf(mode)' = CapturersOf(mode)
    BY <1>1 DEF ReturnedCapturers
  <2> QED BY <1>1, <2>1, <2>2, <2>3 DEF StartFacts
<1>4. LiveAreListed' BY <1>1 DEF LiveAreListed, StoppingPcs
<1>5. done = {} /\ ~saved BY <1>1, EarlyKept DEF IndInv, FinallyPcs
<1>6. StoppingFacts' BY <1>1, <1>5 DEF IndInv, StoppingFacts
<1>7. NothingOutlivesRun' /\ CopiesAreComplete' BY <1>1, <1>5, NothingToClaim
<1> QED BY <1>1, <1>2, <1>3, <1>4, <1>6, <1>7, QuietStep DEF IndInv

\* The capturer being started is one of the two, and its next number is in range.
LEMMA StartingFacts ==
  ASSUME IndInv, pc \in {"start", "append", "check"}
  PROVE  /\ position \in DOMAIN CapturersOf(mode) /\ position <= Len(CapturersOf(mode))
         /\ Len(CapturersOf(mode)) \in Nat /\ Len(CapturersOf(mode)) <= 2
         /\ DOMAIN CapturersOf(mode) = 1 .. Len(CapturersOf(mode))
         /\ mode = "xdp-verify" => CapturersOf(mode) = <<"pcap", "online">>
         /\ Starting \in Capturers /\ Starting = CapturersOf(mode)[position]
         /\ processes[Starting] \in Nat
         /\ processes[Starting] < PointCount =>
              NextNumber \in Points /\ <<Starting, NextNumber>> \in Processes
<1>1. position \in DOMAIN CapturersOf(mode) /\ mode \in Modes BY DEF IndInv, StartFacts, TypeOK
<1>2. /\ CapturersOf(mode) \in {<<>>, <<"pcap">>, <<"online">>, <<"pcap", "online">>}
      /\ mode = "xdp-verify" => CapturersOf(mode) = <<"pcap", "online">>
  BY <1>1 DEF CapturersOf, Modes
<1>3. ASSUME NEW s \in {<<>>, <<"pcap">>, <<"online">>, <<"pcap", "online">>}
      PROVE  /\ Len(s) \in Nat /\ Len(s) <= 2 /\ DOMAIN s = 1 .. Len(s)
             /\ \A i \in DOMAIN s : i <= Len(s) /\ s[i] \in Capturers
  <2>1. CASE s = <<>> BY <2>1
  <2>2. CASE s = <<"pcap">> BY <2>2 DEF Capturers
  <2>3. CASE s = <<"online">> BY <2>3 DEF Capturers
  <2>4. CASE s = <<"pcap", "online">> BY <2>4 DEF Capturers
  <2> QED BY <1>3, <2>1, <2>2, <2>3, <2>4
<1>4. Starting \in Capturers /\ position <= Len(CapturersOf(mode))
  BY <1>1, <1>2, <1>3 DEF Starting
<1>5. processes[Starting] \in Nat BY <1>4, PointAssumption DEF IndInv, TypeOK
<1>6. processes[Starting] < PointCount => NextNumber \in Points
  BY <1>5, PointAssumption DEF NextNumber, Points
<1> QED BY <1>1, <1>2, <1>3, <1>4, <1>5, <1>6 DEF Starting, Processes

\* popen: a process that is up and in no list yet.
LEMMA OpenProcessInv == IndInv /\ OpenProcess => IndInv'
<1> SUFFICES ASSUME IndInv, OpenProcess PROVE IndInv'
  OBVIOUS
<1> DEFINE q == <<Starting, NextNumber>>
<1>1. /\ pc = "start" /\ pc' = "append" /\ processes[Starting] < PointCount
      /\ process' = [process EXCEPT ![q] = "up"]
      /\ UNCHANGED <<mode, position, processes, started, toStop, network, ryu, copied, saved, done>>
  BY DEF OpenProcess, startVars
<1>2. /\ position \in DOMAIN CapturersOf(mode) /\ position <= Len(CapturersOf(mode))
      /\ Starting \in Capturers /\ processes[Starting] \in Nat
      /\ NextNumber \in Points /\ q \in Processes
  BY <1>1, StartingFacts
<1>3. Starting' = Starting /\ NextNumber' = NextNumber /\ ReturnedCapturers' = ReturnedCapturers
      /\ CapturersOf(mode)' = CapturersOf(mode)
  BY <1>1 DEF Starting, NextNumber, ReturnedCapturers
<1>4. /\ process \in [Processes -> {"none", "up", "signalled", "stopped", "killed", "died", "swept"}]
      /\ \A p \in Processes : process'[p] = IF p = q THEN "up" ELSE process[p]
  BY <1>1, <1>2 DEF IndInv, TypeOK
<1> HIDE DEF q
<1>5. TypeOK'
  <2>1. process' \in [Processes -> {"none", "up", "signalled", "stopped", "killed", "died", "swept"}]
    BY <1>1, <1>4
  <2> QED BY <1>1, <2>1 DEF IndInv, TypeOK, Pcs, TryPcs
<1>6. ListsAreRight'
  <2>1. \A p \in Processes : Unlisted(p)' <=> Unlisted(p) BY <1>1, <1>3 DEF Unlisted
  <2>2. ASSUME NEW c \in Capturers, NEW n \in Points
        PROVE  /\ n <= processes'[c] => process'[<<c, n>>] # "none"
               /\ process'[<<c, n>>] # "none" => n <= processes'[c] \/ Unlisted(<<c, n>>)'
    <3>1. <<c, n>> \in Processes BY DEF Processes
    <3>2. /\ n <= processes[c] => process[<<c, n>>] # "none"
          /\ process[<<c, n>>] # "none" => n <= processes[c] \/ Unlisted(<<c, n>>)
      BY DEF IndInv, ListsAreRight
    <3>3. CASE <<c, n>> = q
      <4>1. c = Starting /\ n = NextNumber BY <3>3 DEF q
      <4>2. n > processes[Starting] BY <1>2, <4>1 DEF NextNumber
      <4>3. <<c, n>>[1] = c /\ <<c, n>>[2] = n OBVIOUS
      <4>4. Unlisted(<<c, n>>) BY <1>2, <4>1, <4>2, <4>3 DEF Unlisted
      <4>5. process'[<<c, n>>] = "up" BY <1>4, <3>1, <3>3
      <4> QED BY <2>1, <3>1, <4>4, <4>5
    <3>4. CASE <<c, n>> # q
      <4>1. process'[<<c, n>>] = process[<<c, n>>] BY <1>4, <3>1, <3>4
      <4> QED BY <1>1, <2>1, <3>1, <3>2, <4>1
    <3> QED BY <3>3, <3>4
  <2> QED BY <1>1, <1>3, <2>2 DEF IndInv, ListsAreRight
<1>7. StartFacts'
  <2>1. process'[q] # "none" BY <1>2, <1>4
  <2>2. started = ReturnedCapturers BY <1>1 DEF IndInv, StartFacts
  <2> QED BY <1>1, <1>2, <1>3, <2>1, <2>2 DEF StartFacts, q
<1>8. LiveAreListed' BY <1>1 DEF LiveAreListed, StoppingPcs
<1>9. done = {} /\ ~saved BY <1>1, EarlyKept DEF IndInv, FinallyPcs
<1>10. StoppingFacts'
  <2>1. \A p \in Processes : process'[p] # "swept" BY <1>1, <1>4 DEF IndInv, StoppingFacts
  <2> QED BY <1>1, <1>9, <2>1 DEF IndInv, StoppingFacts
<1>11. NothingOutlivesRun' /\ CopiesAreComplete' BY <1>1, <1>9, NothingToClaim
<1> QED BY <1>5, <1>6, <1>7, <1>8, <1>10, <1>11 DEF IndInv

\* processes.append: the process is listed, unless the combined capturer does
\* not know its capturer yet.
LEMMA AppendProcessInv == IndInv /\ AppendProcess => IndInv'
<1> SUFFICES ASSUME IndInv, AppendProcess PROVE IndInv'
  OBVIOUS
<1> DEFINE s == Starting
           k == NextNumber
<1>1. /\ pc = "append" /\ pc' = "start"
      /\ processes' = [processes EXCEPT ![s] = k]
      /\ UNCHANGED <<mode, position, started, process, toStop, network, ryu, copied, saved, done>>
  BY DEF AppendProcess
<1>2. /\ processes[s] < PointCount /\ process[<<s, k>>] # "none"
      /\ started = ReturnedCapturers
  BY <1>1 DEF IndInv, StartFacts
<1>3. /\ position \in DOMAIN CapturersOf(mode) /\ position <= Len(CapturersOf(mode))
      /\ s \in Capturers /\ processes[s] \in Nat /\ k \in Points
      /\ s = CapturersOf(mode)[position]
  BY <1>1, <1>2, StartingFacts
<1>4. Starting' = s /\ ReturnedCapturers' = ReturnedCapturers
      /\ CapturersOf(mode)' = CapturersOf(mode)
  BY <1>1 DEF Starting, ReturnedCapturers
<1>5. k = processes[s] + 1 BY DEF NextNumber
<1> HIDE DEF s, k
<1>6. \A c \in Capturers : processes'[c] = IF c = s THEN k ELSE processes[c]
  BY <1>1, <1>3 DEF IndInv, TypeOK
<1>7. TypeOK'
  <2>1. k \in 0 .. PointCount BY <1>3, PointAssumption DEF Points
  <2>2. processes' \in [Capturers -> 0 .. PointCount] BY <1>1, <1>3, <2>1 DEF IndInv, TypeOK
  <2> QED BY <1>1, <2>2 DEF IndInv, TypeOK, Pcs, TryPcs
<1>8. ListsAreRight'
  <2>1. ASSUME NEW c \in Capturers, NEW n \in Points
        PROVE  /\ n <= processes'[c] => process'[<<c, n>>] # "none"
               /\ process'[<<c, n>>] # "none" => n <= processes'[c] \/ Unlisted(<<c, n>>)'
    <3>1. /\ n <= processes[c] => process[<<c, n>>] # "none"
          /\ process[<<c, n>>] # "none" => n <= processes[c] \/ Unlisted(<<c, n>>)
      BY DEF IndInv, ListsAreRight
    <3>2. <<c, n>>[1] = c /\ <<c, n>>[2] = n OBVIOUS
    <3>3. Unlisted(<<c, n>>)' <=> c = s /\ (mode = "xdp-verify" \/ n > processes'[s])
      BY <1>1, <1>3, <1>4, <3>2 DEF Unlisted
    <3>4. Unlisted(<<c, n>>) <=> c = s /\ (mode = "xdp-verify" \/ n > processes[s])
      BY <1>3, <3>2 DEF Unlisted, s
    <3>5. CASE c # s BY <1>1, <1>6, <3>1, <3>4, <3>5
    <3>6. CASE c = s
      <4>1. processes'[c] = processes[s] + 1 BY <1>5, <1>6, <3>6
      <4>2. n \in Nat BY PointAssumption DEF Points
      <4>3. n <= processes[s] + 1 <=> n <= processes[s] \/ n = processes[s] + 1
        BY <1>3, <4>2
      <4>4. n <= processes'[c] \/ n > processes'[s] BY <1>3, <3>6, <4>1, <4>2
      <4>5. n = processes[s] + 1 => process[<<c, n>>] # "none" BY <1>2, <1>5, <3>6
      <4> QED BY <1>1, <3>1, <3>3, <3>6, <4>1, <4>3, <4>4, <4>5
    <3> QED BY <3>5, <3>6
  <2>2. ASSUME NEW d \in Capturers, processes'[d] > 0
        PROVE  \E i \in DOMAIN CapturersOf(mode) : i <= position /\ CapturersOf(mode)[i] = d
    <3>1. CASE d = s
      <4>1. position <= position BY DEF IndInv, TypeOK
      <4> QED BY <1>3, <3>1, <4>1
    <3>2. CASE d # s BY <1>6, <2>2, <3>2 DEF IndInv, ListsAreRight
    <3> QED BY <3>1, <3>2
  <2> QED BY <1>1, <1>4, <2>1, <2>2 DEF ListsAreRight
<1>9. StartFacts' BY <1>1, <1>2, <1>3, <1>4 DEF StartFacts
<1>10. LiveAreListed' BY <1>1 DEF LiveAreListed, StoppingPcs
<1>11. done = {} /\ ~saved BY <1>1, EarlyKept DEF IndInv, FinallyPcs
<1>12. StoppingFacts' BY <1>1, <1>11 DEF IndInv, StoppingFacts
<1>13. NothingOutlivesRun' /\ CopiesAreComplete' BY <1>1, <1>11, NothingToClaim
<1> QED BY <1>7, <1>8, <1>9, <1>10, <1>12, <1>13 DEF IndInv

\* start() of a capturer is through its loop, and returns.
LEMMA StartedInv == IndInv /\ (AllStarted \/ StartReturns) => IndInv'
<1> SUFFICES ASSUME IndInv, AllStarted \/ StartReturns PROVE IndInv'
  OBVIOUS
<1>1. /\ pc \in {"start", "check"} /\ pc' \in {"check", "start", "traffic"}
      /\ UNCHANGED <<mode, processes, process, toStop, network, ryu, copied, saved, done>>
  BY DEF AllStarted, StartReturns, capturerVars, startVars
<1>2. /\ started = ReturnedCapturers
      /\ mode \in Modes /\ position \in 1 .. 3 /\ started \in Seq(Capturers)
      /\ pc = "check" => processes[Starting] = PointCount
  BY <1>1 DEF IndInv, StartFacts, TypeOK
<1>3. /\ position \in DOMAIN CapturersOf(mode) /\ position <= Len(CapturersOf(mode))
      /\ Len(CapturersOf(mode)) \in Nat /\ Len(CapturersOf(mode)) <= 2
      /\ DOMAIN CapturersOf(mode) = 1 .. Len(CapturersOf(mode))
      /\ mode = "xdp-verify" => CapturersOf(mode) = <<"pcap", "online">>
      /\ Starting \in Capturers
  BY <1>1, StartingFacts
<1>4. /\ position' \in 1 .. 3 /\ position <= position'
      /\ started' = ReturnedCapturers' /\ started' \in Seq(Capturers)
      /\ pc' \in {"start", "check"} => position' \in DOMAIN CapturersOf(mode)
      /\ pc' = "check" => position' = position /\ processes[Starting] = PointCount
      /\ position' # position => processes[Starting] = PointCount
  <2>1. CASE AllStarted
    <3>1. position' = position /\ started' = started /\ processes[Starting] = PointCount /\ mode' = mode
      BY <2>1 DEF AllStarted, capturerVars, startVars
    <3> QED BY <1>2, <1>3, <3>1 DEF ReturnedCapturers
  <2>2. CASE StartReturns
    <3>1. /\ position' = position + 1 /\ mode' = mode /\ pc = "check"
          /\ started' = IF mode = "xdp-verify" THEN Append(started, Starting) ELSE started
          /\ pc' = IF position < Len(CapturersOf(mode)) THEN "start" ELSE "traffic"
      BY <2>2 DEF StartReturns
    <3>2. position' \in 1 .. 3 /\ position <= position' BY <1>2, <1>3, <3>1
    <3>3. started' = ReturnedCapturers' /\ started' \in Seq(Capturers)
      <4>1. CASE mode # "xdp-verify" BY <1>2, <3>1, <4>1 DEF ReturnedCapturers
      <4>2. CASE mode = "xdp-verify" /\ position = 1
        <5>1. started = <<>> BY <1>2, <4>2 DEF ReturnedCapturers
        <5>2. Starting = "pcap" BY <1>3, <4>2 DEF Starting
        <5>3. started' = Append(<<>>, "pcap") /\ position' = 2 /\ mode' = "xdp-verify"
          BY <3>1, <4>2, <5>1, <5>2
        <5>4. started' = <<"pcap">> BY <5>3
        <5>5. ReturnedCapturers' = <<"pcap">> BY <5>3 DEF ReturnedCapturers
        <5>6. <<"pcap">> \in Seq(Capturers) BY DEF Capturers
        <5> QED BY <5>4, <5>5, <5>6
      <4>3. CASE mode = "xdp-verify" /\ position = 2
        <5>1. started = <<"pcap">> BY <1>2, <4>3 DEF ReturnedCapturers
        <5>2. Starting = "online" BY <1>3, <4>3 DEF Starting
        <5>3. started' = Append(<<"pcap">>, "online") /\ position' = 3 /\ mode' = "xdp-verify"
          BY <3>1, <4>3, <5>1, <5>2
        <5>4. Append(<<"pcap">>, "online") = <<"pcap", "online">>
          <6>1. "pcap" \in Capturers /\ "online" \in Capturers BY DEF Capturers
          <6> QED BY <6>1, AppendToOne
        <5>5. ReturnedCapturers' = <<"pcap", "online">> BY <5>3 DEF ReturnedCapturers
        <5>6. <<"pcap", "online">> \in Seq(Capturers) BY DEF Capturers
        <5> QED BY <5>3, <5>4, <5>5, <5>6
      <4>4. position = 1 \/ position = 2 BY <1>2, <1>3
      <4> QED BY <4>1, <4>2, <4>3, <4>4
    <3>4. pc' \in {"start", "check"} => position' \in DOMAIN CapturersOf(mode)
      BY <1>2, <1>3, <3>1
    <3>5. processes[Starting] = PointCount /\ pc' # "check" BY <1>2, <3>1
    <3> QED BY <3>2, <3>3, <3>4, <3>5
  <2> QED BY <2>1, <2>2
<1>5. TypeOK' BY <1>1, <1>4 DEF IndInv, TypeOK, Pcs, TryPcs
<1>6. CapturersOf(mode)' = CapturersOf(mode) BY <1>1
<1>7. position' = position => Starting' = Starting BY <1>1 DEF Starting
<1>8. ListsAreRight'
  <2>1. ASSUME NEW d \in Capturers, processes[d] > 0
        PROVE  \E i \in DOMAIN CapturersOf(mode) : i <= position' /\ CapturersOf(mode)[i] = d
    <3>1. PICK i \in DOMAIN CapturersOf(mode) : i <= position /\ CapturersOf(mode)[i] = d
      BY <2>1 DEF IndInv, ListsAreRight
    <3>2. i <= position' BY <1>2, <1>3, <1>4, <3>1
    <3> QED BY <3>1, <3>2
  <2>2. ASSUME NEW c \in Capturers, NEW n \in Points
        PROVE  /\ n <= processes'[c] => process'[<<c, n>>] # "none"
               /\ process'[<<c, n>>] # "none" => n <= processes'[c] \/ Unlisted(<<c, n>>)'
    <3>1. /\ n <= processes[c] => process[<<c, n>>] # "none"
          /\ process[<<c, n>>] # "none" => n <= processes[c] \/ Unlisted(<<c, n>>)
      BY DEF IndInv, ListsAreRight
    <3>2. <<c, n>>[1] = c OBVIOUS
    <3>3. CASE position' = position
      <4>1. Unlisted(<<c, n>>)' <=> Unlisted(<<c, n>>) BY <1>1, <1>6, <1>7, <3>3 DEF Unlisted
      <4> QED BY <1>1, <3>1, <4>1
    <3>4. CASE position' # position
      <4>1. Unlisted(<<c, n>>) => c = Starting BY <3>2 DEF Unlisted
      <4>2. c = Starting => n <= processes[c]
        BY <1>4, <3>4, PointAssumption DEF Points
      <4> QED BY <1>1, <3>1, <4>1, <4>2
    <3> QED BY <3>3, <3>4
  <2> QED BY <1>1, <1>6, <2>1, <2>2 DEF ListsAreRight
<1>9. StartFacts' BY <1>1, <1>4, <1>6, <1>7 DEF StartFacts
<1>10. LiveAreListed' BY <1>1 DEF LiveAreListed, StoppingPcs
<1>11. done = {} /\ ~saved BY <1>1, EarlyKept DEF IndInv, FinallyPcs
<1>12. StoppingFacts' BY <1>1, <1>11 DEF IndInv, StoppingFacts
<1>13. NothingOutlivesRun' /\ CopiesAreComplete' BY <1>1, <1>11, NothingToClaim
<1> QED BY <1>5, <1>8, <1>9, <1>10, <1>12, <1>13 DEF IndInv

\* The list stop() gets, wherever in the try block it is called.
LEMMA StopListFacts ==
  ASSUME IndInv, pc \in TryPcs
  PROVE  /\ ManagedProcesses \in Seq(Processes)
         /\ \A p \in Processes : Live(p) =>
              Unlisted(p) \/ \E i \in DOMAIN ManagedProcesses : ManagedProcesses[i] = p
<1>1. CASE pc \notin {"copy", "analysis"}
  <2>1. started = ReturnedCapturers BY <1>1 DEF IndInv, StartFacts, TryPcs
  <2> QED BY <2>1, ManagedCovers DEF IndInv
<1>2. CASE pc \in {"copy", "analysis"}
  <2>1. started = <<>> /\ \A p \in Processes : Live(p) => Unlisted(p)
    BY <1>2 DEF IndInv, StartFacts, StoppingFacts, NothingOutlivesRun, Stopped
  <2>2. CASE mode = "xdp-verify"
    <3>1. [i \in DOMAIN started |-> ProcessesOf(Reverse(started)[i])] = <<>> BY <2>1
    <3>2. FlattenSeq(<<>>) = <<>> BY DEF FlattenSeq
    <3>3. ManagedProcesses = <<>> BY <2>2, <3>1, <3>2 DEF ManagedProcesses
    <3> QED BY <2>1, <3>3
  <2>3. CASE mode # "xdp-verify"
    <3>1. started = ReturnedCapturers BY <2>1, <2>3 DEF ReturnedCapturers
    <3>2. ProcessesOf("pcap") \in Seq(Processes) /\ ProcessesOf("online") \in Seq(Processes)
      BY ProcessesOfFacts DEF Capturers, IndInv
    <3>3. \/ ManagedProcesses = <<>>
          \/ ManagedProcesses = ProcessesOf("pcap")
          \/ ManagedProcesses = ProcessesOf("online")
      BY <2>3, <3>1, ManagedLists DEF IndInv, TypeOK, Modes
    <3>4. <<>> \in Seq(Processes) OBVIOUS
    <3> QED BY <2>1, <3>2, <3>3, <3>4
  <2> QED BY <2>2, <2>3
<1> QED BY <1>1, <1>2

\* A stop() begins: in the try block, in the combined capturer's start(), or in
\* the finally block.
LEMMA BeginStopInv == IndInv /\ (StartRaises \/ TrafficEnds \/ Analyse \/ LeaveTry) => IndInv'
<1> SUFFICES ASSUME IndInv, StartRaises \/ TrafficEnds \/ Analyse \/ LeaveTry PROVE IndInv'
  OBVIOUS
<1>1. /\ pc \in TryPcs /\ pc' \in StoppingPcs /\ toStop' = ManagedProcesses
      /\ pc' # "stopAgain" => pc \in {"start", "check", "traffic"}
      /\ UNCHANGED <<mode, position, processes, process, started, ryu, done>>
      /\ network' \in {"none", "partial", "built", "stopped", "cleaned"}
      /\ \/ UNCHANGED <<copied, saved>>
         \/ CopySome
  <2>1. CASE StartRaises
    BY <2>1 DEF StartRaises, BeginStop, TryPcs, StoppingPcs, startVars, IndInv, TypeOK
  <2>2. CASE TrafficEnds
    BY <2>2 DEF TrafficEnds, BeginStop, TryPcs, StoppingPcs, startVars, IndInv, TypeOK
  <2>3. CASE Analyse
    BY <2>3 DEF Analyse, BeginStop, TryPcs, StoppingPcs, startVars, IndInv, TypeOK
  <2>4. CASE LeaveTry
    BY <2>4 DEF LeaveTry, BeginStop, TryPcs, StoppingPcs, startVars, IndInv, TypeOK
  <2> QED BY <2>1, <2>2, <2>3, <2>4
<1>2. /\ copied' \in [Processes -> {"none", "cut", "complete"}] /\ saved' \in BOOLEAN
      /\ ~saved' \/ UNCHANGED <<copied, saved>>
  BY <1>1 DEF CopySome, IndInv, TypeOK
<1>3. TypeOK'
  <2>1. pc' \in Pcs BY <1>1 DEF StoppingPcs, Pcs, TryPcs, FinallyPcs
  <2>2. toStop' \in Seq(Processes) BY <1>1, StopListFacts
  <2> QED BY <1>1, <1>2, <2>1, <2>2 DEF IndInv, TypeOK
<1>4. /\ ListsAreRight'
      /\ \A p \in Processes : (Unlisted(p)' <=> Unlisted(p)) /\ (Live(p)' <=> Live(p))
      /\ Tsharks' = Tsharks /\ Tsharks \subseteq Processes
      /\ ReturnedCapturers' = ReturnedCapturers
  BY <1>1, QuietStep
<1>5. StartFacts'
  <2>1. pc \in {"start", "check", "traffic"} => started = ReturnedCapturers
    BY DEF IndInv, StartFacts
  <2> QED BY <1>1, <1>4, <2>1 DEF StartFacts, StoppingPcs
<1>6. LiveAreListed'
  <2>1. \A p \in Processes : Live(p) =>
          Unlisted(p) \/ \E i \in DOMAIN toStop' : toStop'[i] = p
    BY <1>1, StopListFacts
  <2> QED BY <1>4, <2>1 DEF LiveAreListed
<1>7. /\ done # {} => pc \in {"copy", "analysis"}
      /\ saved => pc = "analysis" /\ "stop" \in done
      /\ done \cap {"copyAgain", "mnClean", "pkill"} = {}
      /\ \A p \in Processes : process[p] # "swept"
  <2>1. pc \notin {"ended"} \cup FinallyPcs BY <1>1 DEF TryPcs, FinallyPcs
  <2> QED BY <1>1, <2>1 DEF IndInv, StoppingFacts, FinallyPcs
<1>8. StoppingFacts'
  <2>1. done # {} => pc' = "stopAgain" BY <1>1, <1>7
  <2>2. saved' => saved BY <1>2
  <2> QED BY <1>1, <1>7, <2>1, <2>2 DEF StoppingFacts, StoppingPcs, FinallyPcs
<1>9. NothingOutlivesRun'
  BY <1>1, <1>4, <1>7 DEF IndInv, NothingOutlivesRun, Stopped
<1>10. CopiesAreComplete'
  BY <1>1, <1>2, <1>4, <1>7 DEF IndInv, CopiesAreComplete, Stopped
<1> QED BY <1>3, <1>4, <1>5, <1>6, <1>8, <1>9, <1>10 DEF IndInv

\* A listed process that is alive gets SIGINT; it is waited for or killed before
\* it leaves the list.
LEMMA StopProcessInv == IndInv /\ (SignalProcess \/ NextProcess) => IndInv'
<1> SUFFICES ASSUME IndInv, SignalProcess \/ NextProcess PROVE IndInv'
  OBVIOUS
<1> DEFINE h == Head(toStop)
<1>1. /\ pc \in StoppingPcs /\ toStop # <<>>
      /\ \/ toStop' = toStop /\ process[h] = "up" /\ process' = [process EXCEPT ![h] = "signalled"]
         \/ /\ toStop' = Tail(toStop) /\ process[h] # "up"
            /\ process' = [process EXCEPT ![h] = IF @ = "signalled" THEN "killed" ELSE @]
      /\ UNCHANGED <<mode, pc, position, processes, started, network, ryu, copied, saved, done>>
  BY DEF SignalProcess, NextProcess, startVars
<1>2. /\ toStop \in Seq(Processes)
      /\ process \in [Processes -> {"none", "up", "signalled", "stopped", "killed", "died", "swept"}]
  BY DEF IndInv, TypeOK
<1>3. Tail(toStop) \in Seq(Processes) /\ h \in Processes BY <1>1, <1>2, TailFacts
<1> HIDE DEF h
<1>4. /\ process' \in [Processes -> {"none", "up", "signalled", "stopped", "killed", "died", "swept"}]
      /\ \A p \in Processes : /\ Live(p)' => Live(p) /\ (p = h => toStop' = toStop)
                              /\ process'[p] = "none" <=> process[p] = "none"
                              /\ process'[p] = "swept" <=> process[p] = "swept"
                              /\ process[p] \in {"died", "killed"} => process'[p] \in {"died", "killed"}
  <2>1. CASE process[h] = "up" /\ process' = [process EXCEPT ![h] = "signalled"] /\ toStop' = toStop
    BY <1>2, <1>3, <2>1 DEF Live
  <2>2. CASE process[h] # "up" /\ process' = [process EXCEPT ![h] = IF @ = "signalled" THEN "killed" ELSE @]
    BY <1>2, <1>3, <2>2 DEF Live
  <2> QED BY <1>1, <2>1, <2>2
<1>5. TypeOK' BY <1>1, <1>3, <1>4 DEF IndInv, TypeOK
<1>6. ListsAreRight' /\ \A p \in Processes : Unlisted(p)' <=> Unlisted(p)
  BY <1>1, <1>4, ListsKept DEF IndInv
<1>7. StartFacts'
  <2>1. ReturnedCapturers' = ReturnedCapturers BY <1>1 DEF ReturnedCapturers
  <2> QED BY <1>1, <2>1 DEF IndInv, StartFacts, StoppingPcs
<1>8. LiveAreListed'
  <2>1. ASSUME NEW p \in Processes, Live(p)'
        PROVE  Unlisted(p) \/ \E i \in DOMAIN toStop' : toStop'[i] = p
    <3>1. Live(p) BY <1>4, <2>1
    <3>2. CASE Unlisted(p) BY <3>2
    <3>3. ASSUME NEW i \in DOMAIN toStop, toStop[i] = p
          PROVE  \E j \in DOMAIN toStop' : toStop'[j] = p
      <4>1. CASE toStop' = toStop BY <3>3, <4>1
      <4>2. CASE toStop' # toStop
        <5>1. toStop' = Tail(toStop) /\ p # h BY <1>1, <1>4, <2>1, <4>2
        <5> QED BY <1>1, <1>2, <3>3, <5>1, TailFacts DEF h
      <4> QED BY <4>1, <4>2
    <3> QED BY <1>1, <3>1, <3>2, <3>3 DEF IndInv, LiveAreListed
  <2> QED BY <1>6, <2>1 DEF LiveAreListed
<1>9. StoppingFacts' BY <1>1, <1>4 DEF IndInv, StoppingFacts
<1>10. NothingOutlivesRun' /\ CopiesAreComplete'
  BY <1>1, <1>4, OnlyEnding DEF IndInv
<1> QED BY <1>5, <1>6, <1>7, <1>8, <1>9, <1>10 DEF IndInv

\* The list is empty: what is alive is in no list.
LEMMA StopReturnsInv == IndInv /\ StopReturns => IndInv'
<1> SUFFICES ASSUME IndInv, StopReturns PROVE IndInv'
  OBVIOUS
<1>1. /\ pc \in StoppingPcs /\ toStop = <<>> /\ started' = <<>>
      /\ pc' = CASE pc = "stop" -> "copy"
                 [] pc = "unwind" -> "stopAgain"
                 [] pc = "stopAgain" -> "copyAgain"
      /\ done' = IF pc = "unwind" THEN done ELSE done \cup {pc}
      /\ UNCHANGED <<mode, position, processes, process, toStop, network, ryu, copied, saved>>
  BY DEF StopReturns
<1>2. \/ pc = "stop" /\ pc' = "copy" /\ done' = done \cup {"stop"}
      \/ pc = "unwind" /\ pc' = "stopAgain" /\ done' = done
      \/ pc = "stopAgain" /\ pc' = "copyAgain" /\ done' = done \cup {"stopAgain"}
  BY <1>1 DEF StoppingPcs
<1>3. TypeOK'
  <2>1. done' \subseteq {"stop"} \cup FinallyPcs BY <1>2 DEF IndInv, TypeOK, FinallyPcs
  <2>2. pc' \in Pcs BY <1>2 DEF Pcs, TryPcs, FinallyPcs
  <2>3. started' \in Seq(Capturers) BY <1>1
  <2> HIDE DEF Pcs
  <2> QED BY <1>1, <2>1, <2>2, <2>3 DEF IndInv, TypeOK
<1>4. /\ ListsAreRight'
      /\ \A p \in Processes : (Unlisted(p)' <=> Unlisted(p)) /\ (Live(p)' <=> Live(p))
      /\ Tsharks' = Tsharks /\ Tsharks \subseteq Processes
  BY <1>1, QuietStep
<1>5. StartFacts' BY <1>1, <1>2 DEF StartFacts
<1>6. \A p \in Processes : Live(p) => Unlisted(p) BY <1>1 DEF IndInv, LiveAreListed
<1>7. LiveAreListed' BY <1>4, <1>6 DEF LiveAreListed
<1>8. /\ pc # "stopAgain" => done = {} /\ ~saved
      /\ done \cap {"copyAgain", "mnClean", "pkill"} = {}
      /\ \A p \in Processes : process[p] # "swept"
      /\ pc = "stopAgain" /\ saved => "stop" \in done
  BY <1>2, EarlyKept DEF IndInv, StoppingFacts, FinallyPcs
<1>9. StoppingFacts'
  <2>1. CASE pc = "stop" BY <1>1, <1>2, <1>8, <2>1 DEF StoppingFacts
  <2>2. CASE pc = "unwind" BY <1>1, <1>2, <1>8, <2>2 DEF StoppingFacts
  <2>3. CASE pc = "stopAgain" BY <1>1, <1>2, <1>8, <2>3 DEF StoppingFacts, FinallyPcs
  <2> QED BY <1>2, <2>1, <2>2, <2>3
<1>10. NothingOutlivesRun'
  <2>1. "pkill" \notin done' /\ "mnClean" \notin done' BY <1>2, <1>8
  <2> QED BY <1>4, <1>6, <2>1 DEF NothingOutlivesRun
<1>11. CopiesAreComplete'
  <2>1. saved => "stop" \in done BY <1>2, <1>8
  <2>2. "copyAgain" \notin done' BY <1>2, <1>8
  <2> QED BY <1>1, <1>4, <2>1, <2>2 DEF IndInv, CopiesAreComplete, Stopped
<1> QED BY <1>3, <1>4, <1>5, <1>7, <1>9, <1>10, <1>11 DEF IndInv

\* A copy that is made after a stop() that returned cuts no file of a process
\* that was listed and stopped.
LEMMA CopyInv == IndInv /\ (Copy \/ CopyAgain) => IndInv'
<1> SUFFICES ASSUME IndInv, Copy \/ CopyAgain PROVE IndInv'
  OBVIOUS
<1>1. /\ \/ pc = "copy" /\ pc' = "analysis" /\ done' = done
         \/ pc = "copyAgain" /\ pc' = "networkStop" /\ done' = done \cup {"copyAgain"}
      /\ copied' = [p \in Processes |-> CopyOf(p)] /\ saved'
      /\ saved' = TRUE
      /\ UNCHANGED <<mode, position, processes, process, started, toStop, network, ryu>>
  BY DEF Copy, CopyAgain, CopyFiles, capturerVars, startVars
<1>2. \A p \in Processes : CopyOf(p) \in {"none", "cut", "complete"} BY DEF CopyOf
<1>3. TypeOK' BY <1>1, <1>2 DEF IndInv, TypeOK, Pcs, TryPcs, FinallyPcs
<1>4. /\ ListsAreRight'
      /\ \A p \in Processes : (Unlisted(p)' <=> Unlisted(p)) /\ (Live(p)' <=> Live(p))
      /\ Tsharks' = Tsharks /\ Tsharks \subseteq Processes
  BY <1>1, QuietStep
<1>5. /\ "pkill" \notin done /\ "mnClean" \notin done
      /\ pc = "copy" => "stop" \in done /\ started = <<>>
      /\ "copyAgain" \notin done
      /\ \A p \in Processes : process[p] # "swept"
  BY <1>1 DEF IndInv, StoppingFacts, StartFacts
<1>6. StartFacts' BY <1>1, <1>5 DEF StartFacts
<1>7. LiveAreListed' BY <1>1 DEF LiveAreListed, StoppingPcs
<1>8. StoppingFacts'
  <2>1. CASE pc = "copy" BY <1>1, <1>5, <2>1 DEF StoppingFacts
  <2>2. CASE pc = "copyAgain" BY <1>1, <1>5, <2>2 DEF StoppingFacts, FinallyPcs
  <2> QED BY <1>1, <2>1, <2>2
<1>9. Stopped' <=> Stopped BY <1>1 DEF Stopped
<1>10. NothingOutlivesRun' BY <1>1, <1>4, <1>5, <1>9 DEF IndInv, NothingOutlivesRun
<1>11. CopiesAreComplete'
  <2>1. process \in [Processes -> {"none", "up", "signalled", "stopped", "killed", "died", "swept"}]
    BY DEF IndInv, TypeOK
  <2>2. ASSUME NEW p \in Processes
        PROVE  /\ process[p] = "none" <=> CopyOf(p) = "none"
               /\ CopyOf(p) = "cut" => process[p] \in {"died", "killed"} \/ Live(p)
    BY <1>5, <2>1 DEF CopyOf, Live
  <2>3. Stopped => \A p \in Processes : Live(p) => Unlisted(p) BY DEF IndInv, NothingOutlivesRun
  <2>4. \A p \in Processes : copied'[p] = CopyOf(p) BY <1>1
  <2> QED BY <1>1, <1>4, <1>9, <2>2, <2>3, <2>4 DEF CopiesAreComplete
<1> QED BY <1>3, <1>4, <1>6, <1>7, <1>8, <1>10, <1>11 DEF IndInv

\* The clean-up of the controller and the network, and a run that ends early.
LEMMA FinallyInv ==
  IndInv /\ (StopAgainRaises \/ StopNetwork \/ TerminateRyu \/ CleanMininet \/ CleaningCutOff \/ EndEarly) => IndInv'
<1> SUFFICES ASSUME IndInv, StopAgainRaises \/ StopNetwork \/ TerminateRyu \/ CleanMininet \/ CleaningCutOff \/ EndEarly
             PROVE  IndInv'
  OBVIOUS
<1>1. /\ UNCHANGED <<mode, position, processes, process, started, toStop>>
      /\ \/ /\ pc = "stopAgain" /\ pc' = "copyAgain"
            /\ UNCHANGED <<network, ryu, copied, saved, done>>
         \/ /\ pc = "networkStop" /\ pc' = "terminate" /\ done' = done \cup {"networkStop"}
            /\ network' = IF network = "built" THEN "stopped" ELSE network
            /\ UNCHANGED <<ryu, copied, saved>>
         \/ /\ pc = "terminate" /\ pc' = "mnClean" /\ done' = done \cup {"terminate"}
            /\ ryu' = "terminated"
            /\ UNCHANGED <<network, copied, saved>>
         \/ /\ pc = "mnClean" /\ pc' = "pkill" /\ done' = done \cup {"mnClean"}
            /\ network' = IF network = "partial" THEN "cleaned" ELSE network
            /\ UNCHANGED <<ryu, copied, saved>>
         \/ /\ pc = "mnClean" /\ pc' = "pkill"
            /\ UNCHANGED <<network, ryu, copied, saved, done>>
         \/ /\ pc \in {"ryu", "wait"} \cup FinallyPcs /\ pc' = "ended"
            /\ UNCHANGED <<network, ryu, done>>
            /\ IF pc = "copyAgain" THEN CopySome ELSE UNCHANGED <<copied, saved>>
  BY DEF StopAgainRaises, StopNetwork, TerminateRyu, CleanMininet, CleaningCutOff, EndEarly, capturerVars, startVars
<1>2. TypeOK'
  <2>1. pc' \in Pcs BY <1>1 DEF Pcs, FinallyPcs
  <2>2. done' \subseteq {"stop"} \cup FinallyPcs BY <1>1 DEF IndInv, TypeOK, FinallyPcs
  <2>3. copied' \in [Processes -> {"none", "cut", "complete"}] /\ saved' \in BOOLEAN
    BY <1>1 DEF CopySome, IndInv, TypeOK
  <2>4. network' \in {"none", "partial", "built", "stopped", "cleaned"}
    BY <1>1 DEF IndInv, TypeOK
  <2>5. ryu' \in {"none", "up", "terminated"} BY <1>1 DEF IndInv, TypeOK
  <2> QED BY <1>1, <2>1, <2>2, <2>3, <2>4, <2>5 DEF IndInv, TypeOK
<1>3. /\ ListsAreRight'
      /\ \A p \in Processes : (Unlisted(p)' <=> Unlisted(p)) /\ (Live(p)' <=> Live(p))
      /\ Tsharks' = Tsharks /\ Tsharks \subseteq Processes
  BY <1>1, QuietStep
<1>4. pc' \in {"copyAgain", "terminate", "mnClean", "pkill", "ended"} BY <1>1
<1>5. StartFacts' BY <1>4 DEF StartFacts
<1>6. LiveAreListed' BY <1>4 DEF LiveAreListed, StoppingPcs
<1>7. "pkill" \notin done
  <2>1. pc # "ended" BY <1>1 DEF FinallyPcs
  <2> QED BY <2>1 DEF IndInv, StoppingFacts
<1>8. StoppingFacts'
  <2>1. CASE pc' = "copyAgain"
    BY <1>1, <1>7, <2>1 DEF IndInv, StoppingFacts, FinallyPcs
  <2>2. CASE pc' = "terminate"
    BY <1>1, <1>7, <2>2 DEF IndInv, StoppingFacts, FinallyPcs
  <2>3. CASE pc' = "mnClean"
    BY <1>1, <1>7, <2>3 DEF IndInv, StoppingFacts, FinallyPcs
  <2>4. CASE pc' = "pkill"
    BY <1>1, <1>7, <2>4 DEF IndInv, StoppingFacts, FinallyPcs
  <2>5. CASE pc' = "ended"
    BY <1>1, <1>7, <2>5 DEF StoppingFacts
  <2> QED BY <1>4, <2>1, <2>2, <2>3, <2>4, <2>5
<1>9. (Stopped' <=> Stopped) /\ "pkill" \notin done'
  BY <1>1, <1>7 DEF Stopped
<1>10. NothingOutlivesRun'
  <2>1. "mnClean" \in done' => network' # "partial"
    BY <1>1 DEF IndInv, StoppingFacts, NothingOutlivesRun, FinallyPcs
  <2> QED BY <1>3, <1>9, <2>1 DEF IndInv, NothingOutlivesRun
<1>11. CopiesAreComplete'
  <2>1. CASE UNCHANGED <<copied, saved>>
    <3>1. "copyAgain" \in done' <=> "copyAgain" \in done BY <1>1
    <3> QED BY <1>1, <1>3, <1>9, <2>1, <3>1 DEF IndInv, CopiesAreComplete
  <2>2. CASE CopySome /\ pc = "copyAgain" /\ done' = done
    <3>1. "copyAgain" \notin done' /\ ~saved'
      BY <2>2 DEF IndInv, StoppingFacts, CopySome
    <3> QED BY <3>1 DEF CopiesAreComplete
  <2> QED BY <1>1, <2>1, <2>2
<1> QED BY <1>2, <1>3, <1>5, <1>6, <1>8, <1>10, <1>11 DEF IndInv

\* What pkill finds alive is swept.
LEMMA KillTsharksInv == IndInv /\ KillTsharks => IndInv'
<1> SUFFICES ASSUME IndInv, KillTsharks PROVE IndInv'
  OBVIOUS
<1>1. /\ pc = "pkill" /\ pc' = "ended" /\ done' = done \cup {"pkill"}
      /\ process' = [p \in Processes |->
                       IF Live(p) /\ p \in Tsharks THEN "swept" ELSE process[p]]
      /\ UNCHANGED <<mode, position, processes, started, toStop, network, ryu, copied, saved>>
  BY DEF KillTsharks, startVars
<1>2. process \in [Processes -> {"none", "up", "signalled", "stopped", "killed", "died", "swept"}]
  BY DEF IndInv, TypeOK
<1>3. \A p \in Processes :
        /\ process'[p] \in {"none", "up", "signalled", "stopped", "killed", "died", "swept"}
        /\ Live(p)' => Live(p) /\ p \notin Tsharks
        /\ process'[p] = "none" <=> process[p] = "none"
        /\ process[p] \in {"died", "killed"} => process'[p] = process[p]
  BY <1>1, <1>2 DEF Live
<1>4. TypeOK'
  <2>1. process' \in [Processes -> {"none", "up", "signalled", "stopped", "killed", "died", "swept"}]
    BY <1>1, <1>3
  <2> QED BY <1>1, <2>1 DEF IndInv, TypeOK, Pcs, FinallyPcs
<1>5. ListsAreRight' /\ \A p \in Processes : Unlisted(p)' <=> Unlisted(p)
  BY <1>1, <1>3, ListsKept DEF IndInv
<1>6. StartFacts' BY <1>1 DEF StartFacts
<1>7. LiveAreListed' BY <1>1 DEF LiveAreListed, StoppingPcs
<1>8. saved /\ network # "built" /\ ryu # "up" /\ ("mnClean" \in done => network # "partial")
  BY <1>1 DEF IndInv, StoppingFacts, NothingOutlivesRun
<1>9. StoppingFacts' BY <1>1 DEF StoppingFacts
<1>10. (Stopped' <=> Stopped) /\ Tsharks' = Tsharks /\ Tsharks \subseteq Processes
  BY <1>1 DEF Stopped, Tsharks
<1>11. NothingOutlivesRun'
  <2>1. Stopped' => \A p \in Processes : Live(p)' => Unlisted(p)'
    BY <1>3, <1>5, <1>10 DEF IndInv, NothingOutlivesRun
  <2>2. \A p \in Tsharks : ~Live(p)' BY <1>3, <1>10
  <2> QED BY <1>1, <1>8, <1>10, <2>1, <2>2 DEF NothingOutlivesRun
<1>12. CopiesAreComplete'
  BY <1>1, <1>3, <1>5, <1>8, <1>10 DEF IndInv, CopiesAreComplete
<1> QED BY <1>4, <1>5, <1>6, <1>7, <1>9, <1>11, <1>12 DEF IndInv

\* A process may end at any time.
LEMMA ProcessEndsInv ==
  ASSUME IndInv, NEW q \in Processes, ProcessEnds(q) \/ ProcessDies(q)
  PROVE  IndInv'
<1>1. /\ Live(q) /\ \E how \in {"stopped", "died"} : process' = [process EXCEPT ![q] = how]
      /\ UNCHANGED <<mode, pc, position, processes, started, toStop, network, ryu, copied, saved, done>>
  BY DEF ProcessEnds, ProcessDies, Live, startVars
<1>2. process \in [Processes -> {"none", "up", "signalled", "stopped", "killed", "died", "swept"}]
  BY DEF IndInv, TypeOK
<1>3. /\ process' \in [Processes -> {"none", "up", "signalled", "stopped", "killed", "died", "swept"}]
      /\ \A p \in Processes : /\ Live(p)' => Live(p)
                              /\ process'[p] = "none" <=> process[p] = "none"
                              /\ process'[p] = "swept" <=> process[p] = "swept"
                              /\ process[p] \in {"died", "killed"} => process'[p] \in {"died", "killed"}
  BY <1>1, <1>2 DEF Live
<1>4. TypeOK' BY <1>1, <1>3 DEF IndInv, TypeOK
<1>5. ListsAreRight' /\ \A p \in Processes : Unlisted(p)' <=> Unlisted(p)
  BY <1>1, <1>3, ListsKept DEF IndInv
<1>6. StartFacts'
  <2>1. ReturnedCapturers' = ReturnedCapturers /\ CapturersOf(mode)' = CapturersOf(mode)
        /\ Starting' = Starting /\ NextNumber' = NextNumber
    BY <1>1 DEF ReturnedCapturers, Starting, NextNumber
  <2>2. pc = "append" => process'[<<Starting, NextNumber>>] # "none"
    <3>1. SUFFICES ASSUME pc = "append" PROVE process'[<<Starting, NextNumber>>] # "none"
      OBVIOUS
    <3>2. processes[Starting] < PointCount /\ process[<<Starting, NextNumber>>] # "none"
      BY <3>1 DEF IndInv, StartFacts
    <3>3. <<Starting, NextNumber>> \in Processes BY <3>1, <3>2, StartingFacts
    <3> QED BY <1>3, <3>2, <3>3
  <2> QED BY <1>1, <2>1, <2>2 DEF IndInv, StartFacts
<1>7. LiveAreListed' BY <1>1, <1>3, <1>5 DEF IndInv, LiveAreListed
<1>8. StoppingFacts' BY <1>1, <1>3 DEF IndInv, StoppingFacts
<1>9. NothingOutlivesRun' /\ CopiesAreComplete'
  BY <1>1, <1>3, OnlyEnding DEF IndInv
<1> QED BY <1>4, <1>5, <1>6, <1>7, <1>8, <1>9 DEF IndInv

-----------------------------------------------------------------------------
(* The theorems. *)

\* Nothing changes.
LEMMA StutterInv == IndInv /\ UNCHANGED vars => IndInv'
<1> SUFFICES ASSUME IndInv, UNCHANGED vars PROVE IndInv'
  OBVIOUS
<1>1. UNCHANGED <<mode, pc, position, processes, process, started, toStop, network, ryu, copied,
                  saved, done>>
  BY DEF vars, capturerVars, startVars
<1>2. /\ ListsAreRight'
      /\ \A p \in Processes : (Unlisted(p)' <=> Unlisted(p)) /\ (Live(p)' <=> Live(p))
      /\ Tsharks' = Tsharks /\ Tsharks \subseteq Processes
      /\ ReturnedCapturers' = ReturnedCapturers
  BY <1>1, QuietStep
<1>3. TypeOK' BY <1>1 DEF IndInv, TypeOK
<1>4. StartFacts' BY <1>1, <1>2 DEF IndInv, StartFacts, Starting, NextNumber
<1>5. LiveAreListed' BY <1>1, <1>2 DEF IndInv, LiveAreListed
<1>6. StoppingFacts' BY <1>1 DEF IndInv, StoppingFacts
<1>7. NothingOutlivesRun' BY <1>1, <1>2 DEF IndInv, NothingOutlivesRun, Stopped
<1>8. CopiesAreComplete' BY <1>1, <1>2 DEF IndInv, CopiesAreComplete, Stopped
<1> QED BY <1>2, <1>3, <1>4, <1>5, <1>6, <1>7, <1>8 DEF IndInv

\* Types; the capturers' lists hold what they started, but for what is being
\* started; and what a running stop() has still to look at holds every process
\* that is alive and listed, wherever main was when it was called.
THEOREM Invariant == Spec => []IndInv
<1>1. IndInv /\ [Next]_vars => IndInv'
  <2> SUFFICES ASSUME IndInv, [Next]_vars PROVE IndInv'
    OBVIOUS
  <2>1. CASE TryStep
    BY <2>1, BeforeInv, OpenProcessInv, AppendProcessInv, StartedInv, BeginStopInv, CopyInv DEF TryStep
  <2>2. CASE StopStep BY <2>2, StopProcessInv, StopReturnsInv DEF StopStep
  <2>3. CASE FinallyStep BY <2>3, FinallyInv, CopyInv, KillTsharksInv DEF FinallyStep
  <2>4. CASE EndEarly BY <2>4, FinallyInv
  <2>5. ASSUME NEW p \in Processes, ProcessEnds(p) \/ ProcessDies(p) PROVE IndInv'
    BY <2>5, ProcessEndsInv
  <2>6. CASE UNCHANGED vars BY <2>6, StutterInv
  <2> QED BY <2>1, <2>2, <2>3, <2>4, <2>5, <2>6 DEF Next
<1> QED BY <1>1, InitInv, PTL DEF Spec

\* For any number of capture points: no capture process is alive once stop() has
\* returned but those it does not know, and a finally block that reached its end
\* leaves no network, no controller and no tshark.
THEOREM NothingOutlives == Spec => []NothingOutlivesRun
<1>1. IndInv => NothingOutlivesRun BY DEF IndInv
<1> QED BY <1>1, Invariant, PTL

\* After a copy that ran to its end the run directory has the files of every
\* process, cut off after a stop() only for the reasons CopiesAreComplete names.
THEOREM CopiesComplete == Spec => []CopiesAreComplete
<1>1. IndInv => CopiesAreComplete BY DEF IndInv
<1> QED BY <1>1, Invariant, PTL
=============================================================================
