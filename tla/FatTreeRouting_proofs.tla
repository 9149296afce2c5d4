----------------------- MODULE FatTreeRouting_proofs -----------------------
(***************************************************************************)
(* Proofs about FatTreeRouting, for every fat tree whose DPIDs fit their   *)
(* ranges, any switches set up late, any number of connections, and a      *)
(* packet between any two hosts.                                           *)
(*                                                                         *)
(* First the lists of rules and the ports of each switch are computed from *)
(* install_rules and the calls of addLink; with them, where a switch sends *)
(* the packet whatever part of its list it has; then the invariant.        *)
(***************************************************************************)
EXTENDS FatTreeRouting, FiniteSetTheorems, TLAPS

-----------------------------------------------------------------------------
(* Numbers. *)

\* K is even: Half of the ports of a switch lead up, half down.
LEMMA HalfFacts ==
  /\ K \in Nat /\ Half \in Nat
  /\ K = 2 * Half
  /\ Half >= 1
  BY TreeAssumption DEF Half

\* Numbering a matrix row by row, as the DPIDs do, can be undone.
LEMMA RowNumber ==
  ASSUME NEW rows \in Nat, NEW width \in Nat, width >= 1,
         NEW row \in 0 .. rows - 1, NEW column \in 0 .. width - 1
  PROVE  /\ row * width + column \in 0 .. rows * width - 1
         /\ (row * width + column) \div width = row
         /\ (row * width + column) % width = column
<1>1. row * width \in Nat /\ rows * width \in Nat OBVIOUS
<1>2. (rows - row) * width >= width OBVIOUS
<1>3. row * width + column \in 0 .. rows * width - 1 OBVIOUS
<1>4. (row * width + column) % width = column OBVIOUS
<1>5. (row * width + column) \div width = row OBVIOUS
<1> QED BY <1>3, <1>4, <1>5

\* The number of a switch in its layer gives its pod and its place there.
LEMMA PodNumber ==
  ASSUME NEW pod \in Pods, NEW a \in Indices
  PROVE  /\ pod * Half + a \in 0 .. K * Half - 1
         /\ (pod * Half + a) \div Half = pod
         /\ (pod * Half + a) % Half = a
  BY HalfFacts, RowNumber DEF Pods, Indices

-----------------------------------------------------------------------------
(* Rules. *)

\* The DPIDs of the core layer start at 1.
LEMMA CoreDpid ==
  ASSUME NEW i \in Indices, NEW j \in Indices
  PROVE  Dpid(Core(i, j)) \in 1 .. Half * Half
<1>1. i * Half + j \in 0 .. Half * Half - 1 BY HalfFacts, RowNumber DEF Indices
<1>2. Dpid(Core(i, j)) = i * Half + j + 1 BY DEF Dpid, Core
<1> QED BY <1>1, <1>2, HalfFacts

\* The DPIDs of the aggregation layer start at 101.
LEMMA AggDpid ==
  ASSUME NEW pod \in Pods, NEW a \in Indices
  PROVE  /\ Dpid(Agg(pod, a)) \in 101 .. 100 + K * Half
         /\ Dpid(Agg(pod, a)) - 101 = pod * Half + a
<1>1. pod * Half + a \in 0 .. K * Half - 1 BY PodNumber
<1>2. Dpid(Agg(pod, a)) = 100 + pod * Half + a + 1 BY DEF Dpid, Agg
<1>3. pod * Half \in Nat /\ a \in Nat /\ K * Half \in Nat BY HalfFacts DEF Pods, Indices
<1> QED BY <1>1, <1>2, <1>3

\* The DPIDs of the edge layer start at 201.
LEMMA EdgeDpid ==
  ASSUME NEW pod \in Pods, NEW e \in Indices
  PROVE  /\ Dpid(Edge(pod, e)) \in 201 .. 200 + K * Half
         /\ Dpid(Edge(pod, e)) - 201 = pod * Half + e
<1>1. pod * Half + e \in 0 .. K * Half - 1 BY PodNumber
<1>2. Dpid(Edge(pod, e)) = 200 + pod * Half + e + 1 BY DEF Dpid, Edge
<1>3. pod * Half \in Nat /\ e \in Nat /\ K * Half \in Nat BY HalfFacts DEF Pods, Indices
<1> QED BY <1>1, <1>2, <1>3

\* The ranges of the DPIDs that tell the layers apart do not meet.
LEMMA RangesApart ==
  /\ K * Half \in Nat /\ Half * Half \in Nat
  /\ Half * Half <= 100 /\ K * Half <= 100
<1>1. Half * Half <= K * Half BY HalfFacts
<1> QED BY <1>1, HalfFacts, DpidAssumption

Default == FlowMod(100, <<>>, ToGroup)
AggDown(pod, e) == FlowMod(200, <<pod, e>>, e + 1)
EdgeDown(pod, e, h) == FlowMod(200, <<pod, e, h>>, h)

\* install_rules finds the layer of a core switch in its DPID,
LEMMA CoreList ==
  ASSUME NEW i \in Indices, NEW j \in Indices
  PROVE  InstallRules(Dpid(Core(i, j))) = CoreRules
  BY CoreDpid, RangesApart DEF InstallRules

\* an aggregation switch and its pod,
LEMMA AggList ==
  ASSUME NEW pod \in Pods, NEW a \in Indices
  PROVE  InstallRules(Dpid(Agg(pod, a)))
           = <<Uplinks>> \o [e \in 1 .. Half |-> AggDown(pod, e - 1)] \o <<Default>>
<1> DEFINE d == Dpid(Agg(pod, a))
<1>1. InstallRules(d) = AggRules(d) BY AggDpid, RangesApart DEF InstallRules
<1>2. (d - 101) \div Half = pod BY AggDpid, PodNumber
<1>3. \A e \in 1 .. Half : FlowMod(200, <<(d - 101) \div Half, e - 1>>, e) = AggDown(pod, e - 1)
  <2> HIDE DEF d
  <2> QED BY <1>2, HalfFacts DEF AggDown
<1> HIDE DEF d
<1>4. [e \in 1 .. Half |-> FlowMod(200, <<(d - 101) \div Half, e - 1>>, e)]
        = [e \in 1 .. Half |-> AggDown(pod, e - 1)]
  BY <1>3
<1> QED BY <1>1, <1>4 DEF AggRules, Default, d

\* and an edge switch, its pod and its place there.
LEMMA EdgeList ==
  ASSUME NEW pod \in Pods, NEW e \in Indices
  PROVE  InstallRules(Dpid(Edge(pod, e)))
           = <<Uplinks>> \o [h \in 1 .. Half |-> EdgeDown(pod, e, h)] \o <<Default>>
<1> DEFINE d == Dpid(Edge(pod, e))
<1>1. InstallRules(d) = EdgeRules(d) BY EdgeDpid, RangesApart DEF InstallRules
<1>2. (d - 201) \div Half = pod /\ (d - 201) % Half = e BY EdgeDpid, PodNumber
<1> HIDE DEF d
<1>4. [h \in 1 .. Half |-> FlowMod(200, <<(d - 201) \div Half, (d - 201) % Half, h>>, h)]
        = [h \in 1 .. Half |-> EdgeDown(pod, e, h)]
  BY <1>2 DEF EdgeDown
<1> QED BY <1>1, <1>4 DEF EdgeRules, Default, d

\* A function on 1 .. n is a list of length n.
LEMMA SeqOfFunction ==
  ASSUME NEW n \in Nat, NEW T, NEW f \in [1 .. n -> T]
  PROVE  f \in Seq(T) /\ Len(f) = n
  OBVIOUS

\* A list of a group, one rule per index and a rule for the rest.
LEMMA ListFacts ==
  ASSUME NEW T, NEW middle \in Seq(T), Len(middle) = Half, NEW first \in T, NEW last \in T
  PROVE  LET list == <<first>> \o middle \o <<last>> IN
         /\ list \in Seq(T)
         /\ Len(list) = Half + 2
         /\ list[1] = first
         /\ \A i \in 2 .. Half + 1 : list[i] = middle[i - 1]
         /\ list[Half + 2] = last
  BY HalfFacts

\* Which prefixes match an address.
LEMMA PrefixFacts ==
  ASSUME NEW addr \in Addresses
  PROVE  /\ IsPrefix(<<>>, addr)
         /\ \A pod : IsPrefix(<<pod>>, addr) <=> pod = addr[1]
         /\ \A pod, e : IsPrefix(<<pod, e>>, addr) <=> pod = addr[1] /\ e = addr[2]
         /\ \A pod, e, h : IsPrefix(<<pod, e, h>>, addr)
              <=> pod = addr[1] /\ e = addr[2] /\ h = addr[3]
<1>1. PICK x \in Pods, y \in Indices, z \in 1 .. Half : addr = <<x, y, z>> BY DEF Addresses
<1>2. Len(addr) = 3 /\ addr[1] = x /\ addr[2] = y /\ addr[3] = z BY <1>1
<1>3. IsPrefix(<<>>, addr) BY <1>1 DEF IsPrefix
<1>4. \A pod : IsPrefix(<<pod>>, addr) <=> pod = addr[1] BY <1>1, <1>2 DEF IsPrefix
<1>5. \A pod, e : IsPrefix(<<pod, e>>, addr) <=> pod = addr[1] /\ e = addr[2]
  BY <1>1, <1>2 DEF IsPrefix
<1>6. \A pod, e, h : IsPrefix(<<pod, e, h>>, addr)
              <=> pod = addr[1] /\ e = addr[2] /\ h = addr[3]
  BY <1>1, <1>2 DEF IsPrefix
<1> QED BY <1>3, <1>4, <1>5, <1>6

\* The messages of each list, by their place.
LEMMA CoreEntries ==
  ASSUME NEW i \in Indices, NEW j \in Indices
  PROVE  LET all == InstallRules(Dpid(Core(i, j))) IN
         /\ Len(all) = K
         /\ \A p \in 1 .. K : all[p] = FlowMod(100, <<p - 1>>, p)
         /\ all \in Seq({all[p] : p \in 1 .. K})
  BY CoreList, HalfFacts DEF CoreRules

\* The messages to an aggregation switch: the group, one rule for each edge
\* switch of the pod, the default rule.
LEMMA AggEntries ==
  ASSUME NEW pod \in Pods, NEW a \in Indices
  PROVE  LET all == InstallRules(Dpid(Agg(pod, a))) IN
         /\ Len(all) = Half + 2
         /\ all[1] = Uplinks
         /\ \A i \in 2 .. Half + 1 : all[i] = AggDown(pod, i - 2)
         /\ all[Half + 2] = Default
         /\ all \in Seq({all[p] : p \in 1 .. Half + 2})
<1> DEFINE all == InstallRules(Dpid(Agg(pod, a)))
           f == [e \in 1 .. Half |-> AggDown(pod, e - 1)]
           T == {Uplinks, Default} \cup {f[e] : e \in 1 .. Half}
<1>1. all = <<Uplinks>> \o f \o <<Default>> BY AggList
<1>2. \A e \in 1 .. Half : f[e] = AggDown(pod, e - 1) OBVIOUS
<1>0. f \in [1 .. Half -> T] OBVIOUS
<1>3. f \in Seq(T) /\ Len(f) = Half BY <1>0, HalfFacts, SeqOfFunction
<1>4. Uplinks \in T /\ Default \in T OBVIOUS
<1> HIDE DEF f, all, T
<1>5. /\ all \in Seq(T)
      /\ Len(all) = Half + 2
      /\ all[1] = Uplinks
      /\ \A i \in 2 .. Half + 1 : all[i] = f[i - 1]
      /\ all[Half + 2] = Default
  BY <1>1, <1>3, <1>4, ListFacts
<1>6. \A i \in 2 .. Half + 1 : all[i] = AggDown(pod, i - 2)
  BY <1>2, <1>5, HalfFacts
<1>7. all \in Seq({all[p] : p \in 1 .. Half + 2}) BY <1>5, HalfFacts
<1> QED BY <1>5, <1>6, <1>7 DEF all

\* The messages to an edge switch: the group, one rule for each of its hosts,
\* the default rule.
LEMMA EdgeEntries ==
  ASSUME NEW pod \in Pods, NEW e \in Indices
  PROVE  LET all == InstallRules(Dpid(Edge(pod, e))) IN
         /\ Len(all) = Half + 2
         /\ all[1] = Uplinks
         /\ \A i \in 2 .. Half + 1 : all[i] = EdgeDown(pod, e, i - 1)
         /\ all[Half + 2] = Default
         /\ all \in Seq({all[p] : p \in 1 .. Half + 2})
<1> DEFINE all == InstallRules(Dpid(Edge(pod, e)))
           f == [h \in 1 .. Half |-> EdgeDown(pod, e, h)]
           T == {Uplinks, Default} \cup {f[h] : h \in 1 .. Half}
<1>1. all = <<Uplinks>> \o f \o <<Default>> BY EdgeList
<1>2. \A h \in 1 .. Half : f[h] = EdgeDown(pod, e, h) OBVIOUS
<1>0. f \in [1 .. Half -> T] OBVIOUS
<1>3. f \in Seq(T) /\ Len(f) = Half BY <1>0, HalfFacts, SeqOfFunction
<1>4. Uplinks \in T /\ Default \in T OBVIOUS
<1> HIDE DEF f, all, T
<1>5. /\ all \in Seq(T)
      /\ Len(all) = Half + 2
      /\ all[1] = Uplinks
      /\ \A i \in 2 .. Half + 1 : all[i] = f[i - 1]
      /\ all[Half + 2] = Default
  BY <1>1, <1>3, <1>4, ListFacts
<1>6. \A i \in 2 .. Half + 1 : all[i] = EdgeDown(pod, e, i - 1)
  BY <1>2, <1>5, HalfFacts
<1>7. all \in Seq({all[p] : p \in 1 .. Half + 2}) BY <1>5, HalfFacts
<1> QED BY <1>5, <1>6, <1>7 DEF all

\* The group is in the list before the rule that refers to it.
LEMMA GroupFirst ==
  ASSUME NEW s \in Switches
  PROVE  LET all == InstallRules(Dpid(s)) IN
         /\ Len(all) \in Nat /\ Len(all) > 0
         /\ all \in Seq({all[i] : i \in 1 .. Len(all)})
         /\ \A i \in 1 .. Len(all) :
              all[i].kind = "flow" /\ all[i].out = ToGroup => i > 1 /\ all[1].kind = "group"
<1> DEFINE all == InstallRules(Dpid(s))
           Facts == /\ Len(all) \in Nat /\ Len(all) > 0
                    /\ all \in Seq({all[i] : i \in 1 .. Len(all)})
                    /\ \A i \in 1 .. Len(all) :
                         all[i].kind = "flow" /\ all[i].out = ToGroup
                           => i > 1 /\ all[1].kind = "group"
<1>1. ASSUME NEW i \in Indices, NEW j \in Indices, s = Core(i, j) PROVE Facts
  <2>0. all = InstallRules(Dpid(Core(i, j))) BY <1>1
  <2> HIDE DEF all
  <2>1. /\ Len(all) = K
        /\ \A p \in 1 .. K : all[p] = FlowMod(100, <<p - 1>>, p)
        /\ all \in Seq({all[p] : p \in 1 .. K})
    BY <2>0, CoreEntries
  <2>2. \A p \in 1 .. K : all[p].out # ToGroup BY <2>1, HalfFacts DEF FlowMod, ToGroup
  <2> QED BY <2>1, <2>2, HalfFacts
<1>2. ASSUME NEW pod \in Pods, NEW a \in Indices, s = Agg(pod, a) PROVE Facts
  <2>1. /\ Len(all) = Half + 2
        /\ all[1] = Uplinks
        /\ all \in Seq({all[p] : p \in 1 .. Half + 2})
    BY <1>2, AggEntries
  <2> HIDE DEF all
  <2> QED BY <2>1, HalfFacts DEF Uplinks, GroupMod
<1>3. ASSUME NEW pod \in Pods, NEW e \in Indices, s = Edge(pod, e) PROVE Facts
  <2>1. /\ Len(all) = Half + 2
        /\ all[1] = Uplinks
        /\ all \in Seq({all[p] : p \in 1 .. Half + 2})
    BY <1>3, EdgeEntries
  <2> HIDE DEF all
  <2> QED BY <2>1, HalfFacts DEF Uplinks, GroupMod
<1> HIDE DEF Facts
<1>4. Facts BY <1>1, <1>2, <1>3 DEF Switches
<1> QED BY <1>4 DEF Facts

-----------------------------------------------------------------------------
(* The topology. *)

\* g lists the links of a switch in the order they are added.
InOrder(g, s) ==
  /\ g \in [1 .. K -> LinksOf(s)]
  /\ \A l \in LinksOf(s) : \E i \in 1 .. K : g[i] = l
  /\ \A i, j \in 1 .. K : NotAfter(g[i], g[j]) <=> i <= j

\* Then the number of a port is the place of its link in g.
LEMMA PortOf ==
  ASSUME NEW s, NEW g, InOrder(g, s),
         NEW i \in 1 .. K, NEW node, Ends(g[i]) = {node, s}, node # s
  PROVE  Peer(s, i) = node
<1> K \in Nat BY HalfFacts
<1> USE DEF InOrder
<1>1. \A x, y \in 1 .. K : g[x] = g[y] => x = y
  <2> TAKE x, y \in 1 .. K
  <2> HAVE g[x] = g[y]
  <2>1. x <= y /\ y <= x OBVIOUS
  <2> QED BY <2>1
<1>2. \A x \in 1 .. K : Port(s, g[x]) = x
  <2> TAKE x \in 1 .. K
  <2> DEFINE M == {m \in LinksOf(s) : NotAfter(m, g[x])}
             f == [y \in 1 .. x |-> g[y]]
  <2>1. \A y \in 1 .. x : y \in 1 .. K OBVIOUS
  <2>2. f \in [1 .. x -> M] BY <2>1
  <2>3. \A y, z \in 1 .. x : f[y] = f[z] => y = z BY <1>1, <2>1
  <2>4. \A m \in M : \E y \in 1 .. x : f[y] = m
    <3> TAKE m \in M
    <3>1. PICK y \in 1 .. K : g[y] = m OBVIOUS
    <3>2. y \in 1 .. x BY <3>1
    <3> QED BY <3>1, <3>2
  <2> HIDE DEF f, M
  <2>5. f \in Bijection(1 .. x, M)
    BY <2>2, <2>3, <2>4 DEF Bijection, Injection, Surjection, IsInjective
  <2>6. Cardinality(M) = x BY <2>5, FS_CountingElements DEF ExistsBijection
  <2> QED BY <2>6 DEF Port, M
<1> DEFINE out == CHOOSE l \in LinksOf(s) : Port(s, l) = i
<1>3. g[i] \in LinksOf(s) /\ Port(s, g[i]) = i BY <1>2
<1>4. out \in LinksOf(s) /\ Port(s, out) = i BY <1>3
<1> HIDE DEF out
<1>5. out = g[i]
  <2>1. PICK x \in 1 .. K : g[x] = out BY <1>4
  <2> QED BY <2>1, <1>2, <1>4
<1>6. Ends(out) = {s, node} BY <1>5
<1>7. (CHOOSE x \in Ends(out) : x # s) = node BY <1>6
<1> QED BY <1>7 DEF Peer, out

\* Nodes of different layers differ,
LEMMA NodesDiffer ==
  /\ \A i, j, pod, a : Core(i, j) # Agg(pod, a)
  /\ \A i, j, pod, e : Core(i, j) # Edge(pod, e)
  /\ \A pod, a, p, e : Agg(pod, a) # Edge(p, e)
  /\ \A i, j, addr : Core(i, j) # Host(addr)
  /\ \A pod, a, addr : Agg(pod, a) # Host(addr)
  /\ \A pod, e, addr : Edge(pod, e) # Host(addr)
  BY DEF Core, Agg, Edge, Host

\* and so do different nodes of a layer.
LEMMA NodesEqual ==
  /\ \A i, j, x, y : Core(i, j) = Core(x, y) <=> i = x /\ j = y
  /\ \A i, j, x, y : Agg(i, j) = Agg(x, y) <=> i = x /\ j = y
  /\ \A i, j, x, y : Edge(i, j) = Edge(x, y) <=> i = x /\ j = y
  BY DEF Core, Agg, Edge

\* The links of a switch.
LEMMA EndsOf ==
  ASSUME NEW p, NEW x, NEW y, NEW i, NEW j
  PROVE  /\ Edge(i, j) \in Ends(<<p, 1, x, y>>) <=> i = p /\ j = x
         /\ Edge(i, j) \in Ends(<<p, 2, x, y>>) <=> i = p /\ j = y
         /\ Edge(i, j) \notin Ends(<<p, 3, x, y>>)
         /\ Agg(i, j) \notin Ends(<<p, 1, x, y>>)
         /\ Agg(i, j) \in Ends(<<p, 2, x, y>>) <=> i = p /\ j = x
         /\ Agg(i, j) \in Ends(<<p, 3, x, y>>) <=> i = p /\ j = x
         /\ Core(i, j) \notin Ends(<<p, 1, x, y>>)
         /\ Core(i, j) \notin Ends(<<p, 2, x, y>>)
         /\ Core(i, j) \in Ends(<<p, 3, x, y>>) <=> i = x /\ j = y
<1>1. /\ Ends(<<p, 1, x, y>>) = {Host(<<p, x, y + 1>>), Edge(p, x)}
      /\ Ends(<<p, 2, x, y>>) = {Agg(p, x), Edge(p, y)}
      /\ Ends(<<p, 3, x, y>>) = {Agg(p, x), Core(x, y)}
  BY DEF Ends
<1>2. /\ Edge(i, j) # Host(<<p, x, y + 1>>) /\ Edge(i, j) # Agg(p, x) /\ Edge(i, j) # Core(x, y)
      /\ Agg(i, j) # Host(<<p, x, y + 1>>) /\ Agg(i, j) # Edge(p, x) /\ Agg(i, j) # Edge(p, y)
      /\ Agg(i, j) # Core(x, y)
      /\ Core(i, j) # Host(<<p, x, y + 1>>) /\ Core(i, j) # Edge(p, x)
      /\ Core(i, j) # Edge(p, y) /\ Core(i, j) # Agg(p, x)
  BY NodesDiffer, Zenon
<1>3. /\ Edge(i, j) = Edge(p, x) <=> i = p /\ j = x
      /\ Edge(i, j) = Edge(p, y) <=> i = p /\ j = y
      /\ Agg(i, j) = Agg(p, x) <=> i = p /\ j = x
      /\ Core(i, j) = Core(x, y) <=> i = x /\ j = y
  BY DEF Edge, Agg, Core
<1> QED BY <1>1, <1>2, <1>3, Zenon

\* A port leads down or up, to one of Half nodes.
LEMMA HalfSplit ==
  \A i \in 1 .. K : \E x \in Indices : i = x + 1 \/ i = Half + 1 + x
<1> TAKE i \in 1 .. K
<1> K \in Nat /\ Half \in Nat /\ K = 2 * Half BY HalfFacts
<1>1. CASE i <= Half
  <2>1. i - 1 \in Indices /\ i = (i - 1) + 1 BY <1>1 DEF Indices
  <2> QED BY <2>1
<1>2. CASE i > Half
  <2>1. i - Half - 1 \in Indices /\ i = Half + 1 + (i - Half - 1) BY <1>2 DEF Indices
  <2> QED BY <2>1
<1> QED BY <1>1, <1>2

\* The three kinds of links: to a core switch, within a pod, to a host.
LEMMA LinkForm ==
  ASSUME NEW l \in Links
  PROVE  \E p \in Pods, x \in Indices, y \in Indices :
           l = <<p, 1, x, y>> \/ l = <<p, 2, x, y>> \/ l = <<p, 3, x, y>>
  BY DEF Links

\* The first half of the links of an edge switch leads to the hosts, the second
\* half to the aggregation switches of the pod.
LEMMA EdgePeers ==
  ASSUME NEW pod \in Pods, NEW e \in Indices
  PROVE  /\ \A h \in 1 .. Half : Peer(Edge(pod, e), h) = Host(<<pod, e, h>>)
         /\ \A a \in Indices : Peer(Edge(pod, e), Half + 1 + a) = Agg(pod, a)
<1> DEFINE s == Edge(pod, e)
           g == [i \in 1 .. K |-> IF i <= Half THEN <<pod, 1, e, i - 1>>
                                              ELSE <<pod, 2, i - Half - 1, e>>]
<1> K \in Nat /\ Half \in Nat /\ K = 2 * Half BY HalfFacts
<1>1. \A i \in 1 .. K : g[i] \in Links BY DEF Links, Indices
<1>2. \A x \in Indices : x + 1 \in 1 .. K /\ g[x + 1] = <<pod, 1, e, x>> BY DEF Indices
<1>3. \A x \in Indices : Half + 1 + x \in 1 .. K /\ g[Half + 1 + x] = <<pod, 2, x, e>>
  BY DEF Indices
<1>4. \A i \in 1 .. K : \E x \in Indices : i = x + 1 \/ i = Half + 1 + x
  BY HalfSplit
<1>5. \A i, j \in 1 .. K : NotAfter(g[i], g[j]) <=> i <= j
  BY DEF NotAfter, Indices, Pods
<1>6. g = [i \in 1 .. K |-> g[i]] OBVIOUS
<1> HIDE DEF g
<1>7. \A i \in 1 .. K : s \in Ends(g[i])
  <2> TAKE i \in 1 .. K
  <2>1. PICK x \in Indices : i = x + 1 \/ i = Half + 1 + x BY <1>4
  <2>2. s \in Ends(<<pod, 1, e, x>>) /\ s \in Ends(<<pod, 2, x, e>>) BY EndsOf
  <2> QED BY <1>2, <1>3, <2>1, <2>2
<1>8. g \in [1 .. K -> LinksOf(s)] BY <1>1, <1>6, <1>7 DEF LinksOf
<1>9. \A l \in LinksOf(s) : \E i \in 1 .. K : g[i] = l
  <2> TAKE l \in LinksOf(s)
  <2>1. l \in Links /\ s \in Ends(l) BY DEF LinksOf
  <2>2. PICK p \in Pods, x \in Indices, y \in Indices :
          l = <<p, 1, x, y>> \/ l = <<p, 2, x, y>> \/ l = <<p, 3, x, y>>
    BY <2>1, LinkForm
  <2>3. /\ s \in Ends(<<p, 1, x, y>>) => pod = p /\ e = x
        /\ s \in Ends(<<p, 2, x, y>>) => pod = p /\ e = y
        /\ s \notin Ends(<<p, 3, x, y>>)
    BY EndsOf
  <2>4. l = <<pod, 1, e, y>> \/ l = <<pod, 2, x, e>> BY <2>1, <2>2, <2>3, Zenon
  <2>5. g[y + 1] = <<pod, 1, e, y>> /\ g[Half + 1 + x] = <<pod, 2, x, e>> BY <1>2, <1>3
  <2>6. y + 1 \in 1 .. K /\ Half + 1 + x \in 1 .. K BY <1>2, <1>3
  <2> QED BY <2>4, <2>5, <2>6, Zenon
<1>10. InOrder(g, s) BY <1>5, <1>8, <1>9 DEF InOrder
<1>11. ASSUME NEW x \in Indices
       PROVE  Peer(s, x + 1) = Host(<<pod, e, x + 1>>) /\ Peer(s, Half + 1 + x) = Agg(pod, x)
  <2>1. Ends(g[x + 1]) = {Host(<<pod, e, x + 1>>), s}
    <3>1. g[x + 1] = <<pod, 1, e, x>> BY <1>2
    <3> QED BY <3>1 DEF Ends
  <2>2. Ends(g[Half + 1 + x]) = {Agg(pod, x), s}
    <3>1. g[Half + 1 + x] = <<pod, 2, x, e>> BY <1>3
    <3> QED BY <3>1 DEF Ends
  <2>3. Host(<<pod, e, x + 1>>) # s /\ Agg(pod, x) # s BY NodesDiffer
  <2>4. x + 1 \in 1 .. K /\ Half + 1 + x \in 1 .. K BY <1>2, <1>3
  <2> HIDE DEF s
  <2>5. Peer(s, x + 1) = Host(<<pod, e, x + 1>>)
    BY <1>10, <2>1, <2>3, <2>4, PortOf, Zenon
  <2>6. Peer(s, Half + 1 + x) = Agg(pod, x)
    BY <1>10, <2>2, <2>3, <2>4, PortOf, Zenon
  <2> QED BY <2>5, <2>6
<1>12. \A h \in 1 .. Half : h - 1 \in Indices /\ (h - 1) + 1 = h BY DEF Indices
<1>13. \A h \in 1 .. Half : Peer(s, h) = Host(<<pod, e, h>>)
  <2> TAKE h \in 1 .. Half
  <2>1. h - 1 \in Indices /\ (h - 1) + 1 = h BY <1>12
  <2>2. Peer(s, (h - 1) + 1) = Host(<<pod, e, (h - 1) + 1>>) BY <1>11, <2>1
  <2> QED BY <2>1, <2>2
<1> QED BY <1>11, <1>13

\* ... that of an aggregation switch to the edge switches of its pod and to the
\* core switches of its row.
LEMMA AggPeers ==
  ASSUME NEW pod \in Pods, NEW a \in Indices
  PROVE  \A x \in Indices : /\ Peer(Agg(pod, a), x + 1) = Edge(pod, x)
                             /\ Peer(Agg(pod, a), Half + 1 + x) = Core(a, x)
<1> DEFINE s == Agg(pod, a)
           g == [i \in 1 .. K |-> IF i <= Half THEN <<pod, 2, a, i - 1>>
                                              ELSE <<pod, 3, a, i - Half - 1>>]
<1> K \in Nat /\ Half \in Nat /\ K = 2 * Half BY HalfFacts
<1>1. \A i \in 1 .. K : g[i] \in Links BY DEF Links, Indices
<1>2. \A x \in Indices : x + 1 \in 1 .. K /\ g[x + 1] = <<pod, 2, a, x>> BY DEF Indices
<1>3. \A x \in Indices : Half + 1 + x \in 1 .. K /\ g[Half + 1 + x] = <<pod, 3, a, x>>
  BY DEF Indices
<1>4. \A i \in 1 .. K : \E x \in Indices : i = x + 1 \/ i = Half + 1 + x
  BY HalfSplit
<1>5. \A i, j \in 1 .. K : NotAfter(g[i], g[j]) <=> i <= j
  BY DEF NotAfter, Indices, Pods
<1>6. g = [i \in 1 .. K |-> g[i]] OBVIOUS
<1> HIDE DEF g
<1>7. \A i \in 1 .. K : s \in Ends(g[i])
  <2> TAKE i \in 1 .. K
  <2>1. PICK x \in Indices : i = x + 1 \/ i = Half + 1 + x BY <1>4
  <2>2. s \in Ends(<<pod, 2, a, x>>) /\ s \in Ends(<<pod, 3, a, x>>) BY EndsOf
  <2> QED BY <1>2, <1>3, <2>1, <2>2
<1>8. g \in [1 .. K -> LinksOf(s)] BY <1>1, <1>6, <1>7 DEF LinksOf
<1>9. \A l \in LinksOf(s) : \E i \in 1 .. K : g[i] = l
  <2> TAKE l \in LinksOf(s)
  <2>1. l \in Links /\ s \in Ends(l) BY DEF LinksOf
  <2>2. PICK p \in Pods, x \in Indices, y \in Indices :
          l = <<p, 1, x, y>> \/ l = <<p, 2, x, y>> \/ l = <<p, 3, x, y>>
    BY <2>1, LinkForm
  <2>3. /\ s \notin Ends(<<p, 1, x, y>>)
        /\ s \in Ends(<<p, 2, x, y>>) => pod = p /\ a = x
        /\ s \in Ends(<<p, 3, x, y>>) => pod = p /\ a = x
    BY EndsOf
  <2>4. l = <<pod, 2, a, y>> \/ l = <<pod, 3, a, y>> BY <2>1, <2>2, <2>3, Zenon
  <2>5. g[y + 1] = <<pod, 2, a, y>> /\ g[Half + 1 + y] = <<pod, 3, a, y>> BY <1>2, <1>3
  <2>6. y + 1 \in 1 .. K /\ Half + 1 + y \in 1 .. K BY <1>2, <1>3
  <2> QED BY <2>4, <2>5, <2>6, Zenon
<1>10. InOrder(g, s) BY <1>5, <1>8, <1>9 DEF InOrder
<1>11. ASSUME NEW x \in Indices
       PROVE  Peer(s, x + 1) = Edge(pod, x) /\ Peer(s, Half + 1 + x) = Core(a, x)
  <2>1. Ends(g[x + 1]) = {Edge(pod, x), s}
    <3>1. g[x + 1] = <<pod, 2, a, x>> BY <1>2
    <3> QED BY <3>1 DEF Ends
  <2>2. Ends(g[Half + 1 + x]) = {Core(a, x), s}
    <3>1. g[Half + 1 + x] = <<pod, 3, a, x>> BY <1>3
    <3> QED BY <3>1 DEF Ends
  <2>3. Edge(pod, x) # s /\ Core(a, x) # s BY NodesDiffer
  <2>4. x + 1 \in 1 .. K /\ Half + 1 + x \in 1 .. K BY <1>2, <1>3
  <2> HIDE DEF s
  <2>5. Peer(s, x + 1) = Edge(pod, x)
    BY <1>10, <2>1, <2>3, <2>4, PortOf, Zenon
  <2>6. Peer(s, Half + 1 + x) = Core(a, x)
    BY <1>10, <2>2, <2>3, <2>4, PortOf, Zenon
  <2> QED BY <2>5, <2>6
<1> QED BY <1>11

\* ... and those of a core switch to one aggregation switch of each pod.
LEMMA CorePeers ==
  ASSUME NEW i \in Indices, NEW j \in Indices
  PROVE  \A pod \in Pods : Peer(Core(i, j), pod + 1) = Agg(pod, i)
<1> DEFINE s == Core(i, j)
           g == [n \in 1 .. K |-> <<n - 1, 3, i, j>>]
<1> K \in Nat BY HalfFacts
<1>1. \A n \in 1 .. K : g[n] \in Links BY DEF Links, Pods
<1>2. \A pod \in Pods : pod + 1 \in 1 .. K /\ g[pod + 1] = <<pod, 3, i, j>> BY DEF Pods
<1>3. \A n \in 1 .. K : n - 1 \in Pods /\ g[n] = <<n - 1, 3, i, j>> BY DEF Pods
<1>4. \A m, n \in 1 .. K : NotAfter(g[m], g[n]) <=> m <= n BY DEF NotAfter, Indices
<1>5. g = [n \in 1 .. K |-> g[n]] OBVIOUS
<1> HIDE DEF g
<1>6. \A n \in 1 .. K : s \in Ends(g[n])
  <2> TAKE n \in 1 .. K
  <2>1. s \in Ends(<<n - 1, 3, i, j>>)
    <3> DEFINE q == n - 1
    <3> HIDE DEF q
    <3>1. s \in Ends(<<q, 3, i, j>>) BY EndsOf
    <3> QED BY <3>1 DEF q
  <2> QED BY <1>3, <2>1
<1>7. g \in [1 .. K -> LinksOf(s)] BY <1>1, <1>5, <1>6 DEF LinksOf
<1>8. \A l \in LinksOf(s) : \E n \in 1 .. K : g[n] = l
  <2> TAKE l \in LinksOf(s)
  <2>1. l \in Links /\ s \in Ends(l) BY DEF LinksOf
  <2>2. PICK p \in Pods, x \in Indices, y \in Indices :
          l = <<p, 1, x, y>> \/ l = <<p, 2, x, y>> \/ l = <<p, 3, x, y>>
    BY <2>1, LinkForm
  <2>3. /\ s \notin Ends(<<p, 1, x, y>>)
        /\ s \notin Ends(<<p, 2, x, y>>)
        /\ s \in Ends(<<p, 3, x, y>>) => i = x /\ j = y
    BY EndsOf
  <2>4. l = <<p, 3, i, j>> BY <2>1, <2>2, <2>3, Zenon
  <2>5. p + 1 \in 1 .. K /\ g[p + 1] = <<p, 3, i, j>> BY <1>2
  <2> QED BY <2>4, <2>5, Zenon
<1>9. InOrder(g, s) BY <1>4, <1>7, <1>8 DEF InOrder
<1>10. ASSUME NEW pod \in Pods
       PROVE  Peer(s, pod + 1) = Agg(pod, i)
  <2>1. Ends(g[pod + 1]) = {Agg(pod, i), s}
    <3>1. g[pod + 1] = <<pod, 3, i, j>> BY <1>2
    <3> QED BY <3>1 DEF Ends
  <2>2. Agg(pod, i) # s BY NodesDiffer
  <2>3. pod + 1 \in 1 .. K BY <1>2
  <2> HIDE DEF s
  <2> QED BY <1>9, <2>1, <2>2, <2>3, PortOf, Zenon
<1> QED BY <1>10

-----------------------------------------------------------------------------
(* Forwarding. *)

\* The rules of a switch with a group: some of them while they are installed,
\* the rule for the rest only when all others are there.
PartOfList(R, prefix) ==
  /\ R \subseteq {Uplinks, Default} \cup {FlowMod(200, prefix[i], i) : i \in 1 .. Half}
  /\ Default \in R => Uplinks \in R /\ \A i \in 1 .. Half : FlowMod(200, prefix[i], i) \in R

\* The fields of the messages.
LEMMA ModFacts ==
  /\ Uplinks.kind = "group" /\ Uplinks.ports = Half + 1 .. K
  /\ Default.kind = "flow" /\ Default.out = ToGroup
  /\ Default.prefix = <<>> /\ Default.priority = 100
  /\ \A p, x, out : /\ FlowMod(p, x, out).kind = "flow" /\ FlowMod(p, x, out).out = out
                    /\ FlowMod(p, x, out).prefix = x /\ FlowMod(p, x, out).priority = p
  BY DEF Uplinks, GroupMod, Default, FlowMod

\* The list of a switch with a group.
GroupList(all, prefix) ==
  /\ Len(all) = Half + 2
  /\ all[1] = Uplinks
  /\ \A i \in 1 .. Half : all[i + 1] = FlowMod(200, prefix[i], i)
  /\ all[Half + 2] = Default

\* The first part of a list of a group, as the rules of a switch.
LEMMA ListPart ==
  ASSUME NEW all, NEW prefix, GroupList(all, prefix), NEW n \in 0 .. Len(all),
         NEW R, R = {all[i] : i \in 1 .. n}
  PROVE  PartOfList(R, prefix) /\ (n = Half + 2 => Default \in R)
<1> Half \in Nat /\ Half >= 1 BY HalfFacts
<1> USE DEF GroupList
<1>1. \A i \in 1 .. n : i = 1 \/ i = Half + 2 \/ (i - 1 \in 1 .. Half /\ i = (i - 1) + 1)
  OBVIOUS
<1>2. ASSUME NEW i \in 1 .. n
      PROVE  all[i] \in {Uplinks, Default} \cup {FlowMod(200, prefix[j], j) : j \in 1 .. Half}
  <2>1. CASE i = 1 BY <2>1
  <2>2. CASE i = Half + 2 BY <2>2
  <2>3. CASE i - 1 \in 1 .. Half /\ i = (i - 1) + 1
    <3>1. all[(i - 1) + 1] = FlowMod(200, prefix[i - 1], i - 1) BY <2>3
    <3>2. all[i] = FlowMod(200, prefix[i - 1], i - 1) BY <2>3, <3>1
    <3> QED BY <2>3, <3>2
  <2> QED BY <1>1, <2>1, <2>2, <2>3
<1>3. ASSUME Default \in R PROVE n = Half + 2
  <2>1. PICK i \in 1 .. n : all[i] = Default BY <1>3
  <2>2. i # 1 BY <2>1, ModFacts
  <2>3. ASSUME i - 1 \in 1 .. Half, i = (i - 1) + 1 PROVE FALSE
    <3>1. all[(i - 1) + 1] = FlowMod(200, prefix[i - 1], i - 1) BY <2>3
    <3>2. all[i] = FlowMod(200, prefix[i - 1], i - 1) BY <2>3, <3>1
    <3>3. all[i].priority = 200 BY <3>2, ModFacts
    <3> QED BY <2>1, <3>3, ModFacts
  <2> QED BY <1>1, <2>2, <2>3
<1>4. ASSUME n = Half + 2
      PROVE  /\ Default \in R /\ Uplinks \in R
             /\ \A j \in 1 .. Half : FlowMod(200, prefix[j], j) \in R
  <2>1. 1 \in 1 .. n /\ Half + 2 \in 1 .. n /\ \A j \in 1 .. Half : j + 1 \in 1 .. n BY <1>4
  <2> QED BY <2>1
<1> QED BY <1>2, <1>3, <1>4 DEF PartOfList

\* A downlink that matches is the only way, also when the rule for the rest is
\* there.
LEMMA DownOut ==
  ASSUME NEW s, NEW prefix, PartOfList(rules[s], prefix), address \in Addresses,
         NEW i \in 1 .. Half, \A j \in 1 .. Half : IsPrefix(prefix[j], address) <=> j = i
  PROVE  /\ \A port \in OutPorts(s) : port = i
         /\ Default \in rules[s] => OutPorts(s) # {}
<1> DEFINE R == rules[s]
           down == FlowMod(200, prefix[i], i)
<1>1. ASSUME NEW r \in R, r.kind = "flow", IsPrefix(r.prefix, address)
      PROVE  r = Default \/ r = down
  <2>1. r = Uplinks \/ r = Default \/ \E j \in 1 .. Half : r = FlowMod(200, prefix[j], j)
    BY DEF PartOfList
  <2>2. r # Uplinks BY <1>1, ModFacts
  <2>3. ASSUME NEW j \in 1 .. Half, r = FlowMod(200, prefix[j], j) PROVE r = down
    <3>1. r.prefix = prefix[j] BY <2>3, ModFacts
    <3> QED BY <1>1, <2>3, <3>1
  <2> QED BY <2>1, <2>2, <2>3
<1>2. /\ down.kind = "flow" /\ down.out = i
      /\ down.prefix = prefix[i] /\ down.priority = 200
  BY ModFacts
<1>3. IsPrefix(down.prefix, address) BY <1>2
<1>4. Default \in R => down \in R BY DEF PartOfList
<1> HIDE DEF down, R
<1>5. ASSUME NEW r \in Matching(s) PROVE r = down
  <2>1. /\ r \in R /\ r.kind = "flow" /\ IsPrefix(r.prefix, address)
        /\ \A other \in R : other.kind = "flow" /\ IsPrefix(other.prefix, address)
                              => other.priority <= r.priority
    BY DEF Matching, R
  <2>2. CASE r = Default
    <3>1. down \in R BY <1>4, <2>1, <2>2
    <3>2. 200 <= r.priority BY <1>2, <1>3, <2>1, <3>1
    <3>3. r.priority = 100 BY <2>2, ModFacts
    <3> QED BY <3>2, <3>3
  <2> QED BY <1>1, <2>1, <2>2
<1>6. i # ToGroup BY HalfFacts DEF ToGroup
<1>7. \A port \in OutPorts(s) : port = i BY <1>2, <1>5, <1>6 DEF OutPorts
<1>8. ASSUME Default \in R PROVE i \in OutPorts(s)
  <2>1. down \in R BY <1>4, <1>8
  <2>2. \A r \in R : r.kind = "flow" /\ IsPrefix(r.prefix, address) => r.priority <= 200
    BY <1>1, <1>2, ModFacts
  <2>3. down \in Matching(s) BY <1>2, <1>3, <2>1, <2>2 DEF Matching, R
  <2> QED BY <1>2, <1>6, <2>3 DEF OutPorts
<1> QED BY <1>7, <1>8 DEF R

\* Everything else goes up.
LEMMA UpOut ==
  ASSUME NEW s, NEW prefix, PartOfList(rules[s], prefix), address \in Addresses,
         \A j \in 1 .. Half : ~ IsPrefix(prefix[j], address)
  PROVE  /\ \A port \in OutPorts(s) : port \in Half + 1 .. K
         /\ Default \in rules[s] => OutPorts(s) # {}
<1> DEFINE R == rules[s]
<1>1. ASSUME NEW r \in R, r.kind = "flow", IsPrefix(r.prefix, address)
      PROVE  r = Default
  <2>1. r = Uplinks \/ r = Default \/ \E j \in 1 .. Half : r = FlowMod(200, prefix[j], j)
    BY DEF PartOfList
  <2>2. r # Uplinks BY <1>1, ModFacts
  <2>3. ASSUME NEW j \in 1 .. Half, r = FlowMod(200, prefix[j], j) PROVE FALSE
    <3>1. r.prefix = prefix[j] BY <2>3, ModFacts
    <3> QED BY <1>1, <3>1
  <2> QED BY <2>1, <2>2, <2>3
<1>2. ASSUME NEW g \in R, g.kind = "group" PROVE g.ports = Half + 1 .. K
  <2>1. g = Uplinks \/ g = Default \/ \E j \in 1 .. Half : g = FlowMod(200, prefix[j], j)
    BY DEF PartOfList
  <2>2. g = Uplinks BY <1>2, <2>1, ModFacts
  <2> QED BY <2>2, ModFacts
<1>3. Default \in R => Uplinks \in R BY DEF PartOfList
<1>4. IsPrefix(Default.prefix, address) BY PrefixFacts, ModFacts
<1> HIDE DEF R
<1>5. ASSUME NEW port \in OutPorts(s) PROVE port \in Half + 1 .. K
  <2>1. \A r \in Matching(s) : r = Default BY <1>1 DEF Matching, R
  <2>2. PICK r \in Matching(s) :
          port \in IF r.out = ToGroup
                     THEN UNION {g.ports : g \in {x \in R : x.kind = "group"}}
                     ELSE {r.out}
    BY <1>5 DEF OutPorts, R
  <2>3. r.out = ToGroup BY <2>1, ModFacts
  <2>4. PICK g \in R : g.kind = "group" /\ port \in g.ports BY <2>2, <2>3
  <2> QED BY <1>2, <2>4
<1>6. ASSUME Default \in R PROVE Half + 1 \in OutPorts(s)
  <2>1. \A r \in R : r.kind = "flow" /\ IsPrefix(r.prefix, address) => r.priority <= 100
    BY <1>1, ModFacts
  <2>2. Default \in Matching(s) BY <1>4, <1>6, <2>1, ModFacts DEF Matching, R
  <2>3. Uplinks \in R /\ Uplinks.kind = "group" /\ Half + 1 \in Uplinks.ports
    BY <1>3, <1>6, ModFacts, HalfFacts
  <2>4. Half + 1 \in UNION {g.ports : g \in {x \in R : x.kind = "group"}} BY <2>3
  <2> QED BY <2>2, <2>4, ModFacts DEF OutPorts, R
<1> QED BY <1>5, <1>6 DEF R

\* The switch has all rules of its list.
Complete(s) == rules[s] = {InstallRules(Dpid(s))[i] : i \in 1 .. Len(InstallRules(Dpid(s)))}

\* The parts of a host's address.
LEMMA AddressFacts ==
  ASSUME NEW addr \in Addresses
  PROVE  addr[1] \in Pods /\ addr[2] \in Indices /\ addr[3] \in 1 .. Half
  BY DEF Addresses

\* Where an edge switch sends the packet.
LEMMA EdgeForward ==
  ASSUME NEW pod \in Pods, NEW e \in Indices, RulesInOrder, address \in Addresses
  PROVE  LET s == Edge(pod, e) IN
         /\ pod = address[1] /\ e = address[2]
              => \A port \in OutPorts(s) : Peer(s, port) = Host(address)
         /\ ~ (pod = address[1] /\ e = address[2])
              => \A port \in OutPorts(s) : \E a \in Indices : Peer(s, port) = Agg(pod, a)
         /\ Complete(s) => OutPorts(s) # {}
<1> DEFINE s == Edge(pod, e)
           all == InstallRules(Dpid(s))
           prefix == [h \in 1 .. Half |-> <<pod, e, h>>]
<1> Half \in Nat /\ Half >= 1 /\ K = 2 * Half BY HalfFacts
<1>1. /\ Len(all) = Half + 2
      /\ all[1] = Uplinks
      /\ \A i \in 2 .. Half + 1 : all[i] = EdgeDown(pod, e, i - 1)
      /\ all[Half + 2] = Default
  BY EdgeEntries
<1>2. \A h \in 1 .. Half : FlowMod(200, prefix[h], h) = EdgeDown(pod, e, h) BY DEF EdgeDown
<1>3. s \in Switches BY DEF Switches
<1>4. address[3] \in 1 .. Half BY AddressFacts
<1>5. \A h \in 1 .. Half : IsPrefix(prefix[h], address)
                             <=> pod = address[1] /\ e = address[2] /\ h = address[3]
  BY PrefixFacts
<1> HIDE DEF s, prefix
<1>6. PICK n \in 0 .. Len(all) : rules[s] = {all[i] : i \in 1 .. n}
  BY <1>3 DEF RulesInOrder
<1> HIDE DEF all
<1>7. \A h \in 1 .. Half : h + 1 \in 2 .. Half + 1 /\ all[h + 1] = FlowMod(200, prefix[h], h)
  <2> TAKE h \in 1 .. Half
  <2>1. h + 1 \in 2 .. Half + 1 /\ (h + 1) - 1 = h OBVIOUS
  <2>2. all[h + 1] = EdgeDown(pod, e, (h + 1) - 1) BY <1>1, <2>1
  <2> QED BY <1>2, <2>1, <2>2
<1>8. PartOfList(rules[s], prefix) /\ (n = Half + 2 => Default \in rules[s])
  <2>1. GroupList(all, prefix) BY <1>1, <1>7 DEF GroupList
  <2> QED BY <1>6, <2>1, ListPart, Zenon
<1>9. Complete(s) => Default \in rules[s] BY <1>1 DEF Complete, all
<1>10. CASE pod = address[1] /\ e = address[2]
  <2>1. \A h \in 1 .. Half : IsPrefix(prefix[h], address) <=> h = address[3] BY <1>5, <1>10
  <2>2. /\ \A port \in OutPorts(s) : port = address[3]
        /\ Default \in rules[s] => OutPorts(s) # {}
    BY <1>4, <1>8, <2>1, DownOut
  <2>3. Peer(s, address[3]) = Host(<<pod, e, address[3]>>) BY <1>4, EdgePeers DEF s
  <2>4. Host(<<pod, e, address[3]>>) = Host(address) BY <1>10 DEF Host
  <2> QED BY <1>9, <1>10, <2>2, <2>3, <2>4 DEF s
<1>11. CASE ~ (pod = address[1] /\ e = address[2])
  <2>1. \A h \in 1 .. Half : ~ IsPrefix(prefix[h], address) BY <1>5, <1>11
  <2>2. /\ \A port \in OutPorts(s) : port \in Half + 1 .. K
        /\ Default \in rules[s] => OutPorts(s) # {}
    BY <1>8, <2>1, UpOut
  <2>3. ASSUME NEW port \in OutPorts(s) PROVE \E a \in Indices : Peer(s, port) = Agg(pod, a)
    <3>1. port \in Half + 1 .. K BY <2>2
    <3>2. port - Half - 1 \in Indices /\ Half + 1 + (port - Half - 1) = port
      BY <3>1 DEF Indices
    <3>3. Peer(s, Half + 1 + (port - Half - 1)) = Agg(pod, port - Half - 1)
      BY <3>2, EdgePeers DEF s
    <3> QED BY <3>2, <3>3
  <2> QED BY <1>9, <1>11, <2>2, <2>3 DEF s
<1> QED BY <1>10, <1>11

\* Where an aggregation switch sends it.
LEMMA AggForward ==
  ASSUME NEW pod \in Pods, NEW a \in Indices, RulesInOrder, address \in Addresses
  PROVE  LET s == Agg(pod, a) IN
         /\ pod = address[1]
              => \A port \in OutPorts(s) : Peer(s, port) = Edge(pod, address[2])
         /\ pod # address[1]
              => \A port \in OutPorts(s) : \E c \in Indices : Peer(s, port) = Core(a, c)
         /\ Complete(s) => OutPorts(s) # {}
<1> DEFINE s == Agg(pod, a)
           all == InstallRules(Dpid(s))
           prefix == [i \in 1 .. Half |-> <<pod, i - 1>>]
<1> Half \in Nat /\ Half >= 1 /\ K = 2 * Half BY HalfFacts
<1>1. /\ Len(all) = Half + 2
      /\ all[1] = Uplinks
      /\ \A i \in 2 .. Half + 1 : all[i] = AggDown(pod, i - 2)
      /\ all[Half + 2] = Default
  BY AggEntries
<1>2. \A i \in 1 .. Half : FlowMod(200, prefix[i], i) = AggDown(pod, i - 1) BY DEF AggDown
<1>3. s \in Switches BY DEF Switches
<1>4. address[2] \in Indices BY AddressFacts
<1>5. \A i \in 1 .. Half : IsPrefix(prefix[i], address)
                             <=> pod = address[1] /\ i - 1 = address[2]
  <2> TAKE i \in 1 .. Half
  <2>1. prefix[i] = <<pod, i - 1>> OBVIOUS
  <2> HIDE DEF prefix
  <2> QED BY <2>1, PrefixFacts
<1> HIDE DEF s, prefix
<1>6. PICK n \in 0 .. Len(all) : rules[s] = {all[i] : i \in 1 .. n}
  BY <1>3 DEF RulesInOrder
<1> HIDE DEF all
<1>7. \A i \in 1 .. Half : all[i + 1] = FlowMod(200, prefix[i], i)
  <2> TAKE i \in 1 .. Half
  <2>1. i + 1 \in 2 .. Half + 1 /\ (i + 1) - 2 = i - 1 OBVIOUS
  <2>2. all[i + 1] = AggDown(pod, (i + 1) - 2) BY <1>1, <2>1
  <2> QED BY <1>2, <2>1, <2>2
<1>8. PartOfList(rules[s], prefix) /\ (n = Half + 2 => Default \in rules[s])
  <2>1. GroupList(all, prefix) BY <1>1, <1>7 DEF GroupList
  <2> QED BY <1>6, <2>1, ListPart, Zenon
<1>9. Complete(s) => Default \in rules[s] BY <1>1 DEF Complete, all
<1>10. CASE pod = address[1]
  <2>1. address[2] + 1 \in 1 .. Half /\ (address[2] + 1) - 1 = address[2] BY <1>4 DEF Indices
  <2>2. \A i \in 1 .. Half : IsPrefix(prefix[i], address) <=> i = address[2] + 1
    BY <1>4, <1>5, <1>10 DEF Indices
  <2>3. /\ \A port \in OutPorts(s) : port = address[2] + 1
        /\ Default \in rules[s] => OutPorts(s) # {}
    <3> DEFINE i == address[2] + 1
    <3>1. i \in 1 .. Half /\ \A j \in 1 .. Half : IsPrefix(prefix[j], address) <=> j = i
      BY <2>1, <2>2
    <3> HIDE DEF i
    <3>2. /\ \A port \in OutPorts(s) : port = i
          /\ Default \in rules[s] => OutPorts(s) # {}
      BY <1>8, <3>1, DownOut
    <3> QED BY <3>2 DEF i
  <2>4. Peer(s, address[2] + 1) = Edge(pod, address[2]) BY <1>4, AggPeers DEF s
  <2> QED BY <1>9, <1>10, <2>3, <2>4 DEF s
<1>11. CASE pod # address[1]
  <2>1. \A i \in 1 .. Half : ~ IsPrefix(prefix[i], address) BY <1>5, <1>11
  <2>2. /\ \A port \in OutPorts(s) : port \in Half + 1 .. K
        /\ Default \in rules[s] => OutPorts(s) # {}
    BY <1>8, <2>1, UpOut
  <2>3. ASSUME NEW port \in OutPorts(s) PROVE \E c \in Indices : Peer(s, port) = Core(a, c)
    <3>1. port \in Half + 1 .. K BY <2>2
    <3>2. port - Half - 1 \in Indices /\ Half + 1 + (port - Half - 1) = port
      BY <3>1 DEF Indices
    <3>3. Peer(s, Half + 1 + (port - Half - 1)) = Core(a, port - Half - 1)
      BY <3>2, AggPeers DEF s
    <3> QED BY <3>2, <3>3
  <2> QED BY <1>9, <1>11, <2>2, <2>3 DEF s
<1> QED BY <1>10, <1>11

\* Where a core switch sends it: down to the pod of the address.
LEMMA CoreForward ==
  ASSUME NEW i \in Indices, NEW j \in Indices, RulesInOrder, address \in Addresses
  PROVE  LET s == Core(i, j) IN
         /\ \A port \in OutPorts(s) : Peer(s, port) = Agg(address[1], i)
         /\ Complete(s) => OutPorts(s) # {}
<1> DEFINE s == Core(i, j)
           all == InstallRules(Dpid(s))
           flow == FlowMod(100, <<address[1]>>, address[1] + 1)
<1> K \in Nat BY HalfFacts
<1>1. Len(all) = K /\ \A p \in 1 .. K : all[p] = FlowMod(100, <<p - 1>>, p) BY CoreEntries
<1>2. s \in Switches BY DEF Switches
<1>3. address[1] \in Pods /\ address[1] + 1 \in 1 .. K /\ address[1] + 1 # ToGroup
  BY AddressFacts DEF Pods, ToGroup
<1> HIDE DEF s
<1>4. PICK n \in 0 .. Len(all) : rules[s] = {all[p] : p \in 1 .. n}
  BY <1>2 DEF RulesInOrder
<1> HIDE DEF all
<1>5. \A r \in rules[s] : \E p \in 1 .. K : r = FlowMod(100, <<p - 1>>, p)
  <2> TAKE r \in rules[s]
  <2>1. PICK p \in 1 .. n : r = all[p] BY <1>4
  <2>2. p \in 1 .. K BY <1>1, <1>4
  <2> QED BY <1>1, <2>1, <2>2
<1>6. /\ flow.kind = "flow" /\ flow.out = address[1] + 1
      /\ flow.prefix = <<address[1]>> /\ flow.priority = 100
  BY ModFacts
<1>7. IsPrefix(flow.prefix, address) BY <1>6, PrefixFacts
<1>8. ASSUME NEW r \in rules[s]
      PROVE  r.priority = 100 /\ (IsPrefix(r.prefix, address) => r = flow)
  <2>1. PICK p \in 1 .. K : r = FlowMod(100, <<p - 1>>, p) BY <1>5
  <2>2. r.priority = 100 /\ r.prefix = <<p - 1>> BY <2>1, ModFacts
  <2>3. IsPrefix(<<p - 1>>, address) => p - 1 = address[1] BY PrefixFacts
  <2>4. ASSUME IsPrefix(r.prefix, address) PROVE r = flow
    <3>1. p - 1 = address[1] BY <2>2, <2>3, <2>4
    <3>2. p = address[1] + 1 BY <1>3, <3>1 DEF Pods
    <3> QED BY <2>1, <3>1, <3>2
  <2> QED BY <2>2, <2>4
<1> HIDE DEF flow
<1>9. \A r \in Matching(s) : r = flow BY <1>8 DEF Matching
<1>10. \A port \in OutPorts(s) : port = address[1] + 1 BY <1>3, <1>6, <1>9 DEF OutPorts
<1>11. ASSUME Complete(s) PROVE address[1] + 1 \in OutPorts(s)
  <2>1. all[address[1] + 1] \in rules[s] BY <1>1, <1>3, <1>11 DEF Complete, all
  <2>2. all[address[1] + 1] = FlowMod(100, <<(address[1] + 1) - 1>>, address[1] + 1)
    BY <1>1, <1>3
  <2>3. (address[1] + 1) - 1 = address[1] BY <1>3 DEF Pods
  <2>4. flow \in rules[s] BY <2>1, <2>2, <2>3 DEF flow
  <2>5. \A r \in rules[s] : r.priority <= flow.priority BY <1>6, <1>8
  <2>6. flow \in Matching(s) BY <1>6, <1>7, <2>4, <2>5 DEF Matching
  <2>7. flow.out # ToGroup /\ flow.out = address[1] + 1 BY <1>3, <1>6
  <2> QED BY <2>6, <2>7 DEF OutPorts
<1>12. Peer(s, address[1] + 1) = Agg(address[1], i) BY <1>3, CorePeers DEF s
<1> QED BY <1>10, <1>11, <1>12 DEF s

-----------------------------------------------------------------------------
(* Routes. *)

\* The nodes of the three layers are the switches, hosts are not.
LEMMA NodesOfLayers ==
  /\ \A i, j \in Indices : Core(i, j) \in Switches
  /\ \A pod \in Pods, a \in Indices : Agg(pod, a) \in Switches /\ Edge(pod, a) \in Switches
  /\ \A addr : Host(addr) \notin Switches
  BY NodesDiffer DEF Switches

InPod(addr, e, a) == <<Edge(addr[1], e), Agg(addr[1], a), Edge(addr[1], addr[2]), Host(addr)>>
Across(addr, pod, e, a, c) ==
  <<Edge(pod, e), Agg(pod, a), Core(a, c),
    Agg(addr[1], a), Edge(addr[1], addr[2]), Host(addr)>>

\* The three kinds of routes to a host: below its edge switch, in its pod, and
\* across the core.
LEMMA RouteForms ==
  ASSUME NEW addr
  PROVE  /\ <<Edge(addr[1], addr[2]), Host(addr)>> \in RoutesTo(addr)
         /\ \A e \in Indices \ {addr[2]}, a \in Indices : InPod(addr, e, a) \in RoutesTo(addr)
         /\ \A pod \in Pods \ {addr[1]}, e \in Indices, a \in Indices, c \in Indices :
              Across(addr, pod, e, a, c) \in RoutesTo(addr)
         /\ \A route \in RoutesTo(addr) :
              \/ route = <<Edge(addr[1], addr[2]), Host(addr)>>
              \/ \E e \in Indices \ {addr[2]}, a \in Indices : route = InPod(addr, e, a)
              \/ \E pod \in Pods \ {addr[1]}, e \in Indices, a \in Indices, c \in Indices :
                   route = Across(addr, pod, e, a, c)
  BY DEF RoutesTo, InPod, Across

\* A route passes switches and ends at the host.
LEMMA RouteFacts ==
  ASSUME NEW addr \in Addresses, NEW route \in RoutesTo(addr)
  PROVE  /\ Len(route) \in {2, 4, 6}
         /\ \A i \in 1 .. Len(route) - 1 : route[i] \in Switches
         /\ route[Len(route)] = Host(addr)
<1> DEFINE Goal == /\ Len(route) \in {2, 4, 6}
                   /\ \A i \in 1 .. Len(route) - 1 : route[i] \in Switches
                   /\ route[Len(route)] = Host(addr)
<1> addr[1] \in Pods /\ addr[2] \in Indices BY AddressFacts
<1>1. ASSUME route = <<Edge(addr[1], addr[2]), Host(addr)>> PROVE Goal
  <2>1. Edge(addr[1], addr[2]) \in Switches BY NodesOfLayers
  <2> QED BY <1>1, <2>1
<1>2. ASSUME NEW e \in Indices \ {addr[2]}, NEW a \in Indices, route = InPod(addr, e, a)
      PROVE  Goal
  <2>1. Edge(addr[1], e) \in Switches /\ Agg(addr[1], a) \in Switches
        /\ Edge(addr[1], addr[2]) \in Switches
    BY NodesOfLayers
  <2> QED BY <1>2, <2>1 DEF InPod
<1>3. ASSUME NEW pod \in Pods \ {addr[1]}, NEW e \in Indices, NEW a \in Indices,
             NEW c \in Indices, route = Across(addr, pod, e, a, c)
      PROVE  Goal
  <2>1. /\ Edge(pod, e) \in Switches /\ Agg(pod, a) \in Switches /\ Core(a, c) \in Switches
        /\ Agg(addr[1], a) \in Switches /\ Edge(addr[1], addr[2]) \in Switches
    BY NodesOfLayers
  <2> QED BY <1>3, <2>1 DEF Across
<1> HIDE DEF Goal
<1>4. \/ route = <<Edge(addr[1], addr[2]), Host(addr)>>
      \/ \E e \in Indices \ {addr[2]}, a \in Indices : route = InPod(addr, e, a)
      \/ \E pod \in Pods \ {addr[1]}, e \in Indices, a \in Indices, c \in Indices :
           route = Across(addr, pod, e, a, c)
  BY RouteForms
<1>5. Goal BY <1>1, <1>2, <1>3, <1>4, Zenon
<1> QED BY <1>5 DEF Goal

\* From every edge switch there is a route.
LEMMA RouteFrom ==
  ASSUME NEW addr \in Addresses, NEW pod \in Pods, NEW e \in Indices
  PROVE  \E route \in RoutesTo(addr) : route[1] = Edge(pod, e)
<1>1. 0 \in Indices BY HalfFacts DEF Indices
<1>2. CASE pod = addr[1] /\ e = addr[2]
  <2>1. <<Edge(addr[1], addr[2]), Host(addr)>> \in RoutesTo(addr) BY RouteForms
  <2> QED BY <1>2, <2>1
<1>3. CASE pod = addr[1] /\ e # addr[2]
  <2>1. InPod(addr, e, 0) \in RoutesTo(addr) BY <1>1, <1>3, RouteForms
  <2>2. InPod(addr, e, 0)[1] = Edge(pod, e) BY <1>3 DEF InPod
  <2> QED BY <2>1, <2>2
<1>4. CASE pod # addr[1]
  <2>1. Across(addr, pod, e, 0, 0) \in RoutesTo(addr) BY <1>1, <1>4, RouteForms
  <2>2. Across(addr, pod, e, 0, 0)[1] = Edge(pod, e) BY <1>4 DEF Across
  <2> QED BY <2>1, <2>2
<1> QED BY <1>2, <1>3, <1>4

\* The packet is at the n-th node of a route.
At(route, n) ==
  /\ route \in RoutesTo(address) /\ n \in 1 .. Len(route)
  /\ at = route[n]
  /\ Len(trail) = IF outcome = "dropped" THEN n ELSE n - 1
  /\ \A i \in 1 .. Len(trail) : trail[i] = route[i]
  /\ outcome = "delivered" => n = Len(route)
  /\ outcome = "dropped" => n < Len(route)

\* The packet is somewhere on a route.
LEMMA OnRouteAt == OnRoute <=> \E route, n : At(route, n)
  BY DEF OnRoute, At

\* Wherever it is, it is sent to the next node of a route it is on, too.
LEMMA NextOnRoute ==
  ASSUME TypeOK, RulesInOrder, outcome = "travelling", at \in Switches,
         NEW route, NEW n, At(route, n),
         NEW port \in OutPorts(at)
  PROVE  \E next \in RoutesTo(address) :
           /\ n < Len(next)
           /\ \A i \in 1 .. n : next[i] = route[i]
           /\ next[n + 1] = Peer(at, port)
<1> DEFINE Goal == \E next \in RoutesTo(address) :
                     /\ n < Len(next)
                     /\ \A i \in 1 .. n : next[i] = route[i]
                     /\ next[n + 1] = Peer(at, port)
<1>0. address \in Addresses BY DEF TypeOK
<1> address[1] \in Pods /\ address[2] \in Indices BY <1>0, AddressFacts
<1>1. /\ route \in RoutesTo(address) /\ n \in 1 .. Len(route) /\ at = route[n]
  BY DEF At
<1>2. Len(route) \in {2, 4, 6} /\ route[Len(route)] = Host(address) BY <1>0, <1>1, RouteFacts
<1>3. n # Len(route) BY <1>1, <1>2, NodesOfLayers
<1>4. ASSUME route = <<Edge(address[1], address[2]), Host(address)>> PROVE Goal
  <2>1. n = 1 /\ at = Edge(address[1], address[2]) BY <1>1, <1>3, <1>4
  <2>2. Peer(at, port) = Host(address) BY <1>0, <2>1, EdgeForward
  <2> QED BY <1>1, <1>4, <2>1, <2>2
<1>5. ASSUME NEW e \in Indices \ {address[2]}, NEW a \in Indices, route = InPod(address, e, a)
      PROVE  Goal
  <2>1. CASE n = 1
    <3>1. at = Edge(address[1], e) BY <1>1, <1>5, <2>1 DEF InPod
    <3>2. PICK b \in Indices : Peer(at, port) = Agg(address[1], b) BY <1>0, <3>1, EdgeForward
    <3>3. InPod(address, e, b) \in RoutesTo(address) BY RouteForms
    <3> QED BY <1>5, <2>1, <3>2, <3>3 DEF InPod
  <2>2. CASE n = 2
    <3>1. at = Agg(address[1], a) BY <1>1, <1>5, <2>2 DEF InPod
    <3>2. Peer(at, port) = Edge(address[1], address[2]) BY <1>0, <3>1, AggForward
    <3> QED BY <1>1, <1>5, <2>2, <3>2 DEF InPod
  <2>3. CASE n = 3
    <3>1. at = Edge(address[1], address[2]) BY <1>1, <1>5, <2>3 DEF InPod
    <3>2. Peer(at, port) = Host(address) BY <1>0, <3>1, EdgeForward
    <3> QED BY <1>1, <1>5, <2>3, <3>2 DEF InPod
  <2>4. Len(route) = 4 BY <1>5 DEF InPod
  <2> QED BY <1>1, <1>3, <2>1, <2>2, <2>3, <2>4
<1>6. ASSUME NEW pod \in Pods \ {address[1]}, NEW e \in Indices, NEW a \in Indices,
             NEW c \in Indices, route = Across(address, pod, e, a, c)
      PROVE  Goal
  <2>1. CASE n = 1
    <3>1. at = Edge(pod, e) BY <1>1, <1>6, <2>1 DEF Across
    <3>2. PICK b \in Indices : Peer(at, port) = Agg(pod, b) BY <1>0, <3>1, EdgeForward
    <3>3. Across(address, pod, e, b, c) \in RoutesTo(address) BY RouteForms
    <3> QED BY <1>6, <2>1, <3>2, <3>3 DEF Across
  <2>2. CASE n = 2
    <3>1. at = Agg(pod, a) BY <1>1, <1>6, <2>2 DEF Across
    <3>2. PICK d \in Indices : Peer(at, port) = Core(a, d) BY <1>0, <3>1, AggForward
    <3>3. Across(address, pod, e, a, d) \in RoutesTo(address) BY RouteForms
    <3> QED BY <1>6, <2>2, <3>2, <3>3 DEF Across
  <2>3. CASE n = 3
    <3>1. at = Core(a, c) BY <1>1, <1>6, <2>3 DEF Across
    <3>2. Peer(at, port) = Agg(address[1], a) BY <1>0, <3>1, CoreForward
    <3> QED BY <1>1, <1>6, <2>3, <3>2 DEF Across
  <2>4. CASE n = 4
    <3>1. at = Agg(address[1], a) BY <1>1, <1>6, <2>4 DEF Across
    <3>2. Peer(at, port) = Edge(address[1], address[2]) BY <1>0, <3>1, AggForward
    <3> QED BY <1>1, <1>6, <2>4, <3>2 DEF Across
  <2>5. CASE n = 5
    <3>1. at = Edge(address[1], address[2]) BY <1>1, <1>6, <2>5 DEF Across
    <3>2. Peer(at, port) = Host(address) BY <1>0, <3>1, EdgeForward
    <3> QED BY <1>1, <1>6, <2>5, <3>2 DEF Across
  <2>6. Len(route) = 6 BY <1>6 DEF Across
  <2> QED BY <1>1, <1>3, <2>1, <2>2, <2>3, <2>4, <2>5, <2>6
<1> HIDE DEF Goal
<1>7. \/ route = <<Edge(address[1], address[2]), Host(address)>>
      \/ \E e \in Indices \ {address[2]}, a \in Indices : route = InPod(address, e, a)
      \/ \E pod \in Pods \ {address[1]}, e \in Indices, a \in Indices, c \in Indices :
           route = Across(address, pod, e, a, c)
  BY <1>1, RouteForms
<1>8. Goal BY <1>4, <1>5, <1>6, <1>7, Zenon
<1> QED BY <1>8 DEF Goal

-----------------------------------------------------------------------------
(* Counting the switches. *)

\* The sizes of the index sets,
LEMMA IndicesSize == IsFiniteSet(Indices) /\ Cardinality(Indices) = Half
<1>1. 0 \in Int /\ Half - 1 \in Int /\ ~ (0 > Half - 1) BY HalfFacts
<1>2. IsFiniteSet(0 .. Half - 1) /\ Cardinality(0 .. Half - 1) = (Half - 1) - 0 + 1
  BY <1>1, FS_Interval
<1> QED BY <1>2, HalfFacts DEF Indices

\* and of the set of pods.
LEMMA PodsSize == IsFiniteSet(Pods) /\ Cardinality(Pods) = K
<1>1. 0 \in Int /\ K - 1 \in Int /\ ~ (0 > K - 1) BY HalfFacts
<1>2. IsFiniteSet(0 .. K - 1) /\ Cardinality(0 .. K - 1) = (K - 1) - 0 + 1
  BY <1>1, FS_Interval
<1> QED BY <1>2, HalfFacts DEF Pods

CoreSet == {Core(i, j) : i \in Indices, j \in Indices}
AggSet == {Agg(pod, a) : pod \in Pods, a \in Indices}
EdgeSet == {Edge(pod, e) : pod \in Pods, e \in Indices}

\* Sizes of disjoint sets add up.
LEMMA DisjointCount ==
  ASSUME NEW S, IsFiniteSet(S), NEW T, IsFiniteSet(T), S \cap T = {}
  PROVE  IsFiniteSet(S \cup T) /\ Cardinality(S \cup T) = Cardinality(S) + Cardinality(T)
<1>1. Cardinality(S) \in Nat /\ Cardinality(T) \in Nat BY FS_CardinalityType
<1>2. /\ IsFiniteSet(S \cup T)
      /\ Cardinality(S \cup T) = Cardinality(S) + Cardinality(T) - Cardinality(S \cap T)
  BY FS_Union
<1>3. Cardinality(S \cap T) = 0 BY FS_EmptySet
<1> QED BY <1>1, <1>2, <1>3

\* A layer numbered by pairs has as many switches as there are pairs.
LEMMA PairCount ==
  ASSUME NEW S, IsFiniteSet(S), NEW T, IsFiniteSet(T), NEW L,
         NEW f \in Bijection(S \X T, L)
  PROVE  IsFiniteSet(L) /\ Cardinality(L) = Cardinality(S) * Cardinality(T)
<1>2. ExistsBijection(S \X T, L) BY DEF ExistsBijection
<1>3. IsFiniteSet(S \X T) /\ Cardinality(S \X T) = Cardinality(S) * Cardinality(T)
  BY FS_Product
<1> QED BY <1>2, <1>3, FS_Bijection

\* So the layers have the sizes that the controller waits for.
LEMMA LayerSizes ==
  /\ IsFiniteSet(CoreSet) /\ Cardinality(CoreSet) = Half * Half
  /\ IsFiniteSet(AggSet) /\ Cardinality(AggSet) = K * Half
  /\ IsFiniteSet(EdgeSet) /\ Cardinality(EdgeSet) = K * Half
<1>1. IsFiniteSet(CoreSet) /\ Cardinality(CoreSet) = Cardinality(Indices) * Cardinality(Indices)
  <2> DEFINE f == [x \in Indices \X Indices |-> Core(x[1], x[2])]
  <2>1. ASSUME NEW x \in Indices \X Indices, NEW y \in Indices \X Indices, f[x] = f[y] PROVE x = y
    <3>1. Core(x[1], x[2]) = Core(y[1], y[2]) BY <2>1
    <3>2. x[1] = y[1] /\ x[2] = y[2] BY <3>1, NodesEqual
    <3> QED BY <3>2
  <2>2. f \in [Indices \X Indices -> CoreSet] BY DEF CoreSet
  <2>3. ASSUME NEW node \in CoreSet PROVE \E x \in Indices \X Indices : f[x] = node
    <3>1. PICK i \in Indices, j \in Indices : node = Core(i, j) BY DEF CoreSet
    <3>2. <<i, j>> \in Indices \X Indices /\ f[<<i, j>>] = node BY <3>1
    <3> QED BY <3>2
  <2> HIDE DEF f
  <2>4. f \in Bijection(Indices \X Indices, CoreSet)
    BY <2>1, <2>2, <2>3 DEF Bijection, Injection, Surjection, IsInjective
  <2>5. IsFiniteSet(Indices) /\ IsFiniteSet(Pods) BY IndicesSize, PodsSize
  <2> QED BY <2>4, <2>5, PairCount
<1>2. IsFiniteSet(AggSet) /\ Cardinality(AggSet) = Cardinality(Pods) * Cardinality(Indices)
  <2> DEFINE f == [x \in Pods \X Indices |-> Agg(x[1], x[2])]
  <2>1. ASSUME NEW x \in Pods \X Indices, NEW y \in Pods \X Indices, f[x] = f[y] PROVE x = y
    <3>1. Agg(x[1], x[2]) = Agg(y[1], y[2]) BY <2>1
    <3>2. x[1] = y[1] /\ x[2] = y[2] BY <3>1, NodesEqual
    <3> QED BY <3>2
  <2>2. f \in [Pods \X Indices -> AggSet] BY DEF AggSet
  <2>3. ASSUME NEW node \in AggSet PROVE \E x \in Pods \X Indices : f[x] = node
    <3>1. PICK i \in Pods, j \in Indices : node = Agg(i, j) BY DEF AggSet
    <3>2. <<i, j>> \in Pods \X Indices /\ f[<<i, j>>] = node BY <3>1
    <3> QED BY <3>2
  <2> HIDE DEF f
  <2>4. f \in Bijection(Pods \X Indices, AggSet)
    BY <2>1, <2>2, <2>3 DEF Bijection, Injection, Surjection, IsInjective
  <2>5. IsFiniteSet(Indices) /\ IsFiniteSet(Pods) BY IndicesSize, PodsSize
  <2> QED BY <2>4, <2>5, PairCount
<1>3. IsFiniteSet(EdgeSet) /\ Cardinality(EdgeSet) = Cardinality(Pods) * Cardinality(Indices)
  <2> DEFINE f == [x \in Pods \X Indices |-> Edge(x[1], x[2])]
  <2>1. ASSUME NEW x \in Pods \X Indices, NEW y \in Pods \X Indices, f[x] = f[y] PROVE x = y
    <3>1. Edge(x[1], x[2]) = Edge(y[1], y[2]) BY <2>1
    <3>2. x[1] = y[1] /\ x[2] = y[2] BY <3>1, NodesEqual
    <3> QED BY <3>2
  <2>2. f \in [Pods \X Indices -> EdgeSet] BY DEF EdgeSet
  <2>3. ASSUME NEW node \in EdgeSet PROVE \E x \in Pods \X Indices : f[x] = node
    <3>1. PICK i \in Pods, j \in Indices : node = Edge(i, j) BY DEF EdgeSet
    <3>2. <<i, j>> \in Pods \X Indices /\ f[<<i, j>>] = node BY <3>1
    <3> QED BY <3>2
  <2> HIDE DEF f
  <2>4. f \in Bijection(Pods \X Indices, EdgeSet)
    BY <2>1, <2>2, <2>3 DEF Bijection, Injection, Surjection, IsInjective
  <2>5. IsFiniteSet(Indices) /\ IsFiniteSet(Pods) BY IndicesSize, PodsSize
  <2> QED BY <2>4, <2>5, PairCount
<1> QED BY <1>1, <1>2, <1>3, IndicesSize, PodsSize

\* self.total_switches is the number of switches of the topology.
LEMMA SwitchCount ==
  /\ IsFiniteSet(Switches)
  /\ Cardinality(Switches) = TotalSwitches
  /\ TotalSwitches \in Nat
<1>1. CoreSet \cap AggSet = {} BY NodesDiffer DEF CoreSet, AggSet
<1>2. (CoreSet \cup AggSet) \cap EdgeSet = {} BY NodesDiffer DEF CoreSet, AggSet, EdgeSet
<1>3. Switches = (CoreSet \cup AggSet) \cup EdgeSet BY DEF Switches, CoreSet, AggSet, EdgeSet
<1> DEFINE hh == Half * Half
           kh == K * Half
           lower == CoreSet \cup AggSet
<1> hh \in Nat /\ kh \in Nat BY RangesApart
<1>5. /\ IsFiniteSet(CoreSet) /\ Cardinality(CoreSet) = hh
      /\ IsFiniteSet(AggSet) /\ Cardinality(AggSet) = kh
      /\ IsFiniteSet(EdgeSet) /\ Cardinality(EdgeSet) = kh
  BY LayerSizes
<1> HIDE DEF hh, kh
<1>6. /\ IsFiniteSet(lower)
      /\ Cardinality(lower) = hh + kh
  BY <1>1, <1>5, DisjointCount
<1> HIDE DEF lower
<1>8. /\ IsFiniteSet(lower \cup EdgeSet)
      /\ Cardinality(lower \cup EdgeSet) = (hh + kh) + kh
  <2>1. lower \cap EdgeSet = {} BY <1>2 DEF lower
  <2>2. /\ IsFiniteSet(lower \cup EdgeSet)
        /\ Cardinality(lower \cup EdgeSet) = Cardinality(lower) + Cardinality(EdgeSet)
    BY <1>5, <1>6, <2>1, DisjointCount, Zenon
  <2> QED BY <1>5, <1>6, <2>2
<1>9. TotalSwitches = (hh + kh) + kh
  <2>1. 2 * K * Half = kh + kh BY HalfFacts DEF kh
  <2> QED BY <2>1 DEF TotalSwitches, hh
<1>10. Switches = lower \cup EdgeSet BY <1>3 DEF lower
<1> QED BY <1>8, <1>9, <1>10

-----------------------------------------------------------------------------
(* The inductive invariant. *)

\* What RulesInOrder says of one switch with these rules, messages and link.
InOrderAt(s, has, messages, state) ==
  LET all == InstallRules(Dpid(s)) IN
  \E n \in 0 .. Len(all) :
    /\ has = {all[i] : i \in 1 .. n}
    /\ state = "up" => \E done \in 0 .. n : messages = SubSeq(all, done + 1, Len(all))
    /\ state = "down" => messages = <<>>

\* RulesInOrder, switch by switch.
LEMMA RulesInOrderAt ==
  RulesInOrder <=> \A s \in Switches : InOrderAt(s, rules[s], inbox[s], link[s])
  BY DEF RulesInOrder, InOrderAt

\* A connected switch that has the first part of its list, and to which the
\* controller sends the rest, whatever of it was applied before.
LEMMA UpInOrder ==
  ASSUME NEW s, NEW all, all = InstallRules(Dpid(s)), NEW has, NEW messages,
         NEW n \in 0 .. Len(all), has = {all[i] : i \in 1 .. n},
         NEW done \in 0 .. n, messages = SubSeq(all, done + 1, Len(all))
  PROVE  InOrderAt(s, has, messages, "up")
  BY DEF InOrderAt

\* No switch has a rule and none is connected.
LEMMA InitInv == Init => IndInv
<1> SUFFICES ASSUME Init PROVE IndInv OBVIOUS
<1>1. PICK pair \in Pairs : address = pair[2] /\ at = Edge(pair[1][1], pair[1][2])
  BY DEF Init
<1>2. pair[1] \in Addresses /\ address \in Addresses BY <1>1, LateAssumption
<1>3. pair[1][1] \in Pods /\ pair[1][2] \in Indices BY <1>2, AddressFacts
<1>4. at \in Switches BY <1>1, <1>3, NodesOfLayers
<1>5. connected \in Nat /\ TypeOK
  <2>1. IsFiniteSet(Switches \ Late) BY SwitchCount, FS_Subset
  <2>2. connected \in Nat BY <2>1, FS_CardinalityType DEF Init
  <2>3. connects \in [Switches -> 0 .. MaxConnects + 1] BY BoundAssumption DEF Init
  <2> QED BY <1>2, <1>4, <2>2, <2>3 DEF Init, TypeOK
<1>6. RulesInOrder
  <2> SUFFICES ASSUME NEW s \in Switches PROVE InOrderAt(s, rules[s], inbox[s], link[s])
    BY RulesInOrderAt
  <2> DEFINE all == InstallRules(Dpid(s))
  <2>1. Len(all) \in Nat /\ all \in Seq({all[i] : i \in 1 .. Len(all)}) BY GroupFirst
  <2>2. inbox[s] = <<>> BY DEF Init
  <2>3. CASE s \in Late
    <3>1. rules[s] = {} /\ link[s] = "down" BY <2>3 DEF Init
    <3> HIDE DEF all
    <3>2. {} = {all[i] : i \in 1 .. 0} /\ 0 \in 0 .. Len(all) BY <2>1
    <3> QED BY <2>2, <3>1, <3>2 DEF InOrderAt, all
  <2>4. CASE s \notin Late
    <3>1. rules[s] = Range(all) /\ link[s] = "up" BY <2>4 DEF Init
    <3> HIDE DEF all
    <3>2. Range(all) = {all[i] : i \in 1 .. Len(all)} BY <2>1 DEF Range
    <3>3. <<>> = SubSeq(all, Len(all) + 1, Len(all)) BY <2>1
    <3>4. Len(all) \in 0 .. Len(all) BY <2>1
    <3> QED BY <2>2, <3>1, <3>2, <3>3, <3>4 DEF InOrderAt, all
  <2> QED BY <2>3, <2>4
<1>7. ConnectedCounts
  <2>1. {s \in Switches : connects[s] = 1} = Switches \ Late BY DEF Init
  <2>2. connected = Cardinality(Switches \ Late) /\ announced = (connected = TotalSwitches)
    BY DEF Init
  <2>3. announced => connected >= TotalSwitches
    <3>1. announced => connected = TotalSwitches BY <2>2
    <3> QED BY <3>1, SwitchCount
  <2> QED BY <2>1, <2>2, <2>3 DEF ConnectedCounts
<1>8. OnRoute
  <2>1. PICK route \in RoutesTo(address) : route[1] = at BY <1>1, <1>2, <1>3, RouteFrom
  <2>2. Len(route) \in {2, 4, 6} BY <1>2, <2>1, RouteFacts
  <2>3. At(route, 1) BY <2>1, <2>2 DEF At, Init
  <2> QED BY <2>3, OnRouteAt
<1> QED BY <1>5, <1>6, <1>7, <1>8 DEF IndInv

\* The packet stays where it is while the controller and the switches work.
LEMMA PacketStays == OnRoute /\ UNCHANGED packetVars => OnRoute'
  BY DEF OnRoute, packetVars

\* The controller counts a switch once and sends it its whole list.
LEMMA ConnectInv ==
  ASSUME IndInv, NEW s \in Switches, Connect(s)
  PROVE  IndInv'
<1> USE DEF Connect, packetVars
<1>1. TypeOK'
  <2>1. connects' \in [Switches -> 0 .. MaxConnects + 1] BY BoundAssumption DEF IndInv, TypeOK
  <2> QED BY <2>1, SwitchCount DEF IndInv, TypeOK
<1>2. RulesInOrder'
  <2> SUFFICES ASSUME NEW x \in Switches
               PROVE  InOrderAt(x, rules'[x], inbox'[x], link'[x])
    BY DEF RulesInOrder, InOrderAt
  <2>1. InOrderAt(x, rules[x], inbox[x], link[x]) BY RulesInOrderAt DEF IndInv
  <2>2. CASE x # s
    <3>1. inbox'[x] = inbox[x] /\ link'[x] = link[x] /\ rules'[x] = rules[x]
      BY <2>2 DEF IndInv, TypeOK
    <3> QED BY <2>1, <3>1
  <2>3. CASE x = s
    <3> DEFINE all == InstallRules(Dpid(s))
    <3>1. inbox'[s] = all /\ link'[s] = "up" /\ rules'[s] = rules[s] BY DEF IndInv, TypeOK
    <3>2. Len(all) \in Nat /\ all \in Seq({all[i] : i \in 1 .. Len(all)}) BY GroupFirst
    <3>3. PICK n \in 0 .. Len(all) : rules[s] = {all[i] : i \in 1 .. n}
      BY <2>1, <2>3 DEF InOrderAt
    <3> HIDE DEF all
    <3>4. all = SubSeq(all, 0 + 1, Len(all)) /\ 0 \in 0 .. n BY <3>2, <3>3
    <3> QED BY <2>3, <3>1, <3>3, <3>4 DEF InOrderAt, all
  <2> QED BY <2>2, <2>3
<1>3. ConnectedCounts'
  <2> DEFINE once == {x \in Switches : connects[x] = 1}
             once1 == {x \in Switches : connects'[x] = 1}
  <2>1. announced' => connected' >= TotalSwitches
    BY SwitchCount DEF IndInv, TypeOK, ConnectedCounts
  <2>2. ASSUME \A x \in Switches : connects'[x] <= 1
        PROVE  connected' = Cardinality(once1)
    <3>1. connects'[s] = connects[s] + 1 /\ \A x \in Switches \ {s} : connects'[x] = connects[x]
      BY DEF IndInv, TypeOK
    <3>2. connects[s] = 0 BY <2>2, <3>1 DEF IndInv, TypeOK
    <3>3. \A x \in Switches : connects[x] <= 1 BY <2>2, <3>1, <3>2
    <3>4. connected = Cardinality(once) BY <3>3 DEF IndInv, ConnectedCounts
    <3>5. once1 = once \cup {s} /\ s \notin once BY <3>1, <3>2
    <3>6. IsFiniteSet(once) BY SwitchCount, FS_Subset
    <3> HIDE DEF once, once1
    <3>7. Cardinality(once \cup {s}) = Cardinality(once) + 1 BY <3>5, <3>6, FS_AddElement
    <3> QED BY <3>4, <3>5, <3>7
  <2> QED BY <2>1, <2>2 DEF ConnectedCounts, TotalSwitches
<1>4. OnRoute' BY PacketStays DEF IndInv
<1> QED BY <1>1, <1>2, <1>3, <1>4 DEF IndInv

\* A switch that goes away keeps its rules and loses what was on its way.
LEMMA DisconnectInv ==
  ASSUME IndInv, NEW s \in Switches, Disconnect(s)
  PROVE  IndInv'
<1> USE DEF Disconnect, packetVars
<1>1. TypeOK' BY DEF IndInv, TypeOK
<1>2. RulesInOrder'
  <2> SUFFICES ASSUME NEW x \in Switches
               PROVE  InOrderAt(x, rules'[x], inbox'[x], link'[x])
    BY DEF RulesInOrder, InOrderAt
  <2>1. InOrderAt(x, rules[x], inbox[x], link[x]) BY RulesInOrderAt DEF IndInv
  <2>2. CASE x # s
    <3>1. inbox'[x] = inbox[x] /\ link'[x] = link[x] /\ rules'[x] = rules[x]
      BY <2>2 DEF IndInv, TypeOK
    <3> QED BY <2>1, <3>1
  <2>3. CASE x = s
    <3>1. inbox'[x] = <<>> /\ link'[x] = "down" /\ rules'[x] = rules[x]
      BY <2>3 DEF IndInv, TypeOK
    <3> QED BY <2>1, <3>1 DEF InOrderAt
  <2> QED BY <2>2, <2>3
<1>3. ConnectedCounts' BY DEF IndInv, ConnectedCounts, TotalSwitches
<1>4. OnRoute' BY PacketStays DEF IndInv
<1> QED BY <1>1, <1>2, <1>3, <1>4 DEF IndInv

\* The head and the tail of the end of a list.
LEMMA SubSeqHeadTail ==
  ASSUME NEW S, NEW all \in Seq(S), NEW i \in 1 .. Len(all)
  PROVE  /\ Head(SubSeq(all, i, Len(all))) = all[i]
         /\ Tail(SubSeq(all, i, Len(all))) = SubSeq(all, i + 1, Len(all))
<1> DEFINE rest == SubSeq(all, i, Len(all))
<1>1. Len(all) \in Nat /\ rest \in Seq(S) /\ Len(rest) = Len(all) - i + 1 OBVIOUS
<1>2. \A j \in 1 .. Len(rest) : rest[j] = all[i + j - 1] OBVIOUS
<1> HIDE DEF rest
<1>3. Head(rest) = all[i] BY <1>1, <1>2
<1>4. /\ Tail(rest) \in Seq(S) /\ Len(Tail(rest)) = Len(all) - i
      /\ \A j \in 1 .. Len(all) - i : Tail(rest)[j] = all[i + j]
  BY <1>1, <1>2
<1>5. /\ SubSeq(all, i + 1, Len(all)) \in Seq(S)
      /\ Len(SubSeq(all, i + 1, Len(all))) = Len(all) - i
      /\ \A j \in 1 .. Len(all) - i : SubSeq(all, i + 1, Len(all))[j] = all[i + j]
  OBVIOUS
<1>6. Tail(rest) = SubSeq(all, i + 1, Len(all))
  <2> DEFINE u == Tail(rest)
             v == SubSeq(all, i + 1, Len(all))
  <2>1. /\ u \in Seq(S) /\ v \in Seq(S) /\ Len(u) = Len(v)
        /\ \A j \in 1 .. Len(u) : u[j] = v[j]
    BY <1>4, <1>5
  <2> HIDE DEF u, v
  <2>2. u = v BY <2>1
  <2> QED BY <2>2 DEF u, v
<1> QED BY <1>3, <1>6 DEF rest

\* A switch applies the next message of its list.
LEMMA ApplyInv ==
  ASSUME IndInv, NEW s \in Switches, Apply(s)
  PROVE  IndInv'
<1> USE DEF packetVars
<1> DEFINE all == InstallRules(Dpid(s))
           message == Head(inbox[s])
           refused == /\ message.kind = "flow"
                      /\ message.out = ToGroup
                      /\ \A rule \in rules[s] : rule.kind # "group"
<1>0. /\ inbox[s] # <<>>
      /\ inbox' = [inbox EXCEPT ![s] = Tail(@)]
      /\ rules' = IF refused THEN rules ELSE [rules EXCEPT ![s] = @ \cup {message}]
      /\ UNCHANGED <<link, connects, connected, announced, packetVars>>
  BY DEF Apply
<1>1. /\ Len(all) \in Nat /\ all \in Seq({all[i] : i \in 1 .. Len(all)})
      /\ \A i \in 1 .. Len(all) :
           all[i].kind = "flow" /\ all[i].out = ToGroup => i > 1 /\ all[1].kind = "group"
  BY GroupFirst
<1>2. InOrderAt(s, rules[s], inbox[s], link[s]) BY RulesInOrderAt DEF IndInv
<1>3. link[s] = "up" \/ link[s] = "down" BY DEF IndInv, TypeOK
<1>4. PICK n \in 0 .. Len(all) :
        /\ rules[s] = {all[i] : i \in 1 .. n}
        /\ \E done \in 0 .. n : inbox[s] = SubSeq(all, done + 1, Len(all))
  BY <1>0, <1>2, <1>3 DEF InOrderAt
<1>5. link[s] = "up" BY <1>0, <1>2, <1>3 DEF InOrderAt
<1>6. PICK done \in 0 .. n : inbox[s] = SubSeq(all, done + 1, Len(all)) BY <1>4
<1> HIDE DEF all
<1>7. /\ done + 1 \in 1 .. Len(all)
      /\ message = all[done + 1]
      /\ Tail(inbox[s]) = SubSeq(all, (done + 1) + 1, Len(all))
  <2>1. done < Len(all) BY <1>0, <1>1, <1>4, <1>6
  <2>2. done \in Nat /\ done + 1 \in 1 .. Len(all) BY <1>1, <1>4, <1>6, <2>1
  <2>3. /\ Head(SubSeq(all, done + 1, Len(all))) = all[done + 1]
        /\ Tail(SubSeq(all, done + 1, Len(all))) = SubSeq(all, (done + 1) + 1, Len(all))
    BY <1>1, <2>2, SubSeqHeadTail
  <2> QED BY <1>6, <2>2, <2>3
<1>8. ~ refused
  <2> SUFFICES ASSUME refused PROVE FALSE OBVIOUS
  <2>0. all[done + 1].kind = "flow" /\ all[done + 1].out = ToGroup BY <1>7
  <2>1. done + 1 > 1 /\ all[1].kind = "group" BY <1>1, <1>7, <2>0
  <2>2. 1 \in 1 .. n BY <1>4, <1>6, <2>1
  <2> QED BY <1>4, <2>1, <2>2
<1>9. rules' = [rules EXCEPT ![s] = @ \cup {message}] BY <1>0, <1>8
<1> HIDE DEF message, refused
<1>10. TypeOK' BY <1>0, <1>9 DEF IndInv, TypeOK
<1>11. RulesInOrder'
  <2> SUFFICES ASSUME NEW x \in Switches
               PROVE  InOrderAt(x, rules'[x], inbox'[x], link'[x])
    BY DEF RulesInOrder, InOrderAt
  <2>2. CASE x # s
    <3>1. inbox'[x] = inbox[x] /\ link'[x] = link[x] /\ rules'[x] = rules[x]
      BY <1>0, <1>9, <2>2 DEF IndInv, TypeOK
    <3> QED BY <3>1, RulesInOrderAt DEF IndInv
  <2>3. CASE x = s
    <3>1. /\ inbox'[s] = SubSeq(all, (done + 1) + 1, Len(all))
          /\ rules'[s] = rules[s] \cup {all[done + 1]}
          /\ link'[s] = "up"
      BY <1>0, <1>5, <1>7, <1>9 DEF IndInv, TypeOK
    <3> DEFINE next == done + 1
               R == rules'[s]
               I == inbox'[s]
    <3>0. all = InstallRules(Dpid(s)) BY DEF all
    <3>2. I = SubSeq(all, next + 1, Len(all)) /\ R = {all[i] : i \in 1 .. n} \cup {all[next]}
      BY <1>4, <3>1
    <3>3. next \in Nat /\ next >= 1 /\ n \in Nat /\ (done < n <=> next <= n) /\ next <= Len(all)
      BY <1>4, <1>6, <1>7
    <3>4. done = n => next = n + 1 OBVIOUS
    <3> HIDE DEF next, R, I
    <3>5. CASE next <= n
      <4>1. R = {all[i] : i \in 1 .. n} BY <3>2, <3>3, <3>5
      <4>2. next \in 0 .. n BY <3>3, <3>5
      <4>3. n \in 0 .. Len(all) /\ I = SubSeq(all, next + 1, Len(all)) BY <1>4, <3>2
      <4>4. InOrderAt(s, R, I, "up") BY <3>0, <4>1, <4>2, <4>3, UpInOrder, Zenon
      <4> QED BY <2>3, <3>1, <4>4 DEF R, I
    <3>6. CASE done = n
      <4>1. next = n + 1 BY <3>4, <3>6
      <4>2. ASSUME NEW r \in R PROVE \E i \in 1 .. next : r = all[i] BY <3>2, <3>3, <4>1
      <4>3. ASSUME NEW i \in 1 .. next PROVE all[i] \in R BY <3>2, <3>3, <4>1
      <4>4. R = {all[i] : i \in 1 .. next} BY <4>2, <4>3
      <4>5. next \in 0 .. Len(all) /\ next \in 0 .. next BY <1>1, <3>3
      <4>6. InOrderAt(s, R, I, "up") BY <3>0, <3>2, <4>4, <4>5, UpInOrder, Zenon
      <4> QED BY <2>3, <3>1, <4>6 DEF R, I
    <3> QED BY <1>4, <1>6, <3>3, <3>5, <3>6
  <2> QED BY <2>2, <2>3
<1>12. ConnectedCounts' BY <1>0 DEF IndInv, ConnectedCounts, TotalSwitches
<1>13. OnRoute' BY <1>0, PacketStays DEF IndInv
<1> QED BY <1>10, <1>11, <1>12, <1>13 DEF IndInv

\* The switches stay as they are while the packet moves.
LEMMA SwitchesStay ==
  RulesInOrder /\ ConnectedCounts /\ UNCHANGED controlVars
    => RulesInOrder' /\ ConnectedCounts'
  BY DEF RulesInOrder, ConnectedCounts, controlVars, TotalSwitches

\* A switch sends the packet to the next node of a route.
LEMMA ForwardInv ==
  ASSUME IndInv, outcome = "travelling", NEW s \in Switches, Forward(s)
  PROVE  IndInv'
<1>0. /\ at = s /\ trail' = Append(trail, s) /\ UNCHANGED <<controlVars, address>>
  BY DEF Forward
<1>1. PICK route, n : At(route, n) BY OnRouteAt DEF IndInv
<1>2. /\ route \in RoutesTo(address) /\ n \in 1 .. Len(route) /\ at = route[n]
      /\ Len(trail) = n - 1 /\ \A i \in 1 .. Len(trail) : trail[i] = route[i]
  BY <1>1 DEF At
<1>3. address \in Addresses /\ trail \in Seq(Switches) BY DEF IndInv, TypeOK
<1>4. Len(route) \in Nat /\ route[Len(route)] = Host(address) BY <1>2, <1>3, RouteFacts
<1>5. n < Len(route) BY <1>0, <1>2, <1>4, NodesOfLayers
<1>6. /\ trail' \in Seq(Switches) /\ Len(trail') = n
      /\ \A i \in 1 .. n : trail'[i] = route[i]
  <2>1. n \in Nat /\ n >= 1 BY <1>2, <1>4
  <2>2. /\ Len(Append(trail, s)) = n /\ Append(trail, s)[n] = s
        /\ \A i \in 1 .. n - 1 : Append(trail, s)[i] = trail[i]
        /\ Append(trail, s) \in Seq(Switches)
    BY <1>2, <1>3, <2>1
  <2>3. \A i \in 1 .. n : i = n \/ i \in 1 .. n - 1 BY <2>1
  <2> QED BY <1>0, <1>2, <2>2, <2>3
<1>7. RulesInOrder' /\ ConnectedCounts' BY <1>0, SwitchesStay DEF IndInv
<1>8. CASE OutPorts(s) = {} /\ outcome' = "dropped" /\ UNCHANGED at
  <2>1. At(route, n)' BY <1>0, <1>2, <1>5, <1>6, <1>8 DEF At
  <2>2. OnRoute' BY <2>1 DEF OnRoute, At
  <2>3. TypeOK' BY <1>0, <1>6, <1>8 DEF IndInv, TypeOK, controlVars
  <2> QED BY <1>7, <2>2, <2>3 DEF IndInv
<1>9. ASSUME NEW port \in OutPorts(s), at' = Peer(s, port), UNCHANGED outcome PROVE IndInv'
  <2>1. PICK next \in RoutesTo(address) :
          /\ n < Len(next)
          /\ \A i \in 1 .. n : next[i] = route[i]
          /\ next[n + 1] = Peer(at, port)
    BY <1>0, <1>1, <1>9, NextOnRoute DEF IndInv
  <2>2. /\ Len(next) \in Nat /\ next[Len(next)] = Host(address)
        /\ \A i \in 1 .. Len(next) - 1 : next[i] \in Switches
    BY <1>3, <2>1, RouteFacts
  <2>3. n \in Nat /\ n >= 1 BY <1>2, <1>4
  <2>4. /\ next \in RoutesTo(address)' /\ n + 1 \in 1 .. Len(next) /\ at' = next[n + 1]
        /\ Len(trail') = (n + 1) - 1 /\ \A i \in 1 .. Len(trail') : trail'[i] = next[i]
    BY <1>0, <1>6, <1>9, <2>1, <2>2, <2>3
  <2>5. OnRoute' BY <1>9, <2>4 DEF OnRoute
  <2>6. at' \in Switches \cup {Host(a) : a \in Addresses}
    <3>1. n + 1 = Len(next) \/ n + 1 \in 1 .. Len(next) - 1 BY <2>1, <2>2, <2>3
    <3> QED BY <1>3, <2>2, <2>4, <3>1
  <2>7. TypeOK' BY <1>0, <1>6, <1>9, <2>6 DEF IndInv, TypeOK, controlVars
  <2> QED BY <1>7, <2>5, <2>7 DEF IndInv
<1> QED BY <1>8, <1>9 DEF Forward

\* A packet ends at the host it was sent to.
LEMMA DeliverInv ==
  ASSUME IndInv, outcome = "travelling", Deliver
  PROVE  IndInv'
<1> USE DEF Deliver
<1>1. PICK route, n : At(route, n) BY OnRouteAt DEF IndInv
<1>2. address \in Addresses BY DEF IndInv, TypeOK
<1>3. /\ Len(route) \in Nat /\ n \in 1 .. Len(route) /\ at = route[n]
      /\ \A i \in 1 .. Len(route) - 1 : route[i] \in Switches
  BY <1>1, <1>2, RouteFacts DEF At
<1>4. n = Len(route)
  <2>1. n \notin 1 .. Len(route) - 1 BY <1>3
  <2> QED BY <1>3, <2>1
<1>5. At(route, n)' BY <1>1, <1>4 DEF At
<1>6. OnRoute' BY <1>5 DEF OnRoute, At
<1>7. TypeOK' BY DEF IndInv, TypeOK, controlVars
<1> QED BY <1>6, <1>7, SwitchesStay DEF IndInv

\* The inductive invariant.
THEOREM Invariant == Spec => []IndInv
<1>1. IndInv /\ [Next]_vars => IndInv'
  <2> SUFFICES ASSUME IndInv, [Next]_vars PROVE IndInv' OBVIOUS
  <2>1. ASSUME NEW s \in Switches, Connect(s) PROVE IndInv' BY <2>1, ConnectInv
  <2>2. ASSUME NEW s \in Switches, Apply(s) PROVE IndInv' BY <2>2, ApplyInv
  <2>3. ASSUME NEW s \in Switches, Disconnect(s) PROVE IndInv' BY <2>3, DisconnectInv
  <2>4. CASE outcome = "travelling" /\ Deliver BY <2>4, DeliverInv
  <2>5. ASSUME NEW s \in Switches, outcome = "travelling", Forward(s) PROVE IndInv'
    BY <2>5, ForwardInv
  <2>6. CASE UNCHANGED vars
    <3>1. UNCHANGED controlVars /\ UNCHANGED packetVars BY <2>6 DEF vars
    <3>2. TypeOK' BY <3>1 DEF IndInv, TypeOK, controlVars, packetVars
    <3> QED BY <3>1, <3>2, SwitchesStay, PacketStays DEF IndInv
  <2> QED BY <2>1, <2>2, <2>3, <2>4, <2>5, <2>6 DEF Next
<1> QED BY <1>1, InitInv, PTL DEF Spec

-----------------------------------------------------------------------------
(* The properties. *)

\* The layers of the nodes.
LEMMA Layers ==
  /\ \A i, j : Layer(Core(i, j)) = 3
  /\ \A pod, a : Layer(Agg(pod, a)) = 2
  /\ \A pod, e : Layer(Edge(pod, e)) = 1
  BY DEF Layer, Core, Agg, Edge

\* A route climbs and then descends.
LEMMA RouteClimbs ==
  ASSUME NEW addr \in Addresses, NEW route \in RoutesTo(addr),
         NEW i \in 1 .. Len(route) - 3,
         Layer(route[i + 1]) < Layer(route[i])
  PROVE  Layer(route[i + 2]) < Layer(route[i + 1])
<1>1. CASE route = <<Edge(addr[1], addr[2]), Host(addr)>> BY <1>1
<1>2. ASSUME NEW e \in Indices \ {addr[2]}, NEW a \in Indices, route = InPod(addr, e, a)
      PROVE  Layer(route[i + 2]) < Layer(route[i + 1])
  <2>1. Len(route) = 4 /\ route[1] = Edge(addr[1], e) /\ route[2] = Agg(addr[1], a)
    BY <1>2 DEF InPod
  <2>2. i = 1 BY <2>1
  <2>3. Layer(route[1]) = 1 /\ Layer(route[2]) = 2 BY <2>1, Layers
  <2> QED BY <2>2, <2>3
<1>3. ASSUME NEW pod \in Pods \ {addr[1]}, NEW e \in Indices, NEW a \in Indices,
             NEW c \in Indices, route = Across(addr, pod, e, a, c)
      PROVE  Layer(route[i + 2]) < Layer(route[i + 1])
  <2>1. /\ Len(route) = 6 /\ route[1] = Edge(pod, e) /\ route[2] = Agg(pod, a)
        /\ route[3] = Core(a, c) /\ route[4] = Agg(addr[1], a)
        /\ route[5] = Edge(addr[1], addr[2])
    BY <1>3 DEF Across
  <2>2. i = 1 \/ i = 2 \/ i = 3 BY <2>1
  <2>3. /\ Layer(route[1]) = 1 /\ Layer(route[2]) = 2 /\ Layer(route[3]) = 3
        /\ Layer(route[4]) = 2 /\ Layer(route[5]) = 1
    BY <2>1, Layers
  <2> QED BY <2>2, <2>3
<1>4. \/ route = <<Edge(addr[1], addr[2]), Host(addr)>>
      \/ \E e \in Indices \ {addr[2]}, a \in Indices : route = InPod(addr, e, a)
      \/ \E pod \in Pods \ {addr[1]}, e \in Indices, a \in Indices, c \in Indices :
           route = Across(addr, pod, e, a, c)
  BY RouteForms
<1> QED BY <1>1, <1>2, <1>3, <1>4

\* A packet climbs and then descends, through five switches at most.
THEOREM PacketClimbsThenDescends == Spec => []UpThenDown
<1>1. IndInv => UpThenDown
  <2> SUFFICES ASSUME IndInv PROVE UpThenDown OBVIOUS
  <2>1. PICK route, n : At(route, n) BY OnRouteAt DEF IndInv
  <2>2. address \in Addresses /\ outcome \in {"travelling", "delivered", "dropped"}
    BY DEF IndInv, TypeOK
  <2>3. route \in RoutesTo(address) /\ Len(route) \in {2, 4, 6} BY <2>1, <2>2, RouteFacts DEF At
  <2>4. Len(trail) \in 0 .. Len(route) - 1 BY <2>1, <2>3 DEF At
  <2>5. \A i \in 1 .. Len(trail) : trail[i] = route[i] BY <2>1 DEF At
  <2>6. ASSUME NEW i \in 1 .. Len(trail) - 2, Layer(trail[i + 1]) < Layer(trail[i])
        PROVE  Layer(trail[i + 2]) < Layer(trail[i + 1])
    <3>1. /\ i \in 1 .. Len(route) - 3
          /\ trail[i] = route[i] /\ trail[i + 1] = route[i + 1] /\ trail[i + 2] = route[i + 2]
      BY <2>3, <2>4, <2>5
    <3> QED BY <2>2, <2>3, <2>6, <3>1, RouteClimbs
  <2>7. Len(trail) <= 5
    <3>1. PICK length \in 2 .. 6 : Len(route) = length
      <4>1. 2 \in 2 .. 6 /\ 4 \in 2 .. 6 /\ 6 \in 2 .. 6 OBVIOUS
      <4> QED BY <2>3, <4>1, Zenon
    <3>2. Len(trail) \in 0 .. length - 1 BY <2>4, <3>1
    <3> QED BY <3>2
  <2> QED BY <2>6, <2>7 DEF UpThenDown
<1> QED BY <1>1, Invariant, PTL

\* The only host a packet reaches is the addressed one, by a shortest path.
THEOREM PacketReachesAddressee == Spec => []ReachesAddressee
<1>1. IndInv => ReachesAddressee
  <2> SUFFICES ASSUME IndInv, at \notin Switches PROVE ReachesAddressee BY DEF ReachesAddressee
  <2> DEFINE addr == address
             own == Edge(addr[1], addr[2])
             Goal == /\ at = Host(addr)
                     /\ Len(trail) = IF trail[1] = own THEN 1
                                     ELSE IF trail[1][2] = addr[1] THEN 3 ELSE 5
  <2>1. PICK route, n : At(route, n) BY OnRouteAt DEF IndInv
  <2>2. addr \in Addresses /\ outcome \in {"travelling", "delivered", "dropped"}
    BY DEF IndInv, TypeOK
  <2>3. /\ route \in RoutesTo(addr) /\ Len(route) \in {2, 4, 6}
        /\ route[Len(route)] = Host(addr)
        /\ \A i \in 1 .. Len(route) - 1 : route[i] \in Switches
    BY <2>1, <2>2, RouteFacts DEF At
  <2>4. n \in 1 .. Len(route) /\ at = route[n] BY <2>1 DEF At
  <2>5. n = Len(route)
    <3>1. n \notin 1 .. Len(route) - 1 BY <2>3, <2>4
    <3> QED BY <2>3, <2>4, <3>1
  <2>6. at = Host(addr) /\ Len(trail) = Len(route) - 1 BY <2>1, <2>3, <2>4, <2>5 DEF At
  <2>7. trail[1] = route[1] BY <2>1, <2>3, <2>6 DEF At
  <2>8. ASSUME route = <<own, Host(addr)>> PROVE Goal BY <2>6, <2>7, <2>8
  <2>9. ASSUME NEW e \in Indices \ {addr[2]}, NEW a \in Indices, route = InPod(addr, e, a)
        PROVE  Goal
    <3>1. Len(route) = 4 /\ route[1] = Edge(addr[1], e) BY <2>9 DEF InPod
    <3>2. Edge(addr[1], e) # own BY NodesEqual
    <3>3. Edge(addr[1], e)[2] = addr[1] BY DEF Edge
    <3> QED BY <2>6, <2>7, <3>1, <3>2, <3>3
  <2>10. ASSUME NEW pod \in Pods \ {addr[1]}, NEW e \in Indices, NEW a \in Indices,
                NEW c \in Indices, route = Across(addr, pod, e, a, c)
         PROVE  Goal
    <3>1. Len(route) = 6 /\ route[1] = Edge(pod, e) BY <2>10 DEF Across
    <3>2. Edge(pod, e) # own BY NodesEqual
    <3>3. Edge(pod, e)[2] # addr[1] BY DEF Edge
    <3> QED BY <2>6, <2>7, <3>1, <3>2, <3>3
  <2>11. \/ route = <<own, Host(addr)>>
         \/ \E e \in Indices \ {addr[2]}, a \in Indices : route = InPod(addr, e, a)
         \/ \E pod \in Pods \ {addr[1]}, e \in Indices, a \in Indices, c \in Indices :
              route = Across(addr, pod, e, a, c)
    BY <2>3, RouteForms
  <2> HIDE DEF Goal
  <2>12. Goal BY <2>8, <2>9, <2>10, <2>11, Zenon
  <2> QED BY <2>12 DEF ReachesAddressee, Goal
<1> QED BY <1>1, Invariant, PTL

\* When the controller says that all rules are installed and no switch has
\* connected twice, every switch was sent its rules.
THEOREM AnnouncedOnlyWhenAllSent == Spec => []AnnouncedWhenAllSent
<1>1. IndInv => AnnouncedWhenAllSent
  <2> SUFFICES ASSUME IndInv, announced, \A s \in Switches : connects[s] <= 1
               PROVE  \A s \in Switches : connects[s] = 1
    BY DEF AnnouncedWhenAllSent
  <2> DEFINE once == {s \in Switches : connects[s] = 1}
  <2>1. connected >= TotalSwitches /\ connected = Cardinality(once)
    BY DEF IndInv, ConnectedCounts
  <2>2. /\ IsFiniteSet(Switches) /\ Cardinality(Switches) = TotalSwitches
        /\ TotalSwitches \in Nat
    BY SwitchCount
  <2>3. once \in SUBSET Switches OBVIOUS
  <2> HIDE DEF once
  <2>4. /\ IsFiniteSet(once) /\ Cardinality(once) <= Cardinality(Switches)
        /\ Cardinality(Switches) = Cardinality(once) => Switches = once
    BY <2>2, <2>3, FS_Subset
  <2>5. Cardinality(once) \in Nat BY <2>4, FS_CardinalityType
  <2>6. Switches = once BY <2>1, <2>2, <2>4, <2>5
  <2> QED BY <2>6 DEF once
<1> QED BY <1>1, Invariant, PTL

\* A switch that has its whole list has a port for every packet.
LEMMA CompleteSwitchForwards ==
  ASSUME IndInv, NEW s \in Switches, link[s] # "down", inbox[s] = <<>>
  PROVE  OutPorts(s) # {}
<1> DEFINE all == InstallRules(Dpid(s))
<1>1. InOrderAt(s, rules[s], inbox[s], link[s]) BY RulesInOrderAt DEF IndInv
<1>2. link[s] = "up" BY DEF IndInv, TypeOK
<1>3. Len(all) \in Nat /\ all \in Seq({all[i] : i \in 1 .. Len(all)}) BY GroupFirst
<1>4. PICK n \in 0 .. Len(all) :
        /\ rules[s] = {all[i] : i \in 1 .. n}
        /\ \E done \in 0 .. n : inbox[s] = SubSeq(all, done + 1, Len(all))
  BY <1>1, <1>2 DEF InOrderAt
<1>5. PICK done \in 0 .. n : inbox[s] = SubSeq(all, done + 1, Len(all)) BY <1>4
<1> HIDE DEF all
<1>6. n = Len(all)
  <2>1. ASSUME done < Len(all) PROVE FALSE
    <3>1. done + 1 \in 1 .. Len(all) BY <1>3, <1>5, <2>1
    <3>2. Len(SubSeq(all, done + 1, Len(all))) = Len(all) - done BY <1>3, <3>1
    <3>3. Len(inbox[s]) = 0 OBVIOUS
    <3>4. Len(inbox[s]) = Len(all) - done BY <1>5, <3>2, Zenon
    <3>5. Len(all) - done # 0 BY <1>3, <2>1, <1>4
    <3> QED BY <3>3, <3>4, <3>5, Zenon
  <2> QED BY <1>3, <1>4, <1>5, <2>1
<1>7. Complete(s) BY <1>4, <1>6 DEF Complete, all
<1>8. address \in Addresses /\ RulesInOrder BY DEF IndInv, TypeOK
<1>9. ASSUME NEW i \in Indices, NEW j \in Indices, s = Core(i, j) PROVE OutPorts(s) # {}
  BY <1>7, <1>8, <1>9, CoreForward
<1>10. ASSUME NEW pod \in Pods, NEW a \in Indices, s = Agg(pod, a) PROVE OutPorts(s) # {}
  BY <1>7, <1>8, <1>10, AggForward
<1>11. ASSUME NEW pod \in Pods, NEW e \in Indices, s = Edge(pod, e) PROVE OutPorts(s) # {}
  BY <1>7, <1>8, <1>11, EdgeForward
<1> QED BY <1>9, <1>10, <1>11 DEF Switches

\* A switch that has applied everything it was sent drops nothing.
THEOREM NoDropOnceSetUp == Spec => SetUpSwitchDropsNothing
<1> DEFINE Drop == outcome' = "dropped" /\ outcome # "dropped"
                     => link[at] = "down" \/ inbox[at] # <<>>
<1>1. IndInv /\ [Next]_vars => [Drop]_vars
  <2> SUFFICES ASSUME IndInv, Next, outcome' = "dropped", outcome # "dropped",
                      link[at] # "down", inbox[at] = <<>>
               PROVE  FALSE
    OBVIOUS
  <2>1. ASSUME NEW s \in Switches, Connect(s) \/ Apply(s) \/ Disconnect(s) PROVE FALSE
    BY <2>1 DEF Connect, Apply, Disconnect, packetVars
  <2>2. CASE Deliver BY <2>2 DEF Deliver
  <2>3. ASSUME NEW s \in Switches, Forward(s) PROVE FALSE
    <3>1. at = s /\ OutPorts(s) = {} BY <2>3 DEF Forward
    <3> QED BY <3>1, CompleteSwitchForwards
  <2> QED BY <2>1, <2>2, <2>3 DEF Next
<1> QED BY <1>1, Invariant, PTL DEF Spec, SetUpSwitchDropsNothing
=============================================================================
