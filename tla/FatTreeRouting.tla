--------------------------- MODULE FatTreeRouting ---------------------------
(***************************************************************************)
(* The experiment's network: the fat tree of network/topology.py, the      *)
(* ECMP rules that network/rule_ecmp.py sends to each switch when it       *)
(* connects to the controller (network/controller.py), and one packet that *)
(* crosses the switches while the rules are still being installed.         *)
(*                                                                         *)
(* A switch applies the messages of the controller one by one, refuses a   *)
(* rule whose group it does not have, drops a packet no rule matches       *)
(* (failMode secure), may lose its connection and connect again, and keeps *)
(* its rules then.  A SELECT group picks any of its ports.                 *)
(***************************************************************************)
EXTENDS Naturals, Sequences, FiniteSets, SequencesExt

CONSTANTS
  K,            \* fat-tree parameter
  Late,         \* switches that are not set up at the beginning
  Pairs,        \* source and destination addresses of the packet
  MaxConnects   \* bound: connections of each late switch

ASSUME TreeAssumption == K \in Nat /\ K > 0 /\ K % 2 = 0
ASSUME BoundAssumption == MaxConnects \in Nat

Half == K \div 2
Pods == 0 .. K - 1
Indices == 0 .. Half - 1

\* The ranges of the DPIDs are apart (k <= 14; the programs build k = 4).
ASSUME DpidAssumption == K * Half <= 100

\* Nodes, by layer and position.  Core(i, j) is core_matrix[i][j], and a host
\* is 10.pod.edge.(h + 1).
Core(i, j) == <<"core", i, j>>
Agg(pod, a) == <<"agg", pod, a>>
Edge(pod, e) == <<"edge", pod, e>>
Host(addr) == <<"host", addr[1], addr[2], addr[3]>>
Addresses == Pods \X Indices \X (1 .. Half)
Switches == {Core(i, j) : i \in Indices, j \in Indices}
              \cup {Agg(pod, a) : pod \in Pods, a \in Indices}
              \cup {Edge(pod, e) : pod \in Pods, e \in Indices}

ASSUME LateAssumption == Late \subseteq Switches /\ Pairs \subseteq Addresses \X Addresses

-----------------------------------------------------------------------------
(* The topology. *)

\* DPIDs encode the layer and the position of a switch.
Dpid(s) == CASE s[1] = "core" -> s[2] * Half + s[3] + 1
             [] s[1] = "agg"  -> 100 + s[2] * Half + s[3] + 1
             [] s[1] = "edge" -> 200 + s[2] * Half + s[3] + 1

\* A call of addLink is named by the pod, the loop nest it is in and the two
\* loop variables: host to edge switch, aggregation to edge switch, aggregation
\* to core switch.
Links == Pods \X (1 .. 3) \X Indices \X Indices

\* Mutant of Ends: the switches of a pod are linked before its hosts.
EndsHostsLast(l) ==
  CASE l[2] = 1 -> {Agg(l[1], l[3]), Edge(l[1], l[4])}
    [] l[2] = 2 -> {Host(<<l[1], l[3], l[4] + 1>>), Edge(l[1], l[3])}
    [] l[2] = 3 -> {Agg(l[1], l[3]), Core(l[3], l[4])}

Ends(l) ==
  CASE l[2] = 1 -> {Host(<<l[1], l[3], l[4] + 1>>), Edge(l[1], l[3])}
    [] l[2] = 2 -> {Agg(l[1], l[3]), Edge(l[1], l[4])}
    [] l[2] = 3 -> {Agg(l[1], l[3]), Core(l[3], l[4])}

\* The order of the calls: pod by pod, loop nest by loop nest.
NotAfter(l, m) ==
  \/ l[1] < m[1]
  \/ l[1] = m[1] /\ l[2] < m[2]
  \/ l[1] = m[1] /\ l[2] = m[2] /\ l[3] < m[3]
  \/ l[1] = m[1] /\ l[2] = m[2] /\ l[3] = m[3] /\ l[4] <= m[4]

\* Mininet numbers the ports of a switch in the order its links are added.
LinksOf(s) == {l \in Links : s \in Ends(l)}
Port(s, l) == Cardinality({m \in LinksOf(s) : NotAfter(m, l)})
Peer(s, port) ==
  LET out == CHOOSE l \in LinksOf(s) : Port(s, l) = port
  IN CHOOSE node \in Ends(out) : node # s

-----------------------------------------------------------------------------
(* install_rules *)

\* What the controller sends: the ports of group 1, or a flow with the prefix
\* of the destination address it matches.
GroupMod(ports) == [kind |-> "group", ports |-> ports]
FlowMod(priority, prefix, out) ==
  [kind |-> "flow", priority |-> priority, prefix |-> prefix, out |-> out]
ToGroup == 0   \* OFPActionGroup in place of a port
Uplinks == GroupMod(Half + 1 .. K)

CoreRules == [p \in 1 .. K |-> FlowMod(100, <<p - 1>>, p)]

\* Mutant of AggRules: the uplink rule comes before the downlinks.
AggRulesUpFirst(dpid) ==
  <<Uplinks, FlowMod(100, <<>>, ToGroup)>>
    \o [e \in 1 .. Half |-> FlowMod(200, <<(dpid - 101) \div Half, e - 1>>, e)]

AggRules(dpid) ==
  <<Uplinks>>
    \o [e \in 1 .. Half |-> FlowMod(200, <<(dpid - 101) \div Half, e - 1>>, e)]
    \o <<FlowMod(100, <<>>, ToGroup)>>

\* Mutants of EdgeRules: the ports are off by one, and the group comes last.
EdgeRulesPortShift(dpid) ==
  <<Uplinks>>
    \o [h \in 1 .. Half |->
          FlowMod(200, <<(dpid - 201) \div Half, (dpid - 201) % Half, h>>, (h % Half) + 1)]
    \o <<FlowMod(100, <<>>, ToGroup)>>

EdgeRulesGroupLast(dpid) ==
  [h \in 1 .. Half |-> FlowMod(200, <<(dpid - 201) \div Half, (dpid - 201) % Half, h>>, h)]
    \o <<FlowMod(100, <<>>, ToGroup), Uplinks>>

EdgeRules(dpid) ==
  <<Uplinks>>
    \o [h \in 1 .. Half |-> FlowMod(200, <<(dpid - 201) \div Half, (dpid - 201) % Half, h>>, h)]
    \o <<FlowMod(100, <<>>, ToGroup)>>

\* The layer is told from the range of the DPID.
InstallRules(dpid) ==
  CASE dpid \in 1 .. Half * Half             -> CoreRules
    [] dpid \in 101 .. 100 + K * Half        -> AggRules(dpid)
    [] dpid \in 201 .. 200 + K * Half        -> EdgeRules(dpid)

-----------------------------------------------------------------------------
VARIABLES
  link,       \* the OpenFlow connection of each switch
  inbox,      \* messages of the controller a switch has still to apply
  rules,      \* groups and flows of each switch
  connects,   \* times a switch connected
  connected,  \* self.connected of the controller
  announced,  \* whether it has logged that all rules are installed
  address,    \* destination of the packet
  at,         \* the node the packet is at
  trail,      \* the switches it has passed
  outcome     \* what became of it

controlVars == <<link, inbox, rules, connects, connected, announced>>
packetVars == <<address, at, trail, outcome>>
vars == <<controlVars, packetVars>>

\* Mutant of TotalSwitches: one switch is forgotten.
AllButOne == Half * Half + 2 * K * Half - 1

TotalSwitches == Half * Half + 2 * K * Half

TypeOK ==
  /\ link \in [Switches -> {"down", "up"}]
  /\ DOMAIN inbox = Switches /\ DOMAIN rules = Switches
  /\ connects \in [Switches -> 0 .. MaxConnects + 1]
  /\ connected \in Nat
  /\ announced \in BOOLEAN
  /\ address \in Addresses
  /\ at \in Switches \cup {Host(a) : a \in Addresses}
  /\ trail \in Seq(Switches)
  /\ outcome \in {"travelling", "delivered", "dropped"}

Init ==
  /\ link = [s \in Switches |-> IF s \in Late THEN "down" ELSE "up"]
  /\ inbox = [s \in Switches |-> <<>>]
  /\ rules = [s \in Switches |-> IF s \in Late THEN {} ELSE Range(InstallRules(Dpid(s)))]
  /\ connects = [s \in Switches |-> IF s \in Late THEN 0 ELSE 1]
  /\ connected = Cardinality(Switches \ Late)
  /\ announced = (connected = TotalSwitches)
  /\ \E pair \in Pairs : /\ address = pair[2]
                         /\ at = Edge(pair[1][1], pair[1][2])
  /\ trail = <<>>
  /\ outcome = "travelling"

\* switch_features_handler: all rules are sent, and the switch is counted.
Connect(s) ==
  /\ link[s] = "down"
  /\ connects[s] < MaxConnects
  /\ link' = [link EXCEPT ![s] = "up"]
  /\ inbox' = [inbox EXCEPT ![s] = InstallRules(Dpid(s))]
  /\ connects' = [connects EXCEPT ![s] = @ + 1]
  /\ connected' = connected + 1
  /\ announced' = (announced \/ connected' = TotalSwitches)
  /\ UNCHANGED <<rules, packetVars>>

\* A group that exists stays; a flow to a group that does not exist is refused.
Apply(s) ==
  LET message == Head(inbox[s])
      refused == /\ message.kind = "flow"
                 /\ message.out = ToGroup
                 /\ \A rule \in rules[s] : rule.kind # "group"
  IN /\ inbox[s] # <<>>
     /\ inbox' = [inbox EXCEPT ![s] = Tail(@)]
     /\ rules' = IF refused THEN rules ELSE [rules EXCEPT ![s] = @ \cup {message}]
     /\ UNCHANGED <<link, connects, connected, announced, packetVars>>

Disconnect(s) ==
  /\ s \in Late
  /\ link[s] = "up"
  /\ link' = [link EXCEPT ![s] = "down"]
  /\ inbox' = [inbox EXCEPT ![s] = <<>>]
  /\ UNCHANGED <<rules, connects, connected, announced, packetVars>>

\* The flows that match the packet with the highest priority.
Matching(s) ==
  LET flows == {r \in rules[s] : r.kind = "flow" /\ IsPrefix(r.prefix, address)}
  IN {r \in flows : \A other \in flows : other.priority <= r.priority}

OutPorts(s) ==
  UNION {IF r.out = ToGroup
           THEN UNION {g.ports : g \in {x \in rules[s] : x.kind = "group"}}
           ELSE {r.out} : r \in Matching(s)}

Forward(s) ==
  /\ at = s
  /\ trail' = Append(trail, s)
  /\ \/ \E port \in OutPorts(s) : at' = Peer(s, port) /\ UNCHANGED outcome
     \/ OutPorts(s) = {} /\ outcome' = "dropped" /\ UNCHANGED at
  /\ UNCHANGED <<controlVars, address>>

Deliver ==
  /\ at \notin Switches
  /\ outcome' = "delivered"
  /\ UNCHANGED <<controlVars, address, at, trail>>

Next == \/ \E s \in Switches : Connect(s) \/ Apply(s) \/ Disconnect(s)
        \/ outcome = "travelling" /\ (Deliver \/ \E s \in Switches : Forward(s))

Spec == Init /\ [][Next]_vars

-----------------------------------------------------------------------------
(* Properties. *)

Layer(s) == CASE s[1] = "edge" -> 1 [] s[1] = "agg" -> 2 [] s[1] = "core" -> 3

\* A packet climbs and then descends, through five switches at most, whatever
\* part of the rules each switch has by now: it never comes down to a switch
\* that sends it up again, because the downlinks are installed first.
UpThenDown ==
  /\ Len(trail) <= 5
  /\ \A i \in 1 .. Len(trail) - 2 :
       Layer(trail[i + 1]) < Layer(trail[i]) => Layer(trail[i + 2]) < Layer(trail[i + 1])

\* The only host a packet ever reaches is the addressed one, and it gets there
\* by a shortest path.
ReachesAddressee ==
  at \notin Switches =>
    /\ at = Host(address)
    /\ Len(trail) = LET first == trail[1] IN
                    IF first = Edge(address[1], address[2]) THEN 1
                    ELSE IF first[2] = address[1] THEN 3 ELSE 5

\* A switch that has applied everything the controller sent on its connection
\* drops nothing, also when it was installed over several connections.
SetUpSwitchDropsNothing ==
  [][outcome' = "dropped" /\ outcome # "dropped" => link[at] = "down" \/ inbox[at] # <<>>]_vars

\* The controller's "all rules installed" comes when every switch was sent its
\* rules, as long as no switch has connected twice.
AnnouncedWhenAllSent ==
  announced /\ (\A s \in Switches : connects[s] <= 1) => \A s \in Switches : connects[s] = 1

-----------------------------------------------------------------------------
(* The inductive invariant of the proofs. *)

\* A switch has the first messages of its list, and what it has still to apply
\* is the end of the list, from a message it may have already.
RulesInOrder ==
  \A s \in Switches :
    LET all == InstallRules(Dpid(s)) IN
    \E n \in 0 .. Len(all) :
      /\ rules[s] = {all[i] : i \in 1 .. n}
      /\ link[s] = "up" => \E done \in 0 .. n : inbox[s] = SubSeq(all, done + 1, Len(all))
      /\ link[s] = "down" => inbox[s] = <<>>

\* Without reconnections, self.connected counts the switches.
ConnectedCounts ==
  /\ announced => connected >= TotalSwitches
  /\ (\A s \in Switches : connects[s] <= 1)
       => connected = Cardinality({s \in Switches : connects[s] = 1})

\* The shortest paths to a host: from its edge switch, from another edge switch
\* of its pod, and from one of another pod.
RoutesTo(addr) ==
  {<<Edge(addr[1], addr[2]), Host(addr)>>}
    \cup {<<Edge(addr[1], e), Agg(addr[1], a), Edge(addr[1], addr[2]), Host(addr)>> :
            e \in Indices \ {addr[2]}, a \in Indices}
    \cup {<<Edge(pod, e), Agg(pod, a), Core(a, c),
            Agg(addr[1], a), Edge(addr[1], addr[2]), Host(addr)>> :
            pod \in Pods \ {addr[1]}, e \in Indices, a \in Indices, c \in Indices}

\* The packet is somewhere on such a path, and has come along it.
OnRoute ==
  \E route \in RoutesTo(address) : \E n \in 1 .. Len(route) :
    /\ at = route[n]
    /\ Len(trail) = IF outcome = "dropped" THEN n ELSE n - 1
    /\ \A i \in 1 .. Len(trail) : trail[i] = route[i]
    /\ outcome = "delivered" => n = Len(route)
    /\ outcome = "dropped" => n < Len(route)

IndInv ==
  /\ TypeOK
  /\ RulesInOrder
  /\ ConnectedCounts
  /\ OnRoute
=============================================================================
