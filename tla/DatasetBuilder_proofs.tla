------------------------ MODULE DatasetBuilder_proofs ------------------------
(***************************************************************************)
(* Proofs about DatasetBuilder, for every number of connections, requests, *)
(* packets and packet lengths, both ways of capturing and both modes of    *)
(* the builder.                                                            *)
(*                                                                         *)
(* First the two pure parts: the labels, from the sizes sorted by value,   *)
(* and match_packet, which is shown to return the request a packet belongs *)
(* to.  Then the reading: what the entries hold is said of the part of the *)
(* capture files that was read, ReadPart and ReadOf, so that each step of  *)
(* the reader adds one packet to that part and to at most one entry.       *)
(***************************************************************************)
EXTENDS DatasetBuilder, FiniteSetTheorems, WellFoundedInduction, TLAPS

-----------------------------------------------------------------------------
(* Finite sets. *)

\* A nonempty set of natural numbers has a least element.
LEMMA LeastExists ==
  ASSUME NEW V \in SUBSET Nat, V # {}
  PROVE  \E least \in V : \A v \in V : least <= v
<1>1. IsWellFoundedOn(OpToRel(<, Nat), Nat)
  BY NatLessThanWellFounded
<1>2. PICK least \in V : \A v \in V : ~ (<<v, least>> \in OpToRel(<, Nat))
  BY <1>1, WFMin
<1>3. \A v \in V : ~ (v < least)
  BY <1>2 DEF OpToRel
<1> QED BY <1>3

\* One of finitely many elements has the largest size.
LEMMA LargestExists ==
  ASSUME NEW S, IsFiniteSet(S), S # {}, NEW size \in [S -> Nat]
  PROVE  \E most \in S : \A x \in S : size[x] <= size[most]
<1> DEFINE above(x) == {y \in S : size[y] > size[x]}
           V == {Cardinality(above(x)) : x \in S}
<1>1. \A x \in S : IsFiniteSet(above(x)) /\ Cardinality(above(x)) \in Nat
  BY FS_Subset, FS_CardinalityType
<1>2. V \in SUBSET Nat /\ V # {}
  BY <1>1
<1>3. PICK least \in V : \A v \in V : least <= v
  BY <1>2, LeastExists
<1>4. PICK most \in S : least = Cardinality(above(most))
  OBVIOUS
<1>5. SUFFICES ASSUME NEW x \in S, size[x] > size[most] PROVE FALSE
  OBVIOUS
<1>6. above(x) \in SUBSET above(most) /\ x \in above(most) /\ x \notin above(x)
  BY <1>5
<1>7. above(x) # above(most)
  BY <1>6
<1>8. Cardinality(above(x)) <= Cardinality(above(most))
      /\ Cardinality(above(x)) # Cardinality(above(most))
  BY <1>1, <1>6, <1>7, FS_Subset
<1>9. Cardinality(above(most)) <= Cardinality(above(x))
  BY <1>3, <1>4
<1>10. Cardinality(above(x)) \in Nat /\ Cardinality(above(most)) \in Nat
  BY <1>1
<1> HIDE DEF above
<1> QED BY <1>8, <1>9, <1>10

-----------------------------------------------------------------------------
(* The percentile. *)

Below(v) == {s \in Samples : SampleSize(s) < v}
UpTo(v) == {s \in Samples : SampleSize(s) <= v}

\* The entries, hence the samples, are finitely many, and have sizes.
LEMMA SamplesAreFinite ==
  ASSUME TypeOK
  PROVE  /\ IsFiniteSet(Requests) /\ IsFiniteSet(Entries) /\ IsFiniteSet(Samples)
         /\ \A s \in Samples : SampleSize(s) \in Nat
<1>1. IsFiniteSet(1 .. RequestCount)
  BY FS_Interval, BuilderAssumption
<1>2. IsFiniteSet(Requests)
  BY <1>1, FS_Product, BuilderAssumption DEF Requests
<1>3. IsFiniteSet(Directions)
  <2>1. Directions = {"src_to_dst"} \cup {"dst_to_src"}
    BY DEF Directions
  <2> QED BY <2>1, FS_Singleton, FS_Union
<1>4. IsFiniteSet(Entries)
  BY <1>2, <1>3, FS_Product DEF Entries
<1>5. Samples \in SUBSET Requests \/ Samples \in SUBSET Entries
  BY DEF Samples, Eligible, Entries
<1>6. IsFiniteSet(Samples)
  BY <1>2, <1>4, <1>5, FS_Subset
<1>7. \A s \in Samples : SampleSize(s) \in Nat
  BY BuilderAssumption DEF Samples, SampleSize, Eligible, TypeOK, Entries
<1> QED BY <1>2, <1>4, <1>6, <1>7

\* Every index of a sorted list of sizes has its size.
LEMMA RankExists ==
  ASSUME TypeOK, Samples # {}, NEW index \in Nat, index < Cardinality(Samples)
  PROVE  \E v \in {SampleSize(s) : s \in Samples} :
           Cardinality(Below(v)) <= index /\ index < Cardinality(UpTo(v))
<1> DEFINE size == [s \in Samples |-> SampleSize(s)]
           V == {v \in {SampleSize(s) : s \in Samples} : index < Cardinality(UpTo(v))}
<1>1. IsFiniteSet(Samples) /\ \A s \in Samples : SampleSize(s) \in Nat
  BY SamplesAreFinite
<1>2. size \in [Samples -> Nat]
  BY <1>1
<1>3. \A v : /\ IsFiniteSet(Below(v)) /\ Cardinality(Below(v)) \in Nat
             /\ IsFiniteSet(UpTo(v)) /\ Cardinality(UpTo(v)) \in Nat
  BY <1>1, FS_Subset, FS_CardinalityType DEF Below, UpTo
<1>4. V # {}
  <2>1. PICK most \in Samples : \A s \in Samples : size[s] <= size[most]
    BY <1>1, <1>2, LargestExists
  <2>2. UpTo(SampleSize(most)) = Samples
    BY <2>1 DEF UpTo
  <2> QED BY <2>2
<1>5. PICK v \in V : \A u \in V : v <= u
  <2>1. V \in SUBSET Nat
    BY <1>1
  <2> QED BY <2>1, <1>4, LeastExists
<1>6. v \in Nat
  BY <1>1
<1>7. SUFFICES ASSUME index < Cardinality(Below(v)) PROVE FALSE
  BY <1>3, <1>5
<1>8. Below(v) # {}
  BY <1>7, FS_EmptySet
<1> DEFINE lower == [s \in Below(v) |-> SampleSize(s)]
<1>9. lower \in [Below(v) -> Nat]
  BY <1>1 DEF Below
<1>10. PICK last \in Below(v) : \A s \in Below(v) : lower[s] <= lower[last]
  BY <1>3, <1>8, <1>9, LargestExists
<1>11. last \in Samples /\ SampleSize(last) < v
  BY <1>10 DEF Below
<1>12. Below(v) \in SUBSET UpTo(SampleSize(last))
  BY <1>1, <1>10, <1>11 DEF Below, UpTo
<1>13. Cardinality(Below(v)) <= Cardinality(UpTo(SampleSize(last)))
  BY <1>3, <1>12, FS_Subset
<1>14. index < Cardinality(UpTo(SampleSize(last)))
  BY <1>3, <1>7, <1>13
<1>15. v <= SampleSize(last)
  BY <1>5, <1>11, <1>14
<1> QED BY <1>1, <1>6, <1>11, <1>15

\* So percentile() is one of the sizes, at the index it computes.
LEMMA PercentileRank ==
  ASSUME TypeOK, Samples # {}, NEW q \in 1 .. 99
  PROVE  LET index == ((Cardinality(Samples) - 1) * q) \div 100 IN
         /\ index \in Nat
         /\ 100 * index <= (Cardinality(Samples) - 1) * q
         /\ Percentile(q) \in {SampleSize(s) : s \in Samples}
         /\ Cardinality(Below(Percentile(q))) <= index
         /\ index < Cardinality(UpTo(Percentile(q)))
<1> DEFINE n == Cardinality(Samples)
           index == ((n - 1) * q) \div 100
<1>1. n \in Nat /\ n > 0
  BY SamplesAreFinite, FS_CardinalityType, FS_EmptySet
<1>2. (n - 1) * q \in Nat /\ (n - 1) * q <= 100 * (n - 1)
  <2> HIDE DEF n
  <2> QED BY <1>1
<1>3. index \in Nat /\ 100 * index <= (n - 1) * q
  BY <1>2
<1>4. index < n
  <2> HIDE DEF n, index
  <2> QED BY <1>1, <1>2, <1>3
<1>5. \E v \in {SampleSize(s) : s \in Samples} :
        Cardinality(Below(v)) <= index /\ index < Cardinality(UpTo(v))
  BY <1>3, <1>4, RankExists
<1>6. Percentile(q) = CHOOSE v \in {SampleSize(s) : s \in Samples} :
                        Cardinality(Below(v)) <= index /\ index < Cardinality(UpTo(v))
  BY DEF Percentile, Below, UpTo
<1>7. /\ Percentile(q) \in {SampleSize(s) : s \in Samples}
      /\ Cardinality(Below(Percentile(q))) <= index
      /\ index < Cardinality(UpTo(Percentile(q)))
  <2> HIDE DEF index
  <2> QED BY <1>5, <1>6
<1> QED BY <1>3, <1>7

\* The samples that are not below a percentile: at least as large a part as
\* the percentile leaves.
LEMMA ShareAbove ==
  ASSUME TypeOK, Samples # {}, NEW q \in 1 .. 99,
         NEW E, E = {s \in Samples : SampleSize(s) >= Percentile(q)}
  PROVE  100 * Cardinality(E) >= (100 - q) * Cardinality(Samples)
<1> DEFINE n == Cardinality(Samples)
           below == Cardinality(Below(Percentile(q)))
           index == ((n - 1) * q) \div 100
<1>1. /\ IsFiniteSet(Samples) /\ n \in Nat /\ n > 0
      /\ \A s \in Samples : SampleSize(s) \in Nat
  BY SamplesAreFinite, FS_CardinalityType, FS_EmptySet
<1>2. /\ index \in Nat /\ 100 * index <= (n - 1) * q
      /\ Percentile(q) \in {SampleSize(s) : s \in Samples} /\ below <= index
  BY PercentileRank
<1>3. E = Samples \ Below(Percentile(q))
  BY <1>1, <1>2 DEF Below
<1>4. Below(Percentile(q)) \in SUBSET Samples
  BY DEF Below
<1>5. below \in Nat /\ Samples \cap Below(Percentile(q)) = Below(Percentile(q))
  BY <1>1, <1>4, FS_Subset, FS_CardinalityType
<1>6. Cardinality(E) = n - below
  BY <1>1, <1>3, <1>5, FS_Difference
<1>7. (n - 1) * q <= n * q
  <2> HIDE DEF n
  <2> QED BY <1>1
<1>8. 100 * (n - below) >= 100 * n - n * q
  <2> HIDE DEF n, below, index
  <2> QED BY <1>1, <1>2, <1>5, <1>7
<1>9. (100 - q) * n = 100 * n - n * q
  <2> HIDE DEF n
  <2> QED BY <1>1
<1> QED BY <1>6, <1>8, <1>9

\* A higher percentile is not below a lower one.
LEMMA PercentilesGrow ==
  ASSUME TypeOK, Samples # {}
  PROVE  Percentile(80) <= Percentile(90)
<1> DEFINE n == Cardinality(Samples)
<1>1. /\ IsFiniteSet(Samples) /\ n \in Nat /\ n > 0
      /\ \A s \in Samples : SampleSize(s) \in Nat
  BY SamplesAreFinite, FS_CardinalityType, FS_EmptySet
<1>2. /\ Percentile(80) \in Nat
      /\ Cardinality(Below(Percentile(80))) <= ((n - 1) * 80) \div 100
  BY <1>1, PercentileRank
<1>3. /\ Percentile(90) \in Nat
      /\ ((n - 1) * 90) \div 100 < Cardinality(UpTo(Percentile(90)))
  BY <1>1, PercentileRank
<1>4. ((n - 1) * 80) \div 100 <= ((n - 1) * 90) \div 100
  <2> HIDE DEF n
  <2> QED BY <1>1
<1>5. SUFFICES ASSUME Percentile(90) < Percentile(80) PROVE FALSE
  BY <1>2, <1>3
<1>6. UpTo(Percentile(90)) \in SUBSET Below(Percentile(80))
  BY <1>1, <1>2, <1>3, <1>5 DEF UpTo, Below
<1>7. IsFiniteSet(Below(Percentile(80))) /\ IsFiniteSet(UpTo(Percentile(90)))
  BY <1>1, FS_Subset DEF Below, UpTo
<1>8. /\ Cardinality(UpTo(Percentile(90))) <= Cardinality(Below(Percentile(80)))
      /\ Cardinality(UpTo(Percentile(90))) \in Nat
      /\ Cardinality(Below(Percentile(80))) \in Nat
  BY <1>6, <1>7, FS_Subset, FS_CardinalityType
<1>9. ((n - 1) * 80) \div 100 \in Int /\ ((n - 1) * 90) \div 100 \in Int
  <2> HIDE DEF n
  <2> QED BY <1>1
<1> QED BY <1>2, <1>3, <1>4, <1>8, <1>9

\* At least a fifth of the samples are elephants, at least a tenth after a
\* merge, and these were elephants before.
LEMMA Shares ==
  ASSUME TypeOK
  PROVE  ElephantShare
<1>1. SUFFICES ASSUME Samples # {}
               PROVE  /\ 5 * Cardinality(Elephants) >= Cardinality(Samples)
                      /\ 10 * Cardinality(RelabelledElephants) >= Cardinality(Samples)
                      /\ RelabelledElephants \subseteq Elephants
  BY DEF ElephantShare
<1>2. IsFiniteSet(Samples) /\ \A s \in Samples : SampleSize(s) \in Nat
  BY SamplesAreFinite
<1>3. Percentile(80) \in Nat /\ Percentile(90) \in Nat
  BY <1>1, <1>2, PercentileRank
<1>4. /\ Elephants = {s \in Samples : SampleSize(s) >= Percentile(80)}
      /\ RelabelledElephants = {s \in Samples : SampleSize(s) >= Percentile(90)}
  BY DEF Elephants, RelabelledElephants, MakeLabel, LabelThreshold, MergeThreshold
<1>5. 100 * Cardinality(Elephants) >= (100 - 80) * Cardinality(Samples)
  BY <1>1, <1>4, ShareAbove
<1>6. 100 * Cardinality(RelabelledElephants) >= (100 - 90) * Cardinality(Samples)
  BY <1>1, <1>4, ShareAbove
<1>7. /\ Cardinality(Samples) \in Nat /\ Cardinality(Elephants) \in Nat
      /\ Cardinality(RelabelledElephants) \in Nat
  <2>1. Elephants \in SUBSET Samples /\ RelabelledElephants \in SUBSET Samples
    BY <1>4
  <2> QED BY <1>2, <2>1, FS_Subset, FS_CardinalityType
<1>8. RelabelledElephants \subseteq Elephants
  BY <1>1, <1>2, <1>3, <1>4, PercentilesGrow
<1> QED BY <1>5, <1>6, <1>7, <1>8

-----------------------------------------------------------------------------
(* Matching. *)

\* The requests of a connection, in the order they started and ended.
LEMMA Schedule ==
  ASSUME TypeOK
  PROVE  /\ \A r \in Requests : /\ meta[r].start \in Nat /\ meta[r].stop \in Nat
                                /\ meta[r].start < meta[r].stop
         /\ \A r, q \in Requests :
              r[1] = q[1] /\ r[2] < q[2] => /\ meta[r].stop <= meta[q].start
                                            /\ meta[r].start < meta[q].start
<1>1. meta \in [Requests -> [start : Nat, stop : Nat]]
  BY ScheduleAssumption DEF TypeOK
<1>2. \A r \in Requests : meta[r].start \in Nat /\ meta[r].stop \in Nat
  BY <1>1
<1>3. \A r, q \in Requests : /\ meta[r].start < meta[r].stop
                             /\ r[1] = q[1] /\ r[2] < q[2] => meta[r].stop <= meta[q].start
  BY ScheduleAssumption DEF TypeOK
<1>4. ASSUME NEW r \in Requests, NEW q \in Requests, r[1] = q[1], r[2] < q[2]
      PROVE  meta[r].stop <= meta[q].start /\ meta[r].start < meta[q].start
  <2>1. meta[r].start < meta[r].stop /\ meta[r].stop <= meta[q].start
    BY <1>3, <1>4
  <2>2. meta[r].start \in Nat /\ meta[r].stop \in Nat /\ meta[q].start \in Nat
    BY <1>2
  <2> QED BY <2>1, <2>2
<1>5. \A r \in Requests : meta[r].start < meta[r].stop
  BY <1>3
<1> QED BY <1>2, <1>4, <1>5

\* The requests of a connection that have started at a time.
Started(c, ts) == {i \in 1 .. RequestCount : meta[<<c, i>>].start <= ts}

\* They are its first ones, up to where the binary search ends.
LEMMA StartedAreFirst ==
  ASSUME TypeOK, NEW c \in Connections, NEW ts \in Nat
  PROVE  /\ Cardinality(Started(c, ts)) \in 0 .. RequestCount
         /\ Started(c, ts) = 1 .. Cardinality(Started(c, ts))
<1> DEFINE D == Started(c, ts)
<1>1. RequestCount \in Nat /\ D \in SUBSET (1 .. RequestCount)
  BY BuilderAssumption DEF Started
<1>2. IsFiniteSet(D) /\ Cardinality(D) \in Nat
  <2>1. IsFiniteSet(1 .. RequestCount)
    BY <1>1, FS_Interval
  <2> QED BY <1>1, <2>1, FS_Subset, FS_CardinalityType
<1>3. CASE D = {}
  <2>1. Cardinality(D) = 0
    BY <1>3, FS_EmptySet
  <2> QED BY <1>1, <1>3, <2>1
<1>4. CASE D # {}
  <2> DEFINE place == [i \in D |-> i]
  <2>1. place \in [D -> Nat]
    BY <1>1
  <2>2. PICK last \in D : \A i \in D : place[i] <= place[last]
    BY <1>2, <1>4, <2>1, LargestExists
  <2>3. last \in 1 .. RequestCount /\ meta[<<c, last>>].start <= ts
    BY DEF Started
  <2>4. ASSUME NEW i \in 1 .. last
        PROVE  i \in D
    <3>1. i \in 1 .. RequestCount /\ <<c, i>> \in Requests /\ <<c, last>> \in Requests
      BY <1>1, <2>3, <2>4 DEF Requests
    <3>2. i # last => meta[<<c, i>>].start < meta[<<c, last>>].start
      BY <2>3, <3>1, Schedule
    <3>3. meta[<<c, i>>].start \in Nat /\ meta[<<c, last>>].start \in Nat
      BY <3>1, Schedule
    <3>4. meta[<<c, i>>].start <= ts
      BY <2>3, <3>2, <3>3
    <3> QED BY <3>1, <3>4 DEF Started
  <2>5. D = 1 .. last
    <3>1. \A i \in D : i \in 1 .. RequestCount /\ i <= last
      BY <1>1, <2>2
    <3>2. \A i \in D : i \in 1 .. last
      BY <1>1, <2>3, <3>1
    <3> QED BY <2>4, <3>2
  <2>6. Cardinality(D) = last
    BY <2>3, <2>5, FS_Interval
  <2> QED BY <1>1, <2>3, <2>5, <2>6
<1> QED BY <1>3, <1>4

\* A packet belongs to one request at most.
LEMMA BelongsToOne ==
  ASSUME TypeOK, NEW pkt \in Packet, NEW r \in Requests, NEW q \in Requests,
         Belongs(r, pkt), Belongs(q, pkt)
  PROVE  r = q
<1>1. PICK c \in Connections, i \in 1 .. RequestCount : r = <<c, i>>
  BY DEF Requests
<1>2. PICK d \in Connections, j \in 1 .. RequestCount : q = <<d, j>>
  BY DEF Requests
<1>3. c = d
  BY <1>1, <1>2 DEF Belongs
<1>4. i \in Nat /\ j \in Nat
  BY BuilderAssumption
<1>5. pkt.ts \in Nat /\ meta[r].start \in Nat /\ meta[q].start \in Nat
  BY Schedule DEF Packet
<1>6. ~ (i < j)
  <2>1. SUFFICES ASSUME i < j PROVE FALSE
    OBVIOUS
  <2>2. meta[r].start < meta[q].start
    BY <1>1, <1>2, <1>3, <2>1, Schedule
  <2>3. pkt.ts < meta[q].start
    BY <1>1, <1>2, <1>3, <2>2 DEF Belongs
  <2> QED BY <1>5, <2>3 DEF Belongs
<1>7. ~ (j < i)
  <2>1. SUFFICES ASSUME j < i PROVE FALSE
    OBVIOUS
  <2>2. meta[q].start < meta[r].start
    BY <1>1, <1>2, <1>3, <2>1, Schedule
  <2>3. pkt.ts < meta[r].start
    BY <1>1, <1>2, <1>3, <2>2 DEF Belongs
  <2> QED BY <1>5, <2>3 DEF Belongs
<1> QED BY <1>1, <1>2, <1>3, <1>4, <1>6, <1>7

\* match_packet finds the request a packet belongs to: the last one of its
\* connection that had started, unless it had ended.
LEMMA MatchIsBelongs ==
  ASSUME TypeOK, NEW pkt \in Packet
  PROVE  MatchPacket(pkt) = {r \in Requests : Belongs(r, pkt)}
<1>1. PICK c \in Connections, n \in 1 .. RequestCount : pkt.request = <<c, n>>
  BY DEF Packet, Requests
<1>2. pkt.request[1] = c /\ pkt.ts \in Nat
  BY <1>1 DEF Packet
<1> DEFINE ts == pkt.ts
           left == Cardinality(Started(c, ts))
           open == {j \in 1 .. left : \A k \in j .. left : meta[<<c, k>>].stop >= ts}
           candidates == {<<c, j>> : j \in open}
           distance(r) == ts - meta[r].start
<1>3. RequestCount \in Nat /\ left \in 0 .. RequestCount /\ Started(c, ts) = 1 .. left
  BY <1>2, StartedAreFirst, BuilderAssumption
<1>4. \A i \in 1 .. RequestCount :
        /\ <<c, i>> \in Requests
        /\ meta[<<c, i>>].start \in Nat /\ meta[<<c, i>>].stop \in Nat
        /\ i \in 1 .. left <=> meta[<<c, i>>].start <= ts
  BY <1>3, Schedule DEF Requests, Started
<1>5. \A i, k \in 1 .. RequestCount :
        i < k => meta[<<c, i>>].start < meta[<<c, k>>].start
  BY <1>4, Schedule
<1>6. FindTimeCandidates(MetaIndex(c), ts) = candidates
  <2>1. DOMAIN MetaIndex(c) = 1 .. RequestCount
    BY DEF MetaIndex
  <2>2. \A i \in 1 .. RequestCount : MetaIndex(c)[i] = <<c, i>>
    BY DEF MetaIndex
  <2>3. {i \in DOMAIN MetaIndex(c) : meta[MetaIndex(c)[i]].start <= ts} = Started(c, ts)
    BY <2>1, <2>2 DEF Started
  <2>4. \A j \in 1 .. left : \A k \in j .. left : k \in 1 .. RequestCount
    BY <1>3
  <2>5. {j \in 1 .. left : \A k \in j .. left : meta[MetaIndex(c)[k]].stop >= ts} = open
    BY <2>2, <2>4
  <2>6. {MetaIndex(c)[i] : i \in open} = candidates
    <3>1. \A i \in open : MetaIndex(c)[i] = <<c, i>>
      BY <1>3, <2>2
    <3> QED BY <3>1
  <2> HIDE DEF open, candidates
  <2> QED BY <2>3, <2>5, <2>6 DEF FindTimeCandidates
<1>7. MatchPacket(pkt) = {r \in candidates : \A q \in candidates : distance(r) <= distance(q)}
  BY <1>2, <1>6 DEF MatchPacket
<1>8. ASSUME NEW r \in MatchPacket(pkt)
      PROVE  r \in Requests /\ Belongs(r, pkt)
  <2>1. PICK j \in open : r = <<c, j>>
    BY <1>7, <1>8
  <2>2. j \in 1 .. left /\ left \in 1 .. RequestCount /\ j \in 1 .. RequestCount
    BY <1>3
  <2>3. left \in open
    BY <2>2
  <2>4. distance(<<c, j>>) <= distance(<<c, left>>)
    BY <1>7, <1>8, <2>1, <2>3
  <2>5. j = left
    <3>1. CASE j < left
      <4>1. meta[<<c, j>>].start < meta[<<c, left>>].start
        BY <1>5, <2>2, <3>1
      <4> QED BY <1>2, <1>4, <2>2, <2>4, <4>1
    <3> QED BY <2>2, <3>1
  <2>6. meta[r].start <= ts /\ ts <= meta[r].stop
    BY <1>2, <1>4, <2>1, <2>2, <2>5
  <2>7. ASSUME NEW q \in Requests, q[1] = r[1], meta[r].start < meta[q].start
        PROVE  ts < meta[q].start
    <3>1. PICK i \in 1 .. RequestCount : q = <<c, i>>
      BY <2>1, <2>7 DEF Requests
    <3>2. i \notin 1 .. left
      <4>1. i # left
        BY <1>4, <2>1, <2>2, <2>5, <2>7, <3>1
      <4>2. ~ (i < left)
        BY <1>4, <1>5, <2>1, <2>2, <2>5, <2>7, <3>1
      <4> QED BY <2>2, <4>1, <4>2
    <3> QED BY <1>2, <1>4, <3>1, <3>2
  <2> QED BY <1>2, <1>4, <2>1, <2>2, <2>6, <2>7 DEF Belongs
<1>9. ASSUME NEW r \in Requests, Belongs(r, pkt)
      PROVE  r \in MatchPacket(pkt)
  <2>1. PICK i \in 1 .. RequestCount : r = <<c, i>>
    BY <1>2, <1>9 DEF Belongs, Requests
  <2>2. meta[<<c, i>>].start <= ts /\ ts <= meta[<<c, i>>].stop
    BY <1>9, <2>1 DEF Belongs
  <2>3. i \in 1 .. left
    BY <1>4, <2>2
  <2>4. left \in 1 .. RequestCount
    BY <1>3, <2>3
  <2>5. i = left
    <3>1. CASE i < left
      <4>1. meta[r].start < meta[<<c, left>>].start
        BY <1>5, <2>1, <2>4, <3>1
      <4>2. ts < meta[<<c, left>>].start
        BY <1>4, <1>9, <2>1, <2>4, <4>1 DEF Belongs
      <4> QED BY <1>2, <1>3, <1>4, <2>3, <2>4, <4>2
    <3> QED BY <2>3, <2>4, <3>1
  <2>6. left \in open
    BY <1>2, <1>4, <2>2, <2>4, <2>5
  <2>7. ASSUME NEW q \in candidates
        PROVE  distance(r) <= distance(q)
    <3>1. PICK j \in open : q = <<c, j>>
      OBVIOUS
    <3>2. j \in 1 .. left /\ j \in 1 .. RequestCount
      BY <1>3
    <3>3. meta[q].start <= meta[r].start
      BY <1>4, <1>5, <2>1, <2>4, <2>5, <3>1, <3>2
    <3> QED BY <1>2, <1>4, <2>1, <3>1, <3>2, <3>3
  <2> QED BY <1>7, <2>1, <2>5, <2>6, <2>7
<1> QED BY <1>8, <1>9

-----------------------------------------------------------------------------
(* The packets of a direction. *)

\* One pair for each byte of a packet.
LEMMA BlockSize ==
  ASSUME NEW x, NEW m \in Nat
  PROVE  IsFiniteSet({x} \X (1 .. m)) /\ Cardinality({x} \X (1 .. m)) = m
<1>1. IsFiniteSet(1 .. m) /\ Cardinality(1 .. m) = m
  BY FS_Interval
<1>2. IsFiniteSet({x}) /\ Cardinality({x}) = 1
  BY FS_Singleton
<1>3. IsFiniteSet({x} \X (1 .. m)) /\ Cardinality({x} \X (1 .. m)) = 1 * m
  BY <1>1, <1>2, FS_Product
<1> QED BY <1>3

\* With the next position, the list gets its packet while there is room, and
\* the size its payload.
LEMMA NextOfDirection ==
  ASSUME NEW file \in Seq(Packet), NEW n \in Nat, n + 1 \in 1 .. Len(file),
         NEW own \in SUBSET (1 .. n), NEW list \in Seq(Packet), NEW size \in Nat,
         FirstOf(list, size, file, own),
         NEW longer, longer = IF Len(list) < PacketCount THEN Append(list, file[n + 1]) ELSE list
  PROVE  FirstOf(longer, size + file[n + 1].len, file, own \cup {n + 1})
<1> DEFINE more == own \cup {n + 1}
           upTo(p) == {q \in own : q <= p}
           bytesAt(p) == {p} \X (1 .. file[p].len)
           count == Cardinality(own)
<1>1. IsFiniteSet(own) /\ count \in Nat
  <2>1. IsFiniteSet(1 .. n)
    BY FS_Interval
  <2> QED BY <2>1, FS_Subset, FS_CardinalityType
<1>2. n + 1 \notin own /\ \A p \in own : p \in Nat /\ p < n + 1
  OBVIOUS
<1>3. Cardinality(more) = count + 1
  BY <1>1, <1>2, FS_AddElement
<1>4. PacketCount \in Nat /\ PacketCount > 0
  BY BuilderAssumption
<1>5. /\ Len(list) = IF count < PacketCount THEN count ELSE PacketCount
      /\ \A p \in own : Cardinality(upTo(p)) <= PacketCount
                          => list[Cardinality(upTo(p))] = file[p]
      /\ size = Cardinality(UNION {bytesAt(p) : p \in own})
  BY DEF FirstOf
<1>6. file[n + 1] \in Packet /\ \A p \in own : file[p] \in Packet
  OBVIOUS
<1>7. \A p \in own : {q \in more : q <= p} = upTo(p)
  BY <1>2
<1>8. {q \in more : q <= n + 1} = more
  <2>1. \A q \in more : q <= n + 1
    BY <1>2
  <2> QED BY <2>1
<1>9. Len(longer) = IF Cardinality(more) < PacketCount THEN Cardinality(more) ELSE PacketCount
  <2>1. CASE count < PacketCount
    <3>1. Len(list) = count /\ longer = Append(list, file[n + 1])
      BY <1>5, <2>1
    <3>2. Len(longer) = count + 1
      BY <1>6, <3>1
    <3> HIDE DEF more, count
    <3> QED BY <1>1, <1>3, <1>4, <2>1, <3>2
  <2>2. CASE ~(count < PacketCount)
    <3>1. Len(list) = PacketCount /\ longer = list
      BY <1>4, <1>5, <2>2
    <3> HIDE DEF more, count
    <3> QED BY <1>1, <1>3, <1>4, <2>2, <3>1
  <2> QED BY <2>1, <2>2
<1>10. ASSUME NEW p \in more, Cardinality({q \in more : q <= p}) <= PacketCount
       PROVE  longer[Cardinality({q \in more : q <= p})] = file[p]
  <2>1. CASE p = n + 1
    <3>1. Cardinality({q \in more : q <= p}) = count + 1
      BY <1>3, <1>8, <2>1
    <3>2. count < PacketCount
      BY <1>1, <1>4, <1>10, <3>1
    <3>3. Len(list) = count /\ longer = Append(list, file[n + 1])
      BY <1>5, <3>2
    <3> QED BY <1>6, <2>1, <3>1, <3>3
  <2>2. CASE p \in own
    <3> DEFINE place == Cardinality(upTo(p))
    <3>1. Cardinality({q \in more : q <= p}) = place
      BY <1>7, <2>2
    <3>2. list[place] = file[p]
      BY <1>5, <1>10, <2>2, <3>1
    <3>3. upTo(p) \in SUBSET own /\ p \in upTo(p)
      BY <1>2, <2>2
    <3>4. IsFiniteSet(upTo(p)) /\ place \in Nat /\ place <= count
      BY <1>1, <3>3, FS_Subset, FS_CardinalityType
    <3>5. place # 0
      BY <3>3, <3>4, FS_EmptySet
    <3>6. place \in 1 .. Len(list)
      <4>1. place <= PacketCount
        BY <1>10, <3>1
      <4> HIDE DEF place, count
      <4> QED BY <1>1, <1>4, <1>5, <3>4, <3>5, <4>1
    <3>7. longer[place] = list[place]
      <4> HIDE DEF place
      <4> QED BY <1>6, <3>6
    <3> QED BY <3>1, <3>2, <3>7
  <2> QED BY <2>1, <2>2
<1>11. size + file[n + 1].len = Cardinality(UNION {bytesAt(p) : p \in more})
  <2> DEFINE before == UNION {bytesAt(p) : p \in own}
             new == bytesAt(n + 1)
  <2>1. file[n + 1].len \in Nat
    BY <1>6, BuilderAssumption DEF Packet
  <2>2. IsFiniteSet(new) /\ Cardinality(new) = file[n + 1].len
    BY <2>1, BlockSize
  <2>3. IsFiniteSet(before)
    <3> DEFINE pieces == {bytesAt(p) : p \in own}
               piece == [p \in own |-> bytesAt(p)]
    <3>1. piece \in Surjection(own, pieces)
      BY DEF Surjection
    <3>2. IsFiniteSet(pieces)
      BY <1>1, <3>1, FS_Surjection
    <3>3. ASSUME NEW p \in own
          PROVE  IsFiniteSet(bytesAt(p))
      <4>1. file[p].len \in Nat
        BY <1>6, BuilderAssumption DEF Packet
      <4> QED BY <4>1, BlockSize
    <3>4. \A T \in pieces : IsFiniteSet(T)
      BY <3>3
    <3> HIDE DEF pieces
    <3>5. IsFiniteSet(UNION pieces)
      BY <3>2, <3>4, FS_UNION
    <3> QED BY <3>5 DEF pieces
  <2>4. before \cap new = {}
    BY <1>2
  <2>5. UNION {bytesAt(p) : p \in more} = before \cup new
    OBVIOUS
  <2>6. Cardinality(before) \in Nat /\ Cardinality(before) = size
    BY <1>5, <2>3, FS_CardinalityType
  <2>7. Cardinality(before \cup new) = Cardinality(before) + Cardinality(new) - 0
    <3> HIDE DEF before, new
    <3> QED BY <2>2, <2>3, <2>4, FS_Union, FS_EmptySet
  <2>8. Cardinality(UNION {bytesAt(p) : p \in more}) = Cardinality(before \cup new)
    BY <2>5
  <2> DEFINE total == Cardinality(UNION {bytesAt(p) : p \in more})
  <2>9. total = size + file[n + 1].len
    <3> HIDE DEF before, new, total
    <3> QED BY <2>1, <2>2, <2>6, <2>7, <2>8 DEF total
  <2> QED BY <2>9
<1> QED BY <1>9, <1>10, <1>11 DEF FirstOf

\* Nothing yet.
LEMMA NothingOfDirection ==
  ASSUME NEW list, NEW size, NEW file, list = <<>>, size = 0
  PROVE  FirstOf(list, size, file, {})
<1>1. PacketCount \in Nat /\ PacketCount > 0
  BY BuilderAssumption
<1>2. Cardinality({}) = 0 /\ Len(<<>>) = 0
  BY FS_EmptySet
<1>3. UNION {{p} \X (1 .. file[p].len) : p \in {}} = {}
  OBVIOUS
<1> QED BY <1>1, <1>2, <1>3 DEF FirstOf

-----------------------------------------------------------------------------
(* Reading. *)

\* No file is read further than its end.
LEMMA ReadPartBound ==
  ASSUME TypeOK, ReadingFacts, NEW file \in Files
  PROVE  ReadPart(file) \in 0 .. Len(pcap[file])
<1>1. Len(pcap[file]) \in Nat /\ pos \in Nat
  BY DEF TypeOK
<1>2. CASE phase = "run" \/ file \notin FilesRead \/ file \notin Range(files)
  BY <1>1, <1>2 DEF ReadPart
<1>3. CASE file \in Range(files)
  <2>1. files # <<>>
    BY <1>3 DEF Range
  <2>2. pos <= Len(pcap[Head(files)])
    BY <2>1 DEF ReadingFacts
  <2>3. ReadPart(file) = 0 \/ (file = Head(files) /\ ReadPart(file) = pos)
    BY <1>3 DEF ReadPart
  <2> QED BY <1>1, <2>2, <2>3
<1> QED BY <1>2, <1>3

\* The packet that is read next.
LEMMA CurrentFacts ==
  ASSUME TypeOK, ReadingFacts, Reading
  PROVE  /\ phase = "read" /\ files # <<>>
         /\ Head(files) \in Files /\ Head(files) \in FilesRead /\ Head(files) \in Range(files)
         /\ pos \in Nat /\ pos + 1 \in 1 .. Len(pcap[Head(files)])
         /\ pcap[Head(files)] \in Seq(Packet)
         /\ Current \in Packet
         /\ ReadPart(Head(files)) = pos
<1>1. phase = "read" /\ files # <<>> /\ pos < Len(pcap[Head(files)])
  BY DEF Reading
<1>2. Head(files) \in Files /\ Head(files) \in Range(files)
  <2>1. Len(files) \in Nat /\ Len(files) > 0 /\ Head(files) = files[1]
    BY <1>1 DEF TypeOK
  <2>2. 1 \in DOMAIN files
    BY <2>1 DEF TypeOK
  <2>3. files[1] \in Files
    BY <2>2 DEF TypeOK
  <2> QED BY <2>1, <2>2, <2>3 DEF Range
<1>3. Head(files) \in FilesRead
  BY <1>2 DEF ReadingFacts
<1>4. pcap[Head(files)] \in Seq(Packet) /\ pos \in Nat
  BY <1>2 DEF TypeOK
<1>5. Len(pcap[Head(files)]) \in Nat
  BY <1>4
<1>6. pos + 1 \in 1 .. Len(pcap[Head(files)])
  BY <1>1, <1>4, <1>5
<1>7. Current \in Packet
  BY <1>4, <1>6 DEF Current
<1>8. ReadPart(Head(files)) = pos
  BY <1>1, <1>2, <1>3 DEF ReadPart
<1> QED BY <1>1, <1>2, <1>3, <1>4, <1>6, <1>7, <1>8

\* The current packet counts for request r.
OwnCurrent(r) == Belongs(r, Current) /\ Wanted(Current)

\* What all steps over a packet do.
Advancing ==
  Reading /\ pos' = pos + 1 /\ UNCHANGED <<phase, runVars, optionVars, files>>

\* What belongs to a request, and what capture_files selects, follow the run
\* and the options alone.
LEMMA SamePackets ==
  ASSUME UNCHANGED <<meta, filter>>, NEW r \in Requests, NEW pkt
  PROVE  Belongs(r, pkt)' = Belongs(r, pkt) /\ Wanted(pkt)' = Wanted(pkt)
BY DEF Belongs, Wanted

LEMMA Advance ==
  ASSUME IndInv, Advancing
  PROVE  /\ CaptureFacts' /\ ReadingFacts'
         /\ \A file \in Files :
              ReadPart(file)' = IF file = Head(files) THEN pos + 1 ELSE ReadPart(file)
         /\ \A r \in Requests :
              ReadOf(r)' = IF OwnCurrent(r) THEN ReadOf(r) \cup {Current} ELSE ReadOf(r)
<1>1. TypeOK /\ CaptureFacts /\ ReadingFacts /\ Reading
  BY DEF IndInv, Advancing
<1>2. /\ pos' = pos + 1
      /\ UNCHANGED <<phase, meta, ports, pcap, mode, filter, files>>
  BY DEF Advancing, runVars, optionVars
<1>3. /\ phase = "read" /\ files # <<>>
      /\ Head(files) \in Files /\ Head(files) \in FilesRead /\ Head(files) \in Range(files)
      /\ pos \in Nat /\ pos + 1 \in 1 .. Len(pcap[Head(files)])
      /\ ReadPart(Head(files)) = pos
  BY <1>1, CurrentFacts
<1>4. CaptureFacts'
  BY <1>1, <1>2 DEF CaptureFacts
<1>5. FilesRead' = FilesRead
  BY <1>2 DEF FilesRead, FilesFor
<1>6. ReadingFacts'
  <2>1. Range(files) \subseteq FilesRead
    BY <1>1 DEF ReadingFacts
  <2>2. \A i, j \in 1 .. Len(files) : i # j => files[i] # files[j]
    BY <1>1 DEF ReadingFacts
  <2>3. pos' <= Len(pcap'[Head(files')])
    BY <1>2, <1>3
  <2> QED BY <1>2, <1>3, <1>5, <2>1, <2>2, <2>3 DEF ReadingFacts
<1>7. ASSUME NEW file \in Files
      PROVE  ReadPart(file)' = IF file = Head(files) THEN pos + 1 ELSE ReadPart(file)
  <2>1. CASE file = Head(files)
    BY <1>2, <1>3, <1>5, <2>1 DEF ReadPart
  <2>2. CASE file # Head(files)
    BY <1>2, <1>3, <1>5, <2>2 DEF ReadPart
  <2> QED BY <2>1, <2>2
<1>8. ASSUME NEW r \in Requests
      PROVE  ReadOf(r)' = IF OwnCurrent(r) THEN ReadOf(r) \cup {Current} ELSE ReadOf(r)
  <2> DEFINE part(file) == {pcap[file][p] : p \in 1 .. ReadPart(file)}
             old == UNION {part(file) : file \in Files}
             new == UNION {{pcap[file][p] : p \in 1 .. ReadPart(file)'} : file \in Files}
  <2>1. \A file \in Files : ReadPart(file) \in Nat
    BY <1>1, ReadPartBound
  <2>2. \A x : x \in new <=> x \in old \/ x = Current
    <3>1. ASSUME NEW x \in new
          PROVE  x \in old \/ x = Current
      <4> PICK file \in Files : x \in {pcap[file][p] : p \in 1 .. ReadPart(file)'}
        BY <3>1
      <4>1. PICK p \in 1 .. ReadPart(file)' : x = pcap[file][p]
        OBVIOUS
      <4>2. CASE file = Head(files) /\ p = pos + 1
        BY <4>1, <4>2 DEF Current
      <4>3. CASE ~(file = Head(files) /\ p = pos + 1)
        <5>1. p \in 1 .. ReadPart(file)
          BY <1>3, <1>7, <2>1, <4>3
        <5> QED BY <4>1, <5>1
      <4> QED BY <4>2, <4>3
    <3>2. ASSUME NEW x \in old
          PROVE  x \in new
      <4> PICK file \in Files : x \in part(file)
        BY <3>2
      <4>1. PICK p \in 1 .. ReadPart(file) : x = pcap[file][p]
        OBVIOUS
      <4>2. p \in 1 .. ReadPart(file)'
        BY <1>3, <1>7, <2>1, <4>1
      <4> QED BY <4>1, <4>2
    <3>3. Current \in new
      <4>1. PICK file \in Files : file = Head(files)
        BY <1>3
      <4>2. pos + 1 \in 1 .. ReadPart(file)'
        BY <1>3, <1>7, <4>1
      <4>3. Current = pcap[file][pos + 1]
        BY <4>1 DEF Current
      <4> QED BY <4>2, <4>3
    <3> HIDE DEF old, new
    <3> QED BY <3>1, <3>2, <3>3
  <2>3. ReadOf(r) = {pkt \in old : Belongs(r, pkt) /\ Wanted(pkt)}
    BY DEF ReadOf
  <2>4. ReadOf(r)' = {pkt \in new : Belongs(r, pkt)' /\ Wanted(pkt)'}
    BY <1>2 DEF ReadOf
  <2>5. \A pkt : Belongs(r, pkt)' = Belongs(r, pkt) /\ Wanted(pkt)' = Wanted(pkt)
    BY <1>2, SamePackets
  <2>6. ReadOf(r)' = {pkt \in new : Belongs(r, pkt) /\ Wanted(pkt)}
    BY <2>4, <2>5
  <2> HIDE DEF old, new
  <2> QED BY <2>2, <2>3, <2>6 DEF OwnCurrent
<1> QED BY <1>4, <1>6, <1>7, <1>8

\* A host-facing file has the packets of one direction, so the positions that
\* count for an entry change only by a packet of its own.
LEMMA AdvanceDirection ==
  ASSUME IndInv, Advancing, ports = "host", NEW r \in Requests, NEW d \in Directions,
         NEW n, n = ReadPart(FileOf(d))
  PROVE  /\ n \in Nat
         /\ OwnPositions(r, d, n) \in SUBSET (1 .. n)
         /\ OwnCurrent(r) /\ Current.direction = d
              => /\ OwnPositions(r, d, ReadPart(FileOf(d)))' = OwnPositions(r, d, n) \cup {n + 1}
                 /\ n + 1 \in 1 .. Len(pcap[FileOf(d)])
                 /\ pcap[FileOf(d)][n + 1] = Current
         /\ ~(OwnCurrent(r) /\ Current.direction = d)
              => OwnPositions(r, d, ReadPart(FileOf(d)))' = OwnPositions(r, d, n)
<1> DEFINE file == FileOf(d)
           own(p) == Belongs(r, pcap[file][p]) /\ Wanted(pcap[file][p])
           m == ReadPart(file)'
<1>1. TypeOK /\ CaptureFacts /\ ReadingFacts /\ Reading
  BY DEF IndInv, Advancing
<1>2. UNCHANGED <<meta, filter, pcap>>
  BY DEF Advancing, runVars, optionVars
<1>3. file \in Files
  BY DEF FileOf, Files
<1>4. n \in 0 .. Len(pcap[file])
  BY <1>1, <1>3, ReadPartBound
<1>5. n \in Nat /\ OwnPositions(r, d, n) = {p \in 1 .. n : own(p)}
  BY <1>1, <1>3, <1>4 DEF OwnPositions, TypeOK
<1>6. m = IF file = Head(files) THEN pos + 1 ELSE n
  BY <1>3, Advance
<1>7. OwnPositions(r, d, ReadPart(FileOf(d)))' = {p \in 1 .. m : own(p)}
  <2>1. OwnPositions(r, d, ReadPart(FileOf(d)))'
          = {p \in 1 .. m : Belongs(r, pcap[file][p])' /\ Wanted(pcap[file][p])'}
    BY DEF OwnPositions
  <2>2. \A p : /\ Belongs(r, pcap[file][p])' = Belongs(r, pcap[file][p])
               /\ Wanted(pcap[file][p])' = Wanted(pcap[file][p])
    BY <1>2 DEF Belongs, Wanted
  <2> QED BY <2>1, <2>2
<1>8. /\ Head(files) \in Files /\ pos \in Nat
      /\ pos + 1 \in 1 .. Len(pcap[Head(files)]) /\ Current \in Packet
      /\ ReadPart(Head(files)) = pos
  BY <1>1, CurrentFacts
<1>9. Head(files) = FileOf(Current.direction)
  BY <1>1, <1>8 DEF CaptureFacts, Current
<1>10. Current.direction = d <=> file = Head(files)
  <2>1. Current.direction \in Directions
    BY <1>8 DEF Packet
  <2> QED BY <1>9, <2>1 DEF FileOf, Directions
<1>11. CASE Current.direction # d
  <2>1. m = n
    BY <1>6, <1>10, <1>11
  <2> QED BY <1>5, <1>7, <1>11, <2>1
<1>12. CASE Current.direction = d
  <2>1. m = n + 1 /\ n = pos
    BY <1>6, <1>8, <1>10, <1>12
  <2>2. pcap[file][n + 1] = Current /\ n + 1 \in 1 .. Len(pcap[file])
    BY <1>8, <1>10, <1>12, <2>1 DEF Current
  <2>3. own(n + 1) <=> OwnCurrent(r)
    BY <2>2 DEF OwnCurrent
  <2>4. \A p : p \in 1 .. m <=> p \in 1 .. n \/ p = n + 1
    BY <1>5, <2>1
  <2>5. OwnCurrent(r) => {p \in 1 .. m : own(p)} = {p \in 1 .. n : own(p)} \cup {n + 1}
    BY <2>3, <2>4
  <2>6. ~OwnCurrent(r) => {p \in 1 .. m : own(p)} = {p \in 1 .. n : own(p)}
    BY <2>3, <2>4
  <2> HIDE DEF own, m
  <2> QED BY <1>5, <1>7, <1>12, <2>2, <2>5, <2>6
<1> QED BY <1>11, <1>12

-----------------------------------------------------------------------------
(* The inductive invariant. *)

\* Before the run.
LEMMA InitInv == Init => IndInv
<1> SUFFICES ASSUME Init PROVE IndInv
  OBVIOUS
<1>1. PacketCount \in Nat /\ PacketCount > 0
  BY BuilderAssumption
<1>2. TypeOK
  <2>1. \A e \in Entries : packets[e] = <<>> /\ Len(packets[e]) <= PacketCount
    BY <1>1 DEF Init
  <2>2. packets \in [Entries -> Seq(Packet)] /\ bytes \in [Entries -> Nat]
    BY DEF Init
  <2>3. sent \in [Directions -> 0 .. MaxPackets] /\ clock \in 0 .. MaxTime /\ odd \in 0 .. MaxOdd
    BY BoundsAssumption DEF Init
  <2>4. pcap \in [Files -> Seq(Packet)] /\ files \in Seq(Files) /\ pos \in Nat
    BY DEF Init
  <2>5. lag \in Nat /\ ports \in Ports
    BY BuilderAssumption DEF Init
  <2> QED BY <2>1, <2>2, <2>3, <2>4, <2>5 DEF Init, TypeOK
<1>3. CaptureFacts
  BY DEF Init, CaptureFacts
<1>4. ReadingFacts
  BY DEF Init, ReadingFacts, Range
<1>5. StoredFacts
  BY DEF Init, StoredFacts
<1>6. DirectionFacts
  <2>1. ASSUME NEW r \in Requests, NEW d \in Directions
        PROVE  HoldsFirst(r, d, ReadPart(FileOf(d)))
    <3>1. ReadPart(FileOf(d)) = 0
      BY DEF Init, ReadPart
    <3>2. OwnPositions(r, d, 0) = {}
      BY DEF OwnPositions
    <3>3. packets[<<r, d>>] = <<>> /\ bytes[<<r, d>>] = 0
      BY DEF Init, Entries
    <3> QED BY <3>1, <3>2, <3>3, NothingOfDirection DEF HoldsFirst
  <2> QED BY <2>1 DEF Init, DirectionFacts
<1>7. RequestFacts
  BY DEF Init, RequestFacts
<1> QED BY <1>2, <1>3, <1>4, <1>5, <1>6, <1>7 DEF IndInv

\* Before the reading, nothing is stored.
LEMMA NothingRead ==
  ASSUME IndInv, phase = "run"
  PROVE  /\ \A file \in Files : ReadPart(file) = 0
         /\ \A r \in Requests : ReadOf(r) = {}
         /\ packets = [e \in Entries |-> <<>>]
         /\ complete = {} /\ seen = [r \in Requests |-> {}]
         /\ files = <<>> /\ pos = 0 /\ mode = "direction" /\ filter = "both"
         /\ ports = "host" => \A e \in Entries : bytes[e] = 0
<1>1. TypeOK /\ ReadingFacts /\ StoredFacts /\ DirectionFacts
  BY DEF IndInv
<1>2. files = <<>> /\ pos = 0 /\ mode = "direction" /\ filter = "both"
  BY <1>1 DEF ReadingFacts
<1>3. \A file \in Files : ReadPart(file) = 0
  BY DEF ReadPart
<1>4. \A r \in Requests : ReadOf(r) = {}
  BY <1>3 DEF ReadOf
<1>5. complete = {} /\ seen = [r \in Requests |-> {}]
  BY <1>1, <1>2 DEF DirectionFacts
<1>6. packets = [e \in Entries |-> <<>>]
  <2>1. packets \in [Entries -> Seq(Packet)]
    BY <1>1 DEF TypeOK
  <2>2. ASSUME NEW e \in Entries
        PROVE  packets[e] = <<>>
    <3>1. e[1] \in Requests
      BY DEF Entries
    <3>2. \A i \in 1 .. Len(packets[e]) : FALSE
      BY <1>1, <1>4, <3>1 DEF StoredFacts
    <3>3. packets[e] \in Seq(Packet)
      BY <2>1
    <3>4. Len(packets[e]) = 0
      BY <3>2, <3>3
    <3> QED BY <3>3, <3>4
  <2> QED BY <2>1, <2>2
<1>7. ASSUME ports = "host", NEW e \in Entries
      PROVE  bytes[e] = 0
  <2>1. PICK r \in Requests, d \in Directions : e = <<r, d>>
    BY DEF Entries
  <2>2. HoldsFirst(r, d, ReadPart(FileOf(d)))
    BY <1>1, <1>2, <1>7 DEF DirectionFacts
  <2>3. ReadPart(FileOf(d)) = 0
    BY <1>3 DEF FileOf, Files
  <2>4. OwnPositions(r, d, ReadPart(FileOf(d))) = {}
    BY <2>3 DEF OwnPositions
  <2>5. FirstOf(packets[<<r, d>>], bytes[<<r, d>>], pcap[FileOf(d)], {})
    BY <2>2, <2>4 DEF HoldsFirst
  <2>6. UNION {{p} \X (1 .. pcap[FileOf(d)][p].len) : p \in {}} = {}
    OBVIOUS
  <2>7. bytes[<<r, d>>] = Cardinality({})
    BY <2>5, <2>6 DEF FirstOf
  <2> QED BY <2>1, <2>7, FS_EmptySet
<1> QED BY <1>2, <1>3, <1>4, <1>5, <1>6, <1>7

\* What the reading has found so far, as the steps of the run leave it.
LEMMA BeforeReading ==
  ASSUME IndInv, phase = "run",
         packets' = packets, bytes' = bytes, seen' = seen, complete' = complete,
         ports' = ports,
         \A file \in Files : ReadPart(file)' = 0
  PROVE  StoredFacts' /\ DirectionFacts' /\ RequestFacts'
<1>1. /\ packets = [e \in Entries |-> <<>>]
      /\ complete = {} /\ seen = [r \in Requests |-> {}]
      /\ ports = "host" => \A e \in Entries : bytes[e] = 0
  BY NothingRead
<1>2. StoredFacts'
  BY <1>1 DEF StoredFacts
<1>3. ASSUME ports = "host", NEW r \in Requests, NEW d \in Directions
      PROVE  HoldsFirst(r, d, ReadPart(FileOf(d)))'
  <2>1. ReadPart(FileOf(d))' = 0
    BY DEF FileOf, Files
  <2>2. OwnPositions(r, d, ReadPart(FileOf(d)))' = {}
    BY <2>1 DEF OwnPositions
  <2>3. packets'[<<r, d>>] = <<>> /\ bytes'[<<r, d>>] = 0
    BY <1>1, <1>3 DEF Entries
  <2>4. FirstOf(packets'[<<r, d>>], bytes'[<<r, d>>], pcap'[FileOf(d)], {})
    BY <2>3, NothingOfDirection
  <2> QED BY <2>2, <2>4 DEF HoldsFirst
<1>4. DirectionFacts'
  BY <1>1, <1>3 DEF DirectionFacts
<1>5. ASSUME NEW r \in Requests
      PROVE  TakenSoFar(r)'
  <2>1. ReadOf(r)' = {}
    BY DEF ReadOf
  <2>2. packets'[<<r, "src_to_dst">>] = <<>> /\ packets'[<<r, "dst_to_src">>] = <<>>
    BY <1>1 DEF Entries, Directions
  <2>3. Stored(r)' = {}
    BY <2>2 DEF Stored, Directions, Range
  <2>4. Fingerprints({}) = {} /\ Cardinality({}) = 0
    BY FS_EmptySet DEF Fingerprints
  <2>5. seen'[r] = {} /\ r \notin complete'
    BY <1>1
  <2>6. PacketCount \in Nat /\ PacketCount > 0
    BY BuilderAssumption
  <2>7. Cardinality(Fingerprints(Stored(r)'))
          = Len(packets'[<<r, "src_to_dst">>]) + Len(packets'[<<r, "dst_to_src">>])
    <3>1. Cardinality(Fingerprints(Stored(r)')) = 0
      BY <2>3, <2>4
    <3>2. Len(packets'[<<r, "src_to_dst">>]) = 0 /\ Len(packets'[<<r, "dst_to_src">>]) = 0
      BY <2>2
    <3> QED BY <3>1, <3>2
  <2> QED BY <2>1, <2>3, <2>4, <2>5, <2>6, <2>7 DEF TakenSoFar
<1>6. RequestFacts'
  BY <1>5 DEF RequestFacts
<1> QED BY <1>2, <1>4, <1>6

\* A packet of the run is captured, in the file of its direction or in both.
LEMMA SendInv ==
  ASSUME IndInv, NEW r \in Requests, NEW d \in Directions, NEW len \in Lengths,
         NEW ts \in 1 .. MaxTime, Send(r, d, len, ts)
  PROVE  IndInv'
<1>1. TypeOK /\ CaptureFacts /\ ReadingFacts
  BY DEF IndInv
<1>2. /\ phase = "run" /\ phase' = "run"
      /\ UNCHANGED <<meta, ports, lag, mode, filter, files, pos, packets, bytes, seen, complete>>
  BY DEF Send, optionVars, cacheVars
<1>3. PICK pkt : /\ pkt = [request |-> r, direction |-> d, ts |-> ts, len |-> len,
                           seq |-> sent'[d]]
                 /\ pcap' = [file \in Files |-> Captured(file, pkt)]
  BY DEF Send
<1>4. /\ ts \in Nat /\ lag \in Nat /\ meta[r].start \in Nat /\ meta[r].start <= ts
      /\ ports \in Ports
  BY <1>1, BoundsAssumption, Schedule DEF Send, TypeOK
<1>5. sent' \in [Directions -> 0 .. MaxPackets]
  <2>1. /\ sent["src_to_dst"] + sent["dst_to_src"] < MaxPackets
        /\ sent' = [sent EXCEPT ![d] = @ + 1]
    BY DEF Send
  <2>2. sent \in [Directions -> 0 .. MaxPackets] /\ MaxPackets \in Nat
    BY <1>1, BoundsAssumption DEF TypeOK
  <2>3. sent["src_to_dst"] \in Nat /\ sent["dst_to_src"] \in Nat
    BY <2>2 DEF Directions
  <2>4. sent[d] + 1 \in 0 .. MaxPackets
    BY <2>1, <2>2, <2>3 DEF Directions
  <2> QED BY <2>1, <2>2, <2>4
<1>6. odd' \in 0 .. MaxOdd /\ clock' \in 0 .. MaxTime
  <2>1. odd \in 0 .. MaxOdd /\ MaxOdd \in Nat /\ MaxTime \in Nat
    BY <1>1, BoundsAssumption DEF TypeOK
  <2>2. clock' = ts /\ (odd' = odd \/ (odd < MaxOdd /\ odd' = odd + 1))
    BY DEF Send
  <2> QED BY <2>1, <2>2
<1>7. pkt \in Packet /\ pkt.request = r /\ pkt.ts = ts /\ pkt.direction = d
  <2>1. sent'[d] \in Nat
    BY <1>5, BoundsAssumption
  <2> QED BY <1>3, <1>4, <2>1 DEF Packet
<1>8. ASSUME NEW file \in Files
      PROVE  \/ pcap'[file] = pcap[file]
             \/ \E x \in Packet : /\ pcap'[file] = Append(pcap[file], x)
                                  /\ x.ts >= meta[x.request].start
                                  /\ ports = "host" => file = FileOf(x.direction)
  <2>1. pcap'[file] = Captured(file, pkt)
    BY <1>3
  <2>2. CASE ports = "host"
    <3>1. CASE file = FileOf(pkt.direction)
      <4>1. pcap'[file] = Append(pcap[file], pkt)
        BY <2>1, <2>2, <3>1 DEF Captured
      <4> QED BY <1>4, <1>7, <3>1, <4>1
    <3>2. CASE file # FileOf(pkt.direction)
      BY <2>1, <2>2, <3>2 DEF Captured
    <3> QED BY <3>1, <3>2
  <2>3. CASE ports # "host"
    <3> DEFINE later == [pkt EXCEPT !.ts = @ + lag]
    <3>1. pcap'[file] = Append(pcap[file], pkt) \/ pcap'[file] = Append(pcap[file], later)
      BY <2>1, <2>3 DEF Captured
    <3>2. later \in Packet /\ later.ts >= meta[later.request].start
      BY <1>3, <1>4, <1>7 DEF Packet
    <3> QED BY <1>4, <1>7, <2>3, <3>1, <3>2
  <2> QED BY <1>4, <2>2, <2>3
<1>9. pcap' \in [Files -> Seq(Packet)]
  <2>1. \A file \in Files : pcap[file] \in Seq(Packet)
    BY <1>1 DEF TypeOK
  <2>2. ASSUME NEW file \in Files
        PROVE  pcap'[file] \in Seq(Packet)
    <3>1. pcap[file] \in Seq(Packet)
      BY <2>1
    <3>2. CASE pcap'[file] = pcap[file]
      BY <3>1, <3>2
    <3>3. CASE \E q \in Packet : pcap'[file] = Append(pcap[file], q)
      BY <3>1, <3>3
    <3> QED BY <1>8, <3>2, <3>3
  <2> QED BY <1>3, <2>2
<1>10. TypeOK'
  BY <1>1, <1>2, <1>5, <1>6, <1>9 DEF TypeOK
<1>11. CaptureFacts'
  <2>1. ASSUME NEW file \in Files, NEW p \in 1 .. Len(pcap'[file])
        PROVE  /\ pcap'[file][p].ts >= meta[pcap'[file][p].request].start
               /\ ports = "host" => file = FileOf(pcap'[file][p].direction)
    <3>1. pcap[file] \in Seq(Packet)
      BY <1>1 DEF TypeOK
    <3>2. \A i \in 1 .. Len(pcap[file]) :
            /\ pcap[file][i].ts >= meta[pcap[file][i].request].start
            /\ ports = "host" => file = FileOf(pcap[file][i].direction)
      BY <1>1 DEF CaptureFacts
    <3>3. CASE pcap'[file] = pcap[file]
      BY <2>1, <3>2, <3>3
    <3>4. CASE \E x \in Packet : /\ pcap'[file] = Append(pcap[file], x)
                                 /\ x.ts >= meta[x.request].start
                                 /\ ports = "host" => file = FileOf(x.direction)
      <4>1. PICK x \in Packet : /\ pcap'[file] = Append(pcap[file], x)
                                /\ x.ts >= meta[x.request].start
                                /\ ports = "host" => file = FileOf(x.direction)
        BY <3>4
      <4>2. \/ p \in 1 .. Len(pcap[file]) /\ pcap'[file][p] = pcap[file][p]
            \/ pcap'[file][p] = x
        BY <2>1, <3>1, <4>1
      <4> QED BY <3>2, <4>1, <4>2
    <3> QED BY <1>8, <3>3, <3>4
  <2> QED BY <1>2, <2>1 DEF CaptureFacts
<1>12. ReadingFacts'
  <2>1. files = <<>> /\ pos = 0 /\ mode = "direction" /\ filter = "both"
    BY <1>2, NothingRead
  <2> QED BY <1>2, <2>1 DEF ReadingFacts, Range
<1>13. \A file \in Files : ReadPart(file)' = 0
  BY <1>2 DEF ReadPart
<1>14. StoredFacts' /\ DirectionFacts' /\ RequestFacts'
  BY <1>2, <1>13, BeforeReading
<1> QED BY <1>10, <1>11, <1>12, <1>14 DEF IndInv

\* find_pcap_files lists the files of the wanted directions, each once.
LEMMA StartBuilderInv ==
  ASSUME IndInv, StartBuilder
  PROVE  IndInv'
<1>1. TypeOK /\ CaptureFacts /\ ReadingFacts
  BY DEF IndInv
<1>2. /\ phase = "run" /\ phase' = "read"
      /\ mode' \in {"direction", "request"} /\ filter' \in Filters
      /\ files' \in FindPcapFiles
      /\ UNCHANGED <<meta, clock, sent, odd, ports, lag, pcap, pos, packets, bytes, seen, complete>>
  BY DEF StartBuilder, runVars, cacheVars
<1>3. filter' \in Directions \cup {"both"} /\ ports \in Ports /\ pos = 0
  BY <1>1, <1>2, BuilderAssumption, NothingRead DEF TypeOK
<1>4. files' \in SetToSeqs(FilesRead')
  BY <1>2 DEF FindPcapFiles, FilesRead, FilesFor
<1>5. PICK W \in SUBSET Files : W = FilesRead'
  BY DEF FilesRead, FilesFor, FileOf, Files
<1>6. IsFiniteSet(W) /\ Cardinality(W) \in Nat
  <2>1. Files = {"src"} \cup {"dst"}
    BY DEF Files
  <2>2. IsFiniteSet(Files)
    BY <2>1, FS_Singleton, FS_Union
  <2> QED BY <2>2, FS_Subset, FS_CardinalityType
<1>7. /\ files' \in [1 .. Cardinality(W) -> W]
      /\ \A i, j \in 1 .. Cardinality(W) : i # j => files'[i] # files'[j]
  BY <1>4, <1>5 DEF SetToSeqs
<1>8. files' \in Seq(Files) /\ Len(files') = Cardinality(W)
  BY <1>6, <1>7
<1>9. Range(files') = W
  <2>1. PICK f : f = files'
    OBVIOUS
  <2>2. f \in Injection(1 .. Cardinality(W), W)
    BY <1>7, <2>1 DEF Injection, IsInjective
  <2>3. IsFiniteSet(1 .. Cardinality(W)) /\ Cardinality(1 .. Cardinality(W)) = Cardinality(W)
    BY <1>6, FS_Interval
  <2>4. f \in Surjection(1 .. Cardinality(W), W)
    BY <1>6, <2>2, <2>3, FS_Injection
  <2> QED BY <1>7, <2>1, <2>4 DEF Surjection, Range
<1>10. TypeOK'
  BY <1>1, <1>2, <1>3, <1>8 DEF TypeOK
<1>11. CaptureFacts'
  BY <1>1, <1>2 DEF CaptureFacts
<1>12. files' # <<>> => Head(files') \in Files
  BY <1>8
<1>13. ReadingFacts'
  <2>1. files' # <<>> => pos' <= Len(pcap'[Head(files')])
    <3>1. \A file \in Files : Len(pcap[file]) \in Nat
      BY <1>1 DEF TypeOK
    <3> QED BY <1>2, <1>3, <1>12, <3>1
  <2> QED BY <1>2, <1>3, <1>5, <1>7, <1>8, <1>9, <2>1 DEF ReadingFacts
<1>14. ASSUME NEW file \in Files
       PROVE  ReadPart(file)' = 0
  BY <1>2, <1>3, <1>5, <1>9 DEF ReadPart
<1>15. StoredFacts' /\ DirectionFacts' /\ RequestFacts'
  BY <1>2, <1>14, BeforeReading
<1> QED BY <1>10, <1>11, <1>13, <1>15 DEF IndInv

-----------------------------------------------------------------------------
(* The steps over a packet. *)

\* A packet that no entry takes changes nothing that was found.
LEMMA SkipInv ==
  ASSUME IndInv, SkipPacket
  PROVE  IndInv'
<1>1. TypeOK /\ CaptureFacts /\ ReadingFacts /\ StoredFacts /\ DirectionFacts /\ RequestFacts
  BY DEF IndInv
<1>2. Advancing
  BY DEF SkipPacket, Advancing
<1>3. UNCHANGED <<phase, meta, clock, sent, odd, ports, lag, pcap, mode, filter, files,
                  packets, bytes, seen, complete>>
  BY DEF SkipPacket, runVars, optionVars, cacheVars
<1>4. Current \in Packet /\ pos \in Nat
  BY <1>1, <1>2, CurrentFacts DEF Advancing
<1>5. MatchPacket(Current) = {r \in Requests : Belongs(r, Current)}
  BY <1>1, <1>4, MatchIsBelongs
<1>6. /\ CaptureFacts' /\ ReadingFacts'
      /\ \A r \in Requests :
           ReadOf(r)' = IF OwnCurrent(r) THEN ReadOf(r) \cup {Current} ELSE ReadOf(r)
  BY <1>2, Advance
<1>7. TypeOK'
  BY <1>1, <1>2, <1>3, <1>4 DEF TypeOK, Advancing
<1>8. StoredFacts'
  <2>1. ASSUME NEW e \in Entries, NEW i \in 1 .. Len(packets[e])
        PROVE  packets[e][i] \in ReadOf(e[1])'
    <3>1. PICK r \in Requests : r = e[1]
      BY DEF Entries
    <3>2. packets[e][i] \in ReadOf(r)
      BY <1>1, <3>1 DEF StoredFacts
    <3>3. packets[e][i] \in ReadOf(r)'
      BY <1>6, <3>2
    <3> QED BY <3>1, <3>3
  <2> QED BY <1>3, <2>1 DEF StoredFacts
<1>9. ASSUME mode = "direction", ports = "host", NEW r \in Requests, NEW d \in Directions
      PROVE  HoldsFirst(r, d, ReadPart(FileOf(d)))'
  <2>1. ~ OwnCurrent(r)
    BY <1>5, <1>9 DEF SkipPacket, OwnCurrent
  <2>2. PICK n : n = ReadPart(FileOf(d))
    OBVIOUS
  <2>3. OwnPositions(r, d, ReadPart(FileOf(d)))' = OwnPositions(r, d, n)
    BY <1>2, <1>9, <2>1, <2>2, AdvanceDirection
  <2>4. FirstOf(packets[<<r, d>>], bytes[<<r, d>>], pcap[FileOf(d)], OwnPositions(r, d, n))
    BY <1>1, <1>9, <2>2 DEF DirectionFacts, HoldsFirst
  <2> QED BY <1>3, <2>3, <2>4 DEF HoldsFirst
<1>10. DirectionFacts'
  BY <1>1, <1>3, <1>9 DEF DirectionFacts
<1>11. ASSUME mode = "request", NEW r \in Requests
       PROVE  TakenSoFar(r)'
  <2>1. TakenSoFar(r)
    BY <1>1, <1>11 DEF RequestFacts
  <2>2. Stored(r)' = Stored(r)
    BY <1>3 DEF Stored
  <2>3. r \notin complete => Fingerprints(ReadOf(r)') = Fingerprints(ReadOf(r))
    <3>1. CASE ~ OwnCurrent(r)
      BY <1>6, <3>1
    <3>2. CASE OwnCurrent(r) /\ r \notin complete
      <4>1. PICK q \in MatchPacket(Current) : q \in complete \/ PacketFingerprint(Current) \in seen[q]
        BY <1>5, <3>2 DEF SkipPacket, OwnCurrent
      <4>2. q = r
        BY <1>1, <1>4, <1>5, <3>2, <4>1, BelongsToOne DEF OwnCurrent
      <4>3. PacketFingerprint(Current) \in Fingerprints(ReadOf(r))
        BY <2>1, <3>2, <4>1, <4>2 DEF TakenSoFar
      <4> QED BY <1>6, <3>2, <4>3 DEF Fingerprints
    <3> QED BY <3>1, <3>2
  <2> QED BY <1>3, <2>1, <2>2, <2>3 DEF TakenSoFar
<1>12. RequestFacts'
  BY <1>3, <1>11 DEF RequestFacts
<1> QED BY <1>6, <1>7, <1>8, <1>10, <1>12 DEF IndInv

\* add_packet changes one entry.
LEMMA AddsToEntry ==
  ASSUME TypeOK, NEW e \in Entries, NEW pkt \in Packet, AddPacket(e, pkt)
  PROVE  /\ packets' \in [Entries -> Seq(Packet)] /\ bytes' \in [Entries -> Nat]
         /\ \A f \in Entries : Len(packets'[f]) <= PacketCount
         /\ packets'[e] = IF Len(packets[e]) < PacketCount
                            THEN Append(packets[e], pkt) ELSE packets[e]
         /\ bytes'[e] = bytes[e] + pkt.len
         /\ \A f \in Entries : f # e => packets'[f] = packets[f] /\ bytes'[f] = bytes[f]
<1>1. /\ packets \in [Entries -> Seq(Packet)] /\ bytes \in [Entries -> Nat]
      /\ \A f \in Entries : Len(packets[f]) <= PacketCount
  BY DEF TypeOK
<1>2. PacketCount \in Nat /\ pkt.len \in Nat
  BY BuilderAssumption DEF Packet
<1>3. packets[e] \in Seq(Packet) /\ Append(packets[e], pkt) \in Seq(Packet)
      /\ Len(Append(packets[e], pkt)) = Len(packets[e]) + 1 /\ Len(packets[e]) \in Nat
  BY <1>1
<1>4. bytes' \in [Entries -> Nat] /\ bytes'[e] = bytes[e] + pkt.len
      /\ \A f \in Entries : f # e => bytes'[f] = bytes[f]
  BY <1>1, <1>2 DEF AddPacket
<1>5. CASE Len(packets[e]) < PacketCount
  <2>1. packets' = [packets EXCEPT ![e] = Append(packets[e], pkt)]
    BY <1>5 DEF AddPacket
  <2> QED BY <1>1, <1>2, <1>3, <1>4, <1>5, <2>1
<1>6. CASE ~(Len(packets[e]) < PacketCount)
  BY <1>1, <1>4, <1>6 DEF AddPacket
<1> QED BY <1>5, <1>6

\* What an entry holds after add_packet was read.
LEMMA StoresCurrent ==
  ASSUME IndInv, Advancing, NEW r \in Requests, OwnCurrent(r),
         NEW e \in Entries, e[1] = r, AddPacket(e, Current)
  PROVE  StoredFacts'
<1>1. TypeOK /\ ReadingFacts /\ StoredFacts
  BY DEF IndInv
<1>2. Current \in Packet
  BY <1>1, CurrentFacts DEF Advancing
<1>3. \A q \in Requests :
        ReadOf(q)' = IF OwnCurrent(q) THEN ReadOf(q) \cup {Current} ELSE ReadOf(q)
  BY Advance
<1>4. PICK pkt \in Packet : pkt = Current
  BY <1>2
<1>5. /\ packets'[e] = packets[e] \/ packets'[e] = Append(packets[e], pkt)
      /\ \A f \in Entries : f # e => packets'[f] = packets[f]
  BY <1>1, <1>4, AddsToEntry
<1>6. ASSUME NEW f \in Entries, NEW i \in 1 .. Len(packets'[f])
      PROVE  packets'[f][i] \in ReadOf(f[1])'
  <2>1. PICK q \in Requests : q = f[1]
    BY DEF Entries
  <2>2. \A j \in 1 .. Len(packets[f]) : packets[f][j] \in ReadOf(q)
    BY <1>1, <2>1 DEF StoredFacts
  <2>3. \/ i \in 1 .. Len(packets[f]) /\ packets'[f][i] = packets[f][i]
        \/ f = e /\ packets'[f][i] = pkt
    <3>1. packets[f] \in Seq(Packet)
      BY <1>1 DEF TypeOK
    <3> QED BY <1>5, <1>6, <3>1
  <2>4. packets'[f][i] \in ReadOf(q)'
    BY <1>3, <1>4, <2>1, <2>2, <2>3
  <2> QED BY <2>1, <2>4
<1> QED BY <1>6 DEF StoredFacts

\* add_packet of build_from_direction_files, for the request that match_packet
\* returned.
LEMMA TakeForDirectionInv ==
  ASSUME IndInv, TakeForDirection
  PROVE  IndInv'
<1>1. TypeOK /\ CaptureFacts /\ ReadingFacts /\ StoredFacts /\ DirectionFacts /\ RequestFacts
  BY DEF IndInv
<1>2. Advancing
  BY DEF TakeForDirection, Advancing
<1>3. /\ mode = "direction" /\ Wanted(Current)
      /\ UNCHANGED <<phase, meta, clock, sent, odd, ports, lag, pcap, mode, filter, files,
                     seen, complete>>
  BY DEF TakeForDirection, runVars, optionVars
<1>4. PICK pkt \in Packet : pkt = Current
  BY <1>1, <1>2, CurrentFacts DEF Advancing
<1>5. pos \in Nat
  BY <1>1 DEF TypeOK
<1>6. PICK r \in MatchPacket(Current) : AddPacket(<<r, Current.direction>>, Current)
  BY DEF TakeForDirection
<1>7. r \in Requests /\ Belongs(r, Current) /\ OwnCurrent(r)
  BY <1>1, <1>3, <1>4, <1>6, MatchIsBelongs DEF OwnCurrent
<1>8. PICK e \in Entries : e = <<r, Current.direction>>
  BY <1>4, <1>7 DEF Entries, Packet
<1>9. /\ packets' \in [Entries -> Seq(Packet)] /\ bytes' \in [Entries -> Nat]
      /\ \A f \in Entries : Len(packets'[f]) <= PacketCount
      /\ packets'[e] = IF Len(packets[e]) < PacketCount
                         THEN Append(packets[e], pkt) ELSE packets[e]
      /\ bytes'[e] = bytes[e] + pkt.len
      /\ \A f \in Entries : f # e => packets'[f] = packets[f] /\ bytes'[f] = bytes[f]
  BY <1>1, <1>4, <1>6, <1>8, AddsToEntry
<1>10. TypeOK'
  BY <1>1, <1>2, <1>3, <1>5, <1>9 DEF TypeOK, Advancing
<1>11. CaptureFacts' /\ ReadingFacts'
  BY <1>2, Advance
<1>12. StoredFacts'
  BY <1>2, <1>6, <1>7, <1>8, StoresCurrent
<1>13. ASSUME ports = "host", NEW q \in Requests, NEW d \in Directions
       PROVE  HoldsFirst(q, d, ReadPart(FileOf(d)))'
  <2>1. PICK n : n = ReadPart(FileOf(d))
    OBVIOUS
  <2>2. FirstOf(packets[<<q, d>>], bytes[<<q, d>>], pcap[FileOf(d)], OwnPositions(q, d, n))
    BY <1>1, <1>3, <1>13, <2>1 DEF DirectionFacts, HoldsFirst
  <2>3. <<q, d>> \in Entries
    BY DEF Entries
  <2>4. CASE <<q, d>> = e
    <3>1. q = r /\ d = Current.direction
      BY <1>8, <2>4
    <3>2. /\ n \in Nat /\ OwnPositions(q, d, n) \in SUBSET (1 .. n)
          /\ OwnPositions(q, d, ReadPart(FileOf(d)))' = OwnPositions(q, d, n) \cup {n + 1}
          /\ n + 1 \in 1 .. Len(pcap[FileOf(d)])
          /\ pcap[FileOf(d)][n + 1] = pkt
      BY <1>2, <1>4, <1>7, <1>13, <2>1, <3>1, AdvanceDirection
    <3>3. PICK own \in SUBSET (1 .. n) : own = OwnPositions(q, d, n)
      BY <3>2
    <3>4. PICK file \in Seq(Packet) : file = pcap[FileOf(d)]
      BY <1>1 DEF TypeOK, FileOf, Files
    <3>5. PICK list \in Seq(Packet), size \in Nat : list = packets[e] /\ size = bytes[e]
      BY <1>1 DEF TypeOK
    <3>6. FirstOf(list, size, file, own)
      BY <2>2, <2>4, <3>3, <3>4, <3>5
    <3>7. /\ packets'[e] = IF Len(list) < PacketCount THEN Append(list, file[n + 1]) ELSE list
          /\ bytes'[e] = size + file[n + 1].len
      BY <1>9, <3>2, <3>4, <3>5
    <3>8. FirstOf(packets'[e], bytes'[e], file, own \cup {n + 1})
      <4>1. PICK longer : longer = packets'[e]
        OBVIOUS
      <4>2. FirstOf(longer, size + file[n + 1].len, file, own \cup {n + 1})
        BY <3>2, <3>4, <3>6, <3>7, <4>1, NextOfDirection
      <4> QED BY <3>7, <4>1, <4>2
    <3> QED BY <1>3, <2>4, <3>2, <3>3, <3>4, <3>8 DEF HoldsFirst
  <2>5. CASE <<q, d>> # e
    <3>1. ~(OwnCurrent(q) /\ Current.direction = d)
      BY <1>1, <1>4, <1>7, <1>8, <2>5, BelongsToOne DEF OwnCurrent
    <3>2. OwnPositions(q, d, ReadPart(FileOf(d)))' = OwnPositions(q, d, n)
      BY <1>2, <1>13, <2>1, <3>1, AdvanceDirection
    <3>3. packets'[<<q, d>>] = packets[<<q, d>>] /\ bytes'[<<q, d>>] = bytes[<<q, d>>]
      BY <1>9, <2>3, <2>5
    <3> QED BY <1>3, <2>2, <3>2, <3>3 DEF HoldsFirst
  <2> QED BY <2>4, <2>5
<1>14. DirectionFacts'
  BY <1>1, <1>3, <1>13 DEF DirectionFacts
<1>15. RequestFacts'
  BY <1>3 DEF RequestFacts
<1> QED BY <1>10, <1>11, <1>12, <1>14, <1>15 DEF IndInv

\* Finitely many packets have finitely many fingerprints.
LEMMA FiniteFingerprints ==
  ASSUME NEW S, IsFiniteSet(S)
  PROVE  IsFiniteSet(Fingerprints(S)) /\ Cardinality(Fingerprints(S)) \in Nat
<1> DEFINE print == [pkt \in S |-> PacketFingerprint(pkt)]
<1>1. print \in Surjection(S, Fingerprints(S))
  BY DEF Surjection, Fingerprints
<1>2. IsFiniteSet(Fingerprints(S))
  BY <1>1, FS_Surjection
<1> QED BY <1>2, FS_CardinalityType

\* Where no packet has two time stamps, packets are told by their fingerprints.
LEMMA PacketsAreFingerprints ==
  ASSUME NEW S, IsFiniteSet(S), StampedOnce(S)
  PROVE  Cardinality(DistinctPackets(S)) = Cardinality(Fingerprints(S))
<1> DEFINE headers == [print \in Fingerprints(S) |-> <<print[2], print[3], print[4], print[5]>>]
<1>1. \A a \in S : headers[PacketFingerprint(a)] = PacketIdentity(a)
  BY DEF Fingerprints, PacketFingerprint, PacketIdentity
<1>2. headers \in [Fingerprints(S) -> DistinctPackets(S)]
  <2>1. \A print \in Fingerprints(S) : headers[print] \in DistinctPackets(S)
    BY <1>1 DEF Fingerprints, DistinctPackets
  <2> QED BY <2>1
<1>3. \A packet \in DistinctPackets(S) : \E print \in Fingerprints(S) : headers[print] = packet
  BY <1>1 DEF Fingerprints, DistinctPackets
<1>4. ASSUME NEW p \in Fingerprints(S), NEW q \in Fingerprints(S), headers[p] = headers[q]
      PROVE  p = q
  <2>1. PICK a \in S : p = PacketFingerprint(a)
    BY DEF Fingerprints
  <2>2. PICK b \in S : q = PacketFingerprint(b)
    BY DEF Fingerprints
  <2>3. PacketIdentity(a) = PacketIdentity(b)
    BY <1>1, <1>4, <2>1, <2>2
  <2>4. a.ts = b.ts
    BY <2>3 DEF StampedOnce
  <2> QED BY <2>1, <2>2, <2>3, <2>4 DEF PacketFingerprint, PacketIdentity
<1> HIDE DEF headers
<1>5. headers \in Bijection(Fingerprints(S), DistinctPackets(S))
  BY <1>2, <1>3, <1>4 DEF Bijection, Injection, Surjection, IsInjective
<1>6. IsFiniteSet(Fingerprints(S))
  BY FiniteFingerprints
<1>7. ExistsBijection(Fingerprints(S), DistinctPackets(S))
  BY <1>5 DEF ExistsBijection
<1> QED BY <1>6, <1>7, FS_Bijection

\* A list has finitely many elements.
LEMMA FiniteRange ==
  ASSUME NEW S, NEW list \in Seq(S)
  PROVE  IsFiniteSet(Range(list))
<1>1. Len(list) \in Nat /\ DOMAIN list = 1 .. Len(list)
  OBVIOUS
<1>2. IsFiniteSet(1 .. Len(list))
  BY <1>1, FS_Interval
<1>3. list \in Surjection(1 .. Len(list), Range(list))
  BY <1>1 DEF Surjection, Range
<1> QED BY <1>2, <1>3, FS_Surjection

\* The packets stored for a request are those of its two entries.
LEMMA StoredOfBoth ==
  ASSUME NEW r
  PROVE  Stored(r) = Range(packets[<<r, "src_to_dst">>]) \cup Range(packets[<<r, "dst_to_src">>])
BY DEF Stored, Directions

\* So they have finitely many fingerprints.
LEMMA FiniteStored ==
  ASSUME TypeOK, NEW r \in Requests
  PROVE  IsFiniteSet(Fingerprints(Stored(r))) /\ Cardinality(Fingerprints(Stored(r))) \in Nat
<1>1. /\ packets[<<r, "src_to_dst">>] \in Seq(Packet)
      /\ packets[<<r, "dst_to_src">>] \in Seq(Packet)
  BY DEF TypeOK, Entries, Directions
<1>2. IsFiniteSet(Stored(r))
  BY <1>1, FiniteRange, FS_Union, StoredOfBoth
<1> QED BY <1>2, FiniteFingerprints

\* add_packet of the cached reading: a packet whose fingerprint is new, of a
\* request that is not complete.
LEMMA TakeForRequestInv ==
  ASSUME IndInv, TakeForRequest
  PROVE  IndInv'
<1>1. TypeOK /\ CaptureFacts /\ ReadingFacts /\ StoredFacts /\ DirectionFacts /\ RequestFacts
  BY DEF IndInv
<1>2. Advancing
  BY DEF TakeForRequest, Advancing
<1>3. /\ mode = "request" /\ Wanted(Current)
      /\ UNCHANGED <<phase, meta, clock, sent, odd, ports, lag, pcap, mode, filter, files>>
  BY DEF TakeForRequest, runVars, optionVars
<1>4. PICK pkt \in Packet : pkt = Current
  BY <1>1, <1>2, CurrentFacts DEF Advancing
<1>5. pos \in Nat
  BY <1>1 DEF TypeOK
<1> DEFINE print == PacketFingerprint(pkt)
<1>6. PICK r \in MatchPacket(Current) :
        /\ r \notin complete
        /\ print \notin seen[r]
        /\ AddPacket(<<r, Current.direction>>, Current)
        /\ complete' = IF RequestIsComplete(r) THEN complete \cup {r} ELSE complete
        /\ seen' = [seen EXCEPT ![r] = IF RequestIsComplete(r) THEN {} ELSE @ \cup {print}]
  BY <1>4 DEF TakeForRequest
<1>7. r \in Requests /\ Belongs(r, Current) /\ OwnCurrent(r)
  BY <1>1, <1>3, <1>4, <1>6, MatchIsBelongs DEF OwnCurrent
<1>8. PICK d \in Directions : d = pkt.direction
  BY <1>4 DEF Packet
<1>9. PICK e \in Entries : e = <<r, d>> /\ e = <<r, Current.direction>>
  BY <1>4, <1>7, <1>8 DEF Entries
<1>10. /\ packets' \in [Entries -> Seq(Packet)] /\ bytes' \in [Entries -> Nat]
       /\ \A f \in Entries : Len(packets'[f]) <= PacketCount
       /\ packets'[e] = IF Len(packets[e]) < PacketCount
                          THEN Append(packets[e], pkt) ELSE packets[e]
       /\ \A f \in Entries : f # e => packets'[f] = packets[f]
  BY <1>1, <1>4, <1>6, <1>9, AddsToEntry
<1>11. /\ complete \subseteq Requests /\ DOMAIN seen = Requests
       /\ complete' \subseteq Requests /\ DOMAIN seen' = Requests
  BY <1>1, <1>6, <1>7 DEF TypeOK
<1>12. TypeOK'
  BY <1>1, <1>2, <1>3, <1>5, <1>10, <1>11, SMTT(40) DEF TypeOK, Advancing
<1>13. CaptureFacts' /\ ReadingFacts'
  BY <1>2, Advance
<1>14. StoredFacts'
  BY <1>2, <1>6, <1>7, <1>9, StoresCurrent
<1>15. DirectionFacts'
  BY <1>3 DEF DirectionFacts
<1>16. \A q \in Requests :
         ReadOf(q)' = IF OwnCurrent(q) THEN ReadOf(q) \cup {Current} ELSE ReadOf(q)
  BY <1>2, Advance
<1>17. PacketCount \in Nat /\ PacketCount > 0
  BY BuilderAssumption
<1>18. TakenSoFar(r)'
  <2> DEFINE s == <<r, "src_to_dst">>
             t == <<r, "dst_to_src">>
             stored == Fingerprints(Stored(r))
             count == Cardinality(stored)
  <2>1. /\ count = Len(packets[s]) + Len(packets[t])
        /\ seen[r] = Fingerprints(ReadOf(r)) /\ seen[r] = stored /\ count < PacketCount
    BY <1>1, <1>3, <1>6, <1>7 DEF RequestFacts, TakenSoFar
  <2>2. /\ s \in Entries /\ t \in Entries /\ s # t /\ (e = s \/ e = t)
        /\ packets[s] \in Seq(Packet) /\ packets[t] \in Seq(Packet)
        /\ Len(packets[s]) \in Nat /\ Len(packets[t]) \in Nat
    BY <1>1, <1>7, <1>8, <1>9 DEF Entries, Directions, TypeOK
  <2>3. IsFiniteSet(stored) /\ count \in Nat
    BY <1>1, <1>7, FiniteStored
  <2>4. packets'[e] = Append(packets[e], pkt)
    <3>1. PICK a \in Nat, b \in Nat : a = Len(packets[s]) /\ b = Len(packets[t])
      BY <2>2
    <3>2. a + b < PacketCount
      BY <2>1, <3>1
    <3>3. a < PacketCount /\ b < PacketCount
      BY <1>17, <3>2
    <3>4. Len(packets[e]) < PacketCount
      BY <2>2, <3>1, <3>3
    <3> QED BY <1>10, <3>4
  <2>5. Len(packets'[s]) + Len(packets'[t]) = count + 1
    <3>0. PICK a \in Nat, b \in Nat : a = Len(packets[s]) /\ b = Len(packets[t])
      BY <2>2
    <3>1. CASE e = s
      <4>1. packets'[t] = packets[t] /\ Len(packets'[s]) = Len(packets[s]) + 1
        BY <1>10, <2>2, <2>4, <3>1
      <4>2. Len(packets'[s]) = a + 1 /\ Len(packets'[t]) = b /\ count = a + b
        BY <2>1, <3>0, <4>1
      <4>3. a \in Nat /\ b \in Nat
        BY <3>0
      <4>4. (a + 1) + b = (a + b) + 1 /\ a + (b + 1) = (a + b) + 1
        BY <4>3
      <4> QED BY <4>2, <4>4
    <3>2. CASE e = t
      <4>1. packets'[s] = packets[s] /\ Len(packets'[t]) = Len(packets[t]) + 1
        BY <1>10, <2>2, <2>4, <3>2
      <4>2. Len(packets'[s]) = a /\ Len(packets'[t]) = b + 1 /\ count = a + b
        BY <2>1, <3>0, <4>1
      <4>3. a \in Nat /\ b \in Nat
        BY <3>0
      <4>4. (a + 1) + b = (a + b) + 1 /\ a + (b + 1) = (a + b) + 1
        BY <4>3
      <4> QED BY <4>2, <4>4
    <3> QED BY <2>2, <3>1, <3>2
  <2>6. Stored(r)' = Stored(r) \cup {pkt}
    <3>1. Range(Append(packets[e], pkt)) = Range(packets[e]) \cup {pkt}
      <4>1. PICK list \in Seq(Packet) : list = packets[e]
        BY <2>2
      <4>2. /\ DOMAIN Append(list, pkt) = 1 .. Len(list) + 1 /\ DOMAIN list = 1 .. Len(list)
            /\ Len(list) \in Nat /\ Append(list, pkt)[Len(list) + 1] = pkt
            /\ \A i \in 1 .. Len(list) : Append(list, pkt)[i] = list[i]
        BY <1>4
      <4>3. \A i : i \in 1 .. Len(list) + 1 <=> i \in 1 .. Len(list) \/ i = Len(list) + 1
        BY <4>2
      <4>4. {Append(list, pkt)[i] : i \in 1 .. Len(list) + 1}
              = {list[i] : i \in 1 .. Len(list)} \cup {pkt}
        BY <4>2, <4>3
      <4>5. Range(Append(list, pkt)) = Range(list) \cup {pkt}
        BY <4>2, <4>4 DEF Range
      <4> QED BY <4>1, <4>5
    <3>2. Stored(r)' = Range(packets'[s]) \cup Range(packets'[t])
      BY DEF Stored, Directions
    <3>3. Stored(r) = Range(packets[s]) \cup Range(packets[t])
      BY StoredOfBoth
    <3> HIDE DEF s, t
    <3> QED BY <1>10, <2>2, <2>4, <3>1, <3>2, <3>3
  <2>7. Fingerprints(Stored(r)') = stored \cup {print}
    BY <2>6 DEF Fingerprints
  <2>8. Cardinality(Fingerprints(Stored(r)')) = count + 1
    <3>1. print \notin stored
      BY <1>6, <2>1
    <3>2. Cardinality(stored \cup {print}) = count + 1
      <4> HIDE DEF stored, print
      <4> QED BY <2>3, <3>1, FS_AddElement
    <3> QED BY <2>7, <3>2
  <2>9. Fingerprints(ReadOf(r)') = seen[r] \cup {print}
    BY <1>4, <1>7, <1>16, <2>1 DEF Fingerprints
  <2>10. RequestIsComplete(r) <=> count + 1 >= PacketCount
    BY <2>1 DEF RequestIsComplete
  <2>11. CASE RequestIsComplete(r)
    <3>1. count + 1 = PacketCount
      <4>1. PICK c \in Nat : c = count
        BY <2>3
      <4>2. c < PacketCount /\ c + 1 >= PacketCount
        BY <2>1, <2>10, <2>11, <4>1
      <4> QED BY <1>17, <4>1, <4>2
    <3>2. r \in complete'
      BY <1>6, <2>11
    <3> QED BY <2>5, <2>8, <3>1, <3>2 DEF TakenSoFar
  <2>12. CASE ~ RequestIsComplete(r)
    <3>1. count + 1 < PacketCount
      <4> HIDE DEF count
      <4> QED BY <1>17, <2>3, <2>10, <2>12
    <3>2. r \notin complete' /\ seen'[r] = seen[r] \cup {print}
      BY <1>6, <1>7, <1>11, <2>12
    <3>3. /\ seen'[r] = Fingerprints(ReadOf(r)') /\ seen'[r] = Fingerprints(Stored(r)')
          /\ Cardinality(seen'[r]) < PacketCount
      BY <2>1, <2>7, <2>8, <2>9, <3>1, <3>2
    <3> QED BY <2>5, <2>8, <3>2, <3>3 DEF TakenSoFar
  <2> QED BY <2>11, <2>12
<1>19. ASSUME NEW q \in Requests, q # r
       PROVE  TakenSoFar(q)'
  <2>1. TakenSoFar(q)
    BY <1>1, <1>3, <1>19 DEF RequestFacts
  <2>2. ~ OwnCurrent(q)
    BY <1>1, <1>4, <1>7, <1>19, BelongsToOne DEF OwnCurrent
  <2>3. ReadOf(q)' = ReadOf(q)
    BY <1>16, <2>2
  <2>4. \A x \in Directions : packets'[<<q, x>>] = packets[<<q, x>>]
    <3>1. \A x \in Directions : <<q, x>> \in Entries /\ <<q, x>> # e
      BY <1>9, <1>19 DEF Entries
    <3> QED BY <1>10, <3>1
  <2>5. Stored(q)' = Stored(q)
    BY <2>4 DEF Stored
  <2>6. seen'[q] = seen[q] /\ (q \in complete' <=> q \in complete)
    BY <1>6, <1>11, <1>19
  <2>7. /\ packets'[<<q, "src_to_dst">>] = packets[<<q, "src_to_dst">>]
        /\ packets'[<<q, "dst_to_src">>] = packets[<<q, "dst_to_src">>]
    BY <2>4 DEF Directions
  <2> QED BY <2>1, <2>3, <2>5, <2>6, <2>7 DEF TakenSoFar
<1>20. RequestFacts'
  BY <1>18, <1>19 DEF RequestFacts
<1> QED BY <1>12, <1>13, <1>14, <1>15, <1>20 DEF IndInv

\* What was found does not depend on how the reading is told, as long as the
\* same packets were read.
LEMMA SameReading ==
  ASSUME IndInv,
         UNCHANGED <<meta, ports, pcap, mode, filter, packets, bytes, seen, complete>>,
         \A file \in Files : ReadPart(file)' = ReadPart(file)
  PROVE  CaptureFacts' /\ StoredFacts' /\ DirectionFacts' /\ RequestFacts'
<1>1. CaptureFacts /\ StoredFacts /\ DirectionFacts /\ RequestFacts
  BY DEF IndInv
<1>2. CaptureFacts'
  BY <1>1 DEF CaptureFacts
<1>3. ASSUME NEW r \in Requests
      PROVE  ReadOf(r)' = ReadOf(r)
  <2>1. ReadOf(r)' = {pkt \in UNION {{pcap[file][p] : p \in 1 .. ReadPart(file)'} : file \in Files} :
                        Belongs(r, pkt)' /\ Wanted(pkt)'}
    BY DEF ReadOf
  <2>2. \A pkt : Belongs(r, pkt)' = Belongs(r, pkt) /\ Wanted(pkt)' = Wanted(pkt)
    BY SamePackets
  <2>3. {{pcap[file][p] : p \in 1 .. ReadPart(file)'} : file \in Files}
          = {{pcap[file][p] : p \in 1 .. ReadPart(file)} : file \in Files}
    OBVIOUS
  <2> QED BY <2>1, <2>2, <2>3 DEF ReadOf
<1>4. StoredFacts'
  <2>1. ASSUME NEW e \in Entries, NEW i \in 1 .. Len(packets[e])
        PROVE  packets[e][i] \in ReadOf(e[1])'
    <3>1. PICK r \in Requests : r = e[1]
      BY DEF Entries
    <3>2. packets[e][i] \in ReadOf(r)
      BY <1>1, <3>1 DEF StoredFacts
    <3>3. packets[e][i] \in ReadOf(r)'
      BY <1>3, <3>2
    <3> QED BY <3>1, <3>3
  <2> QED BY <2>1 DEF StoredFacts
<1>5. DirectionFacts'
  <2>1. ASSUME mode = "direction", ports = "host", NEW r \in Requests, NEW d \in Directions
        PROVE  HoldsFirst(r, d, ReadPart(FileOf(d)))'
    <3>1. PICK n : n = ReadPart(FileOf(d))
      OBVIOUS
    <3>2. ReadPart(FileOf(d))' = n
      BY <3>1 DEF FileOf, Files
    <3>3. OwnPositions(r, d, ReadPart(FileOf(d)))' = OwnPositions(r, d, n)
      BY <3>2, SamePackets DEF OwnPositions
    <3>4. FirstOf(packets[<<r, d>>], bytes[<<r, d>>], pcap[FileOf(d)], OwnPositions(r, d, n))
      BY <1>1, <2>1, <3>1 DEF DirectionFacts, HoldsFirst
    <3> QED BY <3>3, <3>4 DEF HoldsFirst
  <2> QED BY <1>1, <2>1 DEF DirectionFacts
<1>6. RequestFacts'
  <2>1. ASSUME mode = "request", NEW r \in Requests
        PROVE  TakenSoFar(r)'
    <3>1. TakenSoFar(r)
      BY <1>1, <2>1 DEF RequestFacts
    <3>2. Stored(r)' = Stored(r)
      BY DEF Stored
    <3>3. ReadOf(r)' = ReadOf(r)
      BY <1>3
    <3> QED BY <3>1, <3>2, <3>3 DEF TakenSoFar
  <2> QED BY <2>1 DEF RequestFacts
<1> QED BY <1>2, <1>4, <1>5, <1>6

\* The reader goes on with the next file.
LEMMA NextFileInv ==
  ASSUME IndInv, NextFile
  PROVE  IndInv'
<1>1. TypeOK /\ ReadingFacts
  BY DEF IndInv
<1>2. /\ phase = "read" /\ files # <<>> /\ pos = Len(pcap[Head(files)])
      /\ files' = Tail(files) /\ pos' = 0
      /\ UNCHANGED <<phase, meta, clock, sent, odd, ports, lag, pcap, mode, filter,
                     packets, bytes, seen, complete>>
  BY DEF NextFile, runVars, optionVars, cacheVars
<1>3. /\ files \in Seq(Files) /\ Len(files) \in Nat /\ Len(files) > 0
      /\ \A i, j \in 1 .. Len(files) : i # j => files[i] # files[j]
      /\ Range(files) \subseteq FilesRead
  BY <1>1, <1>2 DEF TypeOK, ReadingFacts
<1>4. /\ files' \in Seq(Files) /\ Len(files') = Len(files) - 1
      /\ \A i \in 1 .. Len(files') : i + 1 \in 1 .. Len(files) /\ files'[i] = files[i + 1]
      /\ Head(files) = files[1] /\ 1 \in 1 .. Len(files)
  BY <1>2, <1>3
<1>5. Range(files') = Range(files) \ {Head(files)}
  <2>1. PICK rest \in Seq(Files) : rest = files'
    BY <1>4
  <2>2. Range(rest) = {rest[i] : i \in 1 .. Len(rest)} /\ Range(files) = {files[i] : i \in 1 .. Len(files)}
    BY <1>3, <2>1 DEF Range
  <2>3. ASSUME NEW x \in Range(rest)
        PROVE  x \in Range(files) /\ x # Head(files)
    <3>1. PICK i \in 1 .. Len(rest) : x = rest[i]
      BY <2>2
    <3>2. i + 1 \in 1 .. Len(files) /\ x = files[i + 1] /\ i + 1 # 1
      BY <1>4, <2>1, <3>1
    <3> QED BY <1>3, <1>4, <2>2, <3>2
  <2>4. ASSUME NEW x \in Range(files), x # Head(files)
        PROVE  x \in Range(rest)
    <3>1. PICK i \in 1 .. Len(files) : x = files[i]
      BY <2>2
    <3>2. i # 1
      BY <1>4, <2>4, <3>1
    <3>3. i - 1 \in 1 .. Len(rest) /\ (i - 1) + 1 = i
      BY <1>3, <1>4, <2>1, <3>1, <3>2
    <3>4. rest[i - 1] = x
      BY <1>4, <2>1, <3>1, <3>3
    <3> QED BY <2>2, <3>3, <3>4
  <2> QED BY <2>1, <2>3, <2>4
<1>6. TypeOK'
  BY <1>1, <1>2, <1>4 DEF TypeOK
<1>7. FilesRead' = FilesRead
  BY <1>2 DEF FilesRead, FilesFor
<1>8. ReadingFacts'
  <2>1. \A i, j \in 1 .. Len(files') : i # j => files'[i] # files'[j]
    <3>1. ASSUME NEW i \in 1 .. Len(files'), NEW j \in 1 .. Len(files'), i # j
          PROVE  files'[i] # files'[j]
      <4>1. i + 1 \in 1 .. Len(files) /\ j + 1 \in 1 .. Len(files) /\ i + 1 # j + 1
        BY <1>4, <3>1
      <4>2. files'[i] = files[i + 1] /\ files'[j] = files[j + 1]
        BY <1>4, <3>1
      <4> QED BY <1>3, <4>1, <4>2
    <3> QED BY <3>1
  <2>2. files' # <<>> => pos' <= Len(pcap'[Head(files')])
    <3>1. \A file \in Files : Len(pcap[file]) \in Nat
      BY <1>1 DEF TypeOK
    <3>2. files' # <<>> => Head(files') \in Files
      BY <1>4
    <3> QED BY <1>2, <3>1, <3>2
  <2> QED BY <1>2, <1>3, <1>5, <1>7, <2>1, <2>2 DEF ReadingFacts
<1>9. ASSUME NEW file \in Files
      PROVE  ReadPart(file)' = ReadPart(file)
  <2>1. Head(files) \in Range(files)
    BY <1>3, <1>4 DEF Range
  <2>2. CASE file = Head(files)
    BY <1>2, <1>3, <1>5, <1>7, <2>1, <2>2 DEF ReadPart
  <2>3. CASE file # Head(files)
    BY <1>2, <1>3, <1>5, <1>7, <2>3 DEF ReadPart
  <2> QED BY <2>2, <2>3
<1>10. CaptureFacts' /\ StoredFacts' /\ DirectionFacts' /\ RequestFacts'
  BY <1>2, <1>9, SameReading
<1> QED BY <1>6, <1>8, <1>10 DEF IndInv

\* Reading ends after the last file, or when every request is complete.
LEMMA FinishInv ==
  ASSUME IndInv, FinishReading
  PROVE  IndInv'
<1>1. TypeOK /\ ReadingFacts
  BY DEF IndInv
<1>2. /\ phase = "read" /\ phase' = "done" /\ (StopReading \/ files = <<>>)
      /\ UNCHANGED <<meta, clock, sent, odd, ports, lag, pcap, mode, filter, files, pos,
                     packets, bytes, seen, complete>>
  BY DEF FinishReading, runVars, optionVars, cacheVars
<1>3. TypeOK'
  BY <1>1, <1>2 DEF TypeOK
<1>4. FilesRead' = FilesRead
  BY <1>2 DEF FilesRead, FilesFor
<1>5. ReadingFacts'
  <2>1. StopReading' = StopReading
    BY <1>2 DEF StopReading, AllComplete
  <2> QED BY <1>1, <1>2, <1>4, <2>1 DEF ReadingFacts
<1>6. \A file \in Files : ReadPart(file)' = ReadPart(file)
  BY <1>2, <1>4 DEF ReadPart
<1>7. CaptureFacts' /\ StoredFacts' /\ DirectionFacts' /\ RequestFacts'
  BY <1>2, <1>6, SameReading
<1> QED BY <1>3, <1>5, <1>7 DEF IndInv

\* A step that changes nothing.
LEMMA StutterInv ==
  ASSUME IndInv, UNCHANGED vars
  PROVE  IndInv'
<1>1. TypeOK /\ ReadingFacts
  BY DEF IndInv
<1>2. UNCHANGED <<phase, meta, clock, sent, odd, ports, lag, pcap, mode, filter, files, pos,
                  packets, bytes, seen, complete>>
  BY DEF vars, runVars, optionVars, cacheVars
<1>3. TypeOK'
  BY <1>1, <1>2 DEF TypeOK
<1>4. FilesRead' = FilesRead
  BY <1>2 DEF FilesRead, FilesFor
<1>5. ReadingFacts'
  <2>1. StopReading' = StopReading
    BY <1>2 DEF StopReading, AllComplete
  <2> QED BY <1>1, <1>2, <1>4, <2>1 DEF ReadingFacts
<1>6. \A file \in Files : ReadPart(file)' = ReadPart(file)
  BY <1>2, <1>4 DEF ReadPart
<1>7. CaptureFacts' /\ StoredFacts' /\ DirectionFacts' /\ RequestFacts'
  BY <1>2, <1>6, SameReading
<1> QED BY <1>3, <1>5, <1>7 DEF IndInv

\* Every step preserves the invariant.
LEMMA NextInv ==
  ASSUME IndInv, [Next]_vars
  PROVE  IndInv'
<1>1. ASSUME NEW r \in Requests, NEW d \in Directions, NEW len \in Lengths,
             NEW ts \in 1 .. MaxTime, Send(r, d, len, ts)
      PROVE  IndInv'
  BY <1>1, SendInv
<1>2. CASE StartBuilder
  BY <1>2, StartBuilderInv
<1>3. CASE SkipPacket
  BY <1>3, SkipInv
<1>4. CASE TakeForDirection
  BY <1>4, TakeForDirectionInv
<1>5. CASE TakeForRequest
  BY <1>5, TakeForRequestInv
<1>6. CASE NextFile
  BY <1>6, NextFileInv
<1>7. CASE FinishReading
  BY <1>7, FinishInv
<1>8. CASE UNCHANGED vars
  BY <1>8, StutterInv
<1> QED BY <1>1, <1>2, <1>3, <1>4, <1>5, <1>6, <1>7, <1>8 DEF Next, ReadStep

\* The reading of dataset_builder.py keeps its inductive invariant, for any
\* connections, requests, packets and capture files.
THEOREM Invariant == Spec => []IndInv
<1>1. Init => IndInv
  BY InitInv
<1>2. IndInv /\ [Next]_vars => IndInv'
  BY NextInv
<1> QED BY <1>1, <1>2, PTL DEF Spec

-----------------------------------------------------------------------------
(* The properties of the runs. *)

\* match_packet gives a packet to the request that was open when it was
\* captured; a packet of another request is stored only when its time stamp is
\* not before the end of its own.
LEMMA StoredInTime ==
  ASSUME IndInv
  PROVE  ForeignOnlyLateOrShared
<1>1. TypeOK /\ CaptureFacts /\ ReadingFacts /\ StoredFacts
  BY DEF IndInv
<1>2. SUFFICES ASSUME NEW e \in Entries, NEW pkt \in Range(packets[e]), pkt.request # e[1]
               PROVE  pkt.ts >= meta[pkt.request].stop
  BY DEF ForeignOnlyLateOrShared
<1>3. PICK r \in Requests : r = e[1]
  BY DEF Entries
<1>4. pkt \in ReadOf(r)
  <2>1. packets[e] \in Seq(Packet)
    BY <1>1 DEF TypeOK
  <2>2. PICK i \in 1 .. Len(packets[e]) : pkt = packets[e][i]
    BY <2>1 DEF Range
  <2> QED BY <1>1, <1>3, <2>2 DEF StoredFacts
<1>5. PICK file \in Files : pkt \in {pcap[file][p] : p \in 1 .. ReadPart(file)}
  BY <1>4 DEF ReadOf
<1>6. PICK p \in 1 .. ReadPart(file) : pkt = pcap[file][p]
  BY <1>5
<1>7. pcap[file] \in Seq(Packet) /\ p \in 1 .. Len(pcap[file])
  <2>1. ReadPart(file) \in 0 .. Len(pcap[file]) /\ pcap[file] \in Seq(Packet)
    BY <1>1, ReadPartBound DEF TypeOK
  <2> QED BY <2>1
<1>8. pkt \in Packet /\ pkt.ts >= meta[pkt.request].start
  BY <1>1, <1>6, <1>7 DEF CaptureFacts
<1>9. PICK q \in Requests : q = pkt.request
  BY <1>8 DEF Packet
<1>10. Belongs(r, pkt)
  BY <1>4 DEF ReadOf
<1>11. q[1] = r[1] /\ q # r
  BY <1>2, <1>3, <1>9, <1>10 DEF Belongs
<1>12. /\ meta[q].start \in Nat /\ meta[q].stop \in Nat
       /\ meta[r].start \in Nat /\ meta[r].stop \in Nat /\ pkt.ts \in Nat
  BY <1>1, <1>8, Schedule DEF Packet
<1>13. q[2] \in Nat /\ r[2] \in Nat /\ q[2] # r[2]
  BY <1>11, BuilderAssumption DEF Requests
<1>14. CASE q[2] < r[2]
  <2>1. meta[q].stop <= meta[r].start
    BY <1>1, <1>11, <1>14, Schedule
  <2>2. meta[r].start <= pkt.ts
    BY <1>10 DEF Belongs
  <2> QED BY <1>9, <1>12, <2>1, <2>2
<1>15. CASE r[2] < q[2]
  <2>1. meta[r].start < meta[q].start
    BY <1>1, <1>11, <1>15, Schedule
  <2>2. pkt.ts < meta[q].start
    BY <1>10, <1>11, <2>1 DEF Belongs
  <2> QED BY <1>8, <1>9, <1>12, <2>2
<1> QED BY <1>13, <1>14, <1>15

\* A packet gets into the sample of another request only late, at a shared
\* microsecond, or stamped later by a second port.
THEOREM ForeignPackets == Spec => []ForeignOnlyLateOrShared
<1>1. IndInv => ForeignOnlyLateOrShared
  BY StoredInTime
<1> QED BY <1>1, Invariant, PTL

\* Once the reading is over without the early stop, each wanted file was read
\* to its end.
LEMMA AllRead ==
  ASSUME IndInv, phase = "done", files = <<>>, NEW file \in FilesRead
  PROVE  ReadPart(file) = Len(pcap[file])
BY DEF ReadPart, Range

\* A direction sample of a host-facing capture holds the first packets of its
\* direction and request, whatever the order of the files.
LEMMA DirectionDone ==
  ASSUME IndInv
  PROVE  DirectionSampleIsExact
<1>1. TypeOK /\ CaptureFacts /\ ReadingFacts /\ DirectionFacts
  BY DEF IndInv
<1>2. SUFFICES ASSUME phase = "done", mode = "direction", ports = "host",
                      NEW r \in Requests, NEW d \in Directions
               PROVE  HoldsFirst(r, d, Len(pcap[FileOf(d)]))
  BY DEF DirectionSampleIsExact
<1>3. files = <<>>
  BY <1>1, <1>2 DEF ReadingFacts, StopReading
<1>4. HoldsFirst(r, d, ReadPart(FileOf(d)))
  BY <1>1, <1>2 DEF DirectionFacts
<1>5. FileOf(d) \in Files /\ Len(pcap[FileOf(d)]) \in Nat
  BY <1>1 DEF FileOf, Files, TypeOK
<1>6. CASE FileOf(d) \in FilesRead
  BY <1>2, <1>3, <1>4, <1>6, AllRead
<1>7. CASE FileOf(d) \notin FilesRead
  <2>1. filter # "both" /\ filter # d
    BY <1>2, <1>7 DEF FilesRead, FilesFor, FileOf, Files, Directions
  <2>2. ASSUME NEW p \in 1 .. Len(pcap[FileOf(d)])
        PROVE  ~ Wanted(pcap[FileOf(d)][p])
    <3>1. PICK pkt \in Packet : pkt = pcap[FileOf(d)][p]
      BY <1>1, <1>5 DEF TypeOK
    <3>2. FileOf(d) = FileOf(pkt.direction)
      BY <1>1, <1>2, <1>5, <2>2, <3>1 DEF CaptureFacts
    <3>3. pkt.direction = d
      BY <3>2 DEF FileOf, Packet, Directions
    <3> QED BY <2>1, <3>1, <3>3 DEF Wanted
  <2>3. OwnPositions(r, d, Len(pcap[FileOf(d)])) = {}
    BY <2>2 DEF OwnPositions
  <2>4. ReadPart(FileOf(d)) = 0
    BY <1>7 DEF ReadPart
  <2>5. OwnPositions(r, d, ReadPart(FileOf(d))) = {}
    BY <2>4 DEF OwnPositions
  <2> QED BY <1>4, <2>3, <2>5 DEF HoldsFirst
<1> QED BY <1>6, <1>7

\* The samples of direction mode are exact.
THEOREM DirectionSamples == Spec => []DirectionSampleIsExact
<1>1. IndInv => DirectionSampleIsExact
  BY DirectionDone
<1> QED BY <1>1, Invariant, PTL

\* What was read of a request was captured; without the early stop, it is all
\* that was captured.
LEMMA ReadWasCaptured ==
  ASSUME IndInv, phase = "done", NEW r \in Requests
  PROVE  /\ ReadOf(r) \subseteq CapturedFor(r)
         /\ IsFiniteSet(CapturedFor(r))
         /\ files = <<>> => ReadOf(r) = CapturedFor(r)
<1>1. TypeOK /\ ReadingFacts
  BY DEF IndInv
<1>2. FilesRead \subseteq Files
  BY DEF FilesRead, FilesFor, FileOf, Files
<1>3. \A file \in Files : /\ pcap[file] \in Seq(Packet)
                          /\ ReadPart(file) \in 0 .. Len(pcap[file])
                          /\ file \notin FilesRead => ReadPart(file) = 0
  BY <1>1, ReadPartBound DEF TypeOK, ReadPart
<1>4. \A file \in Files : Range(pcap[file]) = {pcap[file][p] : p \in 1 .. Len(pcap[file])}
  BY <1>3 DEF Range
<1>5. ASSUME NEW pkt \in ReadOf(r)
      PROVE  pkt \in CapturedFor(r)
  <2>1. PICK file \in Files : pkt \in {pcap[file][p] : p \in 1 .. ReadPart(file)}
    BY DEF ReadOf
  <2>2. PICK p \in 1 .. ReadPart(file) : pkt = pcap[file][p]
    BY <2>1
  <2>3. file \in FilesRead /\ p \in 1 .. Len(pcap[file])
    BY <1>3, <2>2
  <2>4. pkt \in Range(pcap[file])
    BY <1>4, <2>2, <2>3
  <2> QED BY <2>3, <2>4 DEF ReadOf, CapturedFor
<1>6. ASSUME files = <<>>, NEW pkt \in CapturedFor(r)
      PROVE  pkt \in ReadOf(r)
  <2>1. PICK file \in FilesRead : pkt \in Range(pcap[file])
    BY DEF CapturedFor
  <2>2. file \in Files /\ ReadPart(file) = Len(pcap[file])
    BY <1>2, <1>6, AllRead
  <2>3. pkt \in {pcap[file][p] : p \in 1 .. ReadPart(file)}
    BY <1>4, <2>1, <2>2
  <2> QED BY <2>2, <2>3 DEF ReadOf, CapturedFor
<1>7. IsFiniteSet(CapturedFor(r))
  <2>1. FilesRead \in SUBSET Files
    BY <1>2
  <2>2. Files = {"src"} \cup {"dst"}
    BY DEF Files
  <2>3. \A file \in Files : IsFiniteSet(Range(pcap[file]))
    BY <1>3, FiniteRange
  <2>4. IsFiniteSet(Range(pcap["src"]) \cup Range(pcap["dst"]))
    BY <2>2, <2>3, FS_Union
  <2>5. CapturedFor(r) \in SUBSET (Range(pcap["src"]) \cup Range(pcap["dst"]))
    BY <2>1, <2>2 DEF CapturedFor
  <2> QED BY <2>4, <2>5, FS_Subset
<1> QED BY <1>5, <1>6, <1>7

\* What was stored for a request was captured for it.
LEMMA StoredWasCaptured ==
  ASSUME IndInv, phase = "done", NEW r \in Requests
  PROVE  Stored(r) \subseteq ReadOf(r) /\ Stored(r) \subseteq CapturedFor(r)
<1>1. TypeOK /\ StoredFacts
  BY DEF IndInv
<1>2. ASSUME NEW d \in Directions, NEW pkt \in Range(packets[<<r, d>>])
      PROVE  pkt \in ReadOf(r)
  <2>1. PICK e \in Entries : e = <<r, d>>
    BY DEF Entries
  <2>2. packets[e] \in Seq(Packet)
    BY <1>1 DEF TypeOK
  <2>3. PICK i \in 1 .. Len(packets[e]) : pkt = packets[e][i]
    BY <2>1, <2>2 DEF Range
  <2> QED BY <1>1, <2>1, <2>3 DEF StoredFacts
<1>3. Stored(r) \subseteq ReadOf(r)
  BY <1>2 DEF Stored
<1> QED BY <1>3, ReadWasCaptured

\* Each request ends up with the wanted number of fingerprints, or with all that
\* were captured.
LEMMA FingerprintsDone ==
  ASSUME IndInv, phase = "done", mode = "request", NEW r \in Requests
  PROVE  LET captured == Cardinality(Fingerprints(CapturedFor(r)))
         IN /\ Cardinality(Fingerprints(Stored(r)))
                 = IF captured < PacketCount THEN captured ELSE PacketCount
            /\ Cardinality(Fingerprints(Stored(r)))
                 = Len(packets[<<r, "src_to_dst">>]) + Len(packets[<<r, "dst_to_src">>])
<1>1. TypeOK /\ ReadingFacts /\ StoredFacts /\ RequestFacts
  BY DEF IndInv
<1> DEFINE captured == Cardinality(Fingerprints(CapturedFor(r)))
<1>3. TakenSoFar(r)
  BY <1>1 DEF RequestFacts
<1>4. /\ ReadOf(r) \subseteq CapturedFor(r) /\ IsFiniteSet(CapturedFor(r))
      /\ files = <<>> => ReadOf(r) = CapturedFor(r)
  BY ReadWasCaptured
<1>5. IsFiniteSet(Fingerprints(CapturedFor(r))) /\ captured \in Nat
  BY <1>4, FiniteFingerprints
<1>6. PacketCount \in Nat
  BY BuilderAssumption
<1>7. CASE r \in complete
  <2>1. Stored(r) \subseteq CapturedFor(r)
    BY StoredWasCaptured
  <2>2. Fingerprints(Stored(r)) \in SUBSET Fingerprints(CapturedFor(r))
    BY <2>1 DEF Fingerprints
  <2>3. Cardinality(Fingerprints(Stored(r))) <= captured
    BY <1>5, <2>2, FS_Subset
  <2>4. Cardinality(Fingerprints(Stored(r))) = PacketCount
    BY <1>3, <1>7 DEF TakenSoFar
  <2>5. ~(captured < PacketCount)
    <3> HIDE DEF captured
    <3> QED BY <1>5, <1>6, <2>3, <2>4
  <2> QED BY <1>3, <2>4, <2>5 DEF TakenSoFar
<1>8. CASE r \notin complete
  <2>1. files = <<>>
    <3>1. SUFFICES ASSUME StopReading PROVE FALSE
      BY <1>1 DEF ReadingFacts
    <3>2. Cardinality(complete) >= Cardinality(Requests)
      BY <3>1 DEF StopReading, AllComplete
    <3>3. IsFiniteSet(Requests) /\ complete \in SUBSET Requests
      BY <1>1, SamplesAreFinite DEF TypeOK
    <3>4. /\ Cardinality(complete) <= Cardinality(Requests)
          /\ Cardinality(Requests) = Cardinality(complete) => Requests = complete
          /\ Cardinality(complete) \in Nat /\ Cardinality(Requests) \in Nat
      BY <3>3, FS_Subset, FS_CardinalityType
    <3>5. Requests = complete
      BY <3>2, <3>4
    <3> QED BY <1>8, <3>5
  <2>2. Fingerprints(Stored(r)) = Fingerprints(CapturedFor(r))
    BY <1>3, <1>4, <1>8, <2>1 DEF TakenSoFar
  <2>3. captured < PacketCount
    BY <1>3, <1>8, <2>2 DEF TakenSoFar
  <2> QED BY <1>3, <2>2, <2>3 DEF TakenSoFar
<1> QED BY <1>7, <1>8

\* And with that many distinct packets, where none has two time stamps.
LEMMA RequestDone ==
  ASSUME IndInv
  PROVE  EarlyStopLosesNothing
<1>1. ASSUME phase = "done", mode = "request", NEW r \in Requests, StampedOnce(CapturedFor(r))
      PROVE  /\ Cardinality(DistinctPackets(Stored(r))) = Cardinality(Fingerprints(Stored(r)))
             /\ Cardinality(DistinctPackets(CapturedFor(r)))
                  = Cardinality(Fingerprints(CapturedFor(r)))
  <2>1. Stored(r) \subseteq CapturedFor(r) /\ IsFiniteSet(CapturedFor(r))
    BY <1>1, StoredWasCaptured, ReadWasCaptured
  <2>2. IsFiniteSet(Stored(r)) /\ StampedOnce(Stored(r))
    BY <1>1, <2>1, FS_Subset DEF StampedOnce
  <2> QED BY <1>1, <2>1, <2>2, PacketsAreFingerprints
<1> QED BY <1>1, FingerprintsDone DEF EarlyStopLosesNothing

\* Stopping early and skipping duplicates loses no fingerprint, and no packet
\* where none was captured under two time stamps.
THEOREM RequestSamples == Spec => []EarlyStopLosesNothing
<1>1. IndInv => EarlyStopLosesNothing
  BY RequestDone
<1> QED BY <1>1, Invariant, PTL

\* At least a fifth of the samples are elephants, at least a tenth of them
\* after a merge, and the merge makes no elephant of a mouse.
THEOREM ElephantShares == Spec => []ElephantShare
<1>1. IndInv => ElephantShare
  BY Shares DEF IndInv
<1> QED BY <1>1, Invariant, PTL
=============================================================================
