------------------------- MODULE Univ1Builder_proofs -------------------------
(***************************************************************************)
(* Proofs about Univ1Builder, for every trace, number of connections,      *)
(* files, packet lengths and packet count, every list of quantiles from 0  *)
(* to 1, and any number of relabellings.                                   *)
(*                                                                         *)
(* First percentiles of any finite family of sizes; then the packets of a  *)
(* direction, counted by their positions in the trace, and what one packet *)
(* more does to them; then a lemma for each step.                          *)
(***************************************************************************)
EXTENDS Univ1Builder, FiniteSetTheorems, SequenceTheorems, WellFoundedInduction, TLAPS

-----------------------------------------------------------------------------
(* Finite sets. *)

\* A nonempty set of natural numbers has a least element.
LEMMA LeastExists ==
  ASSUME NEW V \in SUBSET Nat, V # {}
  PROVE  \E least \in V : \A v \in V : least <= v
<1>1. IsWellFoundedOn(OpToRel(<, Nat), Nat)
  BY NatLessThanWellFounded
<1>2. PICK least \in V : \A v \in V : ~ (<<v, least>> \in OpToRel(<, Nat))
  BY <1>1, WFMin
<1>3. \A v \in V : ~ (v < least)
  BY <1>2 DEF OpToRel
<1> QED BY <1>3

\* One of finitely many elements has the largest size.
LEMMA LargestExists ==
  ASSUME NEW S, IsFiniteSet(S), S # {}, NEW size \in [S -> Nat]
  PROVE  \E most \in S : \A x \in S : size[x] <= size[most]
<1> DEFINE above(x) == {y \in S : size[y] > size[x]}
           V == {Cardinality(above(x)) : x \in S}
<1>1. \A x \in S : IsFiniteSet(above(x)) /\ Cardinality(above(x)) \in Nat
  BY FS_Subset, FS_CardinalityType
<1>2. V \in SUBSET Nat /\ V # {}
  BY <1>1
<1>3. PICK least \in V : \A v \in V : least <= v
  BY <1>2, LeastExists
<1>4. PICK most \in S : least = Cardinality(above(most))
  OBVIOUS
<1>5. SUFFICES ASSUME NEW x \in S, size[x] > size[most] PROVE FALSE
  OBVIOUS
<1>6. above(x) \in SUBSET above(most) /\ x \in above(most) /\ x \notin above(x)
  BY <1>5
<1>7. above(x) # above(most)
  BY <1>6
<1>8. Cardinality(above(x)) <= Cardinality(above(most))
      /\ Cardinality(above(x)) # Cardinality(above(most))
  BY <1>1, <1>6, <1>7, FS_Subset
<1>9. Cardinality(above(most)) <= Cardinality(above(x))
  BY <1>3, <1>4
<1>10. Cardinality(above(x)) \in Nat /\ Cardinality(above(most)) \in Nat
  BY <1>1
<1> HIDE DEF above
<1> QED BY <1>8, <1>9, <1>10

\* Min and Max of the community modules.
LEMMA MinFacts ==
  ASSUME NEW V \in SUBSET Nat, V # {}
  PROVE  Min(V) \in V /\ \A v \in V : Min(V) <= v
BY LeastExists DEF Min

\* A nonempty finite set of them has a largest one.
LEMMA MaxFacts ==
  ASSUME NEW V \in SUBSET Nat, V # {}, IsFiniteSet(V)
  PROVE  Max(V) \in V /\ \A v \in V : Max(V) >= v
<1> DEFINE size == [v \in V |-> v]
<1>1. size \in [V -> Nat]
  OBVIOUS
<1>2. PICK most \in V : \A v \in V : size[v] <= size[most]
  BY <1>1, LargestExists
<1>3. \A v \in V : most >= v
  BY <1>2
<1> QED BY <1>3 DEF Max

\* The smaller and the larger of two numbers.
LEMMA OfTwo ==
  ASSUME NEW a \in Nat, NEW b \in Nat
  PROVE  /\ Min({a, b}) = IF a < b THEN a ELSE b
         /\ Max({a, b}) = IF a < b THEN b ELSE a
<1>1. Min({a, b}) \in {a, b} /\ \A v \in {a, b} : Min({a, b}) <= v
  BY MinFacts
<1>2. IsFiniteSet({a, b})
  <2>1. IsFiniteSet({a} \cup {b})
    BY FS_Singleton, FS_Union
  <2>2. {a, b} = {a} \cup {b}
    OBVIOUS
  <2> QED BY <2>1, <2>2
<1>3. Max({a, b}) \in {a, b} /\ \A v \in {a, b} : Max({a, b}) >= v
  BY <1>2, MaxFacts
<1> QED BY <1>1, <1>3

-----------------------------------------------------------------------------
(* Percentiles. *)

\* The members whose size is below v, and those whose size is not above it.
Smaller(sizes, v) == {i \in DOMAIN sizes : sizes[i] < v}
NotLarger(sizes, v) == {i \in DOMAIN sizes : sizes[i] <= v}

\* How many of finitely many sizes are below a value.
LEMMA Counts ==
  ASSUME NEW S, IsFiniteSet(S), NEW sizes \in [S -> Nat], NEW v
  PROVE  /\ IsFiniteSet(Smaller(sizes, v)) /\ Below(sizes, v) \in Nat
         /\ IsFiniteSet(NotLarger(sizes, v)) /\ UpTo(sizes, v) \in Nat
         /\ Below(sizes, v) = Cardinality(Smaller(sizes, v))
         /\ UpTo(sizes, v) = Cardinality(NotLarger(sizes, v))
         /\ NotLarger(sizes, v) \in SUBSET S
         /\ UpTo(sizes, v) <= Cardinality(S)
<1>1. Smaller(sizes, v) \in SUBSET S /\ NotLarger(sizes, v) \in SUBSET S
  BY DEF Smaller, NotLarger
<1>2. /\ IsFiniteSet(Smaller(sizes, v)) /\ IsFiniteSet(NotLarger(sizes, v))
      /\ Cardinality(NotLarger(sizes, v)) <= Cardinality(S)
  BY <1>1, FS_Subset
<1>3. Cardinality(Smaller(sizes, v)) \in Nat /\ Cardinality(NotLarger(sizes, v)) \in Nat
  BY <1>2, FS_CardinalityType
<1>4. /\ Below(sizes, v) = Cardinality(Smaller(sizes, v))
      /\ UpTo(sizes, v) = Cardinality(NotLarger(sizes, v))
  BY DEF Below, UpTo, Smaller, NotLarger
<1> QED BY <1>1, <1>2, <1>3, <1>4

\* Every index of a sorted list of sizes has its size.
LEMMA RankExists ==
  ASSUME NEW S, IsFiniteSet(S), NEW sizes \in [S -> Nat],
         NEW index \in Nat, index < Cardinality(S)
  PROVE  \E v \in Range(sizes) : Below(sizes, v) <= index /\ index < UpTo(sizes, v)
<1> DEFINE V == {v \in Range(sizes) : index < UpTo(sizes, v)}
<1>1. Range(sizes) \in SUBSET Nat /\ Range(sizes) = {sizes[i] : i \in S}
  BY DEF Range
<1>2. S # {}
  <2>1. Cardinality(S) # 0
    BY FS_CardinalityType
  <2> QED BY <2>1, FS_EmptySet
<1>3. V # {}
  <2>1. PICK most \in S : \A i \in S : sizes[i] <= sizes[most]
    BY <1>2, LargestExists
  <2>2. NotLarger(sizes, sizes[most]) = S
    BY <2>1 DEF NotLarger
  <2>3. UpTo(sizes, sizes[most]) = Cardinality(S)
    BY <2>2, Counts
  <2> QED BY <1>1, <2>3
<1>4. PICK v \in V : \A u \in V : v <= u
  <2>1. V \in SUBSET Nat
    BY <1>1
  <2> QED BY <2>1, <1>3, LeastExists
<1>5. v \in Nat /\ v \in Range(sizes) /\ index < UpTo(sizes, v)
  BY <1>1
<1>6. SUFFICES ASSUME index < Below(sizes, v) PROVE FALSE
  <2>1. Below(sizes, v) \in Nat
    BY Counts
  <2> QED BY <1>5, <2>1
<1> DEFINE below == Smaller(sizes, v)
           lower == [i \in below |-> sizes[i]]
<1>7. IsFiniteSet(below) /\ Below(sizes, v) = Cardinality(below)
  BY Counts
<1>8. below # {}
  BY <1>6, <1>7, FS_EmptySet
<1>9. lower \in [below -> Nat]
  BY DEF Smaller
<1>10. PICK last \in below : \A i \in below : lower[i] <= lower[last]
  BY <1>7, <1>8, <1>9, LargestExists
<1> DEFINE upTo == NotLarger(sizes, sizes[last])
<1>11. last \in S /\ sizes[last] \in Nat /\ sizes[last] < v
  BY DEF Smaller
<1>12. below \in SUBSET upTo
  BY <1>10 DEF Smaller, NotLarger
<1>13. IsFiniteSet(upTo) /\ UpTo(sizes, sizes[last]) = Cardinality(upTo)
  BY Counts
<1>14. Cardinality(below) <= Cardinality(upTo)
  BY <1>12, <1>13, FS_Subset
<1>15. Cardinality(below) \in Nat /\ Cardinality(upTo) \in Nat
  BY <1>7, <1>13, FS_CardinalityType
<1>16. index < UpTo(sizes, sizes[last])
  <2> HIDE DEF below, upTo
  <2> QED BY <1>6, <1>7, <1>13, <1>14, <1>15
<1>17. sizes[last] \in V
  BY <1>1, <1>11, <1>16
<1> QED BY <1>4, <1>5, <1>11, <1>17

\* So the size at an index is one of the sizes, in this place.
LEMMA RankFacts ==
  ASSUME NEW S, IsFiniteSet(S), NEW sizes \in [S -> Nat],
         NEW index \in Nat, index < Cardinality(S)
  PROVE  /\ Ranked(sizes, index) \in Range(sizes) /\ Ranked(sizes, index) \in Nat
         /\ Below(sizes, Ranked(sizes, index)) <= index
         /\ index < UpTo(sizes, Ranked(sizes, index))
<1>1. \E v \in Range(sizes) : Below(sizes, v) <= index /\ index < UpTo(sizes, v)
  BY RankExists
<1>2. /\ Ranked(sizes, index) \in Range(sizes)
      /\ Below(sizes, Ranked(sizes, index)) <= index
      /\ index < UpTo(sizes, Ranked(sizes, index))
  BY <1>1 DEF Ranked
<1>3. Range(sizes) \in SUBSET Nat
  BY DEF Range
<1> QED BY <1>2, <1>3

\* A higher index has no smaller size.
LEMMA RanksGrow ==
  ASSUME NEW S, IsFiniteSet(S), NEW sizes \in [S -> Nat],
         NEW i \in Nat, NEW j \in Nat, i <= j, j < Cardinality(S)
  PROVE  Ranked(sizes, i) <= Ranked(sizes, j)
<1> DEFINE low == Ranked(sizes, i)
           high == Ranked(sizes, j)
<1>1. i < Cardinality(S)
  BY FS_CardinalityType
<1>2. low \in Nat /\ Below(sizes, low) <= i
  BY <1>1, RankFacts
<1>3. high \in Nat /\ j < UpTo(sizes, high)
  BY RankFacts
<1> HIDE DEF low, high
<1>4. SUFFICES ASSUME high < low PROVE FALSE
  BY <1>2, <1>3 DEF low, high
<1>5. NotLarger(sizes, high) \in SUBSET Smaller(sizes, low)
  BY <1>2, <1>3, <1>4 DEF NotLarger, Smaller
<1>6. /\ IsFiniteSet(Smaller(sizes, low))
      /\ UpTo(sizes, high) = Cardinality(NotLarger(sizes, high))
      /\ Below(sizes, low) = Cardinality(Smaller(sizes, low))
      /\ UpTo(sizes, high) \in Nat /\ Below(sizes, low) \in Nat
  BY Counts
<1>7. UpTo(sizes, high) <= Below(sizes, low)
  BY <1>5, <1>6, FS_Subset
<1> QED BY <1>2, <1>3, <1>6, <1>7

\* The index that percentile() computes.
LEMMA IndexFacts ==
  ASSUME NEW n \in Nat, n > 0, NEW q \in 0 .. One
  PROVE  /\ Index(n, q) \in Nat
         /\ Index(n, q) < n
         /\ One * Index(n, q) <= (n - 1) * q
         /\ (n - 1) * q < One * Index(n, q) + One
<1> DEFINE product == (n - 1) * q
<1>1. product \in Nat /\ product <= One * (n - 1)
  BY DEF One
<1> HIDE DEF product
<1>2. /\ product \div One \in Nat
      /\ One * (product \div One) <= product
      /\ product < One * (product \div One) + One
  BY <1>1 DEF One
<1>3. product \div One < n
  BY <1>1, <1>2 DEF One
<1> QED BY <1>2, <1>3 DEF product, Index

\* It grows with q, and is the last one for quantile 1.
LEMMA IndexGrows ==
  ASSUME NEW n \in Nat, n > 0, NEW p \in 0 .. One, NEW q \in 0 .. One
  PROVE  /\ p <= q => Index(n, p) <= Index(n, q)
         /\ q = One => Index(n, q) = n - 1
<1> DEFINE m == n - 1
<1>1. m \in Nat
  OBVIOUS
<1> HIDE DEF m
<1>2. ASSUME p <= q PROVE (m * p) \div One <= (m * q) \div One
  <2>1. m * p \in Nat /\ m * q \in Nat /\ m * p <= m * q
    BY <1>1, <1>2 DEF One
  <2> QED BY <2>1 DEF One
<1>3. (m * One) \div One = m
  BY <1>1 DEF One
<1> QED BY <1>2, <1>3 DEF Index, m

\* percentile() of sizes that are there.
LEMMA PercentileFacts ==
  ASSUME NEW S, IsFiniteSet(S), S # {}, NEW sizes \in [S -> Nat], NEW q \in 0 .. One
  PROVE  /\ Percentile(sizes, q) = Ranked(sizes, Index(Cardinality(S), q))
         /\ Percentile(sizes, q) \in Range(sizes) /\ Percentile(sizes, q) \in Nat
         /\ Below(sizes, Percentile(sizes, q)) <= Index(Cardinality(S), q)
         /\ Index(Cardinality(S), q) < UpTo(sizes, Percentile(sizes, q))
<1> DEFINE n == Cardinality(S)
<1>1. n \in Nat /\ n > 0
  BY FS_CardinalityType, FS_EmptySet
<1>2. Percentile(sizes, q) = Ranked(sizes, Index(n, q))
  BY <1>1 DEF Percentile
<1>3. Index(n, q) \in Nat /\ Index(n, q) < n
  <2> HIDE DEF n
  <2> QED BY <1>1, IndexFacts
<1> QED BY <1>2, <1>3, RankFacts

\* A percentile is a number, 0 when there is no size, and grows with q.
LEMMA PercentileType ==
  ASSUME NEW S, IsFiniteSet(S), NEW sizes \in [S -> Nat], NEW q \in 0 .. One
  PROVE  Percentile(sizes, q) \in Nat /\ (S = {} => Percentile(sizes, q) = 0)
<1>1. CASE S = {}
  BY <1>1, FS_EmptySet DEF Percentile
<1>2. CASE S # {}
  BY <1>2, PercentileFacts
<1> QED BY <1>1, <1>2

\* A higher quantile has no smaller percentile.
LEMMA PercentilesGrow ==
  ASSUME NEW S, IsFiniteSet(S), NEW sizes \in [S -> Nat],
         NEW p \in 0 .. One, NEW q \in 0 .. One, p <= q
  PROVE  Percentile(sizes, p) <= Percentile(sizes, q)
<1> DEFINE n == Cardinality(S)
<1>1. CASE S = {}
  <2>1. Percentile(sizes, p) = 0 /\ Percentile(sizes, q) = 0
    BY <1>1, FS_EmptySet DEF Percentile
  <2> QED BY <2>1
<1>2. CASE S # {}
  <2>1. n \in Nat /\ n > 0
    BY <1>2, FS_CardinalityType, FS_EmptySet
  <2>2. Index(n, p) \in Nat /\ Index(n, q) \in Nat /\ Index(n, q) < n
    <3> HIDE DEF n
    <3> QED BY <2>1, IndexFacts
  <2>3. Index(n, p) <= Index(n, q)
    <3> HIDE DEF n
    <3> QED BY <2>1, IndexGrows
  <2>4. Percentile(sizes, p) = Ranked(sizes, Index(n, p))
    BY <1>2, PercentileFacts
  <2>5. Percentile(sizes, q) = Ranked(sizes, Index(n, q))
    BY <1>2, PercentileFacts
  <2> QED BY <2>2, <2>3, <2>4, <2>5, RanksGrow
<1> QED BY <1>1, <1>2

\* Quantile 1 is the largest size.
LEMMA LargestPercentile ==
  ASSUME NEW S, IsFiniteSet(S), S # {}, NEW sizes \in [S -> Nat], NEW q \in 0 .. One, q = One
  PROVE  Percentile(sizes, q) = Max(Range(sizes))
<1> DEFINE n == Cardinality(S)
           value == Percentile(sizes, q)
           upTo == NotLarger(sizes, value)
<1>1. n \in Nat /\ n > 0
  BY FS_CardinalityType, FS_EmptySet
<1>2. value \in Range(sizes) /\ value \in Nat /\ Index(n, q) < UpTo(sizes, value)
  BY PercentileFacts
<1>3. UpTo(sizes, value) \in Nat /\ UpTo(sizes, value) <= n /\ UpTo(sizes, value) = Cardinality(upTo)
      /\ upTo \in SUBSET S
  BY Counts
<1>4. Index(n, q) = n - 1
  <2> HIDE DEF n
  <2> QED BY <1>1, IndexGrows
<1>5. UpTo(sizes, value) = n
  <2> HIDE DEF value, n
  <2> QED BY <1>1, <1>2, <1>3, <1>4
<1>6. upTo = S
  <2>1. upTo \in SUBSET S /\ Cardinality(upTo) = Cardinality(S)
    BY <1>3, <1>5
  <2> QED BY <2>1, FS_Subset
<1>7. \A v \in Range(sizes) : value >= v
  BY <1>2, <1>6 DEF Range, NotLarger
<1>8. Range(sizes) \in SUBSET Nat /\ Range(sizes) # {}
  BY DEF Range
<1>9. IsFiniteSet(Range(sizes))
  <2>1. sizes \in Surjection(S, Range(sizes))
    BY DEF Surjection, Range
  <2> QED BY <2>1, FS_Surjection
<1>10. Max(Range(sizes)) \in Range(sizes) /\ \A v \in Range(sizes) : Max(Range(sizes)) >= v
  BY <1>8, <1>9, MaxFacts
<1>11. Max(Range(sizes)) \in Nat
  BY <1>8, <1>10
<1> QED BY <1>2, <1>7, <1>10, <1>11

-----------------------------------------------------------------------------
(* The packets of a direction. *)

\* The trace with its next packet.
Grows(pkt) ==
  /\ trace \in Seq(Packet) /\ pkt \in Packet /\ pkt.ts = Len(trace) + 1
  /\ trace' = Append(trace, pkt)

\* The earlier packets keep their positions.
LEMMA GrownTrace ==
  ASSUME NEW pkt, Grows(pkt)
  PROVE  /\ Len(trace) \in Nat /\ DOMAIN trace = 1 .. Len(trace)
         /\ trace' \in Seq(Packet) /\ Len(trace') = Len(trace) + 1
         /\ DOMAIN trace' = 1 .. Len(trace) + 1
         /\ \A p \in DOMAIN trace : trace'[p] = trace[p] /\ trace[p] \in Packet
         /\ trace'[Len(trace) + 1] = pkt
BY DEF Grows

\* A packet is one of its own end, connection and file, if it has payload.
LEMMA OwnNext ==
  ASSUME NEW pkt, Grows(pkt), NEW file, NEW conn, NEW end
  PROVE  Own(file, conn, end)' =
           IF pkt.file = file /\ pkt.conn = conn /\ pkt.from = end /\ pkt.len > 0
             THEN Own(file, conn, end) \cup {Len(trace) + 1}
             ELSE Own(file, conn, end)
BY GrownTrace DEF Own

\* Positions of the trace are finitely many numbers from 1.
LEMMA PositionFacts ==
  ASSUME trace \in Seq(Packet), NEW own \in SUBSET DOMAIN trace
  PROVE  /\ own \in SUBSET Nat /\ IsFiniteSet(own) /\ Cardinality(own) \in Nat
         /\ (own = {} <=> Cardinality(own) = 0)
         /\ own # {} => /\ Min(own) \in own /\ Max(own) \in own
                        /\ Min(own) \in 1 .. Len(trace) /\ Max(own) \in 1 .. Len(trace)
                        /\ \A p \in own : Min(own) <= p /\ p <= Max(own)
<1>1. Len(trace) \in Nat /\ DOMAIN trace = 1 .. Len(trace)
  OBVIOUS
<1>2. IsFiniteSet(1 .. Len(trace))
  BY <1>1, FS_Interval
<1>3. own \in SUBSET Nat /\ IsFiniteSet(own)
  BY <1>1, <1>2, FS_Subset
<1>4. Cardinality(own) \in Nat /\ (own = {} <=> Cardinality(own) = 0)
  BY <1>3, FS_CardinalityType, FS_EmptySet
<1>5. ASSUME own # {}
      PROVE  /\ Min(own) \in own /\ Max(own) \in own
             /\ \A p \in own : Min(own) <= p /\ p <= Max(own)
  <2>1. Min(own) \in own /\ \A p \in own : Min(own) <= p
    BY <1>3, <1>5, MinFacts
  <2>2. Max(own) \in own /\ \A p \in own : Max(own) >= p
    BY <1>3, <1>5, MaxFacts
  <2>3. \A p \in own : p \in Nat
    BY <1>3
  <2> QED BY <2>1, <2>2, <2>3
<1> QED BY <1>1, <1>3, <1>4, <1>5

\* The bytes of a packet.
Block(p) == {p} \X (1 .. trace[p].len)

\* A block has as many elements as the packet has bytes.
LEMMA BlockSize ==
  ASSUME NEW x, NEW m \in Nat
  PROVE  IsFiniteSet({x} \X (1 .. m)) /\ Cardinality({x} \X (1 .. m)) = m
<1>1. IsFiniteSet(1 .. m) /\ Cardinality(1 .. m) = m
  BY FS_Interval
<1>2. IsFiniteSet({x}) /\ Cardinality({x}) = 1
  BY FS_Singleton
<1>3. IsFiniteSet({x} \X (1 .. m)) /\ Cardinality({x} \X (1 .. m)) = 1 * m
  BY <1>1, <1>2, FS_Product, ZenonT(30)
<1> QED BY <1>3

\* Finitely many packets have finitely many bytes.
LEMMA TotalType ==
  ASSUME trace \in Seq(Packet), NEW own \in SUBSET DOMAIN trace
  PROVE  /\ IsFiniteSet(UNION {Block(p) : p \in own}) /\ Total(own) \in Nat
         /\ Total(own) = Cardinality(UNION {Block(p) : p \in own})
<1> DEFINE pieces == {Block(p) : p \in own}
           piece == [p \in own |-> Block(p)]
<1>1. piece \in Surjection(own, pieces)
  BY DEF Surjection
<1>2. IsFiniteSet(pieces)
  BY <1>1, PositionFacts, FS_Surjection
<1>3. ASSUME NEW p \in own
      PROVE  IsFiniteSet(Block(p))
  <2>1. trace[p] \in Packet
    OBVIOUS
  <2>2. trace[p].len \in Nat
    BY <2>1 DEF Packet
  <2> QED BY <2>2, BlockSize DEF Block
<1>4. \A T \in pieces : IsFiniteSet(T)
  BY <1>3
<1> HIDE DEF pieces
<1>5. IsFiniteSet(UNION pieces) /\ Cardinality(UNION pieces) \in Nat
  BY <1>2, <1>4, FS_UNION, FS_CardinalityType
<1>6. Total(own) = Cardinality(UNION pieces)
  BY DEF Total, Block, pieces
<1> QED BY <1>5, <1>6 DEF pieces

\* Bytes are there when there are packets with payload.
LEMMA NoTotal ==
  ASSUME trace \in Seq(Packet), NEW own \in SUBSET DOMAIN trace,
         \A p \in own : trace[p].len > 0
  PROVE  own = {} <=> Total(own) = 0
<1> DEFINE bytes == UNION {Block(p) : p \in own}
<1>1. own = {} <=> bytes = {}
  <2>1. ASSUME NEW p \in own PROVE bytes # {}
    <3>1. trace[p] \in Packet
      OBVIOUS
    <3>2. trace[p].len \in Nat /\ trace[p].len > 0
      BY <3>1 DEF Packet
    <3>3. <<p, 1>> \in Block(p)
      BY <3>2 DEF Block
    <3> QED BY <3>3
  <2> QED BY <2>1
<1>2. IsFiniteSet(bytes) /\ Total(own) = Cardinality(bytes)
  BY TotalType
<1> HIDE DEF bytes
<1> QED BY <1>1, <1>2, FS_EmptySet

\* The next packet leaves the bytes of others, and adds its own.
LEMMA GrownTotal ==
  ASSUME NEW pkt, Grows(pkt), NEW own \in SUBSET DOMAIN trace, NEW n, n = Len(trace) + 1
  PROVE  /\ Total(own)' = Total(own)
         /\ Total(own \cup {n})' = Total(own) + pkt.len
<1> DEFINE before == UNION {Block(p) : p \in own}
           new == {n} \X (1 .. pkt.len)
<1>1. /\ trace \in Seq(Packet) /\ n \in Nat /\ n \notin own
      /\ trace'[n] = pkt /\ \A p \in own : trace'[p] = trace[p]
  BY GrownTrace DEF Grows
<1>2. \A p \in own : Block(p)' = Block(p)
  BY <1>1 DEF Block
<1>3. Total(own)' = Total(own)
  <2>1. UNION {{p} \X (1 .. trace'[p].len) : p \in own} = UNION {{p} \X (1 .. trace[p].len) : p \in own}
    BY <1>1
  <2> QED BY <2>1 DEF Total
<1>4. IsFiniteSet(before) /\ Total(own) = Cardinality(before) /\ Total(own) \in Nat
  BY <1>1, TotalType
<1>5. pkt.len \in Nat
  BY DEF Grows, Packet
<1>6. IsFiniteSet(new) /\ Cardinality(new) = pkt.len
  BY <1>5, BlockSize
<1>7. before \cap new = {}
  BY <1>1 DEF Block
<1>8. UNION {{p} \X (1 .. trace'[p].len) : p \in own \cup {n}} = before \cup new
  <2>1. \A p \in own : {p} \X (1 .. trace'[p].len) = Block(p)
    BY <1>1 DEF Block
  <2>2. {n} \X (1 .. trace'[n].len) = new
    BY <1>1
  <2> HIDE DEF new
  <2> QED BY <2>1, <2>2
<1>9. Total(own \cup {n})' = Cardinality(before \cup new)
  BY <1>8 DEF Total
<1>10. Cardinality(before \cup new) = Cardinality(before) + Cardinality(new) - 0
  <2> HIDE DEF before, new
  <2> QED BY <1>4, <1>6, <1>7, FS_Union, FS_EmptySet
<1>11. Total(own \cup {n})' = Total(own) + pkt.len
  <2> HIDE DEF before, new
  <2> QED BY <1>4, <1>5, <1>6, <1>9, <1>10
<1> QED BY <1>3, <1>11

\* What a direction gathered stays when a packet of another comes.
LEMMA SameGathered ==
  ASSUME NEW pkt, Grows(pkt), NEW own \in SUBSET DOMAIN trace, NEW dir, Gathered(dir, own)
  PROVE  Gathered(dir, own)'
<1>1. /\ trace \in Seq(Packet) /\ own \in SUBSET Nat
      /\ \A p \in own : trace'[p] = trace[p]
  BY GrownTrace, PositionFacts DEF Grows
<1>2. Total(own)' = Total(own)
  BY GrownTotal
<1>3. ASSUME NEW p \in own
      PROVE  Feature(own, p)' = Feature(own, p)
  <2>1. {q \in own : q < p} \cup {p} \in SUBSET DOMAIN trace
    OBVIOUS
  <2>2. PICK upTo \in SUBSET DOMAIN trace : upTo = {q \in own : q < p} \cup {p}
    BY <2>1
  <2>3. Total(upTo)' = Total(upTo)
    BY <2>2, GrownTotal
  <2>4. Total({q \in own : q < p} \cup {p})' = Total({q \in own : q < p} \cup {p})
    BY <2>2, <2>3
  <2> QED BY <1>1, <2>4 DEF Feature
<1> QED BY <1>2, <1>3 DEF Gathered, Place

\* The types of what is gathered.
LEMMA GatheredTypes ==
  ASSUME trace \in Seq(Packet), NEW own \in SUBSET DOMAIN trace,
         NEW dir \in DirectionState, Gathered(dir, own)
  PROVE  /\ dir.first \in Nat /\ dir.prev \in Nat /\ dir.bytes \in Nat
         /\ dir.packets \in Nat /\ dir.features \in Seq(FeatureRow)
         /\ dir.first <= Len(trace) /\ dir.prev <= Len(trace)
         /\ (dir.first = 0 <=> own = {}) /\ (dir.prev = 0 <=> own = {})
         /\ dir = [packets |-> dir.packets, bytes |-> dir.bytes, first |-> dir.first,
                   prev |-> dir.prev, features |-> dir.features]
<1>1. /\ dir.first \in Nat /\ dir.prev \in Nat /\ dir.bytes \in Nat
      /\ dir.packets \in Nat /\ dir.features \in Seq(FeatureRow)
      /\ dir = [packets |-> dir.packets, bytes |-> dir.bytes, first |-> dir.first,
                prev |-> dir.prev, features |-> dir.features]
  BY DEF DirectionState
<1>2. /\ dir.first = IF own = {} THEN 0 ELSE Min(own)
      /\ dir.prev = IF own = {} THEN 0 ELSE Max(own)
  BY DEF Gathered
<1>3. own # {} => Min(own) \in 1 .. Len(trace) /\ Max(own) \in 1 .. Len(trace)
  BY PositionFacts
<1>4. Len(trace) \in Nat
  OBVIOUS
<1> QED BY <1>1, <1>2, <1>3, <1>4

\* The row that add_packet_to_direction makes of a packet with payload.
NextRow(dir, pkt) ==
  [len |-> pkt.len, iat |-> IF dir.prev = 0 THEN 0 ELSE pkt.ts - dir.prev,
   elapsed |-> pkt.ts - (IF dir.first = 0 THEN pkt.ts ELSE dir.first),
   cum |-> dir.bytes + pkt.len]

\* Such a row is one of natural numbers: a packet comes after the last one.
LEMMA NextRowType ==
  ASSUME NEW pkt, Grows(pkt), NEW own \in SUBSET DOMAIN trace,
         NEW dir \in DirectionState, Gathered(dir, own)
  PROVE  NextRow(dir, pkt) \in FeatureRow
<1>1. pkt.len \in Nat /\ pkt.ts \in Nat /\ pkt.ts = Len(trace) + 1 /\ Len(trace) \in Nat
  BY DEF Grows, Packet
<1>2. /\ dir.first \in Nat /\ dir.prev \in Nat /\ dir.bytes \in Nat
      /\ dir.first <= Len(trace) /\ dir.prev <= Len(trace)
  BY GatheredTypes DEF Grows
<1>3. pkt.ts - dir.first \in Nat /\ pkt.ts - dir.prev \in Nat /\ pkt.ts - pkt.ts \in Nat
  BY <1>1, <1>2
<1> QED BY <1>1, <1>2, <1>3 DEF NextRow, FeatureRow

\* add_packet_to_direction, field by field.
LEMMA AddedFields ==
  ASSUME NEW pkt, Grows(pkt), pkt.len > 0, NEW own \in SUBSET DOMAIN trace,
         NEW dir \in DirectionState, Gathered(dir, own),
         NEW new, new = AddPacketToDirection(dir, pkt)
  PROVE  /\ new \in DirectionState
         /\ new.bytes = dir.bytes + pkt.len
         /\ new.first = IF dir.first = 0 THEN pkt.ts ELSE dir.first
         /\ new.prev = pkt.ts
         /\ new.features = IF Len(dir.features) >= PacketCount THEN dir.features
                           ELSE Append(dir.features, NextRow(dir, pkt))
<1>1. pkt.len \in Nat /\ pkt.len # 0 /\ pkt.ts \in Nat
  BY DEF Grows, Packet
<1>2. new = [packets |-> dir.packets + 1, bytes |-> dir.bytes + pkt.len,
             first |-> IF dir.first = 0 THEN pkt.ts ELSE dir.first, prev |-> pkt.ts,
             features |-> IF Len(dir.features) >= PacketCount THEN dir.features
                          ELSE Append(dir.features, NextRow(dir, pkt))]
  BY <1>1 DEF AddPacketToDirection, NextRow
<1>3. /\ dir.first \in Nat /\ dir.prev \in Nat /\ dir.bytes \in Nat
      /\ dir.packets \in Nat /\ dir.features \in Seq(FeatureRow)
  BY GatheredTypes DEF Grows
<1>4. NextRow(dir, pkt) \in FeatureRow
  BY NextRowType
<1>5. Append(dir.features, NextRow(dir, pkt)) \in Seq(FeatureRow)
  BY <1>3, <1>4
<1> QED BY <1>1, <1>2, <1>3, <1>5 DEF DirectionState

\* The smallest and largest position with the next one.
LEMMA GrownEnds ==
  ASSUME trace \in Seq(Packet), NEW own \in SUBSET DOMAIN trace, NEW n, n = Len(trace) + 1
  PROVE  /\ Max(own \cup {n}) = n
         /\ Min(own \cup {n}) = IF own = {} THEN n ELSE Min(own)
<1> DEFINE more == own \cup {n}
<1>1. n \in Nat /\ \A p \in own : p \in Nat /\ p < n
  OBVIOUS
<1>2. IsFiniteSet(own) /\ own \in SUBSET Nat
  BY PositionFacts
<1>3. more \in SUBSET Nat /\ more # {} /\ IsFiniteSet(more)
  BY <1>1, <1>2, FS_AddElement
<1>4. Max(more) \in more /\ \A p \in more : Max(more) >= p
  BY <1>3, MaxFacts
<1>5. Min(more) \in more /\ \A p \in more : Min(more) <= p
  BY <1>3, MinFacts
<1>6. Max(more) = n
  <2>1. Max(more) >= n
    BY <1>4
  <2>2. Max(more) = n \/ Max(more) \in own
    BY <1>4
  <2> HIDE DEF more
  <2> QED BY <1>1, <2>1, <2>2
<1>7. CASE own = {}
  <2>1. Min(more) = n
    BY <1>5, <1>7
  <2> QED BY <1>6, <1>7, <2>1
<1>8. CASE own # {}
  <2>1. Min(own) \in own /\ \A p \in own : Min(own) <= p
    BY <1>2, <1>8, MinFacts
  <2>2. Min(more) <= Min(own)
    BY <1>5, <2>1
  <2>3. Min(more) \in own
    <3>1. Min(more) = n \/ Min(more) \in own
      BY <1>5
    <3>2. Min(more) # n
      <4> HIDE DEF more
      <4> QED BY <1>1, <2>1, <2>2
    <3> QED BY <3>1, <3>2
  <2>4. Min(own) <= Min(more) /\ Min(own) \in Nat /\ Min(more) \in Nat
    BY <1>1, <2>1, <2>3
  <2>5. Min(more) = Min(own)
    <3> HIDE DEF more
    <3> QED BY <2>2, <2>4
  <2> QED BY <1>6, <1>8, <2>5
<1> QED BY <1>7, <1>8

\* The feature rows of the earlier packets stay, the next one's is the new row.
LEMMA GrownFeatures ==
  ASSUME NEW pkt, Grows(pkt), NEW own \in SUBSET DOMAIN trace,
         NEW dir \in DirectionState, Gathered(dir, own), NEW n, n = Len(trace) + 1
  PROVE  /\ \A p \in own : Feature(own \cup {n}, p)' = Feature(own, p)
         /\ Feature(own \cup {n}, n)' = NextRow(dir, pkt)
<1> DEFINE more == own \cup {n}
<1>1. /\ trace \in Seq(Packet) /\ n \in Nat /\ n \notin own /\ pkt.ts = n
      /\ \A p \in own : trace'[p] = trace[p] /\ p \in Nat /\ p < n
      /\ trace'[n] = pkt
  BY GrownTrace DEF Grows
<1>2. /\ Max(more) = n
      /\ Min(more) = IF own = {} THEN n ELSE Min(own)
  BY <1>1, GrownEnds
<1>3. ASSUME NEW p \in own
      PROVE  Feature(more, p)' = Feature(own, p)
  <2>1. {q \in more : q < p} = {q \in own : q < p}
    BY <1>1
  <2>2. PICK upTo \in SUBSET DOMAIN trace : upTo = {q \in own : q < p} \cup {p}
    OBVIOUS
  <2>3. Total(upTo)' = Total(upTo)
    BY <2>2, GrownTotal
  <2>4. Total({q \in more : q < p} \cup {p})' = Total({q \in own : q < p} \cup {p})
    BY <2>1, <2>2, <2>3
  <2>5. trace'[p].len = trace[p].len /\ Min(more) = Min(own)
    BY <1>1, <1>2
  <2> HIDE DEF more
  <2> QED BY <2>1, <2>4, <2>5 DEF Feature
<1>4. Feature(more, n)' = NextRow(dir, pkt)
  <2>1. {q \in more : q < n} = own
    BY <1>1
  <2>2. Total(more)' = Total(own) + pkt.len
    BY GrownTotal
  <2>3. /\ dir.bytes = Total(own)
        /\ dir.first = IF own = {} THEN 0 ELSE Min(own)
        /\ dir.prev = IF own = {} THEN 0 ELSE Max(own)
        /\ (dir.first = 0 <=> own = {}) /\ (dir.prev = 0 <=> own = {})
    BY <1>1, GatheredTypes DEF Gathered
  <2>4. Feature(more, n)' = [len |-> pkt.len, iat |-> IF own = {} THEN 0 ELSE n - Max(own),
                             elapsed |-> n - Min(more), cum |-> Total(more)']
    BY <1>1, <2>1 DEF Feature
  <2>5. NextRow(dir, pkt) = [len |-> pkt.len, iat |-> IF own = {} THEN 0 ELSE n - Max(own),
                             elapsed |-> n - Min(more), cum |-> Total(own) + pkt.len]
    <3> HIDE DEF more
    <3> QED BY <1>1, <1>2, <2>3 DEF NextRow
  <2> QED BY <2>2, <2>4, <2>5
<1> QED BY <1>3, <1>4

\* add_packet_to_direction gathers the next packet.
LEMMA AddGathered ==
  ASSUME NEW pkt, Grows(pkt), pkt.len > 0, NEW own \in SUBSET DOMAIN trace,
         NEW dir \in DirectionState, Gathered(dir, own), NEW n, n = Len(trace) + 1,
         NEW new, new = AddPacketToDirection(dir, pkt)
  PROVE  Gathered(new, own \cup {n})' /\ new \in DirectionState
<1> DEFINE more == own \cup {n}
           count == Cardinality(own)
           row == NextRow(dir, pkt)
<1>1. /\ trace \in Seq(Packet) /\ n \in Nat /\ n \notin own /\ pkt.ts = n
      /\ \A p \in own : p \in Nat /\ p < n
  BY GrownTrace DEF Grows
<1>2. /\ new \in DirectionState
      /\ new.bytes = dir.bytes + pkt.len
      /\ new.first = IF dir.first = 0 THEN n ELSE dir.first
      /\ new.prev = n
      /\ new.features = IF Len(dir.features) >= PacketCount THEN dir.features
                        ELSE Append(dir.features, row)
  BY <1>1, AddedFields
<1>3. /\ dir.first \in Nat /\ (dir.first = 0 <=> own = {})
      /\ dir.features \in Seq(FeatureRow) /\ row \in FeatureRow
  BY <1>1, GatheredTypes, NextRowType
<1>4. /\ dir.bytes = Total(own)
      /\ dir.first = IF own = {} THEN 0 ELSE Min(own)
      /\ Len(dir.features) = Min({PacketCount, count})
      /\ \A p \in own : Place(own, p) <= PacketCount
           => dir.features[Place(own, p)] = Feature(own, p)
  BY DEF Gathered
<1>5. IsFiniteSet(own) /\ count \in Nat /\ Cardinality(more) = count + 1
  BY <1>1, PositionFacts, FS_AddElement
<1>6. PacketCount \in Nat /\ PacketCount > 0
  BY SizesAssumption
<1>7. Len(dir.features) = IF PacketCount < count THEN PacketCount ELSE count
  BY <1>4, <1>5, <1>6, OfTwo
<1>8. Min({PacketCount, Cardinality(more)})
        = IF PacketCount < count + 1 THEN PacketCount ELSE count + 1
  <2>1. Cardinality(more) \in Nat
    BY <1>5
  <2>2. Min({PacketCount, Cardinality(more)})
          = IF PacketCount < Cardinality(more) THEN PacketCount ELSE Cardinality(more)
    <3> HIDE DEF more
    <3> QED BY <1>6, <2>1, OfTwo
  <2> QED BY <1>5, <2>2
<1>9. Len(new.features) = Min({PacketCount, Cardinality(more)})
  <2> HIDE DEF more, count, row
  <2> QED BY <1>2, <1>3, <1>5, <1>6, <1>7, <1>8
<1>10. new.bytes = Total(more)'
  BY <1>2, <1>4, GrownTotal
<1>11. new.first = (IF more = {} THEN 0 ELSE Min(more)) /\ new.prev = (IF more = {} THEN 0 ELSE Max(more))
  BY <1>1, <1>2, <1>3, <1>4, GrownEnds
<1>12. /\ \A p \in own : Feature(more, p)' = Feature(own, p)
       /\ Feature(more, n)' = row
  BY GrownFeatures
<1>13. ASSUME NEW p \in more, Place(more, p) <= PacketCount
       PROVE  new.features[Place(more, p)] = Feature(more, p)'
  <2>1. CASE p = n
    <3>1. {q \in more : q <= p} = more
      BY <1>1, <2>1
    <3>2. Place(more, p) = count + 1
      BY <1>5, <3>1 DEF Place
    <3>3. count < PacketCount
      <4> HIDE DEF count, more
      <4> QED BY <1>5, <1>6, <1>13, <3>2
    <3>4. Len(dir.features) = count /\ new.features = Append(dir.features, row)
      <4> HIDE DEF count, row
      <4> QED BY <1>2, <1>5, <1>6, <1>7, <3>3
    <3>5. new.features[count + 1] = row
      <4> HIDE DEF row
      <4> QED BY <1>3, <3>4
    <3> QED BY <1>12, <2>1, <3>2, <3>5
  <2>2. CASE p \in own
    <3> DEFINE upTo == {q \in own : q <= p}
               place == Cardinality(upTo)
    <3>1. {q \in more : q <= p} = upTo
      BY <1>1, <2>2
    <3>2. Place(more, p) = place /\ Place(own, p) = place
      BY <3>1 DEF Place
    <3>3. dir.features[place] = Feature(own, p)
      BY <1>4, <1>13, <2>2, <3>2
    <3>4. upTo \in SUBSET own /\ p \in upTo
      BY <1>1, <2>2
    <3>5. IsFiniteSet(upTo) /\ place \in Nat /\ place <= count
      BY <1>5, <3>4, FS_Subset, FS_CardinalityType
    <3>6. place # 0
      BY <3>4, <3>5, FS_EmptySet
    <3>7. place \in 1 .. Len(dir.features)
      <4>1. place <= PacketCount
        BY <1>13, <3>2
      <4> HIDE DEF place, count
      <4> QED BY <1>5, <1>6, <1>7, <3>5, <3>6, <4>1
    <3>8. new.features[place] = dir.features[place]
      <4> HIDE DEF place, row
      <4> QED BY <1>2, <1>3, <3>7
    <3> QED BY <1>12, <2>2, <3>2, <3>3, <3>8
  <2> QED BY <2>1, <2>2
<1>14. Gathered(new, more)'
  <2> HIDE DEF more
  <2> QED BY <1>9, <1>10, <1>11, <1>13 DEF Gathered, Place
<1> QED BY <1>2, <1>14

\* A packet without payload, and nothing yet.
LEMMA EmptyPacket ==
  ASSUME NEW dir, NEW pkt, pkt.len = 0
  PROVE  AddPacketToDirection(dir, pkt) = dir
BY DEF AddPacketToDirection

\* A direction without packets.
LEMMA NothingGathered ==
  Gathered(NewDirection, {}) /\ NewDirection \in DirectionState
<1>1. NewDirection.features = <<>> /\ Len(<<>>) = 0
  BY DEF NewDirection
<1>2. PacketCount \in Nat /\ PacketCount > 0
  BY SizesAssumption
<1>3. Cardinality({}) = 0
  BY FS_EmptySet
<1>4. Min({PacketCount, Cardinality({})}) = 0
  BY <1>2, <1>3, OfTwo
<1>5. Total({}) = 0
  <2>1. UNION {Block(p) : p \in {}} = {}
    OBVIOUS
  <2> QED BY <1>3, <2>1 DEF Total, Block
<1>6. NewDirection \in DirectionState
  BY DEF NewDirection, DirectionState
<1>7. NewDirection.bytes = 0 /\ NewDirection.first = 0 /\ NewDirection.prev = 0
  BY DEF NewDirection
<1> QED BY <1>1, <1>4, <1>5, <1>6, <1>7 DEF Gathered

-----------------------------------------------------------------------------
(* Streams. *)

\* The two ends of a connection.
LEMMA Peers ==
  ASSUME NEW end \in Ends
  PROVE  Peer(end) \in Ends /\ Peer(end) # end /\ Peer(Peer(end)) = end
BY DEF Ends, Peer

\* Own packets are positions of the trace.
LEMMA OwnType ==
  ASSUME NEW file, NEW conn, NEW end
  PROVE  Own(file, conn, end) \in SUBSET DOMAIN trace
BY DEF Own

\* A packet that is not one of its own leaves what a direction gathered.
LEMMA StaysGathered ==
  ASSUME NEW pkt, Grows(pkt), NEW file, NEW conn, NEW end, NEW dir,
         Gathered(dir, Own(file, conn, end)),
         ~ (pkt.file = file /\ pkt.conn = conn /\ pkt.from = end /\ pkt.len > 0)
  PROVE  Gathered(dir, Own(file, conn, end))'
<1>1. PICK own \in SUBSET DOMAIN trace : own = Own(file, conn, end)
  BY OwnType
<1>2. Own(file, conn, end)' = own
  BY <1>1, OwnNext
<1>3. Gathered(dir, own)'
  BY <1>1, SameGathered
<1> QED BY <1>2, <1>3

\* One of its own, with or without payload, is gathered.
LEMMA AddsOwn ==
  ASSUME NEW pkt, Grows(pkt), NEW dir \in DirectionState,
         Gathered(dir, Own(pkt.file, pkt.conn, pkt.from)),
         NEW new, new = AddPacketToDirection(dir, pkt)
  PROVE  Gathered(new, Own(pkt.file, pkt.conn, pkt.from))' /\ new \in DirectionState
<1>1. PICK own \in SUBSET DOMAIN trace : own = Own(pkt.file, pkt.conn, pkt.from)
  BY OwnType
<1>2. PICK n : n = Len(trace) + 1
  OBVIOUS
<1>3. pkt.len \in Nat
  BY DEF Grows, Packet
<1>4. CASE pkt.len = 0
  <2>1. new = dir
    BY <1>4, EmptyPacket
  <2> QED BY <1>3, <1>4, <2>1, StaysGathered
<1>5. CASE pkt.len > 0
  <2>1. PICK more : more = own \cup {n}
    OBVIOUS
  <2>2. Own(pkt.file, pkt.conn, pkt.from)' = more
    BY <1>1, <1>2, <1>5, <2>1, OwnNext
  <2>3. Gathered(new, own \cup {n})' /\ new \in DirectionState
    BY <1>1, <1>2, <1>5, AddGathered
  <2>4. Gathered(new, more)'
    BY <2>1, <2>3
  <2> QED BY <2>2, <2>3, <2>4
<1> QED BY <1>3, <1>4, <1>5

\* A stream whose connection or file the packet is not of.
LEMMA OtherPacket ==
  ASSUME NEW pkt, Grows(pkt), NEW s \in StreamState, BothGathered(s),
         ~ (pkt.file = s.file /\ pkt.conn = s.conn)
  PROVE  BothGathered(s)'
BY StaysGathered DEF BothGathered

\* A stream that the packet is of.
LEMMA AddBoth ==
  ASSUME NEW pkt, Grows(pkt), NEW s \in StreamState, BothGathered(s),
         pkt.file = s.file, pkt.conn = s.conn, NEW new, new = AddToStream(s, pkt)
  PROVE  /\ BothGathered(new)' /\ new \in StreamState
         /\ new.file = s.file /\ new.conn = s.conn /\ new.src = s.src
<1> DEFINE timed == [s EXCEPT !.lastTs = pkt.ts]
           fwd == AddPacketToDirection(s.fwd, pkt)
           rev == AddPacketToDirection(s.rev, pkt)
<1>1. /\ s.file \in Nat /\ s.conn \in Connections /\ s.src \in Ends
      /\ s.firstTs \in Nat /\ s.lastTs \in Nat
      /\ s.fwd \in DirectionState /\ s.rev \in DirectionState
      /\ pkt.ts \in Nat /\ pkt.from \in Ends
  BY DEF StreamState, Grows, Packet
<1>2. timed = [file |-> s.file, conn |-> s.conn, src |-> s.src, firstTs |-> s.firstTs,
               lastTs |-> pkt.ts, fwd |-> s.fwd, rev |-> s.rev]
  BY DEF StreamState
<1>3. CASE pkt.from = s.src
  <2>1. new = [file |-> s.file, conn |-> s.conn, src |-> s.src, firstTs |-> s.firstTs,
               lastTs |-> pkt.ts, fwd |-> fwd, rev |-> s.rev]
    <3> HIDE DEF fwd, rev
    <3> QED BY <1>2, <1>3 DEF AddToStream, fwd
  <2>2. Gathered(fwd, Own(s.file, s.conn, s.src))' /\ fwd \in DirectionState
    <3>1. PICK added : added = fwd
      OBVIOUS
    <3>2. Gathered(added, Own(pkt.file, pkt.conn, pkt.from))' /\ added \in DirectionState
      <4>1. Gathered(s.fwd, Own(pkt.file, pkt.conn, pkt.from))
        BY <1>3 DEF BothGathered
      <4> QED BY <1>1, <3>1, <4>1, AddsOwn
    <3>3. Gathered(added, Own(s.file, s.conn, s.src))'
      BY <1>3, <3>2
    <3> QED BY <3>1, <3>2, <3>3
  <2>3. Gathered(s.rev, Own(s.file, s.conn, Peer(s.src)))'
    <3>1. pkt.from # Peer(s.src)
      BY <1>1, <1>3, Peers
    <3> QED BY <3>1, StaysGathered DEF BothGathered
  <2>4. new \in StreamState
    <3> HIDE DEF fwd
    <3> QED BY <1>1, <2>1, <2>2 DEF StreamState
  <2>5. /\ new.file = s.file /\ new.conn = s.conn /\ new.src = s.src
        /\ new.fwd = fwd /\ new.rev = s.rev
    <3> HIDE DEF fwd
    <3> QED BY <2>1
  <2> HIDE DEF fwd
  <2> QED BY <2>2, <2>3, <2>4, <2>5 DEF BothGathered
<1>4. CASE pkt.from # s.src
  <2>1. new = [file |-> s.file, conn |-> s.conn, src |-> s.src, firstTs |-> s.firstTs,
               lastTs |-> pkt.ts, fwd |-> s.fwd, rev |-> rev]
    <3> HIDE DEF fwd, rev
    <3> QED BY <1>2, <1>4 DEF AddToStream, rev
  <2>2. pkt.from = Peer(s.src)
    BY <1>1, <1>4 DEF Peer, Ends
  <2>3. Gathered(rev, Own(s.file, s.conn, Peer(s.src)))' /\ rev \in DirectionState
    <3>1. PICK added : added = rev
      OBVIOUS
    <3>2. Gathered(added, Own(pkt.file, pkt.conn, pkt.from))' /\ added \in DirectionState
      <4>1. Gathered(s.rev, Own(pkt.file, pkt.conn, pkt.from))
        BY <2>2 DEF BothGathered
      <4> QED BY <1>1, <3>1, <4>1, AddsOwn
    <3>3. Gathered(added, Own(s.file, s.conn, Peer(s.src)))'
      BY <2>2, <3>2
    <3> QED BY <3>1, <3>2, <3>3
  <2>4. Gathered(s.fwd, Own(s.file, s.conn, s.src))'
    BY <1>4, StaysGathered DEF BothGathered
  <2>5. new \in StreamState
    <3> HIDE DEF rev
    <3> QED BY <1>1, <2>1, <2>3 DEF StreamState
  <2>6. /\ new.file = s.file /\ new.conn = s.conn /\ new.src = s.src
        /\ new.fwd = s.fwd /\ new.rev = rev
    <3> HIDE DEF rev
    <3> QED BY <2>1
  <2> HIDE DEF rev
  <2> QED BY <2>3, <2>4, <2>5, <2>6 DEF BothGathered
<1> QED BY <1>3, <1>4

\* A stream stays one whose first packet came from src.
LEMMA StaysOpened ==
  ASSUME NEW pkt, Grows(pkt), NEW s, Opened(s),
         NEW new, new.file = s.file, new.conn = s.conn, new.src = s.src
  PROVE  Opened(new)'
<1>1. PICK p \in DOMAIN trace : /\ OfStream(p, s) /\ trace[p].from = s.src
                                /\ \A q \in 1 .. p - 1 : ~ OfStream(q, s)
  BY DEF Opened
<1>2. /\ Len(trace) \in Nat /\ p \in 1 .. Len(trace)
      /\ DOMAIN trace' = 1 .. Len(trace) + 1
      /\ \A q \in 1 .. Len(trace) : trace'[q] = trace[q]
  BY GrownTrace
<1>3. p \in DOMAIN trace' /\ OfStream(p, new)' /\ trace'[p].from = new.src
  BY <1>1, <1>2 DEF OfStream
<1>4. \A q \in 1 .. p - 1 : ~ OfStream(q, new)'
  BY <1>1, <1>2 DEF OfStream
<1> QED BY <1>3, <1>4 DEF Opened

\* The stream that its first packet opens.
LEMMA OpenStream ==
  ASSUME NEW pkt, Grows(pkt), pkt.conn \in Connections,
         NEW new, new = AddToStream(NewStream(pkt), pkt),
         \A p \in DOMAIN trace : ~ (trace[p].file = pkt.file /\ trace[p].conn = pkt.conn)
  PROVE  /\ BothGathered(new)' /\ new \in StreamState /\ Opened(new)'
         /\ new.file = pkt.file /\ new.conn = pkt.conn /\ new.src = pkt.from
<1> DEFINE s == NewStream(pkt)
<1>1. /\ s.file = pkt.file /\ s.conn = pkt.conn /\ s.src = pkt.from
      /\ s.fwd = NewDirection /\ s.rev = NewDirection
  BY DEF NewStream
<1>2. s \in StreamState
  BY NothingGathered DEF NewStream, StreamState, Grows, Packet
<1>3. \A end : Own(pkt.file, pkt.conn, end) = {}
  BY DEF Own
<1>4. BothGathered(s)
  <2> HIDE DEF s
  <2> QED BY <1>1, <1>3, NothingGathered DEF BothGathered
<1>5. /\ BothGathered(new)' /\ new \in StreamState
      /\ new.file = pkt.file /\ new.conn = pkt.conn /\ new.src = pkt.from
  <2> HIDE DEF s
  <2>1. PICK c : c = s
    OBVIOUS
  <2>2. new = AddToStream(c, pkt)
    BY <2>1 DEF s
  <2> QED BY <1>1, <1>2, <1>4, <2>1, <2>2, AddBoth
<1>6. Opened(new)'
  <2>1. PICK n : n = Len(trace) + 1
    OBVIOUS
  <2>2. /\ Len(trace) \in Nat /\ DOMAIN trace' = 1 .. Len(trace) + 1
        /\ DOMAIN trace = 1 .. Len(trace)
        /\ \A q \in DOMAIN trace : trace'[q] = trace[q]
        /\ trace'[n] = pkt
    BY <2>1, GrownTrace
  <2>3. n \in DOMAIN trace' /\ OfStream(n, new)' /\ trace'[n].from = new.src
    BY <1>5, <2>1, <2>2 DEF OfStream
  <2>4. \A q \in 1 .. n - 1 : ~ OfStream(q, new)'
    <3>1. \A q \in 1 .. n - 1 : q \in DOMAIN trace
      BY <2>1, <2>2
    <3> QED BY <1>5, <2>2, <3>1 DEF OfStream
  <2> QED BY <2>3, <2>4 DEF Opened
<1> QED BY <1>5, <1>6

-----------------------------------------------------------------------------
(* The initial state, and steps that leave much as it is. *)

\* What depends on the trace and the streams only stays with them.
LEMMA StreamsStay ==
  ASSUME UNCHANGED <<streams, trace>>, TraceFacts, StreamFacts
  PROVE  TraceFacts' /\ StreamFacts'
<1>1. TraceFacts'
  BY DEF TraceFacts
<1>2. \A file, conn, end : Own(file, conn, end)' = Own(file, conn, end)
  BY DEF Own
<1>3. ASSUME NEW dir, NEW own, Gathered(dir, own)
      PROVE  Gathered(dir, own)'
  <2>1. \A some : Total(some)' = Total(some)
    BY DEF Total
  <2>2. \A p \in own : Feature(own, p)' = Feature(own, p)
    BY <2>1 DEF Feature
  <2> QED BY <1>3, <2>1, <2>2 DEF Gathered, Place
<1>4. ASSUME NEW s, BothGathered(s), Opened(s)
      PROVE  BothGathered(s)' /\ Opened(s)'
  <2>1. PICK fwd, rev : /\ fwd = Own(s.file, s.conn, s.src)
                        /\ rev = Own(s.file, s.conn, Peer(s.src))
    OBVIOUS
  <2>2. Gathered(s.fwd, fwd)' /\ Gathered(s.rev, rev)'
    BY <1>3, <1>4, <2>1 DEF BothGathered
  <2>3. fwd = Own(s.file, s.conn, s.src)' /\ rev = Own(s.file, s.conn, Peer(s.src))'
    BY <1>2, <2>1
  <2>4. BothGathered(s)'
    BY <2>2, <2>3 DEF BothGathered
  <2>5. Opened(s)'
    BY <1>4 DEF Opened, OfStream
  <2> QED BY <2>4, <2>5
<1>5. PICK ss : ss = streams
  OBVIOUS
<1>6. \A i \in DOMAIN ss : BothGathered(ss[i])' /\ Opened(ss[i])'
  BY <1>4, <1>5 DEF StreamFacts
<1>7. ss = streams'
  BY <1>5
<1>8. \A i \in DOMAIN streams' : BothGathered(streams[i])' /\ Opened(streams[i])'
  BY <1>6, <1>7
<1> QED BY <1>1, <1>8 DEF StreamFacts, OfStream

\* So does what the outputs are made from.
LEMMA OutputsStay ==
  ASSUME UNCHANGED streams
  PROVE  /\ Flows' = Flows /\ Sizes' = Sizes /\ Largest' = Largest /\ Values' = Values
         /\ DirectionalStates' = DirectionalStates
         /\ Candidates' = Candidates /\ CandidateSizes' = CandidateSizes
         /\ ElephantThreshold' = ElephantThreshold
         /\ Written' = Written /\ \A d : Sample(d)' = Sample(d)
         /\ \A d : StateOf(d)' = StateOf(d) /\ ParentSize(d)' = ParentSize(d)
<1>1. Flows' = Flows
  BY DEF Flows
<1>2. Sizes' = Sizes
  BY <1>1 DEF Sizes
<1>3. Largest' = Largest
  BY <1>1, <1>2 DEF Largest
<1>4. DirectionalStates' = DirectionalStates
  BY DEF DirectionalStates
<1>5. \A d : StateOf(d)' = StateOf(d) /\ ParentSize(d)' = ParentSize(d)
  BY DEF StateOf, ParentSize
<1>6. Candidates' = Candidates
  BY <1>4, <1>5 DEF Candidates, IsCandidate
<1>7. CandidateSizes' = CandidateSizes
  BY <1>5, <1>6 DEF CandidateSizes
<1>8. ElephantThreshold' = ElephantThreshold
  BY <1>7 DEF ElephantThreshold
<1>9. Written' = Written
  BY <1>4, <1>5 DEF Written, IsWritten
<1>10. \A d : Sample(d)' = Sample(d)
  BY <1>5, <1>8 DEF Sample
<1>11. Values' = Values
  BY <1>2 DEF Values
<1> QED BY <1>1, <1>2, <1>3, <1>4, <1>5, <1>6, <1>7, <1>8, <1>9, <1>10, <1>11

\* Nothing of the outputs is there before the first of them.
LEMMA BeforeOutputs ==
  ASSUME IndInv, pc \in {"find", "read"}, pc' \in {"read", "stats", "exit"},
         UNCHANGED <<outputs, relabels, field>>
  PROVE  /\ pc' # "relabel" => relabels' = 0 /\ field' = "directional"
         /\ StatsFacts' /\ DatasetFacts' /\ CdfFacts'
         /\ CdfFollowsSizes' /\ SummaryDescribesFiles' /\ LabelsFollowChosenSize'
<1>1. /\ dataset' = <<>> /\ ranks' = 0 /\ cdf' = <<>>
      /\ relabels' = 0 /\ field' = "directional"
  BY DEF IndInv, DatasetFacts, CdfFacts, outputs
<1>2. StatsFacts' /\ CdfFollowsSizes' /\ SummaryDescribesFiles' /\ CdfFacts'
  BY <1>1 DEF StatsFacts, CdfFollowsSizes, SummaryDescribesFiles, CdfFacts
<1>3. DatasetFacts'
  BY <1>1 DEF DatasetFacts
<1>4. LabelsFollowChosenSize'
  BY <1>1 DEF LabelsFollowChosenSize
<1> QED BY <1>1, <1>2, <1>3, <1>4

\* Before find_univ1_pcaps everything is empty.
LEMMA InitInv ==
  Init => IndInv
<1> SUFFICES ASSUME Init PROVE IndInv
  OBVIOUS
<1> USE DEF Init
<1>1. TypeOK
  <2>1. Len(Quantiles) \in Nat
    BY QuantilesAssumption
  <2> QED BY <2>1 DEF TypeOK
<1>2. TraceFacts /\ StreamFacts
  BY DEF TraceFacts, StreamFacts
<1>3. StatsFacts /\ DatasetFacts /\ CdfFacts
  BY DEF StatsFacts, DatasetFacts, CdfFacts
<1>4. CdfFollowsSizes /\ SummaryDescribesFiles /\ LabelsFollowChosenSize
  BY DEF CdfFollowsSizes, SummaryDescribesFiles, LabelsFollowChosenSize
<1> QED BY <1>1, <1>2, <1>3, <1>4 DEF IndInv

\* A step that changes nothing.
LEMMA StutterInv ==
  ASSUME IndInv, UNCHANGED vars
  PROVE  IndInv'
<1> USE DEF vars, outputs
<1>1. TypeOK' /\ (pc' = "read" => files' # <<>>)
      /\ (pc' # "relabel" => relabels' = 0 /\ field' = "directional")
  BY DEF IndInv, TypeOK
<1>2. TraceFacts' /\ StreamFacts'
  BY StreamsStay DEF IndInv
<1>3. StatsFacts'
  BY DEF IndInv, StatsFacts
<1>4. DatasetFacts'
  BY OutputsStay DEF IndInv, DatasetFacts
<1>5. CdfFacts'
  BY OutputsStay DEF IndInv, CdfFacts
<1>6. CdfFollowsSizes'
  BY DEF IndInv, CdfFollowsSizes
<1>7. SummaryDescribesFiles'
  BY DEF IndInv, SummaryDescribesFiles
<1>8. LabelsFollowChosenSize'
  BY DEF IndInv, LabelsFollowChosenSize
<1> QED BY <1>1, <1>2, <1>3, <1>4, <1>5, <1>6, <1>7, <1>8 DEF IndInv

\* find_univ1_pcaps.
LEMMA FindInv ==
  ASSUME IndInv, FindUniv1Pcaps
  PROVE  IndInv'
<1> USE DEF FindUniv1Pcaps
<1>1. files' \in Seq(Directory)
  <2>1. PICK chosen \in SUBSET Directory : files' \in SetToSeqs(chosen)
    OBVIOUS
  <2>2. IsFiniteSet(chosen) /\ Cardinality(chosen) \in Nat
    BY <2>1, DirectoryAssumption, FS_Subset, FS_CardinalityType
  <2>3. files' \in [1 .. Cardinality(chosen) -> chosen]
    BY <2>1 DEF SetToSeqs
  <2> QED BY <2>2, <2>3
<1>2. /\ pc \in {"find", "read"} /\ pc' \in {"read", "stats", "exit"}
      /\ pc' = "read" => files' # <<>>
  OBVIOUS
<1>3. TypeOK'
  BY <1>1, <1>2 DEF IndInv, TypeOK, outputs
<1>4. TraceFacts' /\ StreamFacts'
  BY StreamsStay DEF IndInv
<1> QED BY <1>2, <1>3, <1>4, BeforeOutputs DEF IndInv

\* The end of a file.
LEMMA NextFileInv ==
  ASSUME IndInv, NextFile
  PROVE  IndInv'
<1> USE DEF NextFile
<1>1. files' \in Seq(Directory)
  BY DEF IndInv, TypeOK
<1>2. /\ pc \in {"find", "read"} /\ pc' \in {"read", "stats", "exit"}
      /\ pc' = "read" => files' # <<>>
  OBVIOUS
<1>3. TypeOK'
  BY <1>1, <1>2 DEF IndInv, TypeOK, outputs
<1>4. TraceFacts' /\ StreamFacts'
  BY StreamsStay DEF IndInv
<1> QED BY <1>2, <1>3, <1>4, BeforeOutputs DEF IndInv

\* An error of tshark.
LEMMA TsharkFailsInv ==
  ASSUME IndInv, TsharkFails
  PROVE  IndInv'
<1> USE DEF TsharkFails
<1>1. pc \in {"find", "read"} /\ pc' \in {"read", "stats", "exit"} /\ pc' # "read"
  OBVIOUS
<1>2. TypeOK'
  BY DEF IndInv, TypeOK, outputs
<1>3. TraceFacts' /\ StreamFacts'
  BY StreamsStay DEF IndInv
<1> QED BY <1>1, <1>2, <1>3, BeforeOutputs DEF IndInv

-----------------------------------------------------------------------------
(* Reading a packet. *)

\* The streams when every one of them has what is its own.
StreamsHold(ss) ==
  /\ ss \in Seq(StreamState)
  /\ \A i \in DOMAIN ss : BothGathered(ss[i]) /\ Opened(ss[i])
  /\ \A i, j \in DOMAIN ss : ss[i].file = ss[j].file /\ ss[i].conn = ss[j].conn => i = j
  /\ \A p \in DOMAIN trace : trace[p].conn # NoIPv4 => \E i \in DOMAIN ss : OfStream(p, ss[i])

\* Rows that are not of IPv4 make no stream.
LEMMA NoIPv4Row ==
  ASSUME NEW pkt, Grows(pkt), pkt.conn = NoIPv4, NEW ss, StreamsHold(ss)
  PROVE  StreamsHold(ss)'
<1>1. /\ Len(trace) \in Nat /\ DOMAIN trace = 1 .. Len(trace)
      /\ DOMAIN trace' = 1 .. Len(trace) + 1
      /\ \A p \in DOMAIN trace : trace'[p] = trace[p]
      /\ trace'[Len(trace) + 1] = pkt
  BY GrownTrace
<1>2. ASSUME NEW i \in DOMAIN ss
      PROVE  BothGathered(ss[i])' /\ Opened(ss[i])'
  <2>1. PICK s : s = ss[i]
    OBVIOUS
  <2>2. s \in StreamState /\ BothGathered(s) /\ Opened(s)
    BY <2>1 DEF StreamsHold
  <2>3. s.conn # pkt.conn
    BY <2>2, ConnectionsAssumption DEF StreamState
  <2>4. BothGathered(s)' /\ Opened(s)'
    BY <2>2, <2>3, OtherPacket, StaysOpened
  <2> QED BY <2>1, <2>4
<1>3. ASSUME NEW p \in DOMAIN trace', trace'[p].conn # NoIPv4
      PROVE  \E i \in DOMAIN ss : OfStream(p, ss[i])'
  <2>1. p \in DOMAIN trace /\ trace'[p] = trace[p]
    BY <1>1, <1>3
  <2> QED BY <1>3, <2>1 DEF StreamsHold, OfStream
<1>4. \A i \in DOMAIN ss : BothGathered(ss[i])' /\ Opened(ss[i])'
  BY <1>2
<1> QED BY <1>3, <1>4 DEF StreamsHold

\* A connection that is new in the file gets a stream.
LEMMA NewRow ==
  ASSUME NEW pkt, Grows(pkt), pkt.conn \in Connections, NEW ss, StreamsHold(ss),
         \A i \in DOMAIN ss : ~ (ss[i].file = pkt.file /\ ss[i].conn = pkt.conn),
         NEW new, new = AddToStream(NewStream(pkt), pkt), NEW more, more = Append(ss, new)
  PROVE  StreamsHold(more)'
<1>1. /\ Len(trace) \in Nat /\ DOMAIN trace = 1 .. Len(trace)
      /\ DOMAIN trace' = 1 .. Len(trace) + 1
      /\ \A p \in DOMAIN trace : trace'[p] = trace[p]
      /\ trace'[Len(trace) + 1] = pkt
  BY GrownTrace
<1>2. \A p \in DOMAIN trace : ~ (trace[p].file = pkt.file /\ trace[p].conn = pkt.conn)
  <2>1. pkt.conn # NoIPv4
    BY ConnectionsAssumption
  <2> QED BY <2>1 DEF StreamsHold, OfStream
<1>3. /\ BothGathered(new)' /\ new \in StreamState /\ Opened(new)'
      /\ new.file = pkt.file /\ new.conn = pkt.conn
  BY <1>2, OpenStream
<1>4. /\ ss \in Seq(StreamState) /\ more \in Seq(StreamState) /\ Len(ss) \in Nat
      /\ DOMAIN ss = 1 .. Len(ss) /\ DOMAIN more = 1 .. Len(ss) + 1
      /\ \A i \in DOMAIN ss : more[i] = ss[i]
      /\ more[Len(ss) + 1] = new
  BY <1>3 DEF StreamsHold
<1>5. ASSUME NEW i \in DOMAIN more
      PROVE  BothGathered(more[i])' /\ Opened(more[i])'
  <2>1. CASE i = Len(ss) + 1
    <3>1. more[i] = new
      BY <1>4, <2>1
    <3> QED BY <1>3, <3>1
  <2>2. CASE i \in DOMAIN ss
    <3>1. PICK s : s = ss[i]
      OBVIOUS
    <3>2. s \in StreamState /\ BothGathered(s) /\ Opened(s)
      BY <2>2, <3>1 DEF StreamsHold
    <3>3. ~ (pkt.file = s.file /\ pkt.conn = s.conn)
      BY <2>2, <3>1
    <3>4. BothGathered(s)' /\ Opened(s)'
      BY <3>2, <3>3, OtherPacket, StaysOpened
    <3>5. more[i] = s
      BY <1>4, <2>2, <3>1
    <3> QED BY <3>4, <3>5
  <2> QED BY <1>4, <2>1, <2>2
<1>6. ASSUME NEW i \in DOMAIN more, NEW j \in DOMAIN more,
             more[i].file = more[j].file, more[i].conn = more[j].conn
      PROVE  i = j
  <2>1. CASE i \in DOMAIN ss /\ j \in DOMAIN ss
    BY <1>4, <1>6, <2>1 DEF StreamsHold
  <2>2. CASE i = Len(ss) + 1 /\ j \in DOMAIN ss
    BY <1>3, <1>4, <1>6, <2>2
  <2>3. CASE j = Len(ss) + 1 /\ i \in DOMAIN ss
    BY <1>3, <1>4, <1>6, <2>3
  <2> QED BY <1>4, <2>1, <2>2, <2>3
<1>7. ASSUME NEW p \in DOMAIN trace', trace'[p].conn # NoIPv4
      PROVE  \E i \in DOMAIN more : OfStream(p, more[i])'
  <2>1. CASE p = Len(trace) + 1
    <3>1. Len(ss) + 1 \in DOMAIN more
      BY <1>4
    <3>2. trace'[p].file = more[Len(ss) + 1].file /\ trace'[p].conn = more[Len(ss) + 1].conn
      BY <1>1, <1>3, <1>4, <2>1
    <3> QED BY <3>1, <3>2 DEF OfStream
  <2>2. CASE p \in DOMAIN trace
    <3>1. trace'[p] = trace[p]
      BY <1>1, <2>2
    <3>2. PICK i \in DOMAIN ss : OfStream(p, ss[i])
      BY <1>7, <2>2, <3>1 DEF StreamsHold
    <3>3. i \in DOMAIN more /\ more[i] = ss[i]
      BY <1>4
    <3> QED BY <3>1, <3>2, <3>3 DEF OfStream
  <2> QED BY <1>1, <2>1, <2>2
<1>8. \A i \in DOMAIN more : BothGathered(more[i])' /\ Opened(more[i])'
  BY <1>5
<1> QED BY <1>4, <1>6, <1>7, <1>8 DEF StreamsHold

\* The packet goes to the stream that its connection has in the file.
LEMMA FoundRow ==
  ASSUME NEW pkt, Grows(pkt), pkt.conn \in Connections, NEW ss, StreamsHold(ss),
         NEW found, found = {i \in DOMAIN ss : ss[i].file = pkt.file /\ ss[i].conn = pkt.conn},
         found # {},
         NEW more, more = [i \in DOMAIN ss |-> IF i \in found THEN AddToStream(ss[i], pkt) ELSE ss[i]]
  PROVE  StreamsHold(more)'
<1>1. /\ Len(trace) \in Nat /\ DOMAIN trace = 1 .. Len(trace)
      /\ DOMAIN trace' = 1 .. Len(trace) + 1
      /\ \A p \in DOMAIN trace : trace'[p] = trace[p]
      /\ trace'[Len(trace) + 1] = pkt
  BY GrownTrace
<1>2. DOMAIN more = DOMAIN ss /\ DOMAIN ss = 1 .. Len(ss) /\ Len(ss) \in Nat
  BY DEF StreamsHold
<1>3. ASSUME NEW i \in DOMAIN ss
      PROVE  /\ BothGathered(more[i])' /\ Opened(more[i])' /\ more[i] \in StreamState
             /\ more[i].file = ss[i].file /\ more[i].conn = ss[i].conn
  <2>1. PICK s : s = ss[i]
    OBVIOUS
  <2>2. s \in StreamState /\ BothGathered(s) /\ Opened(s)
    BY <2>1 DEF StreamsHold
  <2>3. CASE i \in found
    <3>1. PICK new : new = AddToStream(s, pkt)
      OBVIOUS
    <3>2. more[i] = new
      BY <2>1, <2>3, <3>1
    <3>3. /\ BothGathered(new)' /\ new \in StreamState
          /\ new.file = s.file /\ new.conn = s.conn /\ new.src = s.src
      BY <2>1, <2>2, <2>3, <3>1, AddBoth
    <3>4. Opened(new)'
      BY <2>2, <3>3, StaysOpened
    <3> QED BY <2>1, <3>2, <3>3, <3>4
  <2>4. CASE i \notin found
    <3>1. more[i] = s
      BY <2>1, <2>4
    <3>2. BothGathered(s)' /\ Opened(s)'
      BY <2>1, <2>2, <2>4, OtherPacket, StaysOpened
    <3> QED BY <2>1, <2>2, <3>1, <3>2
  <2> QED BY <2>3, <2>4
<1>4. more \in Seq(StreamState)
  BY <1>2, <1>3
<1>5. \A i, j \in DOMAIN more : more[i].file = more[j].file /\ more[i].conn = more[j].conn => i = j
  BY <1>2, <1>3 DEF StreamsHold
<1>6. ASSUME NEW p \in DOMAIN trace', trace'[p].conn # NoIPv4
      PROVE  \E i \in DOMAIN more : OfStream(p, more[i])'
  <2>1. PICK i \in DOMAIN ss : ss[i].file = trace'[p].file /\ ss[i].conn = trace'[p].conn
    <3>1. CASE p = Len(trace) + 1
      BY <1>1, <3>1
    <3>2. CASE p \in DOMAIN trace
      BY <1>1, <1>6, <3>2 DEF StreamsHold, OfStream
    <3> QED BY <1>1, <3>1, <3>2
  <2>2. i \in DOMAIN more /\ more[i].file = trace'[p].file /\ more[i].conn = trace'[p].conn
    BY <1>2, <1>3, <2>1
  <2> QED BY <2>2 DEF OfStream
<1>7. \A i \in DOMAIN more : BothGathered(more[i])' /\ Opened(more[i])'
  BY <1>2, <1>3
<1> QED BY <1>4, <1>5, <1>6, <1>7 DEF StreamsHold

\* What a row of tshark can be.
LEMMA RowType ==
  ASSUME NEW row \in Rows
  PROVE  /\ row.conn \in Connections \cup {NoIPv4} /\ row.from \in Ends
         /\ row.len \in Nat /\ row.syn \in BOOLEAN
         /\ row.syn => /\ row.from = "client"
                       /\ \A p \in DOMAIN trace : trace[p].conn # row.conn
<1>1. Lengths \subseteq Nat /\ Max(Lengths) \in Nat
  BY SizesAssumption, MaxFacts
<1>2. CASE row \in [conn : Connections, from : Ends, len : Lengths, syn : {FALSE}]
  BY <1>1, <1>2
<1>3. CASE \E c \in {d \in Connections : \A i \in DOMAIN trace : trace[i].conn # d} :
             row = [conn |-> c, from |-> "client", len |-> 0, syn |-> TRUE]
  BY <1>3 DEF Ends
<1>4. CASE row = [conn |-> NoIPv4, from |-> "client", len |-> Max(Lengths), syn |-> FALSE]
  BY <1>1, <1>4 DEF Ends
<1> QED BY <1>2, <1>3, <1>4 DEF Rows

\* for row in iter_tshark_rows.
LEMMA ReadRowInv ==
  ASSUME IndInv, NEW row \in Rows, ReadRow(row)
  PROVE  IndInv'
<1>1. PICK pkt : pkt = [file |-> Head(files)[1], ts |-> Len(trace) + 1, conn |-> row.conn,
                        from |-> row.from, len |-> row.len, syn |-> row.syn]
  OBVIOUS
<1>2. /\ pc = "read" /\ pc' = "read" /\ files' = files
      /\ trace' = Append(trace, pkt) /\ streams' = AddRow(streams, pkt)
      /\ UNCHANGED <<outputs, relabels, field>>
  BY <1>1 DEF ReadRow
<1>3. /\ trace \in Seq(Packet) /\ streams \in Seq(StreamState)
      /\ files \in Seq(Directory) /\ files # <<>>
      /\ TraceFacts /\ StreamFacts
  BY <1>2 DEF IndInv, TypeOK
<1>4. Grows(pkt)
  <2>1. Head(files)[1] \in Nat
    <3>1. Head(files) \in Directory
      BY <1>3
    <3> QED BY <3>1, DirectoryAssumption
  <2>2. Len(trace) + 1 \in Nat
    BY <1>3
  <2>3. pkt \in Packet
    BY <1>1, <2>1, <2>2, RowType DEF Packet
  <2> QED BY <1>1, <1>2, <1>3, <2>3 DEF Grows
<1>5. /\ Len(trace) \in Nat /\ DOMAIN trace = 1 .. Len(trace)
      /\ trace' \in Seq(Packet) /\ DOMAIN trace' = 1 .. Len(trace) + 1
      /\ \A p \in DOMAIN trace : trace'[p] = trace[p]
      /\ trace'[Len(trace) + 1] = pkt
  BY <1>4, GrownTrace
<1>6. TraceFacts'
  <2>1. ASSUME NEW p \in DOMAIN trace'
        PROVE  /\ trace'[p].ts = p
               /\ trace'[p].syn => /\ trace'[p].from = "client"
                                   /\ \A q \in 1 .. p - 1 : trace'[q].conn # trace'[p].conn
    <3>1. CASE p \in DOMAIN trace
      <4>1. \A q \in 1 .. p - 1 : q \in DOMAIN trace
        BY <1>5, <3>1
      <4> QED BY <1>3, <1>5, <3>1, <4>1 DEF TraceFacts
    <3>2. CASE p = Len(trace) + 1
      <4>1. \A q \in 1 .. p - 1 : q \in DOMAIN trace
        BY <1>5, <3>2
      <4>2. pkt.ts = p /\ pkt.conn = row.conn /\ pkt.from = row.from /\ pkt.syn = row.syn
        BY <1>1, <3>2
      <4> QED BY <1>5, <3>2, <4>1, <4>2, RowType
    <3> QED BY <1>5, <3>1, <3>2
  <2> QED BY <2>1 DEF TraceFacts
<1>7. StreamsHold(streams)'
  <2>1. PICK ss, more : ss = streams /\ more = AddRow(ss, pkt)
    OBVIOUS
  <2>2. StreamsHold(ss)
    BY <1>3, <2>1 DEF StreamsHold, StreamFacts
  <2>3. pkt.conn \in Connections \cup {NoIPv4}
    BY <1>4 DEF Grows, Packet
  <2>4. PICK found : found = {i \in DOMAIN ss : ss[i].file = pkt.file /\ ss[i].conn = pkt.conn}
    OBVIOUS
  <2>5. StreamsHold(more)'
    <3>1. CASE pkt.conn = NoIPv4
      <4>1. more = ss
        BY <2>1, <3>1 DEF AddRow
      <4>2. StreamsHold(ss)'
        BY <1>4, <2>2, <3>1, NoIPv4Row
      <4> QED BY <4>1, <4>2
    <3>2. CASE pkt.conn # NoIPv4 /\ found = {}
      <4>1. PICK new : new = AddToStream(NewStream(pkt), pkt)
        OBVIOUS
      <4>2. more = Append(ss, new)
        BY <2>1, <2>4, <3>2, <4>1 DEF AddRow
      <4>3. \A i \in DOMAIN ss : ~ (ss[i].file = pkt.file /\ ss[i].conn = pkt.conn)
        BY <2>4, <3>2
      <4> QED BY <1>4, <2>2, <2>3, <3>2, <4>1, <4>2, <4>3, NewRow
    <3>3. CASE pkt.conn # NoIPv4 /\ found # {}
      <4>1. more = [i \in DOMAIN ss |-> IF i \in found THEN AddToStream(ss[i], pkt) ELSE ss[i]]
        BY <2>1, <2>4, <3>3 DEF AddRow
      <4> QED BY <1>4, <2>2, <2>3, <2>4, <3>3, <4>1, FoundRow
    <3> QED BY <3>1, <3>2, <3>3
  <2>6. more = streams'
    BY <1>2, <2>1
  <2> QED BY <2>5, <2>6
<1>8. StreamFacts' /\ streams' \in Seq(StreamState)
  BY <1>7 DEF StreamsHold, StreamFacts
<1>9. TypeOK'
  BY <1>2, <1>5, <1>8 DEF IndInv, TypeOK, outputs
<1> QED BY <1>2, <1>3, <1>6, <1>8, <1>9, BeforeOutputs DEF IndInv

-----------------------------------------------------------------------------
(* What the outputs are made from. *)

\* An end that sent payload sent bytes.
LEMMA OwnTotal ==
  ASSUME trace \in Seq(Packet), NEW file, NEW conn, NEW end
  PROVE  Own(file, conn, end) = {} <=> Total(Own(file, conn, end)) = 0
<1>1. PICK own \in SUBSET DOMAIN trace : own = Own(file, conn, end)
  BY OwnType
<1>2. \A p \in own : trace[p].len > 0
  BY <1>1 DEF Own
<1>3. own = {} <=> Total(own) = 0
  BY <1>2, NoTotal
<1> QED BY <1>1, <1>3

\* Quantiles are numbers up to 1.
LEMMA QuantileType ==
  /\ One \in Nat /\ P80 \in 0 .. One /\ P90 \in 0 .. One
  /\ Len(Quantiles) \in Nat /\ Len(Quantiles) > 1
  /\ \A k \in 1 .. Len(Quantiles) : Quantiles[k] \in 0 .. One
<1>1. One \in Nat /\ P80 \in 0 .. One /\ P90 \in 0 .. One
  BY DEF One, P80, P90
<1>2. Quantiles \in Seq(0 .. One) /\ Len(Quantiles) > 1
  BY QuantilesAssumption
<1> QED BY <1>1, <1>2

\* The larger direction of a stream.
LEMMA FlowSize ==
  ASSUME NEW s \in StreamState
  PROVE  /\ s.fwd.bytes \in Nat /\ s.rev.bytes \in Nat
         /\ FlowSizeBytes(s) = IF s.fwd.bytes < s.rev.bytes THEN s.rev.bytes ELSE s.fwd.bytes
         /\ FlowSizeBytes(s) \in Nat
<1>1. s.fwd.bytes \in Nat /\ s.rev.bytes \in Nat
  BY DEF StreamState, DirectionState
<1> QED BY <1>1, OfTwo DEF FlowSizeBytes

\* Finitely many directions and flows, each with its size.
LEMMA OutputTypes ==
  ASSUME streams \in Seq(StreamState)
  PROVE  /\ IsFiniteSet(Written) /\ IsFiniteSet(Candidates) /\ IsFiniteSet(Flows)
         /\ \A d \in DirectionalStates : /\ streams[d[1]] \in StreamState /\ d[1] \in DOMAIN streams
                                         /\ StateOf(d) \in DirectionState
                                         /\ StateOf(d).bytes \in Nat /\ ParentSize(d) \in Nat
         /\ CandidateSizes \in [Candidates -> Nat] /\ ElephantThreshold \in Nat
         /\ Sizes \in [Flows -> Nat]
<1>1. DOMAIN streams = 1 .. Len(streams) /\ Len(streams) \in Nat
  OBVIOUS
<1>2. IsFiniteSet(DOMAIN streams)
  BY <1>1, FS_Interval
<1>3. IsFiniteSet(DirectionalStates)
  <2>1. IsFiniteSet(Directions)
    <3>1. IsFiniteSet({"src_to_dst"} \cup {"dst_to_src"})
      BY FS_Singleton, FS_Union
    <3>2. Directions = {"src_to_dst"} \cup {"dst_to_src"}
      BY DEF Directions
    <3> QED BY <3>1, <3>2
  <2> QED BY <1>2, <2>1, FS_Product DEF DirectionalStates
<1>4. IsFiniteSet(Written) /\ IsFiniteSet(Candidates) /\ IsFiniteSet(Flows)
  BY <1>2, <1>3, FS_Subset DEF Written, Candidates, Flows
<1>5. ASSUME NEW d \in DirectionalStates
      PROVE  /\ streams[d[1]] \in StreamState /\ d[1] \in DOMAIN streams
             /\ StateOf(d) \in DirectionState
             /\ StateOf(d).bytes \in Nat /\ ParentSize(d) \in Nat
  <2>1. d[1] \in DOMAIN streams /\ streams[d[1]] \in StreamState
    BY DEF DirectionalStates
  <2>2. StateOf(d) \in DirectionState
    BY <2>1 DEF StateOf, StreamState
  <2>3. ParentSize(d) \in Nat
    BY <2>1, FlowSize DEF ParentSize
  <2> QED BY <2>1, <2>2, <2>3 DEF DirectionState
<1>6. CandidateSizes \in [Candidates -> Nat]
  BY <1>5 DEF CandidateSizes, Candidates
<1>7. ElephantThreshold \in Nat
  BY <1>4, <1>6, QuantileType, PercentileType DEF ElephantThreshold
<1>8. Sizes \in [Flows -> Nat]
  <2>1. \A i \in Flows : streams[i] \in StreamState
    BY DEF Flows
  <2> QED BY <2>1, FlowSize DEF Sizes
<1> QED BY <1>4, <1>5, <1>6, <1>7, <1>8

\* A direction has features when it has bytes, so each sample counts for the
\* threshold.
LEMMA WrittenAreCandidates ==
  ASSUME streams \in Seq(StreamState), trace \in Seq(Packet), StreamFacts
  PROVE  /\ Written = Candidates
         /\ \A d \in DirectionalStates : StateOf(d).features # <<>> <=> StateOf(d).bytes > 0
         /\ \A d \in DirectionalStates : ParentSize(d) >= StateOf(d).bytes
<1>1. ASSUME NEW d \in DirectionalStates
      PROVE  /\ StateOf(d).features # <<>> <=> StateOf(d).bytes > 0
             /\ ParentSize(d) >= StateOf(d).bytes
  <2>1. PICK s : s = streams[d[1]]
    OBVIOUS
  <2>2. s \in StreamState /\ BothGathered(s)
    BY <2>1, OutputTypes DEF StreamFacts
  <2>3. StateOf(d) \in {s.fwd, s.rev} /\ ParentSize(d) = FlowSizeBytes(s)
    BY <2>1 DEF StateOf, ParentSize
  <2>4. ParentSize(d) >= StateOf(d).bytes
    BY <2>2, <2>3, FlowSize
  <2>5. PICK own \in SUBSET DOMAIN trace :
          Gathered(StateOf(d), own) /\ (own = {} <=> Total(own) = 0)
    <3>1. Own(s.file, s.conn, s.src) = {} <=> Total(Own(s.file, s.conn, s.src)) = 0
      BY OwnTotal
    <3>2. Own(s.file, s.conn, Peer(s.src)) = {} <=> Total(Own(s.file, s.conn, Peer(s.src))) = 0
      BY OwnTotal
    <3> QED BY <2>2, <2>3, <3>1, <3>2, OwnType DEF BothGathered
  <2>6. PICK dir \in DirectionState : dir = StateOf(d)
    BY OutputTypes
  <2>7. dir.bytes \in Nat /\ dir.features \in Seq(FeatureRow)
    BY <2>6 DEF DirectionState
  <2>8. dir.bytes = Total(own) /\ Len(dir.features) = Min({PacketCount, Cardinality(own)})
    BY <2>5, <2>6 DEF Gathered
  <2>9. Cardinality(own) \in Nat /\ (own = {} <=> Cardinality(own) = 0)
    BY PositionFacts
  <2>10. PacketCount \in Nat /\ PacketCount > 0
    BY SizesAssumption
  <2>11. Len(dir.features) = IF PacketCount < Cardinality(own) THEN PacketCount ELSE Cardinality(own)
    BY <2>8, <2>9, <2>10, OfTwo
  <2>12. dir.features = <<>> <=> own = {}
    BY <2>7, <2>9, <2>10, <2>11
  <2> QED BY <2>4, <2>5, <2>6, <2>7, <2>8, <2>12
<1>2. Written = Candidates
  <2>1. \A d \in DirectionalStates : IsWritten(d) <=> IsCandidate(d)
    BY <1>1, OutputTypes DEF IsWritten, IsCandidate
  <2> QED BY <2>1 DEF Written, Candidates
<1> QED BY <1>1, <1>2

-----------------------------------------------------------------------------
(* Writing the table of streams and the samples. *)

\* write_stats_csv.
LEMMA WriteStatsInv ==
  ASSUME IndInv, WriteStatsCsv
  PROVE  IndInv'
<1> USE DEF WriteStatsCsv
<1>1. /\ dataset' = <<>> /\ ranks' = 0 /\ cdf' = <<>>
      /\ relabels' = 0 /\ field' = "directional" /\ pc' = "dataset"
  BY DEF IndInv, DatasetFacts, CdfFacts
<1>2. TypeOK'
  BY DEF IndInv, TypeOK
<1>3. TraceFacts' /\ StreamFacts'
  BY StreamsStay DEF IndInv
<1>4. StatsFacts' /\ CdfFollowsSizes' /\ SummaryDescribesFiles' /\ CdfFacts'
  BY <1>1 DEF StatsFacts, CdfFollowsSizes, SummaryDescribesFiles, CdfFacts
<1>5. DatasetFacts' /\ LabelsFollowChosenSize'
  BY <1>1 DEF DatasetFacts, LabelsFollowChosenSize
<1> QED BY <1>1, <1>2, <1>3, <1>4, <1>5 DEF IndInv

\* write_dataset_jsonl.
LEMMA WriteDatasetInv ==
  ASSUME IndInv, WriteDatasetJsonl
  PROVE  IndInv'
<1> USE DEF WriteDatasetJsonl
<1>1. /\ ranks' = 0 /\ cdf' = <<>>
      /\ relabels' = 0 /\ field' = "directional" /\ pc' = "cdf"
      /\ dataset' = [d \in Written |-> Sample(d)] /\ streams' = streams
  BY DEF IndInv, CdfFacts
<1>2. TypeOK'
  BY DEF IndInv, TypeOK
<1>3. TraceFacts' /\ StreamFacts'
  BY StreamsStay DEF IndInv
<1>4. CdfFollowsSizes' /\ SummaryDescribesFiles' /\ CdfFacts'
  BY <1>1 DEF CdfFollowsSizes, SummaryDescribesFiles, CdfFacts, RowsFollow
<1>5. StatsFacts'
  BY DEF IndInv, StatsFacts
<1>6. DatasetFacts'
  <2>1. ASSUME NEW d \in Written
        PROVE  /\ DOMAIN dataset'[d] = Kept \cup {"flowSize", "label"}
               /\ \A name \in Kept : dataset'[d][name] = Sample(d)[name]
               /\ dataset'[d].flowSize = dataset'[d]["directional"]
               /\ dataset'[d].label = Sample(d).label
    <3>1. dataset'[d] = Sample(d)
      BY <1>1
    <3>2. DOMAIN Sample(d) = Kept \cup {"flowSize", "label"}
      BY DEF Sample, Kept
    <3>3. Sample(d).flowSize = Sample(d)["directional"]
      BY DEF Sample
    <3> QED BY <3>1, <3>2, <3>3
  <2> QED BY <1>1, <2>1, OutputsStay DEF DatasetFacts
<1>7. LabelsFollowChosenSize'
  <2>1. streams \in Seq(StreamState)
    BY DEF IndInv, TypeOK
  <2>2. ElephantThreshold \in Nat
    BY <2>1, OutputTypes
  <2>3. \A d \in Written : /\ dataset'[d]["directional"] = StateOf(d).bytes
                           /\ dataset'[d].label = IF StateOf(d).bytes >= ElephantThreshold THEN 1 ELSE 0
                           /\ StateOf(d).bytes \in Nat
    BY <1>1, <2>1, OutputTypes DEF Sample, Written
  <2> QED BY <1>1, <2>2, <2>3 DEF LabelsFollowChosenSize
<1> QED BY <1>1, <1>2, <1>3, <1>4, <1>5, <1>6, <1>7 DEF IndInv

-----------------------------------------------------------------------------
(* The rows of the size distribution. *)

\* A value for each quantile, none below the one before.
Rising(value) ==
  /\ value \in [1 .. Len(Quantiles) -> Nat]
  /\ \A i, j \in 1 .. Len(Quantiles) : i <= j => value[i] <= value[j]

\* The percentiles of write_cdf never fall.
LEMMA ValuesRise ==
  ASSUME streams \in Seq(StreamState)
  PROVE  Rising(Values)
<1>1. IsFiniteSet(Flows) /\ Sizes \in [Flows -> Nat]
  BY OutputTypes
<1>2. \A k \in 1 .. Len(Quantiles) : Percentile(Sizes, Quantiles[k]) \in Nat
  BY <1>1, QuantileType, PercentileType
<1>3. ASSUME NEW i \in 1 .. Len(Quantiles), NEW j \in 1 .. Len(Quantiles), i <= j
      PROVE  Percentile(Sizes, Quantiles[i]) <= Percentile(Sizes, Quantiles[j])
  <2>1. Quantiles[i] \in 0 .. One /\ Quantiles[j] \in 0 .. One
    BY QuantileType
  <2>2. Quantiles[i] <= Quantiles[j]
    <3>1. i < j => Quantiles[i] < Quantiles[j]
      BY QuantilesAssumption
    <3>2. One \in Nat /\ Len(Quantiles) \in Nat
      BY QuantileType
    <3> QED BY <1>3, <2>1, <3>1, <3>2
  <2> QED BY <1>1, <2>1, <2>2, PercentilesGrow
<1> QED BY <1>2, <1>3 DEF Rising, Values

\* The last row is moved up when its value repeats.
LEMMA MergedRow ==
  ASSUME NEW value, Rising(value), NEW k \in 0 .. Len(Quantiles) - 1, NEW next, next = k + 1,
         NEW rows, RowsFollow(rows, value, k),
         rows # <<>>, rows[Len(rows)][1] = value[next]
  PROVE  RowsFollow([rows EXCEPT ![Len(rows)] = <<value[next], Quantiles[next]>>], value, next)
<1> SUFFICES ASSUME NEW q, q = Quantiles[next], NEW v, v = value[next], NEW n, n = Len(rows),
                    NEW more, more = [rows EXCEPT ![n] = <<v, q>>]
             PROVE  RowsFollow(more, value, next)
  OBVIOUS
<1>1. /\ q \in Nat /\ v \in Nat /\ k \in Nat /\ k > 0 /\ k \in 1 .. Len(Quantiles)
      /\ next \in 1 .. Len(Quantiles)
      /\ Quantiles[k] < q /\ \A m \in 1 .. k : Quantiles[m] \in Nat /\ Quantiles[m] < q
  <2>1. k \in Nat /\ Len(Quantiles) \in Nat
    BY QuantileType
  <2>2. k > 0
    BY <2>1 DEF RowsFollow
  <2>3. k \in 1 .. Len(Quantiles) /\ next \in 1 .. Len(Quantiles)
    BY <2>1, <2>2
  <2>4. \A m \in 1 .. k : Quantiles[m] \in Nat /\ Quantiles[m] < q
    <3>1. \A m \in 1 .. k : m \in 1 .. Len(Quantiles) /\ m < next
      BY <2>1, <2>3
    <3>2. \A i, j \in 1 .. Len(Quantiles) : i < j => Quantiles[i] < Quantiles[j]
      BY QuantilesAssumption
    <3>3. \A i \in 1 .. Len(Quantiles) : Quantiles[i] \in Nat
      BY QuantileType
    <3> QED BY <2>3, <3>1, <3>2, <3>3
  <2> QED BY <2>1, <2>2, <2>3, <2>4, QuantileType DEF Rising
<1>2. /\ rows \in Seq(Nat \X Nat) /\ n \in Nat /\ n > 0
      /\ more \in Seq(Nat \X Nat) /\ Len(more) = n
      /\ more[n] = <<v, q>> /\ \A i \in 1 .. n - 1 : more[i] = rows[i]
      /\ rows[n][1] = v /\ rows[n][2] = Quantiles[k]
  <2>1. rows \in Seq(Nat \X Nat) /\ rows[n] = <<value[k], Quantiles[k]>>
    BY <1>1 DEF RowsFollow
  <2>2. n \in Nat /\ n > 0 /\ DOMAIN rows = 1 .. n
    BY <2>1
  <2>3. <<v, q>> \in Nat \X Nat
    BY <1>1
  <2>4. more \in Seq(Nat \X Nat) /\ Len(more) = n /\ DOMAIN more = 1 .. n
    BY <2>1, <2>3
  <2>5. more[n] = <<v, q>> /\ \A i \in 1 .. n - 1 : more[i] = rows[i]
    BY <2>2
  <2>6. rows[n][1] = v /\ rows[n][2] = Quantiles[k]
    BY <2>1
  <2> QED BY <2>1, <2>2, <2>4, <2>5, <2>6
<1>0. n \in Nat /\ \A i \in 1 .. n : \A j \in 1 .. i - 1 : j \in 1 .. n /\ j < n
  <2>1. n \in Nat
    BY <1>2
  <2> QED BY <2>1
<1>3. \A i, j \in 1 .. n : i < j => rows[i][1] < rows[j][1] /\ rows[i][2] < rows[j][2]
  BY DEF RowsFollow
<1>4. \A i \in 1 .. n : /\ rows[i][1] \in Nat /\ rows[i][2] \in Nat
                        /\ more[i][1] = rows[i][1] /\ rows[i][2] <= more[i][2]
                        /\ i < n => more[i][2] = rows[i][2]
  <2> SUFFICES ASSUME NEW i \in 1 .. n
               PROVE  /\ rows[i][1] \in Nat /\ rows[i][2] \in Nat
                      /\ more[i][1] = rows[i][1] /\ rows[i][2] <= more[i][2]
                      /\ i < n => more[i][2] = rows[i][2]
    OBVIOUS
  <2>1. rows[i] \in Nat \X Nat
    BY <1>2
  <2>2. rows[i][1] \in Nat /\ rows[i][2] \in Nat
    BY <2>1
  <2>3. CASE i = n
    <3>1. more[n][1] = rows[n][1] /\ more[n][2] = q /\ rows[n][2] = Quantiles[k]
      BY <1>2
    <3>2. Quantiles[k] \in Nat /\ q \in Nat /\ Quantiles[k] < q
      BY <1>1
    <3> QED BY <2>2, <2>3, <3>1, <3>2
  <2>4. CASE i # n
    <3>1. i \in 1 .. n - 1
      BY <1>2, <2>4
    <3>2. more[i] = rows[i]
      BY <1>2, <3>1
    <3> QED BY <2>2, <3>2
  <2> QED BY <2>3, <2>4
<1>5. \A i \in 1 .. n : i < n => rows[i][2] < q
  BY <1>1, <1>2, <1>3, <1>4
<1>6. \A i, j \in 1 .. Len(more) : i < j => more[i][1] < more[j][1] /\ more[i][2] < more[j][2]
  <2> TAKE i, j \in 1 .. Len(more)
  <2> HAVE i < j
  <2>1. i < n /\ n \in Nat /\ i \in 1 .. n /\ j \in 1 .. n
    BY <1>2
  <2>2. /\ rows[i][1] < rows[j][1] /\ rows[i][2] < rows[j][2]
        /\ more[i][1] = rows[i][1] /\ more[i][2] = rows[i][2]
        /\ more[j][1] = rows[j][1] /\ rows[j][2] <= more[j][2]
        /\ rows[i][2] \in Nat /\ rows[j][2] \in Nat /\ more[j][2] \in Nat
    <3>1. more[j] \in Nat \X Nat
      BY <1>2
    <3> QED BY <1>3, <1>4, <2>1, <3>1
  <2> QED BY <2>2
<1>7. ASSUME NEW m \in 1 .. next
      PROVE  \E i \in 1 .. Len(more) :
               /\ more[i][1] = value[m]
               /\ Quantiles[m] <= more[i][2]
               /\ \A j \in 1 .. i - 1 : more[j][2] < Quantiles[m]
  <2>1. CASE m = next
    <3>1. \A j \in 1 .. n - 1 : more[j][2] < q
      <4>1. \A j \in 1 .. n - 1 : j \in 1 .. n /\ j < n
        BY <1>0
      <4> QED BY <1>4, <1>5, <4>1
    <3>2. more[n][1] = v /\ more[n][2] = q /\ q <= q /\ n \in 1 .. Len(more)
      BY <1>1, <1>2
    <3>3. value[m] = v /\ Quantiles[m] = q
      BY <2>1
    <3> QED BY <3>1, <3>2, <3>3
  <2>2. CASE m \in 1 .. k
    <3>1. PICK i \in 1 .. n : /\ rows[i][1] = value[m] /\ Quantiles[m] <= rows[i][2]
                              /\ \A j \in 1 .. i - 1 : rows[j][2] < Quantiles[m]
      BY <2>2 DEF RowsFollow
    <3>2. \A j \in 1 .. i - 1 : j \in 1 .. n /\ j < n
      BY <1>0
    <3>3. i \in 1 .. Len(more) /\ more[i][1] = value[m] /\ \A j \in 1 .. i - 1 : more[j][2] < Quantiles[m]
      BY <1>2, <1>4, <3>1, <3>2
    <3>4. Quantiles[m] <= more[i][2]
      <4>1. Quantiles[m] \in Nat /\ rows[i][2] \in Nat /\ more[i][2] \in Nat
        BY <1>1, <1>2, <1>4, <2>2
      <4>2. rows[i][2] <= more[i][2] /\ Quantiles[m] <= rows[i][2]
        BY <1>4, <3>1
      <4> QED BY <4>1, <4>2
    <3> QED BY <3>3, <3>4
  <2>3. k \in Nat
    BY <1>1
  <2> QED BY <2>1, <2>2, <2>3
<1>8. more \in Seq(Nat \X Nat)
  BY <1>2
<1>9. next = 0 => more = <<>>
  BY <1>1
<1>10. next > 0 => more # <<>> /\ more[Len(more)] = <<value[next], Quantiles[next]>>
  BY <1>2
<1> QED BY <1>6, <1>7, <1>8, <1>9, <1>10 DEF RowsFollow

\* A new value has a row of its own.
LEMMA AppendedRow ==
  ASSUME NEW value, Rising(value), NEW k \in 0 .. Len(Quantiles) - 1, NEW next, next = k + 1,
         NEW rows, RowsFollow(rows, value, k),
         rows = <<>> \/ rows[Len(rows)][1] # value[next]
  PROVE  RowsFollow(Append(rows, <<value[next], Quantiles[next]>>), value, next)
<1> SUFFICES ASSUME NEW q, q = Quantiles[next], NEW v, v = value[next], NEW n, n = Len(rows),
                    NEW more, more = Append(rows, <<v, q>>)
             PROVE  RowsFollow(more, value, next)
  OBVIOUS
<1>1. /\ q \in Nat /\ v \in Nat /\ k \in Nat /\ next \in 1 .. Len(Quantiles)
      /\ \A m \in 1 .. k : /\ m \in 1 .. Len(Quantiles)
                           /\ Quantiles[m] \in Nat /\ Quantiles[m] < q
                           /\ value[m] \in Nat /\ value[m] <= v
  <2>1. k \in Nat /\ Len(Quantiles) \in Nat
    BY QuantileType
  <2>2. next \in 1 .. Len(Quantiles)
    BY <2>1
  <2>3. \A m \in 1 .. k : m \in 1 .. Len(Quantiles) /\ m < next
    BY <2>1, <2>2
  <2>4. \A m \in 1 .. k : Quantiles[m] \in Nat /\ Quantiles[m] < q
    <3>1. \A i, j \in 1 .. Len(Quantiles) : i < j => Quantiles[i] < Quantiles[j]
      BY QuantilesAssumption
    <3>2. \A i \in 1 .. Len(Quantiles) : Quantiles[i] \in Nat
      BY QuantileType
    <3> QED BY <2>2, <2>3, <3>1, <3>2
  <2>5. \A m \in 1 .. k : value[m] \in Nat /\ value[m] <= v
    BY <2>2, <2>3 DEF Rising
  <2> QED BY <2>1, <2>2, <2>3, <2>4, <2>5, QuantileType DEF Rising
<1>2. /\ rows \in Seq(Nat \X Nat) /\ n \in Nat
      /\ more \in Seq(Nat \X Nat) /\ Len(more) = n + 1
      /\ more[n + 1] = <<v, q>> /\ \A i \in 1 .. n : more[i] = rows[i] /\ rows[i] \in Nat \X Nat
  <2>1. rows \in Seq(Nat \X Nat)
    BY DEF RowsFollow
  <2> QED BY <1>1, <2>1
<1>0. n \in Nat /\ \A i \in 1 .. n : \A j \in 1 .. i - 1 : j \in 1 .. n
  <2>1. n \in Nat
    BY <1>2
  <2> QED BY <2>1
<1>3. \A i, j \in 1 .. n : i < j => rows[i][1] < rows[j][1] /\ rows[i][2] < rows[j][2]
  BY DEF RowsFollow
<1>4. \A i \in 1 .. n : rows[i][1] < v /\ rows[i][2] < q
  <2> SUFFICES ASSUME NEW i \in 1 .. n PROVE rows[i][1] < v /\ rows[i][2] < q
    OBVIOUS
  <2>1. n > 0 /\ rows # <<>>
    BY <1>2
  <2>2. k > 0 /\ rows[n] = <<value[k], Quantiles[k]>>
    <3>1. k # 0
      BY <2>1 DEF RowsFollow
    <3>2. k > 0
      BY <1>1, <3>1
    <3> QED BY <3>2 DEF RowsFollow
  <2>3. rows[n][1] = value[k] /\ rows[n][2] = Quantiles[k] /\ value[k] # v
    BY <2>1, <2>2
  <2>4. value[k] \in Nat /\ value[k] < v /\ Quantiles[k] \in Nat /\ Quantiles[k] < q
    <3>1. k \in 1 .. k
      BY <1>1, <2>2
    <3>2. value[k] \in Nat /\ value[k] <= v /\ Quantiles[k] \in Nat /\ Quantiles[k] < q
      BY <1>1, <3>1
    <3> QED BY <1>1, <2>3, <3>2
  <2>5. rows[i][1] \in Nat /\ rows[i][2] \in Nat /\ n \in 1 .. n
    <3>1. rows[i] \in Nat \X Nat
      BY <1>2
    <3> QED BY <1>0, <2>1, <3>1
  <2>6. i # n => rows[i][1] < rows[n][1] /\ rows[i][2] < rows[n][2]
    <3>1. i # n => i < n
      BY <1>0
    <3> QED BY <1>3, <2>5, <3>1
  <2>7. CASE i = n
    BY <2>3, <2>4, <2>7
  <2>8. CASE i # n
    <3>1. v \in Nat /\ q \in Nat
      BY <1>1
    <3>2. rows[i][1] < value[k] /\ rows[i][2] < Quantiles[k]
      BY <2>3, <2>6, <2>8
    <3>3. \A a, b, c \in Nat : a < b /\ b < c => a < c
      OBVIOUS
    <3> QED BY <2>4, <2>5, <3>1, <3>2, <3>3, Zenon
  <2> QED BY <2>7, <2>8
<1>5. more \in Seq(Nat \X Nat)
  BY <1>2
<1>6. next = 0 => more = <<>>
  BY <1>1
<1>7. next > 0 => more # <<>> /\ more[Len(more)] = <<value[next], Quantiles[next]>>
  <2>1. Len(more) = n + 1 /\ more[n + 1] = <<v, q>>
    BY <1>2
  <2>2. more # <<>>
    BY <1>0, <2>1
  <2> QED BY <2>1, <2>2
<1>8. \A i, j \in 1 .. Len(more) : i < j => more[i][1] < more[j][1] /\ more[i][2] < more[j][2]
  <2> TAKE i, j \in 1 .. Len(more)
  <2> HAVE i < j
  <2>1. i \in 1 .. n /\ (j \in 1 .. n \/ j = n + 1)
    <3>1. Len(more) = n + 1
      BY <1>2
    <3> QED BY <1>0, <3>1
  <2>2. more[i] = rows[i]
    BY <1>2, <2>1
  <2>3. CASE j \in 1 .. n
    <3>1. more[j] = rows[j]
      BY <1>2, <2>3
    <3> QED BY <1>3, <2>1, <2>2, <2>3, <3>1
  <2>4. CASE j = n + 1
    <3>1. more[j] = <<v, q>>
      BY <1>2, <2>4
    <3>2. <<v, q>>[1] = v /\ <<v, q>>[2] = q
      OBVIOUS
    <3> QED BY <1>4, <2>1, <2>2, <3>1, <3>2
  <2> QED BY <2>1, <2>3, <2>4
<1>9. ASSUME NEW m \in 1 .. next
      PROVE  \E i \in 1 .. Len(more) :
               /\ more[i][1] = value[m]
               /\ Quantiles[m] <= more[i][2]
               /\ \A j \in 1 .. i - 1 : more[j][2] < Quantiles[m]
  <2>1. CASE m = next
    <3>1. \A j \in 1 .. n + 1 - 1 : more[j][2] < q
      BY <1>2, <1>4
    <3>2. more[n + 1][1] = v /\ more[n + 1][2] = q /\ q <= q
      BY <1>1, <1>2
    <3>3. n + 1 \in 1 .. Len(more)
      BY <1>2
    <3>4. value[m] = v /\ Quantiles[m] = q
      BY <2>1
    <3> QED BY <3>1, <3>2, <3>3, <3>4
  <2>2. CASE m \in 1 .. k
    <3>1. PICK i \in 1 .. n : /\ rows[i][1] = value[m] /\ Quantiles[m] <= rows[i][2]
                              /\ \A j \in 1 .. i - 1 : rows[j][2] < Quantiles[m]
      BY <2>2 DEF RowsFollow
    <3>2. i \in 1 .. Len(more)
      <4>1. Len(more) = n + 1
        BY <1>2
      <4> QED BY <1>0, <4>1
    <3>3. \A j \in 1 .. i - 1 : j \in 1 .. n
      BY <1>0
    <3>4. \A j \in 1 .. n : more[j] = rows[j]
      BY <1>2
    <3>5. more[i][1] = value[m] /\ Quantiles[m] <= more[i][2]
      BY <3>1, <3>4
    <3>6. \A j \in 1 .. i - 1 : more[j][2] < Quantiles[m]
      BY <3>1, <3>3, <3>4
    <3> QED BY <3>2, <3>5, <3>6
  <2>3. m = next \/ m \in 1 .. k
    BY <1>1
  <2> QED BY <2>1, <2>2, <2>3
<1> QED BY <1>5, <1>6, <1>7, <1>8, <1>9 DEF RowsFollow

\* The rows with the next one merged or appended.
WithRow(rows, v, q) ==
  IF rows # <<>> /\ rows[Len(rows)][1] = v THEN [rows EXCEPT ![Len(rows)] = <<v, q>>]
  ELSE Append(rows, <<v, q>>)

\* Whichever of the two a turn of write_cdf's loop does, the rows lead to the values.
LEMMA FollowingRow ==
  ASSUME NEW value, Rising(value), NEW k \in 0 .. Len(Quantiles) - 1, NEW next, next = k + 1,
         NEW rows, RowsFollow(rows, value, k)
  PROVE  RowsFollow(WithRow(rows, value[next], Quantiles[next]), value, next)
BY MergedRow, AppendedRow DEF WithRow

\* A turn of write_cdf's loop.
LEMMA AddQuantileInv ==
  ASSUME IndInv, AddQuantile
  PROVE  IndInv'
<1> USE DEF AddQuantile
<1>1. streams \in Seq(StreamState) /\ ranks \in 0 .. Len(Quantiles) /\ RowsFollow(cdf, Values, ranks)
  BY DEF IndInv, TypeOK, CdfFacts
<1>2. PICK value, rows, k : value = Values /\ rows = cdf /\ k = ranks
  OBVIOUS
<1>3. k \in 0 .. Len(Quantiles) - 1
  BY <1>1, <1>2, QuantileType
<1>4. PICK next : next = k + 1
  OBVIOUS
<1>5. PICK more : more = cdf'
  OBVIOUS
<1>6. Rising(value) /\ RowsFollow(rows, value, k)
  BY <1>1, <1>2, ValuesRise
<1>7. value[next] = Percentile(Sizes, Quantiles[ranks + 1])
  <2>1. next \in 1 .. Len(Quantiles)
    BY <1>3, <1>4, QuantileType
  <2> QED BY <1>2, <1>4, <2>1 DEF Values
<1>8. more = WithRow(rows, value[next], Quantiles[next])
  BY <1>2, <1>4, <1>5, <1>7 DEF WithRow
<1>9. RowsFollow(more, value, next)
  BY <1>3, <1>4, <1>6, <1>8, FollowingRow
<1>10. CdfFacts'
  <2>1. value = Values'
    <3>1. Sizes' = Sizes
      BY OutputsStay
    <3> QED BY <1>2, <3>1 DEF Values
  <2>2. next = ranks' /\ pc' = "cdf"
    BY <1>2, <1>4
  <2> QED BY <1>5, <1>9, <2>1, <2>2 DEF CdfFacts
<1>11. TypeOK'
  BY <1>1, QuantileType DEF IndInv, TypeOK
<1>12. TraceFacts' /\ StreamFacts'
  BY StreamsStay DEF IndInv
<1>13. StatsFacts'
  BY DEF IndInv, StatsFacts
<1>14. DatasetFacts'
  BY OutputsStay DEF IndInv, DatasetFacts
<1>15. CdfFollowsSizes' /\ SummaryDescribesFiles'
  BY DEF CdfFollowsSizes, SummaryDescribesFiles
<1>16. LabelsFollowChosenSize'
  BY DEF IndInv, LabelsFollowChosenSize
<1> QED BY <1>10, <1>11, <1>12, <1>13, <1>14, <1>15, <1>16 DEF IndInv

\* The number of flows below a percentile, and up to it.
LEMMA PlaceOfPercentile ==
  ASSUME NEW S, IsFiniteSet(S), NEW sizes \in [S -> Nat], NEW n, n = Cardinality(S), n > 0,
         NEW q \in 0 .. One, NEW value, value = Percentile(sizes, q)
  PROVE  One * Below(sizes, value) <= (n - 1) * q /\ (n - 1) * q < One * UpTo(sizes, value)
<1>1. n \in Nat /\ S # {}
  BY FS_CardinalityType, FS_EmptySet
<1>2. PICK index : index = Index(n, q)
  OBVIOUS
<1>3. index \in Nat /\ One * index <= (n - 1) * q /\ (n - 1) * q < One * index + One
  BY <1>1, <1>2, IndexFacts
<1>4. Below(sizes, value) <= index /\ index < UpTo(sizes, value)
  BY <1>1, <1>2, PercentileFacts
<1>5. Below(sizes, value) \in Nat /\ UpTo(sizes, value) \in Nat
  BY Counts
<1>6. PICK b, u, product : /\ b = Below(sizes, value) /\ u = UpTo(sizes, value)
                           /\ product = (n - 1) * q
  OBVIOUS
<1>7. product \in Nat
  BY <1>1, <1>6, QuantileType
<1>8. One * b <= One * index /\ One * index + One <= One * u
  BY <1>2, <1>3, <1>4, <1>5, <1>6 DEF One
<1>9. One * b \in Nat /\ One * index \in Nat /\ One * u \in Nat /\ One \in Nat
  BY <1>3, <1>5, <1>6 DEF One
<1> QED BY <1>3, <1>6, <1>7, <1>8, <1>9

\* The file has <<0, 0>> before the rows.
FromZero(rows) == <<<<0, 0>>>> \o rows

\* It has the rows moved up by one.
LEMMA FromZeroFacts ==
  ASSUME NEW rows \in Seq(Nat \X Nat)
  PROVE  /\ FromZero(rows) \in Seq(Nat \X Nat) /\ Len(FromZero(rows)) = Len(rows) + 1
         /\ FromZero(rows)[1] = <<0, 0>>
         /\ \A i \in 1 .. Len(rows) : FromZero(rows)[i + 1] = rows[i] /\ rows[i] \in Nat \X Nat
<1>1. PICK first : first = <<<<0, 0>>>>
  OBVIOUS
<1>2. first \in Seq(Nat \X Nat) /\ Len(first) = 1 /\ first[1] = <<0, 0>>
  BY <1>1
<1>3. /\ first \o rows \in Seq(Nat \X Nat)
      /\ Len(first \o rows) = Len(first) + Len(rows)
      /\ \A i \in 1 .. Len(first) + Len(rows) :
           (first \o rows)[i] = IF i <= Len(first) THEN first[i] ELSE rows[i - Len(first)]
  BY <1>2, ConcatProperties
<1>4. PICK all : all = FromZero(rows)
  OBVIOUS
<1>5. first \o rows = all
  BY <1>1, <1>4 DEF FromZero
<1>6. /\ all \in Seq(Nat \X Nat)
      /\ Len(all) = Len(first) + Len(rows)
      /\ \A i \in 1 .. Len(first) + Len(rows) :
           all[i] = IF i <= Len(first) THEN first[i] ELSE rows[i - Len(first)]
  BY <1>3, <1>5, Zenon
<1>7. PICK n, one : n = Len(rows) /\ one = Len(first)
  OBVIOUS
<1>8. n \in Nat /\ one = 1 /\ Len(all) = n + 1
  BY <1>2, <1>6, <1>7
<1>9. all[1] = <<0, 0>>
  <2>1. 1 \in 1 .. one + n /\ 1 <= one
    BY <1>8
  <2> QED BY <1>2, <1>6, <1>7, <2>1
<1>10. ASSUME NEW i \in 1 .. n
       PROVE  all[i + 1] = rows[i] /\ rows[i] \in Nat \X Nat
  <2>1. i + 1 \in 1 .. one + n /\ ~ (i + 1 <= one) /\ (i + 1) - one = i
    BY <1>8
  <2>2. all[i + 1] = rows[i]
    BY <1>6, <1>7, <2>1
  <2> QED BY <1>7, <2>2
<1> QED BY <1>4, <1>6, <1>7, <1>8, <1>9, <1>10

\* The first row that a quantile does not exceed is its row of the file.
LEMMA RowFound ==
  ASSUME NEW value, NEW rows, RowsFollow(rows, value, Len(Quantiles)),
         NEW k \in 1 .. Len(Quantiles)
  PROVE  FromZero(rows)[RowOf(FromZero(rows), Quantiles[k])][1] = value[k]
<1>0. PICK table : table = FromZero(rows)
  OBVIOUS
<1>1. /\ rows \in Seq(Nat \X Nat) /\ Len(rows) \in Nat
      /\ Len(table) = Len(rows) + 1 /\ \A i \in 1 .. Len(rows) : table[i + 1] = rows[i]
  <2>1. rows \in Seq(Nat \X Nat)
    BY DEF RowsFollow
  <2>2. /\ Len(FromZero(rows)) = Len(rows) + 1
        /\ \A i \in 1 .. Len(rows) : FromZero(rows)[i + 1] = rows[i] /\ rows[i] \in Nat \X Nat
    BY <2>1, FromZeroFacts
  <2>3. Len(table) = Len(rows) + 1 /\ \A i \in 1 .. Len(rows) : table[i + 1] = rows[i]
    BY <1>0, <2>2
  <2>4. Len(rows) \in Nat
    BY <2>1
  <2> QED BY <2>1, <2>3, <2>4
<1>2. PICK i \in 1 .. Len(rows) : /\ rows[i][1] = value[k]
                                  /\ Quantiles[k] <= rows[i][2]
                                  /\ \A j \in 1 .. i - 1 : rows[j][2] < Quantiles[k]
  BY DEF RowsFollow
<1>3. PICK q : q = Quantiles[k]
  OBVIOUS
<1>4. q \in Nat /\ \A j \in 1 .. Len(rows) : rows[j][2] \in Nat
  <2>1. q \in Nat
    BY <1>3, QuantileType
  <2>2. \A j \in 1 .. Len(rows) : rows[j] \in Nat \X Nat
    BY <1>1
  <2> QED BY <2>1, <2>2
<1>5. PICK row : row = i + 1
  OBVIOUS
<1>6. /\ row \in 2 .. Len(table) /\ q <= table[row][2] /\ table[row][1] = value[k]
      /\ \A j \in 2 .. row - 1 : table[j][2] < q
  <2>1. row \in 2 .. Len(table) /\ table[row] = rows[i]
    <3>1. Len(rows) \in Nat /\ Len(table) = Len(rows) + 1
      BY <1>1
    <3>2. row \in 2 .. Len(table)
      BY <1>5, <3>1
    <3>3. table[i + 1] = rows[i]
      BY <1>1
    <3> QED BY <1>5, <3>2, <3>3
  <2>2. ASSUME NEW j \in 2 .. row - 1
        PROVE  table[j][2] < q
    <3>1. j - 1 \in 1 .. i - 1 /\ j - 1 \in 1 .. Len(rows) /\ (j - 1) + 1 = j
      BY <1>1, <1>5
    <3>2. table[j] = rows[j - 1]
      BY <1>1, <3>1
    <3> QED BY <1>2, <1>3, <3>1, <3>2
  <2> QED BY <1>2, <1>3, <2>1, <2>2
<1>7. ASSUME NEW other \in 2 .. Len(table), q <= table[other][2],
             \A j \in 2 .. other - 1 : table[j][2] < q
      PROVE  other = row
  <2>1. \A j \in 2 .. Len(table) : table[j][2] \in Nat
    <3> SUFFICES ASSUME NEW j \in 2 .. Len(table) PROVE table[j][2] \in Nat
      OBVIOUS
    <3>1. j - 1 \in 1 .. Len(rows) /\ (j - 1) + 1 = j
      BY <1>1
    <3> QED BY <1>1, <1>4, <3>1
  <2>2. ~ (other < row)
    BY <1>4, <1>6, <1>7, <2>1
  <2>3. ~ (row < other)
    BY <1>4, <1>6, <1>7, <2>1
  <2> QED BY <1>1, <1>6, <2>2, <2>3
<1>8. RowOf(table, q) = row
  BY <1>6, <1>7 DEF RowOf
<1> QED BY <1>0, <1>3, <1>6, <1>8

\* The flows of the table are the flows of the streams, with their sizes.
LEMMA FlowsOfTable ==
  ASSUME streams \in Seq(StreamState), stats = [i \in DOMAIN streams |-> StatsRow(streams[i])]
  PROVE  /\ {i \in DOMAIN stats : stats[i].size > 0} = Flows
         /\ {stats[i].size : i \in Flows} = Range(Sizes)
         /\ \A v : /\ {i \in Flows : stats[i].size < v} = Smaller(Sizes, v)
                   /\ {i \in Flows : stats[i].size <= v} = NotLarger(Sizes, v)
         /\ stats \in Seq({StatsRow(s) : s \in StreamState}) /\ Len(stats) = Len(streams)
<1>1. \A i \in DOMAIN streams : stats[i].size = FlowSizeBytes(streams[i])
  BY DEF StatsRow
<1>2. DOMAIN stats = DOMAIN streams /\ DOMAIN streams = 1 .. Len(streams) /\ Len(streams) \in Nat
  OBVIOUS
<1>3. {i \in DOMAIN stats : stats[i].size > 0} = Flows
  BY <1>1, <1>2 DEF Flows
<1>4. DOMAIN Sizes = Flows /\ \A i \in Flows : i \in DOMAIN streams /\ Sizes[i] = stats[i].size
  BY <1>1 DEF Sizes, Flows
<1>5. {stats[i].size : i \in Flows} = Range(Sizes)
  <2>1. Range(Sizes) = {Sizes[i] : i \in Flows}
    BY <1>4 DEF Range
  <2> QED BY <1>4, <2>1
<1>6. \A v : /\ {i \in Flows : stats[i].size < v} = Smaller(Sizes, v)
             /\ {i \in Flows : stats[i].size <= v} = NotLarger(Sizes, v)
  BY <1>4 DEF Smaller, NotLarger
<1>7. stats \in Seq({StatsRow(s) : s \in StreamState}) /\ Len(stats) = Len(streams)
  BY <1>2
<1> QED BY <1>3, <1>5, <1>6, <1>7

\* The largest flow, or 0.
LEMMA LargestFacts ==
  ASSUME streams \in Seq(StreamState)
  PROVE  Largest = Max({0} \cup Range(Sizes))
<1>1. IsFiniteSet(Flows) /\ Sizes \in [Flows -> Nat]
  BY OutputTypes
<1>2. Range(Sizes) \in SUBSET Nat /\ IsFiniteSet(Range(Sizes))
  <2>1. Sizes \in Surjection(Flows, Range(Sizes))
    BY <1>1 DEF Surjection, Range
  <2> QED BY <1>1, <2>1, FS_Surjection DEF Range
<1> DEFINE all == {0} \cup Range(Sizes)
<1>3. all \in SUBSET Nat /\ all # {} /\ IsFiniteSet(all)
  <2>1. IsFiniteSet({0})
    BY FS_Singleton
  <2>2. IsFiniteSet({0} \cup Range(Sizes))
    BY <1>2, <2>1, FS_Union
  <2> QED BY <1>2, <2>2
<1>4. Max(all) \in all /\ \A v \in all : Max(all) >= v
  BY <1>3, MaxFacts
<1>5. CASE Flows = {}
  <2>1. all = {0}
    BY <1>1, <1>5 DEF Range
  <2> QED BY <1>4, <1>5, <2>1 DEF Largest
<1>6. CASE Flows # {}
  <2>1. Range(Sizes) # {}
    BY <1>1, <1>6 DEF Range
  <2>2. Max(Range(Sizes)) \in Range(Sizes) /\ \A v \in Range(Sizes) : Max(Range(Sizes)) >= v
    BY <1>2, <2>1, MaxFacts
  <2>3. Max(Range(Sizes)) \in all /\ Max(Range(Sizes)) \in Nat
    BY <1>2, <2>2
  <2>4. Max(all) \in Nat /\ Max(all) >= Max(Range(Sizes))
    BY <1>3, <1>4, <2>3
  <2>5. Max(all) = 0 \/ Max(Range(Sizes)) >= Max(all)
    BY <1>4, <2>2
  <2>6. Max(all) = Max(Range(Sizes))
    <3> HIDE DEF all
    <3> QED BY <2>3, <2>4, <2>5
  <2> QED BY <1>6, <2>6 DEF Largest
<1> QED BY <1>5, <1>6

\* The first row is never <<0, 0>>: a flow has payload, and when there is none,
\* all quantiles have merged into one row.
LEMMA FirstRow ==
  ASSUME streams \in Seq(StreamState), NEW rows, RowsFollow(rows, Values, Len(Quantiles))
  PROVE  /\ rows \in Seq(Nat \X Nat) /\ rows # <<>>
         /\ rows[1] # <<0, 0>>
         /\ rows[Len(rows)] = <<Largest, One>>
         /\ rows[1][1] > 0 \/ Flows = {}
<1>1. PICK m : m = Len(Quantiles)
  OBVIOUS
<1>2. m \in Nat /\ m > 0 /\ m \in 1 .. m /\ 1 \in 1 .. m
  BY <1>1, QuantileType
<1>3. /\ rows \in Seq(Nat \X Nat) /\ rows # <<>>
      /\ rows[Len(rows)] = <<Values[m], Quantiles[m]>>
  BY <1>1, <1>2 DEF RowsFollow
<1>4. Quantiles[m] = One /\ Quantiles[1] = 0 /\ One # 0 /\ One \in 0 .. One
  BY <1>1, QuantilesAssumption, QuantileType DEF One
<1>5. Values[m] = Percentile(Sizes, One) /\ Values[1] = Percentile(Sizes, 0)
  BY <1>1, <1>2, <1>4 DEF Values
<1>6. IsFiniteSet(Flows) /\ Sizes \in [Flows -> Nat]
  BY OutputTypes
<1>7. Values[m] = Largest
  <2>1. CASE Flows = {}
    BY <1>4, <1>5, <1>6, <2>1, PercentileType DEF Largest
  <2>2. CASE Flows # {}
    BY <1>4, <1>5, <1>6, <2>2, LargestPercentile DEF Largest
  <2> QED BY <2>1, <2>2
<1>8. PICK n : n = Len(rows)
  OBVIOUS
<1>9. n \in Nat /\ n > 0 /\ 1 \in 1 .. n /\ n \in 1 .. n /\ rows[1] \in Nat \X Nat
  BY <1>3, <1>8
<1>10. rows[1] # <<0, 0>> /\ (rows[1][1] > 0 \/ Flows = {})
  <2>1. CASE Flows = {}
    <3>1. Largest = 0
      BY <2>1 DEF Largest
    <3>2. rows[n][1] = 0 /\ rows[n][2] = One
      BY <1>3, <1>4, <1>7, <1>8, <3>1
    <3>3. n # 1 => rows[1][1] < rows[n][1]
      BY <1>8, <1>9 DEF RowsFollow
    <3>4. rows[1][1] \in Nat
      BY <1>9
    <3>5. n = 1
      BY <3>2, <3>3, <3>4
    <3> QED BY <1>4, <2>1, <3>2, <3>5
  <2>2. CASE Flows # {}
    <3>1. 0 \in 0 .. One
      BY QuantileType
    <3>2. Values[1] \in Range(Sizes)
      BY <1>5, <1>6, <2>2, <3>1, PercentileFacts
    <3>3. \A v \in Range(Sizes) : v > 0
      BY DEF Range, Sizes, Flows
    <3>4. PICK i \in 1 .. n : rows[i][1] = Values[1] /\ \A j \in 1 .. i - 1 : rows[j][2] < 0
      <4>1. 1 \in 1 .. Len(Quantiles)
        BY <1>1, <1>2
      <4>2. PICK i \in 1 .. n : rows[i][1] = Values[1] /\ \A j \in 1 .. i - 1 : rows[j][2] < Quantiles[1]
        BY <1>8, <4>1 DEF RowsFollow
      <4>3. Quantiles[1] = 0
        BY <1>4
      <4> QED BY <4>2, <4>3
    <3>5. i = 1
      <4>1. rows[1][2] \in Nat
        BY <1>9
      <4>2. i # 1 => 1 \in 1 .. i - 1
        BY <1>9
      <4> QED BY <3>4, <4>1, <4>2
    <3>6. rows[1][1] > 0
      BY <3>2, <3>3, <3>4, <3>5
    <3> QED BY <3>6
  <2> QED BY <2>1, <2>2
<1> QED BY <1>3, <1>4, <1>7, <1>10

\* The end of write_cdf.
LEMMA WriteCdfInv ==
  ASSUME IndInv, WriteCdf
  PROVE  IndInv'
<1> USE DEF WriteCdf
<1>1. /\ streams \in Seq(StreamState) /\ RowsFollow(cdf, Values, Len(Quantiles))
      /\ stats = [i \in DOMAIN streams |-> StatsRow(streams[i])]
      /\ pc = "cdf" /\ pc' = "summary" /\ streams' = streams /\ stats' = stats
  BY DEF IndInv, TypeOK, CdfFacts, StatsFacts
<1>2. PICK rows, table, n : rows = cdf /\ table = stats /\ n = Cardinality(Flows)
  OBVIOUS
<1>3. PICK written : written = FromZero(rows)
  OBVIOUS
<1>4. RowsFollow(rows, Values, Len(Quantiles))
  BY <1>1, <1>2
<1>5. /\ rows \in Seq(Nat \X Nat) /\ rows # <<>> /\ rows[1] # <<0, 0>>
      /\ rows[Len(rows)] = <<Largest, One>> /\ (rows[1][1] > 0 \/ Flows = {})
  BY <1>1, <1>4, FirstRow
<1>6. /\ Len(rows) \in Nat /\ Len(rows) > 0 /\ Len(written) = Len(rows) + 1
      /\ written[1] = <<0, 0>> /\ written \in Seq(Nat \X Nat)
      /\ \A i \in 1 .. Len(rows) : written[i + 1] = rows[i] /\ rows[i] \in Nat \X Nat
      /\ written[Len(written)] = <<Largest, One>>
  <2>1. /\ Len(rows) \in Nat /\ Len(rows) > 0 /\ Len(written) = Len(rows) + 1
        /\ written[1] = <<0, 0>> /\ written \in Seq(Nat \X Nat)
        /\ \A i \in 1 .. Len(rows) : written[i + 1] = rows[i] /\ rows[i] \in Nat \X Nat
    <3>1. Len(rows) \in Nat /\ Len(rows) > 0
      BY <1>5
    <3>2. /\ FromZero(rows) \in Seq(Nat \X Nat) /\ Len(FromZero(rows)) = Len(rows) + 1
          /\ FromZero(rows)[1] = <<0, 0>>
          /\ \A i \in 1 .. Len(rows) : FromZero(rows)[i + 1] = rows[i] /\ rows[i] \in Nat \X Nat
      BY <1>5, FromZeroFacts
    <3> QED BY <1>3, <3>1, <3>2
  <2>2. written[Len(rows) + 1] = rows[Len(rows)]
    <3>1. Len(rows) \in 1 .. Len(rows)
      BY <2>1
    <3>2. \A i \in 1 .. Len(rows) : written[i + 1] = rows[i]
      BY <2>1
    <3> QED BY <3>1, <3>2
  <2> QED BY <1>5, <2>1, <2>2
<1>7. written = cdf'
  <2>1. Head(rows) # <<0, 0>> /\ written[Len(written)][2] = One
    BY <1>5, <1>6
  <2> QED BY <1>2, <1>3, <2>1 DEF FromZero
<1>8. /\ {i \in DOMAIN table : table[i].size > 0} = Flows
      /\ {table[i].size : i \in Flows} = Range(Sizes)
      /\ \A v : /\ {i \in Flows : table[i].size < v} = Smaller(Sizes, v)
                /\ {i \in Flows : table[i].size <= v} = NotLarger(Sizes, v)
  BY <1>1, <1>2, FlowsOfTable
<1>9. n \in Nat /\ (n = 0 <=> Flows = {}) /\ IsFiniteSet(Flows) /\ Sizes \in [Flows -> Nat]
  BY <1>1, <1>2, OutputTypes, FS_CardinalityType, FS_EmptySet
<1>10. ASSUME NEW i \in 2 .. Len(written)
       PROVE  /\ written[i - 1][1] < written[i][1] \/ n = 0
              /\ written[i - 1][2] <= written[i][2]
  <2>1. i - 1 \in 1 .. Len(rows) /\ written[i] = rows[i - 1] /\ rows[i - 1] \in Nat \X Nat
    <3>1. i - 1 \in 1 .. Len(rows) /\ (i - 1) + 1 = i
      BY <1>6
    <3> QED BY <1>6, <3>1
  <2>2. CASE i = 2
    <3>1. written[i - 1] = <<0, 0>> /\ written[i] = rows[1]
      BY <1>6, <2>1, <2>2
    <3>2. rows[1][1] \in Nat /\ rows[1][2] \in Nat
      BY <2>1, <2>2
    <3>3. written[i - 1][1] = 0 /\ written[i - 1][2] = 0
      BY <3>1
    <3>4. rows[1][1] > 0 \/ n = 0
      BY <1>5, <1>9
    <3> QED BY <3>1, <3>2, <3>3, <3>4
  <2>3. CASE i # 2
    <3>1. /\ i - 2 \in 1 .. Len(rows) /\ (i - 2) + 1 = i - 1 /\ i - 2 < i - 1
      <4>1. Len(rows) \in Nat /\ Len(written) = Len(rows) + 1
        BY <1>6
      <4> QED BY <2>3, <4>1
    <3>2. written[i - 1] = rows[i - 2] /\ rows[i - 2] \in Nat \X Nat
      BY <1>6, <3>1
    <3>3. rows[i - 2][1] < rows[i - 1][1] /\ rows[i - 2][2] < rows[i - 1][2]
      BY <1>4, <2>1, <3>1 DEF RowsFollow
    <3> QED BY <2>1, <3>2, <3>3
  <2> QED BY <2>2, <2>3
<1>11. ASSUME n > 0, NEW k \in 1 .. Len(Quantiles) - 1
       PROVE  LET q == Quantiles[k]
                  value == written[RowOf(written, q)][1]
              IN /\ One * Cardinality({i \in Flows : table[i].size < value}) <= (n - 1) * q
                 /\ (n - 1) * q < One * Cardinality({i \in Flows : table[i].size <= value})
  <2>1. k \in 1 .. Len(Quantiles)
    BY QuantileType
  <2>2. PICK q, value : q = Quantiles[k] /\ value = written[RowOf(written, q)][1]
    OBVIOUS
  <2>3. value = Percentile(Sizes, q) /\ q \in 0 .. One
    <3>1. PICK values : values = Values
      OBVIOUS
    <3>2. RowsFollow(rows, values, Len(Quantiles))
      BY <1>4, <3>1
    <3>3. written[RowOf(written, Quantiles[k])][1] = values[k]
      BY <1>3, <2>1, <3>2, RowFound
    <3>4. value = Values[k]
      BY <2>2, <3>1, <3>3
    <3> QED BY <2>1, <2>2, <3>4, QuantileType DEF Values
  <2>4. One * Below(Sizes, value) <= (n - 1) * q /\ (n - 1) * q < One * UpTo(Sizes, value)
    BY <1>2, <1>9, <1>11, <2>3, PlaceOfPercentile
  <2>5. /\ Below(Sizes, value) = Cardinality({i \in Flows : table[i].size < value})
        /\ UpTo(Sizes, value) = Cardinality({i \in Flows : table[i].size <= value})
    <3>1. /\ Below(Sizes, value) = Cardinality(Smaller(Sizes, value))
          /\ UpTo(Sizes, value) = Cardinality(NotLarger(Sizes, value))
      BY <1>9, Counts
    <3>2. /\ Smaller(Sizes, value) = {i \in Flows : table[i].size < value}
          /\ NotLarger(Sizes, value) = {i \in Flows : table[i].size <= value}
      BY <1>8
    <3> QED BY <3>1, <3>2
  <2> QED BY <2>2, <2>4, <2>5
<1>12. CdfFollowsSizes'
  <2>1. written[Len(written)] = <<Max({0} \cup {table[i].size : i \in Flows}), One>>
    BY <1>1, <1>6, <1>8, LargestFacts
  <2>2. written = cdf' /\ table = stats'
    BY <1>1, <1>2, <1>7
  <2>3. n = Cardinality({i \in DOMAIN table : table[i].size > 0})
    BY <1>2, <1>8
  <2>4. LET flows == {i \in DOMAIN table : table[i].size > 0}
            sizes == {table[i].size : i \in flows}
            m == Cardinality(flows)
        IN /\ written[1] = <<0, 0>>
           /\ written[Len(written)] = <<Max({0} \cup sizes), One>>
           /\ \A i \in 2 .. Len(written) :
                /\ written[i - 1][1] < written[i][1] \/ m = 0
                /\ written[i - 1][2] <= written[i][2]
           /\ m > 0 =>
                \A k \in 1 .. Len(Quantiles) - 1 :
                  LET q == Quantiles[k]
                      value == written[RowOf(written, q)][1]
                  IN /\ One * Cardinality({i \in flows : table[i].size < value}) <= (m - 1) * q
                     /\ (m - 1) * q < One * Cardinality({i \in flows : table[i].size <= value})
    BY <1>2, <1>6, <1>8, <1>10, <1>11, <2>1
  <2> QED BY <2>2, <2>4 DEF CdfFollowsSizes
<1>13. TypeOK' /\ CdfFacts'
  BY DEF IndInv, TypeOK, CdfFacts
<1>14. TraceFacts' /\ StreamFacts'
  BY StreamsStay DEF IndInv
<1>15. StatsFacts'
  BY DEF IndInv, StatsFacts
<1>16. DatasetFacts'
  BY OutputsStay DEF IndInv, DatasetFacts
<1>17. SummaryDescribesFiles'
  BY DEF SummaryDescribesFiles
<1>18. LabelsFollowChosenSize'
  BY DEF IndInv, LabelsFollowChosenSize
<1>19. (pc' = "read" => files' # <<>>) /\ (pc' # "relabel" => relabels' = 0 /\ field' = "directional")
  BY DEF IndInv
<1> QED BY <1>12, <1>13, <1>14, <1>15, <1>16, <1>17, <1>18, <1>19 DEF IndInv

-----------------------------------------------------------------------------
(* The summary. *)

\* A fifth of the sizes are not below their 80th percentile.
LEMMA ShareAbove ==
  ASSUME NEW S, IsFiniteSet(S), NEW sizes \in [S -> Nat],
         NEW value, value = Percentile(sizes, P80)
  PROVE  5 * Cardinality({i \in S : sizes[i] >= value}) >= Cardinality(S)
<1> DEFINE above == {i \in S : sizes[i] >= value}
<1>1. PICK n, a : n = Cardinality(S) /\ a = Cardinality(above)
  OBVIOUS
<1>2. IsFiniteSet(above) /\ n \in Nat /\ a \in Nat
  <2>1. above \in SUBSET S
    OBVIOUS
  <2>2. IsFiniteSet(above)
    BY <2>1, FS_Subset
  <2> QED BY <1>1, <2>2, FS_CardinalityType
<1>3. CASE S = {}
  <2>1. n = 0
    BY <1>1, <1>3, FS_EmptySet
  <2> HIDE DEF above
  <2> QED BY <1>1, <1>2, <2>1 DEF above
<1>4. CASE S # {}
  <2>1. n > 0
    BY <1>1, <1>2, <1>4, FS_EmptySet
  <2>2. PICK index, b : index = Index(n, P80) /\ b = Below(sizes, value)
    OBVIOUS
  <2>3. index \in Nat /\ One * index <= (n - 1) * P80
    BY <1>2, <2>1, <2>2, IndexFacts, QuantileType
  <2>4. 5 * index <= 4 * (n - 1)
    BY <1>2, <2>3 DEF One, P80
  <2>5. b <= index /\ value \in Nat
    BY <1>1, <1>4, <2>2, PercentileFacts, QuantileType
  <2>6. IsFiniteSet(Smaller(sizes, value)) /\ b = Cardinality(Smaller(sizes, value)) /\ b \in Nat
    BY <2>2, Counts
  <2>7. above = S \ Smaller(sizes, value) /\ S \cap Smaller(sizes, value) = Smaller(sizes, value)
    BY <2>5 DEF Smaller
  <2>8. Cardinality(S \ Smaller(sizes, value))
          = Cardinality(S) - Cardinality(S \cap Smaller(sizes, value))
    BY FS_Difference
  <2>9. a = n - b
    <3> HIDE DEF above
    <3> QED BY <1>1, <2>6, <2>7, <2>8
  <2>10. 5 * a >= n
    BY <1>2, <2>3, <2>4, <2>5, <2>6, <2>9
  <2> QED BY <1>1, <2>10
<1> QED BY <1>3, <1>4

\* The samples come from the flows, all of them.
LEMMA FlowsOfSamples ==
  ASSUME streams \in Seq(StreamState), trace \in Seq(Packet), StreamFacts
  PROVE  {d[1] : d \in Written} = Flows
<1>1. ASSUME NEW d \in Written
      PROVE  d[1] \in Flows
  <2>1. d \in DirectionalStates /\ ParentSize(d) > 0
    BY DEF Written, IsWritten
  <2>2. d[1] \in DOMAIN streams
    BY <2>1, OutputTypes
  <2> QED BY <2>1, <2>2 DEF Flows, ParentSize
<1>2. ASSUME NEW i \in Flows
      PROVE  \E d \in Written : d[1] = i
  <2>1. i \in DOMAIN streams /\ streams[i] \in StreamState /\ FlowSizeBytes(streams[i]) > 0
    BY DEF Flows
  <2>2. streams[i].fwd.bytes > 0 \/ streams[i].rev.bytes > 0
    BY <2>1, FlowSize
  <2>3. PICK d \in {<<i, "src_to_dst">>, <<i, "dst_to_src">>} : StateOf(d).bytes > 0
    <3>1. CASE streams[i].fwd.bytes > 0
      <4>1. StateOf(<<i, "src_to_dst">>) = streams[i].fwd
        BY DEF StateOf
      <4> QED BY <3>1, <4>1
    <3>2. CASE streams[i].rev.bytes > 0
      <4>1. StateOf(<<i, "dst_to_src">>) = streams[i].rev
        BY DEF StateOf
      <4> QED BY <3>2, <4>1
    <3> QED BY <2>2, <3>1, <3>2
  <2>4. d \in DirectionalStates /\ d[1] = i
    BY <2>1, <2>3 DEF DirectionalStates, Directions
  <2>5. d \in Candidates
    BY <2>3, <2>4, WrittenAreCandidates DEF Candidates, IsCandidate
  <2> QED BY <2>4, <2>5, WrittenAreCandidates
<1> QED BY <1>1, <1>2

\* write_summary.
LEMMA WriteSummaryInv ==
  ASSUME IndInv, WriteSummary
  PROVE  IndInv'
<1> USE DEF WriteSummary
<1>1. /\ streams \in Seq(StreamState) /\ trace \in Seq(Packet) /\ StreamFacts
      /\ stats = [i \in DOMAIN streams |-> StatsRow(streams[i])]
      /\ pc = "summary" /\ pc' = "relabel" /\ relabels = 0
      /\ DOMAIN dataset = Written
      /\ \A d \in Written : dataset[d].label = Sample(d).label
      /\ CdfFollowsSizes
  BY DEF IndInv, TypeOK, StatsFacts, DatasetFacts
<1>2. Written = Candidates /\ {d[1] : d \in Written} = Flows
  BY <1>1, WrittenAreCandidates, FlowsOfSamples
<1>3. IsFiniteSet(Candidates) /\ CandidateSizes \in [Candidates -> Nat]
  BY <1>1, OutputTypes
<1>4. 5 * Cardinality({d \in Candidates : CandidateSizes[d] >= ElephantThreshold})
        >= Cardinality(Candidates)
  <2>1. PICK sizes, value : sizes = CandidateSizes /\ value = ElephantThreshold
    OBVIOUS
  <2>2. value = Percentile(sizes, P80)
    BY <2>1 DEF ElephantThreshold
  <2> QED BY <1>3, <2>1, <2>2, ShareAbove
<1>5. {d \in Candidates : CandidateSizes[d] >= ElephantThreshold}
        = {d \in Written : dataset[d].label = 1}
  <2>1. \A d \in Written :
          /\ dataset[d].label = IF StateOf(d).bytes >= ElephantThreshold THEN 1 ELSE 0
          /\ CandidateSizes[d] = StateOf(d).bytes
    BY <1>1, <1>2 DEF Sample, CandidateSizes
  <2> QED BY <1>2, <2>1
<1>6. Len(stats) = Len(streams)
  BY <1>1, FlowsOfTable
<1>7. cdf[Len(cdf)][1] = Largest
  <2>1. cdf[Len(cdf)] = <<Max({0} \cup Range(Sizes)), One>>
    <3>1. /\ {i \in DOMAIN stats : stats[i].size > 0} = Flows
          /\ {stats[i].size : i \in Flows} = Range(Sizes)
      BY <1>1, FlowsOfTable
    <3> QED BY <1>1, <3>1 DEF CdfFollowsSizes
  <2> QED BY <1>1, <2>1, LargestFacts
<1>8. SummaryDescribesFiles'
  <2>1. /\ summary'.flowCount = Cardinality(Flows)
        /\ summary'.packetStreamCount = Len(streams)
        /\ summary'.datasetCandidateCount = Cardinality(Candidates)
        /\ summary'.datasetElephantCount =
             Cardinality({d \in Candidates : CandidateSizes[d] >= ElephantThreshold})
        /\ summary'.maxBytes = Largest
        /\ dataset' = dataset /\ stats' = stats /\ cdf' = cdf
    OBVIOUS
  <2> QED BY <1>1, <1>2, <1>4, <1>5, <1>6, <1>7, <2>1 DEF SummaryDescribesFiles
<1>9. TypeOK' /\ CdfFacts'
  BY DEF IndInv, TypeOK, CdfFacts
<1>10. TraceFacts' /\ StreamFacts'
  BY StreamsStay DEF IndInv
<1>11. StatsFacts'
  BY DEF IndInv, StatsFacts
<1>12. DatasetFacts'
  BY OutputsStay DEF IndInv, DatasetFacts
<1>13. CdfFollowsSizes'
  BY DEF IndInv, CdfFollowsSizes
<1>14. LabelsFollowChosenSize'
  BY DEF IndInv, LabelsFollowChosenSize
<1> QED BY <1>8, <1>9, <1>10, <1>11, <1>12, <1>13, <1>14 DEF IndInv

-----------------------------------------------------------------------------
(* Labelling anew. *)

\* The samples, of which only flow_size_bytes and the label change.
LEMMA SampleFacts ==
  ASSUME IndInv, pc \in {"cdf", "summary", "relabel"}
  PROVE  /\ DOMAIN dataset = Written /\ IsFiniteSet(Written)
         /\ \A d \in Written :
              /\ dataset[d].directional = StateOf(d).bytes /\ dataset[d].directional \in Nat
              /\ dataset[d].parent = ParentSize(d) /\ dataset[d].parent \in Nat
              /\ dataset[d].flowSize = dataset[d][field] /\ dataset[d].flowSize \in Nat
         /\ field \in {"directional", "parent"} /\ streams \in Seq(StreamState)
<1>1. /\ DOMAIN dataset = Written /\ streams \in Seq(StreamState)
      /\ field \in {"directional", "parent"}
      /\ \A d \in Written : /\ \A name \in Kept : dataset[d][name] = Sample(d)[name]
                            /\ dataset[d].flowSize = dataset[d][field]
  BY DEF IndInv, TypeOK, DatasetFacts
<1>2. IsFiniteSet(Written)
  BY <1>1, OutputTypes
<1>3. ASSUME NEW d \in Written
      PROVE  /\ dataset[d].directional = StateOf(d).bytes /\ dataset[d].directional \in Nat
             /\ dataset[d].parent = ParentSize(d) /\ dataset[d].parent \in Nat
             /\ dataset[d].flowSize \in Nat
  <2>1. StateOf(d).bytes \in Nat /\ ParentSize(d) \in Nat
    BY <1>1, OutputTypes DEF Written
  <2>2. Sample(d).directional = StateOf(d).bytes /\ Sample(d).parent = ParentSize(d)
    BY DEF Sample
  <2>3. dataset[d].directional = Sample(d).directional /\ dataset[d].parent = Sample(d).parent
    BY <1>1 DEF Kept
  <2>4. dataset[d].flowSize \in {dataset[d].directional, dataset[d].parent}
    BY <1>1
  <2> QED BY <2>1, <2>2, <2>3, <2>4
<1> QED BY <1>1, <1>2, <1>3

\* relabel_dataset.
LEMMA RelabelInv ==
  ASSUME IndInv, NEW name \in SizeFields, Relabel(name)
  PROVE  IndInv'
<1> USE DEF Relabel
<1>1. /\ pc = "relabel" /\ pc' = "relabel" /\ relabels \in Nat /\ relabels' = relabels + 1
      /\ streams' = streams /\ trace' = trace
      /\ field' = IF name = "flowSize" THEN field ELSE name
  BY DEF IndInv, TypeOK
<1>2. PICK threshold \in {Threshold, RelabelThreshold(dataset, name, P90)} :
        dataset' = [d \in DOMAIN dataset |-> RelabelSample(dataset[d], name, threshold)]
  OBVIOUS
<1>3. /\ DOMAIN dataset = Written /\ IsFiniteSet(Written)
      /\ \A d \in Written : /\ dataset[d].directional \in Nat /\ dataset[d].parent \in Nat
                            /\ dataset[d].flowSize = dataset[d][field]
                            /\ dataset[d].flowSize \in Nat
      /\ field \in {"directional", "parent"}
  BY <1>1, SampleFacts
<1>4. name \in {"directional", "flowSize", "parent"}
  BY DEF SizeFields
<1>5. \A d \in Written : dataset[d][name] \in Nat
  BY <1>3, <1>4
<1>6. threshold \in Nat
  <2>1. Threshold \in Nat
    BY SizesAssumption
  <2>2. RelabelThreshold(dataset, name, P90) \in Nat
    <3>1. [d \in DOMAIN dataset |-> dataset[d][name]] \in [Written -> Nat]
      BY <1>3, <1>5
    <3> QED BY <1>3, <3>1, QuantileType, PercentileType DEF RelabelThreshold
  <2> QED BY <1>2, <2>1, <2>2
<1>7. DOMAIN dataset' = Written
  BY <1>2, <1>3
<1>8. ASSUME NEW d \in Written
      PROVE  /\ DOMAIN dataset'[d] = Kept \cup {"flowSize", "label"}
             /\ \A other \in Kept : dataset'[d][other] = Sample(d)[other]
             /\ dataset'[d].flowSize = dataset[d][name]
             /\ dataset'[d][field'] = dataset[d][name]
             /\ dataset'[d].label = IF dataset[d][name] >= threshold THEN 1 ELSE 0
  <2>1. PICK s, new, size, mark :
          /\ s = dataset[d] /\ new = dataset'[d]
          /\ size = dataset[d][name] /\ mark = IF dataset[d][name] >= threshold THEN 1 ELSE 0
    OBVIOUS
  <2>2. /\ DOMAIN s = Kept \cup {"flowSize", "label"}
        /\ \A other \in Kept : s[other] = Sample(d)[other]
    BY <1>1, <2>1 DEF IndInv, DatasetFacts
  <2>3. new = [s EXCEPT !.flowSize = size, !.label = mark]
    BY <1>2, <1>3, <2>1 DEF RelabelSample
  <2>4. /\ DOMAIN new = DOMAIN s /\ new.flowSize = size /\ new.label = mark
        /\ \A other \in Kept : new[other] = s[other]
    BY <2>2, <2>3 DEF Kept
  <2>5. new[field'] = size
    <3>1. field \in {"directional", "parent"} /\ {"directional", "parent"} \in SUBSET Kept
      BY <1>3 DEF Kept
    <3>2. CASE name = "flowSize"
      <4>1. size = s[field] /\ field' = field
        BY <1>1, <1>3, <2>1, <3>2
      <4> QED BY <2>4, <3>1, <4>1
    <3>3. CASE name # "flowSize"
      <4>1. field' = name /\ name \in {"directional", "parent"} /\ size = s[name]
        BY <1>1, <1>4, <2>1, <3>3
      <4> QED BY <2>4, <3>1, <4>1
    <3> QED BY <3>2, <3>3
  <2>6. \A other \in Kept : new[other] = Sample(d)[other]
    BY <2>2, <2>4
  <2> QED BY <2>1, <2>2, <2>4, <2>5, <2>6
<1>9. DatasetFacts'
  <2>1. Written' = Written /\ \A d : Sample(d)' = Sample(d)
    BY <1>1, OutputsStay
  <2>2. relabels' # 0
    BY <1>1
  <2> QED BY <1>1, <1>7, <1>8, <2>1, <2>2 DEF DatasetFacts
<1>10. LabelsFollowChosenSize'
  <2>1. \A d, e \in Written : dataset'[d].label = 1 /\ dataset'[d][field'] <= dataset'[e][field']
          => dataset'[e].label = 1
    <3> SUFFICES ASSUME NEW d \in Written, NEW e \in Written,
                        dataset'[d].label = 1, dataset'[d][field'] <= dataset'[e][field']
                 PROVE  dataset'[e].label = 1
      OBVIOUS
    <3>1. PICK a, b : a = dataset[d][name] /\ b = dataset[e][name]
      OBVIOUS
    <3>2. a \in Nat /\ b \in Nat
      BY <1>5, <3>1
    <3>3. a <= b /\ (IF a >= threshold THEN 1 ELSE 0) = 1
      BY <1>8, <3>1
    <3>4. dataset'[e].label = IF b >= threshold THEN 1 ELSE 0
      BY <1>8, <3>1
    <3> QED BY <1>6, <3>2, <3>3, <3>4
  <2> QED BY <1>7, <2>1 DEF LabelsFollowChosenSize
<1>11. TypeOK' /\ CdfFacts'
  <2>1. field' \in {"directional", "parent"} /\ relabels' \in Nat
    <3>1. field \in {"directional", "parent"}
      BY <1>3
    <3> QED BY <1>1, <1>4, <3>1
  <2>2. TypeOK'
    BY <1>1, <2>1 DEF IndInv, TypeOK
  <2> QED BY <1>1, <2>2 DEF CdfFacts
<1>12. TraceFacts' /\ StreamFacts'
  BY StreamsStay DEF IndInv
<1>13. StatsFacts'
  BY DEF IndInv, StatsFacts
<1>14. CdfFollowsSizes'
  BY DEF IndInv, CdfFollowsSizes
<1>15. SummaryDescribesFiles'
  BY <1>1 DEF SummaryDescribesFiles
<1> QED BY <1>1, <1>9, <1>10, <1>11, <1>12, <1>13, <1>14, <1>15 DEF IndInv


-----------------------------------------------------------------------------
(* The theorems. *)

\* Everything the model promises, kept by each step of the builder, of the
\* relabelling and of the trace.
THEOREM Invariant == Spec => []IndInv
<1>1. Init => IndInv
  BY InitInv
<1>2. IndInv /\ [Next]_vars => IndInv'
  <2> SUFFICES ASSUME IndInv, [Next]_vars PROVE IndInv'
    OBVIOUS
  <2>1. CASE FindUniv1Pcaps
    BY <2>1, FindInv
  <2>2. CASE \E row \in Rows : ReadRow(row)
    BY <2>2, ReadRowInv
  <2>3. CASE NextFile
    BY <2>3, NextFileInv
  <2>4. CASE TsharkFails
    BY <2>4, TsharkFailsInv
  <2>5. CASE WriteStatsCsv
    BY <2>5, WriteStatsInv
  <2>6. CASE WriteDatasetJsonl
    BY <2>6, WriteDatasetInv
  <2>7. CASE AddQuantile
    BY <2>7, AddQuantileInv
  <2>8. CASE WriteCdf
    BY <2>8, WriteCdfInv
  <2>9. CASE WriteSummary
    BY <2>9, WriteSummaryInv
  <2>10. CASE \E name \in SizeFields : Relabel(name)
    BY <2>10, RelabelInv
  <2>11. CASE UNCHANGED vars
    BY <2>11, StutterInv
  <2> QED BY <2>1, <2>2, <2>3, <2>4, <2>5, <2>6, <2>7, <2>8, <2>9, <2>10, <2>11 DEF Next
<1> QED BY <1>1, <1>2, PTL DEF Spec

\* A direction of a stream holds what came from the end that it is sampled by,
\* and the parent size is the larger of the stream's two totals.
LEMMA SampledDirection ==
  ASSUME IndInv, pc \in {"cdf", "summary", "relabel"}, NEW d \in DirectionalStates,
         NEW s, s = streams[d[1]]
  PROVE  /\ s \in StreamState /\ SampledEnd(d) \in Ends /\ StateOf(d) \in DirectionState
         /\ Gathered(StateOf(d), Own(s.file, s.conn, SampledEnd(d)))
         /\ ParentSize(d) = Max({Total(Own(s.file, s.conn, SampledEnd(d))),
                                 Total(Own(s.file, s.conn, Peer(SampledEnd(d))))})
<1>1. /\ streams \in Seq(StreamState) /\ d[1] \in DOMAIN streams /\ d[2] \in Directions
      /\ stats = [i \in DOMAIN streams |-> StatsRow(streams[i])]
      /\ StreamFacts
  BY DEF IndInv, TypeOK, StatsFacts, DirectionalStates
<1>2. s \in StreamState /\ StateOf(d) \in DirectionState
  BY <1>1, OutputTypes
<1>3. BothGathered(s) /\ stats[d[1]].src = s.src
  BY <1>1 DEF StreamFacts, StatsRow
<1>4. PICK src \in Ends : src = s.src
  BY <1>2 DEF StreamState
<1>5. /\ s.fwd.bytes = Total(Own(s.file, s.conn, src))
      /\ s.rev.bytes = Total(Own(s.file, s.conn, Peer(src)))
  BY <1>3, <1>4 DEF BothGathered, Gathered
<1>6. ParentSize(d) = Max({s.fwd.bytes, s.rev.bytes})
  BY DEF ParentSize, FlowSizeBytes
<1>7. CASE d[2] = "src_to_dst"
  <2>1. SampledEnd(d) = src /\ StateOf(d) = s.fwd
    BY <1>3, <1>4, <1>7 DEF SampledEnd, StateOf
  <2> QED BY <1>2, <1>3, <1>4, <1>5, <1>6, <2>1 DEF BothGathered
<1>8. CASE d[2] # "src_to_dst"
  <2>1. SampledEnd(d) = Peer(src) /\ StateOf(d) = s.rev
    BY <1>3, <1>4, <1>8 DEF SampledEnd, StateOf
  <2>2. Peer(src) \in Ends /\ Peer(Peer(src)) = src
    BY Peers
  <2>3. {s.fwd.bytes, s.rev.bytes} = {s.rev.bytes, s.fwd.bytes}
    OBVIOUS
  <2>4. Gathered(StateOf(d), Own(s.file, s.conn, SampledEnd(d)))
    BY <1>3, <1>4, <2>1 DEF BothGathered
  <2>5. ParentSize(d) = Max({s.rev.bytes, s.fwd.bytes})
    BY <1>6, <2>3
  <2> QED BY <1>2, <1>5, <2>1, <2>2, <2>4, <2>5
<1> QED BY <1>7, <1>8

\* The features padded to the packet count.
LEMMA PaddedFeatures ==
  ASSUME NEW features \in Seq(FeatureRow), NEW count \in Nat,
         Len(features) = Min({PacketCount, count}), NEW x, x = PadFeaturePackets(features)
  PROVE  /\ features = <<>> <=> count = 0
         /\ \A i \in 1 .. PacketCount : i <= count => x[i] = features[i]
         /\ \A i \in Len(features) + 1 .. PacketCount : x[i] = x[Len(features)] \/ count = 0
<1>1. PacketCount \in Nat /\ PacketCount > 0
  BY SizesAssumption
<1>2. PICK n \in Nat : n = Len(features)
  OBVIOUS
<1>3. n = IF PacketCount < count THEN PacketCount ELSE count
  BY <1>1, <1>2, OfTwo
<1>4. features = <<>> <=> n = 0
  BY <1>2
<1>5. \A i \in 1 .. PacketCount : x[i] = features[IF i < n THEN i ELSE n]
  <2>1. ASSUME NEW i \in 1 .. PacketCount
        PROVE  Min({i, n}) = IF i < n THEN i ELSE n
    BY <1>1, OfTwo
  <2> QED BY <1>2, <2>1 DEF PadFeaturePackets
<1>6. ASSUME NEW i \in 1 .. PacketCount, i <= count
      PROVE  x[i] = features[i]
  <2>1. (IF i < n THEN i ELSE n) = i
    BY <1>1, <1>3, <1>6
  <2> QED BY <1>5, <2>1
<1>7. ASSUME NEW i \in n + 1 .. PacketCount
      PROVE  x[i] = x[n] \/ count = 0
  <2>1. i \in 1 .. PacketCount /\ (IF i < n THEN i ELSE n) = n
    BY <1>1
  <2>2. CASE n = 0
    BY <1>1, <1>3, <2>2
  <2>3. CASE n # 0
    <3>1. n \in 1 .. PacketCount /\ (IF n < n THEN n ELSE n) = n
      BY <1>1, <1>3, <2>3
    <3>2. x[i] = features[n]
      BY <1>5, <2>1
    <3>3. x[n] = features[n]
      BY <1>5, <3>1
    <3> QED BY <3>2, <3>3
  <2> QED BY <2>2, <2>3
<1>8. features = <<>> <=> count = 0
  BY <1>1, <1>3, <1>4
<1> QED BY <1>2, <1>6, <1>7, <1>8

\* Each sample is exact, whatever the trace.
LEMMA ExactSample ==
  ASSUME IndInv, pc \in {"cdf", "summary", "relabel"}, NEW d \in DOMAIN dataset
  PROVE  IsExactSample(d)
<1>1. PICK s, end, dir : s = streams[d[1]] /\ end = SampledEnd(d) /\ dir = StateOf(d)
  OBVIOUS
<1>2. d \in Written /\ d \in DirectionalStates /\ dir.features # <<>>
  BY <1>1, SampleFacts DEF Written, IsWritten
<1>3. /\ dataset[d].file = s.file /\ dataset[d].conn = s.conn
      /\ dataset[d].x = PadFeaturePackets(dir.features) /\ dataset[d].seqLen = Len(dir.features)
      /\ dataset[d].directional = dir.bytes /\ dataset[d].parent = ParentSize(d)
  <2>1. \A name \in Kept : dataset[d][name] = Sample(d)[name]
    BY <1>2 DEF IndInv, DatasetFacts
  <2> QED BY <1>1, <2>1 DEF Kept, Sample
<1>4. /\ dir \in DirectionState /\ Gathered(dir, Own(s.file, s.conn, end))
      /\ ParentSize(d) = Max({Total(Own(s.file, s.conn, end)), Total(Own(s.file, s.conn, Peer(end)))})
  BY <1>1, <1>2, SampledDirection
<1>5. PICK own \in SUBSET DOMAIN trace : own = Own(s.file, s.conn, end)
  BY OwnType
<1>6. PICK count \in Nat : count = Cardinality(own) /\ (own = {} <=> count = 0)
  <2>1. trace \in Seq(Packet)
    BY DEF IndInv, TypeOK
  <2> QED BY <2>1, PositionFacts
<1>7. /\ dir.features \in Seq(FeatureRow) /\ Len(dir.features) = Min({PacketCount, count})
      /\ dir.bytes = Total(own)
      /\ \A p \in own : Place(own, p) <= PacketCount => dir.features[Place(own, p)] = Feature(own, p)
  BY <1>4, <1>5, <1>6 DEF Gathered, DirectionState
<1>8. /\ dir.features = <<>> <=> count = 0
      /\ \A i \in 1 .. PacketCount : i <= count => dataset[d].x[i] = dir.features[i]
      /\ \A i \in Len(dir.features) + 1 .. PacketCount :
           dataset[d].x[i] = dataset[d].x[Len(dir.features)] \/ count = 0
  BY <1>3, <1>7, PaddedFeatures
<1>9. own # {} /\ count # 0
  BY <1>2, <1>6, <1>8
<1>10. ASSUME NEW p \in own, Place(own, p) <= PacketCount
       PROVE  dataset[d].x[Place(own, p)] = Feature(own, p)
  <2>1. trace \in Seq(Packet) /\ PacketCount \in Nat
    BY SizesAssumption DEF IndInv, TypeOK
  <2>2. IsFiniteSet(own) /\ own \in SUBSET Nat
    BY <2>1, PositionFacts
  <2>3. PICK upTo \in SUBSET own : upTo = {q \in own : q <= p}
    OBVIOUS
  <2>4. IsFiniteSet(upTo) /\ Cardinality(upTo) \in Nat /\ Cardinality(upTo) <= count
    BY <1>6, <2>2, <2>3, FS_Subset, FS_CardinalityType
  <2>5. Cardinality(upTo) # 0
    BY <2>2, <2>3, <2>4, FS_EmptySet
  <2>6. PICK i \in Nat : i = Place(own, p) /\ i >= 1 /\ i <= count
    BY <2>3, <2>4, <2>5 DEF Place
  <2> QED BY <1>7, <1>8, <1>10, <2>1, <2>6
<1> QED
  <2>1. dataset[d].seqLen = Min({PacketCount, Cardinality(own)})
    BY <1>3, <1>6, <1>7
  <2>2. \A i \in dataset[d].seqLen + 1 .. PacketCount :
          dataset[d].x[i] = dataset[d].x[dataset[d].seqLen]
    BY <1>3, <1>8, <1>9
  <2>3. own = Own(dataset[d].file, dataset[d].conn, SampledEnd(d))
    BY <1>1, <1>3, <1>5
  <2>4. dataset[d].directional = Total(own)
    BY <1>3, <1>7
  <2>5. dataset[d].parent = Max({Total(own), Total(Own(dataset[d].file, dataset[d].conn, Peer(SampledEnd(d))))})
    BY <1>1, <1>3, <1>4, <1>5
  <2> QED BY <1>9, <1>10, <2>1, <2>2, <2>3, <2>4, <2>5 DEF IsExactSample

\* Two samples never stand for the same end of a connection in a file.
LEMMA OneSampleEach ==
  ASSUME IndInv, pc \in {"cdf", "summary", "relabel"},
         NEW d \in DOMAIN dataset, NEW e \in DOMAIN dataset, Sampled(d) = Sampled(e)
  PROVE  d = e
<1>1. /\ d \in DirectionalStates /\ e \in DirectionalStates
      /\ \A c \in {d, e} : /\ dataset[c].file = streams[c[1]].file
                           /\ dataset[c].conn = streams[c[1]].conn
  <2>1. ASSUME NEW c \in DOMAIN dataset
        PROVE  /\ c \in DirectionalStates
               /\ dataset[c].file = streams[c[1]].file /\ dataset[c].conn = streams[c[1]].conn
    <3>1. c \in Written /\ \A name \in Kept : dataset[c][name] = Sample(c)[name]
      BY DEF IndInv, DatasetFacts
    <3> QED BY <3>1 DEF Kept, Sample, Written
  <2> QED BY <2>1
<1>2. d[1] = e[1]
  BY <1>1 DEF Sampled, IndInv, StreamFacts, DirectionalStates
<1>3. SampledEnd(d) = SampledEnd(e)
  BY DEF Sampled
<1>4. stats[d[1]].src \in Ends
  <2>1. streams[d[1]] \in StreamState /\ stats[d[1]] = StatsRow(streams[d[1]])
    BY <1>1 DEF IndInv, TypeOK, StatsFacts, DirectionalStates
  <2> QED BY <2>1 DEF StatsRow, StreamState
<1>5. d[2] = e[2]
  <2>1. Peer(stats[d[1]].src) # stats[d[1]].src
    BY <1>4, Peers
  <2> QED BY <1>1, <1>2, <1>3, <2>1 DEF SampledEnd, DirectionalStates, Directions
<1> QED BY <1>1, <1>2, <1>5 DEF DirectionalStates

\* The sender of a packet with payload has a sample.
LEMMA EndHasSample ==
  ASSUME IndInv, pc \in {"cdf", "summary", "relabel"},
         NEW p \in DOMAIN trace, trace[p].conn # NoIPv4, trace[p].len > 0
  PROVE  \E d \in DOMAIN dataset : Sampled(d) = <<trace[p].file, trace[p].conn, trace[p].from>>
<1>1. PICK i \in DOMAIN streams : OfStream(p, streams[i])
  BY DEF IndInv, StreamFacts
<1>2. PICK s : s = streams[i]
  OBVIOUS
<1>3. /\ s \in StreamState /\ s.src \in Ends /\ trace[p].from \in Ends
      /\ stats[i].src = s.src /\ trace \in Seq(Packet) /\ streams \in Seq(StreamState)
      /\ StreamFacts
  <2>1. trace[p] \in Packet /\ s \in StreamState /\ stats[i] = StatsRow(s)
    BY <1>2 DEF IndInv, TypeOK, StatsFacts
  <2> QED BY <1>2, <2>1 DEF IndInv, TypeOK, StatsRow, StreamState, Packet
<1>4. PICK d \in DirectionalStates : d[1] = i /\ SampledEnd(d) = trace[p].from
  <2>1. CASE trace[p].from = s.src
    <3>1. <<i, "src_to_dst">> \in DirectionalStates
      BY DEF DirectionalStates, Directions
    <3>2. SampledEnd(<<i, "src_to_dst">>) = trace[p].from
      BY <1>3, <2>1 DEF SampledEnd
    <3> QED BY <3>1, <3>2
  <2>2. CASE trace[p].from # s.src
    <3>1. <<i, "dst_to_src">> \in DirectionalStates
      BY DEF DirectionalStates, Directions
    <3>2. Peer(s.src) = trace[p].from
      BY <1>3, <2>2 DEF Peer, Ends
    <3>3. SampledEnd(<<i, "dst_to_src">>) = trace[p].from
      BY <1>3, <3>2 DEF SampledEnd
    <3> QED BY <3>1, <3>3
  <2> QED BY <2>1, <2>2
<1>5. StateOf(d).bytes > 0
  <2>1. StateOf(d).bytes = Total(Own(s.file, s.conn, trace[p].from))
    BY <1>2, <1>4, SampledDirection DEF Gathered
  <2>2. p \in Own(s.file, s.conn, trace[p].from)
    BY <1>1, <1>2 DEF OfStream, Own
  <2>3. StateOf(d).bytes # 0
    BY <1>3, <2>1, <2>2, OwnTotal
  <2>4. StateOf(d).bytes \in Nat
    BY <1>3, OutputTypes
  <2> QED BY <2>3, <2>4
<1>6. d \in Written
  <2>1. StateOf(d).features # <<>>
    BY <1>3, <1>5, WrittenAreCandidates
  <2>2. d \in Candidates
    BY <1>5, <2>1 DEF Candidates, IsCandidate
  <2> QED BY <1>3, <2>2, WrittenAreCandidates
<1>7. d \in DOMAIN dataset /\ dataset[d].file = s.file /\ dataset[d].conn = s.conn
  <2>1. d \in DOMAIN dataset /\ \A name \in Kept : dataset[d][name] = Sample(d)[name]
    BY <1>6 DEF IndInv, DatasetFacts
  <2> QED BY <1>2, <1>4, <2>1 DEF Kept, Sample
<1> QED BY <1>1, <1>2, <1>4, <1>7 DEF Sampled, OfStream

\* The samples are exact, one for each end with payload and for no other.
THEOREM ExactSamples == Spec => []SamplesAreExact
<1>1. IndInv => SamplesAreExact
  BY ExactSample, OneSampleEach, EndHasSample DEF SamplesAreExact
<1> QED BY <1>1, Invariant, PTL

\* The direction src_to_dst is the client's, except where a file cuts the
\* connection.
THEOREM ClientIsSource == Spec => []ClientIsSourceUnlessCut
<1>1. ASSUME IndInv, NEW p \in DOMAIN trace, NEW i \in DOMAIN streams, trace[p].syn,
             streams[i].file = trace[p].file, streams[i].conn = trace[p].conn
      PROVE  streams[i].src = "client"
  <2>1. PICK q \in DOMAIN trace : /\ OfStream(q, streams[i]) /\ trace[q].from = streams[i].src
                                 /\ \A r \in 1 .. q - 1 : ~ OfStream(r, streams[i])
    BY <1>1 DEF IndInv, StreamFacts, Opened
  <2>2. /\ trace[p].from = "client"
        /\ \A r \in 1 .. p - 1 : trace[r].conn # trace[p].conn
    BY <1>1 DEF IndInv, TraceFacts
  <2>3. p \in Nat /\ q \in Nat /\ p >= 1 /\ q >= 1
    BY <1>1 DEF IndInv, TypeOK
  <2>4. ~ (q < p)
    BY <1>1, <2>1, <2>2, <2>3 DEF OfStream
  <2>5. ~ (p < q)
    BY <1>1, <2>1, <2>3 DEF OfStream
  <2> QED BY <2>1, <2>2, <2>3, <2>4, <2>5
<1>2. IndInv => ClientIsSourceUnlessCut
  BY <1>1 DEF ClientIsSourceUnlessCut
<1> QED BY <1>2, Invariant, PTL

\* The CDF file starts and ends where TrafficGenerator needs it to, rises, and
\* each quantile still leads to its order statistic.
THEOREM CdfRows == Spec => []CdfFollowsSizes
<1>1. IndInv => CdfFollowsSizes
  BY DEF IndInv
<1> QED BY <1>1, Invariant, PTL

\* The summary tells of the files that were written, and a fifth of the samples
\* are elephants.
THEOREM SummaryAndFiles == Spec => []SummaryDescribesFiles
<1>1. IndInv => SummaryDescribesFiles
  BY DEF IndInv
<1> QED BY <1>1, Invariant, PTL

\* However often the samples are labelled anew, no elephant is smaller than a
\* mouse by the size chosen last.
THEOREM LabelsAndSizes == Spec => []LabelsFollowChosenSize
<1>1. IndInv => LabelsFollowChosenSize
  BY DEF IndInv
<1> QED BY <1>1, Invariant, PTL
=============================================================================
