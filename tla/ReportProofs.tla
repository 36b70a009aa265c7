---------------------------- MODULE ReportProofs ----------------------------
(***************************************************************************)
(* Proofs about what the program says of the history of rates.             *)
(*                                                                         *)
(* The weekly report is whole and exact: whatever fails while it is        *)
(* written, and for any rates, times and polls of a settlement period, the *)
(* file counts each period once and tells that a pair passes exactly if it *)
(* does.                                                                   *)
(*                                                                         *)
(* The replay is exact: its scan of the facts, in whatever order they are  *)
(* stored, finds the runs of high readings, and the verdict on the sums of *)
(* all venues never passes or fails alone.                                 *)
(***************************************************************************)
EXTENDS Report, Replay, FiniteSums

-----------------------------------------------------------------------------
(* Arithmetic. *)

LEMMA DivBounds ==
  ASSUME NEW a \in Nat, NEW p \in Nat \ {0}
  PROVE  a \div p \in Nat /\ (a \div p) * p <= a /\ a < (a \div p + 1) * p
OBVIOUS

LEMMA ProductGrows ==
  ASSUME NEW x \in Nat, NEW y \in Nat, NEW p \in Nat \ {0}, x <= y
  PROVE  x * p <= y * p
OBVIOUS

\* A later moment is not in an earlier settlement period.
LEMMA DivGrows ==
  ASSUME NEW a \in Nat, NEW b \in Nat, NEW p \in Nat \ {0}, a <= b
  PROVE  a \div p <= b \div p
<1> DEFINE x == a \div p
           y == b \div p
<1>1. x \in Nat /\ y \in Nat /\ x * p <= a /\ b < (y + 1) * p
  BY DivBounds
<1> HIDE DEF x, y
<1>2. CASE y + 1 <= x
  <2>1. (y + 1) * p <= x * p
    BY <1>1, <1>2, ProductGrows
  <2>2. (y + 1) * p \in Int /\ x * p \in Int
    BY <1>1
  <2> QED
    BY <1>1, <2>1, <2>2
<1>3. x <= y
  BY <1>1, <1>2
<1> QED
  BY <1>3 DEF x, y

\* To pass is to earn more than the costs, and enough of it.
LEMMA PassesMeans ==
  ASSUME NEW sum \in Int, NEW span \in Nat
  PROVE  Passes(sum, span) <=> (sum - Costs) * Period > 0 /\ (sum - Costs) * Period >= Demanded * span
<1> DEFINE x == sum - Costs
           y == x * Period
           z == Demanded * span
<1>1. /\ x \in Int /\ y \in Int /\ z \in Int /\ (x > 0 <=> y > 0)
      /\ (span = 0 => z = 0) /\ (span # 0 => z > 0)
  BY ReportAssumption
<1>2. sum > Costs <=> x > 0
  BY ReportAssumption
<1> HIDE DEF x, y, z
<1>3. (IF span = 0 THEN sum > Costs ELSE y >= z) <=> (y > 0 /\ y >= z)
  BY <1>1, <1>2
<1> QED
  BY <1>3 DEF Passes, x, y, z

-----------------------------------------------------------------------------
(* The facts of a pair in the order of time. *)

\* A pair has one fact at a time.
IsSeries(fs) ==
  /\ IsFiniteSet(fs) /\ \A f \in fs : f.ts \in Nat /\ f.value \in Int
  /\ \A f, g \in fs : f.ts = g.ts => f = g

SortedAs(s, fs) == Range(s) = fs /\ \A i, j \in DOMAIN s : i < j => s[i].ts < s[j].ts

LEMMA NewestOf ==
  ASSUME NEW fs, IsSeries(fs), fs # {}
  PROVE  \E f \in fs : \A g \in fs : g.ts <= f.ts
<1> DEFINE Top(t) == t = {} \/ \E f \in t : \A g \in t : g.ts <= f.ts
           Good == {t \in SUBSET fs : Top(t)}
<1>1. {} \in Good
  OBVIOUS
<1>2. ASSUME NEW t \in SUBSET fs, t # {}, t \ {Chosen(t)} \in Good PROVE t \in Good
  <2> DEFINE c == Chosen(t)
             u == t \ {c}
  <2>1. c \in t /\ t = u \cup {c} /\ \A f \in t : f.ts \in Nat
    BY <1>2, ChosenIn DEF IsSeries
  <2>2. Top(u)
    BY <1>2
  <2> HIDE DEF c, u
  <2>3. CASE u = {}
    BY <2>1, <2>3
  <2>4. CASE u # {}
    <3>1. PICK f \in u : \A g \in u : g.ts <= f.ts
      BY <2>2, <2>4
    <3>2. CASE f.ts <= c.ts
      BY <2>1, <3>1, <3>2
    <3>3. CASE ~(f.ts <= c.ts)
      BY <2>1, <3>1, <3>3
    <3> QED
      BY <3>2, <3>3
  <2> QED
    BY <2>3, <2>4
<1>3. SUBSET fs \subseteq Good
  <2>1. IsFiniteSet(fs)
    BY DEF IsSeries
  <2> HIDE DEF Good
  <2> QED
    BY <1>1, <1>2, <2>1, AllSubsets
<1> QED
  BY <1>3

LEMMA SortedExists ==
  ASSUME NEW fs, IsSeries(fs)
  PROVE  \E s \in [1..Cardinality(fs) -> fs] : SortedAs(s, fs)
<1> DEFINE Can(n, t) == \E s \in [1..n -> t] : SortedAs(s, t)
           N == {n \in Nat : \A t \in SUBSET fs : Cardinality(t) = n => Can(n, t)}
<1>1. \A t \in SUBSET fs : IsFiniteSet(t) /\ Cardinality(t) \in Nat /\ IsSeries(t)
  BY FS_Subset, FS_CardinalityType DEF IsSeries
<1>2. 0 \in N
  <2>1. ASSUME NEW t \in SUBSET fs, Cardinality(t) = 0 PROVE Can(0, t)
    <3>1. t = {}
      BY <1>1, <2>1, FS_EmptySet
    <3> DEFINE s == [i \in 1..0 |-> i]
    <3>2. s \in [1..0 -> t] /\ DOMAIN s = {}
      BY <3>1
    <3> HIDE DEF s
    <3>3. SortedAs(s, t)
      BY <3>1, <3>2 DEF SortedAs, Range
    <3> QED
      BY <3>2, <3>3
  <2> QED
    BY <2>1
<1>3. ASSUME NEW n \in Nat, n \in N PROVE n + 1 \in N
  <2>1. ASSUME NEW t \in SUBSET fs, Cardinality(t) = n + 1 PROVE Can(n + 1, t)
    <3>1. t # {}
      BY <2>1, FS_EmptySet
    <3>2. PICK c \in t : \A g \in t : g.ts <= c.ts
      BY <1>1, <3>1, NewestOf
    <3> DEFINE u == t \ {c}
    <3>3. Cardinality(u) = n /\ u \in SUBSET fs
      <4>1. IsFiniteSet(t)
        BY <1>1
      <4>2. Cardinality(t \ {c}) = Cardinality(t) - 1
        BY <4>1, FS_RemoveElement
      <4> QED
        BY <2>1, <4>2
    <3>4. PICK s \in [1..n -> u] : SortedAs(s, u)
      BY <1>3, <3>3
    <3>5. \A f \in u : f.ts < c.ts
      BY <3>2, <1>1 DEF IsSeries
    <3> DEFINE r == [i \in 1..(n + 1) |-> IF i = n + 1 THEN c ELSE s[i]]
    <3>6. r \in [1..(n + 1) -> t]
      BY <3>2, <3>4
    <3>7. /\ DOMAIN r = 1..(n + 1) /\ r[n + 1] = c
          /\ \A i \in 1..n : r[i] = s[i] /\ r[i] \in u
      BY <3>4
    <3> HIDE DEF r
    <3>8. Range(r) = t
      <4>1. \A f \in t : \E i \in 1..(n + 1) : r[i] = f
        <5>1. SUFFICES ASSUME NEW f \in t PROVE \E i \in 1..(n + 1) : r[i] = f
          OBVIOUS
        <5>2. CASE f = c
          BY <3>7, <5>2
        <5>3. CASE f # c
          <6>1. f \in Range(s)
            BY <3>4, <5>3 DEF SortedAs
          <6>2. PICK i \in 1..n : s[i] = f
            BY <3>4, <6>1 DEF Range
          <6> QED
            BY <3>7, <6>2
        <5> QED
          BY <5>2, <5>3
      <4> QED
        BY <3>6, <3>7, <4>1 DEF Range
    <3>9. ASSUME NEW i \in 1..(n + 1), NEW j \in 1..(n + 1), i < j PROVE r[i].ts < r[j].ts
      <4>1. CASE j = n + 1
        BY <3>5, <3>7, <3>9, <4>1
      <4>2. CASE j # n + 1
        BY <3>4, <3>7, <3>9, <4>2 DEF SortedAs
      <4> QED
        BY <4>1, <4>2
    <3>10. SortedAs(r, t)
      BY <3>7, <3>8, <3>9 DEF SortedAs
    <3> QED
      BY <3>6, <3>10
  <2> QED
    BY <2>1
<1>4. Nat \subseteq N
  <2> HIDE DEF N
  <2> QED
    BY <1>2, <1>3, AllNaturals
<1>5. Cardinality(fs) \in N /\ fs \in SUBSET fs
  BY <1>1, <1>4
<1> QED
  BY <1>5

\* A series and its facts in order.
Ordered(fs, s, n) ==
  /\ n \in Nat /\ s \in [1..n -> fs] /\ DOMAIN s = 1..n
  /\ \A f \in fs : \E i \in 1..n : s[i] = f
  /\ \A i \in 1..n : s[i] \in fs /\ s[i].ts \in Nat /\ s[i].value \in Int
  /\ \A i, j \in 1..n : i < j => s[i].ts < s[j].ts

LEMMA SortedIs ==
  ASSUME NEW fs, IsSeries(fs)
  PROVE  Ordered(fs, SortedFacts(fs), Cardinality(fs))
<1> DEFINE s == SortedFacts(fs)
<1>1. s \in [1..Cardinality(fs) -> fs] /\ SortedAs(s, fs)
  BY SortedExists DEF SortedFacts, SortedAs
<1>2. Cardinality(fs) \in Nat /\ \A f \in fs : f.ts \in Nat /\ f.value \in Int
  BY FS_CardinalityType DEF IsSeries
<1> HIDE DEF s
<1>3. \A f \in fs : \E i \in 1..Cardinality(fs) : s[i] = f
  BY <1>1 DEF SortedAs, Range
<1> QED
  BY <1>1, <1>2, <1>3 DEF Ordered, SortedAs, s

-----------------------------------------------------------------------------
(* What ComputeSeries counts: a settlement period once, with its first row. *)

PeriodOf(f) == f.ts \div Period

LEMMA PeriodsGrow ==
  ASSUME NEW fs, NEW s, NEW n, Ordered(fs, s, n)
  PROVE  \A i, j \in 1..n : PeriodOf(s[i]) \in Nat /\ (i <= j => PeriodOf(s[i]) <= PeriodOf(s[j]))
<1> SUFFICES ASSUME NEW i \in 1..n, NEW j \in 1..n
             PROVE  PeriodOf(s[i]) \in Nat /\ (i <= j => PeriodOf(s[i]) <= PeriodOf(s[j]))
  OBVIOUS
<1>1. s[i].ts \in Nat /\ s[j].ts \in Nat /\ Period \in Nat \ {0} /\ n \in Nat
  BY ReportAssumption DEF Ordered
<1>2. i <= j => s[i].ts <= s[j].ts
  BY <1>1 DEF Ordered
<1>3. i <= j => PeriodOf(s[i]) <= PeriodOf(s[j])
  BY <1>1, <1>2, DivGrows DEF PeriodOf
<1>4. PeriodOf(s[i]) \in Nat
  BY <1>1, DivBounds DEF PeriodOf
<1> QED
  BY <1>3, <1>4

\* The rows that are kept are the first ones of their periods.
LEMMA KeptIsFirst ==
  ASSUME NEW fs, NEW s, NEW n, Ordered(fs, s, n), NEW i \in 1..n
  PROVE  i \in DedupSettleBuckets(s) <=> s[i] \in FirstRows(fs)
<1>1. n \in Nat /\ DOMAIN s = 1..n /\ \A j \in 1..n : s[j] \in fs /\ s[j].ts \in Nat
  BY DEF Ordered
<1>2. \A j, k \in 1..n : j < k => s[j].ts < s[k].ts
  BY DEF Ordered
<1>3. \A j, k \in 1..n : PeriodOf(s[j]) \in Nat /\ (j <= k => PeriodOf(s[j]) <= PeriodOf(s[k]))
  BY PeriodsGrow
<1>4. i \in DedupSettleBuckets(s) <=> i = 1 \/ PeriodOf(s[i - 1]) # PeriodOf(s[i])
  BY <1>1 DEF DedupSettleBuckets, PeriodOf
<1>5. s[i] \in FirstRows(fs) <=> \A g \in fs : PeriodOf(g) = PeriodOf(s[i]) => s[i].ts <= g.ts
  BY <1>1 DEF FirstRows, PeriodOf
<1>6. ASSUME i \in DedupSettleBuckets(s), NEW g \in fs, PeriodOf(g) = PeriodOf(s[i]) PROVE s[i].ts <= g.ts
  <2>1. PICK j \in 1..n : s[j] = g
    BY DEF Ordered
  <2>2. CASE i <= j
    BY <1>1, <1>2, <2>1, <2>2
  <2>3. CASE j < i
    <3>1. i # 1 /\ i - 1 \in 1..n /\ j <= i - 1 /\ i - 1 <= i
      BY <1>1, <2>3
    <3>2. PeriodOf(s[i - 1]) # PeriodOf(s[i])
      BY <1>4, <1>6, <3>1
    <3>3. PeriodOf(s[j]) <= PeriodOf(s[i - 1]) /\ PeriodOf(s[i - 1]) <= PeriodOf(s[i])
      BY <1>3, <3>1
    <3>4. PeriodOf(s[j]) = PeriodOf(s[i])
      BY <1>6, <2>1
    <3>5. PeriodOf(s[i - 1]) \in Nat /\ PeriodOf(s[i]) \in Nat
      BY <1>3, <3>1
    <3> QED
      BY <3>2, <3>3, <3>4, <3>5
  <2> QED
    BY <1>1, <2>2, <2>3
<1>7. ASSUME \A g \in fs : PeriodOf(g) = PeriodOf(s[i]) => s[i].ts <= g.ts, i # 1
      PROVE  PeriodOf(s[i - 1]) # PeriodOf(s[i])
  <2>1. i - 1 \in 1..n /\ i - 1 < i
    BY <1>1, <1>7
  <2>2. s[i - 1].ts < s[i].ts /\ s[i - 1] \in fs /\ s[i - 1].ts \in Nat /\ s[i].ts \in Nat
    BY <1>1, <1>2, <2>1
  <2>3. ~(s[i].ts <= s[i - 1].ts)
    BY <2>2
  <2> QED
    BY <1>7, <2>2, <2>3
<1> QED
  BY <1>4, <1>5, <1>6, <1>7

\* What is kept is not empty, in the order of time, and one row for each period.
Kept(s, n, at) ==
  /\ IsFiniteSet(at) /\ at \subseteq 1..n /\ (n # 0 => 1 \in at)
  /\ OneToOne([i \in 1..n |-> PeriodOf(s[i])], at) /\ OneToOne(s, at)

LEMMA KeptIs ==
  ASSUME NEW fs, NEW s, NEW n, Ordered(fs, s, n)
  PROVE  Kept(s, n, DedupSettleBuckets(s))
<1> DEFINE at == DedupSettleBuckets(s)
           p == [i \in 1..n |-> PeriodOf(s[i])]
<1>1. n \in Nat /\ DOMAIN s = 1..n /\ at \subseteq 1..n
  BY DEF Ordered, DedupSettleBuckets
<1>2. IsFiniteSet(at)
  BY <1>1, FS_Interval, FS_Subset
<1>3. n # 0 => 1 \in at
  BY <1>1 DEF DedupSettleBuckets
<1>4. \A i \in at : i = 1 \/ PeriodOf(s[i - 1]) # PeriodOf(s[i])
  BY DEF DedupSettleBuckets, PeriodOf
<1>5. \A j, k \in 1..n : PeriodOf(s[j]) \in Nat /\ (j <= k => PeriodOf(s[j]) <= PeriodOf(s[k]))
  BY PeriodsGrow
<1> HIDE DEF at
<1>6. ASSUME NEW i \in at, NEW j \in at, i < j PROVE PeriodOf(s[i]) # PeriodOf(s[j])
  <2>1. j - 1 \in 1..n /\ i \in 1..n /\ j \in 1..n /\ i <= j - 1 /\ j - 1 <= j /\ j # 1
    BY <1>1, <1>6
  <2>2. PeriodOf(s[j - 1]) # PeriodOf(s[j])
    BY <1>4, <2>1
  <2>3. PeriodOf(s[i]) <= PeriodOf(s[j - 1]) /\ PeriodOf(s[j - 1]) <= PeriodOf(s[j])
    BY <1>5, <2>1
  <2>4. PeriodOf(s[i]) \in Nat /\ PeriodOf(s[j - 1]) \in Nat /\ PeriodOf(s[j]) \in Nat
    BY <1>5, <2>1
  <2> QED
    BY <2>2, <2>3, <2>4
<1>7. \A i, j \in at : PeriodOf(s[i]) = PeriodOf(s[j]) => i = j
  <2>1. \A i, j \in at : i \in Int /\ j \in Int
    BY <1>1
  <2> QED
    BY <1>6, <2>1
<1>8. OneToOne(p, at)
  BY <1>1, <1>7 DEF OneToOne
<1>9. OneToOne(s, at)
  BY <1>7 DEF OneToOne
<1> QED
  BY <1>1, <1>2, <1>3, <1>8, <1>9 DEF Kept, at

\* As sets: the rows kept are the first ones, and their periods all there are.
LEMMA KeptImages ==
  ASSUME NEW fs, NEW s, NEW n, Ordered(fs, s, n)
  PROVE  /\ Images(s, DedupSettleBuckets(s)) = FirstRows(fs)
         /\ Images([i \in 1..n |-> PeriodOf(s[i])], DedupSettleBuckets(s)) = {f.ts \div Period : f \in fs}
<1> DEFINE at == DedupSettleBuckets(s)
           p == [i \in 1..n |-> PeriodOf(s[i])]
<1>1. \A i \in 1..n : i \in at <=> s[i] \in FirstRows(fs)
  BY KeptIsFirst
<1>2. at \subseteq 1..n /\ FirstRows(fs) \subseteq fs /\ n \in Nat
  BY KeptIs DEF Kept, FirstRows, Ordered
<1>3. (\A f \in fs : \E i \in 1..n : s[i] = f) /\ \A i \in 1..n : s[i] \in fs
  BY DEF Ordered
<1>4. \A i \in 1..n : \E j \in at : PeriodOf(s[j]) = PeriodOf(s[i])
  <2> SUFFICES ASSUME NEW i \in 1..n PROVE \E j \in at : PeriodOf(s[j]) = PeriodOf(s[i])
    OBVIOUS
  <2> DEFINE same == {j \in 1..n : PeriodOf(s[j]) = PeriodOf(s[i])}
  <2>1. same \subseteq Nat /\ i \in same
    BY <1>2
  <2>2. PICK j \in same : \A k \in same : ~(<<k, j>> \in OpToRel(<, Nat))
    <3> HIDE DEF same
    <3> QED
      BY <2>1, NatLessThanWellFounded, WFMin
  <2>3. j = 1 \/ PeriodOf(s[j - 1]) # PeriodOf(s[j])
    <3> SUFFICES ASSUME j # 1, PeriodOf(s[j - 1]) = PeriodOf(s[j]) PROVE FALSE
      OBVIOUS
    <3>1. j \in 1..n /\ PeriodOf(s[j]) = PeriodOf(s[i])
      BY <2>2
    <3>2. j - 1 \in 1..n /\ j - 1 \in Nat /\ j \in Nat /\ j - 1 < j
      BY <1>2, <3>1
    <3>3. j - 1 \in same
      BY <3>1, <3>2
    <3>4. <<j - 1, j>> \in OpToRel(<, Nat)
      BY <3>2 DEF OpToRel
    <3> HIDE DEF same
    <3> QED
      BY <2>2, <3>3, <3>4
  <2>4. j \in at
    BY <2>2, <2>3 DEF DedupSettleBuckets, PeriodOf, Ordered
  <2> QED
    BY <2>2, <2>4
<1> HIDE DEF at
<1>5. Images(s, at) = FirstRows(fs)
  BY <1>1, <1>2, <1>3 DEF Images
<1>6. Images(p, at) = {f.ts \div Period : f \in fs}
  <2>1. \A i \in at : p[i] = PeriodOf(s[i])
    BY <1>2
  <2>2. \A i \in at : p[i] \in {f.ts \div Period : f \in fs}
    BY <1>2, <1>3, <2>1 DEF PeriodOf
  <2>3. \A f \in fs : \E i \in at : p[i] = f.ts \div Period
    BY <1>3, <1>4, <2>1 DEF PeriodOf
  <2> HIDE DEF p
  <2> QED
    BY <2>2, <2>3 DEF Images
<1> QED
  BY <1>5, <1>6 DEF at

-----------------------------------------------------------------------------
(* The report on a pair. *)

LEMMA RatesType ==
  ASSUME NEW fs, NEW s, NEW n, Ordered(fs, s, n), NEW at \in SUBSET (1..n)
  PROVE  SumOfRates(s, at) \in Int /\ Cardinality(at) \in Nat
<1> DEFINE F == [i \in DOMAIN s |-> s[i].value]
<1>1. IsFiniteSet(at) /\ Cardinality(at) \in Nat
  <2>1. IsFiniteSet(1..n)
    <3>1. 1 \in Int /\ n \in Int
      BY DEF Ordered
    <3> QED
      BY <3>1, FS_Interval
  <2> QED
    BY <2>1, FS_Subset, FS_CardinalityType
<1>2. Ints(F, at)
  BY DEF Ints, Ordered
<1> HIDE DEF F
<1>3. PICK h \in [SUBSET at -> Int] : SumFunctionOnSet(F, at) = h[at]
  BY <1>1, <1>2, SumsOn
<1>4. at \in SUBSET at
  OBVIOUS
<1> QED
  BY <1>1, <1>3, <1>4 DEF SumOfRates, F

LEMMA ResidualType ==
  ASSUME NEW fs, NEW s, NEW n, Ordered(fs, s, n), NEW at \in SUBSET (1..n), NEW i \in 1..n
  PROVE  Residual(s, at, i) \in Int
<1> DEFINE upTo == {j \in at : j <= i}
<1>1. upTo \in SUBSET (1..n)
  OBVIOUS
<1> HIDE DEF upTo
<1>2. SumOfRates(s, upTo) \in Int /\ SumOfRates(s, at) \in Int /\ Cardinality(at) \in Nat
  BY <1>1, RatesType
<1>3. n \in Nat /\ 1 \in 1..n /\ \A j \in 1..n : s[j].ts \in Nat
  BY DEF Ordered
<1>4. s[i].ts - s[1].ts \in Int /\ Period \in Int
  BY <1>3, ReportAssumption
<1> DEFINE a == SumOfRates(s, upTo)
           b == SumOfRates(s, at)
           c == Cardinality(at)
           d == s[i].ts - s[1].ts
<1>5. Residual(s, at, i) = a * c * Period - b * d
  BY DEF Residual, upTo
<1>6. a \in Int /\ b \in Int /\ c \in Int /\ d \in Int
  BY <1>2, <1>4
<1> HIDE DEF a, b, c, d
<1> QED
  BY <1>4, <1>5, <1>6

\* Half-life and span are differences of the times of rows that are kept.
LEMMA HalfLifeIs ==
  ASSUME NEW s, NEW n \in Nat \ {0}, NEW at \in SUBSET (1..n), 1 \in at
  PROVE  HalfLife(s, at) = Never \/ HalfLife(s, at) = 0 \/ \E i \in at : HalfLife(s, at) = s[i].ts - s[1].ts
<1> DEFINE size(i) == IF Residual(s, at, i) < 0 THEN -Residual(s, at, i) ELSE Residual(s, at, i)
           halved == {i \in at \ {1} : 2 * size(i) <= size(1)}
<1>1. HalfLife(s, at) \in {Never, 0} \/ (halved # {} /\ HalfLife(s, at) = s[Min(halved)].ts - s[1].ts)
  BY DEF HalfLife
<1>2. halved \subseteq at /\ halved \in SUBSET Nat
  <2> HIDE DEF size
  <2>1. halved \subseteq at
    OBVIOUS
  <2>2. at \subseteq Nat
    OBVIOUS
  <2> QED
    BY <2>1, <2>2
<1> HIDE DEF halved
<1>3. halved # {} => Min(halved) \in at
  BY <1>2, LeastPosition
<1> QED
  BY <1>1, <1>3

LEMMA SpanIs ==
  ASSUME NEW fs, NEW s, NEW n \in Nat \ {0}, Ordered(fs, s, n)
  PROVE  LET last == Max(DedupSettleBuckets(s))
         IN  /\ last \in 1..n /\ s[last].ts - s[1].ts \in Nat
             /\ s[last].ts - s[1].ts = SpanOf(FirstRows(fs))
<1> DEFINE at == DedupSettleBuckets(s)
           last == Max(at)
           all == {f.ts - g.ts : f, g \in FirstRows(fs)}
           m == s[last].ts - s[1].ts
<1>1. at \in SUBSET (1..n) /\ 1 \in at
  <2>1. Kept(s, n, at)
    BY KeptIs
  <2> QED
    BY <2>1 DEF Kept
<1>2. last \in at /\ \A i \in at : i <= last
  BY <1>1, GreatestPosition
<1>3. FirstRows(fs) = {s[i] : i \in at}
  BY KeptImages DEF Images
<1> HIDE DEF at, last
<1>4. \A i \in at : /\ s[i].ts \in Nat /\ s[1].ts \in Nat /\ s[last].ts \in Nat
                    /\ s[1].ts <= s[i].ts /\ s[i].ts <= s[last].ts
  <2> SUFFICES ASSUME NEW i \in at
               PROVE  /\ s[i].ts \in Nat /\ s[1].ts \in Nat /\ s[last].ts \in Nat
                      /\ s[1].ts <= s[i].ts /\ s[i].ts <= s[last].ts
    OBVIOUS
  <2>1. i \in 1..n /\ last \in 1..n /\ 1 \in 1..n /\ i <= last /\ 1 <= i
    BY <1>1, <1>2
  <2>2. \A j, k \in 1..n : s[j].ts \in Nat /\ (j < k => s[j].ts < s[k].ts)
    BY DEF Ordered
  <2>3. s[i].ts \in Nat /\ s[1].ts \in Nat /\ s[last].ts \in Nat
    BY <2>1, <2>2
  <2>4. s[1].ts <= s[i].ts
    BY <2>1, <2>2, <2>3
  <2>5. s[i].ts <= s[last].ts
    BY <2>1, <2>2, <2>3
  <2> QED
    BY <2>3, <2>4, <2>5
<1>5. \A f \in FirstRows(fs) : f.ts \in Nat /\ s[1].ts <= f.ts /\ f.ts <= s[last].ts
  BY <1>3, <1>4
<1>6. s[1] \in FirstRows(fs) /\ s[last] \in FirstRows(fs) /\ s[1].ts \in Nat /\ s[last].ts \in Nat /\ m \in Nat
  BY <1>1, <1>2, <1>3, <1>4
<1>7. m \in all
  BY <1>6
<1>8. \A t \in all : t \in Int /\ t <= m
  BY <1>5, <1>6
<1> HIDE DEF all, m
<1>9. SpanOf(FirstRows(fs)) = CHOOSE x \in all : \A t \in all : t <= x
  BY DEF SpanOf, all
<1>10. \A x \in all : (\A t \in all : t <= x) => x = m
  BY <1>6, <1>7, <1>8
<1>11. SpanOf(FirstRows(fs)) = m
  BY <1>7, <1>8, <1>9, <1>10
<1> QED
  BY <1>1, <1>2, <1>6, <1>11 DEF at, last, m

LEMMA SeriesExact ==
  ASSUME NEW fs, IsSeries(fs), fs # {}
  PROVE  ComputeSeries(fs) \in SeriesReports /\ Exact(ComputeSeries(fs), fs)
<1> DEFINE s == SortedFacts(fs)
           n == Cardinality(fs)
           at == DedupSettleBuckets(s)
           last == Max(at)
           span == s[last].ts - s[1].ts
           sum == SumOfRates(s, at)
           p == [i \in 1..n |-> PeriodOf(s[i])]
           F == [i \in DOMAIN s |-> s[i].value]
           G == [f \in fs |-> f.value]
           row == ComputeSeries(fs)
<1>1. row = [periods |-> Cardinality(at), sum |-> sum, span |-> span, residual |-> Residual(s, at, last),
             halfLife |-> HalfLife(s, at), pass |-> Passes(sum, span)]
  BY DEF ComputeSeries
<1>2. Ordered(fs, s, n)
  BY SortedIs
<1>3. n \in Nat \ {0}
  BY FS_CardinalityType, FS_EmptySet DEF IsSeries
<1> HIDE DEF s, n, row
<1>4. Kept(s, n, at)
  BY <1>2, KeptIs
<1>5. at \in SUBSET (1..n) /\ 1 \in at /\ IsFiniteSet(at)
  BY <1>3, <1>4 DEF Kept
<1>6. Cardinality(at) = Cardinality({f.ts \div Period : f \in fs}) /\ Cardinality(at) \in Nat
  <2>1. OneToOne(p, at) /\ Images(p, at) = {f.ts \div Period : f \in fs}
    BY <1>2, <1>4, KeptImages DEF Kept
  <2> HIDE DEF p, at
  <2> QED
    BY <1>5, <2>1, ImagesFinite, FS_CardinalityType
<1>7. sum = Earned(fs) /\ sum \in Int
  <2>1. OneToOne(s, at) /\ Images(s, at) = FirstRows(fs)
    BY <1>2, <1>4, KeptImages DEF Kept
  <2>2. /\ \A i \in at : F[i] \in Int /\ F[i] = G[s[i]]
        /\ sum = SumFunctionOnSet(F, at) /\ Earned(fs) = SumFunctionOnSet(G, FirstRows(fs))
    BY <1>2, <1>5 DEF Ordered, SumOfRates, Earned
  <2>3. sum \in Int
    BY <1>2, <1>5, RatesType
  <2> HIDE DEF F, G, at, sum
  <2>4. SumFunctionOnSet(F, at) = SumFunctionOnSet(G, Images(s, at))
    BY <1>5, <2>1, <2>2, SumThrough DEF Ints
  <2> QED
    BY <2>1, <2>2, <2>3, <2>4
<1>8. last \in 1..n /\ span \in Nat /\ span = SpanOf(FirstRows(fs))
  BY <1>2, <1>3, SpanIs
<1>9. Residual(s, at, last) \in Int
  BY <1>2, <1>5, <1>8, ResidualType
<1>10. /\ HalfLife(s, at) # Never => HalfLife(s, at) \in {0} \cup {f.ts - g.ts : f, g \in FirstRows(fs)}
       /\ HalfLife(s, at) \in Nat \cup {Never}
  <2>1. HalfLife(s, at) = Never \/ HalfLife(s, at) = 0 \/ \E i \in at : HalfLife(s, at) = s[i].ts - s[1].ts
    BY <1>3, <1>5, HalfLifeIs
  <2>2. \A i \in at : s[i] \in FirstRows(fs) /\ s[i].ts - s[1].ts \in Nat
    <3> SUFFICES ASSUME NEW i \in at PROVE s[i] \in FirstRows(fs) /\ s[i].ts - s[1].ts \in Nat
      OBVIOUS
    <3>1. i \in 1..n /\ 1 \in 1..n
      BY <1>5
    <3>2. s[i] \in FirstRows(fs)
      BY <1>2, <3>1, KeptIsFirst
    <3>3. s[i].ts \in Nat /\ s[1].ts \in Nat /\ (1 < i => s[1].ts < s[i].ts)
      BY <1>2, <3>1 DEF Ordered
    <3>4. i = 1 \/ 1 < i
      BY <3>1
    <3> QED
      BY <3>2, <3>3, <3>4
  <2> HIDE DEF at
  <2> QED
    BY <1>5, <2>1, <2>2
<1>11. Passes(sum, span) <=> (sum - Costs) * Period > 0 /\ (sum - Costs) * Period >= Demanded * span
  BY <1>7, <1>8, PassesMeans
<1> HIDE DEF at, last, span, sum
<1>12. Passes(sum, span) \in BOOLEAN
  <2>1. CASE span = 0
    BY <2>1 DEF Passes
  <2>2. CASE span # 0
    BY <2>2 DEF Passes
  <2> QED
    BY <2>1, <2>2
<1>13. row \in SeriesReports
  BY <1>1, <1>6, <1>7, <1>8, <1>9, <1>10, <1>12 DEF SeriesReports
<1>14. Exact(row, fs)
  BY <1>1, <1>6, <1>7, <1>8, <1>10, <1>11 DEF Exact
<1> QED
  BY <1>13, <1>14 DEF row

-----------------------------------------------------------------------------
(* The file. *)

\* The facts stored: finitely many, one of a pair at a time.
StoredInv ==
  /\ IsFiniteSet(funding) /\ funding \subseteq Facts
  /\ \A f, g \in funding : f.venue = g.venue /\ f.ts = g.ts => f = g

Whole(f) == f = Blank \/ (f.of \subseteq funding /\ f = ReportOn(f.of))

\* The file is only ever replaced by a whole one.
WholeInv ==
  /\ moment \in 0..MaxMoment /\ writing \in {"idle", "render", "write", "rename"}
  /\ returned \subseteq funding /\ Whole(temp) /\ Whole(file)

RInv == StoredInv /\ WholeInv

LEMMA PairIsSeries ==
  ASSUME StoredInv, NEW A \in SUBSET funding, NEW v
  PROVE  IsSeries({f \in A : f.venue = v})
<1> DEFINE fs == {f \in A : f.venue = v}
<1>1. fs \subseteq funding /\ \A f \in fs : f \in Facts
  BY DEF StoredInv
<1>2. \A f \in Facts : f.ts \in Nat /\ f.value \in Int
  <2> SUFFICES ASSUME NEW f \in Facts PROVE f.ts \in Nat /\ f.value \in Int
    OBVIOUS
  <2>1. f.ts \in 0..MaxMoment /\ f.value \in AnnualRates
    BY DEF Facts
  <2>2. 0..MaxMoment \subseteq Nat /\ AnnualRates \subseteq Int
    BY ReportAssumption
  <2> HIDE DEF fs
  <2> QED
    BY <2>1, <2>2, Zenon
<1>3. IsFiniteSet(fs)
  BY <1>1, FS_Subset DEF StoredInv
<1>4. \A f, g \in fs : f.ts = g.ts => f = g
  BY DEF StoredInv
<1> QED
  BY <1>1, <1>2, <1>3, <1>4 DEF IsSeries

LEMMA WholeIsExact ==
  ASSUME StoredInv, NEW r, Whole(r)
  PROVE  /\ DOMAIN r.rows = {f.venue : f \in r.of}
         /\ \A v \in DOMAIN r.rows : r.rows[v] \in SeriesReports /\ Exact(r.rows[v], {f \in r.of : f.venue = v})
         /\ r = Blank \/ (r.of \subseteq funding /\ r.rows \in [{g.venue : g \in r.of} -> SeriesReports])
<1>1. CASE r = Blank
  <2>1. r.of = {} /\ r.rows = <<>>
    BY <1>1 DEF Blank
  <2>2. DOMAIN r.rows = {}
    BY <2>1
  <2> QED
    BY <1>1, <2>1, <2>2
<1>2. CASE r # Blank
  <2> DEFINE A == r.of
             venues == {f.venue : f \in A}
             Row(v) == ComputeSeries({f \in A : f.venue = v})
  <2>1. A \in SUBSET funding /\ r = ReportOn(A)
    BY <1>2 DEF Whole
  <2>2. ASSUME NEW v \in venues PROVE Row(v) \in SeriesReports /\ Exact(Row(v), {f \in A : f.venue = v})
    <3> DEFINE fs == {f \in A : f.venue = v}
    <3>1. IsSeries(fs)
      BY <2>1, PairIsSeries
    <3>2. fs # {}
      BY <2>2
    <3> HIDE DEF fs
    <3>3. ComputeSeries(fs) \in SeriesReports /\ Exact(ComputeSeries(fs), fs)
      BY <3>1, <3>2, SeriesExact
    <3> QED
      BY <3>3 DEF fs
  <2>3. r.rows = [v \in venues |-> Row(v)]
    BY <2>1 DEF ReportOn
  <2> HIDE DEF Row, venues
  <2>4. DOMAIN r.rows = venues /\ r.rows \in [venues -> SeriesReports] /\ \A v \in venues : r.rows[v] = Row(v)
    BY <2>2, <2>3
  <2> QED
    BY <2>1, <2>2, <2>4 DEF venues
<1> QED
  BY <1>1, <1>2

LEMMA ReportInvTypes == RInv => ReportTypeOK
<1> SUFFICES ASSUME RInv PROVE ReportTypeOK
  OBVIOUS
<1>1. StoredInv /\ Whole(temp) /\ Whole(file)
  BY DEF RInv, WholeInv
<1>2. \A f \in {temp, file} : f = Blank \/ (f.of \subseteq funding /\ f.rows \in [{g.venue : g \in f.of} -> SeriesReports])
  BY <1>1, WholeIsExact
<1> QED
  BY <1>2 DEF RInv, WholeInv, StoredInv, ReportTypeOK

LEMMA ReportInvExact == RInv => ReportExact
<1> SUFFICES ASSUME RInv PROVE ReportExact
  OBVIOUS
<1>1. StoredInv /\ Whole(file)
  BY DEF RInv, WholeInv
<1>2. /\ DOMAIN file.rows = {f.venue : f \in file.of}
      /\ \A v \in DOMAIN file.rows : Exact(file.rows[v], {f \in file.of : f.venue = v})
  BY <1>1, WholeIsExact
<1> QED
  BY <1>2 DEF ReportExact

LEMMA ReportStart == ReportInit => RInv
BY FS_EmptySet, ReportAssumption DEF ReportInit, RInv, StoredInv, WholeInv, Whole

\* A fact that is added leaves the facts of a report where they are.
LEMMA StoreStep ==
  ASSUME RInv, NEW f \in Facts, Store(f)
  PROVE  RInv'
<1>1. /\ \A g \in funding : g.venue = f.venue => g.ts # f.ts
      /\ funding' = funding \cup {f} /\ UNCHANGED <<moment, writing, returned, temp, file>>
  BY DEF Store
<1>2. StoredInv'
  <2>1. IsFiniteSet(funding')
    BY <1>1, FS_AddElement DEF RInv, StoredInv
  <2>2. funding' \subseteq Facts
    BY <1>1 DEF RInv, StoredInv
  <2>3. \A g, h \in funding' : g.venue = h.venue /\ g.ts = h.ts => g = h
    BY <1>1 DEF RInv, StoredInv
  <2> QED
    BY <2>1, <2>2, <2>3 DEF StoredInv
<1>3. WholeInv'
  <2>1. \A r : Whole(r) => Whole(r)'
    BY <1>1 DEF Whole
  <2> QED
    BY <1>1, <2>1 DEF RInv, WholeInv, Whole
<1> QED
  BY <1>2, <1>3 DEF RInv

LEMMA ReportStep == RInv /\ [ReportNext]_reportvars => RInv'
<1> SUFFICES ASSUME RInv, [ReportNext]_reportvars PROVE RInv'
  OBVIOUS
<1>1. ASSUME NEW v \in Pairs, NEW r \in AnnualRates, PollRate(v, r) PROVE RInv'
  <2>1. [venue |-> v, ts |-> moment, value |-> r] \in Facts
    BY DEF Facts, RInv, WholeInv
  <2> QED
    BY <1>1, <2>1, StoreStep DEF PollRate
<1>2. ASSUME NEW v \in Pairs, NEW r \in AnnualRates, NEW t \in 0..MaxMoment, BackfillRate(v, t, r) PROVE RInv'
  <2>1. [venue |-> v, ts |-> t, value |-> r] \in Facts
    BY DEF Facts
  <2> QED
    BY <1>2, <2>1, StoreStep DEF BackfillRate
<1>3. CASE MomentPasses
  BY <1>3, ReportAssumption DEF MomentPasses, RInv, StoredInv, WholeInv, Whole
<1>4. CASE AskFunding
  BY <1>4 DEF AskFunding, RInv, StoredInv, WholeInv, Whole
<1>5. CASE CreateTemp
  BY <1>5 DEF CreateTemp, RInv, StoredInv, WholeInv, Whole
<1>6. CASE WriteTemp
  <2>1. ReportOn(returned).of = returned
    BY DEF ReportOn
  <2> QED
    BY <1>6, <2>1 DEF WriteTemp, RInv, StoredInv, WholeInv, Whole
<1>7. CASE Rename \/ ReportFails
  BY <1>7 DEF Rename, ReportFails, RInv, StoredInv, WholeInv, Whole
<1>8. CASE UNCHANGED reportvars
  BY <1>8 DEF reportvars, RInv, StoredInv, WholeInv, Whole
<1> QED
  BY <1>1, <1>2, <1>3, <1>4, <1>5, <1>6, <1>7, <1>8 DEF ReportNext

\* The types of the facts and of the file.
THEOREM ReportTypes == ReportSpec => []ReportTypeOK
BY ReportStart, ReportStep, ReportInvTypes, PTL DEF ReportSpec

(* For any rates, polls and backfills, and whatever fails or dies while it   *)
(* is written, the file is a whole report in which each settlement period    *)
(* counts once and a pair passes exactly if it does.                         *)
THEOREM ReportIsExact == ReportSpec => []ReportExact
BY ReportStart, ReportStep, ReportInvExact, PTL DEF ReportSpec

-----------------------------------------------------------------------------
(* The scan of a replay, over the set H of the positions of high readings. *)

\* The positions with nothing but high readings up to j.
RunOf(H, n, j) == {k \in 1..n : \A m \in 1..n : (j <= m /\ m <= k) \/ (k <= m /\ m <= j) => m \in H}

\* The high readings that end at i without a gap, and the runs of those before them.
Ending(H, i) == {j \in H : j <= i /\ \A m \in j..i : m \in H}
RunsEnded(H, n, i) == {RunOf(H, n, j) : j \in {j \in H : j <= i} \ Ending(H, i)}

IsScan(scan, H, n, i) == scan = [windows |-> RunsEnded(H, n, i), cur |-> Ending(H, i)]

LEMMA ScanGrows ==
  ASSUME NEW n \in Nat, NEW H \in SUBSET (1..n), NEW i \in 0..(n - 1), i + 1 \in H, NEW scan, IsScan(scan, H, n, i)
  PROVE  IsScan([windows |-> scan.windows, cur |-> scan.cur \cup {i + 1}], H, n, i + 1)
<1>1. Ending(H, i + 1) = Ending(H, i) \cup {i + 1}
  <2>1. ASSUME NEW j \in Ending(H, i + 1), j # i + 1 PROVE j \in Ending(H, i)
    BY <2>1 DEF Ending
  <2>2. ASSUME NEW j \in Ending(H, i) PROVE j \in Ending(H, i + 1)
    <3>1. j \in H /\ j \in 1..n /\ j <= i /\ \A m \in j..i : m \in H
      BY DEF Ending
    <3>2. \A m \in j..(i + 1) : m = i + 1 \/ m \in j..i
      BY <3>1
    <3>3. j <= i + 1
      BY <3>1
    <3> QED
      BY <3>1, <3>2, <3>3 DEF Ending
  <2>3. i + 1 \in Ending(H, i + 1)
    BY DEF Ending
  <2> QED
    BY <2>1, <2>2, <2>3, Zenon
<1>2. {j \in H : j <= i + 1} \ Ending(H, i + 1) = {j \in H : j <= i} \ Ending(H, i)
  <2>1. ASSUME NEW j \in H PROVE j <= i + 1 /\ j \notin Ending(H, i + 1) <=> j <= i /\ j \notin Ending(H, i)
    <3>1. j <= i + 1 <=> j <= i \/ j = i + 1
      OBVIOUS
    <3>2. j = i + 1 => ~(j <= i)
      OBVIOUS
    <3> QED
      BY <1>1, <3>1, <3>2, Zenon
  <2> HIDE DEF Ending
  <2>2. \A j \in H : (j <= i + 1 /\ j \notin Ending(H, i + 1)) <=> (j <= i /\ j \notin Ending(H, i))
    BY <2>1
  <2> QED
    BY <2>2
<1>3. RunsEnded(H, n, i + 1) = RunsEnded(H, n, i)
  BY <1>2, Zenon DEF RunsEnded
<1>4. scan = [windows |-> RunsEnded(H, n, i), cur |-> Ending(H, i)]
  BY DEF IsScan
<1> QED
  BY <1>1, <1>3, <1>4 DEF IsScan

\* The run under way is the run of each of its positions once a low reading, or none, comes after it.
LEMMA EndingIsRun ==
  ASSUME NEW n \in Nat, NEW H \in SUBSET (1..n), NEW i \in 0..n, i = n \/ i + 1 \notin H, NEW j \in Ending(H, i)
  PROVE  RunOf(H, n, j) = Ending(H, i)
<1>1. j \in H /\ j \in 1..n /\ j <= i /\ \A m \in j..i : m \in H
  BY DEF Ending
<1>2. ASSUME NEW k \in RunOf(H, n, j) PROVE k \in Ending(H, i)
  <2>1. k \in 1..n /\ \A m \in 1..n : (j <= m /\ m <= k) \/ (k <= m /\ m <= j) => m \in H
    BY DEF RunOf
  <2>2. k \in H
    BY <1>1, <2>1
  <2>3. k <= i
    <3> SUFFICES ASSUME i < k PROVE FALSE
      BY <2>1
    <3>1. i + 1 \in 1..n /\ j <= i + 1 /\ i + 1 <= k
      BY <1>1, <2>1
    <3> QED
      BY <2>1, <3>1
  <2>4. ASSUME NEW m \in k..i PROVE m \in H
    <3>1. m \in 1..n
      BY <2>1
    <3>2. CASE m <= j
      BY <2>1, <3>1, <3>2
    <3>3. CASE ~(m <= j)
      BY <1>1, <3>1, <3>3
    <3> QED
      BY <3>2, <3>3
  <2> QED
    BY <2>2, <2>3, <2>4 DEF Ending
<1>3. ASSUME NEW k \in Ending(H, i) PROVE k \in RunOf(H, n, j)
  <2>1. k \in H /\ k \in 1..n /\ k <= i /\ \A m \in k..i : m \in H
    BY DEF Ending
  <2>2. ASSUME NEW m \in 1..n, (j <= m /\ m <= k) \/ (k <= m /\ m <= j) PROVE m \in H
    <3>1. m \in j..i \/ m \in k..i
      BY <1>1, <2>1, <2>2
    <3> QED
      BY <1>1, <2>1, <3>1
  <2> QED
    BY <2>1, <2>2 DEF RunOf
<1> QED
  BY <1>2, <1>3

LEMMA FlushEnds ==
  ASSUME NEW n \in Nat, NEW H \in SUBSET (1..n), NEW i \in 0..n, i = n \/ i + 1 \notin H,
         NEW scan, IsScan(scan, H, n, i)
  PROVE  Flush(scan) = [windows |-> {RunOf(H, n, j) : j \in {j \in H : j <= i}}, cur |-> {}]
<1> DEFINE C == Ending(H, i)
           A == {j \in H : j <= i}
           W == {RunOf(H, n, j) : j \in A}
<1>1. scan = [windows |-> RunsEnded(H, n, i), cur |-> C]
  BY DEF IsScan
<1>2. C \subseteq A
  BY DEF Ending
<1>3. \A j \in C : RunOf(H, n, j) = C
  BY EndingIsRun
<1>4. RunsEnded(H, n, i) = {RunOf(H, n, j) : j \in A \ C}
  BY DEF RunsEnded
<1> HIDE DEF C, A
<1>5. CASE C = {}
  <2>1. RunsEnded(H, n, i) = W
    BY <1>4, <1>5
  <2> QED
    BY <1>1, <1>5, <2>1 DEF Flush, A
<1>6. CASE C # {}
  <2>1. RunsEnded(H, n, i) \cup {C} = W
    BY <1>2, <1>3, <1>4, <1>6
  <2>2. Flush(scan) = [windows |-> RunsEnded(H, n, i) \cup {C}, cur |-> {}]
    BY <1>1, <1>6 DEF Flush
  <2> QED
    BY <2>1, <2>2 DEF A
<1> QED
  BY <1>5, <1>6

LEMMA FlushGoesOn ==
  ASSUME NEW n \in Nat, NEW H \in SUBSET (1..n), NEW i \in 0..(n - 1), i + 1 \notin H, NEW scan, IsScan(scan, H, n, i)
  PROVE  IsScan(Flush(scan), H, n, i + 1)
<1>1. Flush(scan) = [windows |-> {RunOf(H, n, j) : j \in {j \in H : j <= i}}, cur |-> {}]
  <2>1. i \in 0..n
    OBVIOUS
  <2> QED
    BY <2>1, FlushEnds
<1>2. Ending(H, i + 1) = {}
  BY DEF Ending
<1>3. {j \in H : j <= i} = {j \in H : j <= i + 1} \ Ending(H, i + 1)
  <2>1. ASSUME NEW j \in H PROVE j <= i <=> j <= i + 1
    BY <2>1
  <2>2. {j \in H : j <= i} = {j \in H : j <= i + 1}
    BY <2>1
  <2> QED
    BY <1>2, <2>2
<1>4. {RunOf(H, n, j) : j \in {j \in H : j <= i}} = RunsEnded(H, n, i + 1)
  BY <1>3, Zenon DEF RunsEnded
<1> QED
  BY <1>1, <1>2, <1>4, Zenon DEF IsScan

Highs(s) == {i \in DOMAIN s : s[i].value >= Tier}

ScanUpTo(s, prev, i) == IF i = 0 THEN NoScan ELSE Scan(s, prev, i)
AreScans(s, f, n) == f = [i \in 0..n |-> ScanUpTo(s, f[i - 1], i)]

LEMMA ScansExist ==
  ASSUME NEW s, NEW n \in Nat
  PROVE  \E f : AreScans(s, f, n)
<1> DEFINE Good == {m \in Nat : \E f : AreScans(s, f, m)}
<1>1. 0 \in Good
  <2> DEFINE f == [i \in 0..0 |-> NoScan]
  <2>1. f = [i \in 0..0 |-> ScanUpTo(s, f[i - 1], i)]
    BY DEF ScanUpTo
  <2> QED
    BY <2>1 DEF AreScans
<1>2. ASSUME NEW m \in Nat, m \in Good PROVE m + 1 \in Good
  <2>1. PICK f : AreScans(s, f, m)
    BY <1>2
  <2> DEFINE g == [i \in 0..(m + 1) |-> ScanUpTo(s, f[i - 1], i)]
  <2>2. \A i \in 0..m : g[i] = f[i]
    BY <2>1 DEF AreScans
  <2>3. ASSUME NEW i \in 0..(m + 1) PROVE ScanUpTo(s, f[i - 1], i) = ScanUpTo(s, g[i - 1], i)
    <3>1. CASE i = 0
      BY <3>1 DEF ScanUpTo
    <3>2. CASE i # 0
      <4>1. i - 1 \in 0..m
        BY <3>2
      <4> QED
        BY <2>2, <4>1, Zenon
    <3> QED
      BY <3>1, <3>2
  <2>4. g = [i \in 0..(m + 1) |-> ScanUpTo(s, g[i - 1], i)]
    BY <2>3
  <2>5. AreScans(s, g, m + 1)
    BY <2>4 DEF AreScans
  <2> QED
    BY <2>5
<1>3. Nat \subseteq Good
  <2> HIDE DEF Good
  <2> QED
    BY <1>1, <1>2, AllNaturals
<1> QED
  BY <1>3

LEMMA ScansAre ==
  ASSUME NEW s, Len(s) \in Nat
  PROVE  \A i \in 0..Len(s) : Scans(s)[i] = ScanUpTo(s, Scans(s)[i - 1], i)
<1> DEFINE f == CHOOSE f : AreScans(s, f, Len(s))
<1>1. Scans(s) = f
  BY DEF Scans, AreScans, ScanUpTo
<1>2. AreScans(s, f, Len(s))
  BY ScansExist, Zenon
<1> HIDE DEF f
<1> QED
  BY <1>1, <1>2 DEF AreScans

\* The scan finds the runs of high readings, all of them.
LEMMA WindowsAre ==
  ASSUME NEW s, NEW n \in Nat, Len(s) = n, DOMAIN s = 1..n
  PROVE  WindowsOf(s) = {RunOf(Highs(s), n, j) : j \in Highs(s)}
<1> DEFINE H == Highs(s)
           c == Scans(s)
           Good == {i \in Nat : i <= n => IsScan(c[i], H, n, i)}
<1>1. H \in SUBSET (1..n) /\ \A i \in 1..n : i \in H <=> s[i].value >= Tier
  BY DEF Highs
<1>2. \A i \in 0..n : c[i] = ScanUpTo(s, c[i - 1], i)
  BY ScansAre
<1> HIDE DEF H, c
<1>3. 0 \in Good
  <2>1. c[0] = NoScan
    BY <1>2 DEF ScanUpTo
  <2>2. {j \in H : j <= 0} = {} /\ Ending(H, 0) = {}
    <3>1. \A j \in H : ~(j <= 0)
      BY <1>1
    <3> QED
      BY <3>1 DEF Ending
  <2>3. RunsEnded(H, n, 0) = {}
    BY <2>2 DEF RunsEnded
  <2>4. IsScan(c[0], H, n, 0)
    BY <2>1, <2>2, <2>3, Zenon DEF IsScan, NoScan
  <2> QED
    BY <2>4
<1>4. ASSUME NEW i \in Nat, i \in Good PROVE i + 1 \in Good
  <2> SUFFICES ASSUME i + 1 <= n PROVE IsScan(c[i + 1], H, n, i + 1)
    OBVIOUS
  <2>1. i \in 0..(n - 1) /\ i + 1 \in 1..n /\ i + 1 \in 0..n /\ IsScan(c[i], H, n, i)
    BY <1>4
  <2>2. c[i + 1] = Scan(s, c[i], i + 1)
    BY <1>2, <2>1 DEF ScanUpTo
  <2>3. CASE i + 1 \in H
    <3>1. c[i + 1] = [windows |-> c[i].windows, cur |-> c[i].cur \cup {i + 1}]
      BY <1>1, <2>1, <2>2, <2>3 DEF Scan
    <3> QED
      BY <1>1, <2>1, <2>3, <3>1, ScanGrows
  <2>4. CASE i + 1 \notin H
    <3>1. c[i + 1] = Flush(c[i])
      BY <1>1, <2>1, <2>2, <2>4 DEF Scan
    <3> QED
      BY <1>1, <2>1, <2>4, <3>1, FlushGoesOn
  <2> QED
    BY <2>3, <2>4
<1>5. n \in Good
  <2>1. Nat \subseteq Good
    <3> HIDE DEF Good
    <3> QED
      BY <1>3, <1>4, AllNaturals
  <2> QED
    BY <2>1
<1>6. Flush(c[n]) = [windows |-> {RunOf(H, n, j) : j \in {j \in H : j <= n}}, cur |-> {}]
  <2>1. n \in 0..n /\ IsScan(c[n], H, n, n)
    BY <1>5
  <2> QED
    BY <1>1, <2>1, FlushEnds
<1>7. {j \in H : j <= n} = H
  BY <1>1
<1> QED
  BY <1>6, <1>7 DEF WindowsOf, c, H

-----------------------------------------------------------------------------
(* The windows of an ordered series are the spans of its facts. *)

LEMMA RowsOrdered ==
  ASSUME NEW fs, IsSeries(fs), NEW s \in Rows(fs)
  PROVE  Ordered(fs, s, Cardinality(fs))
<1> DEFINE n == Cardinality(fs)
<1>1. /\ s \in [1..n -> fs] /\ Range(s) = fs /\ IsFiniteSet(fs) /\ n \in Nat
      /\ \A i, j \in 1..n : i < j => s[i].ts <= s[j].ts
  BY FS_CardinalityType DEF Rows, IsSeries
<1>2. s \in Surjection(1..n, fs) /\ DOMAIN s = 1..n
  BY <1>1 DEF Surjection, Range
<1>3. s \in Injection(1..n, fs)
  <2>1. IsFiniteSet(1..n) /\ Cardinality(1..n) = n
    BY <1>1, FS_Interval
  <2> HIDE DEF n
  <2> QED
    BY <1>2, <2>1, FS_SurjSameCardinalityImpliesInj DEF n
<1>4. \A i \in 1..n : s[i] \in fs /\ s[i].ts \in Nat /\ s[i].value \in Int
  BY <1>1 DEF IsSeries
<1>5. ASSUME NEW i \in 1..n, NEW j \in 1..n, i < j PROVE s[i].ts < s[j].ts
  <2>1. s[i] # s[j]
    BY <1>3, <1>5 DEF Injection, IsInjective
  <2>2. s[i].ts # s[j].ts
    BY <1>4, <2>1 DEF IsSeries
  <2> QED
    BY <1>1, <1>4, <1>5, <2>2
<1>6. \A f \in fs : \E i \in 1..n : s[i] = f
  BY <1>1, <1>2 DEF Range
<1> QED
  BY <1>1, <1>2, <1>4, <1>5, <1>6 DEF Ordered

LEMMA RowsExist ==
  ASSUME NEW fs, IsSeries(fs)
  PROVE  (CHOOSE s \in Rows(fs) : TRUE) \in Rows(fs)
<1>1. SortedFacts(fs) \in Rows(fs)
  <2> DEFINE s == SortedFacts(fs)
             n == Cardinality(fs)
  <2>1. Ordered(fs, s, n)
    BY SortedIs
  <2> HIDE DEF s, n
  <2>2. s \in [1..n -> fs] /\ Range(s) = fs
    BY <2>1 DEF Ordered, Range
  <2>3. \A i, j \in DOMAIN s : i < j => s[i].ts <= s[j].ts
    BY <2>1 DEF Ordered
  <2> QED
    BY <2>2, <2>3 DEF Rows, s, n
<1> QED
  BY <1>1

\* Two facts are as far apart as their positions.
LEMMA PositionsTell ==
  ASSUME NEW fs, NEW s, NEW n, Ordered(fs, s, n), NEW j \in 1..n, NEW k \in 1..n
  PROVE  /\ s[j].ts < s[k].ts <=> j < k
         /\ s[j] = s[k] <=> j = k
<1>1. n \in Nat /\ s[j].ts \in Nat /\ s[k].ts \in Nat /\ (j < k => s[j].ts < s[k].ts) /\ (k < j => s[k].ts < s[j].ts)
  BY DEF Ordered
<1>2. j < k \/ j = k \/ k < j
  BY <1>1
<1> QED
  BY <1>1, <1>2

LEMMA RunIsTogether ==
  ASSUME NEW fs, NEW s, NEW n, Ordered(fs, s, n), \A f \in fs : f.ts \in 0..MaxDay, NEW j \in Highs(s)
  PROVE  Images(s, RunOf(Highs(s), n, j)) = Together(s[j], fs)
<1> DEFINE H == Highs(s)
<1>1. /\ n \in Nat /\ DOMAIN s = 1..n /\ Tier \in Nat
      /\ \A i \in 1..n : s[i] \in fs /\ s[i].ts \in Nat /\ s[i].value \in Int /\ (i \in H <=> s[i].value >= Tier)
      /\ H \subseteq 1..n /\ j \in 1..n /\ j \in H
  BY ReplayAssumption DEF Ordered, Highs
<1>2. \A f \in fs : \E i \in 1..n : s[i] = f
  BY DEF Ordered
<1> HIDE DEF H
<1>3. ASSUME NEW k \in RunOf(H, n, j) PROVE s[k] \in Together(s[j], fs)
  <2>1. k \in 1..n /\ k \in H /\ \A m \in 1..n : (j <= m /\ m <= k) \/ (k <= m /\ m <= j) => m \in H
    BY <1>1 DEF RunOf
  <2>2. s[k] \in High(fs)
    BY <1>1, <2>1 DEF High
  <2>3. ASSUME NEW h \in fs, h.value < Tier, h.ts \in DaysBetween(s[j], s[k]) PROVE FALSE
    <3>1. PICK m \in 1..n : s[m] = h
      BY <1>2
    <3>2. m \notin H
      BY <1>1, <2>3, <3>1
    <3>3. (s[j].ts < s[m].ts /\ s[m].ts < s[k].ts) \/ (s[k].ts < s[m].ts /\ s[m].ts < s[j].ts)
      BY <2>3, <3>1 DEF DaysBetween
    <3>4. (j < m /\ m < k) \/ (k < m /\ m < j)
      BY <1>1, <2>1, <3>1, <3>3, PositionsTell
    <3> QED
      BY <1>1, <2>1, <3>1, <3>2, <3>4
  <2> QED
    BY <2>2, <2>3 DEF Together
<1>4. ASSUME NEW g \in Together(s[j], fs) PROVE \E k \in RunOf(H, n, j) : s[k] = g
  <2>1. g \in fs /\ g.value >= Tier /\ \A h \in fs : h.value < Tier => h.ts \notin DaysBetween(s[j], g)
    BY DEF Together, High
  <2>2. PICK k \in 1..n : s[k] = g
    BY <1>2, <2>1
  <2>3. k \in H
    BY <1>1, <2>1, <2>2
  <2>4. ASSUME NEW m \in 1..n, (j <= m /\ m <= k) \/ (k <= m /\ m <= j), m \notin H PROVE FALSE
    <3>1. s[m] \in fs /\ s[m].value < Tier
      BY <1>1, <2>4
    <3>2. m # j /\ m # k
      BY <1>1, <2>3, <2>4
    <3>3. (j < m /\ m < k) \/ (k < m /\ m < j)
      BY <1>1, <2>2, <2>4, <3>2
    <3>4. (s[j].ts < s[m].ts /\ s[m].ts < s[k].ts) \/ (s[k].ts < s[m].ts /\ s[m].ts < s[j].ts)
      <4>1. \A a, b \in 1..n : a < b => s[a].ts < s[b].ts
        BY DEF Ordered
      <4> QED
        BY <1>1, <3>3, <4>1
    <3>5. s[m].ts \in DaysBetween(s[j], g)
      BY <2>2, <3>1, <3>4 DEF DaysBetween
    <3> QED
      BY <2>1, <3>1, <3>5
  <2> QED
    BY <2>2, <2>4 DEF RunOf
<1> QED
  BY <1>3, <1>4 DEF Images, H

\* What separates the first from the last fact of a window.
LEMMA DaysOfWindow ==
  ASSUME NEW fs, NEW s, NEW n, Ordered(fs, s, n), NEW w \in SUBSET (1..n), w # {}
  PROVE  /\ s[Max(w)].ts - s[Min(w)].ts \in Nat
         /\ Days(Images(s, w)) = s[Max(w)].ts - s[Min(w)].ts
<1> DEFINE a == Min(w)
           b == Max(w)
           d == s[b].ts - s[a].ts
           span == {f.ts - g.ts : f, g \in Images(s, w)}
<1>1. n \in Nat /\ \A i \in 1..n : s[i].ts \in Nat
  BY DEF Ordered
<1>2. \A i, j \in 1..n : i <= j => s[i].ts <= s[j].ts
  <2> SUFFICES ASSUME NEW i \in 1..n, NEW j \in 1..n, i <= j PROVE s[i].ts <= s[j].ts
    OBVIOUS
  <2>1. i = j \/ i < j
    BY <1>1
  <2> QED
    BY <1>1, <2>1 DEF Ordered
<1>3. b \in w /\ \A i \in w : i <= b
  BY <1>1, GreatestPosition
<1>4. a \in w /\ \A i \in w : a <= i
  <2>1. w \in SUBSET Nat
    BY <1>1
  <2> QED
    BY <2>1, LeastPosition
<1>5. \A i \in w : i \in 1..n
  OBVIOUS
<1> HIDE DEF a, b
<1>6. d \in span /\ \A e \in span : e \in Int /\ e <= d
  <2>1. d \in span
    BY <1>3, <1>4 DEF Images
  <2>2. ASSUME NEW i \in w, NEW j \in w PROVE s[i].ts - s[j].ts \in Int /\ s[i].ts - s[j].ts <= d
    <3>1. s[i].ts <= s[b].ts /\ s[a].ts <= s[j].ts
      BY <1>2, <1>3, <1>4, <1>5
    <3>2. s[i].ts \in Nat /\ s[b].ts \in Nat /\ s[a].ts \in Nat /\ s[j].ts \in Nat
      BY <1>1, <1>3, <1>4, <1>5
    <3> QED
      BY <3>1, <3>2
  <2> QED
    <3>1. \A e \in span : \E i, j \in w : e = s[i].ts - s[j].ts
      BY DEF Images
    <3> HIDE DEF span, d
    <3> QED
      BY <2>1, <2>2, <3>1
<1>7. d \in Nat
  <2>1. s[a].ts <= s[b].ts
    BY <1>2, <1>3, <1>4, <1>5
  <2> QED
    BY <1>1, <1>3, <1>4, <1>5, <2>1
<1>8. Days(Images(s, w)) = CHOOSE x \in span : \A e \in span : e <= x
  BY DEF Days
<1> HIDE DEF span, d
<1>9. \A x \in span : (\A e \in span : e <= x) => x = d
  <2> SUFFICES ASSUME NEW x \in span, \A e \in span : e <= x PROVE x = d
    OBVIOUS
  <2>1. d <= x /\ x <= d /\ x \in Int /\ d \in Int
    BY <1>6
  <2> QED
    BY <2>1
<1>10. Days(Images(s, w)) = d
  BY <1>6, <1>8, <1>9
<1> QED
  BY <1>7, <1>10 DEF a, b, d

LEMMA WindowNet ==
  ASSUME NEW fs, NEW s, NEW n, Ordered(fs, s, n), NEW w \in SUBSET (1..n), w # {}
  PROVE  WindowFrom(s, w) \in Int /\ WindowFrom(s, w) = NetOf(Images(s, w))
<1> DEFINE W == Images(s, w)
           d == s[Max(w)].ts - s[Min(w)].ts
           c == Friction \div (IF d < 1 THEN 1 ELSE d)
           F == [i \in DOMAIN s |-> s[i].value]
           one == [i \in w |-> 1]
           H == [i \in w |-> s[i].value - c]
           G == [f \in W |-> f.value - c]
<1>1. n \in Nat /\ DOMAIN s = 1..n /\ \A i \in 1..n : s[i].value \in Int
  BY DEF Ordered
<1>2. IsFiniteSet(w)
  <2>1. IsFiniteSet(1..n)
    BY <1>1, FS_Interval
  <2> QED
    BY <2>1, FS_Subset
<1>3. d \in Nat /\ Days(W) = d
  BY DaysOfWindow
<1> HIDE DEF d
<1>4. c \in Int
  <2>1. Friction \in Nat /\ (IF d < 1 THEN 1 ELSE d) \in Nat \ {0}
    BY <1>3, ReplayAssumption
  <2> QED
    BY <2>1
<1>5. WindowFrom(s, w) = SumFunctionOnSet(F, w) - Cardinality(w) * c
  BY DEF WindowFrom, d
<1>6. NetOf(W) = SumFunctionOnSet(G, W)
  BY <1>3 DEF NetOf
<1> HIDE DEF c
<1>7. /\ SumFunctionOnSet(F, w) \in Int
      /\ SumFunctionOnSet(H, w) = SumFunctionOnSet(F, w) - c * Cardinality(w)
  <2>1. \A i \in w : i \in 1..n /\ one[i] = 1 /\ F[i] = s[i].value /\ H[i] = s[i].value - c
    BY <1>1
  <2>2. \A i \in w : F[i] \in Int /\ one[i] \in Int /\ H[i] = F[i] - c * one[i]
    BY <1>1, <1>4, <2>1
  <2> HIDE DEF F, H, one
  <2>3. SumFunctionOnSet(one, w) = Cardinality(w)
    BY <1>2, <2>1, SumOfOnes
  <2> QED
    <3>1. Ints(F, w) /\ Ints(one, w)
      BY <2>2 DEF Ints
    <3>2. Combined(w, F, one, c, H)
      BY <2>2 DEF Combined
    <3>3. /\ SumFunctionOnSet(F, w) \in Int
          /\ SumFunctionOnSet(H, w) = SumFunctionOnSet(F, w) - c * SumFunctionOnSet(one, w)
      BY <1>2, <1>4, <3>1, <3>2, SumCombines
    <3> QED
      BY <2>3, <3>3
<1>8. SumFunctionOnSet(H, w) = SumFunctionOnSet(G, W)
  <2>1. Ints(H, w)
    BY <1>1, <1>4 DEF Ints
  <2>2. \A i \in w : H[i] = G[s[i]]
    BY DEF Images
  <2>3. OneToOne(s, w)
    <3>1. \A i, j \in 1..n : s[i] = s[j] => i = j
      BY <1>1, PositionsTell
    <3> QED
      BY <3>1 DEF OneToOne
  <2> HIDE DEF H, G
  <2> QED
    BY <1>2, <2>1, <2>2, <2>3, SumThrough
<1>9. Cardinality(w) \in Nat
  BY <1>2, FS_CardinalityType
<1> HIDE DEF F, H, G
<1> QED
  BY <1>4, <1>5, <1>6, <1>7, <1>8, <1>9

\* Of any order of a series, the replay is what the set of its facts says.
LEMMA ReplayIs ==
  ASSUME NEW fs, IsSeries(fs), \A f \in fs : f.ts \in 0..MaxDay, NEW s \in Rows(fs)
  PROVE  /\ NetOfAll(fs) \in Int /\ (High(fs) = {} => NetOfAll(fs) = 0)
         /\ IsFiniteSet(High(fs))
         /\ ComputeReplay(s) = [net |-> NetOfAll(fs), samples |-> Cardinality(High(fs)), verdict |-> Mean(fs)]
<1> DEFINE n == Cardinality(fs)
           H == Highs(s)
           ws == WindowsOf(s)
           p == [w \in ws |-> Images(s, w)]
           F == [w \in ws |-> WindowFrom(s, w)]
           G == [w \in Spans(fs) |-> NetOf(w)]
           net == SumFunctionOnSet(F, ws)
<1>1. Ordered(fs, s, n)
  BY RowsOrdered
<1>2. n \in Nat /\ DOMAIN s = 1..n /\ H \in SUBSET (1..n) /\ Len(s) = n
  <2>1. n \in Nat /\ s \in [1..n -> fs] /\ DOMAIN s = 1..n
    BY <1>1 DEF Ordered
  <2> HIDE DEF n
  <2>2. s \in Seq(fs)
    BY <2>1
  <2>3. Len(s) = n
    BY <2>1, <2>2
  <2> QED
    BY <2>1, <2>3 DEF Highs
<1>3. \A f \in fs : \E i \in 1..n : s[i] = f
  BY <1>1 DEF Ordered
<1>4. \A i \in 1..n : s[i] \in fs /\ (i \in H <=> s[i] \in High(fs))
  BY <1>1 DEF Ordered, Highs, High
<1> HIDE DEF n, H
<1>5. ws = {RunOf(H, n, j) : j \in H}
  BY <1>2, WindowsAre DEF H
<1> HIDE DEF ws
<1>6. Images(s, H) = High(fs)
  <2>1. \A f \in High(fs) : f \in fs
    BY DEF High
  <2> QED
    BY <1>2, <1>3, <1>4, <2>1 DEF Images
<1>7. \A w \in ws : w \in SUBSET (1..n) /\ w # {}
  <2>1. ASSUME NEW j \in H PROVE RunOf(H, n, j) \in SUBSET (1..n) /\ j \in RunOf(H, n, j)
    BY <1>2 DEF RunOf
  <2> QED
    BY <1>5, <2>1
<1>8. Images(p, ws) = Spans(fs)
  <2>1. \A j \in H : Images(s, RunOf(H, n, j)) = Together(s[j], fs)
    BY <1>1, RunIsTogether DEF H
  <2>2. Images(p, ws) = {Images(s, RunOf(H, n, j)) : j \in H}
    BY <1>5 DEF Images
  <2>3. Spans(fs) = {Together(s[j], fs) : j \in H}
    BY <1>6 DEF Spans, Images
  <2> QED
    BY <2>1, <2>2, <2>3
<1>9. OneToOne(p, ws)
  <2>1. \A i, j \in 1..n : s[i] = s[j] => i = j
    BY <1>1, PositionsTell
  <2>2. ASSUME NEW v \in ws, NEW w \in ws, Images(s, v) = Images(s, w) PROVE v \subseteq w
    <3> SUFFICES ASSUME NEW i \in v PROVE i \in w
      OBVIOUS
    <3>1. s[i] \in Images(s, w)
      BY <2>2 DEF Images
    <3>2. PICK j \in w : s[j] = s[i]
      BY <3>1 DEF Images
    <3> QED
      BY <1>7, <2>1, <3>2
  <2> QED
    BY <2>2 DEF OneToOne
<1>10. \A w \in ws : WindowFrom(s, w) \in Int /\ WindowFrom(s, w) = NetOf(Images(s, w))
  BY <1>1, <1>7, WindowNet
<1>11. IsFiniteSet(H) /\ IsFiniteSet(ws)
  <2>1. IsFiniteSet(1..n)
    BY <1>2, FS_Interval
  <2>2. IsFiniteSet(H)
    BY <1>2, <2>1, FS_Subset
  <2> DEFINE q == [j \in H |-> RunOf(H, n, j)]
  <2>3. Images(q, H) = ws
    BY <1>5 DEF Images
  <2> HIDE DEF q
  <2> QED
    BY <2>2, <2>3, ImagesFinite
<1>12. net = NetOfAll(fs)
  <2>1. Ints(F, ws) /\ \A w \in ws : F[w] = NetOf(p[w])
    BY <1>10 DEF Ints
  <2>2. \A w \in ws : p[w] \in Spans(fs)
    BY <1>8 DEF Images
  <2>3. \A w \in ws : F[w] = G[p[w]]
    BY <2>1, <2>2
  <2> HIDE DEF F, G, p
  <2>4. SumFunctionOnSet(F, ws) = SumFunctionOnSet(G, Spans(fs))
    BY <1>8, <1>9, <1>11, <2>1, <2>3, SumThrough
  <2> QED
    BY <2>4 DEF NetOfAll, G
<1>13. net \in Int /\ (ws = {} => net = 0)
  <2>1. Ints(F, ws)
    BY <1>10 DEF Ints
  <2> HIDE DEF F
  <2> QED
    BY <1>11, <2>1, SumTyped
<1>14. Cardinality(H) = Cardinality(High(fs)) /\ IsFiniteSet(High(fs))
  <2>1. OneToOne(s, H)
    <3>1. \A i, j \in 1..n : s[i] = s[j] => i = j
      BY <1>1, PositionsTell
    <3> QED
      BY <1>2, <3>1 DEF OneToOne
  <2> QED
    BY <1>6, <1>11, <2>1, ImagesFinite
<1>15. ws = {} <=> High(fs) = {}
  <2>1. ws = {} <=> H = {}
    BY <1>5
  <2>2. H = {} <=> High(fs) = {}
    BY <1>6 DEF Images
  <2> QED
    BY <2>1, <2>2
<1>16. ComputeReplay(s) =
         [net |-> net, samples |-> Cardinality(H),
          verdict |-> IF ws = {} THEN "no_window" ELSE Classify(net, Cardinality(H))]
  BY Zenon DEF ComputeReplay, ws, H, Highs
<1> HIDE DEF net
<1>17. Mean(fs) = IF ws = {} THEN "no_window" ELSE Classify(net, Cardinality(H))
  BY <1>12, <1>14, <1>15 DEF Mean, Judged
<1> QED
  BY <1>12, <1>13, <1>14, <1>15, <1>16, <1>17

-----------------------------------------------------------------------------
(* The overall replay: the windows of all venues. *)

\* Whose mean is weighted: one above a line has a part above it, one at or below zero has such a part.
Tallies(S, net, high) ==
  \A v \in S : net[v] \in Int /\ high[v] \in Nat /\ (high[v] = 0 => net[v] = 0)

LEMMA PartAbove ==
  ASSUME NEW S, IsFiniteSet(S), NEW net, NEW high, Tallies(S, net, high), NEW b \in Nat,
         SumFunctionOnSet(net, S) > b * SumFunctionOnSet(high, S)
  PROVE  \E v \in S : high[v] # 0 /\ net[v] > b * high[v]
<1> SUFFICES ASSUME \A v \in S : high[v] # 0 => net[v] <= b * high[v] PROVE FALSE
  <2>1. \A v \in S : net[v] \in Int /\ b * high[v] \in Int
    BY DEF Tallies
  <2> QED
    BY <2>1
<1> DEFINE loss == [v \in S |-> b * high[v] - net[v]]
           neg == [v \in S |-> net[v] - b * high[v]]
<1>1. \A v \in S : net[v] \in Int /\ high[v] \in Nat /\ b * high[v] \in Nat /\ net[v] <= b * high[v]
  <2> SUFFICES ASSUME NEW v \in S
               PROVE  net[v] \in Int /\ high[v] \in Nat /\ b * high[v] \in Nat /\ net[v] <= b * high[v]
    OBVIOUS
  <2>1. net[v] \in Int /\ high[v] \in Nat /\ b * high[v] \in Nat
    BY DEF Tallies
  <2>2. CASE high[v] = 0
    <3>1. net[v] = 0
      BY <2>2 DEF Tallies
    <3> QED
      BY <2>1, <3>1
  <2>3. CASE high[v] # 0
    BY <2>1, <2>3
  <2> QED
    BY <2>2, <2>3
<1>2. Ints(net, S) /\ Ints(high, S)
  BY <1>1 DEF Ints
<1>3. \A v \in S : loss[v] \in Nat /\ neg[v] = net[v] - b * high[v]
  BY <1>1
<1>4. SumFunctionOnSet(loss, S) \in Nat
  <2> HIDE DEF loss
  <2> QED
    BY <1>3, SumOfNaturals
<1>5. /\ SumFunctionOnSet(net, S) \in Int /\ SumFunctionOnSet(high, S) \in Int
      /\ SumFunctionOnSet(neg, S) = SumFunctionOnSet(net, S) - b * SumFunctionOnSet(high, S)
  <2>1. Combined(S, net, high, b, neg)
    BY <1>3 DEF Combined
  <2> HIDE DEF neg
  <2> QED
    BY <1>2, <2>1, SumCombines
<1>6. SumFunctionOnSet(loss, S) = 0 - 1 * SumFunctionOnSet(neg, S)
  <2> DEFINE zero == [v \in S |-> 0]
  <2>1. Ints(zero, S) /\ Ints(neg, S)
    BY <1>1 DEF Ints
  <2>2. Combined(S, zero, neg, 1, loss)
    BY <1>1 DEF Combined
  <2>3. SumFunctionOnSet(zero, S) = 0
    <3>1. zero \in [S -> Int] /\ \A v \in S : zero[v] = 0
      OBVIOUS
    <3>2. SumFunction(zero) = 0
      BY <3>1, SumOfZeros
    <3> QED
      BY <3>2 DEF SumFunction
  <2> HIDE DEF zero, neg, loss
  <2> QED
    BY <2>1, <2>2, <2>3, SumCombines
<1> HIDE DEF loss, neg
<1>7. SumFunctionOnSet(neg, S) > 0
  BY <1>5
<1> QED
  BY <1>4, <1>5, <1>6, <1>7

LEMMA PartBelow ==
  ASSUME NEW S, IsFiniteSet(S), NEW net, NEW high, Tallies(S, net, high),
         SumFunctionOnSet(net, S) <= 0, SumFunctionOnSet(high, S) # 0
  PROVE  \E v \in S : high[v] # 0 /\ net[v] <= 0
<1> SUFFICES ASSUME \A v \in S : high[v] # 0 => net[v] > 0 PROVE FALSE
  <2>1. \A v \in S : net[v] \in Int
    BY DEF Tallies
  <2> QED
    BY <2>1
<1>1. \A v \in S : net[v] \in Nat /\ high[v] \in Nat /\ (net[v] = 0 => high[v] = 0)
  <2> SUFFICES ASSUME NEW v \in S PROVE net[v] \in Nat /\ high[v] \in Nat /\ (net[v] = 0 => high[v] = 0)
    OBVIOUS
  <2>1. net[v] \in Int /\ high[v] \in Nat /\ (high[v] = 0 => net[v] = 0) /\ (high[v] # 0 => net[v] > 0)
    BY DEF Tallies
  <2> QED
    BY <2>1
<1>2. SumFunctionOnSet(net, S) \in Nat /\ \A v \in S : net[v] <= SumFunctionOnSet(net, S)
  BY <1>1, SumOfNaturals
<1>3. \A v \in S : net[v] = 0
  BY <1>1, <1>2
<1>4. \A v \in S : high[v] = 0
  BY <1>1, <1>3
<1>5. SumFunctionOnSet(high, S) = 0
  <2> DEFINE zero == [v \in S |-> 0]
  <2>1. SumFunction(zero) = 0
    <3>1. zero \in [S -> Int] /\ \A v \in S : zero[v] = 0
      OBVIOUS
    <3> HIDE DEF zero
    <3> QED
      BY <3>1, SumOfZeros
  <2>2. SumFunctionOnSet(zero, S) = 0
    BY <2>1 DEF SumFunction
  <2>3. Ints(high, S) /\ \A v \in S : high[v] = zero[v]
    BY <1>1, <1>4 DEF Ints
  <2> HIDE DEF zero
  <2> QED
    BY <2>2, <2>3, SumAgrees
<1> QED
  BY <1>5

\* The facts of some venues, at most one of a venue at a time.
OneAtATime == \A f, g \in hist : f.venue = g.venue /\ f.ts = g.ts => f = g

RPInv == ReplayTypeOK /\ IsFiniteSet(hist) /\ OneAtATime /\ ReplayExact

LEMMA VenueIsSeries ==
  ASSUME ReplayTypeOK, IsFiniteSet(hist), OneAtATime, NEW v
  PROVE  IsSeries(Queried({v})) /\ \A f \in Queried({v}) : f.ts \in 0..MaxDay
<1> DEFINE fs == Queried({v})
<1>1. fs \subseteq hist /\ \A f \in fs : f.venue = v
  BY DEF Queried
<1>2. \A f \in fs : f.ts \in 0..MaxDay /\ f.value \in Readings
  BY <1>1 DEF ReplayTypeOK
<1>3. 0..MaxDay \subseteq Nat /\ Readings \subseteq Int
  BY ReplayAssumption
<1>4. IsFiniteSet(fs)
  BY <1>1, FS_Subset
<1>5. \A f, g \in fs : f.ts = g.ts => f = g
  BY <1>1 DEF OneAtATime
<1> HIDE DEF fs
<1>6. \A f \in fs : f.ts \in Nat /\ f.value \in Int
  BY <1>2, <1>3
<1> QED
  BY <1>2, <1>4, <1>5, <1>6 DEF IsSeries, fs

\* The high readings of all venues are those of each.
LEMMA HighByVenue ==
  ASSUME IsFiniteSet(hist), NEW S, IsFiniteSet(S)
  PROVE  /\ IsFiniteSet(High(Queried(S)))
         /\ Cardinality(High(Queried(S))) = SumFunctionOnSet([v \in S |-> Cardinality(High(Queried({v})))], S)
<1> DEFINE F == [v \in S |-> Cardinality(High(Queried({v})))]
           Is(s) == Cardinality(High(Queried(s))) = SumFunctionOnSet(F, s)
           Good == {s \in SUBSET S : Is(s)}
<1>1. \A s : High(Queried(s)) \subseteq hist /\ IsFiniteSet(High(Queried(s)))
  <2>1. \A s : High(Queried(s)) \in SUBSET hist
    BY DEF High, Queried
  <2> QED
    BY <2>1, FS_Subset
<1>2. Ints(F, S)
  BY <1>1, FS_CardinalityType DEF Ints
<1>3. {} \in Good
  <2>1. High(Queried({})) = {}
    BY DEF High, Queried
  <2>2. SumFunctionOnSet(F, {}) = 0
    BY SumOfNone, Zenon
  <2> QED
    BY <2>1, <2>2, FS_EmptySet
<1>4. ASSUME NEW s \in SUBSET S, s # {}, s \ {Chosen(s)} \in Good PROVE s \in Good
  <2> DEFINE c == Chosen(s)
             u == s \ {c}
             A == High(Queried(u))
             B == High(Queried({c}))
  <2>1. c \in s /\ c \in S /\ u \in SUBSET S /\ s = u \cup {c} /\ c \notin u /\ Is(u)
    BY <1>4, ChosenIn
  <2>2. SumFunctionOnSet(F, s) = SumFunctionOnSet(F, u) + F[c] /\ F[c] = Cardinality(B)
    BY <1>2, <2>1, SumWith
  <2> HIDE DEF c, u
  <2>3. High(Queried(s)) = A \cup B /\ A \cap B = {}
    BY <2>1 DEF High, Queried
  <2>4. IsFiniteSet(A) /\ IsFiniteSet(B)
    BY <1>1
  <2> HIDE DEF A, B, F
  <2>5. Cardinality(A \cup B) = Cardinality(A) + Cardinality(B)
    <3>1. Cardinality(A \cup B) = Cardinality(A) + Cardinality(B) - Cardinality(A \cap B)
      BY <2>4, FS_Union
    <3>2. Cardinality(A \cap B) = 0
      BY <2>3, FS_EmptySet
    <3>3. Cardinality(A) \in Nat /\ Cardinality(B) \in Nat
      BY <2>4, FS_CardinalityType
    <3> QED
      BY <3>1, <3>2, <3>3
  <2> QED
    BY <2>1, <2>2, <2>3, <2>5 DEF A
<1>5. SUBSET S \subseteq Good
  <2> HIDE DEF Good
  <2> QED
    BY <1>3, <1>4, AllSubsets
<1> QED
  BY <1>1, <1>5

\* The verdict on sums of parts, each part judged alone.
Split(pairs, V, N, C) ==
  /\ DOMAIN pairs = V /\ \A v \in V : pairs[v].net = N[v] /\ pairs[v].samples = C[v]
  /\ \A v \in RateVenues \ V : N[v] = 0 /\ C[v] = 0

LEMMA OverallOf ==
  ASSUME NEW V \in SUBSET RateVenues, NEW N, NEW C, NEW pairs, Split(pairs, V, N, C),
         Tallies(RateVenues, N, C)
  PROVE  /\ SumFunctionOnSet(N, RateVenues) \in Int /\ SumFunctionOnSet(C, RateVenues) \in Nat
         /\ OverallReplay(pairs) =
              IF SumFunctionOnSet(C, RateVenues) = 0 THEN "no_window"
              ELSE Classify(SumFunctionOnSet(N, RateVenues), SumFunctionOnSet(C, RateVenues))
         /\ OverallReplay(pairs) \in {"pass", "falsified"} =>
              \E v \in RateVenues : C[v] # 0 /\ Classify(N[v], C[v]) = OverallReplay(pairs)
<1> DEFINE PN == [v \in V |-> pairs[v].net]
           PC == [v \in V |-> pairs[v].samples]
           net == SumFunctionOnSet(N, RateVenues)
           high == SumFunctionOnSet(C, RateVenues)
<1>1. IsFiniteSet(RateVenues) /\ Base \in Nat
  BY ReplayAssumption
<1>2. Ints(N, RateVenues) /\ \A v \in RateVenues : C[v] \in Nat
  BY DEF Ints, Tallies
<1>3. Ints(C, RateVenues)
  BY <1>2 DEF Ints
<1>4. net \in Int
  BY <1>1, <1>2, SumTyped
<1>5. high \in Nat
  BY <1>1, <1>2, SumOfNaturals
<1>6. SumFunctionOnSet(PN, V) = net
  <2>1. (\A v \in V : PN[v] = N[v]) /\ \A v \in RateVenues \ V : N[v] = 0
    BY DEF Split
  <2> HIDE DEF PN
  <2> QED
    BY <1>1, <1>2, <2>1, SumOfPart
<1>7. SumFunctionOnSet(PC, V) = high
  <2>1. (\A v \in V : PC[v] = C[v]) /\ \A v \in RateVenues \ V : C[v] = 0
    BY DEF Split
  <2> HIDE DEF PC
  <2> QED
    BY <1>1, <1>3, <2>1, SumOfPart
<1>8. OverallReplay(pairs) = IF high = 0 THEN "no_window" ELSE Classify(net, high)
  <2>1. DOMAIN pairs = V
    BY DEF Split
  <2>2. OverallReplay(pairs) = IF SumFunctionOnSet(PC, V) = 0 THEN "no_window"
                               ELSE Classify(SumFunctionOnSet(PN, V), SumFunctionOnSet(PC, V))
    BY <2>1, Zenon DEF OverallReplay
  <2> HIDE DEF PN, PC
  <2> QED
    BY <1>6, <1>7, <2>2
<1> HIDE DEF PN, PC, net, high
<1>9. ASSUME OverallReplay(pairs) = "pass"
      PROVE  \E v \in RateVenues : C[v] # 0 /\ Classify(N[v], C[v]) = OverallReplay(pairs)
  <2>1. net > Base * high
    BY <1>1, <1>4, <1>5, <1>8, <1>9 DEF Classify
  <2>2. PICK v \in RateVenues : C[v] # 0 /\ N[v] > Base * C[v]
    BY <1>1, <2>1, PartAbove DEF net, high
  <2>3. N[v] \in Int /\ C[v] \in Nat /\ Base * C[v] \in Nat
    BY <1>1, <1>2 DEF Ints
  <2>4. Classify(N[v], C[v]) = "pass"
    BY <2>2, <2>3 DEF Classify
  <2> QED
    BY <1>9, <2>2, <2>4
<1>10. ASSUME OverallReplay(pairs) = "falsified"
       PROVE  \E v \in RateVenues : C[v] # 0 /\ Classify(N[v], C[v]) = OverallReplay(pairs)
  <2>1. net <= 0 /\ high # 0
    BY <1>4, <1>5, <1>8, <1>10 DEF Classify
  <2>2. PICK v \in RateVenues : C[v] # 0 /\ N[v] <= 0
    BY <1>1, <2>1, PartBelow DEF net, high
  <2>3. Classify(N[v], C[v]) = "falsified"
    BY <2>2 DEF Classify
  <2> QED
    BY <1>10, <2>2, <2>3
<1> QED
  BY <1>4, <1>5, <1>8, <1>9, <1>10 DEF net, high

\* What replaying says of each venue; the verdict that is shown is the one on their sums.
LEMMA OverallIs ==
  ASSUME ReplayTypeOK, IsFiniteSet(hist), OneAtATime,
         NEW pairs, pairs = [v \in {f.venue : f \in Queried(RateVenues)} |->
                               ComputeReplay(CHOOSE s \in Rows(Queried({v})) : TRUE)],
         NEW N, N = [v \in RateVenues |-> NetOfAll(Queried({v}))]
  PROVE  /\ OverallReplay(pairs) = Judged(SumFunctionOnSet(N, RateVenues), High(Queried(RateVenues)))
         /\ OverallReplay(pairs) \in {"pass", "falsified"} =>
              \E v \in RateVenues : Mean(Queried({v})) = OverallReplay(pairs)
<1> DEFINE V == {f.venue : f \in Queried(RateVenues)}
           C == [v \in RateVenues |-> Cardinality(High(Queried({v})))]
           all == High(Queried(RateVenues))
           net == SumFunctionOnSet(N, RateVenues)
           high == SumFunctionOnSet(C, RateVenues)
<1>1. IsFiniteSet(RateVenues) /\ V \in SUBSET RateVenues
  <2>1. \A f \in Queried(RateVenues) : f.venue \in RateVenues
    BY DEF Queried
  <2> QED
    BY <2>1, ReplayAssumption
<1>2. ASSUME NEW v \in RateVenues
      PROVE  /\ NetOfAll(Queried({v})) \in Int /\ (High(Queried({v})) = {} => NetOfAll(Queried({v})) = 0)
             /\ IsFiniteSet(High(Queried({v})))
             /\ ComputeReplay(CHOOSE s \in Rows(Queried({v})) : TRUE) =
                  [net |-> NetOfAll(Queried({v})), samples |-> Cardinality(High(Queried({v}))),
                   verdict |-> Mean(Queried({v}))]
  <2> DEFINE fs == Queried({v})
             s == CHOOSE s \in Rows(fs) : TRUE
  <2>1. IsSeries(fs) /\ \A f \in fs : f.ts \in 0..MaxDay
    BY VenueIsSeries
  <2> HIDE DEF fs
  <2>2. s \in Rows(fs)
    BY <2>1, RowsExist
  <2> HIDE DEF s
  <2>3. /\ NetOfAll(fs) \in Int /\ (High(fs) = {} => NetOfAll(fs) = 0)
        /\ IsFiniteSet(High(fs))
        /\ ComputeReplay(s) = [net |-> NetOfAll(fs), samples |-> Cardinality(High(fs)), verdict |-> Mean(fs)]
    BY <2>1, <2>2, ReplayIs
  <2> QED
    BY <2>3 DEF fs, s
<1>3. ASSUME NEW v \in RateVenues
      PROVE  /\ N[v] = NetOfAll(Queried({v})) /\ C[v] = Cardinality(High(Queried({v})))
             /\ N[v] \in Int /\ C[v] \in Nat /\ (C[v] = 0 <=> High(Queried({v})) = {}) /\ (C[v] = 0 => N[v] = 0)
  <2> DEFINE hs == High(Queried({v}))
  <2>1. N[v] = NetOfAll(Queried({v})) /\ C[v] = Cardinality(hs)
    OBVIOUS
  <2>2. N[v] \in Int /\ IsFiniteSet(hs) /\ (hs = {} => N[v] = 0)
    BY <1>2, <2>1
  <2> HIDE DEF hs, C
  <2>3. C[v] \in Nat /\ (C[v] = 0 <=> hs = {})
    BY <2>1, <2>2, FS_CardinalityType, FS_EmptySet
  <2> QED
    BY <2>1, <2>2, <2>3 DEF hs
<1> HIDE DEF C
<1>4. Tallies(RateVenues, N, C)
  BY <1>3 DEF Tallies
<1>5. Split(pairs, V, N, C)
  <2>1. ASSUME NEW v \in V PROVE pairs[v].net = N[v] /\ pairs[v].samples = C[v]
    <3>1. v \in RateVenues
      BY <1>1
    <3>2. pairs[v] = [net |-> NetOfAll(Queried({v})), samples |-> Cardinality(High(Queried({v}))),
                      verdict |-> Mean(Queried({v}))]
      <4>1. pairs[v] = ComputeReplay(CHOOSE s \in Rows(Queried({v})) : TRUE)
        OBVIOUS
      <4> QED
        BY <1>2, <3>1, <4>1, Zenon
    <3> QED
      BY <1>3, <3>1, <3>2
  <2>2. ASSUME NEW v \in RateVenues \ V PROVE N[v] = 0 /\ C[v] = 0
    <3>1. Queried({v}) = {}
      BY DEF Queried
    <3>2. High(Queried({v})) = {}
      BY <3>1 DEF High
    <3> QED
      BY <1>3, <3>2
  <2>3. DOMAIN pairs = V
    OBVIOUS
  <2> HIDE DEF V
  <2> QED
    BY <2>1, <2>2, <2>3 DEF Split
<1>6. IsFiniteSet(all) /\ Cardinality(all) = high
  BY <1>1, HighByVenue DEF C
<1> HIDE DEF V, all, net, high
<1>7. /\ net \in Int /\ high \in Nat
      /\ OverallReplay(pairs) = IF high = 0 THEN "no_window" ELSE Classify(net, high)
      /\ OverallReplay(pairs) \in {"pass", "falsified"} =>
           \E v \in RateVenues : C[v] # 0 /\ Classify(N[v], C[v]) = OverallReplay(pairs)
  BY <1>1, <1>4, <1>5, OverallOf DEF net, high
<1>8. high = 0 <=> all = {}
  BY <1>6, FS_EmptySet
<1>9. OverallReplay(pairs) = Judged(net, all)
  BY <1>6, <1>7, <1>8 DEF Judged
<1>10. ASSUME NEW v \in RateVenues, C[v] # 0 PROVE Mean(Queried({v})) = Classify(N[v], C[v])
  <2>1. Mean(Queried({v})) = Judged(NetOfAll(Queried({v})), High(Queried({v})))
    BY DEF Mean
  <2>2. High(Queried({v})) # {} /\ N[v] = NetOfAll(Queried({v})) /\ C[v] = Cardinality(High(Queried({v})))
    BY <1>3, <1>10
  <2> QED
    BY <2>1, <2>2 DEF Judged
<1> QED
  BY <1>7, <1>9, <1>10 DEF net, all

-----------------------------------------------------------------------------
(* The steps. *)

\* The verdict on all windows that is shown.
Shown ==
  Judged(SumFunctionOnSet([v \in RateVenues |-> NetOfAll(Queried({v}))], RateVenues), High(Queried(RateVenues)))

\* What is asked of an answer.
Right(whom, verdict, failed) ==
  /\ failed => verdict = "no_window"
  /\ whom \in RateVenues /\ strategy # "other" /\ ~failed /\ Queried({whom}) # {} =>
       verdict = Mean(Queried({whom}))
  /\ whom = "overall" =>
       /\ verdict = Shown
       /\ verdict \in {"pass", "falsified"} => \E v \in RateVenues : Mean(Queried({v})) = verdict

\* Every verdict is one of the four.
LEMMA VerdictsAre ==
  ASSUME NEW net, NEW samples
  PROVE  Classify(net, samples) \in {"falsified", "watch", "pass"}
BY DEF Classify

\* An answer that is right keeps the invariant.
LEMMA AnswerKeeps ==
  ASSUME RPInv, NEW whom \in RateVenues \cup {Local, "overall"}, NEW verdict \in Verdicts, NEW failed \in BOOLEAN,
         Right(whom, verdict, failed), Answer(whom, verdict, failed)
  PROVE  RPInv'
<1>1. /\ answer' = [for |-> whom, verdict |-> verdict, failed |-> failed]
      /\ strategy' = strategy /\ today' = today /\ hist' = hist
  BY DEF Answer
<1>2. /\ answer'.for = whom /\ answer'.verdict = verdict /\ answer'.failed = failed
      /\ answer' \in [for : RateVenues \cup {Local, "overall", "nobody"}, verdict : Verdicts, failed : BOOLEAN]
  BY <1>1, Zenon
<1>3. ReplayTypeOK' /\ IsFiniteSet(hist)' /\ OneAtATime'
  BY <1>1, <1>2 DEF RPInv, ReplayTypeOK, OneAtATime
<1>4. \A S : Queried(S)' = Queried(S)
  BY <1>1 DEF Queried
<1>5. Shown' = Shown
  BY <1>4, Zenon DEF Shown
<1>6. ReplayExact'
  <2>1. failed => verdict = "no_window"
    BY DEF Right
  <2>2. whom \in RateVenues /\ strategy' # "other" /\ ~failed /\ Queried({whom})' # {} =>
          verdict = Mean(Queried({whom}))'
    BY <1>1, <1>4 DEF Right
  <2>3. ASSUME whom = "overall", verdict # "watch", verdict # "no_window"
        PROVE  \E v \in RateVenues : Mean(Queried({v}))' = verdict
    <3>1. PICK v \in RateVenues : Mean(Queried({v})) = verdict
      BY <2>3 DEF Right, Verdicts
    <3> QED
      BY <1>4, <3>1
  <2>4. whom = "overall" => verdict = Shown'
    BY <1>5 DEF Right
  <2> QED
    BY <1>2, <2>1, <2>2, <2>3, <2>4 DEF ReplayExact, Shown
<1> QED
  BY <1>3, <1>6 DEF RPInv

LEMMA GateKeeps ==
  ASSUME RPInv, NEW venue \in RateVenues \cup {Local}, ReplayGate(venue)
  PROVE  RPInv'
<1>1. venue \in RateVenues \cup {Local, "overall"} /\ venue # "overall" /\ (venue = Local => venue \notin RateVenues)
  BY ReplayAssumption
<1>2. CASE strategy = "other" /\ Answer(venue, "no_window", FALSE)
  BY <1>1, <1>2, AnswerKeeps DEF Right, Verdicts
<1>3. CASE Answer(venue, "no_window", TRUE)
  BY <1>1, <1>3, AnswerKeeps DEF Right, Verdicts
<1>4. ASSUME NEW asked, venue \in RateVenues /\ Queried({venue}) # {} => asked = {venue},
             NEW fs \in Rows(Queried(asked)), Answer(venue, ComputeReplay(fs).verdict, FALSE)
      PROVE  RPInv'
  <2> DEFINE verdict == ComputeReplay(fs).verdict
  <2>1. verdict \in Verdicts
    <3> DEFINE net == SumFunctionOnSet([w \in WindowsOf(fs) |-> WindowFrom(fs, w)], WindowsOf(fs))
               high == Cardinality({i \in DOMAIN fs : fs[i].value >= Tier})
    <3>1. verdict = IF WindowsOf(fs) = {} THEN "no_window" ELSE Classify(net, high)
      BY DEF ComputeReplay
    <3> HIDE DEF net, high
    <3>2. Classify(net, high) \in {"falsified", "watch", "pass"}
      BY VerdictsAre
    <3> HIDE DEF verdict
    <3> QED
      BY <3>1, <3>2 DEF Verdicts
  <2>2. ASSUME venue \in RateVenues, Queried({venue}) # {}
        PROVE  verdict = Mean(Queried({venue}))
    <3> DEFINE qs == Queried({venue})
    <3>1. IsSeries(qs) /\ (\A f \in qs : f.ts \in 0..MaxDay) /\ fs \in Rows(qs)
      BY <1>4, <2>2, VenueIsSeries DEF RPInv
    <3> HIDE DEF qs
    <3>2. ComputeReplay(fs) = [net |-> NetOfAll(qs), samples |-> Cardinality(High(qs)), verdict |-> Mean(qs)]
      BY <3>1, ReplayIs
    <3> QED
      BY <3>2 DEF qs
  <2> HIDE DEF verdict
  <2>3. Right(venue, verdict, FALSE)
    BY <1>1, <2>2 DEF Right
  <2>4. Answer(venue, verdict, FALSE)
    BY <1>4 DEF verdict
  <2> QED
    BY <1>1, <2>1, <2>3, <2>4, AnswerKeeps
<1> DEFINE asked == IF strategy = "carry_asset" /\ Queried({venue}) = {} THEN RateVenues ELSE {venue}
<1>5. Queried({venue}) # {} => asked = {venue}
  OBVIOUS
<1>6. ASSUME NEW fs \in Rows(Queried(asked)), Answer(venue, ComputeReplay(fs).verdict, FALSE) PROVE RPInv'
  <2> HIDE DEF asked
  <2> QED
    BY <1>4, <1>5, <1>6
<1>7. \/ strategy = "other" /\ Answer(venue, "no_window", FALSE)
      \/ \E fs \in Rows(Queried(asked)) : Answer(venue, ComputeReplay(fs).verdict, FALSE)
      \/ Answer(venue, "no_window", TRUE)
  BY Zenon DEF ReplayGate
<1> QED
  BY <1>2, <1>3, <1>6, <1>7, Zenon

LEMMA StateKeeps ==
  ASSUME RPInv, GetReplayState
  PROVE  RPInv'
<1> DEFINE pairs == [v \in {f.venue : f \in Queried(RateVenues)} |->
                       ComputeReplay(CHOOSE s \in Rows(Queried({v})) : TRUE)]
           N == [v \in RateVenues |-> NetOfAll(Queried({v}))]
           verdict == OverallReplay(pairs)
<1>1. Answer("overall", verdict, FALSE)
  BY Zenon DEF GetReplayState
<1>2. ReplayTypeOK /\ IsFiniteSet(hist) /\ OneAtATime
  BY DEF RPInv
<1>3. pairs = [v \in {f.venue : f \in Queried(RateVenues)} |->
                 ComputeReplay(CHOOSE s \in Rows(Queried({v})) : TRUE)]
      /\ N = [v \in RateVenues |-> NetOfAll(Queried({v}))]
  OBVIOUS
<1>4. Shown = Judged(SumFunctionOnSet(N, RateVenues), High(Queried(RateVenues)))
  BY Zenon DEF Shown
<1>5. verdict \in Verdicts
  <2> DEFINE net == SumFunctionOnSet([v \in DOMAIN pairs |-> pairs[v].net], DOMAIN pairs)
             high == SumFunctionOnSet([v \in DOMAIN pairs |-> pairs[v].samples], DOMAIN pairs)
  <2> HIDE DEF pairs
  <2>1. verdict = IF high = 0 THEN "no_window" ELSE Classify(net, high)
    BY Zenon DEF OverallReplay
  <2> HIDE DEF net, high, verdict
  <2>2. Classify(net, high) \in {"falsified", "watch", "pass"}
    BY VerdictsAre
  <2> QED
    BY <2>1, <2>2 DEF Verdicts
<1> HIDE DEF pairs, N
<1>6. /\ verdict = Judged(SumFunctionOnSet(N, RateVenues), High(Queried(RateVenues)))
      /\ verdict \in {"pass", "falsified"} => \E v \in RateVenues : Mean(Queried({v})) = verdict
  BY <1>2, <1>3, OverallIs
<1> HIDE DEF verdict
<1>7. Right("overall", verdict, FALSE)
  <2>1. "overall" \notin RateVenues
    BY ReplayAssumption
  <2> QED
    BY <1>4, <1>6, <2>1 DEF Right
<1> QED
  BY <1>1, <1>5, <1>7, AnswerKeeps

LEMMA ReplayStart == ReplayInit => RPInv
<1> SUFFICES ASSUME ReplayInit PROVE RPInv
  OBVIOUS
<1>1. NoAnswer \in [for : RateVenues \cup {Local, "overall", "nobody"}, verdict : Verdicts, failed : BOOLEAN]
  BY DEF NoAnswer, Verdicts
<1>2. today \in 0..MaxDay
  BY ReplayAssumption DEF ReplayInit
<1>3. ReplayTypeOK /\ OneAtATime /\ IsFiniteSet(hist)
  BY <1>1, <1>2, FS_EmptySet DEF ReplayInit, ReplayTypeOK, OneAtATime
<1>4. answer.for \notin RateVenues /\ answer.for # "overall" /\ ~answer.failed
  BY ReplayAssumption DEF ReplayInit, NoAnswer
<1> QED
  BY <1>3, <1>4 DEF RPInv, ReplayExact

\* Nothing is asked of no answer.
LEMMA NothingKept ==
  ASSUME answer' = NoAnswer, ReplayTypeOK', OneAtATime', IsFiniteSet(hist)'
  PROVE  RPInv'
<1>1. answer'.for \notin RateVenues /\ answer'.for # "overall" /\ ~answer'.failed
  BY ReplayAssumption DEF NoAnswer
<1> QED
  BY <1>1 DEF RPInv, ReplayExact

LEMMA ReplayStep == RPInv /\ [ReplayNext]_replayvars => RPInv'
<1> SUFFICES ASSUME RPInv, [ReplayNext]_replayvars PROVE RPInv'
  OBVIOUS
<1>1. NoAnswer \in [for : RateVenues \cup {Local, "overall", "nobody"}, verdict : Verdicts, failed : BOOLEAN]
  BY DEF NoAnswer, Verdicts
<1>2. ASSUME NEW v \in RateVenues, NEW t \in 0..MaxDay, NEW r \in Readings,
             RecordRate([venue |-> v, ts |-> t, value |-> r])
      PROVE  RPInv'
  <2> DEFINE f == [venue |-> v, ts |-> t, value |-> r]
  <2>1. f \in [venue : RateVenues, ts : 0..MaxDay, value : Readings] /\ f.venue = v /\ f.ts = t
    OBVIOUS
  <2> HIDE DEF f
  <2>2. /\ hist' = hist \cup {f} /\ answer' = NoAnswer /\ strategy' = strategy /\ today' = today
        /\ \A g \in hist : g.venue = f.venue => g.ts # f.ts
    BY <1>2 DEF RecordRate, f
  <2>3. ReplayTypeOK'
    BY <1>1, <2>1, <2>2 DEF RPInv, ReplayTypeOK
  <2>4. OneAtATime'
    BY <2>2 DEF RPInv, OneAtATime
  <2>5. IsFiniteSet(hist')
    BY <2>2, FS_AddElement DEF RPInv
  <2> QED
    BY <2>2, <2>3, <2>4, <2>5, NothingKept
<1>3. CASE DayGoes
  <2>1. today' = today + 1 /\ today < MaxDay /\ answer' = NoAnswer /\ strategy' = strategy /\ hist' = hist
    BY <1>3 DEF DayGoes
  <2>2. today' \in 0..MaxDay
    BY <2>1, ReplayAssumption DEF RPInv, ReplayTypeOK
  <2>3. ReplayTypeOK' /\ OneAtATime' /\ IsFiniteSet(hist)'
    BY <1>1, <2>1, <2>2 DEF RPInv, ReplayTypeOK, OneAtATime
  <2> QED
    BY <2>1, <2>3, NothingKept
<1>4. CASE GetReplayState
  BY <1>4, StateKeeps
<1>5. ASSUME NEW v \in RateVenues \cup {Local}, ReplayGate(v) PROVE RPInv'
  BY <1>5, GateKeeps
<1>6. CASE UNCHANGED replayvars
  <2>1. strategy' = strategy /\ today' = today /\ hist' = hist /\ answer' = answer
    BY <1>6 DEF replayvars
  <2>2. ReplayTypeOK' /\ OneAtATime' /\ IsFiniteSet(hist)'
    BY <2>1 DEF RPInv, ReplayTypeOK, OneAtATime
  <2>3. ReplayExact'
    BY <2>1 DEF RPInv, ReplayExact, Queried
  <2> QED
    BY <2>2, <2>3 DEF RPInv
<1> QED
  BY <1>2, <1>3, <1>4, <1>5, <1>6 DEF ReplayNext

\* The variables of the replay keep to their types (strategy, today, hist and the answers).
THEOREM ReplayTypes == ReplaySpec => []ReplayTypeOK
<1>1. RPInv => ReplayTypeOK
  BY DEF RPInv
<1> QED
  BY <1>1, ReplayStart, ReplayStep, PTL DEF ReplaySpec

\* Every verdict of replayGate on a venue that has facts is the one on the windows of its
\* history, in whatever order they came in, and the one GetReplayState shows is that of all
\* windows: a pass or a failure that is shown is one of a venue.
THEOREM ReplayIsExact == ReplaySpec => []ReplayExact
<1>1. RPInv => ReplayExact
  BY DEF RPInv
<1> QED
  BY <1>1, ReplayStart, ReplayStep, PTL DEF ReplaySpec
=============================================================================
