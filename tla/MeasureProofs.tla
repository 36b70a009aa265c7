---------------------------- MODULE MeasureProofs ----------------------------
(***************************************************************************)
(* Proof that the first gate on real money is honest: a verdict that it    *)
(* gives is about what trading yielded over 30 days, for any capital,      *)
(* gains, flows and lost snapshots, and any length of the window.          *)
(***************************************************************************)
EXTENDS Measure, FiniteSums

\* The snapshots are in order and one interval apart, and a sound one was not missed.
SnapsInv ==
  /\ \A i \in DOMAIN snaps : snaps[i].ts % 2 = 0 /\ snaps[i].ts <= tm
  /\ \A i, j \in DOMAIN snaps : i < j => snaps[i].ts < snaps[j].ts
  /\ \A i \in DOMAIN snaps : snaps[i].ts \in missed => ~snaps[i].sound
  /\ \A t \in missed : t % 2 = 0 /\ t <= tm

\* What the account is worth at a time, by the books.
WorthAt(fs, gs, t) == Deposit + Sum(fs, Between(fs, 0, t)) + Sum(gs, Between(gs, 0, t))

ValueInv ==
  /\ \A i \in DOMAIN flows : flows[i].ts <= tm
  /\ \A i \in DOMAIN gains : gains[i].ts <= tm
  /\ value = WorthAt(flows, gains, tm)
  /\ \A i \in DOMAIN snaps : snaps[i].sound => snaps[i].equity = WorthAt(flows, gains, snaps[i].ts)

(* The inductive invariant: the equity of every sound snapshot is explained *)
(* by the books, and what was missed is not among the sound ones.           *)
BooksInv == MeasureTypeOK /\ SnapsInv /\ ValueInv

-----------------------------------------------------------------------------
(* Sums over the rows of a book. *)

IsBook(fs) == fs \in Seq([ts : Int, amount : Int])

LEMMA SeqOfSubset ==
  ASSUME NEW S, NEW T, S \subseteq T, NEW s \in Seq(S)
  PROVE  s \in Seq(T)
OBVIOUS

LEMMA ElementsOf ==
  ASSUME NEW S, NEW s \in Seq(S), NEW i \in DOMAIN s
  PROVE  s[i] \in S
OBVIOUS

\* r is s with e added to it.
Added(S, s, e, r) ==
  /\ r \in Seq(S) /\ DOMAIN r = 1..(Len(s) + 1)
  /\ \A i \in 1..Len(s) : r[i] = s[i]
  /\ r[Len(s) + 1] = e

LEMMA AppendAdds ==
  ASSUME NEW S, NEW s \in Seq(S), NEW e \in S
  PROVE  Added(S, s, e, Append(s, e))
BY DEF Added

LEMMA SubSequenceIs ==
  ASSUME NEW S, NEW s \in Seq(S), NEW m \in 1..(Len(s) + 1), NEW k \in Nat, k = Len(s)
  PROVE  SubSeq(s, m, k) = [j \in 1..(k - m + 1) |-> s[m + j - 1]]
OBVIOUS

LEMMA SequenceIs ==
  ASSUME NEW S, NEW k \in Nat, NEW s \in [1..k -> S]
  PROVE  s \in Seq(S) /\ Len(s) = k
OBVIOUS

LEMMA TypeBooks == MeasureTypeOK => IsBook(flows) /\ IsBook(gains)
<1> SUFFICES ASSUME MeasureTypeOK PROVE IsBook(flows) /\ IsBook(gains)
  OBVIOUS
<1> DEFINE row == [ts : Int, amount : Int]
           flowRow == [ts : -1..MaxClock, amount : Int]
           gainRow == [ts : 0..MaxClock, amount : Int]
<1>1. flows \in Seq(flowRow) /\ gains \in Seq(gainRow)
  BY DEF MeasureTypeOK
<1>2. flowRow \subseteq row /\ gainRow \subseteq row
  BY MeasureAssumption
<1> HIDE DEF row, flowRow, gainRow
<1>3. flows \in Seq(row) /\ gains \in Seq(row)
  BY <1>1, <1>2, SeqOfSubset
<1> QED
  BY <1>3 DEF IsBook, row

\* The amounts of a book, and the positions of it.
Amounts(fs) == [i \in DOMAIN fs |-> fs[i].amount]

LEMMA BookFacts ==
  ASSUME NEW fs, IsBook(fs)
  PROVE  /\ Len(fs) \in Nat /\ DOMAIN fs = 1..Len(fs) /\ IsFiniteSet(DOMAIN fs)
         /\ \A i \in DOMAIN fs : fs[i].ts \in Int /\ fs[i].amount \in Int /\ Amounts(fs)[i] = fs[i].amount
         /\ Ints(Amounts(fs), DOMAIN fs)
<1>1. Len(fs) \in Nat /\ DOMAIN fs = 1..Len(fs)
  BY DEF IsBook
<1>2. IsFiniteSet(DOMAIN fs)
  BY <1>1, FS_Interval
<1>3. \A i \in DOMAIN fs : fs[i].ts \in Int /\ fs[i].amount \in Int
  <2> DEFINE row == [ts : Int, amount : Int]
  <2>1. fs \in Seq(row)
    BY DEF IsBook
  <2> HIDE DEF row
  <2>2. \A i \in DOMAIN fs : fs[i] \in row
    BY <2>1, ElementsOf
  <2> QED
    BY <2>2 DEF row
<1>4. \A i \in DOMAIN fs : Amounts(fs)[i] = fs[i].amount
  BY DEF Amounts
<1> QED
  BY <1>1, <1>2, <1>3, <1>4 DEF Ints

\* A sum over positions in two parts.
LEMMA SumSplits ==
  ASSUME NEW fs, IsBook(fs), NEW A \in SUBSET DOMAIN fs, NEW B \in SUBSET DOMAIN fs, A \cap B = {}
  PROVE  Sum(fs, A) \in Int /\ Sum(fs, B) \in Int /\ Sum(fs, A \cup B) = Sum(fs, A) + Sum(fs, B)
<1>1. IsFiniteSet(A) /\ IsFiniteSet(B)
  BY BookFacts, FS_Subset
<1>2. Ints(Amounts(fs), A) /\ Ints(Amounts(fs), B)
  BY BookFacts DEF Ints
<1> QED
  BY <1>1, <1>2, SumOfUnion DEF Sum, Amounts

LEMMA SumType ==
  ASSUME NEW fs, IsBook(fs), NEW A \in SUBSET DOMAIN fs
  PROVE  Sum(fs, A) \in Int
<1>1. {} \in SUBSET DOMAIN fs /\ A \cap {} = {}
  OBVIOUS
<1> QED
  BY <1>1, SumSplits

LEMMA SumNothing == ASSUME NEW fs PROVE Sum(fs, {}) = 0
BY SumOfNone DEF Sum

LEMMA BetweenIn ==
  ASSUME NEW fs, NEW a, NEW b
  PROVE  Between(fs, a, b) \in SUBSET DOMAIN fs
BY DEF Between

\* A time from a to c is one up to b, or one after it.
LEMMA BetweenSplits ==
  ASSUME NEW fs, IsBook(fs), NEW a \in Int, NEW b \in Int, NEW c \in Int, a <= b, b <= c
  PROVE  Sum(fs, Between(fs, a, c)) = Sum(fs, Between(fs, a, b)) + Sum(fs, Between(fs, b, c))
<1>1. \A i \in DOMAIN fs : fs[i].ts \in Int
  BY BookFacts
<1>2. Between(fs, a, b) \cap Between(fs, b, c) = {}
  BY <1>1 DEF Between
<1>3. Between(fs, a, c) = Between(fs, a, b) \cup Between(fs, b, c)
  BY <1>1 DEF Between
<1> QED
  BY <1>2, <1>3, BetweenIn, SumSplits

\* What comes in and what goes out add up.
LEMMA InsAndOuts ==
  ASSUME NEW fs, IsBook(fs), NEW A \in SUBSET DOMAIN fs
  PROVE  Sum(fs, Ins(fs, A)) \in Int /\ Sum(fs, Outs(fs, A)) \in Int
         /\ Sum(fs, A) = Sum(fs, Ins(fs, A)) + Sum(fs, Outs(fs, A))
<1>1. \A i \in A : fs[i].amount \in Int
  BY BookFacts
<1>2. Ins(fs, A) \cap Outs(fs, A) = {} /\ A = Ins(fs, A) \cup Outs(fs, A)
  BY <1>1 DEF Ins, Outs
<1>3. Ins(fs, A) \in SUBSET DOMAIN fs /\ Outs(fs, A) \in SUBSET DOMAIN fs
  BY DEF Ins, Outs
<1> QED
  BY <1>2, <1>3, SumSplits

\* A row that is added counts in the times that hold it and in no others.
LEMMA SumAfterAppend ==
  ASSUME NEW fs, IsBook(fs), NEW e \in [ts : Int, amount : Int], NEW a \in Int, NEW b \in Int
  PROVE  /\ IsBook(Append(fs, e))
         /\ Sum(Append(fs, e), Between(Append(fs, e), a, b)) =
              Sum(fs, Between(fs, a, b)) + (IF a < e.ts /\ e.ts <= b THEN e.amount ELSE 0)
<1> DEFINE gs == Append(fs, e)
           n == Len(fs)
           A == Between(fs, a, b)
<1>1. IsBook(gs) /\ DOMAIN gs = 1..(n + 1) /\ DOMAIN fs = 1..n /\ n \in Nat
  BY DEF IsBook
<1>2. (\A i \in 1..n : gs[i] = fs[i]) /\ gs[n + 1] = e
  BY DEF IsBook
<1> HIDE DEF gs, n
<1>3. A \in SUBSET (1..n) /\ A \in SUBSET DOMAIN gs /\ {n + 1} \in SUBSET DOMAIN gs /\ A \cap {n + 1} = {}
  BY <1>1 DEF Between
<1>4. Sum(gs, A) = Sum(fs, A)
  <2>1. IsFiniteSet(A) /\ Ints(Amounts(fs), A)
    BY <1>1, <1>3, BookFacts, FS_Subset DEF Ints
  <2>2. \A i \in A : Amounts(fs)[i] = Amounts(gs)[i]
    BY <1>1, <1>2, <1>3 DEF Amounts
  <2> QED
    BY <2>1, <2>2, SumAgrees DEF Sum, Amounts
<1>5. Sum(gs, {n + 1}) = e.amount
  <2>1. Amounts(gs)[n + 1] = e.amount /\ e.amount \in Int
    BY <1>1, <1>2 DEF Amounts
  <2> QED
    BY <2>1, SumOfOne DEF Sum, Amounts
<1>6. Sum(gs, A) \in Int
  BY <1>1, <1>3, SumType
<1>7. CASE a < e.ts /\ e.ts <= b
  <2>1. Between(gs, a, b) = A \cup {n + 1}
    BY <1>1, <1>2, <1>7 DEF Between
  <2>2. Sum(gs, A \cup {n + 1}) = Sum(gs, A) + Sum(gs, {n + 1})
    BY <1>1, <1>3, SumSplits
  <2> QED
    BY <1>1, <1>4, <1>5, <1>7, <2>1, <2>2 DEF gs
<1>8. CASE ~(a < e.ts /\ e.ts <= b)
  <2>1. Between(gs, a, b) = A
    BY <1>1, <1>2, <1>8 DEF Between
  <2> QED
    BY <1>1, <1>4, <1>6, <1>8, <2>1 DEF gs
<1> QED
  BY <1>7, <1>8

-----------------------------------------------------------------------------
(* The snapshots, and what the account is worth. *)

Snaps == [ts : 0..MaxClock, equity : Int, sound : BOOLEAN]

LEMMA SnapFacts ==
  ASSUME NEW ss \in Seq(Snaps)
  PROVE  /\ Len(ss) \in Nat /\ DOMAIN ss = 1..Len(ss)
         /\ \A i \in DOMAIN ss : /\ ss[i].ts \in 0..MaxClock /\ ss[i].ts \in Int
                                 /\ ss[i].equity \in Int /\ ss[i].sound \in BOOLEAN
<1> HIDE DEF Snaps
<1>1. Len(ss) \in Nat /\ DOMAIN ss = 1..Len(ss)
  OBVIOUS
<1>2. \A i \in DOMAIN ss : ss[i] \in Snaps
  BY ElementsOf
<1> QED
  BY <1>1, <1>2, MeasureAssumption DEF Snaps

LEMMA TypeSnaps == MeasureTypeOK => snaps \in Seq(Snaps) /\ tm \in Int /\ tm \in 0..MaxClock
BY MeasureAssumption DEF MeasureTypeOK, Snaps

LEMMA WorthType ==
  ASSUME MeasureTypeOK, NEW t
  PROVE  /\ WorthAt(flows, gains, t) \in Int
         /\ Sum(flows, Between(flows, 0, t)) \in Int /\ Sum(gains, Between(gains, 0, t)) \in Int
<1>1. Sum(flows, Between(flows, 0, t)) \in Int /\ Sum(gains, Between(gains, 0, t)) \in Int
  BY TypeBooks, BetweenIn, SumType
<1> QED
  BY <1>1, MeasureAssumption DEF WorthAt

LEMMA MeasureStart == MeasureInit => MeasureTypeOK /\ SnapsInv /\ ValueInv
<1> SUFFICES ASSUME MeasureInit PROVE MeasureTypeOK /\ SnapsInv /\ ValueInv
  OBVIOUS
<1>1. MeasureTypeOK
  <2> DEFINE row == [ts : -1..MaxClock, amount : Int]
             st == Statuses \cup {"none"}
  <2>1. [ts |-> -1, amount |-> Deposit] \in row
    BY MeasureAssumption
  <2>2. <<[ts |-> -1, amount |-> Deposit]>> \in Seq(row)
    <3> HIDE DEF row
    <3> QED
      BY <2>1
  <2>3. NoReport \in [status : Statuses \cup {"none"}, first : 0..MaxClock, last : 0..MaxClock, count : Nat, full : BOOLEAN]
    BY MeasureAssumption DEF NoReport
  <2>4. tm \in 0..MaxClock /\ value \in Int /\ missed \subseteq 0..MaxClock /\ events \in 0..MaxEvents
    BY MeasureAssumption DEF MeasureInit
  <2>5. snaps = <<>> /\ gains = <<>> /\ ords = <<>>
    BY DEF MeasureInit
  <2>6. flows \in Seq([ts : -1..MaxClock, amount : Int])
    BY <2>2 DEF MeasureInit
  <2> QED
    BY <2>3, <2>4, <2>5, <2>6 DEF MeasureInit, MeasureTypeOK
<1>2. SnapsInv
  BY DEF MeasureInit, SnapsInv
<1>3. ValueInv
  <2>1. Between(flows, 0, 0) = {} /\ Between(gains, 0, 0) = {}
    BY DEF MeasureInit, Between
  <2>2. WorthAt(flows, gains, 0) = Deposit
    BY <2>1, SumNothing, MeasureAssumption DEF WorthAt
  <2> QED
    BY <2>2 DEF MeasureInit, ValueInv
<1> QED
  BY <1>1, <1>2, <1>3

\* A snapshot of this moment: a sound one is of the value, and of no time that was missed.
LEMMA InsertStep ==
  ASSUME MeasureTypeOK, SnapsInv, ValueInv, Due, NEW s \in Snaps, s.ts = tm, InsertSnapshot(s),
         UNCHANGED <<tm, value, flows, gains>>, missed \subseteq missed', missed' \subseteq missed \cup {tm},
         s.sound => missed' = missed /\ s.equity = value
  PROVE  snaps' \in Seq(Snaps) /\ SnapsInv' /\ ValueInv'
<1>1. snaps' = Append(snaps, s)
  BY DEF Due, InsertSnapshot
<1> DEFINE n == Len(snaps)
<1>2. snaps \in Seq(Snaps) /\ n \in Nat /\ DOMAIN snaps = 1..n /\ tm \in Int
  BY TypeSnaps, SnapFacts
<1>3. /\ snaps' \in Seq(Snaps) /\ DOMAIN snaps' = 1..(n + 1)
      /\ \A i \in 1..n : snaps'[i] = snaps[i]
      /\ snaps'[n + 1] = s
  <2>1. Added(Snaps, snaps, s, snaps')
    BY <1>1, <1>2, AppendAdds
  <2> QED
    BY <2>1 DEF Added
<1> HIDE DEF n
<1>4. \A i \in 1..n : /\ snaps[i].ts \in Int /\ snaps[i].ts % 2 = 0 /\ snaps[i].ts <= tm /\ snaps[i].ts # tm
                      /\ snaps[i].ts < tm
  <2>1. \A i \in DOMAIN snaps : snaps[i].ts \in Int
    BY <1>2, SnapFacts
  <2>2. \A i \in DOMAIN snaps : snaps[i].ts # tm
    BY DEF Due
  <2>3. \A i \in DOMAIN snaps : snaps[i].ts % 2 = 0 /\ snaps[i].ts <= tm
    BY DEF SnapsInv
  <2>4. \A i \in DOMAIN snaps : snaps[i].ts < tm
    BY <1>2, <2>1, <2>2, <2>3
  <2> QED
    BY <1>2, <2>1, <2>2, <2>3, <2>4
<1>5. SnapsInv'
  <2>1. \A i \in DOMAIN snaps' : snaps'[i].ts % 2 = 0 /\ snaps'[i].ts <= tm
    BY <1>2, <1>3, <1>4 DEF Due
  <2>2. \A i, j \in DOMAIN snaps' : i < j => snaps'[i].ts < snaps'[j].ts
    <3> SUFFICES ASSUME NEW i \in DOMAIN snaps', NEW j \in DOMAIN snaps', i < j
                 PROVE  snaps'[i].ts < snaps'[j].ts
      OBVIOUS
    <3>1. i \in 1..n
      BY <1>2, <1>3
    <3>2. CASE j \in 1..n
      BY <1>2, <1>3, <3>1, <3>2 DEF SnapsInv
    <3>3. CASE j = n + 1
      BY <1>3, <1>4, <3>1, <3>3
    <3> QED
      BY <1>2, <1>3, <3>2, <3>3
  <2>3. \A i \in DOMAIN snaps' : snaps'[i].ts \in missed' => ~snaps'[i].sound
    <3> SUFFICES ASSUME NEW i \in DOMAIN snaps', snaps'[i].ts \in missed'
                 PROVE  ~snaps'[i].sound
      OBVIOUS
    <3>1. CASE i \in 1..n
      BY <1>2, <1>3, <1>4, <3>1 DEF SnapsInv
    <3>2. CASE i = n + 1
      BY <1>3, <3>2 DEF Due
    <3> QED
      BY <1>2, <1>3, <3>1, <3>2
  <2>4. \A t \in missed' : t % 2 = 0 /\ t <= tm
    BY <1>2 DEF SnapsInv, Due
  <2> QED
    BY <2>1, <2>2, <2>3, <2>4 DEF SnapsInv
<1>6. ValueInv'
  <2>1. \A i \in DOMAIN snaps' : snaps'[i].sound => snaps'[i].equity = WorthAt(flows, gains, snaps'[i].ts)
    <3> SUFFICES ASSUME NEW i \in DOMAIN snaps', snaps'[i].sound
                 PROVE  snaps'[i].equity = WorthAt(flows, gains, snaps'[i].ts)
      OBVIOUS
    <3>1. CASE i \in 1..n
      BY <1>2, <1>3, <3>1 DEF ValueInv
    <3>2. CASE i = n + 1
      BY <1>3, <3>2 DEF ValueInv
    <3> QED
      BY <1>2, <1>3, <3>1, <3>2
  <2> QED
    BY <2>1 DEF ValueInv
<1> QED
  BY <1>3, <1>5, <1>6

\* What happens at a time changes what the account is worth from then on, and at no earlier time.
LEMMA WorthAfter ==
  ASSUME NEW fs, IsBook(fs), NEW gs, IsBook(gs), NEW e \in [ts : Int, amount : Int], e.ts > 0, NEW t \in Int
  PROVE  /\ WorthAt(Append(fs, e), gs, t) = WorthAt(fs, gs, t) + (IF e.ts <= t THEN e.amount ELSE 0)
         /\ WorthAt(fs, Append(gs, e), t) = WorthAt(fs, gs, t) + (IF e.ts <= t THEN e.amount ELSE 0)
<1> DEFINE d == IF e.ts <= t THEN e.amount ELSE 0
<1>1. d \in Int /\ d = (IF 0 < e.ts /\ e.ts <= t THEN e.amount ELSE 0)
  OBVIOUS
<1>2. /\ Sum(Append(fs, e), Between(Append(fs, e), 0, t)) = Sum(fs, Between(fs, 0, t)) + d
      /\ Sum(Append(gs, e), Between(Append(gs, e), 0, t)) = Sum(gs, Between(gs, 0, t)) + d
  BY <1>1, SumAfterAppend
<1>3. Sum(fs, Between(fs, 0, t)) \in Int /\ Sum(gs, Between(gs, 0, t)) \in Int
  BY BetweenIn, SumType
<1> HIDE DEF d
<1>4. /\ WorthAt(Append(fs, e), gs, t) = WorthAt(fs, gs, t) + d
      /\ WorthAt(fs, Append(gs, e), t) = WorthAt(fs, gs, t) + d
  BY <1>1, <1>2, <1>3, MeasureAssumption DEF WorthAt
<1> QED
  BY <1>4 DEF d

\* A row of this moment.
LEMMA BookStep ==
  ASSUME MeasureTypeOK, SnapsInv, ValueInv, tm % 2 = 1, NEW a \in Int,
         NEW e \in [ts : Int, amount : Int], e.ts = tm, e.amount = a,
         UNCHANGED <<tm, snaps, missed>>, value' = value + a,
         \/ flows' = Append(flows, e) /\ gains' = gains
         \/ gains' = Append(gains, e) /\ flows' = flows
  PROVE  ValueInv'
<1>1. IsBook(flows) /\ IsBook(gains) /\ tm \in Int /\ tm > 0
  <2>1. tm \in 0..MaxClock /\ MaxClock \in Nat
    BY MeasureAssumption DEF MeasureTypeOK
  <2>2. tm # 0
    BY 0 % 2 = 0
  <2> QED
    BY <2>1, <2>2, TypeBooks
<1>2. \A t \in Int : WorthAt(flows', gains', t) = WorthAt(flows, gains, t) + (IF tm <= t THEN a ELSE 0)
  <2>1. \A t \in Int :
          /\ WorthAt(Append(flows, e), gains, t) = WorthAt(flows, gains, t) + (IF e.ts <= t THEN e.amount ELSE 0)
          /\ WorthAt(flows, Append(gains, e), t) = WorthAt(flows, gains, t) + (IF e.ts <= t THEN e.amount ELSE 0)
    BY <1>1, WorthAfter
  <2>2. CASE flows' = Append(flows, e) /\ gains' = gains
    BY <2>1, <2>2
  <2>3. CASE gains' = Append(gains, e) /\ flows' = flows
    BY <2>1, <2>3
  <2> QED
    BY <2>2, <2>3
<1>3. \A t \in Int : WorthAt(flows, gains, t) \in Int
  BY WorthType
<1>4. value' = WorthAt(flows', gains', tm')
  BY <1>1, <1>2, <1>3 DEF ValueInv
<1>5. ASSUME NEW i \in DOMAIN snaps', snaps'[i].sound
      PROVE  snaps'[i].equity = WorthAt(flows', gains', snaps'[i].ts)
  <2>1. snaps[i].ts \in Int
    BY TypeSnaps, SnapFacts
  <2>2. snaps[i].ts % 2 = 0 /\ snaps[i].ts <= tm
    BY DEF SnapsInv
  <2>3. snaps[i].ts < tm
    BY <1>1, <2>1, <2>2
  <2>4. WorthAt(flows', gains', snaps[i].ts) = WorthAt(flows, gains, snaps[i].ts) + 0
    BY <1>1, <1>2, <2>1, <2>3
  <2>5. snaps[i].equity = WorthAt(flows, gains, snaps[i].ts)
    BY <1>5 DEF ValueInv
  <2>6. WorthAt(flows, gains, snaps[i].ts) \in Int
    BY <1>3, <2>1
  <2>7. WorthAt(flows', gains', snaps[i].ts) = snaps[i].equity
    BY <2>4, <2>5, <2>6
  <2>8. snaps' = snaps
    OBVIOUS
  <2> QED
    BY <2>7, <2>8, Zenon
<1>6. /\ \A i \in DOMAIN flows' : flows'[i].ts <= tm'
      /\ \A i \in DOMAIN gains' : gains'[i].ts <= tm'
  <2>1. ASSUME NEW fs, IsBook(fs), \A i \in DOMAIN fs : fs[i].ts <= tm
        PROVE  \A i \in DOMAIN Append(fs, e) : Append(fs, e)[i].ts <= tm
    <3> DEFINE row == [ts : Int, amount : Int]
    <3>1. fs \in Seq(row) /\ e \in row
      BY <2>1 DEF IsBook
    <3> HIDE DEF row
    <3>2. Added(row, fs, e, Append(fs, e)) /\ DOMAIN fs = 1..Len(fs) /\ Len(fs) \in Nat
      BY <3>1, AppendAdds
    <3> QED
      BY <1>1, <2>1, <3>2 DEF Added
  <2> QED
    BY <1>1, <2>1 DEF ValueInv
<1> QED
  BY <1>4, <1>5, <1>6 DEF ValueInv

\* Nothing of the account is of a time to come.
LEMMA TimeStep ==
  ASSUME MeasureTypeOK, SnapsInv, ValueInv, tm' = tm + 1, UNCHANGED <<snaps, missed, value, flows, gains>>
  PROVE  SnapsInv' /\ ValueInv'
<1>1. IsBook(flows) /\ IsBook(gains) /\ tm \in Int
  BY TypeBooks, MeasureAssumption DEF MeasureTypeOK
<1>2. (\A i \in DOMAIN flows : flows[i].ts \in Int) /\ (\A i \in DOMAIN gains : gains[i].ts \in Int)
  BY <1>1, BookFacts
<1>3. Between(flows, 0, tm + 1) = Between(flows, 0, tm) /\ Between(gains, 0, tm + 1) = Between(gains, 0, tm)
  BY <1>1, <1>2 DEF ValueInv, Between
<1>4. WorthAt(flows, gains, tm + 1) = WorthAt(flows, gains, tm)
  BY <1>3 DEF WorthAt
<1>5. ValueInv'
  BY <1>1, <1>2, <1>4 DEF ValueInv
<1>6. \A i \in DOMAIN snaps : snaps[i].ts \in Int
  BY TypeSnaps, SnapFacts
<1>7. \A t \in missed : t \in Int
  BY MeasureAssumption DEF MeasureTypeOK
<1>8. SnapsInv'
  BY <1>1, <1>6, <1>7 DEF SnapsInv
<1> QED
  BY <1>5, <1>8

-----------------------------------------------------------------------------
(* The snapshots of the last 30 days. *)

\* ss is what remains of the snapshots after the first k, and these are the ones before a time.
Remains(ss, k, time) ==
  /\ k \in 0..Len(snaps) /\ ss \in Seq(Snaps) /\ Len(ss) = Len(snaps) - k /\ DOMAIN ss = 1..Len(ss)
  /\ \A i \in DOMAIN ss : k + i \in DOMAIN snaps /\ ss[i] = snaps[k + i]
  /\ \A i \in DOMAIN snaps : snaps[i].ts < time <=> i <= k

LEMMA SinceRemains ==
  ASSUME MeasureTypeOK, SnapsInv, NEW time \in Int
  PROVE  \E k : Remains(Since(time), k, time)
<1> DEFINE n == Len(snaps)
<1>1. snaps \in Seq(Snaps) /\ n \in Nat /\ DOMAIN snaps = 1..n
  BY TypeSnaps, SnapFacts
<1>2. \A i \in 1..n : snaps[i].ts \in Int
  BY <1>1, SnapFacts
<1>3. \A i, j \in 1..n : i < j => snaps[i].ts < snaps[j].ts
  BY <1>1 DEF SnapsInv
<1> HIDE DEF n
<1> DEFINE Cut(m, k) == k \in 0..m /\ \A i \in 1..m : snaps[i].ts < time <=> i <= k
           Good == {m \in Nat : m <= n => \E k \in 0..m : Cut(m, k)}
<1>4. 0 \in Good
  <2>1. Cut(0, 0)
    OBVIOUS
  <2> QED
    BY <2>1
<1>5. ASSUME NEW m \in Nat, m \in Good PROVE m + 1 \in Good
  <2> SUFFICES ASSUME m + 1 <= n PROVE \E k \in 0..(m + 1) : Cut(m + 1, k)
    OBVIOUS
  <2>1. PICK k \in 0..m : Cut(m, k)
    BY <1>1, <1>5
  <2>2. \A i \in 1..m : snaps[i].ts < snaps[m + 1].ts /\ snaps[i].ts \in Int
    BY <1>1, <1>2, <1>3
  <2>3. snaps[m + 1].ts \in Int
    BY <1>1, <1>2
  <2>4. CASE snaps[m + 1].ts < time
    <3>1. Cut(m + 1, m + 1)
      BY <2>2, <2>3, <2>4
    <3> QED
      BY <3>1
  <2>5. CASE ~(snaps[m + 1].ts < time)
    <3>1. Cut(m + 1, k)
      BY <2>1, <2>5
    <3> QED
      BY <3>1
  <2> QED
    BY <2>4, <2>5
<1>6. n \in Good
  <2> HIDE DEF Good
  <2>1. Nat \subseteq Good
    BY <1>4, <1>5, AllNaturals
  <2> QED
    BY <1>1, <2>1
<1>7. PICK k \in 0..n : Cut(n, k)
  BY <1>1, <1>6
<1>8. {i \in DOMAIN snaps : snaps[i].ts < time} = 1..k
  BY <1>1, <1>7
<1>9. Cardinality(1..k) = k
  BY <1>1, <1>7, FS_Interval
<1>10. Since(time) = SubSeq(snaps, k + 1, n)
  BY <1>8, <1>9 DEF Since, n
<1>11. k + 1 \in 1..(n + 1) /\ n - (k + 1) + 1 = n - k /\ n - k \in Nat
  BY <1>1, <1>7
<1>12. Since(time) = [j \in 1..(n - k) |-> snaps[(k + 1) + j - 1]]
  BY <1>1, <1>10, <1>11, SubSequenceIs DEF n
<1>13. \A j \in 1..(n - k) : (k + 1) + j - 1 = k + j /\ k + j \in 1..n
  BY <1>1, <1>7
<1>14. \A j \in 1..(n - k) : snaps[k + j] \in Snaps
  BY <1>1, <1>13, ElementsOf
<1>15. Since(time) \in [1..(n - k) -> Snaps]
  BY <1>12, <1>13, <1>14
<1>16. Since(time) \in Seq(Snaps) /\ Len(Since(time)) = n - k
  BY <1>11, <1>15, SequenceIs
<1>17. DOMAIN Since(time) = 1..(n - k)
  BY <1>15
<1>18. \A i \in DOMAIN Since(time) : k + i \in DOMAIN snaps /\ Since(time)[i] = snaps[k + i]
  BY <1>1, <1>12, <1>13, <1>17
<1> QED
  BY <1>1, <1>7, <1>16, <1>17, <1>18 DEF Remains, n

-----------------------------------------------------------------------------
(* What a report says. *)

\* The orders of a status within the times of a report.
Ended(st, first, last) == {i \in DOMAIN ords : ords[i].status = st /\ first <= ords[i].ts /\ ords[i].ts <= last}

LEMMA GateType ==
  ASSUME NEW ticks, NEW twr, NEW mwrErr, NEW filled, NEW rejected
  PROVE  Gate(ticks, twr, mwrErr, filled, rejected) \in Statuses
BY DEF Gate, Statuses

LEMMA VerdictType ==
  ASSUME MeasureTypeOK, NEW ss \in Seq(Snaps), NEW since
  PROVE  Verdict(ss, since) \in [status : Statuses \cup {"none"}, first : 0..MaxClock, last : 0..MaxClock,
                                 count : Nat, full : BOOLEAN]
<1> DEFINE n == Len(ss)
           many == n >= 2
           twr == Twr(ss, flows)
           ticks == IF many /\ twr.err = "nil" THEN (ss[n].ts - ss[1].ts) \div 2 ELSE 0
           within(o) == IF many THEN ss[1].ts <= o.ts /\ o.ts <= ss[n].ts ELSE since <= o.ts
           number(st) == Cardinality({i \in DOMAIN ords : ords[i].status = st /\ within(ords[i])})
           verdict == Gate(ticks, IF many THEN twr ELSE Return(0, 1), MwrErr(ss, flows), number("filled"), number("rejected"))
           trust == Trust(ticks, Coverage(ticks, n), Sound(ss))
           status == IF trust # "" THEN trust ELSE verdict
           first == IF many THEN ss[1].ts ELSE 0
           last == IF many THEN ss[n].ts ELSE 0
<1>1. verdict \in Statuses
  BY GateType
<1>2. trust \in Statuses \cup {""}
  BY DEF Trust, Statuses
<1>3. n \in Nat /\ (many => ss[1].ts \in 0..MaxClock /\ ss[n].ts \in 0..MaxClock)
  <2>1. n \in Nat /\ DOMAIN ss = 1..n /\ \A i \in DOMAIN ss : ss[i].ts \in 0..MaxClock
    BY SnapFacts
  <2> HIDE DEF n
  <2> QED
    BY <2>1
<1>4. first \in 0..MaxClock /\ last \in 0..MaxClock
  BY <1>3, MeasureAssumption
<1>5. Verdict(ss, since) = [status |-> status, first |-> first, last |-> last, count |-> n, full |-> missed = {}]
  BY DEF Verdict
<1> HIDE DEF verdict, trust, first, last, n
<1>6. status \in Statuses \cup {"none"}
  BY <1>1, <1>2
<1>7. (missed = {}) \in BOOLEAN
  OBVIOUS
<1> HIDE DEF status
<1> QED
  BY <1>3, <1>4, <1>5, <1>6, <1>7

(* A report that passes or fails has two snapshots 30 days apart, all of     *)
(* them sound, few that are lost, a return and an order.                     *)
LEMMA VerdictMeans ==
  ASSUME NEW ss \in Seq(Snaps), NEW since, NEW r, r = Verdict(ss, since), r.status \in {"pass", "fail"}
  PROVE  LET n == Len(ss)
             twr == Twr(ss, flows)
             ticks == (ss[n].ts - ss[1].ts) \div 2
         IN  /\ n >= 2 /\ r.first = ss[1].ts /\ r.last = ss[n].ts
             /\ twr.err = "nil" /\ ~(ticks < WindowTicks) /\ Sound(ss)
             /\ ~(Coverage(ticks, n)[1] * 100 < MinCoverage * Coverage(ticks, n)[2])
             /\ Ended("filled", r.first, r.last) # {}
             /\ r.status = "pass" => 100 * twr.num >= (100 + Threshold) * twr.den
             /\ r.status = "fail" => ~(100 * twr.num >= (100 + BaselineLow) * twr.den)
<1> DEFINE n == Len(ss)
           many == n >= 2
           twr == Twr(ss, flows)
           ticks == IF many /\ twr.err = "nil" THEN (ss[n].ts - ss[1].ts) \div 2 ELSE 0
           within(o) == IF many THEN ss[1].ts <= o.ts /\ o.ts <= ss[n].ts ELSE since <= o.ts
           number(st) == Cardinality({i \in DOMAIN ords : ords[i].status = st /\ within(ords[i])})
           used == IF many THEN twr ELSE Return(0, 1)
           mwr == MwrErr(ss, flows)
           verdict == Gate(ticks, used, mwr, number("filled"), number("rejected"))
           cov == Coverage(ticks, n)
           trust == Trust(ticks, cov, Sound(ss))
           status == IF trust # "" THEN trust ELSE verdict
           first == IF many THEN ss[1].ts ELSE 0
           last == IF many THEN ss[n].ts ELSE 0
<1>1. r = [status |-> status, first |-> first, last |-> last, count |-> n, full |-> missed = {}]
  BY DEF Verdict
<1>2. r.status = status /\ r.first = first /\ r.last = last
  <2> HIDE DEF status, first, last, n
  <2> QED
    BY <1>1
<1>3. trust \in {"data_anomaly", ""}
  BY DEF Trust
<1>4. trust = "" /\ verdict \in {"pass", "fail"} /\ r.status = verdict
  <2> HIDE DEF trust, verdict
  <2> QED
    BY <1>2, <1>3
<1>5. /\ used.err = "nil" /\ mwr = "nil" /\ ~(ticks < WindowTicks) /\ number("filled") # 0
      /\ verdict = "pass" => 100 * used.num >= (100 + Threshold) * used.den
      /\ verdict = "fail" => ~(100 * used.num >= (100 + BaselineLow) * used.den)
  <2> DEFINE filled == number("filled")
             rejected == number("rejected")
  <2>1. verdict = Gate(ticks, used, mwr, filled, rejected)
    OBVIOUS
  <2> HIDE DEF verdict, used, mwr, ticks, filled, rejected
  <2>2. verdict \in {"pass", "fail"}
    BY <1>4
  <2>3. used.err = "nil" /\ mwr = "nil" /\ ~(ticks < WindowTicks) /\ filled # 0
    BY <2>1, <2>2, Zenon DEF Gate
  <2>4. verdict = "pass" => 100 * used.num >= (100 + Threshold) * used.den
    BY <2>1, <2>2, <2>3, Zenon DEF Gate
  <2>5. verdict = "fail" => ~(100 * used.num >= (100 + BaselineLow) * used.den)
    BY <2>1, <2>2, <2>3, Zenon DEF Gate
  <2> QED
    BY <2>3, <2>4, <2>5 DEF filled
<1>6. Sound(ss) /\ ~(cov[1] * 100 < MinCoverage * cov[2])
  <2> HIDE DEF ticks, cov
  <2> QED
    BY <1>4, <1>5 DEF Trust
<1>7. many
  <2>1. ASSUME ~many PROVE mwr = "insufficient"
    BY <2>1, SnapFacts DEF MwrErr
  <2> HIDE DEF mwr, many
  <2> QED
    BY <1>5, <2>1
<1>8. used = twr /\ twr.err = "nil" /\ ticks = (ss[n].ts - ss[1].ts) \div 2 /\ first = ss[1].ts /\ last = ss[n].ts
  <2> HIDE DEF twr, many
  <2> QED
    BY <1>5, <1>7
<1>9. Ended("filled", r.first, r.last) # {}
  <2>1. Ended("filled", r.first, r.last) = {i \in DOMAIN ords : ords[i].status = "filled" /\ within(ords[i])}
    BY <1>2, <1>7, <1>8 DEF Ended
  <2> QED
    BY <1>5, <2>1, FS_EmptySet
<1> HIDE DEF ticks, used, cov, first, last
<1> QED
  BY <1>2, <1>4, <1>5, <1>6, <1>7, <1>8, <1>9 DEF cov

-----------------------------------------------------------------------------
(* How many snapshots may be lost. *)

\* Of the even times from the first snapshot to the last one the snapshots leave few to others.
LEMMA LostFew ==
  ASSUME NEW n \in Nat, n >= 1, NEW T \in [1..n -> Nat], \A i, j \in 1..n : i < j => T[i] < T[j],
         \A i \in 1..n : T[i] % 2 = 0, NEW L \in SUBSET (T[1]..T[n]), \A t \in L : t % 2 = 0,
         \A i \in 1..n : T[i] \notin L
  PROVE  IsFiniteSet(L) /\ Cardinality(L) \in Nat /\ Cardinality(L) + n <= (T[n] - T[1]) \div 2 + 1
<1> DEFINE first == T[1]
           last == T[n]
           ticks == (last - first) \div 2
           Even == {t \in first..last : t % 2 = 0}
           R == {T[i] : i \in 1..n}
           half == [t \in Even |-> (t - first) \div 2]
<1>1. first \in Nat /\ last \in Nat /\ first % 2 = 0 /\ last % 2 = 0
  OBVIOUS
<1>2. \A i \in 1..n : first <= T[i] /\ T[i] <= last
  <2>1. \A i \in 1..n : 1 = i \/ 1 < i
    OBVIOUS
  <2>2. \A i \in 1..n : i = n \/ i < n
    OBVIOUS
  <2>3. 1 \in 1..n /\ n \in 1..n
    OBVIOUS
  <2> QED
    BY <2>1, <2>2, <2>3
<1>3. first <= last
  BY <1>2
<1> HIDE DEF first, last
<1>4. ticks \in Nat
  BY <1>1, <1>3
<1>5. IsFiniteSet(0..ticks) /\ Cardinality(0..ticks) = ticks + 1
  BY <1>4, FS_Interval
<1>6. half \in Injection(Even, 0..ticks)
  <2>1. \A t \in Even : (t - first) \div 2 \in 0..ticks
    BY <1>1, <1>3
  <2>2. \A t, u \in Even : (t - first) \div 2 = (u - first) \div 2 => t = u
    BY <1>1, <1>3
  <2> QED
    BY <2>1, <2>2 DEF Injection, IsInjective
<1> HIDE DEF ticks
<1>7. IsFiniteSet(Even) /\ Cardinality(Even) <= ticks + 1
  <2> HIDE DEF Even, half
  <2> QED
    BY <1>5, <1>6, FS_Injection
<1>8. L \subseteq Even /\ R \subseteq Even /\ L \cap R = {}
  BY <1>2 DEF first, last
<1> HIDE DEF Even
<1>9. IsFiniteSet(L) /\ IsFiniteSet(R) /\ IsFiniteSet(L \cup R) /\ Cardinality(L \cup R) <= Cardinality(Even)
  <2>1. L \cup R \subseteq Even
    BY <1>8
  <2> HIDE DEF R
  <2> QED
    BY <1>7, <1>8, <2>1, FS_Subset
<1>10. Cardinality(R) >= n
  <2>1. T \in Injection(1..n, R)
    <3>1. \A i, j \in 1..n : T[i] = T[j] => i = j
      <4> SUFFICES ASSUME NEW i \in 1..n, NEW j \in 1..n, T[i] = T[j], i # j PROVE FALSE
        OBVIOUS
      <4>1. i < j \/ j < i
        OBVIOUS
      <4>2. T[i] \in Nat /\ T[j] \in Nat
        OBVIOUS
      <4> QED
        BY <4>1, <4>2
    <3>2. T \in [1..n -> R]
      OBVIOUS
    <3> QED
      BY <3>1, <3>2 DEF Injection, IsInjective
  <2> HIDE DEF R
  <2>2. Cardinality(1..n) <= Cardinality(R)
    BY <1>9, <2>1, FS_Injection
  <2>3. Cardinality(1..n) = n
    BY FS_Interval
  <2> QED
    BY <1>9, <2>2, <2>3, FS_CardinalityType
<1>11. Cardinality(L \cup R) = Cardinality(L) + Cardinality(R)
  <2> HIDE DEF R
  <2>1. Cardinality(L \cup R) = Cardinality(L) + Cardinality(R) - Cardinality(L \cap R)
    BY <1>9, FS_Union
  <2>2. Cardinality(L \cap R) = 0
    BY <1>8, FS_EmptySet
  <2>3. Cardinality(L) \in Nat /\ Cardinality(R) \in Nat
    BY <1>9, FS_CardinalityType
  <2> QED
    BY <2>1, <2>2, <2>3
<1>12. Cardinality(L) \in Nat /\ Cardinality(R) \in Nat /\ Cardinality(L \cup R) \in Nat /\ Cardinality(Even) \in Nat
  BY <1>7, <1>9, FS_CardinalityType
<1>13. Cardinality(L) + n <= ticks + 1
  <2> HIDE DEF R
  <2> QED
    BY <1>4, <1>7, <1>9, <1>10, <1>11, <1>12
<1> QED
  BY <1>9, <1>12, <1>13 DEF ticks, first, last

\* The part of the window that may be lost.
LEMMA LostBound ==
  ASSUME NEW lost \in Nat, NEW n \in Nat, NEW ticks \in Nat, lost + n <= ticks + 1, n >= 1,
         ticks <= WindowTicks, ~(ticks < WindowTicks),
         ~(Coverage(ticks, n)[1] * 100 < MinCoverage * Coverage(ticks, n)[2])
  PROVE  lost <= 1 + ((100 - MinCoverage) * WindowTicks) \div 100
<1> DEFINE w == WindowTicks
           p == MinCoverage * w
           q == (100 - MinCoverage) * w
<1>1. w \in Nat /\ w >= 1 /\ ticks = w /\ MinCoverage \in Nat /\ MinCoverage <= 100
  BY MeasureAssumption
<1>2. p \in Nat /\ q \in Nat /\ q = 100 * w - p
  <2> HIDE DEF w
  <2>1. 100 - MinCoverage \in Nat
    BY <1>1
  <2>2. \A a, b \in Nat : a * b \in Nat
    OBVIOUS
  <2>3. p \in Nat /\ q \in Nat
    BY <1>1, <2>1, <2>2
  <2>4. q = 100 * w - MinCoverage * w
    BY <1>1
  <2> QED
    BY <2>3, <2>4
<1> HIDE DEF w, p, q
<1>3. CASE n > ticks
  <2>1. lost = 0
    BY <1>3
  <2>2. q \div 100 \in Nat
    BY <1>2
  <2> QED
    BY <2>1, <2>2 DEF q, w
<1>4. CASE n <= ticks
  <2>1. Coverage(ticks, n) = <<n, ticks>>
    BY <1>1, <1>4 DEF Coverage
  <2>2. ~(n * 100 < p)
    BY <1>1, <2>1 DEF p
  <2>3. lost - 1 <= w - n
    BY <1>1
  <2>4. 100 * (lost - 1) <= q
    BY <1>1, <1>2, <2>2, <2>3
  <2>5. lost - 1 <= q \div 100
    BY <1>2, <2>4
  <2> QED
    BY <1>2, <2>5 DEF q, w
<1> QED
  BY <1>3, <1>4

-----------------------------------------------------------------------------
(* The chain of links, a recursive function over the snapshots. *)

\* The return up to the i-th snapshot, of that up to the one before it.
LinkUpTo(ss, fs, prev, i) == IF i = 1 THEN Return(1, 1) ELSE Link(prev, ss[i - 1], ss[i], fs)

IsChain(ss, fs, f, n) == f = [i \in 1..n |-> LinkUpTo(ss, fs, f[i - 1], i)]

LEMMA ChainsExist ==
  ASSUME NEW ss, NEW fs, NEW n \in Nat
  PROVE  \E f : IsChain(ss, fs, f, n)
<1> DEFINE Good == {m \in Nat : \E f : IsChain(ss, fs, f, m)}
<1>1. 0 \in Good
  <2> DEFINE f == [i \in 1..0 |-> 0]
  <2>1. f = [i \in 1..0 |-> LinkUpTo(ss, fs, f[i - 1], i)]
    OBVIOUS
  <2> QED
    BY <2>1 DEF IsChain
<1>2. ASSUME NEW m \in Nat, m \in Good PROVE m + 1 \in Good
  <2>1. PICK f : IsChain(ss, fs, f, m)
    BY <1>2
  <2> DEFINE g == [i \in 1..(m + 1) |-> LinkUpTo(ss, fs, f[i - 1], i)]
  <2>2. \A i \in 1..m : g[i] = f[i]
    BY <2>1 DEF IsChain
  <2>3. ASSUME NEW i \in 1..(m + 1) PROVE LinkUpTo(ss, fs, f[i - 1], i) = LinkUpTo(ss, fs, g[i - 1], i)
    <3>1. CASE i = 1
      BY <3>1 DEF LinkUpTo
    <3>2. CASE i # 1
      <4>1. i - 1 \in 1..m
        BY <3>2
      <4> QED
        BY <2>2, <4>1, Zenon
    <3> QED
      BY <3>1, <3>2
  <2>4. g = [i \in 1..(m + 1) |-> LinkUpTo(ss, fs, g[i - 1], i)]
    BY <2>3
  <2>5. IsChain(ss, fs, g, m + 1)
    BY <2>4 DEF IsChain
  <2> QED
    BY <2>5
<1>3. Nat \subseteq Good
  <2> HIDE DEF Good
  <2> QED
    BY <1>1, <1>2, AllNaturals
<1> QED
  BY <1>3

LEMMA ChainIs ==
  ASSUME NEW ss, NEW fs, Len(ss) \in Nat
  PROVE  \A i \in 1..Len(ss) : Chain(ss, fs)[i] = LinkUpTo(ss, fs, Chain(ss, fs)[i - 1], i)
<1> DEFINE f == CHOOSE f : IsChain(ss, fs, f, Len(ss))
<1>1. Chain(ss, fs) = f
  BY DEF Chain, IsChain, LinkUpTo
<1>2. IsChain(ss, fs, f, Len(ss))
  BY ChainsExist, Zenon
<1> HIDE DEF f
<1> QED
  BY <1>1, <1>2 DEF IsChain

\* Nothing is gained between two snapshots: what one shows, and what came and went, is what the other shows.
Flat(ss, fs, i) ==
  ss[i].equity = ss[i - 1].equity + Sum(fs, Between(fs, ss[i - 1].ts, ss[i].ts))

\* Without a gain the links of a chain are all 1.
LEMMA ChainFlat ==
  ASSUME NEW ss \in Seq(Snaps), NEW fs, IsBook(fs), \A i \in 2..Len(ss) : Flat(ss, fs, i)
  PROVE  \A i \in 1..Len(ss) :
           LET c == Chain(ss, fs)[i]
           IN  c.err = "nil" => c.num \in Int /\ c.num > 0 /\ c.den = c.num
<1> DEFINE n == Len(ss)
           c(i) == Chain(ss, fs)[i]
           One(i) == c(i).err = "nil" => c(i).num \in Int /\ c(i).num > 0 /\ c(i).den = c(i).num
           Good == {m \in Nat : m = 0 \/ m > n \/ One(m)}
<1>1. n \in Nat /\ DOMAIN ss = 1..n
  BY SnapFacts
<1>2. \A i \in 1..n : c(i) = LinkUpTo(ss, fs, c(i - 1), i)
  BY <1>1, ChainIs
<1>3. \A i \in 1..n : ss[i].equity \in Int
  BY <1>1, SnapFacts
<1> HIDE DEF n, c
<1>4. 0 \in Good
  OBVIOUS
<1>5. ASSUME NEW m \in Nat, m \in Good PROVE m + 1 \in Good
  <2> SUFFICES ASSUME m + 1 <= n PROVE One(m + 1)
    BY <1>1
  <2>1. CASE m = 0
    <3>1. c(1) = Return(1, 1)
      BY <1>1, <1>2, <2>1 DEF LinkUpTo
    <3>2. c(1).num = 1 /\ c(1).den = 1
      BY <3>1 DEF Return
    <3> QED
      BY <2>1, <3>2
  <2>2. CASE m # 0
    <3>1. One(m) /\ m \in 1..n /\ m + 1 \in 1..n /\ (m + 1) - 1 = m /\ m + 1 \in 2..n /\ m + 1 # 1
      BY <1>1, <1>5, <2>2
    <3> DEFINE inside == Between(fs, ss[m].ts, ss[m + 1].ts)
               in == ss[m].equity + Sum(fs, Ins(fs, inside))
               out == ss[m + 1].equity - Sum(fs, Outs(fs, inside))
    <3>2. c(m + 1) = Link(c(m), ss[m], ss[m + 1], fs)
      BY <1>2, <3>1 DEF LinkUpTo
    <3>3. c(m + 1) = IF c(m).err # "nil" \/ in <= 0 \/ out < 0 THEN Anomaly ELSE Return(c(m).num * out, c(m).den * in)
      BY <3>2, Zenon DEF Link
    <3>4. in = out /\ in \in Int
      <4>1. ss[m + 1].equity = ss[m].equity + Sum(fs, inside)
        BY <1>1, <3>1 DEF Flat, n
      <4>2. /\ Sum(fs, Ins(fs, inside)) \in Int /\ Sum(fs, Outs(fs, inside)) \in Int
            /\ Sum(fs, inside) = Sum(fs, Ins(fs, inside)) + Sum(fs, Outs(fs, inside))
        BY BetweenIn, InsAndOuts
      <4>3. ss[m].equity \in Int
        BY <1>3, <3>1
      <4> HIDE DEF inside
      <4> QED
        BY <4>1, <4>2, <4>3
    <3> HIDE DEF in, out
    <3>5. SUFFICES ASSUME c(m + 1).err = "nil"
                   PROVE  c(m + 1).num \in Int /\ c(m + 1).num > 0 /\ c(m + 1).den = c(m + 1).num
      OBVIOUS
    <3>6. c(m).err = "nil" /\ ~(in <= 0) /\ c(m + 1) = Return(c(m).num * out, c(m).den * in)
      BY <3>3, <3>5 DEF Anomaly
    <3>7. c(m).num \in Int /\ c(m).num > 0 /\ c(m).den = c(m).num
      BY <3>1, <3>6
    <3>8. c(m).num * in \in Int /\ c(m).num * in > 0
      BY <3>4, <3>6, <3>7
    <3>9. c(m + 1).num = c(m).num * out /\ c(m + 1).den = c(m).den * in
      BY <3>6 DEF Return
    <3> QED
      BY <3>4, <3>7, <3>8, <3>9
  <2> QED
    BY <2>1, <2>2
<1>6. Nat \subseteq Good
  <2> HIDE DEF Good
  <2> QED
    BY <1>4, <1>5, AllNaturals
<1>7. \A i \in 1..n : One(i)
  BY <1>1, <1>6
<1> QED
  BY <1>7 DEF c, n

-----------------------------------------------------------------------------
(* A report that passes or fails is honest. *)

\* What a report keeps of the snapshots: they are sound, so they show what the account was worth.
LEMMA KeptFacts ==
  ASSUME MeasureTypeOK, SnapsInv, ValueInv, NEW ss, NEW k, NEW time \in Int, Remains(ss, k, time), Sound(ss)
  PROVE  /\ \A i \in 1..Len(ss) : /\ ss[i].ts \in Nat /\ ss[i].ts % 2 = 0 /\ ss[i].ts <= tm /\ time <= ss[i].ts
                                  /\ ss[i].ts \notin missed /\ ss[i].sound
                                  /\ ss[i].equity = WorthAt(flows, gains, ss[i].ts)
         /\ \A i, j \in 1..Len(ss) : i < j => ss[i].ts < ss[j].ts
         /\ \A i \in DOMAIN snaps : time <= snaps[i].ts => snaps[i].sound
<1>1. /\ Len(ss) \in Nat /\ DOMAIN ss = 1..Len(ss) /\ k \in 0..Len(snaps) /\ Len(ss) = Len(snaps) - k
      /\ \A i \in 1..Len(ss) : k + i \in DOMAIN snaps /\ ss[i] = snaps[k + i]
      /\ \A i \in DOMAIN snaps : snaps[i].ts < time <=> i <= k
  BY SnapFacts DEF Remains
<1>2. \A i \in DOMAIN snaps : snaps[i].ts \in 0..MaxClock /\ snaps[i].ts \in Int /\ snaps[i].equity \in Int
  BY TypeSnaps, SnapFacts
<1>3. \A i \in DOMAIN snaps : snaps[i].ts \in Nat
  BY <1>2
<1>4. Len(snaps) \in Nat /\ DOMAIN snaps = 1..Len(snaps)
  BY TypeSnaps, SnapFacts
<1>5. \A i \in 1..Len(ss) : ss[i].sound
  BY <1>1 DEF Sound
<1>6. \A i \in 1..Len(ss) : /\ ss[i].ts \in Nat /\ ss[i].ts % 2 = 0 /\ ss[i].ts <= tm /\ ss[i].ts \notin missed
                            /\ ss[i].equity = WorthAt(flows, gains, ss[i].ts)
  BY <1>1, <1>3, <1>5 DEF SnapsInv, ValueInv
<1>7. \A i \in 1..Len(ss) : time <= ss[i].ts
  <2> SUFFICES ASSUME NEW i \in 1..Len(ss) PROVE time <= ss[i].ts
    OBVIOUS
  <2>1. ~(k + i <= k)
    BY <1>1
  <2> QED
    BY <1>1, <1>2, <2>1
<1>8. \A i, j \in 1..Len(ss) : i < j => ss[i].ts < ss[j].ts
  <2> SUFFICES ASSUME NEW i \in 1..Len(ss), NEW j \in 1..Len(ss), i < j PROVE ss[i].ts < ss[j].ts
    OBVIOUS
  <2>1. k + i < k + j
    BY <1>1
  <2> QED
    BY <1>1, <2>1 DEF SnapsInv
<1>9. \A i \in DOMAIN snaps : time <= snaps[i].ts => snaps[i].sound
  <2> SUFFICES ASSUME NEW i \in DOMAIN snaps, time <= snaps[i].ts PROVE snaps[i].sound
    OBVIOUS
  <2>1. ~(i <= k)
    BY <1>1, <1>2
  <2>2. i - k \in 1..Len(ss) /\ k + (i - k) = i
    BY <1>1, <1>4, <2>1
  <2>3. ss[i - k] = snaps[i]
    BY <1>1, <2>2
  <2> QED
    BY <1>5, <2>2, <2>3
<1> QED
  BY <1>5, <1>6, <1>7, <1>8, <1>9

\* Between two times the account gains or loses what the books say.
LEMMA WorthGrows ==
  ASSUME MeasureTypeOK, NEW a \in Nat, NEW b \in Nat, a <= b
  PROVE  /\ Sum(flows, Between(flows, a, b)) \in Int /\ Sum(gains, Between(gains, a, b)) \in Int
         /\ WorthAt(flows, gains, b) =
              WorthAt(flows, gains, a) + Sum(flows, Between(flows, a, b)) + Sum(gains, Between(gains, a, b))
<1>1. IsBook(flows) /\ IsBook(gains)
  BY TypeBooks
<1>2. /\ Sum(flows, Between(flows, 0, b)) = Sum(flows, Between(flows, 0, a)) + Sum(flows, Between(flows, a, b))
      /\ Sum(gains, Between(gains, 0, b)) = Sum(gains, Between(gains, 0, a)) + Sum(gains, Between(gains, a, b))
  BY <1>1, BetweenSplits
<1>3. /\ Sum(flows, Between(flows, a, b)) \in Int /\ Sum(gains, Between(gains, a, b)) \in Int
      /\ Sum(flows, Between(flows, 0, a)) \in Int /\ Sum(gains, Between(gains, 0, a)) \in Int
  BY <1>1, BetweenIn, SumType
<1> QED
  BY <1>2, <1>3, MeasureAssumption DEF WorthAt

\* A return over the snapshots, of which nothing came or went in between.
LEMMA TwrCases ==
  ASSUME NEW ss, NEW fs, Len(ss) >= 2, Twr(ss, fs).err = "nil"
  PROVE  LET n == Len(ss)
         IN  /\ ss[1].ts # ss[n].ts /\ ~(ss[1].equity <= 0)
             /\ Between(fs, ss[1].ts, ss[n].ts) = {} => Twr(ss, fs) = Return(ss[n].equity, ss[1].equity)
             /\ Between(fs, ss[1].ts, ss[n].ts) # {} =>
                  Twr(ss, fs) = Chain(ss, fs)[n] /\ Chain(ss, fs)[n].err = "nil"
<1> DEFINE n == Len(ss)
           all == Chain(ss, fs)[n]
           none == Between(fs, ss[1].ts, ss[n].ts) = {}
<1>1. Twr(ss, fs) =
        IF n < 2 THEN [Anomaly EXCEPT !.err = "insufficient"]
        ELSE IF ss[1].ts = ss[n].ts \/ ss[1].equity <= 0 \/ ss[n].equity <= 0 THEN Anomaly
        ELSE IF none THEN Return(ss[n].equity, ss[1].equity)
        ELSE IF all.err # "nil" \/ all.num <= 0 THEN Anomaly
        ELSE all
  BY DEF Twr
<1>2. Anomaly.err = "anomaly" /\ [Anomaly EXCEPT !.err = "insufficient"].err = "insufficient"
  BY DEF Anomaly
<1> HIDE DEF all, none
<1>3. /\ ~(n < 2) /\ ss[1].ts # ss[n].ts /\ ~(ss[1].equity <= 0)
      /\ none => Twr(ss, fs) = Return(ss[n].equity, ss[1].equity)
      /\ ~none => Twr(ss, fs) = all /\ all.err = "nil"
  BY <1>1, <1>2
<1> QED
  BY <1>3 DEF all, none

\* What GateHonest says of a report that passes or fails.
Honest(r) ==
  /\ r.last - r.first >= WindowTime
  /\ Cardinality({t \in missed : r.first <= t /\ t <= r.last}) <= 1 + ((100 - MinCoverage) * WindowTicks) \div 100
  /\ \A i \in DOMAIN snaps : r.first <= snaps[i].ts /\ snaps[i].ts <= r.last => snaps[i].sound
  /\ \E i \in DOMAIN ords : ords[i].status = "filled" /\ r.first <= ords[i].ts /\ ords[i].ts <= r.last
  /\ Between(gains, r.first, r.last) = {} => r.status = "fail"
  /\ Between(flows, r.first, r.last) = {} =>
       LET start == Deposit + Sum(flows, Between(flows, 0, r.first)) + Sum(gains, Between(gains, 0, r.first))
           yield == 100 * Sum(gains, Between(gains, r.first, r.last))
       IN  IF r.status = "pass" THEN yield >= Threshold * start ELSE yield < BaselineLow * start

LEMMA VerdictHonest ==
  ASSUME MeasureTypeOK, SnapsInv, ValueInv, NEW ss, NEW k, Remains(ss, k, tm - WindowTime),
         NEW r, r = Verdict(ss, tm - WindowTime), r.status \in {"pass", "fail"}
  PROVE  Honest(r)
<1> DEFINE n == Len(ss)
           time == tm - WindowTime
           twr == Twr(ss, flows)
           ticks == (ss[n].ts - ss[1].ts) \div 2
           first == ss[1].ts
           last == ss[n].ts
<1>1. ss \in Seq(Snaps) /\ n \in Nat /\ DOMAIN ss = 1..n
  BY SnapFacts DEF Remains
<1>2. /\ n >= 2 /\ r.first = first /\ r.last = last
      /\ twr.err = "nil" /\ ~(ticks < WindowTicks) /\ Sound(ss)
      /\ ~(Coverage(ticks, n)[1] * 100 < MinCoverage * Coverage(ticks, n)[2])
      /\ Ended("filled", r.first, r.last) # {}
      /\ r.status = "pass" => 100 * twr.num >= (100 + Threshold) * twr.den
      /\ r.status = "fail" => ~(100 * twr.num >= (100 + BaselineLow) * twr.den)
  BY <1>1, VerdictMeans
<1>3. tm \in Nat /\ WindowTime \in Nat /\ WindowTicks \in Nat /\ WindowTime = 2 * WindowTicks /\ time \in Int
  BY TypeSnaps, MeasureAssumption DEF WindowTime
<1>4. /\ \A i \in 1..n : /\ ss[i].ts \in Nat /\ ss[i].ts % 2 = 0 /\ ss[i].ts <= tm /\ time <= ss[i].ts
                         /\ ss[i].ts \notin missed /\ ss[i].sound
                         /\ ss[i].equity = WorthAt(flows, gains, ss[i].ts)
      /\ \A i, j \in 1..n : i < j => ss[i].ts < ss[j].ts
      /\ \A i \in DOMAIN snaps : time <= snaps[i].ts => snaps[i].sound
  BY <1>2, <1>3, KeptFacts
<1>5. /\ first \in Nat /\ last \in Nat /\ first < last /\ last <= tm /\ time <= first
      /\ first % 2 = 0 /\ last % 2 = 0
  BY <1>1, <1>2, <1>4
<1>6. ticks \in Nat /\ ticks <= WindowTicks /\ last - first = 2 * ticks
  <2> HIDE DEF first, last
  <2>1. last - first <= 2 * WindowTicks /\ last - first > 0
    BY <1>3, <1>5
  <2>2. last - first = 2 * ((last - first) \div 2) /\ (last - first) \div 2 \in Nat
    BY <1>5, SMTT(30)
  <2>3. ticks = (last - first) \div 2
    BY DEF first, last
  <2> HIDE DEF ticks
  <2> QED
    BY <1>3, <2>1, <2>2, <2>3
<1>7. r.last - r.first >= WindowTime
  <2> HIDE DEF ticks, first, last
  <2> QED
    BY <1>2, <1>3, <1>6
<1>8. Cardinality({t \in missed : r.first <= t /\ t <= r.last}) <= 1 + ((100 - MinCoverage) * WindowTicks) \div 100
  <2> DEFINE lost == {t \in missed : first <= t /\ t <= last}
             T == [i \in 1..n |-> ss[i].ts]
  <2>1. \A t \in missed : t \in Nat /\ t % 2 = 0
    BY MeasureAssumption DEF MeasureTypeOK, SnapsInv
  <2>2. T \in [1..n -> Nat] /\ n >= 1 /\ T[1] = first /\ T[n] = last
    BY <1>2, <1>4
  <2>3. (\A i, j \in 1..n : i < j => T[i] < T[j]) /\ (\A i \in 1..n : T[i] % 2 = 0)
    BY <1>4
  <2>4. lost \in SUBSET (T[1]..T[n]) /\ (\A t \in lost : t % 2 = 0) /\ (\A i \in 1..n : T[i] \notin lost)
    BY <1>4, <1>5, <2>1, <2>2
  <2> HIDE DEF T, lost, n, first, last
  <2>5. Cardinality(lost) \in Nat /\ Cardinality(lost) + n <= (T[n] - T[1]) \div 2 + 1
    BY <1>1, <2>2, <2>3, <2>4, LostFew
  <2>6. (T[n] - T[1]) \div 2 = ticks
    BY <2>2 DEF first, last
  <2> HIDE DEF ticks
  <2>7. Cardinality(lost) <= 1 + ((100 - MinCoverage) * WindowTicks) \div 100
    BY <1>1, <1>2, <1>6, <2>5, <2>6, LostBound
  <2> QED
    BY <1>2, <2>7 DEF lost
<1>9. \A i \in DOMAIN snaps : r.first <= snaps[i].ts /\ snaps[i].ts <= r.last => snaps[i].sound
  <2>1. \A i \in DOMAIN snaps : snaps[i].ts \in Int
    BY TypeSnaps, SnapFacts
  <2> HIDE DEF first, last, time
  <2> QED
    BY <1>2, <1>3, <1>4, <1>5, <2>1
<1>10. \E i \in DOMAIN ords : ords[i].status = "filled" /\ r.first <= ords[i].ts /\ ords[i].ts <= r.last
  BY <1>2 DEF Ended
<1> DEFINE E(i) == ss[i].equity
<1>11. \A i \in 1..n : E(i) \in Int /\ E(i) = WorthAt(flows, gains, ss[i].ts)
  BY <1>4, WorthType
<1>12. Between(flows, first, last) = {} => twr.num = E(n) /\ twr.den = E(1)
  <2>1. Between(flows, first, last) = {} => twr = Return(E(n), E(1))
    BY <1>2, TwrCases
  <2> QED
    BY <2>1 DEF Return
<1>13. E(1) > 0
  <2>1. ~(E(1) <= 0)
    BY <1>2, TwrCases
  <2> QED
    BY <1>2, <1>11, <2>1
<1>14. E(n) = E(1) + Sum(flows, Between(flows, first, last)) + Sum(gains, Between(gains, first, last))
       /\ Sum(gains, Between(gains, first, last)) \in Int
  <2>1. 1 \in 1..n /\ n \in 1..n /\ first <= last
    BY <1>1, <1>2, <1>5
  <2>2. E(1) = WorthAt(flows, gains, first) /\ E(n) = WorthAt(flows, gains, last)
    BY <1>11, <2>1
  <2> HIDE DEF first, last, n, E
  <2>3. /\ Sum(gains, Between(gains, first, last)) \in Int
        /\ WorthAt(flows, gains, last) = WorthAt(flows, gains, first)
              + Sum(flows, Between(flows, first, last)) + Sum(gains, Between(gains, first, last))
    BY <1>5, <2>1, WorthGrows
  <2> QED
    BY <2>2, <2>3
<1>15. ASSUME Between(gains, r.first, r.last) = {} PROVE r.status = "fail"
  <2>1. twr.num \in Int /\ twr.num > 0 /\ twr.den = twr.num
    <3>1. CASE Between(flows, first, last) = {}
      <4>1. Sum(flows, Between(flows, first, last)) = 0 /\ Sum(gains, Between(gains, first, last)) = 0
        BY <1>2, <1>15, <3>1, SumNothing
      <4> HIDE DEF first, last, E, n, twr
      <4>2. E(1) \in Int /\ 1 \in 1..n
        BY <1>1, <1>2, <1>11
      <4> QED
        BY <1>12, <1>13, <1>14, <3>1, <4>1, <4>2
    <3>2. CASE Between(flows, first, last) # {}
      <4>1. \A i \in 2..n : Flat(ss, flows, i)
        <5> SUFFICES ASSUME NEW i \in 2..n PROVE Flat(ss, flows, i)
          OBVIOUS
        <5>1. i \in 1..n /\ i - 1 \in 1..n /\ i - 1 < i /\ 1 \in 1..n /\ n \in 1..n
          BY <1>1, <1>2
        <5> DEFINE a == ss[i - 1].ts
                   b == ss[i].ts
        <5>2. a \in Nat /\ b \in Nat /\ a < b
          BY <1>4, <5>1
        <5>3. first <= a /\ b <= last
          <6>1. i - 1 = 1 \/ 1 < i - 1
            OBVIOUS
          <6>2. i = n \/ i < n
            <7> HIDE DEF n
            <7> QED
              BY <1>1, <5>1
          <6>3. i - 1 = 1 => first <= a
            BY <1>5
          <6>4. 1 < i - 1 => first <= a
            BY <1>4, <1>5, <5>1, <5>2
          <6>5. i = n => b <= last
            BY <1>5
          <6>6. i < n => b <= last
            BY <1>4, <1>5, <5>1, <5>2
          <6> QED
            BY <6>1, <6>2, <6>3, <6>4, <6>5, <6>6
        <5>4. Between(gains, a, b) = {}
          <6>1. \A j \in DOMAIN gains : gains[j].ts \in Int
            BY TypeBooks, BookFacts
          <6> HIDE DEF a, b, first, last
          <6> QED
            BY <1>2, <1>5, <1>15, <5>2, <5>3, <6>1 DEF Between
        <5>5. /\ Sum(flows, Between(flows, a, b)) \in Int /\ Sum(gains, Between(gains, a, b)) = 0
              /\ WorthAt(flows, gains, b) =
                   WorthAt(flows, gains, a) + Sum(flows, Between(flows, a, b)) + Sum(gains, Between(gains, a, b))
          <6> HIDE DEF a, b
          <6>1. a <= b
            BY <5>2
          <6>2. /\ Sum(flows, Between(flows, a, b)) \in Int
                /\ WorthAt(flows, gains, b) =
                     WorthAt(flows, gains, a) + Sum(flows, Between(flows, a, b)) + Sum(gains, Between(gains, a, b))
            BY <5>2, <6>1, WorthGrows
          <6> QED
            BY <5>4, <6>2, SumNothing
        <5>6. E(i) = WorthAt(flows, gains, b) /\ E(i - 1) = WorthAt(flows, gains, a) /\ E(i - 1) \in Int
          BY <1>11, <5>1
        <5>7. E(i) = E(i - 1) + Sum(flows, Between(flows, a, b))
          <6> HIDE DEF a, b, E
          <6> QED
            BY <5>5, <5>6
        <5> QED
          BY <5>7 DEF Flat
      <4>2. twr = Chain(ss, flows)[n] /\ Chain(ss, flows)[n].err = "nil"
        BY <1>2, <3>2, TwrCases
      <4>3. n \in 1..n
        BY <1>1, <1>2
      <4> HIDE DEF twr
      <4> QED
        BY <1>1, <4>1, <4>2, <4>3, TypeBooks, ChainFlat
    <3> QED
      BY <3>1, <3>2
  <2> HIDE DEF twr
  <2>2. (100 + Threshold) * twr.num > 100 * twr.num
    <3>1. Threshold \in Nat /\ Threshold > 0
      BY MeasureAssumption
    <3>2. Threshold * twr.num > 0 /\ Threshold * twr.num \in Int
      BY <2>1, <3>1
    <3>3. (100 + Threshold) * twr.num = 100 * twr.num + Threshold * twr.num
      BY <2>1, <3>1
    <3> QED
      BY <2>1, <3>2, <3>3
  <2>3. ~(100 * twr.num >= (100 + Threshold) * twr.den)
    BY <2>1, <2>2, MeasureAssumption
  <2> QED
    BY <1>2, <2>3
<1>16. ASSUME Between(flows, r.first, r.last) = {}
       PROVE  LET start == Deposit + Sum(flows, Between(flows, 0, r.first)) + Sum(gains, Between(gains, 0, r.first))
                  yield == 100 * Sum(gains, Between(gains, r.first, r.last))
              IN  IF r.status = "pass" THEN yield >= Threshold * start ELSE yield < BaselineLow * start
  <2> DEFINE start == Deposit + Sum(flows, Between(flows, 0, r.first)) + Sum(gains, Between(gains, 0, r.first))
             gained == Sum(gains, Between(gains, r.first, r.last))
  <2>1. start = E(1) /\ 1 \in 1..n
    BY <1>1, <1>2, <1>11 DEF WorthAt
  <2>2. Sum(flows, Between(flows, first, last)) = 0 /\ gained = Sum(gains, Between(gains, first, last))
    BY <1>2, <1>16, SumNothing
  <2>3. twr.num = E(n) /\ twr.den = E(1)
    BY <1>2, <1>12, <1>16
  <2>4. start \in Int /\ gained \in Int /\ twr.num = start + gained /\ twr.den = start
    <3> HIDE DEF E, n, first, last, start, gained, twr
    <3>1. E(1) \in Int
      BY <1>11, <2>1
    <3> QED
      BY <1>14, <2>1, <2>2, <2>3, <3>1
  <2> HIDE DEF start, gained, twr
  <2>5. \A m \in Nat : (100 + m) * start = 100 * start + m * start /\ m * start \in Int
    BY <2>4
  <2>6. ASSUME NEW m \in Nat PROVE 100 * twr.num >= (100 + m) * twr.den <=> 100 * gained >= m * start
    <3>1. (100 + m) * start = 100 * start + m * start /\ m * start \in Int
      BY <2>5
    <3>2. 100 * (start + gained) = 100 * start + 100 * gained
      BY <2>4
    <3> QED
      BY <2>4, <3>1, <3>2
  <2>7. r.status = "pass" => 100 * gained >= Threshold * start
    BY <1>2, <2>6, MeasureAssumption
  <2>8. r.status = "fail" => 100 * gained < BaselineLow * start
    <3>1. BaselineLow \in Nat /\ BaselineLow * start \in Int
      BY <2>5, MeasureAssumption
    <3>2. r.status = "fail" => ~(100 * gained >= BaselineLow * start)
      BY <1>2, <2>6, <3>1
    <3> QED
      BY <2>4, <3>1, <3>2
  <2> QED
    BY <2>7, <2>8 DEF start, gained
<1> QED
  BY <1>7, <1>8, <1>9, <1>10, <1>15, <1>16 DEF Honest

-----------------------------------------------------------------------------
(* The invariant, and what follows from it. *)

\* The rows of the account: what an action adds to them is well typed.
LEMMA RowsTyped ==
  ASSUME MeasureTypeOK, NEW a \in Int, tm > 0
  PROVE  /\ Append(flows, [ts |-> tm, amount |-> a]) \in Seq([ts : -1..MaxClock, amount : Int])
         /\ Append(gains, [ts |-> tm, amount |-> a]) \in Seq([ts : 0..MaxClock, amount : Int])
<1> DEFINE flowRow == [ts : -1..MaxClock, amount : Int]
           gainRow == [ts : 0..MaxClock, amount : Int]
           e == [ts |-> tm, amount |-> a]
<1>1. e \in flowRow /\ e \in gainRow
  BY MeasureAssumption DEF MeasureTypeOK
<1>2. flows \in Seq(flowRow) /\ gains \in Seq(gainRow)
  BY DEF MeasureTypeOK
<1> HIDE DEF flowRow, gainRow, e
<1>3. Append(flows, e) \in Seq(flowRow) /\ Append(gains, e) \in Seq(gainRow)
  BY <1>1, <1>2
<1> QED
  BY <1>3 DEF flowRow, gainRow, e

LEMMA OddIsPositive == MeasureTypeOK /\ tm % 2 = 1 => tm > 0
<1>1. MeasureTypeOK => tm \in 0..MaxClock /\ MaxClock \in Nat
  BY MeasureAssumption DEF MeasureTypeOK
<1>2. 0 % 2 = 0
  OBVIOUS
<1> QED
  BY <1>1, <1>2

LEMMA NoReportType ==
  NoReport \in [status : Statuses \cup {"none"}, first : 0..MaxClock, last : 0..MaxClock, count : Nat, full : BOOLEAN]
BY MeasureAssumption DEF NoReport

LEMMA MeasureStep ==
  ASSUME MeasureTypeOK, SnapsInv, ValueInv, [MeasureNext]_measvars
  PROVE  MeasureTypeOK' /\ SnapsInv' /\ ValueInv'
<1> USE NoReportType
<1>1. ASSUME TakeSnapshot PROVE MeasureTypeOK' /\ SnapsInv' /\ ValueInv'
  <2> DEFINE s == [ts |-> tm, equity |-> value, sound |-> TRUE]
  <2>1. s \in Snaps /\ s.ts = tm /\ s.equity = value
    BY DEF MeasureTypeOK, Snaps
  <2>2. Due /\ InsertSnapshot(s) /\ report' = NoReport /\ UNCHANGED <<tm, value, flows, ords, missed, gains, events>>
    BY <1>1 DEF TakeSnapshot
  <2> HIDE DEF s
  <2>3. snaps' \in Seq(Snaps) /\ SnapsInv' /\ ValueInv'
    BY <2>1, <2>2, InsertStep
  <2>4. MeasureTypeOK'
    BY <2>2, <2>3 DEF MeasureTypeOK, Snaps
  <2> QED
    BY <2>3, <2>4
<1>2. ASSUME LoseSnapshot PROVE MeasureTypeOK' /\ SnapsInv' /\ ValueInv'
  <2> DEFINE s == [ts |-> tm, equity |-> value + Deposit, sound |-> FALSE]
  <2>1. s \in Snaps /\ s.ts = tm /\ ~s.sound
    BY MeasureAssumption DEF MeasureTypeOK, Snaps
  <2>2. /\ Due /\ report' = NoReport /\ events < MaxEvents /\ events' = events + 1
        /\ missed' = missed \cup {tm} /\ UNCHANGED <<tm, value, flows, ords, gains>>
        /\ UNCHANGED snaps \/ InsertSnapshot(s)
    BY <1>2 DEF LoseSnapshot
  <2> HIDE DEF s
  <2>3. snaps' \in Seq(Snaps) /\ SnapsInv' /\ ValueInv'
    <3>1. CASE InsertSnapshot(s)
      BY <2>1, <2>2, <3>1, InsertStep
    <3>2. CASE UNCHANGED snaps
      <4>1. snaps' \in Seq(Snaps) /\ \A i \in DOMAIN snaps : snaps[i].ts # tm
        BY <2>2, <3>2, TypeSnaps DEF Due
      <4>2. SnapsInv'
        <5>1. /\ tm' = tm /\ snaps' = snaps /\ missed' = missed \cup {tm} /\ tm % 2 = 0 /\ tm \in Int
          BY <2>2, <3>2, TypeSnaps DEF Due
        <5>2. \A i \in DOMAIN snaps : snaps[i].ts \notin missed' <=> snaps[i].ts \notin missed
          BY <4>1, <5>1
        <5> QED
          BY <5>1, <5>2, <4>1 DEF SnapsInv
      <4>3. ValueInv'
        BY <2>2, <3>2 DEF ValueInv
      <4> QED
        BY <4>1, <4>2, <4>3
    <3> QED
      BY <2>2, <3>1, <3>2
  <2>4. events' \in 0..MaxEvents /\ missed' \subseteq 0..MaxClock
    BY <2>2, MeasureAssumption DEF MeasureTypeOK
  <2>5. MeasureTypeOK'
    BY <2>2, <2>3, <2>4 DEF MeasureTypeOK, Snaps
  <2> QED
    BY <2>3, <2>5
<1>3. ASSUME TimeGoes PROVE MeasureTypeOK' /\ SnapsInv' /\ ValueInv'
  <2>1. /\ tm < MaxClock /\ tm' = tm + 1 /\ report' = NoReport
        /\ UNCHANGED <<snaps, flows, ords, missed, gains, value, events>>
    BY <1>3 DEF TimeGoes, Quiet
  <2>2. SnapsInv' /\ ValueInv'
    BY <2>1, TimeStep
  <2>3. tm' \in 0..MaxClock
    BY <2>1, MeasureAssumption DEF MeasureTypeOK
  <2>4. MeasureTypeOK'
    BY <2>1, <2>3 DEF MeasureTypeOK
  <2> QED
    BY <2>2, <2>4
<1>4. ASSUME NEW g \in Gains, Earn(g) PROVE MeasureTypeOK' /\ SnapsInv' /\ ValueInv'
  <2> DEFINE e == [ts |-> tm, amount |-> g]
  <2>1. /\ tm % 2 = 1 /\ events < MaxEvents /\ events' = events + 1 /\ report' = NoReport
        /\ value' = value + g /\ gains' = Append(gains, e) /\ UNCHANGED <<tm, snaps, flows, ords, missed>>
    BY <1>4 DEF Earn, Happens
  <2>2. g \in Int /\ tm \in Int /\ e \in [ts : Int, amount : Int] /\ e.ts = tm /\ e.amount = g
    BY TypeSnaps, MeasureAssumption
  <2>3. gains' \in Seq([ts : 0..MaxClock, amount : Int])
    BY <2>1, <2>2, RowsTyped, OddIsPositive
  <2> HIDE DEF e
  <2>4. ValueInv'
    BY <2>1, <2>2, BookStep
  <2>5. SnapsInv'
    BY <2>1 DEF SnapsInv
  <2>6. events' \in 0..MaxEvents /\ value' \in Int
    BY <2>1, <2>2, MeasureAssumption DEF MeasureTypeOK
  <2>7. MeasureTypeOK'
    BY <2>1, <2>3, <2>6 DEF MeasureTypeOK
  <2> QED
    BY <2>4, <2>5, <2>7
<1>5. ASSUME NEW a \in Flows, AddCapital(a) PROVE MeasureTypeOK' /\ SnapsInv' /\ ValueInv'
  <2> DEFINE e == [ts |-> tm, amount |-> a]
  <2>1. /\ tm % 2 = 1 /\ events < MaxEvents /\ events' = events + 1 /\ report' = NoReport
        /\ value' = value + a /\ flows' = Append(flows, e) /\ UNCHANGED <<tm, snaps, gains, ords, missed>>
    BY <1>5 DEF AddCapital, Happens
  <2>2. a \in Int /\ tm \in Int /\ e \in [ts : Int, amount : Int] /\ e.ts = tm /\ e.amount = a
    BY TypeSnaps, MeasureAssumption
  <2>3. flows' \in Seq([ts : -1..MaxClock, amount : Int])
    BY <2>1, <2>2, RowsTyped, OddIsPositive
  <2> HIDE DEF e
  <2>4. ValueInv'
    BY <2>1, <2>2, BookStep
  <2>5. SnapsInv'
    BY <2>1 DEF SnapsInv
  <2>6. events' \in 0..MaxEvents /\ value' \in Int
    BY <2>1, <2>2, MeasureAssumption DEF MeasureTypeOK
  <2>7. MeasureTypeOK'
    BY <2>1, <2>3, <2>6 DEF MeasureTypeOK
  <2> QED
    BY <2>4, <2>5, <2>7
<1>6. ASSUME NEW st \in {"filled", "rejected"}, OrderEnds(st) PROVE MeasureTypeOK' /\ SnapsInv' /\ ValueInv'
  <2> DEFINE o == [ts |-> tm, status |-> st]
             ord == [ts : 0..MaxClock, status : {"filled", "rejected"}]
  <2>1. /\ events < MaxEvents /\ events' = events + 1 /\ report' = NoReport
        /\ ords' = Append(ords, o) /\ UNCHANGED <<tm, snaps, flows, missed, gains, value>>
    BY <1>6 DEF OrderEnds, Happens
  <2>2. o \in ord /\ ords \in Seq(ord)
    BY DEF MeasureTypeOK
  <2>3. ords' \in Seq(ord)
    <3> HIDE DEF o, ord
    <3> QED
      BY <2>1, <2>2
  <2>4. SnapsInv' /\ ValueInv'
    BY <2>1 DEF SnapsInv, ValueInv
  <2>5. events' \in 0..MaxEvents
    BY <2>1, MeasureAssumption DEF MeasureTypeOK
  <2>6. MeasureTypeOK'
    BY <2>1, <2>3, <2>5 DEF MeasureTypeOK
  <2> QED
    BY <2>4, <2>6
<1>7. ASSUME GetPerformanceReport PROVE MeasureTypeOK' /\ SnapsInv' /\ ValueInv'
  <2>1. /\ report' = Verdict(Since(tm - WindowTime), tm - WindowTime)
        /\ UNCHANGED <<tm, events, snaps, flows, ords, missed, gains, value>>
    BY <1>7 DEF GetPerformanceReport, Quiet
  <2>2. tm - WindowTime \in Int
    BY TypeSnaps, MeasureAssumption DEF WindowTime
  <2>3. Since(tm - WindowTime) \in Seq(Snaps)
    BY <2>2, SinceRemains DEF Remains
  <2>4. report' \in [status : Statuses \cup {"none"}, first : 0..MaxClock, last : 0..MaxClock, count : Nat, full : BOOLEAN]
    BY <2>1, <2>3, VerdictType
  <2>5. MeasureTypeOK'
    BY <2>1, <2>4 DEF MeasureTypeOK
  <2>6. SnapsInv' /\ ValueInv'
    BY <2>1 DEF SnapsInv, ValueInv
  <2> QED
    BY <2>5, <2>6
<1>8. CASE UNCHANGED measvars
  BY <1>8 DEF MeasureTypeOK, SnapsInv, ValueInv, measvars
<1> QED
  BY <1>1, <1>2, <1>3, <1>4, <1>5, <1>6, <1>7, <1>8 DEF MeasureNext

LEMMA GateStart == MeasureInit => GateHonest
BY DEF MeasureInit, NoReport, GateHonest

LEMMA GateStep ==
  ASSUME MeasureTypeOK, SnapsInv, ValueInv, GateHonest, [MeasureNext]_measvars
  PROVE  GateHonest'
<1>1. ASSUME report' = NoReport PROVE GateHonest'
  BY <1>1 DEF NoReport, GateHonest
<1>2. ASSUME GetPerformanceReport PROVE GateHonest'
  <2> DEFINE r == Verdict(Since(tm - WindowTime), tm - WindowTime)
  <2>1. /\ report' = r /\ missed' = missed /\ flows' = flows /\ gains' = gains /\ ords' = ords /\ snaps' = snaps
    BY <1>2 DEF GetPerformanceReport, Quiet
  <2>2. tm - WindowTime \in Int
    BY TypeSnaps, MeasureAssumption DEF WindowTime
  <2>3. PICK k : Remains(Since(tm - WindowTime), k, tm - WindowTime)
    BY <2>2, SinceRemains
  <2>4. r.status \in {"pass", "fail"} => Honest(r)
    BY <2>3, VerdictHonest
  <2> HIDE DEF r
  <2>5. r.status \in {"pass", "fail"} => Honest(report)'
    BY <2>1, <2>4 DEF Honest, Sum, Between
  <2> QED
    BY <2>1, <2>5 DEF GateHonest, Honest, Inside, Lost
<1>3. CASE UNCHANGED measvars
  BY <1>3 DEF GateHonest, Inside, Lost, measvars
<1> QED
  BY <1>1, <1>2, <1>3 DEF MeasureNext, TakeSnapshot, LoseSnapshot, TimeGoes, Earn, AddCapital, OrderEnds, Happens

\* The types of the account, its snapshots and the report.
THEOREM MeasureTypes == MeasureSpec => []MeasureTypeOK
<1>1. MeasureInit => BooksInv
  BY MeasureStart DEF BooksInv
<1>2. BooksInv /\ [MeasureNext]_measvars => BooksInv'
  BY MeasureStep DEF BooksInv
<1>3. BooksInv => MeasureTypeOK
  BY DEF BooksInv
<1> QED
  BY <1>1, <1>2, <1>3, PTL DEF MeasureSpec

(* The first gate is honest: a report that passes or fails is about what     *)
(* trading yielded over 30 days and about nothing else, for any capital,     *)
(* any gains and flows, and any snapshots that are lost or damaged.          *)
THEOREM GateIsHonest == MeasureSpec => []GateHonest
<1>1. MeasureInit => BooksInv /\ GateHonest
  BY MeasureStart, GateStart DEF BooksInv
<1>2. BooksInv /\ GateHonest /\ [MeasureNext]_measvars => BooksInv' /\ GateHonest'
  BY MeasureStep, GateStep DEF BooksInv
<1> QED
  BY <1>1, <1>2, PTL DEF MeasureSpec
=============================================================================
