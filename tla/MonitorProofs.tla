---------------------------- MODULE MonitorProofs ----------------------------
(***************************************************************************)
(* Proofs about the monitoring half of the program, for any number of      *)
(* alerts, venues, settlements, lines and facts and any size of a batch, a *)
(* page and a section: every mail is accounted for, the backfill stores    *)
(* each settlement once, the exporter keeps its section in order and the   *)
(* lines of others, and the program of MCMonitor keeps what is proved of   *)
(* each of its components.                                                 *)
(***************************************************************************)
EXTENDS MCMonitor, FiniteSetTheorems, TLAPS, WellFoundedInduction

(* Collection.  The invariant is about one source at a time and stated over *)
(* plain values: u is whether the process runs, lg, mk, la, tl, p, b, k, ex  *)
(* what log, market, last, told, pc, batch, kept and excused hold for it.    *)

Rows(lg) == {lg[i] : i \in DOMAIN lg}

\* A list of reading m, as a source returns it or the filter leaves it.
Lists(b, m) == b \in {<<m>>, <<m, m>>}

\* The memory of the process knows the newest row, or is about to.
Knows(u, lg, la, p) ==
  \/ Feed!Newest(lg) = 0
  \/ u /\ (la = Feed!Newest(lg) \/ p = "remember")

\* No row is ahead of the source, no announcement and no memory ahead of the rows.
InOrder(lg, mk, la, tl) ==
  /\ Feed!Newest(lg) <= mk /\ tl <= Feed!Newest(lg) /\ la <= Feed!Newest(lg)
  /\ \A x \in Rows(lg) : x <= Feed!Newest(lg)

\* The poll under way is of reading m, which no stored row is ahead of.
Polled(lg, mk, la, p, b, k, m) ==
  /\ m <= mk /\ Feed!Newest(lg) <= m /\ Lists(b, m)
  /\ p \in {"sink", "remember"} => Lists(k, m)
  /\ p = "sink" => la # m
  /\ p \in {"remember", "record"} => Feed!Newest(lg) = m

\* A row more than the readings stored is excused, and one more that the memory misses.
Excuses(u, lg, la, p, ex) ==
  Len(lg) + (IF Knows(u, lg, la, p) THEN 0 ELSE 1) <= Cardinality(Rows(lg)) + ex

Source(u, lg, mk, la, tl, p, b, k, ex) ==
  /\ InOrder(lg, mk, la, tl)
  /\ p \in {"filter", "sink", "remember", "record"} =>
       \E m \in 1..MaxReading : Polled(lg, mk, la, p, b, k, m)
  /\ Excuses(u, lg, la, p, ex)

SourceInv(s) ==
  Source(up, log[s], market[s], last[s], told[s], pc[s], batch[s], kept[s], excused[s])

CollectInv == CollectTypeOK /\ \A s \in Sources : SourceInv(s)

-----------------------------------------------------------------------------
(* Rows. *)

LEMMA NewestType ==
  ASSUME NEW lg \in Seq(1..MaxReading)
  PROVE  Feed!Newest(lg) \in 0..MaxReading
BY CollectAssumption DEF Feed!Newest

LEMMA ListsType ==
  ASSUME NEW m \in 1..MaxReading, NEW k, Lists(k, m)
  PROVE  /\ k \in Seq(1..MaxReading) /\ Len(k) \in 1..2
         /\ \A i \in 1..Len(k) : k[i] = m
<1>1. CASE k = <<m>>
  BY <1>1
<1>2. CASE k = <<m, m>>
  <2>1. k \in Seq(1..MaxReading) /\ Len(k) = 2 /\ k[1] = m /\ k[2] = m
    BY <1>2
  <2>2. \A i \in 1..2 : i = 1 \/ i = 2
    OBVIOUS
  <2>. QED
    BY <2>1, <2>2
<1>. QED
  BY <1>1, <1>2 DEF Lists

LEMMA RowsFinite ==
  ASSUME NEW lg \in Seq(1..MaxReading)
  PROVE  IsFiniteSet(Rows(lg)) /\ Cardinality(Rows(lg)) \in Nat
<1>0. \A i \in DOMAIN lg : lg[i] \in 1..MaxReading
  <2>1. \A T : \A q \in Seq(T) : \A i \in DOMAIN q : q[i] \in T
    OBVIOUS
  <2>. QED
    BY <2>1
<1>1. Rows(lg) \in SUBSET (1..MaxReading)
  BY <1>0 DEF Rows
<1>2. IsFiniteSet(1..MaxReading)
  BY CollectAssumption, FS_Interval
<1>3. IsFiniteSet(Rows(lg))
  BY <1>1, <1>2, FS_Subset
<1>. QED
  BY <1>3, FS_CardinalityType

\* What storing a list of reading m does to the rows.
LEMMA StoreRows ==
  ASSUME NEW lg \in Seq(1..MaxReading), NEW m \in 1..MaxReading, NEW k, Lists(k, m)
  PROVE  /\ lg \o k \in Seq(1..MaxReading) /\ Len(lg \o k) = Len(lg) + Len(k)
         /\ Feed!Newest(lg \o k) = m
         /\ Rows(lg \o k) = Rows(lg) \cup {m}
<1>1. /\ k \in Seq(1..MaxReading) /\ Len(k) \in 1..2
      /\ \A i \in 1..Len(k) : k[i] = m
  BY ListsType
<1>2. lg \o k \in Seq(1..MaxReading) /\ Len(lg \o k) = Len(lg) + Len(k)
  BY <1>1
<1>3. \A i \in 1..(Len(lg) + Len(k)) : (lg \o k)[i] = IF i <= Len(lg) THEN lg[i] ELSE m
  BY <1>1
<1>4. Feed!Newest(lg \o k) = m
  <2>1. Len(lg) \in Nat /\ Len(k) \in Nat /\ Len(k) >= 1
    BY <1>1
  <2>2. (lg \o k)[Len(lg) + Len(k)] = m
    BY <1>3, <2>1
  <2>3. lg \o k # <<>>
    BY <1>2, <2>1
  <2>. QED
    BY <1>2, <2>2, <2>3 DEF Feed!Newest
<1>5. Rows(lg \o k) = Rows(lg) \cup {m}
  <2>1. \A x \in Rows(lg \o k) : x \in Rows(lg) \cup {m}
    BY <1>1, <1>2, <1>3 DEF Rows
  <2>2. \A x \in Rows(lg) : x \in Rows(lg \o k)
    <3>1. SUFFICES ASSUME NEW i \in DOMAIN lg PROVE lg[i] \in Rows(lg \o k)
      BY DEF Rows
    <3>2. i \in DOMAIN (lg \o k) /\ (lg \o k)[i] = lg[i]
      BY <1>1, <1>2, <1>3
    <3>. QED
      BY <3>2 DEF Rows
  <2>3. m \in Rows(lg \o k)
    <3>0. Len(lg) \in Nat /\ Len(k) \in Nat /\ Len(k) >= 1
      BY <1>1
    <3>1. (Len(lg) + 1) \in DOMAIN (lg \o k) /\ (lg \o k)[Len(lg) + 1] = m
      BY <1>2, <1>3, <3>0
    <3>. QED
      BY <3>1 DEF Rows
  <2>. QED
    BY <2>1, <2>2, <2>3
<1>. QED
  BY <1>2, <1>4, <1>5

\* Rows of a reading the memory does not know are excused but for one of them, which is
\* either new or the repetition the memory misses.
LEMMA StoreExcuses ==
  ASSUME NEW lg \in Seq(1..MaxReading), NEW m \in 1..MaxReading, NEW k, Lists(k, m),
         NEW la \in 0..MaxReading, NEW mk, NEW tl, NEW ex \in Nat,
         InOrder(lg, mk, la, tl), Excuses(TRUE, lg, la, "sink", ex),
         la # m, Feed!Newest(lg) <= m
  PROVE  Len(lg) + 1 <= Cardinality(Rows(lg \o k)) + ex
<1>. DEFINE n == Feed!Newest(lg)
            C == Cardinality(Rows(lg))
<1>1. n \in 0..MaxReading /\ IsFiniteSet(Rows(lg)) /\ C \in Nat /\ Len(lg) \in Nat
  BY NewestType, RowsFinite
<1>2. Cardinality(Rows(lg \o k)) = Cardinality(Rows(lg) \cup {m})
  BY StoreRows
<1>3. CASE m \in Rows(lg)
  <2>1. m <= n
    BY <1>3 DEF InOrder
  <2>2. n = m
    BY <1>1, <2>1
  <2>3. ~ Knows(TRUE, lg, la, "sink")
    BY <2>2 DEF Knows
  <2>4. Len(lg) + 1 <= C + ex
    BY <2>3 DEF Excuses
  <2>5. Rows(lg) \cup {m} = Rows(lg)
    BY <1>3
  <2>. QED
    BY <1>2, <2>4, <2>5
<1>4. CASE m \notin Rows(lg)
  <2>1. Cardinality(Rows(lg) \cup {m}) = C + 1
    BY <1>1, <1>4, FS_AddElement
  <2>2. Len(lg) <= C + ex
    <3>. HIDE DEF C
    <3>1. Len(lg) <= C + ex \/ Len(lg) + 1 <= C + ex
      <4>1. Len(lg) + 0 <= C + ex \/ Len(lg) + 1 <= C + ex
        BY DEF Excuses, C
      <4>. QED
        BY <4>1, <1>1
    <3>. QED
      BY <1>1, <3>1
  <2>. HIDE DEF C
  <2>. QED
    BY <1>1, <1>2, <2>1, <2>2
<1>. QED
  BY <1>3, <1>4

-----------------------------------------------------------------------------
(* The invariant. *)

\* The types of what the variables hold for one source.
LEMMA SourceTypes ==
  ASSUME CollectTypeOK, NEW s \in Sources
  PROVE  /\ log[s] \in Seq(1..MaxReading) /\ market[s] \in 0..MaxReading
         /\ last[s] \in 0..MaxReading /\ told[s] \in 0..MaxReading /\ excused[s] \in Nat
         /\ batch[s] \in Seq(1..MaxReading) /\ kept[s] \in Seq(1..MaxReading)
         /\ Feed!Newest(log[s]) \in 0..MaxReading
         /\ IsFiniteSet(Rows(log[s])) /\ Cardinality(Rows(log[s])) \in Nat
         /\ Len(log[s]) \in Nat
<1>1. log[s] \in Seq(1..MaxReading)
  BY DEF CollectTypeOK
<1>2. Len(log[s]) \in Nat
  BY <1>1
<1>. QED
  BY <1>1, <1>2, NewestType, RowsFinite DEF CollectTypeOK

\* A step of source s leaves the others alone.
LEMMA OneSource ==
  ASSUME NEW s \in Sources, CollectInv, CollectTypeOK', up' = up, SourceInv(s)',
         \A t \in Sources \ {s} :
           /\ log'[t] = log[t] /\ market'[t] = market[t] /\ last'[t] = last[t]
           /\ told'[t] = told[t] /\ pc'[t] = pc[t] /\ batch'[t] = batch[t]
           /\ kept'[t] = kept[t] /\ excused'[t] = excused[t]
  PROVE  CollectInv'
<1>1. ASSUME NEW t \in Sources, t # s PROVE SourceInv(t)'
  <2>1. SourceInv(t)
    BY DEF CollectInv
  <2>. QED
    BY <2>1, <1>1 DEF SourceInv
<1>. QED
  BY <1>1 DEF CollectInv

\* A poll under way stays what it is when the source moves on.
LEMMA MarketGrows ==
  ASSUME NEW u, NEW lg \in Seq(1..MaxReading), NEW mk \in 0..MaxReading, NEW mk2 \in 0..MaxReading,
         NEW la, NEW tl, NEW p, NEW b, NEW k, NEW ex, mk <= mk2,
         Source(u, lg, mk, la, tl, p, b, k, ex)
  PROVE  Source(u, lg, mk2, la, tl, p, b, k, ex)
<1>1. Feed!Newest(lg) \in 0..MaxReading
  BY NewestType
<1>2. InOrder(lg, mk2, la, tl)
  BY <1>1 DEF Source, InOrder
<1>3. ASSUME NEW m \in 1..MaxReading, Polled(lg, mk, la, p, b, k, m)
      PROVE  Polled(lg, mk2, la, p, b, k, m)
  BY <1>3 DEF Polled
<1>. QED
  BY <1>2, <1>3 DEF Source

\* The goroutine goes to a place where no poll is under way.
LEMMA PollOver ==
  ASSUME NEW u, NEW lg, NEW mk, NEW la, NEW tl, NEW p, NEW b, NEW k, NEW ex, NEW q, NEW c, NEW j,
         Source(u, lg, mk, la, tl, p, b, k, ex), p # "remember", q \in {"poll", "sleep", "hung"}
  PROVE  Source(u, lg, mk, la, tl, q, c, j, ex)
<1>1. Knows(u, lg, la, p) <=> Knows(u, lg, la, q)
  BY DEF Knows
<1>2. Excuses(u, lg, la, q, ex)
  BY <1>1 DEF Source, Excuses
<1>. QED
  BY <1>2 DEF Source

LEMMA CollectInitInv == CollectInit => CollectInv
<1>. SUFFICES ASSUME CollectInit PROVE CollectInv
  OBVIOUS
<1>1. CollectTypeOK
  <2>1. 0 \in 0..MaxReading /\ 0 \in 0..MaxAge /\ 0 \in 0..MaxFaults
    BY CollectAssumption DEF MaxAge
  <2>2. <<>> \in Seq(1..MaxReading)
    OBVIOUS
  <2>3. /\ log \in [Sources -> Seq(1..MaxReading)] /\ batch \in [Sources -> Seq(1..MaxReading)]
        /\ kept \in [Sources -> Seq(1..MaxReading)]
    BY <2>2 DEF CollectInit
  <2>4. /\ market \in [Sources -> 0..MaxReading] /\ last \in [Sources -> 0..MaxReading]
        /\ told \in [Sources -> 0..MaxReading] /\ excused \in [Sources -> Nat]
    BY <2>1 DEF CollectInit
  <2>5. /\ age \in [Sources -> 0..MaxAge] /\ beat \in [Sources -> 0..MaxAge]
        /\ faults \in 0..MaxFaults /\ up \in BOOLEAN /\ answers \in [Sources -> BOOLEAN]
        /\ pc \in [Sources -> {"poll", "filter", "sink", "remember", "record", "sleep", "hung"}]
    BY <2>1 DEF CollectInit
  <2>. QED
    BY <2>3, <2>4, <2>5 DEF CollectTypeOK
<1>2. ASSUME NEW s \in Sources PROVE SourceInv(s)
  <2>1. /\ log[s] = <<>> /\ market[s] = 0 /\ last[s] = 0 /\ told[s] = 0 /\ pc[s] = "poll"
        /\ excused[s] = 0
    BY DEF CollectInit
  <2>2. Feed!Newest(log[s]) = 0 /\ Rows(log[s]) = {} /\ Len(log[s]) = 0
    BY <2>1 DEF Feed!Newest, Rows
  <2>3. Cardinality(Rows(log[s])) = 0
    BY <2>2, FS_EmptySet
  <2>4. Excuses(up, log[s], last[s], pc[s], excused[s])
    BY <2>1, <2>2, <2>3 DEF Excuses, Knows
  <2>. QED
    BY <2>1, <2>2, <2>4 DEF SourceInv, Source, InOrder
<1>. QED
  BY <1>1, <1>2 DEF CollectInv

\* What a step of the goroutine of s that is no poll under way leaves behind.
LEMMA RestStep ==
  ASSUME NEW s \in Sources, CollectInv, CollectTypeOK', NEW q \in {"poll", "sleep", "hung"},
         pc[s] # "remember", pc' = [pc EXCEPT ![s] = q],
         UNCHANGED <<answers, log, market, last, told, excused, up>>,
         \A t \in Sources \ {s} : batch'[t] = batch[t] /\ kept'[t] = kept[t]
  PROVE  CollectInv'
<1>1. pc'[s] = q /\ \A t \in Sources \ {s} : pc'[t] = pc[t]
  BY DEF CollectInv, CollectTypeOK
<1>2. SourceInv(s)
  BY DEF CollectInv
<1>3. Source(up, log[s], market[s], last[s], told[s], q, batch'[s], kept'[s], excused[s])
  BY <1>2, PollOver DEF SourceInv
<1>4. SourceInv(s)'
  BY <1>1, <1>3 DEF SourceInv
<1>. QED
  BY <1>1, <1>4, OneSource

LEMMA MovesStep ==
  ASSUME CollectInv, NEW s \in Sources, Moves(s)
  PROVE  CollectInv'
<1>1. CollectTypeOK /\ SourceInv(s)
  BY DEF CollectInv
<1>2. /\ market'[s] \in 0..MaxReading /\ market[s] <= market'[s]
      /\ market' \in [Sources -> 0..MaxReading]
  BY <1>1, CollectAssumption DEF Moves, CollectTypeOK
<1>3. CollectTypeOK'
  BY <1>1, <1>2 DEF Moves, CollectTypeOK
<1>4. PICK mk : mk = market'[s]
  OBVIOUS
<1>5. Source(up, log[s], mk, last[s], told[s], pc[s], batch[s], kept[s], excused[s])
  BY <1>1, <1>2, <1>4, SourceTypes, MarketGrows DEF SourceInv
<1>6. SourceInv(s)'
  BY <1>4, <1>5 DEF SourceInv, Moves
<1>. QED
  BY <1>1, <1>3, <1>6, OneSource DEF Moves, CollectTypeOK

LEMMA PollStep ==
  ASSUME CollectInv, NEW s \in Sources, Poll(s)
  PROVE  CollectInv'
<1>1. CollectTypeOK /\ SourceInv(s)
  BY DEF CollectInv
<1>2. PICK m : m = market[s]
  OBVIOUS
<1>3. m \in 1..MaxReading /\ pc[s] = "poll"
  BY <1>1, <1>2, CollectAssumption DEF Poll, At, CollectTypeOK
<1>4. PICK b : Lists(b, m) /\ batch' = [batch EXCEPT ![s] = b]
  BY <1>2 DEF Poll, Lists
<1>5. b \in Seq(1..MaxReading)
  BY <1>3, <1>4, ListsType
<1>6. pc' = [pc EXCEPT ![s] = "filter"]
      /\ UNCHANGED <<answers, market, log, up, last, kept, age, beat, faults, told, excused>>
  BY DEF Poll, Goes
<1>7. CollectTypeOK'
  BY <1>1, <1>4, <1>5, <1>6 DEF CollectTypeOK
<1>8. batch'[s] = b /\ pc'[s] = "filter"
  BY <1>1, <1>4, <1>6 DEF CollectTypeOK
<1>9. Source(up, log[s], m, last[s], told[s], "filter", b, kept[s], excused[s])
  <2>1. InOrder(log[s], m, last[s], told[s]) /\ Excuses(up, log[s], last[s], pc[s], excused[s])
    BY <1>1, <1>2 DEF SourceInv, Source
  <2>2. Excuses(up, log[s], last[s], "filter", excused[s])
    BY <2>1, <1>3 DEF Excuses, Knows
  <2>3. Polled(log[s], m, last[s], "filter", b, kept[s], m)
    BY <2>1, <1>3, <1>4 DEF Polled, InOrder
  <2>. QED
    BY <2>1, <2>2, <2>3, <1>3 DEF Source
<1>10. SourceInv(s)'
  BY <1>2, <1>6, <1>8, <1>9 DEF SourceInv
<1>. QED
  BY <1>1, <1>4, <1>6, <1>7, <1>10, OneSource DEF CollectTypeOK

LEMMA FilterStep ==
  ASSUME CollectInv, NEW s \in Sources, Filter(s)
  PROVE  CollectInv'
<1>1. CollectTypeOK /\ SourceInv(s) /\ pc[s] = "filter"
  BY DEF CollectInv, Filter, At
<1>2. PICK m \in 1..MaxReading : Polled(log[s], market[s], last[s], "filter", batch[s], kept[s], m)
  BY <1>1 DEF SourceInv, Source
<1>3. m \in Nat /\ m # 0 /\ batch[s][1] = m
  BY <1>2, CollectAssumption DEF Polled, Lists
<1>4. PICK k : k = Kept(s)
  OBVIOUS
<1>5. PICK q : q = IF k = <<>> THEN "record" ELSE "sink"
  OBVIOUS
<1>6. /\ kept' = [kept EXCEPT ![s] = k] /\ pc' = [pc EXCEPT ![s] = q]
      /\ UNCHANGED <<answers, market, log, up, last, batch, age, beat, faults, told, excused>>
  BY <1>4, <1>5 DEF Filter, Goes
<1>7. \/ last[s] = m /\ k = <<>> /\ q = "record"
      \/ last[s] # m /\ Lists(k, m) /\ q = "sink"
  <2>1. CASE last[s] = 0
    BY <2>1, <1>3, <1>4, <1>5 DEF Kept, Lists
  <2>2. CASE last[s] # 0 /\ last[s] = m
    BY <2>2, <1>3, <1>4, <1>5 DEF Kept
  <2>3. CASE last[s] # 0 /\ last[s] # m
    <3>1. k = batch[s] /\ Lists(batch[s], m)
      BY <2>3, <1>2, <1>3, <1>4 DEF Kept, Polled
    <3>. QED
      BY <2>3, <3>1, <1>5 DEF Lists
  <2>. QED
    BY <2>1, <2>2, <2>3
<1>8. k \in Seq(1..MaxReading)
  <2>1. <<>> \in Seq(1..MaxReading)
    OBVIOUS
  <2>2. Lists(k, m) => k \in Seq(1..MaxReading)
    BY ListsType
  <2>. QED
    BY <1>7, <2>1, <2>2
<1>9. CollectTypeOK'
  BY <1>1, <1>6, <1>7, <1>8 DEF CollectTypeOK
<1>10. kept'[s] = k /\ pc'[s] = q
  BY <1>1, <1>6 DEF CollectTypeOK
<1>11. Source(up, log[s], market[s], last[s], told[s], q, batch[s], k, excused[s])
  <2>1. InOrder(log[s], market[s], last[s], told[s]) /\ Excuses(up, log[s], last[s], "filter", excused[s])
    BY <1>1 DEF SourceInv, Source
  <2>2. Excuses(up, log[s], last[s], q, excused[s])
    BY <2>1, <1>7 DEF Excuses, Knows
  <2>3. q = "record" => Feed!Newest(log[s]) = m
    BY <2>1, <1>1, <1>2, <1>7, SourceTypes DEF InOrder, Polled
  <2>4. Polled(log[s], market[s], last[s], q, batch[s], k, m)
    BY <2>3, <1>2, <1>7 DEF Polled
  <2>. QED
    BY <2>1, <2>2, <2>4 DEF Source
<1>12. SourceInv(s)'
  BY <1>6, <1>10, <1>11 DEF SourceInv
<1>. QED
  BY <1>1, <1>6, <1>9, <1>12, OneSource DEF CollectTypeOK

\* The rows a sink leaves, whether its answer arrives or not.
LEMMA SinkRows ==
  ASSUME CollectInv, NEW s \in Sources, pc[s] = "sink", up,
         log' = [log EXCEPT ![s] = @ \o kept[s]]
  PROVE  \E m \in 1..MaxReading :
           /\ Polled(log[s], market[s], last[s], "sink", batch[s], kept[s], m)
           /\ Len(kept[s]) \in 1..2
           /\ log'[s] \in Seq(1..MaxReading) /\ log' \in [Sources -> Seq(1..MaxReading)]
           /\ Feed!Newest(log'[s]) = m
           /\ InOrder(log'[s], market[s], last[s], told[s])
           /\ Len(log'[s]) = Len(log[s]) + Len(kept[s])
           /\ Len(log[s]) + 1 <= Cardinality(Rows(log'[s])) + excused[s]
<1>1. CollectTypeOK /\ SourceInv(s)
  BY DEF CollectInv
<1>2. PICK m \in 1..MaxReading : Polled(log[s], market[s], last[s], "sink", batch[s], kept[s], m)
  BY <1>1 DEF SourceInv, Source
<1>3. PICK k : k = kept[s]
  OBVIOUS
<1>4. PICK lg : lg = log[s]
  OBVIOUS
<1>5. Lists(k, m) /\ last[s] # m /\ Feed!Newest(lg) <= m /\ m <= market[s]
  BY <1>2, <1>3, <1>4 DEF Polled
<1>6. log'[s] = lg \o k /\ lg \in Seq(1..MaxReading)
  BY <1>1, <1>3, <1>4 DEF CollectTypeOK
<1>7. Len(k) \in 1..2
  BY <1>5, ListsType
<1>8. /\ lg \o k \in Seq(1..MaxReading) /\ Len(lg \o k) = Len(lg) + Len(k)
      /\ Feed!Newest(lg \o k) = m /\ Rows(lg \o k) = Rows(lg) \cup {m}
  BY <1>5, <1>6, StoreRows
<1>9. InOrder(lg, market[s], last[s], told[s]) /\ Excuses(TRUE, lg, last[s], "sink", excused[s])
  BY <1>1, <1>4 DEF SourceInv, Source
<1>10. /\ last[s] \in 0..MaxReading /\ excused[s] \in Nat /\ told[s] \in 0..MaxReading
       /\ Feed!Newest(lg) \in 0..MaxReading /\ market[s] \in 0..MaxReading
  BY <1>1, <1>4, SourceTypes
<1>11. Len(lg) + 1 <= Cardinality(Rows(lg \o k)) + excused[s]
  BY <1>5, <1>6, <1>9, <1>10, StoreExcuses
<1>12. InOrder(lg \o k, market[s], last[s], told[s])
  <2>1. \A x \in Rows(lg) : x \in 1..MaxReading
    <3>1. \A T : \A q \in Seq(T) : \A i \in DOMAIN q : q[i] \in T
      OBVIOUS
    <3>. QED
      BY <3>1, <1>6 DEF Rows
  <2>2. \A x \in Rows(lg) \cup {m} : x <= m
    BY <1>5, <1>9, <1>10, <2>1 DEF InOrder
  <2>3. told[s] <= m /\ last[s] <= m
    BY <1>5, <1>9, <1>10 DEF InOrder
  <2>. QED
    BY <1>5, <1>8, <2>2, <2>3 DEF InOrder
<1>13. log' \in [Sources -> Seq(1..MaxReading)]
  <2>1. lg \o k \in Seq(1..MaxReading)
    BY <1>8
  <2>. QED
    BY <1>1, <1>3, <1>4, <2>1 DEF CollectTypeOK
<1>. QED
  BY <1>2, <1>3, <1>4, <1>6, <1>7, <1>8, <1>11, <1>12, <1>13

LEMMA SinkStep ==
  ASSUME CollectInv, NEW s \in Sources, Sink(s)
  PROVE  CollectInv'
<1>1. CollectTypeOK /\ pc[s] = "sink" /\ up
  BY DEF CollectInv, Sink, At
<1>2. PICK m \in 1..MaxReading :
           /\ Polled(log[s], market[s], last[s], "sink", batch[s], kept[s], m)
           /\ Len(kept[s]) \in 1..2
           /\ log'[s] \in Seq(1..MaxReading) /\ log' \in [Sources -> Seq(1..MaxReading)]
           /\ Feed!Newest(log'[s]) = m
           /\ InOrder(log'[s], market[s], last[s], told[s])
           /\ Len(log'[s]) = Len(log[s]) + Len(kept[s])
           /\ Len(log[s]) + 1 <= Cardinality(Rows(log'[s])) + excused[s]
  BY <1>1, SinkRows DEF Sink
<1>3. PICK n : n = Len(kept[s])
  OBVIOUS
<1>4. PICK e : e = excused[s] + n - 1
  OBVIOUS
<1>5. n \in 1..2 /\ excused[s] \in Nat /\ e \in Nat
  <2>1. n \in 1..2
    BY <1>2, <1>3
  <2>2. excused[s] \in Nat
    BY <1>1, SourceTypes
  <2>. QED
    BY <1>4, <2>1, <2>2
<1>6. /\ excused' = [excused EXCEPT ![s] = e] /\ pc' = [pc EXCEPT ![s] = "remember"]
      /\ UNCHANGED <<answers, market, up, last, batch, kept, age, beat, faults, told>>
  BY <1>3, <1>4 DEF Sink, Goes
<1>7. CollectTypeOK'
  BY <1>1, <1>2, <1>5, <1>6 DEF CollectTypeOK
<1>8. excused'[s] = e /\ pc'[s] = "remember"
  BY <1>1, <1>6 DEF CollectTypeOK
<1>9. PICK lg : lg = log'[s]
  OBVIOUS
<1>10. Source(up, lg, market[s], last[s], told[s], "remember", batch[s], kept[s], e)
  <2>1. Knows(up, lg, last[s], "remember")
    BY <1>1 DEF Knows
  <2>2. IsFiniteSet(Rows(lg)) /\ Cardinality(Rows(lg)) \in Nat /\ Len(log[s]) \in Nat
    BY <1>1, <1>2, <1>9, RowsFinite, SourceTypes
  <2>3. Len(lg) <= Cardinality(Rows(lg)) + e
    <3>1. Len(lg) = Len(log[s]) + n /\ Len(log[s]) + 1 <= Cardinality(Rows(lg)) + excused[s]
      BY <1>2, <1>3, <1>9
    <3>. QED
      BY <1>4, <1>5, <2>2, <3>1, SMTT(30)
  <2>4. Len(lg) \in Nat
    BY <1>2, <1>9
  <2>5. Excuses(up, lg, last[s], "remember", e)
    BY <2>1, <2>3, <2>4 DEF Excuses
  <2>6. m <= m
    BY CollectAssumption
  <2>7. Polled(lg, market[s], last[s], "remember", batch[s], kept[s], m)
    BY <1>2, <1>9, <2>6 DEF Polled
  <2>. QED
    BY <1>2, <1>9, <2>5, <2>7 DEF Source
<1>11. SourceInv(s)'
  BY <1>6, <1>8, <1>9, <1>10 DEF SourceInv
<1>. QED
  BY <1>1, <1>6, <1>7, <1>11, OneSource DEF Sink, CollectTypeOK

LEMMA SinkUnsureStep ==
  ASSUME CollectInv, NEW s \in Sources, SinkUnsure(s)
  PROVE  CollectInv'
<1>1. CollectTypeOK /\ pc[s] = "sink" /\ up
  BY DEF CollectInv, SinkUnsure, At
<1>2. PICK m \in 1..MaxReading :
           /\ Polled(log[s], market[s], last[s], "sink", batch[s], kept[s], m)
           /\ Len(kept[s]) \in 1..2
           /\ log'[s] \in Seq(1..MaxReading) /\ log' \in [Sources -> Seq(1..MaxReading)]
           /\ Feed!Newest(log'[s]) = m
           /\ InOrder(log'[s], market[s], last[s], told[s])
           /\ Len(log'[s]) = Len(log[s]) + Len(kept[s])
           /\ Len(log[s]) + 1 <= Cardinality(Rows(log'[s])) + excused[s]
  BY <1>1, SinkRows DEF SinkUnsure
<1>3. PICK n : n = Len(kept[s])
  OBVIOUS
<1>4. PICK e : e = excused[s] + n
  OBVIOUS
<1>5. n \in 1..2 /\ excused[s] \in Nat /\ e \in Nat
  <2>1. n \in 1..2
    BY <1>2, <1>3
  <2>2. excused[s] \in Nat
    BY <1>1, SourceTypes
  <2>. QED
    BY <1>4, <2>1, <2>2
<1>6. /\ excused' = [excused EXCEPT ![s] = e]
      /\ UNCHANGED <<answers, market, up, last, batch, kept, age, beat, told>>
  BY <1>3, <1>4 DEF SinkUnsure
<1>0. PICK q \in {"sleep", "hung"} : pc' = [pc EXCEPT ![s] = q]
  BY DEF SinkUnsure, Goes
<1>7. faults' \in 0..MaxFaults
  BY <1>1, CollectAssumption DEF SinkUnsure, CollectTypeOK
<1>8. CollectTypeOK'
  BY <1>0, <1>1, <1>2, <1>5, <1>6, <1>7 DEF CollectTypeOK
<1>9. excused'[s] = e /\ pc'[s] = q
  BY <1>0, <1>1, <1>6 DEF CollectTypeOK
<1>10. PICK lg : lg = log'[s]
  OBVIOUS
<1>11. Source(up, lg, market[s], last[s], told[s], q, batch[s], kept[s], e)
  <2>1. IsFiniteSet(Rows(lg)) /\ Cardinality(Rows(lg)) \in Nat /\ Len(log[s]) \in Nat
    BY <1>1, <1>2, <1>10, RowsFinite, SourceTypes
  <2>2. Len(lg) + 1 <= Cardinality(Rows(lg)) + e /\ Len(lg) \in Nat
    <3>1. Len(lg) = Len(log[s]) + n /\ Len(log[s]) + 1 <= Cardinality(Rows(lg)) + excused[s]
      BY <1>2, <1>3, <1>10
    <3>. QED
      BY <1>4, <1>5, <2>1, <3>1, SMTT(30)
  <2>3. Len(lg) + 0 <= Cardinality(Rows(lg)) + e
    BY <1>5, <2>1, <2>2
  <2>4. Excuses(up, lg, last[s], q, e)
    BY <2>2, <2>3 DEF Excuses
  <2>. QED
    BY <1>0, <1>2, <1>10, <2>4 DEF Source
<1>12. SourceInv(s)'
  BY <1>6, <1>9, <1>10, <1>11 DEF SourceInv
<1>. QED
  BY <1>0, <1>1, <1>6, <1>8, <1>12, OneSource DEF SinkUnsure, CollectTypeOK

LEMMA RememberStep ==
  ASSUME CollectInv, NEW s \in Sources, Remember(s)
  PROVE  CollectInv'
<1>1. CollectTypeOK /\ SourceInv(s) /\ pc[s] = "remember" /\ up
  BY DEF CollectInv, Remember, At
<1>2. PICK m \in 1..MaxReading : Polled(log[s], market[s], last[s], "remember", batch[s], kept[s], m)
  BY <1>1 DEF SourceInv, Source
<1>3. kept[s][Len(kept[s])] = m /\ Feed!Newest(log[s]) = m
  <2>1. Lists(kept[s], m) /\ Feed!Newest(log[s]) = m
    BY <1>2 DEF Polled
  <2>2. Len(kept[s]) \in 1..2 /\ \A i \in 1..Len(kept[s]) : kept[s][i] = m
    BY <2>1, ListsType
  <2>3. Len(kept[s]) \in 1..Len(kept[s])
    <3>1. \A n \in 1..2 : n \in 1..n
      OBVIOUS
    <3>. QED
      BY <2>2, <3>1, Zenon
  <2>. QED
    BY <2>1, <2>2, <2>3
<1>4. m \in 0..MaxReading
  BY CollectAssumption
<1>5. /\ last' = [last EXCEPT ![s] = m] /\ pc' = [pc EXCEPT ![s] = "record"]
      /\ UNCHANGED <<answers, market, log, up, batch, kept, age, beat, faults, told, excused>>
  BY <1>3 DEF Remember, Goes
<1>6. CollectTypeOK'
  BY <1>1, <1>4, <1>5 DEF CollectTypeOK
<1>7. last'[s] = m /\ pc'[s] = "record"
  BY <1>1, <1>5 DEF CollectTypeOK
<1>8. Source(up, log[s], market[s], m, told[s], "record", batch[s], kept[s], excused[s])
  <2>1. InOrder(log[s], market[s], last[s], told[s])
        /\ Excuses(up, log[s], last[s], "remember", excused[s])
    BY <1>1 DEF SourceInv, Source
  <2>2. m <= m
    BY <1>4, CollectAssumption
  <2>3. InOrder(log[s], market[s], m, told[s])
    BY <2>1, <2>2, <1>3 DEF InOrder
  <2>4. Excuses(up, log[s], m, "record", excused[s])
    BY <2>1, <1>1, <1>3 DEF Excuses, Knows
  <2>5. Polled(log[s], market[s], m, "record", batch[s], kept[s], m)
    BY <1>2, <1>3 DEF Polled
  <2>. QED
    BY <2>3, <2>4, <2>5 DEF Source
<1>9. SourceInv(s)'
  BY <1>5, <1>7, <1>8 DEF SourceInv
<1>. QED
  BY <1>1, <1>5, <1>6, <1>9, OneSource DEF CollectTypeOK

\* A success is recorded with the newest row.
LEMMA RecordStep ==
  ASSUME CollectInv, NEW s \in Sources, Record(s)
  PROVE  CollectInv' /\ told' = [told EXCEPT ![s] = Feed!Newest(log[s])]
<1>1. CollectTypeOK /\ SourceInv(s) /\ pc[s] = "record"
  BY DEF CollectInv, Record, At
<1>2. PICK m \in 1..MaxReading : Polled(log[s], market[s], last[s], "record", batch[s], kept[s], m)
  BY <1>1 DEF SourceInv, Source
<1>3. batch[s][1] = m /\ Feed!Newest(log[s]) = m
  BY <1>2 DEF Polled, Lists
<1>4. m \in 0..MaxReading /\ 0 \in 0..MaxAge
  BY CollectAssumption DEF MaxAge
<1>5. /\ told' = [told EXCEPT ![s] = m] /\ age' = [age EXCEPT ![s] = 0]
      /\ pc' = [pc EXCEPT ![s] = "sleep"]
      /\ UNCHANGED <<answers, market, log, up, last, batch, kept, beat, faults, excused>>
  BY <1>3 DEF Record, Goes
<1>6. CollectTypeOK'
  BY <1>1, <1>4, <1>5 DEF CollectTypeOK
<1>7. told'[s] = m /\ pc'[s] = "sleep"
  BY <1>1, <1>5 DEF CollectTypeOK
<1>8. Source(up, log[s], market[s], last[s], m, "sleep", batch[s], kept[s], excused[s])
  <2>1. InOrder(log[s], market[s], last[s], told[s])
        /\ Excuses(up, log[s], last[s], "record", excused[s])
    BY <1>1 DEF SourceInv, Source
  <2>2. m <= m
    BY <1>4, CollectAssumption
  <2>3. InOrder(log[s], market[s], last[s], m)
    BY <2>1, <2>2, <1>3 DEF InOrder
  <2>4. Excuses(up, log[s], last[s], "sleep", excused[s])
    BY <2>1 DEF Excuses, Knows
  <2>. QED
    BY <2>3, <2>4 DEF Source
<1>9. SourceInv(s)'
  BY <1>5, <1>7, <1>8 DEF SourceInv
<1>10. CollectInv'
  BY <1>1, <1>5, <1>6, <1>9, OneSource DEF CollectTypeOK
<1>. QED
  BY <1>3, <1>5, <1>10

\* The heartbeat and whether a source answers are no part of the invariant.
LEMMA HeartbeatStep ==
  ASSUME CollectInv, NEW s \in Sources, Elapse(s) \/ Beat(s) \/ Turns(s)
  PROVE  CollectInv'
<1>1. CollectTypeOK
  BY DEF CollectInv
<1>2. UNCHANGED <<market, log, up, last, pc, batch, kept, faults, told, excused>>
  BY DEF Elapse, Beat, Turns
<1>3. /\ age' \in [Sources -> 0..MaxAge] /\ beat' \in [Sources -> 0..MaxAge]
      /\ answers' \in [Sources -> BOOLEAN]
  <2>1. CASE Elapse(s)
    <3>1. age[s] \in 0..MaxAge /\ age[s] < MaxAge
      BY <1>1, <2>1 DEF Elapse, CollectTypeOK
    <3>2. age[s] + 1 \in 0..MaxAge
      BY <3>1, CollectAssumption DEF MaxAge
    <3>. QED
      BY <1>1, <2>1, <3>2 DEF Elapse, CollectTypeOK
  <2>2. CASE Beat(s)
    BY <1>1, <2>2 DEF Beat, CollectTypeOK
  <2>3. CASE Turns(s)
    <3>1. (~answers[s]) \in BOOLEAN
      OBVIOUS
    <3>. QED
      BY <1>1, <2>3, <3>1 DEF Turns, CollectTypeOK
  <2>. QED
    BY <2>1, <2>2, <2>3
<1>4. CollectTypeOK'
  BY <1>1, <1>2, <1>3 DEF CollectTypeOK
<1>5. \A t \in Sources : SourceInv(t)'
  BY <1>2 DEF CollectInv, SourceInv
<1>. QED
  BY <1>4, <1>5 DEF CollectInv

LEMMA StopStep ==
  ASSUME CollectInv, StopCollect
  PROVE  CollectInv'
<1>1. CollectTypeOK
  BY DEF CollectInv
<1>2. UNCHANGED <<answers, market, log, last, pc, batch, kept, age, beat, told>> /\ up' = FALSE
  BY DEF StopCollect
<1>3. faults' \in 0..MaxFaults
  BY <1>1, CollectAssumption DEF StopCollect, CollectTypeOK
<1>4. excused' \in [Sources -> Nat] /\ \A t \in Sources : excused'[t] = excused[t] + 1
  BY <1>1 DEF StopCollect, CollectTypeOK
<1>5. CollectTypeOK'
  BY <1>1, <1>2, <1>3, <1>4 DEF CollectTypeOK
<1>6. ASSUME NEW t \in Sources PROVE SourceInv(t)'
  <2>1. SourceInv(t)
    BY DEF CollectInv
  <2>2. Excuses(FALSE, log[t], last[t], pc[t], excused[t] + 1)
    <3>. DEFINE C == Cardinality(Rows(log[t]))
                L == Len(log[t])
                e == excused[t]
    <3>1. C \in Nat /\ L \in Nat /\ e \in Nat
      BY <1>1, SourceTypes
    <3>2. L + 0 <= C + e \/ L + 1 <= C + e
      BY <2>1 DEF SourceInv, Source, Excuses
    <3>. HIDE DEF C, L, e
    <3>3. L + 0 <= C + (e + 1) /\ L + 1 <= C + (e + 1)
      BY <3>1, <3>2
    <3>. QED
      BY <3>3 DEF C, L, e, Excuses
  <2>3. Source(FALSE, log[t], market[t], last[t], told[t], pc[t], batch[t], kept[t], excused[t] + 1)
    BY <2>1, <2>2 DEF SourceInv, Source
  <2>. QED
    BY <1>2, <1>4, <2>3 DEF SourceInv
<1>. QED
  BY <1>5, <1>6 DEF CollectInv

LEMMA StartStep ==
  ASSUME CollectInv, StartCollect
  PROVE  CollectInv'
<1>1. CollectTypeOK /\ up = FALSE
  BY DEF CollectInv, StartCollect, CollectTypeOK
<1>2. /\ up' = TRUE /\ UNCHANGED <<answers, market, log, beat, faults, told, excused>>
      /\ last' = [t \in Sources |-> 0] /\ pc' = [t \in Sources |-> "poll"]
      /\ batch' = [t \in Sources |-> <<>>] /\ kept' = [t \in Sources |-> <<>>]
      /\ age' = [t \in Sources |-> 0]
  BY DEF StartCollect
<1>3. CollectTypeOK'
  <2>1. 0 \in 0..MaxReading /\ 0 \in 0..MaxAge
    BY CollectAssumption DEF MaxAge
  <2>2. <<>> \in Seq(1..MaxReading)
    OBVIOUS
  <2>3. /\ batch' \in [Sources -> Seq(1..MaxReading)] /\ kept' \in [Sources -> Seq(1..MaxReading)]
    BY <1>2, <2>2
  <2>4. last' \in [Sources -> 0..MaxReading] /\ age' \in [Sources -> 0..MaxAge]
    BY <1>2, <2>1
  <2>. QED
    BY <1>1, <1>2, <2>3, <2>4 DEF CollectTypeOK
<1>4. ASSUME NEW t \in Sources PROVE SourceInv(t)'
  <2>1. SourceInv(t)
    BY DEF CollectInv
  <2>2. last'[t] = 0 /\ pc'[t] = "poll"
    BY <1>2
  <2>3. InOrder(log[t], market[t], 0, told[t])
    <3>1. 0 <= Feed!Newest(log[t])
      BY <1>1, SourceTypes
    <3>. QED
      BY <2>1, <3>1 DEF SourceInv, Source, InOrder
  <2>4. Excuses(TRUE, log[t], 0, "poll", excused[t])
    <3>1. Knows(up, log[t], last[t], pc[t]) => Knows(TRUE, log[t], 0, "poll")
      BY <1>1 DEF Knows
    <3>2. Knows(TRUE, log[t], 0, "poll") => Feed!Newest(log[t]) = 0
      BY DEF Knows
    <3>3. Feed!Newest(log[t]) = 0 => Knows(up, log[t], last[t], pc[t])
      BY DEF Knows
    <3>4. Excuses(up, log[t], last[t], pc[t], excused[t])
      BY <2>1 DEF SourceInv, Source
    <3>. QED
      BY <3>1, <3>2, <3>3, <3>4 DEF Excuses
  <2>5. PICK b : b = batch'[t]
    OBVIOUS
  <2>6. PICK k : k = kept'[t]
    OBVIOUS
  <2>7. Source(TRUE, log[t], market[t], 0, told[t], "poll", b, k, excused[t])
    BY <2>3, <2>4 DEF Source
  <2>. QED
    BY <1>2, <2>2, <2>5, <2>6, <2>7 DEF SourceInv
<1>. QED
  BY <1>3, <1>4 DEF CollectInv

LEMMA CollectStep ==
  ASSUME CollectInv, CollectNext
  PROVE  CollectInv'
<1>1. CollectTypeOK
  BY DEF CollectInv
<1>2. ASSUME NEW s \in Sources, PollFails(s) \/ SinkFails(s) \/ SinkHangs(s) \/ HangEnds(s)
      PROVE  CollectInv'
  <2>1. /\ pc[s] # "remember"
        /\ UNCHANGED <<answers, market, log, up, last, batch, kept, age, beat, faults, told, excused>>
    BY <1>2 DEF PollFails, SinkFails, SinkHangs, HangEnds, At
  <2>2. PICK q \in {"sleep", "hung"} : pc' = [pc EXCEPT ![s] = q]
    BY <1>2 DEF PollFails, SinkFails, SinkHangs, HangEnds, Goes
  <2>3. CollectTypeOK'
    BY <1>1, <2>1, <2>2 DEF CollectTypeOK
  <2>. QED
    BY <2>1, <2>2, <2>3, RestStep
<1>3. ASSUME NEW s \in Sources, WakeSource(s) PROVE CollectInv'
  <2>1. /\ pc' = [pc EXCEPT ![s] = "poll"] /\ pc[s] # "remember"
        /\ batch' = [batch EXCEPT ![s] = <<>>] /\ kept' = [kept EXCEPT ![s] = <<>>]
        /\ UNCHANGED <<answers, market, log, up, last, age, beat, faults, told, excused>>
    BY <1>3 DEF WakeSource, Goes, At
  <2>2. <<>> \in Seq(1..MaxReading)
    OBVIOUS
  <2>3. batch' \in [Sources -> Seq(1..MaxReading)] /\ kept' \in [Sources -> Seq(1..MaxReading)]
    BY <1>1, <2>1, <2>2 DEF CollectTypeOK
  <2>4. CollectTypeOK'
    BY <1>1, <2>1, <2>3 DEF CollectTypeOK
  <2>5. \A t \in Sources \ {s} : batch'[t] = batch[t] /\ kept'[t] = kept[t]
    BY <1>1, <2>1 DEF CollectTypeOK
  <2>. QED
    BY <2>1, <2>4, <2>5, RestStep
<1>. QED
  BY <1>2, <1>3, MovesStep, PollStep, FilterStep, SinkStep, SinkUnsureStep, RememberStep, RecordStep,
     HeartbeatStep, StopStep, StartStep DEF CollectNext

-----------------------------------------------------------------------------
(* The theorems. *)

LEMMA CollectInvariant == CollectSpec => []CollectInv
<1>1. CollectInv /\ UNCHANGED cvars => CollectInv'
  BY DEF cvars, CollectInv, SourceInv, CollectTypeOK
<1>. QED
  BY CollectInitInv, CollectStep, <1>1, PTL DEF CollectSpec

(* The scheduler, its memory and the heartbeat keep their types, for any     *)
(* sources, readings and number of failures.                                 *)
THEOREM CollectTypes == CollectSpec => []CollectTypeOK
<1>1. CollectInv => CollectTypeOK
  BY DEF CollectInv
<1>. QED
  BY CollectInvariant, <1>1, PTL

(* No fact is stored twice but for what emit cannot know: restarts, lost     *)
(* answers and pages that list it twice, for any sources and failures.       *)
THEOREM RepeatsAreExcused == CollectSpec => []RepeatsExcused
<1>1. CollectInv => RepeatsExcused
  <2>. SUFFICES ASSUME CollectInv, NEW s \in Sources
       PROVE  Len(log[s]) <= Cardinality({log[s][i] : i \in DOMAIN log[s]}) + excused[s]
    BY DEF RepeatsExcused
  <2>. DEFINE C == Cardinality(Rows(log[s]))
              L == Len(log[s])
              e == excused[s]
  <2>1. C \in Nat /\ L \in Nat /\ e \in Nat
    BY SourceTypes DEF CollectInv
  <2>2. L + 0 <= C + e \/ L + 1 <= C + e
    BY DEF CollectInv, SourceInv, Source, Excuses
  <2>3. L <= C + e
    <3>. HIDE DEF C, L, e
    <3>. QED
      BY <2>1, <2>2
  <2>. QED
    BY <2>3 DEF Rows
<1>. QED
  BY CollectInvariant, <1>1, PTL

\* A list of a reading as the feed writes it.
LEMMA ListsAsFeed ==
  ASSUME NEW m, NEW k, Lists(k, m)
  PROVE  \E n \in 1..2 : k = [i \in 1..n |-> m]
<1>1. CASE k = <<m>>
  <2>1. k = [i \in 1..1 |-> m]
    BY <1>1
  <2>. QED
    BY <2>1
<1>2. CASE k = <<m, m>>
  <2>1. k = [i \in 1..2 |-> m]
    BY <1>2
  <2>. QED
    BY <2>1
<1>. QED
  BY <1>1, <1>2 DEF Lists

(* Collection implements the feed for any sources, readings and failures:    *)
(* what emit and its sink do to the rows of a source is to store a reading   *)
(* no older than the newest, and what Record announces is stored.            *)
THEOREM CollectFeeds == CollectSpec => ImplementsFeed
<1>1. CollectInit => Feed!FeedInit
  BY DEF CollectInit, Feed!FeedInit
<1>2. CollectInv /\ [CollectNext]_cvars => [Feed!FeedNext]_Feed!fvars
  <2>. SUFFICES ASSUME CollectInv, CollectNext, ~ UNCHANGED <<log, told>> PROVE Feed!FeedNext
    BY DEF cvars, Feed!fvars
  <2>1. CollectTypeOK
    BY DEF CollectInv
  <2>2. PICK s \in Sources : Sink(s) \/ SinkUnsure(s) \/ Record(s)
    BY DEF CollectNext, StartCollect, StopCollect, Moves, Turns, SinkHangs, HangEnds, Poll, PollFails, Filter, SinkFails, Remember,
           WakeSource, Elapse, Beat
  <2>3. CASE Sink(s) \/ SinkUnsure(s)
    <3>1. pc[s] = "sink" /\ log' = [log EXCEPT ![s] = @ \o kept[s]] /\ told' = told
      BY <2>3 DEF Sink, SinkUnsure, At
    <3>2. PICK m \in 1..MaxReading : Polled(log[s], market[s], last[s], "sink", batch[s], kept[s], m)
      BY <3>1 DEF CollectInv, SourceInv, Source
    <3>3. Lists(kept[s], m) /\ Feed!Newest(log[s]) <= m
      BY <3>2 DEF Polled
    <3>4. PICK n \in 1..2 : kept[s] = [i \in 1..n |-> m]
      BY <3>3, ListsAsFeed
    <3>5. Feed!Newest(log[s]) \in 0..MaxReading
      BY <2>1, SourceTypes
    <3>6. m \in Feed!Newest(log[s])..MaxReading /\ m > 0
      BY <3>3, <3>5, CollectAssumption
    <3>7. log' = [log EXCEPT ![s] = @ \o [i \in 1..n |-> m]]
      BY <3>1, <3>4
    <3>8. Feed!Store(s)
      BY <3>1, <3>6, <3>7 DEF Feed!Store
    <3>. QED
      BY <3>8 DEF Feed!FeedNext
  <2>4. CASE Record(s)
    <3>1. told' = [told EXCEPT ![s] = Feed!Newest(log[s])] /\ log' = log
      BY <2>4, RecordStep DEF Record
    <3>2. told[s] <= Feed!Newest(log[s])
      BY DEF CollectInv, SourceInv, Source, InOrder
    <3>3. told[s] \in Int /\ Feed!Newest(log[s]) \in Int
      BY <2>1, SourceTypes, CollectAssumption
    <3>4. Feed!Newest(log[s]) \in told[s]..Feed!Newest(log[s])
      BY <3>2, <3>3
    <3>5. Feed!Announce(s)
      BY <3>1, <3>4 DEF Feed!Announce
    <3>. QED
      BY <3>5 DEF Feed!FeedNext
  <2>. QED
    BY <2>2, <2>3, <2>4
<1>. QED
  BY CollectInvariant, <1>1, <1>2, PTL DEF CollectSpec, ImplementsFeed, Feed!FeedSpec

-----------------------------------------------------------------------------
(* Alert delivery. *)

\* The invariant: the property itself, with the types.
DInv == DeliveryTypeOK /\ MailsAccounted

\* A nonempty set of naturals has a least element.
LEMMA LeastAlert ==
  ASSUME NEW T \in SUBSET Nat, T # {}
  PROVE  \E m \in T : \A n \in T : m <= n
<1> DEFINE R == {ss \in Nat \X Nat : ss[1] < ss[2]}
<1>1. IsWellFoundedOn(R, Nat)
  BY NatLessThanWellFounded, Zenon DEF OpToRel
<1>2. PICK m \in T : \A n \in T : ~(<<n, m>> \in R)
  <2> HIDE DEF R
  <2> QED
    BY <1>1, WFMin, Zenon
<1>3. \A n \in T : n < m => <<n, m>> \in R
  BY Zenon
<1>4. \A n \in T : ~(n < m)
  BY <1>2, <1>3
<1> QED
  BY <1>4

\* A round that is not over stands at one of its alerts.
LEMMA ForemostInRound ==
  ASSUME DeliveryTypeOK, round # {}
  PROVE  Foremost \in round
<1>1. round \in SUBSET Nat
  BY DeliveryAssumption DEF DeliveryTypeOK, Alerts
<1>2. \E m \in round : \A n \in round : m <= n
  BY <1>1, LeastAlert
<1> QED
  BY <1>2 DEF Foremost

\* In a round: its first alert is pending, and when it is being marked no other is.
LEMMA AtForemost ==
  ASSUME DInv, mailer \in {"send", "mark"}
  PROVE  Foremost \in round /\ Foremost \in Alerts /\ alert[Foremost] = "pending"
<1>1. round # {} /\ round \subseteq Pending
  BY DEF DInv, MailsAccounted, RoundIsFresh
<1> QED
  BY <1>1, ForemostInRound DEF DInv, Pending

LEMMA DeliveryInitInv == DeliveryInit => DInv
<1> SUFFICES ASSUME DeliveryInit PROVE DInv
  OBVIOUS
<1>1. DeliveryTypeOK
  BY DEF DeliveryInit, DeliveryTypeOK
<1>2. RoundIsFresh
  BY DEF DeliveryInit, RoundIsFresh
<1>3. MailsCounted
  BY DEF DeliveryInit, MailsCounted, Marking
<1> QED
  BY <1>1, <1>2, <1>3 DEF DInv, MailsAccounted

\* A step that skips the first alert of a round leaves the rest of it fresh.
LEMMA Skipped ==
  ASSUME DInv, mailer \in {"send", "mark"}, NEW fails \in BOOLEAN, Skip(fails),
         \A a \in Alerts : a # Foremost => alert'[a] = alert[a]
  PROVE  /\ round' \subseteq Alerts /\ failed' \in BOOLEAN /\ mailer' \in {"send", "sleep", "list"}
         /\ RoundIsFresh'
<1>1. round' = round \ {Foremost} /\ round \subseteq Pending /\ failed \in BOOLEAN /\ round \subseteq Alerts
  BY DEF DInv, DeliveryTypeOK, MailsAccounted, RoundIsFresh, Skip
<1>2. failed' \in BOOLEAN
  BY <1>1 DEF Skip
<1>3. mailer' = IF round' # {} THEN "send" ELSE IF failed' THEN "sleep" ELSE "list"
  BY DEF Skip
<1>4. round' \subseteq Pending'
  BY <1>1 DEF Pending
<1> QED
  BY <1>1, <1>2, <1>3, <1>4 DEF RoundIsFresh

LEMMA DeliveryStepInv == DInv /\ [DeliveryNext]_dvars => DInv'
<1> SUFFICES ASSUME DInv, [DeliveryNext]_dvars PROVE DInv'
  OBVIOUS
<1>0. /\ alert \in [Alerts -> {"none", "pending", "delivered"}]
      /\ mails \in [Alerts -> Nat] /\ unrecorded \in [Alerts -> Nat]
      /\ smtp \in BOOLEAN /\ failed \in BOOLEAN
      /\ mailer \in {"off", "disabled", "list", "send", "mark", "sleep"}
      /\ round \subseteq Alerts /\ round \subseteq Pending
      /\ (mailer \in {"send", "mark"} <=> round # {})
      /\ \A a \in Alerts : /\ alert[a] = "none" => mails[a] = 0
                           /\ mails[a] = unrecorded[a] + (IF alert[a] = "delivered" \/ Marking(a) THEN 1 ELSE 0)
  BY DEF DInv, DeliveryTypeOK, MailsAccounted, RoundIsFresh, MailsCounted
<1>1. ASSUME NEW a \in Alerts, Raise(a) PROVE DInv'
  <2>1. alert[a] = "none" /\ alert' = [alert EXCEPT ![a] = "pending"]
        /\ UNCHANGED <<mails, unrecorded, smtp, mailer, round, failed>>
    BY <1>1 DEF Raise
  <2>2. DeliveryTypeOK'
    BY <1>0, <2>1 DEF DeliveryTypeOK
  <2>3. RoundIsFresh'
    BY <1>0, <2>1 DEF RoundIsFresh, Pending
  <2>4. Foremost' = Foremost
    BY <2>1 DEF Foremost
  <2>5. MailsCounted'
    BY <1>0, <2>1, <2>4 DEF MailsCounted, Marking
  <2> QED
    BY <2>2, <2>3, <2>5 DEF DInv, MailsAccounted
<1>2. CASE ServerFlips \/ StartAlerter \/ ListFails \/ WakeAlerter \/ UNCHANGED dvars
  <2>1. /\ UNCHANGED <<alert, mails, unrecorded, round>> /\ smtp' \in BOOLEAN /\ failed' \in BOOLEAN
        /\ mailer' \in {"off", "disabled", "list", "send", "mark", "sleep"}
        /\ (mailer' \in {"send", "mark"} <=> mailer \in {"send", "mark"}) /\ (mailer' = "mark" <=> mailer = "mark")
    BY <1>0, <1>2 DEF ServerFlips, StartAlerter, ListFails, WakeAlerter, dvars
  <2>2. Foremost' = Foremost
    BY <2>1 DEF Foremost
  <2> QED
    BY <1>0, <2>1, <2>2
    DEF DInv, DeliveryTypeOK, MailsAccounted, RoundIsFresh, MailsCounted, Marking, Pending
<1>3. CASE StopAlerter
  <2>1. /\ mailer' = "off" /\ round' = {} /\ failed' = FALSE /\ UNCHANGED <<alert, mails, smtp>>
        /\ unrecorded' = IF mailer = "mark" THEN [unrecorded EXCEPT ![Foremost] = @ + 1] ELSE unrecorded
    BY <1>3 DEF StopAlerter
  <2>2. unrecorded' \in [Alerts -> Nat]
    <3>1. CASE mailer = "mark"
      <4>1. Foremost \in Alerts /\ unrecorded' = [unrecorded EXCEPT ![Foremost] = @ + 1]
        BY <2>1, <3>1, AtForemost
      <4> QED
        BY <1>0, <4>1
    <3> QED
      BY <1>0, <2>1, <3>1
  <2>3. DeliveryTypeOK' /\ RoundIsFresh'
    BY <1>0, <2>1, <2>2 DEF DeliveryTypeOK, RoundIsFresh
  <2>4. MailsCounted'
    <3>1. CASE mailer = "mark"
      BY <1>0, <2>1, <3>1, AtForemost DEF MailsCounted, Marking
    <3>2. CASE mailer # "mark"
      BY <1>0, <2>1, <3>2 DEF MailsCounted, Marking
    <3> QED
      BY <3>1, <3>2
  <2> QED
    BY <2>3, <2>4 DEF DInv, MailsAccounted
<1>4. CASE List
  <2>1. /\ mailer = "list" /\ round' = Listed /\ failed' = FALSE
        /\ mailer' = (IF Listed = {} THEN "sleep" ELSE "send")
        /\ UNCHANGED <<alert, mails, unrecorded, smtp>>
    BY <1>4 DEF List
  <2>2. Listed \subseteq Pending /\ Pending \subseteq Alerts /\ Pending' = Pending
    BY <2>1 DEF Listed, Pending
  <2> HIDE DEF Listed
  <2>3. DeliveryTypeOK' /\ RoundIsFresh'
    BY <1>0, <2>1, <2>2 DEF DeliveryTypeOK, RoundIsFresh
  <2>4. MailsCounted'
    BY <1>0, <2>1 DEF MailsCounted, Marking
  <2> QED
    BY <2>3, <2>4 DEF DInv, MailsAccounted
<1>5. CASE Send
  <2>1. /\ mailer = "send" /\ mails' = [mails EXCEPT ![Foremost] = @ + 1] /\ mailer' = "mark"
        /\ UNCHANGED <<alert, unrecorded, smtp, round, failed>>
    BY <1>5 DEF Send
  <2>2. Foremost' = Foremost
    BY <2>1 DEF Foremost
  <2>3. Foremost \in Alerts /\ alert[Foremost] = "pending"
    BY <2>1, AtForemost
  <2>4. DeliveryTypeOK' /\ RoundIsFresh'
    BY <1>0, <2>1, <2>3 DEF DeliveryTypeOK, RoundIsFresh, Pending
  <2>5. MailsCounted'
    BY <1>0, <2>1, <2>2, <2>3 DEF MailsCounted, Marking
  <2> QED
    BY <2>4, <2>5 DEF DInv, MailsAccounted
<1>6. CASE SendFails \/ SendUnsure \/ Mark \/ MarkFails
  <2>1. mailer \in {"send", "mark"}
    BY <1>6 DEF SendFails, SendUnsure, Mark, MarkFails
  <2>2. Foremost \in Alerts /\ alert[Foremost] = "pending"
    BY <2>1, AtForemost
  <2>3. PICK fails \in BOOLEAN : Skip(fails)
    BY <1>6 DEF SendFails, SendUnsure, Mark, MarkFails
  <2>4. \A a \in Alerts : a # Foremost => alert'[a] = alert[a]
    BY <1>0, <1>6 DEF SendFails, SendUnsure, Mark, MarkFails
  <2>5. /\ round' \subseteq Alerts /\ failed' \in BOOLEAN /\ mailer' \in {"send", "sleep", "list"}
        /\ RoundIsFresh'
    BY <2>1, <2>3, <2>4, Skipped
  <2>6. /\ alert' \in [Alerts -> {"none", "pending", "delivered"}] /\ smtp' \in BOOLEAN
        /\ mails' \in [Alerts -> Nat] /\ unrecorded' \in [Alerts -> Nat]
    <3>1. CASE SendFails
      BY <1>0, <3>1 DEF SendFails
    <3>2. CASE SendUnsure
      BY <1>0, <2>2, <3>2 DEF SendUnsure
    <3>3. CASE Mark
      BY <1>0, <2>2, <3>3 DEF Mark
    <3>4. CASE MarkFails
      BY <1>0, <2>2, <3>4 DEF MarkFails
    <3> QED
      BY <1>6, <3>1, <3>2, <3>3, <3>4
  <2>7. MailsCounted'
    <3>1. CASE SendFails
      BY <1>0, <2>5, <3>1 DEF SendFails, MailsCounted, Marking
    <3>2. CASE SendUnsure
      BY <1>0, <2>2, <2>5, <3>2 DEF SendUnsure, MailsCounted, Marking
    <3>3. CASE Mark
      BY <1>0, <2>2, <2>5, <3>3 DEF Mark, MailsCounted, Marking
    <3>4. CASE MarkFails
      BY <1>0, <2>2, <2>5, <3>4 DEF MarkFails, MailsCounted, Marking
    <3> QED
      BY <1>6, <3>1, <3>2, <3>3, <3>4
  <2> QED
    BY <2>5, <2>6, <2>7 DEF DInv, DeliveryTypeOK, MailsAccounted
<1> QED
  BY <1>1, <1>2, <1>3, <1>4, <1>5, <1>6 DEF DeliveryNext

(* The types of the alerter. *)
THEOREM DeliveryTypes == DeliverySpec => []DeliveryTypeOK
<1>1. DInv => DeliveryTypeOK
  BY DEF DInv
<1> QED
  BY DeliveryInitInv, DeliveryStepInv, <1>1, PTL DEF DeliverySpec

(* An alert on record as delivered was mailed, a round holds nothing that is *)
(* delivered already, and beyond one mail each further one of an alert goes  *)
(* back to a lost answer, a failed mark or a restart between mail and mark.  *)
THEOREM EveryMailAccounted == DeliverySpec => []MailsAccounted
<1>1. DInv => MailsAccounted
  BY DEF DInv
<1> QED
  BY DeliveryInitInv, DeliveryStepInv, <1>1, PTL DEF DeliverySpec

-----------------------------------------------------------------------------
(* History backfill. *)

\* The invariant: what has been polled, queried and inserted, with the types.
BInv == BackfillTypeOK /\ HistoryOnce

LEMMA VenueTypes ==
  /\ Venues \subseteq Nat /\ Settlements \subseteq Nat /\ \A n \in Settlements : 1 <= n
  /\ 1 \in Venues /\ From \in Nat /\ 1 <= From /\ PageSize \in Nat /\ 1 <= PageSize
  /\ NumVenues \in Nat /\ MaxSettlements \in Nat /\ MaxCuts \in Nat /\ MaxLive \in Nat
BY BackfillAssumption DEF Venues, Settlements

\* What is known of a venue when the next one begins, or the process ends.
LEMMA Forgotten ==
  ASSUME BInv, Forget, runner' \in {"off", "poll", "done"}
  PROVE  /\ PolledSoFar' /\ FreshInsert'
         /\ upto' \in 0..MaxSettlements /\ cursor' \in Nat /\ polled' \in [Settlements -> Nat]
         /\ found' \subseteq Settlements
BY VenueTypes DEF Forget, PolledSoFar, FreshInsert, Unpolled

LEMMA NextVenueTypes ==
  ASSUME BInv, NextVenue
  PROVE  Forget /\ runner' \in {"off", "poll", "done"} /\ venue' \in Venues
BY VenueTypes DEF BInv, BackfillTypeOK, NextVenue, Venues

LEMMA BackfillInitInv == BackfillInit => BInv
<1> SUFFICES ASSUME BackfillInit PROVE BInv
  OBVIOUS
<1>1. BackfillTypeOK
  BY VenueTypes DEF BackfillInit, BackfillTypeOK, Unpolled
<1>2. HistoryOnce
  BY VenueTypes DEF BackfillInit, HistoryOnce, PolledSoFar, FreshInsert, CopiesCounted
<1> QED
  BY <1>1, <1>2 DEF BInv

\* A page adds the settlements between the cursor and where the next one begins.
LEMMA PageTaken ==
  ASSUME BInv, runner = "page", TakePage
  PROVE  /\ polled' \in [Settlements -> Nat]
         /\ Full /\ (venue \in NewestFirst => From <= NextCursor) =>
              /\ NextCursor \in Nat
              /\ venue \in NewestFirst =>
                   NextCursor <= upto + 1 /\ polled' = Each(Later(From, NextCursor), upto)
              /\ venue \notin NewestFirst =>
                   /\ From <= NextCursor
                   /\ polled' = [n \in Settlements |-> IF From <= n /\ n < NextCursor /\ n <= upto THEN 1 ELSE 0]
         /\ ~Full \/ (IF venue \in NewestFirst THEN NextCursor < From ELSE NextCursor = upto + 1) =>
              polled' = Each(From, upto)
<1> USE VenueTypes
<1>1. cursor \in Nat /\ upto \in Nat /\ polled \in [Settlements -> Nat] /\ venue \in Venues
  BY DEF BInv, BackfillTypeOK
<1>2. polled' = [n \in Settlements |-> IF n \in Page /\ From <= n THEN polled[n] + 1 ELSE polled[n]]
  BY DEF TakePage
<1>3. polled' \in [Settlements -> Nat]
  BY <1>1, <1>2
<1>4. CASE venue \in NewestFirst
  <2>1. /\ cursor <= upto + 1
        /\ \A n \in Settlements : polled[n] = IF Later(From, cursor) <= n /\ n <= upto THEN 1 ELSE 0
    BY <1>4 DEF BInv, HistoryOnce, PolledSoFar, Each
  <2>2. \A n \in Settlements : n \in Page <=> (n < cursor /\ cursor <= n + PageSize)
    BY <1>4 DEF Page
  <2>3. ASSUME NEW n \in Settlements
        PROVE  polled'[n] = IF From <= n /\ cursor <= n + PageSize /\ n <= upto THEN 1 ELSE 0
    BY <1>1, <1>2, <2>1, <2>2 DEF Later
  <2>4. ASSUME Full, From <= NextCursor
        PROVE  /\ NextCursor \in Nat /\ NextCursor <= upto + 1
               /\ polled' = Each(Later(From, NextCursor), upto)
    <3>1. NextCursor = cursor - PageSize /\ PageSize < cursor
      BY <1>4, <2>4 DEF NextCursor, Full
    <3>2. NextCursor \in Nat /\ NextCursor <= upto + 1
      BY <3>1, <1>1, <2>1
    <3>3. Later(From, NextCursor) = NextCursor
      BY <3>2, <2>4 DEF Later
    <3>4. \A n \in Settlements : polled'[n] = Each(NextCursor, upto)[n]
      BY <2>3, <2>4, <3>1, <3>2, <1>1 DEF Each
    <3>5. polled' = Each(NextCursor, upto)
      BY <3>4, <1>3 DEF Each
    <3> QED
      BY <3>2, <3>3, <3>5
  <2>5. ASSUME ~Full \/ NextCursor < From
        PROVE  polled' = Each(From, upto)
    <3>1. cursor <= PageSize \/ cursor - PageSize < From
      BY <1>4, <2>5, <1>1 DEF NextCursor, Full
    <3>2. \A n \in Settlements : polled'[n] = Each(From, upto)[n]
      BY <2>3, <3>1, <1>1 DEF Each
    <3> QED
      BY <3>2, <1>3 DEF Each
  <2> QED
    BY <1>4, <1>3, <2>4, <2>5
<1>5. CASE venue \notin NewestFirst
  <2>1. /\ From <= cursor
        /\ \A n \in Settlements : polled[n] = IF From <= n /\ n < cursor /\ n <= upto THEN 1 ELSE 0
    BY <1>5 DEF BInv, HistoryOnce, PolledSoFar
  <2>2. \A n \in Settlements : n \in Page <=> (cursor <= n /\ n < cursor + PageSize /\ n <= upto)
    BY <1>5 DEF Page
  <2>3. ASSUME NEW n \in Settlements
        PROVE  polled'[n] = IF From <= n /\ n < cursor + PageSize /\ n <= upto THEN 1 ELSE 0
    BY <1>1, <1>2, <2>1, <2>2
  <2>4. NextCursor = cursor + PageSize /\ NextCursor \in Nat /\ From <= NextCursor
    BY <1>5, <1>1, <2>1 DEF NextCursor
  <2>5. polled' = [n \in Settlements |-> IF From <= n /\ n < NextCursor /\ n <= upto THEN 1 ELSE 0]
    BY <1>2, <2>3, <2>4
  <2>6. ASSUME ~Full \/ NextCursor = upto + 1
        PROVE  polled' = Each(From, upto)
    <3>1. upto < cursor + PageSize
      BY <1>5, <2>6, <2>4, <1>1 DEF Full
    <3>2. \A n \in Settlements : polled'[n] = Each(From, upto)[n]
      BY <2>3, <3>1, <1>1 DEF Each
    <3> QED
      BY <3>2, <1>3 DEF Each
  <2> QED
    BY <1>5, <1>3, <2>4, <2>5, <2>6
<1> QED
  BY <1>4, <1>5

\* What is inserted is new, but for queries that were cut off.
LEMMA Inserted ==
  ASSUME BInv, runner = "insert", StoreHistory, cut' = cut
  PROVE  copies' \in [Venues -> [Settlements -> Nat]] /\ CopiesCounted'
<1> USE VenueTypes
<1>1. /\ copies \in [Venues -> [Settlements -> Nat]] /\ venue \in Venues
      /\ cut \in [Venues -> 0..MaxCuts] /\ found \subseteq Settlements /\ polled \in [Settlements -> Nat]
  BY DEF BInv, BackfillTypeOK
<1>2. \A n \in Settlements : polled[n] \in {0, 1}
  BY DEF BInv, HistoryOnce, PolledSoFar, Each
<1>3. \A n \in Settlements \ found : polled[n] > 0 => copies[venue][n] <= cut[venue]
  BY DEF BInv, HistoryOnce, FreshInsert
<1>4. \A v \in Venues : \A n \in Settlements : copies[v][n] <= 1 + cut[v]
  BY DEF BInv, HistoryOnce, CopiesCounted
<1> DEFINE new == UncoveredFacts(found, {n \in Settlements : polled[n] > 0})
           row == [n \in Settlements |-> IF n \in new THEN copies[venue][n] + polled[n] ELSE copies[venue][n]]
<1>5. \A n \in Settlements : n \in new => n \notin found /\ polled[n] > 0
  BY DEF UncoveredFacts
<1>6. copies' = [copies EXCEPT ![venue] = row]
  BY DEF StoreHistory
<1>7. row \in [Settlements -> Nat] /\ \A n \in Settlements : row[n] <= 1 + cut[venue]
  <2> HIDE DEF new
  <2>1. \A n \in Settlements : copies[venue][n] \in Nat /\ copies[venue][n] <= 1 + cut[venue]
    BY <1>1, <1>4
  <2>2. \A n \in Settlements : n \in new => copies[venue][n] + polled[n] <= 1 + cut[venue]
    BY <1>1, <1>2, <1>3, <1>5, <2>1
  <2> QED
    BY <1>1, <2>1, <2>2
<1> HIDE DEF row
<1>8. copies' \in [Venues -> [Settlements -> Nat]]
  BY <1>1, <1>6, <1>7
<1>9. ASSUME NEW v \in Venues, NEW n \in Settlements
      PROVE  copies'[v][n] <= 1 + cut[v]
  BY <1>1, <1>4, <1>6, <1>7
<1> QED
  BY <1>8, <1>9 DEF CopiesCounted

LEMMA BackfillStepInv == BInv /\ [BackfillNext]_bvars => BInv'
<1> SUFFICES ASSUME BInv, [BackfillNext]_bvars PROVE BInv'
  OBVIOUS
<1> USE VenueTypes
<1>0. BackfillTypeOK /\ PolledSoFar /\ FreshInsert /\ CopiesCounted
  BY DEF BInv, HistoryOnce
<1>1. CASE Settle
  <2>1. settled' \in 0..MaxSettlements
    BY <1>0, <1>1 DEF Settle, BackfillTypeOK
  <2>2. UNCHANGED <<copies, live, runner, venue, pollvars, found, cut>>
    BY <1>1 DEF Settle
  <2> QED
    BY <1>0, <2>1, <2>2 DEF pollvars, PolledSoFar, FreshInsert, CopiesCounted, BInv, HistoryOnce, BackfillTypeOK
<1>2. ASSUME NEW v \in Venues, StoreLive(v) PROVE BInv'
  BY <1>0, <1>2 DEF StoreLive, pollvars, PolledSoFar, FreshInsert, CopiesCounted, BInv, HistoryOnce, BackfillTypeOK
<1>3. CASE Boot
  BY <1>0, <1>3 DEF Boot, pollvars, PolledSoFar, FreshInsert, CopiesCounted, BInv, HistoryOnce, BackfillTypeOK
<1>4. CASE Shutdown
  BY <1>0, <1>4, Forgotten DEF Shutdown, pollvars, CopiesCounted, BInv, HistoryOnce, BackfillTypeOK
<1>5. CASE StartPoll
  <2>1. /\ runner = "poll" /\ runner' = "page" /\ upto' = settled /\ settled \in 0..MaxSettlements
        /\ cursor' = (IF venue \in NewestFirst THEN settled + 1 ELSE From)
        /\ UNCHANGED <<settled, copies, live, venue, polled, found, cut>>
    BY <1>0, <1>5 DEF StartPoll, BackfillTypeOK
  <2>2. polled = Unpolled
    BY <1>0, <2>1 DEF PolledSoFar
  <2>3. venue \in NewestFirst => cursor' <= upto' + 1 /\ polled' = Each(Later(From, cursor'), upto')
    BY <2>1, <2>2 DEF Unpolled, Each, Later
  <2>4. venue \notin NewestFirst =>
          /\ From <= cursor'
          /\ polled' = [n \in Settlements |-> IF From <= n /\ n < cursor' /\ n <= upto' THEN 1 ELSE 0]
    BY <2>1, <2>2 DEF Unpolled
  <2>5. PolledSoFar'
    BY <2>1, <2>3, <2>4 DEF PolledSoFar
  <2> QED
    BY <1>0, <2>1, <2>5 DEF FreshInsert, CopiesCounted, BInv, HistoryOnce, BackfillTypeOK
<1>6. CASE GetPage
  BY <1>0, <1>6, PageTaken DEF GetPage, pollvars, PolledSoFar, FreshInsert, CopiesCounted, BInv, HistoryOnce, BackfillTypeOK
<1>7. CASE GetLastPage
  BY <1>0, <1>7, PageTaken, Forgotten, NextVenueTypes
  DEF GetLastPage, pollvars, PolledSoFar, FreshInsert, CopiesCounted, BInv, HistoryOnce, BackfillTypeOK
<1>8. CASE QueryExisting
  <2>1. /\ runner = "query" /\ runner' = "insert"
        /\ UNCHANGED <<settled, copies, live, venue, upto, cursor, polled>>
    BY <1>8 DEF QueryExisting, pollvars
  <2>2. PolledSoFar'
    BY <1>0, <2>1 DEF PolledSoFar
  <2>3. \/ cut[venue] = 0 /\ found' = Stored(venue) /\ cut' = cut
        \/ cut[venue] < MaxCuts /\ found' \subseteq Settlements /\ cut' = [cut EXCEPT ![venue] = @ + 1]
    BY <1>8 DEF QueryExisting, Fits, Stored
  <2>4. /\ venue \in Venues /\ cut \in [Venues -> 0..MaxCuts] /\ copies \in [Venues -> [Settlements -> Nat]]
    BY <1>0 DEF BackfillTypeOK
  <2>5. cut' \in [Venues -> 0..MaxCuts] /\ found' \subseteq Settlements
    BY <2>3, <2>4 DEF Stored
  <2>6. CopiesCounted'
    BY <1>0, <2>1, <2>3, <2>4 DEF CopiesCounted
  <2>7. FreshInsert'
    <3>1. CASE cut[venue] = 0 /\ found' = Stored(venue) /\ cut' = cut
      BY <2>1, <2>4, <3>1 DEF FreshInsert, Stored
    <3>2. CASE cut[venue] < MaxCuts /\ cut' = [cut EXCEPT ![venue] = @ + 1]
      <4>1. cut'[venue] = cut[venue] + 1
        BY <2>4, <3>2
      <4> QED
        BY <1>0, <2>1, <2>4, <4>1 DEF FreshInsert, CopiesCounted
    <3> QED
      BY <2>3, <3>1, <3>2
  <2> QED
    BY <1>0, <2>1, <2>2, <2>5, <2>6, <2>7 DEF BInv, HistoryOnce, BackfillTypeOK
<1>9. CASE InsertHistory
  BY <1>0, <1>9, Inserted, Forgotten, NextVenueTypes DEF InsertHistory, CopiesCounted, BInv, HistoryOnce, BackfillTypeOK
<1>10. CASE InsertUnsure
  BY <1>0, <1>10, Inserted, Forgotten DEF InsertUnsure, CopiesCounted, BInv, HistoryOnce, BackfillTypeOK
<1>11. CASE BackfillFails
  BY <1>0, <1>11, Forgotten DEF BackfillFails, CopiesCounted, BInv, HistoryOnce, BackfillTypeOK
<1>12. CASE UNCHANGED bvars
  BY <1>0, <1>12 DEF bvars, pollvars, PolledSoFar, FreshInsert, CopiesCounted, BInv, HistoryOnce, BackfillTypeOK
<1> QED
  BY <1>1, <1>2, <1>3, <1>4, <1>5, <1>6, <1>7, <1>8, <1>9, <1>10, <1>11, <1>12 DEF BackfillNext

(* The types of the backfill. *)
THEOREM BackfillTypes == BackfillSpec => []BackfillTypeOK
<1>1. BInv => BackfillTypeOK
  BY DEF BInv
<1> QED
  BY BackfillInitInv, BackfillStepInv, <1>1, PTL DEF BackfillSpec

(* Whatever boots fail or die on the way, a settlement is stored once, and   *)
(* at most once more for each query that its limit cut off; and every boot   *)
(* that gets that far has polled each settlement of its window exactly once. *)
THEOREM BackfilledOnce == BackfillSpec => []HistoryOnce
<1>1. BInv => HistoryOnce
  BY DEF BInv
<1> QED
  BY BackfillInitInv, BackfillStepInv, <1>1, PTL DEF BackfillSpec

-----------------------------------------------------------------------------
(* Exporter. *)

\* A section of undamaged snapshots: newest first, the first alone current, and none with
\* lines of others caught behind it.
Ordered(snaps) ==
  /\ Len(snaps) <= MaxSnapshots
  /\ \A i \in DOMAIN snaps :
       /\ snaps[i].current <=> i = 1
       /\ snaps[i].lines = {}
       /\ i > 1 => snaps[i].v <= snaps[i - 1].v

\* No snapshot is newer than version v of the facts.
NotAfter(snaps, v) == \A i \in DOMAIN snaps : snaps[i].v <= v

\* Beside the property: the export under way has read facts as new as any snapshot, and all
\* of the file but what was written since.
XInv ==
  /\ ExporterTypeOK
  /\ seen <= facts /\ NotAfter(file.snaps, facts)
  /\ at \in {"file", "write"} => NotAfter(file.snaps, seen)
  /\ at = "write" => base.snaps = file.snaps
  /\ ~damaged => ~file.open /\ ~base.open /\ Ordered(file.snaps)
  /\ at = "write" /\ ~damaged => file.head \cup file.tail \subseteq base.head \cup base.tail \cup raced

LEMMA FileFields ==
  ASSUME NEW doc \in Files
  PROVE  /\ doc.head \subseteq Lines /\ doc.tail \subseteq Lines /\ doc.open \in BOOLEAN
         /\ doc.snaps \in Seq(Snapshots) /\ Len(doc.snaps) \in Nat
         /\ \A i \in DOMAIN doc.snaps :
              /\ doc.snaps[i] \in Snapshots
              /\ doc.snaps[i].v \in 0..MaxFacts /\ doc.snaps[i].lines \subseteq Lines
<1>1. /\ doc.head \subseteq Lines /\ doc.tail \subseteq Lines /\ doc.open \in BOOLEAN
      /\ doc.snaps \in Seq(Snapshots)
  BY DEF Files
<1>2. \A q \in Seq(Snapshots) : Len(q) \in Nat /\ \A i \in DOMAIN q : q[i] \in Snapshots
  OBVIOUS
<1>3. \A r \in Snapshots : r.v \in 0..MaxFacts /\ r.lines \subseteq Lines
  BY DEF Snapshots
<1> QED
  BY <1>1, <1>2, <1>3

LEMMA SnapshotType ==
  ASSUME NEW v \in 0..MaxFacts
  PROVE  /\ Snapshot(v) \in Snapshots /\ Snapshot(v).v = v
         /\ Snapshot(v).current /\ Snapshot(v).lines = {}
BY DEF Snapshot, Snapshots

LEMMA ExpiredType ==
  ASSUME NEW snaps \in Seq(Snapshots)
  PROVE  /\ Expired(snaps) \in Seq(Snapshots) /\ Len(Expired(snaps)) = Len(snaps)
         /\ \A i \in 1..Len(snaps) : /\ Expired(snaps)[i].v = snaps[i].v
                                     /\ Expired(snaps)[i].lines = snaps[i].lines
                                     /\ i = 1 => ~Expired(snaps)[i].current
                                     /\ ~snaps[i].current => ~Expired(snaps)[i].current
<1>1. \A i \in 1..Len(snaps) : snaps[i] \in Snapshots
  OBVIOUS
<1>2. ASSUME NEW i \in 1..Len(snaps), NEW c \in BOOLEAN
      PROVE  LET r == [snaps[i] EXCEPT !.current = c]
             IN r \in Snapshots /\ r.v = snaps[i].v /\ r.lines = snaps[i].lines /\ r.current = c
  BY <1>1 DEF Snapshots
<1>3. /\ DOMAIN Expired(snaps) = 1..Len(snaps)
      /\ \A i \in 1..Len(snaps) :
           Expired(snaps)[i] = [snaps[i] EXCEPT !.current
             = snaps[i].current /\ \E j \in 1..(i - 1) : snaps[j].current]
  BY DEF Expired
<1>4. \A i \in 1..Len(snaps) : Expired(snaps)[i] \in Snapshots
  BY <1>1, <1>3 DEF Snapshots
<1>5. Expired(snaps) \in [1..Len(snaps) -> Snapshots]
  BY <1>3, <1>4 DEF Expired
<1>6. Expired(snaps) \in Seq(Snapshots) /\ Len(Expired(snaps)) = Len(snaps)
  BY <1>5
<1>7. ASSUME NEW i \in 1..Len(snaps)
      PROVE  /\ Expired(snaps)[i].v = snaps[i].v /\ Expired(snaps)[i].lines = snaps[i].lines
             /\ i = 1 => ~Expired(snaps)[i].current
             /\ ~snaps[i].current => ~Expired(snaps)[i].current
  <2> DEFINE c == snaps[i].current /\ \E j \in 1..(i - 1) : snaps[j].current
  <2>1. (i = 1 => ~c) /\ (~snaps[i].current => ~c) /\ c \in BOOLEAN
    OBVIOUS
  <2>2. Expired(snaps)[i] = [snaps[i] EXCEPT !.current = c]
    BY <1>3
  <2> HIDE DEF c
  <2>3. LET r == [snaps[i] EXCEPT !.current = c]
        IN r.v = snaps[i].v /\ r.lines = snaps[i].lines /\ (r.current <=> c)
    BY <1>2, <2>1
  <2> QED
    BY <2>1, <2>2, <2>3
<1> QED
  BY <1>6, <1>7

\* The new section, before and after it is cut down to size.
LEMMA SectionReplaced ==
  ASSUME NEW snaps \in Seq(Snapshots), NEW v \in 0..MaxFacts
  PROVE  LET new == Truncated(<<Snapshot(v)>> \o Expired(snaps))
         IN /\ new \in Seq(Snapshots) /\ Len(new) <= MaxSnapshots /\ Len(new) \in 1..(Len(snaps) + 1)
            /\ new[1] = Snapshot(v)
            /\ \A i \in 2..Len(new) : new[i] = Expired(snaps)[i - 1]
<1> DEFINE t == <<Snapshot(v)>> \o Expired(snaps)
           new == Truncated(t)
<1>1. Expired(snaps) \in Seq(Snapshots) /\ Len(Expired(snaps)) = Len(snaps) /\ Snapshot(v) \in Snapshots
  BY ExpiredType, SnapshotType
<1>2. /\ t \in Seq(Snapshots) /\ Len(t) = Len(snaps) + 1 /\ t[1] = Snapshot(v)
      /\ \A i \in 2..Len(t) : t[i] = Expired(snaps)[i - 1]
  BY <1>1
<1> HIDE DEF t
<1>3. /\ new \in Seq(Snapshots) /\ Len(new) = (IF Len(t) > MaxSnapshots THEN MaxSnapshots ELSE Len(t))
      /\ \A i \in 1..Len(new) : new[i] = t[i]
  BY <1>2, ExporterAssumption DEF Truncated
<1> HIDE DEF new
<1>4. Len(new) <= MaxSnapshots /\ Len(new) \in 1..(Len(snaps) + 1)
  BY <1>2, <1>3, ExporterAssumption
<1>5. new[1] = Snapshot(v) /\ \A i \in 2..Len(new) : new[i] = Expired(snaps)[i - 1]
  BY <1>2, <1>3, <1>4
<1> QED
  BY <1>3, <1>4, <1>5 DEF new, t

LEMMA RenderedFile ==
  ASSUME NEW doc \in Files, NEW v \in 0..MaxFacts, NotAfter(doc.snaps, v)
  PROVE  LET new == Rendered(doc, v)
         IN /\ new \in Files /\ NotAfter(new.snaps, v)
            /\ ~doc.open /\ Ordered(doc.snaps) =>
                 ~new.open /\ Ordered(new.snaps) /\ new.head \cup new.tail = doc.head \cup doc.tail
<1> DEFINE new == Rendered(doc, v)
<1>1. /\ doc.head \subseteq Lines /\ doc.tail \subseteq Lines /\ doc.open \in BOOLEAN
      /\ doc.snaps \in Seq(Snapshots) /\ Len(doc.snaps) \in Nat
      /\ \A i \in 1..Len(doc.snaps) :
           doc.snaps[i] \in Snapshots /\ doc.snaps[i].v \in 0..MaxFacts /\ doc.snaps[i].v <= v
  BY FileFields DEF NotAfter
<1>2. Snapshot(v) \in Snapshots /\ Snapshot(v).v = v /\ Snapshot(v).current /\ Snapshot(v).lines = {} /\ v \in Nat
  BY SnapshotType, ExporterAssumption
<1>3. MaxSnapshots \in Nat /\ 1 <= MaxSnapshots
  BY ExporterAssumption
<1>4. CASE doc.snaps = <<>>
  <2>1. new = Appended(doc, v)
    BY <1>4 DEF Rendered
  <2>2. /\ new \in Files /\ new.snaps = <<Snapshot(v)>> /\ new.open = doc.open
        /\ new.head = doc.head \cup doc.tail /\ new.tail = {}
    <3>1. new = [doc EXCEPT !.head = doc.head \cup doc.tail, !.tail = {}, !.snaps = <<Snapshot(v)>>]
      BY <2>1 DEF Appended
    <3>2. <<Snapshot(v)>> \in Seq(Snapshots) /\ doc.head \cup doc.tail \subseteq Lines
      BY <1>1, <1>2
    <3> QED
      BY <3>1, <3>2 DEF Files
  <2> HIDE DEF new
  <2>3. Len(new.snaps) = 1 /\ \A i \in DOMAIN new.snaps : i = 1 /\ new.snaps[i] = Snapshot(v)
    BY <2>2
  <2>4. NotAfter(new.snaps, v)
    BY <1>2, <2>3 DEF NotAfter
  <2>5. Ordered(new.snaps)
    BY <1>2, <1>3, <2>3 DEF Ordered
  <2> QED
    BY <2>2, <2>4, <2>5 DEF new
<1>5. CASE doc.snaps # <<>> /\ doc.open
  <2> DEFINE n == Len(doc.snaps)
             caught == [doc.snaps EXCEPT ![n].lines = doc.snaps[n].lines \cup doc.tail]
  <2>1. n \in Nat /\ n >= 1
    BY <1>1, <1>5
  <2>2. /\ doc.snaps[n] \in Snapshots
        /\ [doc.snaps[n] EXCEPT !.lines = doc.snaps[n].lines \cup doc.tail] \in Snapshots
        /\ [doc.snaps[n] EXCEPT !.lines = doc.snaps[n].lines \cup doc.tail].v = doc.snaps[n].v
    BY <1>1, <2>1 DEF Snapshots
  <2>3. /\ caught \in Seq(Snapshots) /\ Len(caught) = n
        /\ \A i \in 1..n : caught[i].v = doc.snaps[i].v
    BY <1>1, <2>1, <2>2
  <2>4. new = [doc EXCEPT !.snaps = Append(caught, Snapshot(v)), !.tail = {}, !.open = FALSE]
    BY <1>5 DEF Rendered, Swallowed
  <2> HIDE DEF caught
  <2>5. /\ Append(caught, Snapshot(v)) \in Seq(Snapshots) /\ Len(Append(caught, Snapshot(v))) = n + 1
        /\ \A i \in 1..(n + 1) : Append(caught, Snapshot(v))[i] = IF i <= n THEN caught[i] ELSE Snapshot(v)
    BY <1>2, <2>1, <2>3
  <2>6. new \in Files /\ new.snaps = Append(caught, Snapshot(v))
    BY <1>1, <2>4, <2>5 DEF Files
  <2> HIDE DEF new
  <2>7. NotAfter(new.snaps, v)
    BY <1>1, <1>2, <2>1, <2>3, <2>5, <2>6 DEF NotAfter
  <2> QED
    BY <1>5, <2>6, <2>7 DEF new
<1>6. CASE doc.snaps # <<>> /\ ~doc.open
  <2> DEFINE e == Expired(doc.snaps)
             s == Truncated(<<Snapshot(v)>> \o e)
  <2>1. new = [doc EXCEPT !.snaps = s]
    BY <1>6 DEF Rendered, Replaced
  <2>2. /\ s \in Seq(Snapshots) /\ Len(s) <= MaxSnapshots /\ Len(s) \in 1..(Len(doc.snaps) + 1)
        /\ s[1] = Snapshot(v) /\ \A i \in 2..Len(s) : s[i] = e[i - 1]
    BY <1>1, SectionReplaced
  <2>3. \A i \in 1..Len(doc.snaps) : /\ e[i].v = doc.snaps[i].v /\ e[i].lines = doc.snaps[i].lines
                                     /\ i = 1 => ~e[i].current
                                     /\ ~doc.snaps[i].current => ~e[i].current
    BY <1>1, ExpiredType
  <2> HIDE DEF e, s
  <2>4. /\ new \in Files /\ new.snaps = s /\ new.open = doc.open /\ new.head = doc.head /\ new.tail = doc.tail
    BY <1>1, <2>1, <2>2 DEF Files
  <2> HIDE DEF new
  <2>5. Len(s) \in Nat /\ \A i \in 2..Len(s) : i - 1 \in 1..Len(doc.snaps)
    BY <1>1, <2>2
  <2>6. \A i \in 2..Len(s) : s[i].v = doc.snaps[i - 1].v
    BY <2>2, <2>3, <2>5
  <2>7. \A i \in 1..Len(s) : i = 1 \/ i \in 2..Len(s)
    BY <2>5
  <2>8. NotAfter(s, v)
    <3>1. \A i \in 1..Len(s) : s[i].v <= v
      BY <1>1, <1>2, <2>2, <2>5, <2>6, <2>7
    <3>2. DOMAIN s = 1..Len(s)
      BY <2>2
    <3> QED
      BY <3>1, <3>2 DEF NotAfter
  <2>9. ASSUME Ordered(doc.snaps) PROVE Ordered(s)
    <3>1. ASSUME NEW i \in 2..Len(s)
          PROVE  ~s[i].current /\ s[i].lines = {} /\ s[i].v <= s[i - 1].v
      <4>1. i - 1 \in 1..Len(doc.snaps) /\ s[i] = e[i - 1] /\ i - 1 \in 1..Len(s) /\ i \in Nat
        BY <2>2, <2>5
      <4>2. ~s[i].current
        BY <2>3, <2>9, <4>1 DEF Ordered
      <4>3. s[i].lines = {}
        BY <2>3, <2>9, <4>1 DEF Ordered
      <4>4. s[i].v <= s[i - 1].v
        <5>1. CASE i = 2
          BY <1>1, <1>2, <2>2, <2>6, <4>1, <5>1
        <5>2. CASE i # 2
          <6>1. i - 1 \in 2..Len(s) /\ i - 1 > 1 /\ (i - 1) - 1 = i - 2
            BY <4>1, <5>2
          <6>2. s[i].v = doc.snaps[i - 1].v /\ s[i - 1].v = doc.snaps[i - 2].v
            BY <2>6, <6>1
          <6>3. DOMAIN doc.snaps = 1..Len(doc.snaps)
            BY <1>1
          <6>4. \A j \in 1..Len(doc.snaps) : j > 1 => doc.snaps[j].v <= doc.snaps[j - 1].v
            BY <2>9, <6>3 DEF Ordered
          <6>5. doc.snaps[i - 1].v <= doc.snaps[(i - 1) - 1].v
            BY <4>1, <6>1, <6>4
          <6> QED
            BY <6>1, <6>2, <6>5
        <5> QED
          BY <5>1, <5>2
      <4> QED
        BY <4>2, <4>3, <4>4
    <3>2. s[1].current /\ s[1].lines = {} /\ Len(s) <= MaxSnapshots
      BY <1>2, <2>2
    <3>3. \A i \in 2..Len(s) : i # 1
      BY <2>5
    <3>4. ASSUME NEW i \in DOMAIN s
          PROVE  (s[i].current <=> i = 1) /\ s[i].lines = {} /\ (i > 1 => s[i].v <= s[i - 1].v)
      <4>1. i \in 1..Len(s)
        BY <2>2
      <4> QED
        BY <2>7, <3>1, <3>2, <3>3, <4>1
    <3> QED
      BY <3>2, <3>4 DEF Ordered
  <2> QED
    BY <2>4, <2>8, <2>9 DEF new
<1> QED
  BY <1>4, <1>5, <1>6

LEMMA ExporterInitInv == ExporterInit => XInv
<1> SUFFICES ASSUME ExporterInit PROVE XInv
  OBVIOUS
<1>1. Empty \in Files /\ Empty.snaps = <<>> /\ ~Empty.open
  BY DEF Empty, Files
<1>2. ExporterTypeOK
  <2>1. 0 \in 0..MaxFacts /\ Throttle \in 0..Throttle
    BY ExporterAssumption
  <2>2. /\ trigger \in BOOLEAN /\ due \in BOOLEAN /\ damaged \in BOOLEAN
    BY Zenon DEF ExporterInit
  <2> QED
    BY <1>1, <2>1, <2>2 DEF ExporterInit, ExporterTypeOK
<1>3. NotAfter(<<>>, facts) /\ Ordered(<<>>)
  <2>1. Len(<<>>) = 0 /\ \A i \in DOMAIN <<>> : FALSE
    OBVIOUS
  <2> QED
    BY <2>1, ExporterAssumption DEF NotAfter, Ordered
<1> QED
  BY <1>1, <1>2, <1>3 DEF ExporterInit, XInv

LEMMA NotAfterLater ==
  ASSUME NEW doc \in Files, NEW v \in Nat, NEW w \in Nat, v <= w, NotAfter(doc.snaps, v)
  PROVE  NotAfter(doc.snaps, w)
<1>1. \A i \in DOMAIN doc.snaps : doc.snaps[i].v \in 0..MaxFacts
  BY FileFields
<1> QED
  BY <1>1, ExporterAssumption DEF NotAfter

\* The file with another line of somebody else.
LEMMA EditedFile ==
  ASSUME XInv, NEW l \in Lines, EditFile(l)
  PROVE  /\ file' \in Files /\ file'.snaps = file.snaps /\ file'.open = file.open
         /\ file.head \cup file.tail \subseteq file'.head \cup file'.tail
         /\ at = "write" => file'.head \cup file'.tail \subseteq file.head \cup file.tail \cup raced'
<1>1. file \in Files
  BY DEF XInv, ExporterTypeOK
<1>2. CASE file' = [file EXCEPT !.head = @ \cup {l}]
  BY <1>1, <1>2 DEF EditFile, Files
<1>3. CASE file' = [file EXCEPT !.tail = @ \cup {l}]
  BY <1>1, <1>3 DEF EditFile, Files
<1> QED
  BY <1>2, <1>3 DEF EditFile

LEMMA ExporterStepInv == XInv /\ [ExporterNext]_xvars => XInv'
<1> SUFFICES ASSUME XInv, [ExporterNext]_xvars PROVE XInv'
  OBVIOUS
<1>1. /\ ExporterTypeOK /\ file \in Files /\ base \in Files /\ facts \in Nat /\ seen \in Nat
      /\ Throttle \in Nat /\ MaxFacts \in Nat
  BY ExporterAssumption DEF XInv, ExporterTypeOK
<1>2. Empty \in Files /\ ~Empty.open /\ 0 \in 0..MaxFacts
  BY <1>1 DEF Empty, Files
<1>3. CASE FactsCollected
  <2>1. NotAfter(file.snaps, facts + 1)
    BY <1>1, NotAfterLater DEF XInv
  <2>2. ExporterTypeOK'
    BY <1>1, <1>3 DEF FactsCollected, ExporterTypeOK
  <2> QED
    BY <1>1, <1>3, <2>1, <2>2 DEF FactsCollected, XInv
<1>4. CASE OnRuleActive \/ SelectDue \/ SelectTrigger
  <2>1. /\ UNCHANGED <<facts, file, since, seen, base, raced, damaged>>
        /\ trigger' \in BOOLEAN /\ due' \in BOOLEAN /\ (at' = at \/ at' \in {"select", "facts"}) /\ at' \in {"off", "select", "facts", "file", "write"}
    BY <1>1, <1>4 DEF OnRuleActive, SelectDue, SelectTrigger, ExporterTypeOK
  <2>2. ExporterTypeOK'
    BY <1>1, <2>1 DEF ExporterTypeOK
  <2> QED
    BY <2>1, <2>2 DEF XInv
<1>5. CASE TimePasses
  <2>1. ExporterTypeOK'
    <3>1. since' \in 0..Throttle
      BY <1>1, <1>5 DEF TimePasses, ExporterTypeOK
    <3>2. due' \in BOOLEAN
      BY <1>1, <1>5, Zenon DEF TimePasses, ExporterTypeOK
    <3> QED
      BY <1>1, <1>5, <3>1, <3>2 DEF TimePasses, ExporterTypeOK
  <2> QED
    BY <1>5, <2>1 DEF TimePasses, XInv
<1>6. CASE Damage
  <2>1. file' \in Files /\ file'.snaps = file.snaps
    BY <1>1, <1>6 DEF Damage, Files
  <2>2. ExporterTypeOK' /\ damaged'
    BY <1>1, <1>6, <2>1 DEF Damage, ExporterTypeOK
  <2> QED
    BY <1>6, <2>1, <2>2 DEF Damage, XInv
<1>7. ASSUME NEW l \in Lines, EditFile(l) PROVE XInv'
  <2>1. /\ file' \in Files /\ file'.snaps = file.snaps /\ file'.open = file.open
        /\ at = "write" => file'.head \cup file'.tail \subseteq file.head \cup file.tail \cup raced'
    BY <1>7, EditedFile
  <2>2. raced' \subseteq Lines /\ raced \subseteq raced'
    BY <1>1, <1>7 DEF EditFile, ExporterTypeOK
  <2>3. UNCHANGED <<facts, trigger, due, since, at, seen, base, damaged>>
    BY <1>7 DEF EditFile
  <2>4. ExporterTypeOK'
    BY <1>1, <2>1, <2>2, <2>3 DEF ExporterTypeOK
  <2>5. (at = "write" /\ ~damaged => file.head \cup file.tail \subseteq base.head \cup base.tail \cup raced)'
    BY <2>1, <2>2, <2>3 DEF XInv
  <2> QED
    BY <2>1, <2>3, <2>4, <2>5 DEF XInv
<1>8. CASE StartExporter
  <2>1. ExporterTypeOK'
    <3>1. trigger' \in BOOLEAN /\ due' \in BOOLEAN
      BY <1>8, Zenon DEF StartExporter
    <3>2. since' \in 0..Throttle
      BY <1>1, <1>8 DEF StartExporter
    <3> QED
      BY <1>1, <1>8, <3>1, <3>2 DEF StartExporter, ExporterTypeOK
  <2> QED
    BY <1>8, <2>1 DEF StartExporter, XInv
<1>9. CASE StopExporter \/ ExportFails
  <2>1. ExporterTypeOK'
    <3>1. /\ UNCHANGED <<facts, file, trigger, due, since, raced, damaged>>
          /\ at' \in {"off", "select"} /\ seen' = 0 /\ base' = Empty
      BY <1>9 DEF StopExporter, ExportFails
    <3> QED
      BY <1>1, <1>2, <3>1 DEF ExporterTypeOK
  <2>2. /\ UNCHANGED <<facts, file, raced, damaged>> /\ at' \in {"off", "select"}
        /\ seen' = 0 /\ base' = Empty
    BY <1>9 DEF StopExporter, ExportFails
  <2> QED
    BY <1>1, <1>2, <2>1, <2>2 DEF XInv
<1>10. CASE ReadFacts
  <2>1. ExporterTypeOK'
    BY <1>1, <1>10 DEF ReadFacts, ExporterTypeOK
  <2> QED
    BY <1>1, <1>10, <2>1 DEF ReadFacts, XInv
<1>11. CASE ReadFile
  <2>1. ExporterTypeOK'
    BY <1>1, <1>11 DEF ReadFile, ExporterTypeOK
  <2> QED
    BY <1>1, <1>11, <2>1 DEF ReadFile, XInv
<1>12. CASE WriteFile
  <2>1. /\ seen \in 0..MaxFacts /\ NotAfter(base.snaps, seen)
        /\ ~damaged => ~base.open /\ Ordered(base.snaps)
    BY <1>12 DEF WriteFile, XInv, ExporterTypeOK
  <2>2. /\ file' \in Files /\ NotAfter(file'.snaps, seen)
        /\ ~damaged => ~file'.open /\ Ordered(file'.snaps)
    BY <1>1, <1>12, <2>1, RenderedFile DEF WriteFile
  <2>3. NotAfter(file'.snaps, facts)
    BY <1>1, <2>2, NotAfterLater DEF XInv
  <2>4. ExporterTypeOK'
    BY <1>1, <1>2, <1>12, <2>2 DEF WriteFile, ExporterTypeOK
  <2> QED
    BY <1>1, <1>2, <1>12, <2>2, <2>3, <2>4 DEF WriteFile, XInv
<1>13. CASE UNCHANGED xvars
  BY <1>13 DEF xvars, XInv, ExporterTypeOK
<1> QED
  BY <1>3, <1>4, <1>5, <1>6, <1>7, <1>8, <1>9, <1>10, <1>11, <1>12, <1>13 DEF ExporterNext

LEMMA ExporterInvariant == ExporterSpec => []XInv
BY ExporterInitInv, ExporterStepInv, PTL DEF ExporterSpec

(* The types of the exporter and of the file. *)
THEOREM ExporterTypes == ExporterSpec => []ExporterTypeOK
<1>1. XInv => ExporterTypeOK
  BY DEF XInv
<1> QED
  BY ExporterInvariant, <1>1, PTL

(* As long as nobody damages the markers the section is in order, whatever   *)
(* others write, whenever exports fail, and wherever the process ends.       *)
THEOREM SectionStaysInOrder == ExporterSpec => []SectionInOrder
<1>1. XInv => SectionInOrder
  BY DEF XInv, SectionInOrder, Ordered
<1> QED
  BY ExporterInvariant, <1>1, PTL

(* No export removes a line of somebody else that it could have read.        *)
THEOREM LinesOfOthersKept == ExporterSpec => LinesKept
<1> DEFINE Keeps == ~damaged => \A l \in Lines : Written(l) => Written(l)' \/ l \in raced
<1>1. XInv /\ [ExporterNext]_xvars => [Keeps]_xvars
  <2> SUFFICES ASSUME XInv, ExporterNext, ~damaged, NEW l \in Lines, Written(l)
               PROVE  Written(l)' \/ l \in raced
    OBVIOUS
  <2>1. file \in Files /\ base \in Files /\ l \in file.head \cup file.tail
    BY DEF XInv, ExporterTypeOK, Ordered, Written
  <2>2. CASE file' = file
    BY <2>2 DEF Written
  <2>3. CASE Damage
    <3>1. file'.head = file.head /\ file'.tail = file.tail
      BY <2>1, <2>3 DEF Damage, Files
    <3> QED
      BY <2>1, <3>1 DEF Written
  <2>4. ASSUME NEW m \in Lines, EditFile(m) PROVE Written(l)'
    BY <2>1, <2>4, EditedFile DEF Written
  <2>5. CASE WriteFile
    <3>1. /\ seen \in 0..MaxFacts /\ NotAfter(base.snaps, seen) /\ ~base.open /\ Ordered(base.snaps)
          /\ file.head \cup file.tail \subseteq base.head \cup base.tail \cup raced
      BY <2>5 DEF WriteFile, XInv, ExporterTypeOK
    <3>2. file'.head \cup file'.tail = base.head \cup base.tail
      BY <2>1, <2>5, <3>1, RenderedFile DEF WriteFile
    <3> QED
      BY <2>1, <3>1, <3>2 DEF Written
  <2> QED
    BY <2>2, <2>3, <2>4, <2>5 DEF ExporterNext, FactsCollected, OnRuleActive, TimePasses, StartExporter,
       StopExporter, SelectDue, SelectTrigger, ReadFacts, ReadFile, ExportFails
<1> QED
  BY ExporterInvariant, <1>1, PTL DEF ExporterSpec, LinesKept

-----------------------------------------------------------------------------
(* Live quotes. *)

LEMMA QuotesTypeStep == QuotesTypeOK /\ [QuotesNext]_qvars => QuotesTypeOK'
<1> SUFFICES ASSUME QuotesTypeOK, [QuotesNext]_qvars PROVE QuotesTypeOK'
  OBVIOUS
<1> USE DEF QuotesTypeOK
<1>1. /\ 0 \in QuoteNumbers /\ quote \in QuoteNumbers /\ 1 \in 1..MaxBackoff /\ MaxBackoff \in 1..MaxBackoff
      /\ backoff \in Int
  BY QuotesAssumption DEF QuoteNumbers
<1>2. CASE QuoteMoves
  <2>1. quote' \in 1..MaxQuotes
    BY <1>2, QuotesAssumption DEF QuoteMoves
  <2> QED
    BY <1>2, <2>1 DEF QuoteMoves
<1>3. CASE SendFrame \/ SendOther
  <2>0. \E q \in QuoteNumbers : wire' = Append(wire, q)
    BY <1>1, <1>3, Zenon DEF SendFrame, SendOther
  <2>1. wire' \in Seq(QuoteNumbers)
    BY <2>0
  <2> QED
    BY <1>3, <2>1 DEF SendFrame, SendOther
<1>4. CASE StartFeed
  BY <1>1, <1>4, Zenon DEF StartFeed
<1>5. CASE Dial \/ DialFails
  BY <1>5, Zenon DEF Dial, DialFails
<1>6. CASE ReadFrame
  <2>1. wire' \in Seq(QuoteNumbers) /\ Head(wire) \in QuoteNumbers
    BY <1>6 DEF ReadFrame
  <2>2. hub' \in QuoteNumbers
    BY <1>6, <2>1 DEF ReadFrame
  <2> QED
    BY <1>6, <2>1, <2>2 DEF ReadFrame
<1>7. CASE Disconnect \/ StopFeed
  <2>1. <<>> \in Seq(QuoteNumbers)
    OBVIOUS
  <2> QED
    BY <1>1, <1>7, <2>1 DEF Disconnect, StopFeed
<1>8. CASE Reconnect
  <2>1. backoff' \in 1..MaxBackoff
    BY <1>1, <1>8, QuotesAssumption DEF Reconnect
  <2> QED
    BY <1>8, <2>1 DEF Reconnect
<1>9. CASE ConnectBrowser \/ Tick \/ Push \/ Disconnected
  BY <1>1, <1>9 DEF ConnectBrowser, Tick, Push, Disconnected
<1>10. CASE UNCHANGED qvars
  BY <1>10 DEF qvars
<1> QED
  BY <1>2, <1>3, <1>4, <1>5, <1>6, <1>7, <1>8, <1>9, <1>10 DEF QuotesNext

LEMMA QuotesTypes == QuotesSpec => []QuotesTypeOK
<1>1. QuotesInit => QuotesTypeOK
  <2>1. 1 \in 1..MaxQuotes /\ 1 \in 1..MaxBackoff /\ 0 \in QuoteNumbers /\ <<>> \in Seq(QuoteNumbers)
    BY QuotesAssumption DEF QuoteNumbers
  <2> QED
    BY <2>1, Zenon DEF QuotesInit, QuotesTypeOK
<1> QED
  BY <1>1, QuotesTypeStep, PTL DEF QuotesSpec

-----------------------------------------------------------------------------
(* The monitoring half as a whole. *)

LEMMA MonitorStep ==
  [MonitorNext]_mvars => /\ [CollectNext]_cvars /\ [DeliveryNext]_dvars /\ [ExporterNext]_xvars
                         /\ [BackfillNext]_bvars /\ [QuotesNext]_qvars
BY DEF MonitorNext, mvars

LEMMA MonitorImplements ==
  MonitorSpec => CollectSpec /\ DeliverySpec /\ ExporterSpec /\ BackfillSpec /\ QuotesSpec
<1>1. MonitorInit => CollectInit /\ DeliveryInit /\ ExporterInit /\ BackfillInit /\ QuotesInit
  BY DEF MonitorInit
<1> QED
  BY <1>1, MonitorStep, PTL DEF MonitorSpec, CollectSpec, DeliverySpec, ExporterSpec, BackfillSpec, QuotesSpec

(* The program of MCMonitor keeps the types of all its components. *)
THEOREM MonitorTypes == MonitorSpec => []MonitorTypeOK
<1>1. MonitorSpec => /\ []CollectTypeOK /\ []DeliveryTypeOK /\ []ExporterTypeOK
                     /\ []BackfillTypeOK /\ []QuotesTypeOK
  BY MonitorImplements, CollectTypes, DeliveryTypes, ExporterTypes, BackfillTypes, QuotesTypes
<1> QED
  BY <1>1, PTL DEF MonitorTypeOK

(* What is proved of each component holds of the program composed of them:   *)
(* stored facts, mails, snapshots, lines and settlements are all accounted   *)
(* for, and the collection implements its feed.                              *)
THEOREM MonitorKeepsPromises ==
  MonitorSpec => /\ []RepeatsExcused /\ ImplementsFeed
                 /\ []MailsAccounted /\ []SectionInOrder /\ LinesKept /\ []HistoryOnce
BY MonitorImplements, RepeatsAreExcused, CollectFeeds, EveryMailAccounted, SectionStaysInOrder,
   LinesOfOthersKept, BackfilledOnce
=============================================================================
