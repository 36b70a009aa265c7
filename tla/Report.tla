------------------------------- MODULE Report -------------------------------
(***************************************************************************)
(* The weekly report on the funding history: for each pair the income that *)
(* settlement periods brought, beside what the mean rate promised, how     *)
(* fast the two come together, and whether the rest after friction meets   *)
(* the threshold; and the file it is written to.                           *)
(*                                                                         *)
(* Abstractions: a pair is a venue; a moment is a number, Period of them   *)
(* to a settlement period of 8 hours; an income is kept as its sum of      *)
(* annual rates in percent, so that one period of rate r brings r / 1095 % *)
(* of the notional; the mean and the spread of the residuals and the       *)
(* wording are left out.                                                   *)
(***************************************************************************)
EXTENDS Integers, FiniteSets, FiniteSetsExt, Functions

CONSTANTS
  Pairs,        \* venues with a funding rate
  AnnualRates,  \* values of funding facts, in percent
  Period,       \* moments in a settlement period
  HistoryWindow,\* moments in ReportHistoryDays
  Costs,        \* defaultFrictionRate * 1095: what opening and closing costs, as a rate
  Demanded,     \* minSpreadPct
  MaxMoment,    \* bound: moments
  MaxFunding    \* bound: facts

ASSUME ReportAssumption ==
  /\ AnnualRates \subseteq Int /\ Period \in Nat \ {0} /\ HistoryWindow \in Nat \ {0}
  /\ Costs \in Nat /\ Demanded \in Nat \ {0} /\ MaxMoment \in Nat /\ MaxFunding \in Nat

VARIABLES
  moment,   \* time
  funding,  \* the funding facts
  writing,  \* step of renderReport
  returned, \* the facts its query returned
  temp,     \* the temporary file
  file      \* the report

reportvars == <<moment, funding, writing, returned, temp, file>>

Facts == [venue : Pairs, ts : 0..MaxMoment, value : AnnualRates]
Never == -1
SeriesReports ==
  [periods : Nat, sum : Int, span : Nat, residual : Int, halfLife : Nat \cup {Never}, pass : BOOLEAN]
Blank == [of |-> {}, rows |-> <<>>]

ReportTypeOK ==
  /\ moment \in 0..MaxMoment /\ funding \subseteq Facts /\ returned \subseteq Facts
  /\ writing \in {"idle", "render", "write", "rename"}
  /\ \A f \in {temp, file} : f = Blank \/ (f.of \subseteq funding /\ f.rows \in [{g.venue : g \in f.of} -> SeriesReports])

ReportInit ==
  /\ moment = 0 /\ funding = {}
  /\ writing = "idle" /\ returned = {} /\ temp = Blank /\ file = Blank

-----------------------------------------------------------------------------
(* report.go: the series of one pair. *)

\* sortedFacts: in the order of time; a pair has one fact at a time.
SortedFacts(fs) ==
  CHOOSE s \in [1..Cardinality(fs) -> fs] : Range(s) = fs /\ \A i, j \in DOMAIN s : i < j => s[i].ts < s[j].ts

\* Bug: every poll counts as a settlement.
EveryRow(s) == DOMAIN s

\* dedupSettleBuckets: the positions of the rows in another settlement period than the row before.
DedupSettleBuckets(s) == {i \in DOMAIN s : i = 1 \/ s[i - 1].ts \div Period # s[i].ts \div Period}

SumOfRates(s, at) == SumFunctionOnSet([i \in DOMAIN s |-> s[i].value], at)

\* Actual minus promised income up to the settlement at i, times the number of settlements and Period.
Residual(s, at, i) ==
  SumOfRates(s, {j \in at : j <= i}) * Cardinality(at) * Period - SumOfRates(s, at) * (s[i].ts - s[1].ts)

\* halfLifeDays, in moments: from the first settlement to the first one with half of its residual.
HalfLife(s, at) ==
  LET size(i) == IF Residual(s, at, i) < 0 THEN -Residual(s, at, i) ELSE Residual(s, at, i)
      halved == {i \in at \ {1} : 2 * size(i) <= size(1)}
  IN  IF Cardinality(at) < 2 THEN Never
      ELSE IF size(1) = 0 THEN 0
      ELSE IF halved = {} THEN Never
      ELSE s[Min(halved)].ts - s[1].ts

\* A report over no time at all is one over next to no time.
Passes(sum, span) == IF span = 0 THEN sum > Costs ELSE (sum - Costs) * Period >= Demanded * span

ComputeSeries(rows) ==
  LET s == SortedFacts(rows)
      at == DedupSettleBuckets(s)
      span == s[Max(at)].ts - s[1].ts
  IN  [periods |-> Cardinality(at), sum |-> SumOfRates(s, at), span |-> span, residual |-> Residual(s, at, Max(at)),
       halfLife |-> HalfLife(s, at), pass |-> Passes(SumOfRates(s, at), span)]

\* RenderReport: a row for each pair that has facts.
ReportOn(fs) ==
  [of |-> fs, rows |-> [v \in {f.venue : f \in fs} |-> ComputeSeries({f \in fs : f.venue = v})]]

-----------------------------------------------------------------------------
Store(f) ==
  /\ Cardinality(funding) < MaxFunding /\ \A g \in funding : g.venue = f.venue => g.ts # f.ts
  /\ funding' = funding \cup {f}
  /\ UNCHANGED <<moment, writing, returned, temp, file>>

\* The scheduler polls a rate: the fact has the time of the poll.
PollRate(v, r) == Store([venue |-> v, ts |-> moment, value |-> r])

\* The backfill stores what was settled before, at the time of the settlement.
BackfillRate(v, t, r) == t <= moment /\ t % Period = 0 /\ Store([venue |-> v, ts |-> t, value |-> r])

MomentPasses ==
  /\ moment < MaxMoment /\ moment' = moment + 1
  /\ UNCHANGED <<funding, writing, returned, temp, file>>

\* renderReport, when the settlement loop calls it: nothing is written about no facts.
AskFunding ==
  /\ writing = "idle" /\ returned' = {f \in funding : moment <= f.ts + HistoryWindow}
  /\ writing' = IF returned' = {} THEN "idle" ELSE "render"
  /\ UNCHANGED <<moment, funding, temp, file>>

\* atomicWriteReport.
CreateTemp ==
  /\ writing = "render" /\ writing' = "write" /\ temp' = Blank
  /\ UNCHANGED <<moment, funding, returned, file>>

WriteTemp ==
  /\ writing = "write" /\ writing' = "rename" /\ temp' = ReportOn(returned)
  /\ UNCHANGED <<moment, funding, returned, file>>

Rename ==
  /\ writing = "rename" /\ writing' = "idle" /\ returned' = {}
  /\ file' = temp /\ temp' = Blank
  /\ UNCHANGED <<moment, funding>>

\* A step fails, or the process ends: the temporary file may stay behind, until nobody looks at it.
ReportFails ==
  /\ writing # "idle" /\ writing' = "idle" /\ returned' = {} /\ temp' = Blank
  /\ UNCHANGED <<moment, funding, file>>

ReportNext ==
  \/ \E v \in Pairs, r \in AnnualRates :
       PollRate(v, r) \/ \E t \in 0..MaxMoment : BackfillRate(v, t, r)
  \/ MomentPasses \/ AskFunding \/ CreateTemp \/ WriteTemp \/ Rename \/ ReportFails

ReportSpec == ReportInit /\ [][ReportNext]_reportvars

-----------------------------------------------------------------------------
(* Properties. *)

\* What a pair has earned, as sets: each settlement period counts with its first row.
FirstRows(fs) == {f \in fs : \A g \in fs : g.ts \div Period = f.ts \div Period => f.ts <= g.ts}
Earned(fs) == SumFunctionOnSet([f \in fs |-> f.value], FirstRows(fs))
SpanOf(fs) == LET ts == {f.ts - g.ts : f, g \in fs} IN CHOOSE s \in ts : \A t \in ts : t <= s

\* What the row of a pair with the facts fs should tell.
Exact(row, fs) ==
  /\ row.periods = Cardinality({f.ts \div Period : f \in fs})
  /\ row.sum = Earned(fs) /\ row.span = SpanOf(FirstRows(fs))
  /\ row.pass <=> (row.sum - Costs) * Period > 0 /\ (row.sum - Costs) * Period >= Demanded * row.span
  /\ row.halfLife # Never => row.halfLife \in {0} \cup {f.ts - g.ts : f, g \in FirstRows(fs)}

(* The file holds a whole report on what was stored when it was asked for,   *)
(* with every pair of it, or none, whatever failed or died on the way; in it *)
(* a settlement period counts once, however often it was polled and whatever *)
(* the backfill added, a pair is told that it passes exactly if what its     *)
(* periods brought after the costs of one trade meets the threshold over the *)
(* time they span, and a residual that halves does so at one of its          *)
(* settlements.                                                              *)
ReportExact ==
  /\ DOMAIN file.rows = {f.venue : f \in file.of}
  /\ \A v \in DOMAIN file.rows : Exact(file.rows[v], {f \in file.of : f.venue = v})
=============================================================================
