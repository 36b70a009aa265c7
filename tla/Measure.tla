------------------------------ MODULE Measure ------------------------------
(***************************************************************************)
(* The first gate on real money: the return of the simulated account over  *)
(* the last 30 days, from its equity snapshots, and the verdict on it      *)
(* (return.go of internal/sim, GetPerformanceReport, the snapshot table).  *)
(*                                                                         *)
(* Abstractions: time is counted in halves of the interval of snapshots,   *)
(* which are taken at even times, while all else happens at odd ones; a    *)
(* return is a quotient and its annual rate, which grows with it over a    *)
(* given time, is compared through the return over 30 days that it stands  *)
(* for; of the money-weighted return only its failure matters; notes are   *)
(* left out.                                                               *)
(***************************************************************************)
EXTENDS Integers, Sequences, FiniteSets, Functions

CONSTANTS
  WindowTicks,   \* GateWindowDays, in intervals
  MinCoverage,   \* GateMinCoverage, of 100
  Threshold,     \* GateThreshold and GateBaselineLow, over 30 days: return on 100
  BaselineLow,
  Deposit,       \* the capital of the start
  Gains,         \* what trading may yield
  Flows,         \* capital that may be added later
  MaxClock,      \* bound: time
  MaxEvents      \* bound: snapshots missed or damaged, gains, flows and orders

WindowTime == 2 * WindowTicks

ASSUME MeasureAssumption ==
  /\ WindowTicks \in Nat \ {0} /\ MaxClock \in Nat /\ MaxEvents \in Nat /\ Deposit \in Nat \ {0}
  /\ MinCoverage \in 1..100 /\ Gains \subseteq Int /\ Flows \subseteq Int
  /\ Threshold \in Nat /\ BaselineLow \in Nat \ {0} /\ BaselineLow <= Threshold

VARIABLES
  tm,      \* time
  value,   \* equity of the account
  snaps,   \* sim_equity_snapshots, oldest first
  flows,   \* the rows of kind capital_in in sim_cash_flow
  ords,    \* orders of the account that ended
  report,  \* the last answer of GetPerformanceReport
  missed,  \* history: snapshots that were not taken or damaged
  gains,   \* history: what trading yielded, and when
  events   \* counts against MaxEvents

measvars == <<tm, value, snaps, flows, ords, report, missed, gains, events>>

Statuses == {"pending", "pass", "watch", "fail", "env_no_window", "data_anomaly"}
NoReport == [status |-> "none", first |-> 0, last |-> 0, count |-> 0, full |-> FALSE]

MeasureTypeOK ==
  /\ tm \in 0..MaxClock /\ value \in Int /\ missed \subseteq 0..MaxClock /\ events \in 0..MaxEvents
  /\ snaps \in Seq([ts : 0..MaxClock, equity : Int, sound : BOOLEAN])
  /\ flows \in Seq([ts : -1..MaxClock, amount : Int]) /\ gains \in Seq([ts : 0..MaxClock, amount : Int])
  /\ ords \in Seq([ts : 0..MaxClock, status : {"filled", "rejected"}])
  /\ report \in [status : Statuses \cup {"none"}, first : 0..MaxClock, last : 0..MaxClock,
                 count : Nat, full : BOOLEAN]

\* The account is seeded before the first snapshot.
MeasureInit ==
  /\ tm = 0 /\ value = Deposit /\ snaps = <<>> /\ flows = <<[ts |-> -1, amount |-> Deposit]>>
  /\ ords = <<>> /\ report = NoReport /\ missed = {} /\ gains = <<>> /\ events = 0

-----------------------------------------------------------------------------
(* The functions of return.go. *)

\* Rows are told by their positions.
Between(fs, from, to) == {i \in DOMAIN fs : from < fs[i].ts /\ fs[i].ts <= to}
Sum(fs, at) == SumFunctionOnSet([i \in DOMAIN fs |-> fs[i].amount], at)
Ins(fs, at) == {i \in at : fs[i].amount >= 0}
Outs(fs, at) == {i \in at : fs[i].amount < 0}

Anomaly == [err |-> "anomaly", num |-> 0, den |-> 1]
Return(num, den) == [err |-> "nil", num |-> num, den |-> den]

\* One interval of snapshots: what its flows bring counts at its start, what they take at its end.
Link(prod, prev, cur, fs) ==
  LET inside == Between(fs, prev.ts, cur.ts)
      in == prev.equity + Sum(fs, Ins(fs, inside))
      out == cur.equity - Sum(fs, Outs(fs, inside))
  IN  IF prod.err # "nil" \/ in <= 0 \/ out < 0 THEN Anomaly ELSE Return(prod.num * out, prod.den * in)

\* The links multiplied, up to each of the snapshots.
Chain(ss, fs) ==
  LET prod[i \in 1..Len(ss)] == IF i = 1 THEN Return(1, 1) ELSE Link(prod[i - 1], ss[i - 1], ss[i], fs)
  IN  prod

\* TwrAnnualized: the time-weighted return as a quotient.
Twr(ss, fs) ==
  LET n == Len(ss)
      all == Chain(ss, fs)[n]
  IN  IF n < 2 THEN [Anomaly EXCEPT !.err = "insufficient"]
      ELSE IF ss[1].ts = ss[n].ts \/ ss[1].equity <= 0 \/ ss[n].equity <= 0 THEN Anomaly
      ELSE IF Between(fs, ss[1].ts, ss[n].ts) = {} THEN Return(ss[n].equity, ss[1].equity)
      ELSE IF all.err # "nil" \/ all.num <= 0 THEN Anomaly
      ELSE all

\* MwrAnnualized fails without an inflow, or without equity at the end.
MwrErr(ss, fs) ==
  IF Len(ss) < 2 THEN "insufficient"
  ELSE IF (\A i \in DOMAIN fs : fs[i].amount <= 0) \/ ss[Len(ss)].equity <= 0 THEN "anomaly"
  ELSE "nil"

\* SnapshotCoverage: the snapshots there are to those expected, 1 at most.
Coverage(ticks, count) ==
  IF ticks <= 0 \/ count <= 0 THEN <<0, 1>> ELSE IF count > ticks THEN <<1, 1>> ELSE <<count, ticks>>

\* ValidateSnapshotIntegrity: in order, and equity is cash and market value.
Sound(ss) ==
  /\ \A i \in 2..Len(ss) : ss[i].ts > ss[i - 1].ts
  /\ \A i \in DOMAIN ss : ss[i].sound

\* Bug: gaps in the snapshots do not matter.
TrustBlind(ticks, cov, sound) == IF ~sound THEN "data_anomaly" ELSE ""

\* GateTrustQualifier: a status that overrides the verdict, or none.
Trust(ticks, cov, sound) ==
  IF ~sound THEN "data_anomaly"
  ELSE IF ticks < WindowTicks THEN ""
  ELSE IF cov[1] * 100 < MinCoverage * cov[2] THEN "data_anomaly"
  ELSE ""

\* EvaluateGate.
Gate(ticks, twr, mwrErr, filled, rejected) ==
  IF twr.err = "anomaly" \/ mwrErr = "anomaly" THEN "data_anomaly"
  ELSE IF twr.err # "nil" \/ mwrErr # "nil" \/ ticks < WindowTicks THEN "pending"
  ELSE IF filled = 0 THEN (IF rejected > 0 THEN "watch" ELSE "env_no_window")
  ELSE IF 100 * twr.num >= (100 + Threshold) * twr.den THEN "pass"
  ELSE IF 100 * twr.num >= (100 + BaselineLow) * twr.den THEN "watch"
  ELSE "fail"

-----------------------------------------------------------------------------
Quiet == UNCHANGED <<snaps, flows, ords, missed, gains, value>>
Happens == tm % 2 = 1 /\ events < MaxEvents /\ events' = events + 1 /\ report' = NoReport /\ UNCHANGED tm

\* InsertEquitySnapshot: the first one of a time stays.
InsertSnapshot(s) ==
  snaps' = IF \E i \in DOMAIN snaps : snaps[i].ts = s.ts THEN snaps ELSE Append(snaps, s)

Due == tm % 2 = 0 /\ tm \notin missed /\ \A i \in DOMAIN snaps : snaps[i].ts # tm

\* A tick of the settlement loop takes a snapshot,
TakeSnapshot ==
  /\ Due /\ report' = NoReport
  /\ InsertSnapshot([ts |-> tm, equity |-> value, sound |-> TRUE])
  /\ UNCHANGED <<tm, value, flows, ords, missed, gains, events>>

\* or fails to, or there is none as the program is down; or what is stored is damaged.
LoseSnapshot ==
  /\ Due /\ report' = NoReport
  /\ events < MaxEvents /\ events' = events + 1
  /\ missed' = missed \cup {tm}
  /\ \/ UNCHANGED snaps
     \/ InsertSnapshot([ts |-> tm, equity |-> value + Deposit, sound |-> FALSE])
  /\ UNCHANGED <<tm, value, flows, ords, gains>>

TimeGoes ==
  /\ ~Due /\ tm < MaxClock /\ tm' = tm + 1 /\ report' = NoReport
  /\ Quiet /\ UNCHANGED events

\* Funding, and what the prices do to the legs.
Earn(g) ==
  /\ Happens /\ value' = value + g /\ gains' = Append(gains, [ts |-> tm, amount |-> g])
  /\ UNCHANGED <<snaps, flows, ords, missed>>

\* Capital is added: not by this program yet, but its returns and reports are made for it.
AddCapital(a) ==
  /\ Happens /\ value' = value + a /\ flows' = Append(flows, [ts |-> tm, amount |-> a])
  /\ UNCHANGED <<snaps, ords, missed, gains>>

OrderEnds(st) ==
  /\ Happens /\ ords' = Append(ords, [ts |-> tm, status |-> st])
  /\ UNCHANGED <<snaps, flows, missed, gains, value>>

\* The snapshots from a time on.
Since(time) ==
  LET before == {i \in DOMAIN snaps : snaps[i].ts < time}
  IN  SubSeq(snaps, Cardinality(before) + 1, Len(snaps))

\* What GetPerformanceReport answers on the snapshots of the last 30 days.
Verdict(ss, since) ==
  LET n == Len(ss)
      many == n >= 2
      twr == Twr(ss, flows)
      ticks == IF many /\ twr.err = "nil" THEN (ss[n].ts - ss[1].ts) \div 2 ELSE 0
      within(o) == IF many THEN ss[1].ts <= o.ts /\ o.ts <= ss[n].ts ELSE since <= o.ts
      number(st) == Cardinality({i \in DOMAIN ords : ords[i].status = st /\ within(ords[i])})
      \* Without two snapshots the error of the time-weighted return is not set.
      verdict == Gate(ticks, IF many THEN twr ELSE Return(0, 1), MwrErr(ss, flows), number("filled"), number("rejected"))
      trust == Trust(ticks, Coverage(ticks, n), Sound(ss))
  IN  [status |-> IF trust # "" THEN trust ELSE verdict,
       first |-> IF many THEN ss[1].ts ELSE 0, last |-> IF many THEN ss[n].ts ELSE 0,
       count |-> n, full |-> missed = {}]

GetPerformanceReport ==
  /\ report' = Verdict(Since(tm - WindowTime), tm - WindowTime)
  /\ UNCHANGED <<tm, events>> /\ Quiet

MeasureNext ==
  \/ TakeSnapshot \/ LoseSnapshot \/ TimeGoes \/ GetPerformanceReport
  \/ \E g \in Gains : Earn(g)
  \/ \E a \in Flows : AddCapital(a)
  \/ \E st \in {"filled", "rejected"} : OrderEnds(st)

MeasureSpec == MeasureInit /\ [][MeasureNext]_measvars

-----------------------------------------------------------------------------
(* Properties. *)

Inside(fs) == Between(fs, report.first, report.last)
Lost == {t \in missed : report.first <= t /\ t <= report.last}

(* A verdict is about what trading yielded over 30 days and nothing else:    *)
(* none is given over a shorter time, over too many lost snapshots or a      *)
(* damaged one, or without an order; capital that flows in or out is never   *)
(* a gain or a loss, whatever snapshots are lost; and without such flows     *)
(* pass and fail are on their side of the lines.                             *)
GateHonest ==
  report.status \in {"pass", "fail"} =>
    /\ report.last - report.first >= WindowTime
    /\ Cardinality(Lost) <= 1 + ((100 - MinCoverage) * WindowTicks) \div 100
    /\ \A i \in DOMAIN snaps : report.first <= snaps[i].ts /\ snaps[i].ts <= report.last => snaps[i].sound
    /\ \E i \in DOMAIN ords : ords[i].status = "filled" /\ report.first <= ords[i].ts /\ ords[i].ts <= report.last
    /\ Inside(gains) = {} => report.status = "fail"
    /\ Inside(flows) = {} =>
         LET start == Deposit + Sum(flows, Between(flows, 0, report.first)) + Sum(gains, Between(gains, 0, report.first))
             yield == 100 * Sum(gains, Inside(gains))
         IN  IF report.status = "pass" THEN yield >= Threshold * start ELSE yield < BaselineLow * start

(* return.go: pending means that the first snapshot is less than 30 days old,*)
(* so that an account without a gap in its snapshots is judged after that.   *)
MatureJudged ==
  (report.status = "pending" /\ report.full /\ snaps # <<>>) => tm - snaps[1].ts < WindowTime
=============================================================================
