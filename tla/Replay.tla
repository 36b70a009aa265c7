------------------------------- MODULE Replay -------------------------------
(***************************************************************************)
(* The gate that replays history: the windows in which the rate of a       *)
(* strategy was high, net of friction, and the verdict on them, which      *)
(* stops orders (replayGate) and is shown (GetReplayState).                *)
(*                                                                         *)
(* Abstractions: the facts of one kind and one symbol, at whole days; the  *)
(* names, notes and the list of windows of an answer are left out; a mean  *)
(* is kept as a sum and a number.                                          *)
(***************************************************************************)
EXTENDS Integers, Sequences, FiniteSets, FiniteSetsExt, Functions

CONSTANTS
  RateVenues,       \* those that have facts
  Local,        \* sim_local, the venue of a carry signal without one: it has none
  Readings,     \* rates
  Tier,         \* tierPct: the rate from which on it is high
  Friction,     \* frictionPct * 365: per year, of a window of one day
  Base,         \* replayStableBasePct
  HistoryDays,  \* ReplayHistoryDays
  MaxDay,       \* bound: days
  MaxHistory    \* bound: facts

ASSUME ReplayAssumption ==
  /\ IsFiniteSet(RateVenues) /\ RateVenues \cap {Local, "overall", "nobody"} = {} /\ Local # "overall"
  /\ Readings \subseteq Nat /\ Tier \in Nat /\ Friction \in Nat /\ Base \in Nat
  /\ HistoryDays \in Nat /\ MaxDay \in Nat /\ HistoryDays <= MaxDay /\ MaxHistory \in Nat
  /\ \A d \in 1..MaxDay : Friction % d = 0

VARIABLES
  strategy,    \* kind of the strategy
  today,   \* time
  hist,    \* the facts of its rate
  answer   \* the last answer of the gate or of GetReplayState

replayvars == <<strategy, today, hist, answer>>

Verdicts == {"falsified", "watch", "pass", "no_window"}
NoAnswer == [for |-> "nobody", verdict |-> "no_window", failed |-> FALSE]

ReplayTypeOK ==
  /\ strategy \in {"funding_hedge", "carry_asset", "other"} /\ today \in 0..MaxDay
  /\ hist \subseteq [venue : RateVenues, ts : 0..MaxDay, value : Readings]
  /\ answer \in [for : RateVenues \cup {Local, "overall", "nobody"}, verdict : Verdicts, failed : BOOLEAN]

ReplayInit ==
  /\ strategy \in {"funding_hedge", "carry_asset", "other"} /\ today = HistoryDays
  /\ hist = {} /\ answer = NoAnswer

-----------------------------------------------------------------------------
(* replay.go, over facts in the order of their times; a window is the set of its positions. *)

\* windowFrom: the sum of the readings of a window, net of friction.
WindowFrom(s, w) ==
  LET days == s[Max(w)].ts - s[Min(w)].ts
  IN  SumFunctionOnSet([i \in DOMAIN s |-> s[i].value], w)
        - Cardinality(w) * (Friction \div (IF days < 1 THEN 1 ELSE days))

\* The scan of ComputeReplay: the windows that have ended, and the run under way.
NoScan == [windows |-> {}, cur |-> {}]
Flush(scan) ==
  IF scan.cur = {} THEN scan ELSE [windows |-> scan.windows \cup {scan.cur}, cur |-> {}]
Scan(s, scan, i) == IF s[i].value >= Tier THEN [windows |-> scan.windows, cur |-> scan.cur \cup {i}] ELSE Flush(scan)
Scans(s) ==
  LET scan[i \in 0..Len(s)] == IF i = 0 THEN NoScan ELSE Scan(s, scan[i - 1], i)
  IN  scan

\* Bug: a window that goes on to the last reading is not counted.
WindowsEnded(s) == Scans(s)[Len(s)].windows

\* The windows of a sequence of facts, each a run of high readings.
WindowsOf(s) == Flush(Scans(s)[Len(s)]).windows

\* classifyReplay, of a mean that is weighted by readings.
Classify(net, samples) ==
  IF net <= 0 THEN "falsified"
  ELSE IF net <= Base * samples THEN "watch"
  ELSE "pass"

ComputeReplay(s) ==
  LET ws == WindowsOf(s)
      net == SumFunctionOnSet([w \in ws |-> WindowFrom(s, w)], ws)
      high == Cardinality({i \in DOMAIN s : s[i].value >= Tier})
  IN  [net |-> net, samples |-> high, verdict |-> IF ws = {} THEN "no_window" ELSE Classify(net, high)]

\* OverallReplay: the windows of all pairs together.
OverallReplay(pairs) ==
  LET net == SumFunctionOnSet([v \in DOMAIN pairs |-> pairs[v].net], DOMAIN pairs)
      high == SumFunctionOnSet([v \in DOMAIN pairs |-> pairs[v].samples], DOMAIN pairs)
  IN  IF high = 0 THEN "no_window" ELSE Classify(net, high)

-----------------------------------------------------------------------------
\* QueryFacts: of some venues, in the order of time, in any order at one time.
Queried(venues) == {f \in hist : f.venue \in venues /\ f.ts >= today - HistoryDays}
Rows(fs) ==
  {s \in [1..Cardinality(fs) -> fs] : Range(s) = fs /\ \A i, j \in DOMAIN s : i < j => s[i].ts <= s[j].ts}

\* A poll or the backfill stores a fact, the latter one of an earlier day; there is one at a time.
\* A strategy that is not configured has no rate.
RecordRate(f) ==
  /\ strategy # "other" /\ Cardinality(hist) < MaxHistory /\ f.ts <= today
  /\ \A g \in hist : g.venue = f.venue => g.ts # f.ts
  /\ hist' = hist \cup {f} /\ answer' = NoAnswer
  /\ UNCHANGED <<strategy, today>>

DayGoes ==
  /\ today < MaxDay /\ today' = today + 1 /\ answer' = NoAnswer
  /\ UNCHANGED <<strategy, hist>>

Answer(whom, verdict, failed) ==
  /\ answer' = [for |-> whom, verdict |-> verdict, failed |-> failed]
  /\ UNCHANGED <<strategy, today, hist>>

\* replayGate, for a signal of a venue: a carry without facts of its venue is judged by all of them.
ReplayGate(venue) ==
  LET asked == IF strategy = "carry_asset" /\ Queried({venue}) = {} THEN RateVenues ELSE {venue}
  IN  \/ strategy = "other" /\ Answer(venue, "no_window", FALSE)
      \/ strategy # "other" /\ \E fs \in Rows(Queried(asked)) : Answer(venue, ComputeReplay(fs).verdict, FALSE)
      \* One of the queries fails.
      \/ strategy # "other" /\ Answer(venue, "no_window", TRUE)

\* GetReplayState: the facts of all venues, by pair.
GetReplayState ==
  /\ strategy # "other"
  /\ LET pairs == [v \in {f.venue : f \in Queried(RateVenues)} |->
                     ComputeReplay(CHOOSE s \in Rows(Queried({v})) : TRUE)]
     IN  Answer("overall", OverallReplay(pairs), FALSE)

ReplayNext ==
  \/ \E v \in RateVenues, t \in 0..MaxDay, r \in Readings : RecordRate([venue |-> v, ts |-> t, value |-> r])
  \/ DayGoes \/ GetReplayState
  \/ \E v \in RateVenues \cup {Local} : ReplayGate(v)

ReplaySpec == ReplayInit /\ [][ReplayNext]_replayvars

-----------------------------------------------------------------------------
(* Properties. *)

\* The windows of a venue, as sets: high readings with no lower one between them.
High(fs) == {f \in fs : f.value >= Tier}
DaysBetween(f, g) == {t \in 0..MaxDay : (f.ts < t /\ t < g.ts) \/ (g.ts < t /\ t < f.ts)}
Together(f, fs) == {g \in High(fs) : \A h \in fs : h.value < Tier => h.ts \notin DaysBetween(f, g)}
Spans(fs) == {Together(f, fs) : f \in High(fs)}
Days(w) == LET span == {f.ts - g.ts : f, g \in w} IN CHOOSE d \in span : \A e \in span : e <= d
NetOf(w) == SumFunctionOnSet([f \in w |-> f.value - Friction \div (IF Days(w) < 1 THEN 1 ELSE Days(w))], w)
NetOfAll(fs) == SumFunctionOnSet([w \in Spans(fs) |-> NetOf(w)], Spans(fs))
Judged(net, high) == IF high = {} THEN "no_window" ELSE Classify(net, Cardinality(high))
Mean(fs) == Judged(NetOfAll(fs), High(fs))

(* The verdict on a venue is the one on the windows of its history, however  *)
(* its facts came in, and the verdict that is shown is the one on all        *)
(* windows: one that passes has a pair that the gate lets through, one that  *)
(* is falsified has a pair that the gate stops.  A query that fails stops    *)
(* nothing.                                                                  *)
ReplayExact ==
  /\ answer.failed => answer.verdict = "no_window"
  /\ answer.for \in RateVenues /\ strategy # "other" /\ ~answer.failed /\ Queried({answer.for}) # {} =>
       answer.verdict = Mean(Queried({answer.for}))
  /\ answer.for = "overall" =>
       /\ answer.verdict = Judged(SumFunctionOnSet([v \in RateVenues |-> NetOfAll(Queried({v}))], RateVenues),
                                  High(Queried(RateVenues)))
       /\ answer.verdict # "watch" /\ answer.verdict # "no_window" =>
            \E v \in RateVenues : Mean(Queried({v})) = answer.verdict
=============================================================================
