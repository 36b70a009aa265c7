----------------------------- MODULE SettleLoop -----------------------------
(***************************************************************************)
(* The settlement loop of the simulation driver (RunSettleLoop): every     *)
(* tick settles the open funding legs group by group, renders the report   *)
(* every few ticks, probes the accounts at the test networks and writes an *)
(* equity snapshot, while the RPC handlers open and close positions.       *)
(*                                                                         *)
(* Abstractions: a group (kind, symbol, venue) is its rank in the order of *)
(* settlement and holds one position, a hedge or a single long leg, of one *)
(* unit at the price 1; rates and prices do not change, and what the legs  *)
(* earn is left out of the snapshot.                                       *)
(***************************************************************************)
EXTENDS Integers, FiniteSets

CONSTANTS
  NumGroups,   \* groups of legs
  WithFacts,   \* groups whose rate has been collected
  WithPrice,   \* groups whose symbol has a ticker
  Exchanges,   \* test networks with a key
  Answering,   \* those that answer
  ReportEvery, \* ticks from one report to the next
  Hedges,      \* groups whose position is a long and a short leg
  Capital,     \* cash paid in
  MaxTrades,   \* bound: single legs opened and closed while a snapshot is taken
  MaxCash      \* bound: cash

Groups == 1..NumGroups

ASSUME LoopAssumption ==
  /\ NumGroups \in Nat /\ ReportEvery \in Nat \ {0} /\ Capital \in Int /\ MaxTrades \in Nat
  /\ MaxCash \in Int /\ WithFacts \subseteq Groups /\ WithPrice \subseteq Groups /\ Answering \subseteq Exchanges

VARIABLES
  db,       \* the store answers
  open,     \* groups with an open position
  cash,     \* the balance of sim_account
  loop,     \* where the goroutine of the loop is
  rest,     \* groups it has still to settle
  tick,     \* ticks, modulo ReportEvery
  early,    \* the probe at the start is under way
  seen,     \* the cash the snapshot has read
  was,      \* what the account was worth then
  trades,   \* single legs opened and closed since
  paid,     \* groups settled in this tick
  reported, \* the report was written in this tick
  saved,    \* accounts stored in this tick
  snapshot  \* the snapshot of this tick, with what explains it

lvars == <<db, open, cash, loop, rest, tick, early, seen, was, trades, paid, reported, saved, snapshot>>

NoSnapshot == [equity |-> Capital, was |-> Capital, unpriced |-> 0, trades |-> 0, written |-> FALSE]

LoopTypeOK ==
  /\ db \in BOOLEAN /\ early \in BOOLEAN /\ reported \in BOOLEAN
  /\ open \subseteq Groups /\ rest \subseteq Groups /\ paid \subseteq Groups /\ saved \subseteq Exchanges
  /\ loop \in {"off", "wait", "settle", "count", "report", "probe", "cash", "legs"}
  /\ tick \in 0..(ReportEvery - 1)
  /\ cash \in Int /\ seen \in Int /\ was \in Int /\ trades \in 0..MaxTrades
  /\ snapshot \in [equity : Int, was : Int, unpriced : Nat, trades : Nat, written : BOOLEAN]

LoopInit ==
  /\ db = TRUE /\ open = {} /\ loop = "off" /\ rest = {} /\ tick = 0 /\ early = FALSE
  /\ cash = Capital /\ seen = Capital /\ was = Capital /\ trades = 0
  /\ paid = {} /\ reported = FALSE /\ saved = {} /\ snapshot = NoSnapshot

-----------------------------------------------------------------------------
\* The market value of positions: the legs of a hedge cancel, a long leg counts its price.
Value(S) == Cardinality(S \ Hedges)
Step(from, to) == loop = from /\ loop' = to
Calm == UNCHANGED <<db, open, cash, trades>>
First == CHOOSE g \in rest : \A h \in rest : g <= h

\* The database goes down or comes back.
StoreFlips ==
  /\ db' = ~db
  /\ UNCHANGED <<open, cash, loop, rest, tick, early, seen, was, trades, paid, reported, saved, snapshot>>

\* AcceptSimOrder credits every leg +qty*ref if long and -qty*ref if short, as CloseSimOrder does with
\* the price of its ticker, or with nothing if there is none.
OpenCash(g) == IF g \in Hedges THEN 0 ELSE 1
CloseCash(g) == IF g \in Hedges \/ g \notin WithPrice THEN 0 ELSE 1

\* A position is opened, or closed, by an RPC.
Trade(g) ==
  /\ db
  /\ \/ g \notin open /\ open' = open \cup {g} /\ cash' = cash + OpenCash(g)
     \/ g \in open /\ open' = open \ {g} /\ cash' = cash + CloseCash(g)
  /\ cash' <= MaxCash
  /\ IF loop = "legs" /\ g \notin Hedges THEN trades < MaxTrades /\ trades' = trades + 1 ELSE UNCHANGED trades
  /\ UNCHANGED <<db, loop, rest, tick, early, seen, was, paid, reported, saved, snapshot>>

\* The pipeline starts the loop, and a probe at once; the process ends.
StartLoop ==
  /\ Step("off", "wait") /\ tick' = 0 /\ early' = TRUE
  /\ Calm /\ UNCHANGED <<rest, seen, was, paid, reported, saved, snapshot>>

StopLoop ==
  /\ loop # "off" /\ loop' = "off" /\ rest' = {} /\ early' = FALSE /\ trades' = 0
  /\ UNCHANGED <<db, open, cash, tick, seen, was, paid, reported, saved, snapshot>>

\* A tick: settleOnce lists the open funding legs.
Tick ==
  /\ Step("wait", IF db THEN "settle" ELSE "count")
  /\ rest' = IF db THEN open ELSE {}
  /\ paid' = {} /\ reported' = FALSE /\ saved' = {} /\ snapshot' = NoSnapshot
  /\ Calm /\ UNCHANGED <<tick, early, seen, was>>

\* Bug: a group without a rate ends the settlement.
NoFactStops ==
  /\ loop = "settle" /\ rest # {} /\ First \notin WithFacts /\ db
  /\ Step("settle", "count") /\ rest' = {}
  /\ Calm /\ UNCHANGED <<tick, early, seen, was, paid, reported, saved, snapshot>>

\* A group without a rate is passed over.
NoFact ==
  /\ loop = "settle" /\ rest # {} /\ First \notin WithFacts /\ db
  /\ rest' = rest \ {First}
  /\ Calm /\ UNCHANGED <<loop, tick, early, seen, was, paid, reported, saved, snapshot>>

\* SettleFunding of the group: its legs that are still open.
Settle ==
  /\ loop = "settle" /\ rest # {} /\ First \in WithFacts /\ db
  /\ rest' = rest \ {First}
  /\ paid' = paid \cup ({First} \cap open)
  /\ Calm /\ UNCHANGED <<loop, tick, early, seen, was, reported, saved, snapshot>>

\* Everything is settled, or the store fails and the rest of this tick is lost.
SettleEnds ==
  /\ rest = {} \/ ~db
  /\ Step("settle", "count") /\ rest' = {}
  /\ Calm /\ UNCHANGED <<tick, early, seen, was, paid, reported, saved, snapshot>>

\* Every ReportEvery-th tick, failed or not, renders the report.
Count ==
  /\ tick' = (tick + 1) % ReportEvery
  /\ Step("count", IF tick' = 0 THEN "report" ELSE "probe")
  /\ Calm /\ UNCHANGED <<rest, early, seen, was, paid, reported, saved, snapshot>>

RenderReport ==
  /\ Step("report", "probe") /\ reported' = db
  /\ Calm /\ UNCHANGED <<rest, tick, early, seen, was, paid, saved, snapshot>>

\* Probe.Run: the two networks one after the other, whatever the first one says; then persist.
Accounts == IF db THEN Answering ELSE {}

ProbeTick ==
  /\ Step("probe", "cash") /\ saved' = saved \cup Accounts
  /\ Calm /\ UNCHANGED <<rest, tick, early, seen, was, paid, reported, snapshot>>

ProbeEarly ==
  /\ early /\ early' = FALSE /\ saved' = saved \cup Accounts
  /\ Calm /\ UNCHANGED <<loop, rest, tick, seen, was, paid, reported, snapshot>>

\* snapshotEquity reads the account first.
ReadCash ==
  /\ Step("cash", IF db THEN "legs" ELSE "wait")
  /\ seen' = cash /\ was' = cash + Value(open)
  /\ Calm /\ UNCHANGED <<rest, tick, early, paid, reported, saved, snapshot>>

\* Bug: the legs without a ticker are taken at what the others are worth.
ReadLegsLoosely ==
  /\ Step("legs", "wait") /\ trades' = 0
  /\ snapshot' = IF db THEN [equity |-> seen + Value(open), was |-> was, unpriced |-> Value(open \ WithPrice),
                             trades |-> trades, written |-> TRUE]
                 ELSE snapshot
  /\ UNCHANGED <<db, open, cash, rest, tick, early, seen, was, paid, reported, saved>>

\* Then the open legs at the price of their ticker, 0 without one, and writes the sum.
ReadLegs ==
  /\ Step("legs", "wait") /\ trades' = 0
  /\ snapshot' = IF db THEN [equity |-> seen + Value(open \cap WithPrice), was |-> was, unpriced |-> Value(open \ WithPrice),
                             trades |-> trades, written |-> TRUE]
                 ELSE snapshot
  /\ UNCHANGED <<db, open, cash, rest, tick, early, seen, was, paid, reported, saved>>

LoopProceeds ==
  \/ Tick \/ NoFact \/ Settle \/ SettleEnds \/ Count \/ RenderReport \/ ProbeTick \/ ReadCash \/ ReadLegs

LoopNext ==
  \/ StoreFlips \/ \E g \in Groups : Trade(g)
  \/ StartLoop \/ StopLoop \/ LoopProceeds \/ ProbeEarly

LoopSpec == LoopInit /\ [][LoopNext]_lvars

\* The goroutine is scheduled and its ticker ticks.
LoopProgress == WF_lvars(LoopProceeds)

-----------------------------------------------------------------------------
(* Properties. *)

(* While the program and the store stay up no part of a tick is lost to the *)
(* failure of another: every leg that stays open and has a rate is settled  *)
(* again and again although other groups have none, the report is rendered, *)
(* the accounts of the networks that answer are stored although others do   *)
(* not, and the equity is measured.                                         *)
LoopKeepsUp ==
  <>[](db /\ loop # "off") =>
    /\ \A g \in WithFacts : <>[](g \in open) => []<>(g \in paid)
    /\ \A e \in Answering : []<>(e \in saved)
    /\ []<>reported /\ []<>snapshot.written

(* A snapshot reads cash and legs in two statements.  It differs from what   *)
(* the account was worth at the first one, cash and legs with the signs the  *)
(* ledger gives them, by the single legs that have no ticker and by no more  *)
(* than the single legs opened and closed between the two; hedges never      *)
(* disturb it.                                                               *)
SnapshotExplained ==
  LET off == snapshot.equity + snapshot.unpriced - snapshot.was
  IN  -snapshot.trades <= off /\ off <= snapshot.trades
=============================================================================
