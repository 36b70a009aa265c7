# A verification development for arbcn

arbcn is a single-process Go service over PostgreSQL. It collects public market
facts, evaluates rules over them, sends alerts, and runs a *simulated* trading
account: rules that become active generate suggested orders, a person confirms
or closes them through RPC handlers, funding is settled every eight hours, and
a cash ledger follows every step. This directory holds TLA+ models of that
program, the TLC runs that check them, and TLAPS proofs about them. Paths below
are relative to the repository (`src/...` in `PROJECT.json`).

## 1. Inventory

| Component | State | Operations | Interacts with | Hard behaviour | What makes it correct |
|---|---|---|---|---|---|
| **Simulated-trading store** `store/pgstore/sim.go`, `sim_cash.go` | tables `sim_orders`, `sim_positions`, `sim_cash_flow`, `sim_account` | `InsertSimOrder`, `AcceptSimOrder`, `RejectSimOrder`, `CloseSimOrder`, `SettleSimPositionFunding`, `InitSimAccount`, lists | handlers, driver, boot | multi-statement transactions under READ COMMITTED, row locks, lock-order deadlock, failure between statements | no half hedge, status machine, audit trail pairs with legs, balance = sum of flows, capital paid in once |
| **SimService handlers** `simapi/service.go`, `mirror.go` | none of their own | `ConfirmSimOrder`, `CloseSimOrder`, read-only queries | store, testnet executor | status, legs and prices are read before the transaction that uses them | a stale read makes the call fail, never the ledger wrong |
| **Order generation** `sim/order.go`, `backfill.go`, `confirm.go` | none | `SignalToOrder`, `Generate`, `BuildLegs`, `SettleFunding`, `ConfirmDriftCheck` | driver, store | daily cap read before insert; threshold edges, NaN | rejected orders are kept as negative samples, caps hold |
| **Simulation driver** `sim/driver.go` | tick counter | `OnRuleActive`, `settleOnce`, `snapshotEquity`, weekly report | rule engine, store | first failing entity or group ends the round; snapshot from several reads | one order per activation and entity; every leg settled each tick |
| **Rule engine** `rule/engine.go`, `state.go` | `trigger_states`, `alerts` | `evaluateRule`, `transition` | facts, driver, exporter | three separate writes per transition, crash between them, backoff, one goroutine per rule | one alert per transition |
| **Alert delivery** `alert/alerter.go` | `alerts.delivered` | `sendRound`, `Run` | SMTP | at-least-once, batch of 100, backoff | every alert eventually delivered |
| **Heartbeat** `alert/heartbeat.go` | last success per source | `Track`, `Record`, `runSource` | scheduler, facts | late success against the age check, an insertion that never returns | a silent source is noticed |
| **Collection** `collect/sched.go`, `dedup.go` | dedup memory | `runSource`, `pollOnce`, `emit` | sources, facts | sink failure, in-batch duplicates, restart | no fact lost, no consecutive duplicate |
| **Facts exporter** `exporter/exporter.go` | trigger channel of one, last export time, `facts.md` | `Run`, `OnRuleActive`, `Export` | rule engine | dropped triggers, throttle, other writers of the file | the file catches up |
| **Live quotes** `quote/*.go` | hub map, one snapshot per SSE client | `Update`, `Snapshot`, `Handler`, `retryLoop` | two exchanges, browsers | reconnects, older quote after newer one | a client converges to the hub |
| **Testnet mirroring** `simapi/mirror.go`, `simtestnet/executor*.go` | `sim_order_executions` | `mirrorToExec`, `PlaceOrder` | exchange sandboxes | concurrent confirmations, answers lost or budget used up after placing or inserting, a crash in between | an order without a record has a summary that says so, or a process that went down; the local fill is not held up |
| **Testnet probe** `simtestnet/probe.go` | `sim_testnet_accounts` | `Run` | exchanges | none beyond retry | latest balance per source |
| **Migrations** `store/pgstore/migrate.go` | `schema_migrations` | `Migrate`, `listPending` | boot | concurrent boots, crash between files | each file once, in order |
| **Boot and wiring** `cmd/arbcn` | | `run`, `startPipeline`, `seedSimAccountRetry` | everything | restart at any moment, PG not ready yet | idempotent start |
| **Replay gate, performance, report** `sim/replay.go`, `return.go`, `report.go` | none | pure computations | facts, snapshots | numeric edges | agree with their definition |
| **Rule language** `rule/cond.go`, `parse.go`, `judge` of `engine.go` | parsed conditions | `ParseCond`, `Eval`, `judge` | rule engine, facts | lookback of the query against the windows of the aggregates | a text is the condition it says or is refused; a verdict is the one over all facts |
| **Dashboard** `dashboard/oppcalc*.go`, `insights.go`, `knowledge.go`, `internal/knowledge` | `knowledge_entries` | cards, insights, matches, evidence, seeding, review | facts | the same facts judged in four places, over limited queries | the places agree; a restart undoes no review |
| **Calculators, health** `dashboard/windowstats*.go`, `internal/rmb`, `httpapi/healthz.go` | boot error | window statistics, RMB conversion, `ServeHTTP` | dashboard, boot | what is told while a boot fails | |
| Acknowledgements, ledger entries, manual input, config, web, generated code | single-statement writes and reads | | | | |

The hazards of this code, each at its line, are listed in `PROJECT.json`
(`hazards`), with the properties that would catch them going wrong, or why
there is none.

## 2. What is modelled

### SimLedger: what the store promises

`order`, `leg`, `acct` and `price` are the tables `sim_orders`, `sim_positions`
with its rows of `sim_cash_flow`, `sim_account` with its `capital_in` row, and
the latest `ticker` fact per symbol. Every store operation is one atomic action:

| Action | Code |
|---|---|
| `Insert` | `Simulator.Generate` and `InsertSimOrder` |
| `Accept` | `AcceptSimOrder` with the legs of `BuildLegs` and `applyOpenCashFlows` |
| `Reject` | `RejectSimOrder` |
| `Close` | `CloseSimOrder` with the amounts the handler computes from its ticker reads |
| `SettleFunding` | `SettleSimPositionFunding` |
| `InitAccount` | `InitSimAccount`, on each boot |
| `Tick` | a ticker fact arrives |

Abstractions: one symbol per order kind; a leg is named by its order and side
(an order has at most one of each); quantities are 1, so an amount is a price
difference; the rows of `sim_cash_flow` for a leg are a count per kind and a
sum. Amounts are integers where the code uses `double precision`: rounding is not
modelled. Two statuses of the schema are absent: `expired` is written by no code,
and `confirmed` exists only inside the accept transaction (see SimTx).
`FillSimOrder`, `UpdateSimOrderStatus` and the pool variant of
`InsertSimPosition` have no caller in the running program.

### SimTx: the same operations statement by statement

`SimTx` extends `SimLedger` with sessions: two HTTP requests (`Clients`) and the
goroutine of the settlement loop (`Settler`). Each session is a record with its
program counter, the values it has read (legs, prices) and the row versions its
open transaction has written. `order`, `leg` and `acct` remain the *committed*
tables. A transaction publishes its writes in `Commit`; until then the rows it
wrote are locked (`LocksOrder`, `LocksLeg`, `held`), a statement that needs one
waits, and on resuming sees the committed row, which is READ COMMITTED. `Fail`
is any error return (query error, cancelled request, refused commit),
`DeadlockVictim` the PostgreSQL detector, `Crash` the death of the process with
implicit rollback; `BootSim` and `BootPlain` are starts with and without a sim
configuration. The verdict of the confirmation gate on the annualized spread is
left open, the one on the reference price is computed (`RefDrifts`).
PostgreSQL itself is external; its operators are marked so in the map.

`LedgerSpec` says that this detailed specification implements `SimLedger`'s: the
committed tables are the same variables, so the refinement mapping is the
identity, and a commit is one atomic step, every other session step a stutter.

### RuleEngine: rules, alerts and the orders they generate

`trigger` and `alerts` are the tables of the rule engine, `orders` the rows of
`sim_orders` of one day, `hit` the entities that satisfy each rule on the facts
now stored (the value of `judge`), `run` the goroutine of each rule with its
program counter and what it has read.

| Action | Code |
|---|---|
| `Evaluate` | `evaluateRule` up to the first write: facts and state are read and the branch of `transition` is chosen |
| `Announce` | `InsertAlert`, then the call of `onActive` |
| `SkipEntity`, `Stamp`, `ReadDay`, `InsertOrder` | `Driver.OnRuleActive` for one entity: `buildSignal` without or with a signal, `TodaySimNotional`, `SignalToOrder` and `InsertSimOrder` |
| `Put` | `PutTriggerState` |
| `DriverFails`, `EvaluationFails` | an error in the driver, which its caller logs; an error in the engine, after which `runRule` backs off |
| `Retire` | an order is closed or rejected |
| `Facts`, `Start`, `Crash` | the environment, boot, and the end of the process |

Every order has the same size, since the driver never gives a notional: the
daily cap is a number of orders (`DailyMax`). The gates other than the cap are a
free verdict. All stamps fall on one day, and the clock neither steps back
nor gives two signals one instant; a wall clock that steps back would let
orders slip past the sum of `TodaySimNotional`, which this model does not show.
The length of the backoff and of the intervals is not modelled: an evaluation may
come at any time. `epoch` is a history variable that names activations.

### The monitoring half: Collect, AlertDelivery, Exporter, Backfill, Quotes

**Collect** is the scheduler with its deduplication and the heartbeat that
watches it. Per source one goroutine polls, filters, stores, remembers and records,
another one writes the age of the last success.

| Action | Code |
|---|---|
| `Turns` | a source stops answering, or answers again |
| `Poll`, `PollFails` | `pollOnce` until the source answers |
| `Filter`, `Sink` (`SinkFails`, `SinkUnsure`), `Remember` | the three parts of `dedupSet.emit`: critical section, sink, critical section |
| `SinkHangs`, `HangEnds` | an insertion that does not return, since the context of `emit` has no limit of time; it may hang for ever |
| `Record` | `OnSuccess`, which is `Heartbeat.Record` |
| `Elapse`, `Beat` | `Heartbeat.runSource` on its own timer |
| `StopCollect`, `StartCollect` | the memory is lost; `Track` starts every age at the boot |

`SilenceReported` says that the heartbeat of a source that stops succeeding, whatever the reason (it stops answering
after any number of successes, or its goroutine never returns from an insertion), shows an age beyond its threshold.

**FactFeed** is what collection promises the rest of the program: rows that grow
in the order of their readings, and an announcement only for what is stored.
`ImplementsFeed == Feed!FeedSpec` with `Feed == INSTANCE FactFeed` is the
refinement: `log` is the variable `log`, and the newest announcement is `told`;
`Sink` and `SinkUnsure` are `Store`, `Record` is `Announce`, everything else stutters.

**AlertDelivery** is a round of the alerter: `List` (`PendingAlerts`), `Send`
(with `SendFails`, `SendUnsure`), `Mark` (with `MarkFails`), and its end, over
`alerts.delivered`. An alert is its rank in the order it is listed in; `Refused` are alerts the
server never takes, so that one that always fails stays at the head of every batch.

**Exporter** is `Run` with its select (`SelectDue`, `SelectTrigger`), the
trigger channel of one event (`OnRuleActive`), the throttle, and `Export` in the
three parts between which others edit `facts.md`: `ReadFacts`, `ReadFile`,
`WriteFile`. `Rendered` is the whole algebra of the section: append, replace,
truncate, and what becomes of a section without end marker.

**Backfill** is the backfill of the funding history at boot, venue after venue: pages with
their cursor in both directions (`GetPage`, `GetLastPage`, `NextCursor`),
the limited query of what is stored (`QueryExisting`), `UncoveredFacts`, and the
insert, which may store without an answer (`InsertUnsure`), while the scheduler stores
facts of its own in the same table (`StoreLive`).

**Quotes** is one feed (`Dial`, `ReadFrame`, `Disconnect`, `Reconnect` with its backoff), the
hub, and the handler of one browser (`ConnectBrowser`, `Tick`, `Push`, `Disconnected`).

### The server half: Boot, Mirror, SettleLoop, RuleLang, Measure, Replay, Evidence, Report

**Boot** is `run` and `startPipeline` for several processes on one database:
`Pool`, `Ping`, `Lock`, `ListPending`, `Apply` (a file with its record, in a
transaction), `Unlock`, `LoadSources`, `Wire`, `Seed` (`seedSimAccountRetry`),
`SeedRules`, `NewEngine`, with crashes, an unreachable database, restarts by
systemd, and `Health`, the answer of `/healthz`.

**Mirror** is a confirmation with its legs mirrored to a test network: `Read`, the gate, per leg
`SkipLeg`, `PlaceAnswered`, `PlaceRefused`, `PlaceUnanswered` or `PlaceFails`, then one of `Record`, `RecordRefused` (the
store refuses a quantity of 0), `RecordFails` and `RecordUnanswered` (the row is inserted, but the budget or the client cuts its
answer off, and the summary says that it failed), at last `Accept`. `ReadFails`, `GateFails` and `AcceptFails` are the errors the
handler returns when a statement of the store fails, with or without effect; `ClientLeaves` and `BudgetEnds` come at any moment, and so
does `ServerDies`, which takes every request with it and leaves it open whether an insertion or an update under way took effect. `orders` is
what the exchange has, `rows` is `sim_order_executions`, `ended` what the summary of a request says of each leg.
`MirrorAccounted` says how these three fit together: every row is of an order in the state it was read back in, every
order is placed and recorded once per request and leg, and an order without a row is of a leg just placed, of a request that went
down with the process, or of a leg whose summary says that there is no record. `FillNotHeldUp` excuses the departure of the client,
the end of the process and a failure of the store in the handler itself, and nothing that the mirror does.

**SettleLoop** is `RunSettleLoop`: `Tick`, the groups one by one (`NoFact`,
`Settle`), `Count` and `RenderReport`, `ProbeTick`, and the snapshot in its two reads (`ReadCash`,
`ReadLegs`) with positions traded in between (`Trade`). The balance moves as the store moves it, with the sign that `applyOpenCashFlows`
has and not the one its comment wants: opening a long leg credits it (`OpenCash`), and so does closing
it at the price of its ticker (`CloseCash`); `was` is what cash and legs came to at the first read, and `SnapshotExplained` compares
the snapshot with that; `ProbeEarly` is the
probe at the start. SimTx has the settlement of one group statement by statement; here it is one step.

**RuleLang** has the grammar (`ParseCond` over sequences of tokens, written like the
recursive descent), the aggregates (`AggValue`), `Lookback` and `Judge`, as operators,
and a small state machine around them: a rule is loaded, readings come in, a round
queries and, time having passed, judges. The rows of a query are the positions of their facts
in the table, which only grows. The reference definitions say the same without
positions and without a parser: `Says` is the grammar, by which tokens say a condition if they can be cut
into parts that say its parts (`SaysAnd`, `SaysCmp`, `SaysOperand`, `SaysAgg`, with all ways to cut them in `Cuts`), as `cond.go:7-11`
documents it, the shift of an aggregate behind its scope; and
`Meant` is the condition over the set of all facts stored before the query. `ParsedAsDocumented` compares the parser with the
first: what is parsed is what the text says, to its last token, the text says nothing else, and no text that says a
condition is refused. It fails on texts with both a scope and a shift, which the parser wants in the opposite order: that is the run `shift`.
`ParsedExactly` is the same for every other text (`ShiftsUnscoped`). `VerdictsExact` says when the two agree: when the query was not cut
off (`QueryMax`), and, for a rule judged entity by entity, when each conjunction looks at facts (`Looks`), since an
entity without facts is never judged.

**Measure** is the gate on real money: snapshots, flows and gaps, `Twr`, `MwrErr`,
`Coverage`, `Trust`, `Gate`, put together by `GetPerformanceReport` as the RPC does.
**Replay** is the gate that replays history (`ComputeReplay`, `OverallReplay`, `ReplayGate`,
`GetReplayState`), with the windows defined once more as sets. **Report** is the
weekly report: `DedupSettleBuckets`, `HalfLife`, `ComputeSeries`, and the file
written through a temporary one. **Evidence** is what the dashboard tells of the same facts in
four places: cards, insights, knowledge matches and the evidence of a review, over `Asked`, the limited
query, with the seeding and the review of `knowledge_entries`.

In all four money and rates are integers, and a mean is a sum and a number, compared by
cross-multiplication; where the code annualises, which grows with the return
over a given time, the return itself is compared.

### Composition

`MCTrade` joins `SimLedger` and `SimTx`, `MCMonitor` and `MCServer` the modules of their half. Their components share no
state that the models keep (what they have in common, the database and the process, each has as
its own variable of being up), so that a behaviour of `TradeNext`, `MonitorNext` or `ServerNext` runs one of them, chosen by
`part`, while the others stand at their initial state: the checks cover each
component alone instead of the product, and no behaviour of any of them is lost.
Where components do meet, one module has both: engine and driver in `RuleEngine`, handlers and
settlement in `SimTx`, scheduler and heartbeat in `Collect`, scheduler and backfill in `Backfill`,
loop, probe, report call and handlers in `SettleLoop`.

## 3. Runs

| Run | Question | Bounds |
|---|---|---|
| `trade` | do the atomic operations keep the tables consistent, and does every request and settlement group come to its end? | operations: 2 orders, prices {90, 110}, funding amounts {-1, 2}, one funding per leg, capitals {1000, 2000}; sessions: 2 clients and the settler, one order, price, capital and amount, no symmetry |
| `equity` (violation) | does the identity of D-056 hold? | 2 orders, prices {90, 110}, all kinds quoted |
| `sessions` | do the handlers and transactions implement the atomic store? | 2 clients and the settler, 2 orders, one price, one funding per leg |
| `late_funding` (violation) | is funding booked on open legs only? | as `sessions` with 1 order, no symmetry |
| `rules` | what do rule goroutines guarantee when their writes fail, the process restarts and orders race for the daily cap? | 2 simulated rules, 2 entities, room for 1 order, 3 signals, 2 alerts of a rule |
| `dup_orders` (violation) | at most one order for an entity in an activation? | as `rules` |
| `monitor` | do collection, alert delivery, exporter, backfill and quotes keep what they promise, and catch up? | 1 source with 2 readings and 2 faults; 3 alerts, 1 of them refused, batches of 2; 1 foreign line, sections of 2 snapshots, throttle 1; 2 venues, one paged backwards, pages of 2, 4 settlements from number 2, queries of 3 rows; 3 quotes, backoff to 4 |
| `server` | do boot, mirror and settlement loop survive any failure, and do language, gates, replay, report and evidence compute what they say? | 2 processes, 2 files, 2 tries; 2 confirmations; 3 groups (a hedge, a priced and an unpriced long leg), 2 networks, one silent; 4 conditions and their texts with one edit, a shift among them; windows of 3 snapshots; 3 days of history; 3 rows of evidence; 2 periods of settlement |
| `shift` (violation) | is a text read as the documented grammar says? | as `server` |
| `mirror_unrecorded` (violation) | is a mirror that was refused or failed put on record? | as `server` |
| `gate_pending` (violation) | is a series older than the gate's window judged? | as the gate of `server` |
| `stale_evidence` (violation) | is the last row of a venue its newest fact? | 3 rows, queries of 2 |

Why the bounds are enough. Two orders are the fewest for one balance to be
shared; operations on different orders touch no other common row, so a third adds only
more of the same interleavings. Two prices separate entry and exit price in both
directions; the two funding amounts have opposite signs. Two clients are the
fewest that race for one order, and with the settler there are three transactions
competing for the account row, which is enough for the only lock cycle the code
allows (close against settlement). In `sessions` one price is enough because
amounts are covered by `trade`; `Par` differs from that price so that a missing
ticker stays distinguishable. `MaxFundings` bounds only how often one leg is
settled. In `trade` the sessions have one order, the fewest
for a close to meet a settlement or another close, because waiting is for the rows of one order and the account; the orders of the
operations differ in nothing but their kind, so they are taken in one order of their kinds (`InTurn`). GC001
has no ticker source, so `Quoted` omits `repo`, except in `equity` (manual input).

In `rules` two goroutines are the fewest that race for the cap. Room for one
order and three signals let the cap be reached, overshot by the other goroutine,
and refused to a third signal, also after an order was closed; two alerts of a
rule allow an activation to be repeated or resolved once, and two entities let
the driver fail between them.

In `monitor` one source is enough, since sources share neither memory keys nor goroutines; two readings and two
faults allow a reading to be stored, forgotten and stored again, and told from the next one.
Three alerts are one more than a batch, and one of them blocks its head. Two
snapshots in a section and three versions of the facts overflow it. The window of the
backfill starts behind the first settlement and ends in the middle of a page in
both directions, and a query of 3 rows is cut off by 4 settlements. A backoff of 4 s doubles twice. In `server` two processes are the fewest that race for the migrations,
two confirmations for one order (which place it twice, as the code does); both networks, both kinds and all refusals are initial
states or steps, and one filled answer is enough there since the theorem
`MirrorsAccounted` covers the others. The texts of the rules are those of
`defaults.go` in kind (an average against a shifted one, a change on both
sides, a factor between two scopes, a percentile) and every text one token or one shift away
from them. A hedge, a long leg with a ticker and one without are the three ways in which a position
moves cash and snapshot. Rates of -8 and 230 against costs of 219 let a report pass over one period and fail over a longer time with the same sum. Windows of 3 snapshots put the 90 % of `GateMinCoverage` between one lost snapshot and two.
Each pure computation sees every input within its bounds.

Symmetry is used for safety only. Deadlock checking is on everywhere but in `server`, `shift`,
`mirror_unrecorded`, `gate_pending` and `stale_evidence`: there the components that only compute come
to the end of their bounded inputs, a process refuses to boot, or a confirmation
is over, and rightly nothing happens any more.

**Fairness** (`LiveSpec`, the last conjunct of `TradeSpec`). A session that has been started keeps going: its
goroutine is scheduled and PostgreSQL grants a row lock in arrival order, hence
strong fairness of `Step(s)`; the deadlock detector runs whenever there is a
cycle, hence weak fairness of `DeadlockVictim(s)`. New requests, ticks, facts, failures and
crashes are not assumed to happen.

In `monitor` and `server` every goroutine is scheduled and every timer fires: weak
fairness of its steps (`CollectProgress`, `DeliveryProgress`, `ExporterProgress`,
`QuotesProgress`, `BootProgress`, `MirrorProgress`, `LoopProgress`); a failed step counts as one, as the code goes on
after it. A process that gave up is started again by systemd (`Restart=on-failure`, `docs/handoff/decisions.md:622`);
of one that crashed this is not assumed. A confirmation under way goes on while its process lives; no fairness makes the exchange,
the client or the store answer. `Persistence` adds strong
fairness for what depends on the other side: a poll, an insertion, a mail, a
dial that is tried again and again does not fail every time, a poll as long as its source answers and an insertion as long as
none hangs: neither is assumed, and `ReadingsArrive` has them as premises where `SilenceReported` is about their absence. Without it nothing could
arrive, with it the properties say that no attempt is missing, and that no state of the program (a backoff, a
throttle, a full batch, a memory) keeps the next attempt from coming or from counting. One
conjunct of it joins actions of different components, of which only one runs. Liveness is claimed
only under `<>[]`: once the program, the database or the mail server stays up.

### Findings

* `equity`: `applyOpenCashFlows` (`sim_cash.go:63-67`) credits `+qty*ref` for a
  long leg; the comments at `sim_cash.go:51-52`, `store.go:255` and the migration
  `0009_sim_cash.sql:6` say `-qty*ref`. For a hedge the two legs cancel, for a
  single-leg order the equity identity is off by twice the notional.
* `late_funding`: `SettleSimPositionFunding` selects the leg by id alone, so a leg
  closed after the settlement listed it still receives funding, against
  `backfill.go:101-102` and `sim_cash.go:74-75`.

* `dup_orders`: `transition` (`state.go:31-47`) writes the alert, generates the
  orders and only then records the state. A failure or restart before the last
  write repeats the orders of the same activation, against `driver.go:70`.
  `OrdersFollowAlerts` is what remains true: each repetition has its own alert.

* `gate_pending`: `GetPerformanceReport` asks for the snapshots of the last 30 days
  (`performance.go:32-36`) and the gate for a first snapshot that is 30 days old (`return.go:294`): unless one
  falls on the very instant, the verdict is `pending` forever, against `return.go:32`.
* `stale_evidence`: `QueryFacts` without a limit returns the *oldest* 1000 rows
  (`pgstore.go:68-78`), and insights and evidence take the last of them for the newest.
* `shift`: `parseAggFrom` cuts the shift off the token before the scope is read (`parse.go:154`), so `avg_2d@1d(v, s)` is read and
  `avg_2d(v, s)@1d` refused; the grammar of the package (`cond.go:11`) has the two the other way round.
* `mirror_unrecorded`: a mirror that is refused or fails has quantity 0 (`executor.go:184-200`, `executor_okx.go:38-60`),
  which `InsertSimExecution` refuses (`sim_execution.go:25-27`): it leaves no record, against
  `mirror.go:20`, `:29-30` and the migration `0012_sim_executions.sql:4`.

Seen while modelling, each contained in a model as the code has it, without a run of its own:

* `pgxpool.New` leaves its error in `err`, which `LoadSources` (`main.go:89`) assigns again before `main.go:107-108` makes
  it the boot error: with a DSN that does not parse `/healthz` pings a nil pool instead of answering `boot_error`, as `healthz.go:24-27` says
  it does (`Pool`, `LoadSources` and `Health` of Boot).
* The state of a rule is one for all its entities: an entity that starts to match while another keeps the rule active gets neither
  alert nor order (`state.go:26`; `Evaluate` of RuleEngine).
* The budget of `mirror.go:20` may end between a fill and its record, or between a record and its answer, and a crash there leaves an
  order that nothing shows; two confirmations of one order place it twice.
* With all rates of a symbol equal, `evidenceCrossVenue` keeps no widest symbol and asks `minMax` for the least of
  no rates (`knowledge.go:328-346`, `:399`), which panics (`CrossVenueEvidence`): neither the list of the knowledge
  base nor a review of that entry is answered while that lasts. `knowledgeMatches` ignores the status of an entry.
* The weekly report promises the mean rate over n - 1 periods and compares it with n
  (`report.go:73-98`): at a constant rate the residual is one period and its half-life infinite; a report of one period annualises over 1e-9 days.
* The carry gate merges the facts of all venues (`replay.go:252-256`); a full window of 30
  days holds 91 snapshots where 90 are expected.
* The backoff of a feed is never reset, since `connect` always returns an error (`feed.go:41-69`, against the comment at `:65`), and that of the scheduler starts at 2 s
  (`sched.go:24/130`). After a boot `Track` makes a source that never answered look alive
  for its threshold. A fact that a batch lists twice is stored
  twice when its key is known already (`dedup.go:45`, against `:35-36`). An insertion that never returns stops its source until a restart, which only the heartbeat tells.
* An export loses what others wrote behind a section whose end marker was removed
  (`exporter.go:178`), and what they write while it runs.
* A snapshot counts legs without a ticker as 0 (`driver.go:255-257`); a group that fails
  takes the later ones of its tick with it (`driver.go:327-338`), and a program
  restarted more often than every 8 hours settles nothing.
* The predecessor of a `chg` is looked for a day back, further if another aggregate of the
  condition looks further (`cond.go:17`); `VerdictsExact` is stated `Within` that day.
* `ConfirmDriftCheck` never triggers on a generated reference or spread below 0 (`confirm.go:39/45`).

## 4. Proofs

Eight modules of proofs, over whatever values of the constants satisfy the `ASSUME` of a module:

| Module | Proves about |
|---|---|
| `FiniteSums` | sums and greatest elements of finite sets, for the others |
| `SimTxProofs` | `SimLedger`, `SimTx`, and that `SimTx` implements `SimLedger` |
| `RuleEngineProofs` | `RuleEngine` |
| `MonitorProofs` | `Collect` (and that it implements `FactFeed`), `AlertDelivery`, `Exporter`, `Backfill`, `MCMonitor` |
| `MeasureProofs` | `Measure` |
| `ReportProofs` | `Report`, `Replay` |
| `LangProofs` | `RuleLang` |
| `ServerProofs` | `Boot`, `Mirror`, `SettleLoop`, `Evidence`, `MCServer` |

**FiniteSums.** Ledgers, measurements and replays are sums, and the provers know nothing of
`SumFunctionOnSet`. The module proves once, for any finite set, that a sum exists and is an
integer, moves by as much as one of its terms, splits over disjoint sets, does
not see zeroes, and may be taken over images under a one-to-one map. An induction principle with
an operator for its property cannot be cited; `AllNaturals` and `AllSubsets` have a *set* of good
numbers or subsets instead, and rest on a least counterexample.

**SimTxProofs**, first the ledger, for every set of orders, prices, capitals and funding amounts:
`TypeCorrect`, `LedgerSafe` (`LegsFollowOrder`, `FlowsFollowLegs`, `HedgeIdentity`,
`CapitalOnce`), `HistoryIsKept` and `BalanceConserved` (`CashConserved`).

The inductive invariant is `LedgerInv`. It adds
to the wanted properties that a leg never opened is all zero (`EmptyLegs`), since
`Accept` writes fresh rows, and that what a hedge paid equals what it booked at
*every* moment (`HedgeBalanced`), from which `HedgeIdentity` follows at each
price: `Accept` adds `ref - ref`, `SettleFunding` adds the same amount on both sides,
`Close` adds `p - q` on both sides whatever two prices it read, because both are
prices (the guard of `Close`, which `SimTx` discharges by `HedgesPriced`).
`CapitalOnce` needs that an account not yet paid in has
`funded = 0`. The proof has one lemma per action that writes legs (`AcceptStep`,
`CloseStep`, `SettleStep`), field lemmas for each row operation, and one lemma for
the account. For `CashConserved` each action moves the balance by what the flows of its legs move,
one leg after the other, so that `SumMoves` applies; the set of orders must be finite
(`OrdersAssumption`).

Then the handlers (`TxSafe`, `TxTypes`, `TxImplementsLedger`, `HandlersKeepPromises`), for any set of clients,
with row locks, failed statements, deadlocks, crashes and restarts. `TxInv` is inductive as the run
`sessions` checks it: no row has two writers (`OneWriter`); what a session has staged is what the
place it stands at says (`Progress`); what it read under a lock still stands (`Undisturbed`); a close
covers all legs of its order (`ClosesWhole`) and a hedge is closed at prices (`HedgesPriced`); a settlement
pays a group once (`PaysOnce`). One lemma per statement shows it kept; three for `Commit` (`CommitAccept`,
`CommitClose`, `CommitSettle`) show that the staged rows are the result of `Accept`, `Close` or
`SettleFunding` of the ledger, the fact the refinement consists of. `HandlersKeepPromises` then
carries the theorems about the ledger over to the interleaved handlers.

**RuleEngineProofs**, for every set of rules, simulated rules, entities and
every cap: `EngineTypeCorrect`, `CapInvCorrect` and from it `CapHolds`, `NothingHidden`
(`Announced`), `OrdersHaveAlerts`.

`CapOvershoot` bounds the orders that count by `DailyMax` plus the number of
simulated rules less one. It is not inductive: the sum a goroutine has read may
be stale by any number of orders stamped *later* than its own signal. `CapInv`
therefore looks at one instant at a time (`LateOrders`). For the signal of a
goroutine about to insert, the counted orders stamped before it, plus the
goroutines in flight with an earlier stamp, exceed the sum it read by at most
one for each other rule; for a counted order they are at most
`DailyMax - 1` plus that number. A new signal is stamped later than all others
and changes no earlier instant (lemma `Stamping`); a goroutine reading the sum can
only miss the other goroutines (`Reading`); an insert turns a goroutine
in flight into an order, which leaves each sum as it was (`Inserting`); an order
that is retired lowers it (`Retiring`); everything else only lands goroutines
(`Landing`). The bound follows at the latest counted order (`BooksBound`). These
lemmas are about plain values (`Books`), which keeps primes out of them;
`CapInvIsBooks` connects them with the states. For `NothingHidden` the invariant is
`AlertFirst`: a goroutine past its alert is about to record what the last alert
of its rule says, or the state the rule already has. For `OrdersHaveAlerts` it is
`OrdersCovered`, which counts, for each rule and
entity, the order that a goroutine still owes: the orders placed, plus one while the entity
is on the list of `OnRuleActive`, are at most the rule's alerts of an activation.

**MonitorProofs**, component by component, and `MonitorTypes`, `MonitorKeepsPromises` for `MCMonitor`:

* *Backfill* (`BackfillTypes`, `BackfilledOnce`): the invariant is `HistoryOnce` itself with the types. Its part
  `PolledSoFar` says exactly which settlements are polled when the cursor stands where it stands, in
  both directions; `FreshInsert` that what is about to be inserted is not stored, except where a query was cut off.
* *AlertDelivery* (`DeliveryTypes`, `EveryMailAccounted`): the alerts of a round stay pending until
  marked (`RoundIsFresh`), because nobody else marks, and the alert being marked
  is the only one mailed without a mark or an excuse (`MailsCounted`).
* *Exporter* (`ExporterTypes`, `SectionStaysInOrder`, `LinesOfOthersKept`): by `XInv` no snapshot in the file
  or in the hands of an export is newer than the facts, what an export is about to write goes after what
  it read, and unless somebody damaged the markers the section is closed and in order. Lines of others
  are lost only if they came between the read and the write (`raced`).
* *Collect* (`CollectTypes`, `RepeatsAreExcused`, `CollectFeeds`): the invariant `CollectInv` is about one source at
  a time. No row is ahead of the source and no announcement or memory ahead of the rows; a poll under
  way is of one reading that no row is ahead of (`Polled`); and one row more is
  already excused whenever the memory does not know the newest row (`Excuses`), which is what the next
  store may need. From it follows the refinement: `CollectSpec => Feed!FeedSpec`.

**MeasureProofs** (`MeasureTypes`, `GateIsHonest`), for any capital, gains, flows, length of the window and thresholds.
`BooksInv` says that snapshots stand at even times, in order, unsound exactly where one was
damaged or lost, and that the value of the account is the deposit plus flows plus gains. Hence the equity of a
sound snapshot is the worth at its time (`WorthAt`) and a return over a span between sound
snapshots is what was gained in it; a chain of links without gain is one; and a window of so many ticks
has so many even times, which is what coverage is counted against.

**ReportProofs** (`ReportTypes`, `ReportIsExact`; `ReplayTypes`, `ReplayIsExact`). The file is the returned report or the one
of a week before, whole, because the temporary file is whole before it is renamed (`WholeInv`). The rows that `DedupSettleBuckets`
keeps are the first of each period, whatever the order of equal times; the quotient for half-life and series is
compared over sums that `SumThrough` takes from rows to periods. `Demanded > 0` is needed: with nothing demanded a pair without
rows would pass. For the replay, the scan after i rows is a function of the positions of the high readings
(`IsScan`): the runs that have ended, and the one that ends at i. The sums over positions are those over the facts, in
whatever order facts of one time are returned, because a venue has one fact at a time. That a pass or a failure for all venues is one of some
venue is the mediant inequality (`PartAbove`, `PartBelow`): if every part were on the other side of the line, so
would be the sum.

**LangProofs** (`LangTypes`, `TextsSayOneThing`, `ParsedIsExact`, `VerdictsAreExact`), for any texts, facts, scopes and times.
The parser looks at a list from its last token backwards, so `ListsExist` shows its recursive function defined and
`ListParses` that it returns parts that each parsed; `CondParses` adds the check on mixed sorts. A rule that runs is
therefore one of `Rules`, which `LangInv` keeps. Parser and grammar are compared part by part, in both directions: what
is returned for an aggregate, an operand, a comparison, a conjunction is what its tokens say (`AggSound` to
`AndSound`), and tokens that say a part, before a sign that does not go on with it (`Closes`), are
returned as that part (`AggComplete` to `AndComplete`). Both hold for texts with no aggregate that has scope and shift
(`ShiftsUnscoped`), since on the others the two orders differ. That sign is what makes the grammar unambiguous: a number is no
factor, an aggregate without scope has none, a list has no further part. For lists, `Trail` has the places between the parts; `ListSound`
finds them from the last token backwards and `ListComplete` goes along them, by induction on how many they are, and
`CutMade` and `CutIs` say that they are the cuts of the grammar. Hence a text says at most one condition of one sort, and the
parser finds it (`TextsSayOneThing`); that what runs is what the parser returned is the invariant `ReadInv`.
What a query fetched at its time reaches back `Lookback` (`LookbackIs`), so
each window is whole at any later clock (`FactsInv`, `GotInv`), and facts that come in meanwhile have positions
after `asked`. The positions of one entity correspond one to one to its facts (`TimedOneToOne`), the newest
fact being at the greatest position (`NewestIs`); sums are taken across by `SumThrough` (`SumIs`), the value at the rank of
the sorted window is the least value that a quarter does not exceed (`QuartileIs`), and the row before the last is the newest earlier
fact if it is within a day (`ChangeIs`). `OperandExact` and `EvalExact` put them together.

**ServerProofs**, component by component, and `ServerTypes`, `ServerKeepsPromises` for `MCServer`:

* *Boot* (`BootTypes`, `MigrationsInOrder`): while a process holds the lock
  (`Held`), nobody else applies files, so its list stays the files not recorded; what is
  recorded is always the first n files.
* *SettleLoop* (`LoopTypes`, `SnapshotsExplained`), for any set of hedges and of priced groups: between the two reads the cash that was read, with
  what the legs are worth now, differs from what the account was worth at the first read by at most the single legs opened and
  closed since (`LInv`), and the legs with and without a ticker are all of them (`Priced`).
* *Mirror* (`MirrorTypes`, `MirrorsAccounted`), for any number of confirmations: a request has nothing at the exchange, on record or
  in its summary of the legs still before it (`OutcomesLater`, `OrdersLater`), and a result with a quantity was read back
  from an order at the exchange (`ResultBacked`), so that also what is inserted without an answer, or as the process ends, is the row of that order (`MInv`).
* *Evidence* (`EvidenceTypes`, `JudgementsAgree`): the newest row of a venue is the same fact for every place that looks
  (`ToldInv`), a limited query that misses a venue is the only reason to differ, and a review stands until the next one (`EntryInv`).

Only model-checked: all liveness (`EveryoneReturns`, `ReadingsArrive`, `SilenceReported`, `AllDelivered`, `CatchesUp`, `QuotesConverge`,
`BootsInTheEnd`, `FillNotHeldUp`, `LoopKeepsUp`): a step under fairness has to be shown `ENABLED`, which the provers cannot do.

## 5. Plan

Done: `SimLedger`, `SimTx`, `RuleEngine`; `Collect` with `FactFeed`, `AlertDelivery`,
`Exporter`, `Backfill`, `Quotes`; `Boot`, `Mirror`, `SettleLoop`, `RuleLang`, `Measure`,
`Replay`, `Evidence`, `Report`; the proofs of section 4.

Left:

1. `AckAll` of the dashboard, with the alerts that were never listed.
2. The mail of a round composed with the rules that write alerts, to bound how long an alert waits.

Runs stay small: two or three actors, one or two keys, bounded counters named in
the module that has them.

## 6. Not modelled, and why

* HTTP fetching and parsing of the data sources, signatures of requests, the SMTP and
  WebSocket protocols, JSON and protobuf conversion, and rendering (dashboard, report,
  web) are I/O and layout. What a source, an exchange or a server may answer is
  a free choice of the models.
* Manual input, ledger entries, acknowledgements and the plain lists are single statements that
  validate and store or read.
* `FillSimOrder`, `UpdateSimOrderStatus`, the pool variant of `InsertSimPosition`, `GetOrder`
  and `CancelOrder` have no caller in the running program.
* Floating-point rounding is outside TLC's arithmetic: NaN, infinities and the annualised
  figures appear only where a comparison depends on them. The spread of the residuals, the
  window statistics and the RMB conversion of the calculators are formulas without state.
* The lengths of intervals and backoffs, except the backoff of the feeds.
* Generated code has no logic of its own.
