----------------------------- MODULE RuleEngine -----------------------------
(***************************************************************************)
(* The rule engine of internal/rule and the driver of internal/sim it      *)
(* calls back: one goroutine per rule judges the facts, walks the state    *)
(* machine of the rule, writes alerts and, for the rules the simulation    *)
(* maps, generates one order per entity hit.  A transition is a row of     *)
(* alerts, the orders, and only then the new state, each a statement of    *)
(* its own that may fail, with a crash possible between any two.           *)
(*                                                                         *)
(* Abstractions: which entities satisfy a rule is the variable hit; every  *)
(* order has the same notional, since the driver never sets one; the gates *)
(* of SignalToOrder other than the daily cap are a free verdict; one day,  *)
(* on a clock that does not step back and tells any two signals apart; the *)
(* entities of a rule are visited in any order.                            *)
(***************************************************************************)
EXTENDS Integers, Sequences, FiniteSets

CONSTANTS
  Rules,       \* the enabled rules
  SimRules,    \* those the driver has a signal mapper or a white-listed symbol for
  Entities,    \* the (venue, symbol) pairs a rule is judged on
  DailyMax,    \* orders the daily cap has room for: MaxDailyPct / MaxSizePct, rounded down
  MaxSignals,  \* bound: signals built
  MaxAlerts    \* bound: alerts of one rule

ASSUME EngineAssumption ==
  /\ SimRules \subseteq Rules /\ SimRules # {} /\ IsFiniteSet(SimRules)
  /\ DailyMax \in Nat \ {0} /\ MaxSignals \in Nat /\ MaxAlerts \in Nat

VARIABLES
  up,       \* the process runs
  hit,      \* the entities that satisfy each rule on the facts now stored
  trigger,  \* trigger_states; a rule without a row is armed
  alerts,   \* the rows of alerts each rule has written, oldest first
  orders,   \* sim_orders of the day
  clock,    \* time, as the number of signals stamped
  epoch,    \* history: how often each rule has been put back to resolved
  run       \* the goroutine of each rule

evars == <<up, hit, trigger, alerts, orders, clock, epoch, run>>

States == {"armed", "active", "resolved"}

\* An order row; counts says that its status is one TodaySimNotional adds up.
Row == [rule : Rules, ent : Entities, ts : Nat, counts : BOOLEAN, epoch : Nat]

Goroutine ==
  [pc : {"off", "rest", "alert", "entity", "day", "insert", "put"},
   want : {"active", "resolved"},   \* the state the evaluation is to record
   todo : SUBSET Entities,          \* entities OnRuleActive has still to visit
   ent : SUBSET Entities,           \* the one it is at, if any
   ts : Nat,                        \* timestamp of the signal
   day : Nat]                       \* orders counted for the cap

(* The type invariant. *)
EngineTypeOK ==
  /\ up \in BOOLEAN
  /\ hit \in [Rules -> SUBSET Entities]
  /\ trigger \in [Rules -> States]
  /\ alerts \in [Rules -> Seq({"active", "resolved"})]
  /\ orders \subseteq Row /\ IsFiniteSet(orders)
  /\ clock \in Nat
  /\ epoch \in [Rules -> Nat]
  /\ run \in [Rules -> Goroutine]

At(pc) == [pc |-> pc, want |-> "active", todo |-> {}, ent |-> {}, ts |-> 0, day |-> 0]

EngineInit ==
  /\ up = FALSE
  /\ hit = [r \in Rules |-> {}]
  /\ trigger = [r \in Rules |-> "armed"]
  /\ alerts = [r \in Rules |-> <<>>]
  /\ orders = {} /\ clock = 0
  /\ epoch = [r \in Rules |-> 0]
  /\ run = [r \in Rules |-> At("off")]

-----------------------------------------------------------------------------
\* The goroutine of rule r becomes g.
Becomes(r, g) == run' = [run EXCEPT ![r] = g]

\* Where OnRuleActive is with the entities in todo left: the next one or its return.
Onward(r, todo) ==
  [At(IF todo = {} THEN "put" ELSE "entity") EXCEPT !.want = run[r].want, !.todo = todo]

\* Facts arrive or leave the window of the rule.
Facts(r, es) ==
  /\ es # hit[r]
  /\ hit' = [hit EXCEPT ![r] = es]
  /\ UNCHANGED <<up, trigger, alerts, orders, clock, epoch, run>>

Start ==
  /\ ~up /\ up' = TRUE
  /\ run' = [r \in Rules |-> At("rest")]
  /\ UNCHANGED <<hit, trigger, alerts, orders, clock, epoch>>

Crash ==
  /\ up /\ up' = FALSE
  /\ run' = [r \in Rules |-> At("off")]
  /\ UNCHANGED <<hit, trigger, alerts, orders, clock, epoch>>

\* Bug: a rule whose condition no longer holds is armed again instead of resolved.
EvaluateRearms(r) ==
  /\ run[r].pc = "rest"
  /\ IF trigger[r] = "active"
     THEN IF hit[r] # {}
          THEN Becomes(r, At("put"))
          ELSE Becomes(r, [At("alert") EXCEPT !.want = "armed"])
     ELSE hit[r] # {} /\ Becomes(r, [At("alert") EXCEPT !.todo = hit[r]])
  /\ UNCHANGED <<up, hit, trigger, alerts, orders, clock, epoch>>

\* evaluateRule up to its first write: the facts are judged and the state is read, which
\* nobody else writes.  A rule that stays active only refreshes its last value.
Evaluate(r) ==
  /\ run[r].pc = "rest"
  /\ IF trigger[r] = "active"
     THEN IF hit[r] # {}
          THEN Becomes(r, At("put"))
          ELSE Becomes(r, [At("alert") EXCEPT !.want = "resolved"])
     ELSE hit[r] # {} /\ Becomes(r, [At("alert") EXCEPT !.todo = hit[r]])
  /\ UNCHANGED <<up, hit, trigger, alerts, orders, clock, epoch>>

\* Bug: the rule announces an activation with the state of its resolution.
AnnounceResolved(r) ==
  /\ run[r].pc = "alert" /\ Len(alerts[r]) < MaxAlerts
  /\ alerts' = [alerts EXCEPT ![r] = Append(@, "resolved")]
  /\ Becomes(r, Onward(r, IF r \in SimRules THEN run[r].todo ELSE {}))
  /\ UNCHANGED <<up, hit, trigger, orders, clock, epoch>>

\* InsertAlert, and onActive begins if the rule becomes active.
Announce(r) ==
  /\ run[r].pc = "alert" /\ Len(alerts[r]) < MaxAlerts
  /\ alerts' = [alerts EXCEPT ![r] = Append(@, run[r].want)]
  /\ Becomes(r, Onward(r, IF r \in SimRules THEN run[r].todo ELSE {}))
  /\ UNCHANGED <<up, hit, trigger, orders, clock, epoch>>

\* buildSignal finds no signal in the entity: no order.
SkipEntity(r) ==
  /\ run[r].pc = "entity"
  /\ \E e \in run[r].todo : Becomes(r, Onward(r, run[r].todo \ {e}))
  /\ UNCHANGED <<up, hit, trigger, alerts, orders, clock, epoch>>

\* buildSignal stamps the signal; the replay gate runs after that.
Stamp(r) ==
  /\ run[r].pc = "entity" /\ clock < MaxSignals
  /\ clock' = clock + 1
  /\ \E e \in run[r].todo :
       Becomes(r, [run[r] EXCEPT !.pc = "day", !.ent = {e}, !.ts = clock + 1])
  /\ UNCHANGED <<up, hit, trigger, alerts, orders, epoch>>

\* The orders that count for the cap, and those a signal stamped ts sees.
Counted == {x \in orders : x.counts}
CountedBefore(ts) == {x \in Counted : x.ts < ts}

\* TodaySimNotional adds up the orders stamped before the signal.
ReadDay(r) ==
  /\ run[r].pc = "day"
  /\ Becomes(r, [run[r] EXCEPT !.pc = "insert", !.day = Cardinality(CountedBefore(run[r].ts))])
  /\ UNCHANGED <<up, hit, trigger, alerts, orders, clock, epoch>>

\* Bug: the cap is compared with what the day has without the new order.
UnderCapTooLate(day) == day <= DailyMax

\* The DAILY_OVER gate.
UnderCap(day) == day + 1 <= DailyMax

\* Bug: the entity just ordered is not taken off the list.
InsertOrderAgain(r) ==
  /\ run[r].pc = "insert" /\ clock < MaxSignals
  /\ \E e \in run[r].ent, passes \in BOOLEAN :
       /\ orders' = orders \cup
            {[rule |-> r, ent |-> e, ts |-> run[r].ts,
              counts |-> passes /\ UnderCap(run[r].day), epoch |-> epoch[r]]}
       /\ Becomes(r, Onward(r, run[r].todo))
  /\ UNCHANGED <<up, hit, trigger, alerts, clock, epoch>>

\* SignalToOrder and InsertSimOrder: suggested if every gate passes, else rejected.
InsertOrder(r) ==
  /\ run[r].pc = "insert"
  /\ \E e \in run[r].ent, passes \in BOOLEAN :
       /\ orders' = orders \cup
            {[rule |-> r, ent |-> e, ts |-> run[r].ts,
              counts |-> passes /\ UnderCap(run[r].day), epoch |-> epoch[r]]}
       /\ Becomes(r, Onward(r, run[r].todo \ {e}))
  /\ UNCHANGED <<up, hit, trigger, alerts, clock, epoch>>

\* A statement of the driver fails: OnRuleActive gives up the entities left, its caller
\* logs the error, and the transition goes on.
DriverFails(r) ==
  /\ run[r].pc \in {"entity", "day", "insert"}
  /\ Becomes(r, Onward(r, {}))
  /\ UNCHANGED <<up, hit, trigger, alerts, orders, clock, epoch>>

\* PutTriggerState.
Put(r) ==
  /\ run[r].pc = "put"
  /\ trigger' = [trigger EXCEPT ![r] = run[r].want]
  /\ epoch' = IF run[r].want = "resolved" THEN [epoch EXCEPT ![r] = @ + 1] ELSE epoch
  /\ Becomes(r, At("rest"))
  /\ UNCHANGED <<up, hit, alerts, orders, clock>>

\* A statement of the engine fails: the evaluation is over and runRule backs off.
EvaluationFails(r) ==
  /\ run[r].pc \in {"alert", "put"}
  /\ Becomes(r, At("rest"))
  /\ UNCHANGED <<up, hit, trigger, alerts, orders, clock, epoch>>

\* A person closes an order, or its confirmation rejects it: it counts no longer.
Retire(x) ==
  /\ x.counts
  /\ orders' = (orders \ {x}) \cup {[x EXCEPT !.counts = FALSE]}
  /\ UNCHANGED <<up, hit, trigger, alerts, clock, epoch, run>>

\* What the goroutine of r does when nothing fails.
EngineStep(r) ==
  \/ Evaluate(r) \/ Announce(r) \/ SkipEntity(r) \/ Stamp(r) \/ ReadDay(r) \/ InsertOrder(r)
  \/ Put(r)

EngineNext ==
  \/ \E r \in Rules : EngineStep(r) \/ DriverFails(r) \/ EvaluationFails(r)
  \/ \E r \in Rules, es \in SUBSET Entities : Facts(r, es)
  \/ \E x \in orders : Retire(x)
  \/ Start \/ Crash

EngineSpec == EngineInit /\ [][EngineNext]_evars

-----------------------------------------------------------------------------
(* Safety. *)

\* The rules with a signal stamped before ts whose order is not inserted yet.
InFlight(r) == run[r].pc \in {"day", "insert"}
FlyingBefore(ts) == {r \in SimRules : InFlight(r) /\ run[r].ts < ts}

\* Only the rules the driver knows get as far as its entities.
SimRulesOrder ==
  \A r \in Rules : InFlight(r) \/ run[r].pc = "entity" => r \in SimRules

\* Timestamps tell the orders and the signals in flight apart.
StampsDistinct ==
  /\ \A x \in orders : x.ts <= clock
  /\ \A x, y \in orders : x.ts = y.ts => x = y
  /\ \A r \in Rules : InFlight(r) =>
       /\ run[r].ts <= clock
       /\ \A x \in orders : x.ts # run[r].ts
       /\ \A q \in Rules : InFlight(q) /\ run[q].ts = run[r].ts => q = r

\* What was stamped before a signal and is on the books, or still may come, exceeds
\* what its gate read by at most one order for each other rule.
LateOrders ==
  LET Before(ts) == Cardinality(CountedBefore(ts)) + Cardinality(FlyingBefore(ts))
  IN /\ \A r \in Rules : run[r].pc = "insert" =>
          Before(run[r].ts) <= run[r].day + Cardinality(SimRules) - 1
     /\ \A x \in Counted : Before(x.ts) <= DailyMax - 1 + Cardinality(SimRules) - 1

(* The inductive invariant behind CapOvershoot. *)
CapInv ==
  EngineTypeOK /\ SimRulesOrder /\ StampsDistinct /\ LateOrders

(* The daily cap may be overshot, for its sum is read before the insert and  *)
(* only sees orders stamped earlier, but by less than one order for each     *)
(* rule goroutine beside the one that is late: whatever the interleaving,    *)
(* the crashes and the orders closed in between.                             *)
CapOvershoot == Cardinality(Counted) <= DailyMax + Cardinality(SimRules) - 1

Written(r, what) == {i \in DOMAIN alerts[r] : alerts[r][i] = what}

(* A state is recorded only after the alert that announces it, which is the  *)
(* last one of the rule: a failure or a crash may repeat an alert, it cannot *)
(* hide a change of state.                                                   *)
Announced ==
  [][\A r \in Rules : trigger'[r] # trigger[r] => trigger'[r] = alerts[r][Len(alerts[r])]]_evars

(* An entity gets an order only from an alert of its own rule, and no alert  *)
(* gives it two: whatever is retried after a failure or a crash, a repeated   *)
(* order comes with a repeated alert.                                         *)
OrdersFollowAlerts ==
  \A r \in Rules, e \in Entities :
    Cardinality({x \in orders : x.rule = r /\ x.ent = e}) <= Cardinality(Written(r, "active"))

(* Driver.OnRuleActive: an activation gives an entity at most one order.      *)
OneOrderPerActivation ==
  \A x, y \in orders : x.rule = y.rule /\ x.ent = y.ent /\ x.epoch = y.epoch => x = y
=============================================================================
