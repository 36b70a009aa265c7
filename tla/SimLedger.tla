----------------------------- MODULE SimLedger -----------------------------
(***************************************************************************)
(* What the store promises its callers about the simulated-trading tables: *)
(* sim_orders, sim_positions, sim_cash_flow and sim_account, with every    *)
(* store operation of internal/store/pgstore/sim.go and sim_cash.go taking *)
(* effect in one atomic step.  Module SimTx runs the same operations       *)
(* statement by statement and is shown to implement this one.              *)
(*                                                                         *)
(* Abstractions: a leg is identified by its order and its side, since an   *)
(* order has at most one leg per side; every quantity is 1; the rows that  *)
(* sim_cash_flow holds for a leg are kept as a count per kind and a sum.   *)
(***************************************************************************)
EXTENDS Integers, Functions, FiniteSets

CONSTANTS
  Orders,       \* identities of the sim_orders rows that may be inserted
  Quoted,       \* kinds whose symbol has a ticker source (GC001 has none but manual entry)
  Prices,       \* values a ticker fact may carry
  NoPrice,      \* the reading of a ticker that has no fact
  Par,          \* the anchor price of repo (100) and of carry assets (1.0)
  Capitals,     \* values of ARBCN_SIM_CAPITAL over the restarts of the process
  FundingAdds,  \* funding amounts one settlement of one leg may add
  MaxFundings   \* bound: settlements of one leg

Kinds == {"funding_hedge", "carry_asset", "repo"}
Sides == {"long", "short"}
Statuses == {"none", "suggested", "rejected", "filled", "closed"}
Legs == Orders \X Sides

ASSUME LedgerAssumption ==
  /\ Quoted \subseteq Kinds
  /\ Prices \subseteq {p \in Int : p > 0}
  /\ NoPrice \notin Int
  /\ Par \in Int /\ Par > 0
  /\ Capitals \subseteq {c \in Int : c > 0}
  /\ FundingAdds \subseteq Int
  /\ MaxFundings \in Nat

\* The table holds finitely many rows, so that their amounts have a sum.
ASSUME OrdersAssumption == IsFiniteSet(Orders)

VARIABLES
  order,   \* sim_orders: status, kind and reference price of each order
  leg,     \* sim_positions and the sim_cash_flow rows of each leg
  acct,    \* sim_account, and the capital_in rows of sim_cash_flow
  price    \* latest ticker fact of the symbol each kind trades

vars == <<order, leg, acct, price>>

Readings == Prices \cup {NoPrice}
OrderRow == [st : Statuses, kind : Kinds, ref : Int]
LegRow == [st : {"none", "open", "settled"}, pnl : Int, opens : Nat,
           funds : Nat, closes : Nat, net : Int]
Account == [exists : BOOLEAN, capital : Int, cash : Int, ins : Nat, funded : Int]

(* The type invariant of the tables. *)
TypeOK ==
  /\ order \in [Orders -> OrderRow]
  /\ leg \in [Legs -> LegRow]
  /\ acct \in Account
  /\ price \in [Kinds -> Readings]

-----------------------------------------------------------------------------
(* Row-level operations. *)

Signed(side, x) == IF side = "long" THEN x ELSE -x

\* BuildLegs: a hedge is a spot long and a perpetual short, the rest one long.
BuildLegs(kind) == IF kind = "funding_hedge" THEN {"long", "short"} ELSE {"long"}

\* The leg BuildLegs marks funding = true: the one that earns.
FundingSide(kind) == IF kind = "funding_hedge" THEN "short" ELSE "long"

NoLeg == [st |-> "none", pnl |-> 0, opens |-> 0, funds |-> 0, closes |-> 0, net |-> 0]
NoAccount == [exists |-> FALSE, capital |-> 0, cash |-> 0, ins |-> 0, funded |-> 0]
NoOrder == [st |-> "none", kind |-> "repo", ref |-> 0]

\* Bug: every leg is taken for a long one.
OpenCashUnsigned(side, ref) == ref

\* applyOpenCashFlows credits +qty*ref for a long leg and -qty*ref for a short one.
OpenCash(side, ref) == Signed(side, ref)

\* Bug: the profit of a short leg has the sign of a long one.
ClosePnlUnsigned(side, ref, p) == IF p = NoPrice THEN 0 ELSE p - ref

\* The two amounts simapi.CloseSimOrder computes; a missing ticker makes both 0.
ClosePnl(side, ref, p) == IF p = NoPrice THEN 0 ELSE Signed(side, p - ref)
CloseCash(side, p) == IF p = NoPrice THEN 0 ELSE Signed(side, p)

\* What one order does to the balance: the sum over its legs, f[side] for each.
Total(f) == (IF "long" \in DOMAIN f THEN f["long"] ELSE 0)
              + (IF "short" \in DOMAIN f THEN f["short"] ELSE 0)

OpenedLeg(row, side, ref) ==
  [row EXCEPT !.st = "open", !.opens = @ + 1, !.net = @ + OpenCash(side, ref)]

FundedLeg(row, add) ==
  [row EXCEPT !.pnl = @ + add, !.funds = @ + 1, !.net = @ + add]

\* Bugs: the leg takes the status of its order, stays open, is closed without a cash
\* flow row, is closed with its profit for cash flow.
ClosedLegOrderStatus(row, side, ref, p) == [row EXCEPT !.st = "closed"]
ClosedLegStillOpen(row, side, ref, p) ==
  [row EXCEPT !.pnl = @ + ClosePnl(side, ref, p), !.closes = @ + 1, !.net = @ + CloseCash(side, p)]
ClosedLegNoFlow(row, side, ref, p) ==
  [row EXCEPT !.st = "settled", !.pnl = @ + ClosePnl(side, ref, p), !.net = @ + CloseCash(side, p)]
ClosedLegBooksProfit(row, side, ref, p) ==
  [row EXCEPT !.st = "settled", !.pnl = @ + ClosePnl(side, ref, p),
              !.closes = @ + 1, !.net = @ + ClosePnl(side, ref, p)]

ClosedLeg(row, side, ref, p) ==
  [row EXCEPT !.st = "settled", !.pnl = @ + ClosePnl(side, ref, p),
              !.closes = @ + 1, !.net = @ + CloseCash(side, p)]

\* The upsert of applyCashFlow: the balance moves by amount, a missing row is made.
Credit(a, amount) == [a EXCEPT !.exists = TRUE, !.cash = @ + amount]

\* Bug: the capital is paid in on every start.
SeededAccountEachBoot(a, c) ==
  [a EXCEPT !.exists = TRUE, !.capital = c, !.cash = @ + c, !.ins = @ + 1, !.funded = @ + c]

\* InitSimAccount: mend capital = 0, pay the capital in unless it was paid before.
SeededAccount(a, c) ==
  LET capital == IF a.capital = 0 THEN c ELSE a.capital
  IN IF a.ins = 0
     THEN [exists |-> TRUE, capital |-> capital, cash |-> a.cash + c, ins |-> 1, funded |-> c]
     ELSE [a EXCEPT !.exists = TRUE, !.capital = capital]

\* The reference price a signal may carry.  The ticker is read before the insert, so
\* the price may be an earlier one; a failed or empty read leaves 0 for a hedge and
\* the anchor for a carry asset; repo is always at its anchor.
RefPrices(kind) ==
  LET read == IF price[kind] = NoPrice THEN {} ELSE Prices
  IN CASE kind = "funding_hedge" -> read \cup {0}
       [] kind = "carry_asset" -> read \cup {Par}
       [] kind = "repo" -> {Par}

-----------------------------------------------------------------------------
Init ==
  /\ order = [o \in Orders |-> NoOrder]
  /\ leg = [l \in Legs |-> NoLeg]
  /\ acct = NoAccount
  /\ price = [k \in Kinds |-> NoPrice]

(* Simulator.Generate inserts the verdict of the gates; of these gates only *)
(* UNHEDGED matters here: a hedge without a price is never suggested.       *)
Insert(o, kind, st) ==
  /\ order[o].st = "none"
  /\ \E ref \in RefPrices(kind) :
       /\ kind = "funding_hedge" /\ st = "suggested" => ref > 0
       /\ order' = [order EXCEPT ![o] = [st |-> st, kind |-> kind, ref |-> ref]]
  /\ UNCHANGED <<leg, acct, price>>

(* AcceptSimOrder: suggested -> confirmed -> filled with all legs opened. *)
Accept(o) ==
  LET sides == BuildLegs(order[o].kind)
      ref == order[o].ref
  IN /\ order[o].st = "suggested"
     /\ order' = [order EXCEPT ![o].st = "filled"]
     /\ leg' = [l \in Legs |-> IF l[1] = o /\ l[2] \in sides
                               THEN OpenedLeg(NoLeg, l[2], ref) ELSE leg[l]]
     /\ acct' = Credit(acct, Total([side \in sides |-> OpenCash(side, ref)]))
     /\ UNCHANGED price

\* Bug: the UPDATE selects the order by its id alone.
RejectUnguarded(o) ==
  /\ order[o].st # "none"
  /\ order' = [order EXCEPT ![o].st = "rejected"]
  /\ UNCHANGED <<leg, acct, price>>

(* RejectSimOrder: only a suggested order is rejected. *)
Reject(o) ==
  /\ order[o].st = "suggested"
  /\ order' = [order EXCEPT ![o].st = "rejected"]
  /\ UNCHANGED <<leg, acct, price>>

(* CloseSimOrder with the ticker reading of each leg; the readings precede  *)
(* the transaction, one per leg, so they may differ from each other.        *)
Close(o, px) ==
  LET sides == BuildLegs(order[o].kind)
      ref == order[o].ref
  IN /\ order[o].st = "filled"
     /\ order[o].kind = "funding_hedge" => \A side \in Sides : px[side] # NoPrice
     /\ order' = [order EXCEPT ![o].st = "closed"]
     /\ leg' = [l \in Legs |-> IF l[1] = o /\ l[2] \in sides
                               THEN ClosedLeg(leg[l], l[2], ref, px[l[2]]) ELSE leg[l]]
     /\ acct' = Credit(acct, Total([side \in sides |-> CloseCash(side, px[side])]))
     /\ UNCHANGED price

(* SettleSimPositionFunding: the UPDATE selects the row by id alone, so the *)
(* leg may have been settled since the caller listed it as open.            *)
SettleFunding(l, add) ==
  /\ leg[l].st # "none"
  /\ l[2] = FundingSide(order[l[1]].kind)
  /\ leg[l].funds < MaxFundings
  /\ leg' = [leg EXCEPT ![l] = FundedLeg(leg[l], add)]
  /\ acct' = Credit(acct, add)
  /\ UNCHANGED <<order, price>>

(* InitSimAccount(c), on every start of the process that loads the sim configuration. *)
InitAccount(c) ==
  /\ acct' = SeededAccount(acct, c)
  /\ UNCHANGED <<order, leg, price>>

(* A ticker fact arrives, from a collector or by hand; facts are only added.  *)
Tick(kind, p) ==
  /\ price' = [price EXCEPT ![kind] = p]
  /\ UNCHANGED <<order, leg, acct>>

Next ==
  \/ \E o \in Orders, kind \in Kinds, st \in {"suggested", "rejected"} : Insert(o, kind, st)
  \/ \E o \in Orders : Accept(o) \/ Reject(o) \/ \E px \in [Sides -> Readings] : Close(o, px)
  \/ \E l \in Legs, add \in FundingAdds : SettleFunding(l, add)
  \/ \E c \in Capitals : InitAccount(c)
  \/ \E kind \in Quoted, p \in Prices : Tick(kind, p)

Spec == Init /\ [][Next]_vars

-----------------------------------------------------------------------------
(* Safety. *)

\* The status the legs of an order must have while the order has status st.
LegStatus(st) == CASE st = "filled" -> "open" [] st = "closed" -> "settled" [] OTHER -> "none"

(* No half hedge is ever left naked: a filled order has every leg BuildLegs   *)
(* asks for, all open, a closed one has them all settled, and no other order  *)
(* has a leg (the promise of FillSimOrder, AcceptSimOrder and CloseSimOrder). *)
LegsFollowOrder ==
  \A l \in Legs :
    leg[l].st = IF l[2] \in BuildLegs(order[l[1]].kind) THEN LegStatus(order[l[1]].st) ELSE "none"

(* The audit trail pairs up with the legs: one open row per leg ever opened,  *)
(* one close row per settled leg, funding rows only on the leg that earns.    *)
FlowsFollowLegs ==
  \A l \in Legs :
    /\ leg[l].opens = IF leg[l].st = "none" THEN 0 ELSE 1
    /\ leg[l].closes = IF leg[l].st = "settled" THEN 1 ELSE 0
    /\ leg[l].funds > 0 => l[2] = FundingSide(order[l[1]].kind) /\ leg[l].opens = 1

(* What a hedge did to the cash balance, plus its market value at any price,  *)
(* is what its legs booked plus what they would still gain at that price: the *)
(* two expansions of D-056 agree on every hedge, funding and close included.  *)
HedgeIdentity ==
  \A o \in Orders :
    LET L == leg[<<o, "long">>]
        S == leg[<<o, "short">>]
        Mark(row, x) == IF row.st = "open" THEN x ELSE 0
    IN order[o].kind = "funding_hedge" =>
         \A p \in Prices :
           L.net + S.net + Mark(L, p) + Mark(S, -p)
             = L.pnl + S.pnl + Mark(L, p - order[o].ref) + Mark(S, order[o].ref - p)

(* However often the process restarts, and with whichever configured capital, *)
(* the capital is paid in at most once and is the capital on record.          *)
CapitalOnce ==
  /\ acct.ins \in {0, 1}
  /\ acct.capital = acct.funded
  /\ acct.ins = 1 => acct.funded \in Capitals

\* A leg that was never opened carries no amount.
EmptyLegs == \A l \in Legs : leg[l].st = "none" => leg[l] = NoLeg

\* What the two legs of a hedge paid is what they booked, at every moment.
HedgeBalanced ==
  \A o \in Orders : order[o].kind = "funding_hedge" =>
    leg[<<o, "long">>].net + leg[<<o, "short">>].net = leg[<<o, "long">>].pnl + leg[<<o, "short">>].pnl

(* The inductive invariant behind the properties above: they hold together,   *)
(* with what a leg not yet opened and an account not yet paid in look like.   *)
LedgerInv ==
  /\ TypeOK
  /\ LegsFollowOrder /\ FlowsFollowLegs
  /\ EmptyLegs /\ HedgeBalanced
  /\ CapitalOnce /\ (acct.ins = 0 => acct.funded = 0)

(* The balance of sim_account is the sum of the rows of sim_cash_flow.        *)
CashConserved == acct.cash = acct.funded + SumFunction([l \in Legs |-> leg[l].net])

\* Order o takes one arc of its status machine, its terms unchanged.
Arc(o) ==
  /\ <<order[o].st, order'[o].st>> \in
       {<<"suggested", "filled">>, <<"suggested", "rejected">>, <<"filled", "closed">>}
  /\ order'[o].kind = order[o].kind /\ order'[o].ref = order[o].ref

\* The rows leg l has in the audit trail are still there.
Kept(l) == leg'[l].opens >= leg[l].opens /\ leg'[l].funds >= leg[l].funds /\ leg'[l].closes >= leg[l].closes

KeepsHistory ==
  /\ \A o \in Orders : order'[o] # order[o] /\ order[o].st # "none" => Arc(o)
  /\ \A l \in Legs : Kept(l)

(* An order only moves along the arcs of its status machine, its terms stay   *)
(* as they were generated, and the rows of the audit trail are never removed. *)
HistoryKept == [][KeepsHistory]_vars

OpenLegs == {l \in Legs : leg[l].st = "open"}
LegPrice(l) == price[order[l[1]].kind]

(* D-056 as sim_cash.go states it: cash plus market value is capital plus     *)
(* realized plus unrealized.  Asked only once the capital is paid in, while    *)
(* every open leg has a ticker and before any leg is settled.                 *)
EquityIdentity ==
  acct.ins = 1 /\ (\A l \in Legs : leg[l].st # "settled") /\ (\A l \in OpenLegs : LegPrice(l) # NoPrice) =>
    acct.cash + SumFunction([l \in OpenLegs |-> Signed(l[2], LegPrice(l))])
      = acct.capital + SumFunction([l \in Legs |-> leg[l].pnl])
          + SumFunction([l \in OpenLegs |-> Signed(l[2], LegPrice(l) - order[l[1]].ref)])
=============================================================================
