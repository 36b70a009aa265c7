----------------------------- MODULE SimTxProofs -----------------------------
(***************************************************************************)
(* Proofs about the simulated ledger, for every number of requests and     *)
(* orders and every value of the other constants.  First the safety of     *)
(* SimLedger; then that the transactions of SimTx, interleaved statement   *)
(* by statement with each other, with failures and with restarts,          *)
(* implement its atomic operations.                                        *)
(***************************************************************************)
EXTENDS SimTx, FiniteSums

\* Every amount the row operations compute is an integer.
LEMMA AmountsAreInts ==
  ASSUME NEW side \in Sides, NEW ref \in Int, NEW p \in Readings
  PROVE /\ OpenCash(side, ref) \in Int
        /\ ClosePnl(side, ref, p) \in Int
        /\ CloseCash(side, p) \in Int
BY LedgerAssumption DEF OpenCash, ClosePnl, CloseCash, Signed, Readings, Sides

LEMMA RowOperationsType ==
  ASSUME NEW row \in LegRow, NEW side \in Sides, NEW ref \in Int, NEW p \in Readings, NEW add \in Int
  PROVE /\ OpenedLeg(row, side, ref) \in LegRow
        /\ FundedLeg(row, add) \in LegRow
        /\ ClosedLeg(row, side, ref, p) \in LegRow
<1>1. OpenCash(side, ref) \in Int /\ ClosePnl(side, ref, p) \in Int /\ CloseCash(side, p) \in Int
  BY AmountsAreInts
<1>2. /\ row.opens + 1 \in Nat /\ row.funds + 1 \in Nat /\ row.closes + 1 \in Nat
      /\ row.net + OpenCash(side, ref) \in Int /\ row.net + CloseCash(side, p) \in Int
      /\ row.pnl + ClosePnl(side, ref, p) \in Int
      /\ row.net + add \in Int /\ row.pnl + add \in Int
  BY <1>1 DEF LegRow
<1> QED
  BY <1>2 DEF OpenedLeg, FundedLeg, ClosedLeg, LegRow

LEMMA CreditType ==
  ASSUME NEW a \in Account, NEW amount \in Int
  PROVE Credit(a, amount) \in Account
<1>1. a.cash + amount \in Int
  BY DEF Account
<1> QED
  BY <1>1 DEF Credit, Account

LEMMA SeededAccountType ==
  ASSUME NEW a \in Account, NEW c \in Capitals
  PROVE SeededAccount(a, c) \in Account
<1>1. c \in Int /\ a.cash + c \in Int /\ a.capital \in Int
  BY LedgerAssumption DEF Account
<1> QED
  BY <1>1 DEF SeededAccount, Account

LEMMA NoLegType == NoLeg \in LegRow
BY DEF NoLeg, LegRow

LEMMA TotalIsInt ==
  ASSUME NEW S \in SUBSET Sides, NEW f \in [S -> Int]
  PROVE Total(f) \in Int
BY DEF Total, Sides

LEMMA RefPricesAreInts ==
  ASSUME NEW kind \in Kinds
  PROVE RefPrices(kind) \subseteq Int
BY LedgerAssumption DEF RefPrices, Kinds

LEMMA BuildLegsAreSides ==
  ASSUME NEW kind
  PROVE BuildLegs(kind) \in SUBSET Sides
BY DEF BuildLegs, Sides

-----------------------------------------------------------------------------
(* Type correctness. *)

LEMMA TypeStep == TypeOK /\ [Next]_vars => TypeOK'
<1> SUFFICES ASSUME TypeOK, [Next]_vars PROVE TypeOK'
  OBVIOUS
<1> USE DEF TypeOK
<1>1. ASSUME NEW o \in Orders, NEW kind \in Kinds, NEW st \in {"suggested", "rejected"}, Insert(o, kind, st)
      PROVE TypeOK'
  BY <1>1, RefPricesAreInts DEF Insert, OrderRow, Statuses
<1>2. ASSUME NEW o \in Orders, Accept(o)
      PROVE TypeOK'
  <2> DEFINE cash == [side \in BuildLegs(order[o].kind) |-> OpenCash(side, order[o].ref)]
  <2>1. order[o].ref \in Int
    BY DEF OrderRow
  <2>2. Total(cash) \in Int
    BY <2>1, TotalIsInt, BuildLegsAreSides, AmountsAreInts DEF Readings
  <2>3. acct' \in Account
    BY <1>2, <2>2, CreditType DEF Accept
  <2>4. order' \in [Orders -> OrderRow]
    BY <1>2 DEF Accept, OrderRow, Statuses
  <2>5. leg' \in [Legs -> LegRow]
    BY <1>2, <2>1, NoLegType, RowOperationsType DEF Accept, Legs, Readings
  <2> QED
    BY <1>2, <2>3, <2>4, <2>5 DEF Accept
<1>3. ASSUME NEW o \in Orders, Reject(o)
      PROVE TypeOK'
  BY <1>3 DEF Reject, OrderRow, Statuses
<1>4. ASSUME NEW o \in Orders, NEW px \in [Sides -> Readings], Close(o, px)
      PROVE TypeOK'
  <2> DEFINE cash == [side \in BuildLegs(order[o].kind) |-> CloseCash(side, px[side])]
  <2>1. order[o].ref \in Int
    BY DEF OrderRow
  <2>2. Total(cash) \in Int
    BY <2>1, TotalIsInt, BuildLegsAreSides, AmountsAreInts
  <2>3. acct' \in Account
    BY <1>4, <2>2, CreditType DEF Close
  <2>4. order' \in [Orders -> OrderRow]
    BY <1>4 DEF Close, OrderRow, Statuses
  <2>5. leg' \in [Legs -> LegRow]
    BY <1>4, <2>1, RowOperationsType DEF Close, Legs
  <2> QED
    BY <1>4, <2>3, <2>4, <2>5 DEF Close
<1>5. ASSUME NEW l \in Legs, NEW add \in FundingAdds, SettleFunding(l, add)
      PROVE TypeOK'
  <2>1. add \in Int
    BY LedgerAssumption
  <2>2. FundedLeg(leg[l], add) \in LegRow
    BY <2>1, RowOperationsType, LedgerAssumption DEF Legs, Readings
  <2> QED
    BY <1>5, <2>1, <2>2, CreditType DEF SettleFunding
<1>6. ASSUME NEW c \in Capitals, InitAccount(c)
      PROVE TypeOK'
  BY <1>6, SeededAccountType DEF InitAccount
<1>7. ASSUME NEW kind \in Kinds, NEW p \in Prices, Tick(kind, p)
      PROVE TypeOK'
  BY <1>7 DEF Tick, Readings
<1>8. CASE UNCHANGED vars
  BY <1>8 DEF vars
<1> QED
  BY <1>1, <1>2, <1>3, <1>4, <1>5, <1>6, <1>7, <1>8, LedgerAssumption DEF Next

(* Every reachable state of the tables is well typed: the upserts and the     *)
(* guarded updates of the store never leave the columns' domains.             *)
THEOREM TypeCorrect == Spec => []TypeOK
<1>1. Init => TypeOK
  <2> SUFFICES ASSUME Init PROVE TypeOK
    OBVIOUS
  <2>1. NoOrder \in OrderRow
    BY DEF NoOrder, OrderRow, Statuses, Kinds
  <2> QED
    BY <2>1, NoLegType DEF Init, TypeOK, Account, NoAccount, Readings
<1> QED
  BY <1>1, TypeStep, PTL DEF Spec
-----------------------------------------------------------------------------
(* The legs and the audit trail. *)

\* What the row operations leave in each column.
LEMMA OpenedLegFields ==
  ASSUME NEW row \in LegRow, NEW side, NEW ref
  PROVE LET r == OpenedLeg(row, side, ref)
        IN /\ r.st = "open" /\ r.opens = row.opens + 1 /\ r.closes = row.closes
           /\ r.funds = row.funds /\ r.pnl = row.pnl /\ r.net = row.net + OpenCash(side, ref)
BY DEF OpenedLeg, LegRow

LEMMA FundedLegFields ==
  ASSUME NEW row \in LegRow, NEW add
  PROVE LET r == FundedLeg(row, add)
        IN /\ r.st = row.st /\ r.opens = row.opens /\ r.closes = row.closes
           /\ r.funds = row.funds + 1 /\ r.pnl = row.pnl + add /\ r.net = row.net + add
BY DEF FundedLeg, LegRow

LEMMA ClosedLegFields ==
  ASSUME NEW row \in LegRow, NEW side, NEW ref, NEW p
  PROVE LET r == ClosedLeg(row, side, ref, p)
        IN /\ r.st = "settled" /\ r.opens = row.opens /\ r.closes = row.closes + 1
           /\ r.funds = row.funds /\ r.pnl = row.pnl + ClosePnl(side, ref, p)
           /\ r.net = row.net + CloseCash(side, p)
BY DEF ClosedLeg, LegRow

LegsInv == LegsFollowOrder /\ FlowsFollowLegs /\ EmptyLegs /\ HedgeBalanced

LEMMA AcceptStep ==
  ASSUME TypeOK, LegsInv, NEW o \in Orders, Accept(o)
  PROVE LegsInv'
<1> DEFINE sides == BuildLegs(order[o].kind)
           ref == order[o].ref
           new(side) == OpenedLeg(NoLeg, side, ref)
<1>1. /\ order[o].st = "suggested"
      /\ order' = [order EXCEPT ![o].st = "filled"]
      /\ leg' = [l \in Legs |-> IF l[1] = o /\ l[2] \in sides THEN new(l[2]) ELSE leg[l]]
  BY DEF Accept
<1>2. order \in [Orders -> OrderRow] /\ leg \in [Legs -> LegRow] /\ ref \in Int /\ order[o].st = "suggested"
  BY <1>1 DEF TypeOK, OrderRow
<1>3. \A p \in Orders : /\ order'[p].kind = order[p].kind
                        /\ order'[p].st = IF p = o THEN "filled" ELSE order[p].st
  BY <1>1, <1>2 DEF OrderRow
<1>4. \A l \in Legs : leg'[l] = IF l[1] = o /\ l[2] \in sides THEN new(l[2]) ELSE leg[l]
  BY <1>1
<1>5. \A side \in Sides : /\ new(side).st = "open" /\ new(side).opens = 1 /\ new(side).closes = 0
                          /\ new(side).funds = 0 /\ new(side).pnl = 0
                          /\ new(side).net = OpenCash(side, ref)
  <2> TAKE side \in Sides
  <2>1. NoPrice \in Readings
    BY DEF Readings
  <2>2. OpenCash(side, ref) \in Int
    BY <1>2, <2>1, AmountsAreInts
  <2>3. LET r == new(side)
        IN /\ r.st = "open" /\ r.opens = NoLeg.opens + 1 /\ r.closes = NoLeg.closes
           /\ r.funds = NoLeg.funds /\ r.pnl = NoLeg.pnl /\ r.net = NoLeg.net + OpenCash(side, ref)
    BY NoLegType, OpenedLegFields
  <2> QED
    BY <2>2, <2>3 DEF NoLeg
<1> HIDE DEF new
<1>6. LegsFollowOrder'
  BY <1>2, <1>3, <1>4, <1>5 DEF LegsInv, LegsFollowOrder, LegStatus, Legs
<1>7. FlowsFollowLegs'
  BY <1>2, <1>3, <1>4, <1>5 DEF LegsInv, FlowsFollowLegs, Legs, LegRow
<1>8. EmptyLegs'
  BY <1>2, <1>4, <1>5 DEF LegsInv, EmptyLegs, Legs
<1>9. HedgeBalanced'
  <2> SUFFICES ASSUME NEW q \in Orders, order[q].kind = "funding_hedge"
               PROVE leg'[<<q, "long">>].net + leg'[<<q, "short">>].net
                       = leg'[<<q, "long">>].pnl + leg'[<<q, "short">>].pnl
    BY <1>3 DEF HedgeBalanced
  <2>1. CASE q = o
    BY <2>1, <1>2, <1>4, <1>5 DEF BuildLegs, OpenCash, Signed, Legs, Sides
  <2>2. CASE q # o
    BY <2>2, <1>4 DEF LegsInv, HedgeBalanced, Legs, Sides
  <2> QED
    BY <2>1, <2>2
<1> QED
  BY <1>6, <1>7, <1>8, <1>9 DEF LegsInv

LEMMA CloseStep ==
  ASSUME TypeOK, LegsInv, NEW o \in Orders, NEW px \in [Sides -> Readings], Close(o, px)
  PROVE LegsInv'
<1> DEFINE sides == BuildLegs(order[o].kind)
           ref == order[o].ref
           new(l) == ClosedLeg(leg[l], l[2], ref, px[l[2]])
<1>1. /\ order[o].st = "filled"
      /\ order[o].kind = "funding_hedge" => \A side \in Sides : px[side] # NoPrice
      /\ order' = [order EXCEPT ![o].st = "closed"]
      /\ leg' = [l \in Legs |-> IF l[1] = o /\ l[2] \in sides THEN new(l) ELSE leg[l]]
  BY DEF Close
<1>2. order \in [Orders -> OrderRow] /\ leg \in [Legs -> LegRow] /\ ref \in Int
  BY DEF TypeOK, OrderRow
<1>3. \A p \in Orders : /\ order'[p].kind = order[p].kind
                        /\ order'[p].st = IF p = o THEN "closed" ELSE order[p].st
  BY <1>1, <1>2 DEF OrderRow
<1>4. \A l \in Legs : leg'[l] = IF l[1] = o /\ l[2] \in sides THEN new(l) ELSE leg[l]
  BY <1>1
<1>5. \A l \in Legs : /\ new(l).st = "settled" /\ new(l).opens = leg[l].opens
                      /\ new(l).closes = leg[l].closes + 1 /\ new(l).funds = leg[l].funds
                      /\ new(l).pnl = leg[l].pnl + ClosePnl(l[2], ref, px[l[2]])
                      /\ new(l).net = leg[l].net + CloseCash(l[2], px[l[2]])
  <2> TAKE l \in Legs
  <2>1. leg[l] \in LegRow
    BY <1>2
  <2> QED
    BY <2>1, ClosedLegFields
<1> HIDE DEF new
<1>6. LegsFollowOrder'
  BY <1>1, <1>2, <1>3, <1>4, <1>5 DEF LegsInv, LegsFollowOrder, LegStatus, Legs
<1>7. FlowsFollowLegs'
  <2>1. \A l \in Legs : l[1] = o /\ l[2] \in sides => leg[l].st = "open"
    BY <1>1 DEF LegsInv, LegsFollowOrder, LegStatus
  <2> QED
    BY <1>2, <1>3, <1>4, <1>5, <2>1 DEF LegsInv, FlowsFollowLegs, Legs, LegRow
<1>8. EmptyLegs'
  BY <1>2, <1>4, <1>5 DEF LegsInv, EmptyLegs, Legs
<1>9. HedgeBalanced'
  <2> SUFFICES ASSUME NEW q \in Orders, order[q].kind = "funding_hedge"
               PROVE leg'[<<q, "long">>].net + leg'[<<q, "short">>].net
                       = leg'[<<q, "long">>].pnl + leg'[<<q, "short">>].pnl
    BY <1>3 DEF HedgeBalanced
  <2>1. CASE q = o
    <3> DEFINE L == <<o, "long">>  S == <<o, "short">>
    <3>1. px["long"] \in Int /\ px["short"] \in Int /\ px["long"] # NoPrice /\ px["short"] # NoPrice
      BY <2>1, <1>1, LedgerAssumption DEF Readings, Sides
    <3>2. /\ leg'[L].pnl = leg[L].pnl + (px["long"] - ref) /\ leg'[L].net = leg[L].net + px["long"]
          /\ leg'[S].pnl = leg[S].pnl - (px["short"] - ref) /\ leg'[S].net = leg[S].net - px["short"]
      BY <3>1, <2>1, <1>2, <1>4, <1>5 DEF BuildLegs, ClosePnl, CloseCash, Signed, Legs, Sides, LegRow
    <3>3. leg[L].net + leg[S].net = leg[L].pnl + leg[S].pnl
      BY <2>1 DEF LegsInv, HedgeBalanced
    <3>4. leg[L].net \in Int /\ leg[S].net \in Int /\ leg[L].pnl \in Int /\ leg[S].pnl \in Int
      BY <1>2 DEF Legs, Sides, LegRow
    <3>5. leg'[L].net + leg'[S].net = leg'[L].pnl + leg'[S].pnl
      BY <3>1, <3>2, <3>3, <3>4, <1>2
    <3> QED
      BY <3>5, <2>1
  <2>2. CASE q # o
    BY <2>2, <1>4 DEF LegsInv, HedgeBalanced, Legs, Sides
  <2> QED
    BY <2>1, <2>2
<1> QED
  BY <1>6, <1>7, <1>8, <1>9 DEF LegsInv

LEMMA SettleStep ==
  ASSUME TypeOK, LegsInv, NEW l \in Legs, NEW add \in FundingAdds, SettleFunding(l, add)
  PROVE LegsInv'
<1>1. /\ leg[l].st # "none" /\ l[2] = FundingSide(order[l[1]].kind)
      /\ leg' = [leg EXCEPT ![l] = FundedLeg(leg[l], add)] /\ order' = order
  BY DEF SettleFunding
<1>2. leg \in [Legs -> LegRow] /\ add \in Int
  BY LedgerAssumption DEF TypeOK
<1>3. /\ leg'[l].st = leg[l].st /\ leg'[l].opens = leg[l].opens /\ leg'[l].closes = leg[l].closes
      /\ leg'[l].funds = leg[l].funds + 1 /\ leg'[l].pnl = leg[l].pnl + add
      /\ leg'[l].net = leg[l].net + add
  BY <1>1, <1>2, FundedLegFields
<1>4. \A m \in Legs \ {l} : leg'[m] = leg[m]
  BY <1>1, <1>2
<1>5. LegsFollowOrder'
  BY <1>1, <1>3, <1>4 DEF LegsInv, LegsFollowOrder
<1>6. FlowsFollowLegs'
  BY <1>1, <1>3, <1>4 DEF LegsInv, FlowsFollowLegs
<1>7. EmptyLegs'
  BY <1>1, <1>3, <1>4 DEF LegsInv, EmptyLegs
<1>8. HedgeBalanced'
  <2> SUFFICES ASSUME NEW q \in Orders, order[q].kind = "funding_hedge"
               PROVE leg'[<<q, "long">>].net + leg'[<<q, "short">>].net
                       = leg'[<<q, "long">>].pnl + leg'[<<q, "short">>].pnl
    BY <1>1 DEF HedgeBalanced
  <2> DEFINE L == <<q, "long">>  S == <<q, "short">>
  <2>1. /\ L \in Legs /\ S \in Legs /\ L # S
        /\ leg[L].net \in Int /\ leg[S].net \in Int /\ leg[L].pnl \in Int /\ leg[S].pnl \in Int
    BY <1>2 DEF Legs, Sides, LegRow
  <2>2. leg[L].net + leg[S].net = leg[L].pnl + leg[S].pnl
    BY DEF LegsInv, HedgeBalanced
  <2>3. CASE l = L
    <3>1. leg'[L].net = leg[L].net + add /\ leg'[L].pnl = leg[L].pnl + add /\ leg'[S] = leg[S]
      BY <2>1, <2>3, <1>3, <1>4
    <3> QED
      BY <2>1, <2>2, <3>1, <1>2
  <2>4. CASE l = S
    <3>1. leg'[S].net = leg[S].net + add /\ leg'[S].pnl = leg[S].pnl + add /\ leg'[L] = leg[L]
      BY <2>1, <2>4, <1>3, <1>4
    <3> QED
      BY <2>1, <2>2, <3>1, <1>2
  <2>5. CASE l \notin {L, S}
    BY <2>1, <2>2, <2>5, <1>4
  <2> QED
    BY <2>3, <2>4, <2>5
<1> QED
  BY <1>5, <1>6, <1>7, <1>8 DEF LegsInv

\* The actions that leave every leg alone.
LEMMA OrderStep ==
  ASSUME TypeOK, LegsInv, leg' = leg,
         NEW o \in Orders, order[o].st \in {"none", "suggested"},
         \A p \in Orders \ {o} : order'[p] = order[p],
         order'[o].st \in {"none", "suggested", "rejected"}
  PROVE LegsInv'
<1>1. \A l \in Legs : l[1] = o => leg[l] = NoLeg
  BY DEF LegsInv, LegsFollowOrder, LegStatus, EmptyLegs
<1>2. LegsFollowOrder'
  BY <1>1 DEF LegsInv, LegsFollowOrder, LegStatus, NoLeg, Legs
<1>3. FlowsFollowLegs'
  BY <1>1 DEF LegsInv, FlowsFollowLegs, NoLeg, Legs
<1>4. EmptyLegs'
  BY DEF LegsInv, EmptyLegs
<1>5. HedgeBalanced'
  BY <1>1 DEF LegsInv, HedgeBalanced, NoLeg, Legs, Sides
<1> QED
  BY <1>2, <1>3, <1>4, <1>5 DEF LegsInv

LEMMA LegsStep == TypeOK /\ LegsInv /\ [Next]_vars => LegsInv'
<1> SUFFICES ASSUME TypeOK, LegsInv, [Next]_vars PROVE LegsInv'
  OBVIOUS
<1>1. ASSUME NEW o \in Orders, NEW kind \in Kinds, NEW st \in {"suggested", "rejected"}, Insert(o, kind, st)
      PROVE LegsInv'
  <2>1. /\ order[o].st = "none" /\ leg' = leg
        /\ \A p \in Orders \ {o} : order'[p] = order[p]
        /\ order'[o].st \in {"suggested", "rejected"}
    BY <1>1 DEF Insert, TypeOK
  <2> QED
    BY <2>1, OrderStep
<1>2. ASSUME NEW o \in Orders, Accept(o) PROVE LegsInv'
  BY <1>2, AcceptStep
<1>3. ASSUME NEW o \in Orders, Reject(o) PROVE LegsInv'
  <2>1. /\ order[o].st = "suggested" /\ leg' = leg
        /\ \A p \in Orders \ {o} : order'[p] = order[p]
        /\ order'[o].st = "rejected"
    BY <1>3 DEF Reject, TypeOK, OrderRow
  <2> QED
    BY <2>1, OrderStep
<1>4. ASSUME NEW o \in Orders, NEW px \in [Sides -> Readings], Close(o, px) PROVE LegsInv'
  BY <1>4, CloseStep
<1>5. ASSUME NEW l \in Legs, NEW add \in FundingAdds, SettleFunding(l, add) PROVE LegsInv'
  BY <1>5, SettleStep
<1>6. CASE UNCHANGED <<order, leg>>
  BY <1>6 DEF LegsInv, LegsFollowOrder, FlowsFollowLegs, EmptyLegs, HedgeBalanced
<1> QED
  BY <1>1, <1>2, <1>3, <1>4, <1>5, <1>6 DEF Next, InitAccount, Tick, vars

-----------------------------------------------------------------------------
(* The account. *)

AcctInv == CapitalOnce /\ (acct.ins = 0 => acct.funded = 0)

LEMMA CreditFields ==
  ASSUME NEW a \in Account, NEW amount \in Int
  PROVE LET b == Credit(a, amount)
        IN /\ b.exists /\ b.capital = a.capital /\ b.ins = a.ins /\ b.funded = a.funded
           /\ b.cash = a.cash + amount
BY DEF Credit, Account

LEMMA AcctStep == TypeOK /\ AcctInv /\ [Next]_vars => AcctInv'
<1> SUFFICES ASSUME TypeOK, AcctInv, [Next]_vars PROVE AcctInv'
  OBVIOUS
<1>1. ASSUME NEW amount, acct' = Credit(acct, amount) PROVE AcctInv'
  BY <1>1 DEF Credit, AcctInv, CapitalOnce, TypeOK, Account
<1>2. ASSUME NEW c \in Capitals, InitAccount(c) PROVE AcctInv'
  <2>1. c \in Int /\ c # 0 /\ acct' = SeededAccount(acct, c)
    BY <1>2, LedgerAssumption DEF InitAccount
  <2>2. CASE acct.ins = 0
    BY <2>1, <2>2 DEF SeededAccount, AcctInv, CapitalOnce
  <2>3. CASE acct.ins = 1
    <3>1. acct.capital # 0
      BY <2>3, LedgerAssumption DEF AcctInv, CapitalOnce
    <3> QED
      BY <2>1, <2>3, <3>1 DEF SeededAccount, AcctInv, CapitalOnce, TypeOK, Account
  <2> QED
    BY <2>2, <2>3 DEF AcctInv, CapitalOnce
<1>3. CASE UNCHANGED acct
  BY <1>3 DEF AcctInv, CapitalOnce
<1> QED
  BY <1>1, <1>2, <1>3 DEF Next, Insert, Accept, Reject, Close, SettleFunding, Tick, vars

-----------------------------------------------------------------------------
(* The inductive invariant and what follows from it. *)

LEMMA LedgerInit == Init => LedgerInv
<1> SUFFICES ASSUME Init PROVE LedgerInv
  OBVIOUS
<1>1. TypeOK
  <2>1. NoOrder \in OrderRow
    BY DEF NoOrder, OrderRow, Statuses, Kinds
  <2> QED
    BY <2>1, NoLegType DEF Init, TypeOK, Account, NoAccount, Readings
<1>2. \A l \in Legs : leg[l] = NoLeg /\ order[l[1]] = NoOrder
  BY DEF Init, Legs
<1>3. LegsFollowOrder /\ FlowsFollowLegs /\ EmptyLegs
  BY <1>2 DEF LegsFollowOrder, LegStatus, FlowsFollowLegs, EmptyLegs, NoLeg, NoOrder
<1>4. HedgeBalanced
  BY DEF Init, HedgeBalanced, NoOrder
<1>5. CapitalOnce /\ acct.funded = 0
  BY DEF Init, CapitalOnce, NoAccount
<1> QED
  BY <1>1, <1>3, <1>4, <1>5 DEF LedgerInv

LEMMA LedgerStep == LedgerInv /\ [Next]_vars => LedgerInv'
BY TypeStep, LegsStep, AcctStep DEF LedgerInv, LegsInv, AcctInv

LEMMA InvImpliesHedgeIdentity == LedgerInv => HedgeIdentity
<1> SUFFICES ASSUME LedgerInv, NEW o \in Orders, order[o].kind = "funding_hedge", NEW p \in Prices
             PROVE LET L == leg[<<o, "long">>]
                       S == leg[<<o, "short">>]
                       Mark(row, x) == IF row.st = "open" THEN x ELSE 0
                   IN L.net + S.net + Mark(L, p) + Mark(S, -p)
                        = L.pnl + S.pnl + Mark(L, p - order[o].ref) + Mark(S, order[o].ref - p)
  BY DEF HedgeIdentity
<1> DEFINE L == leg[<<o, "long">>]  S == leg[<<o, "short">>]
<1>1. L.st = S.st
  BY DEF LedgerInv, LegsFollowOrder, BuildLegs, Legs, Sides
<1>2. L.net + S.net = L.pnl + S.pnl
  BY DEF LedgerInv, HedgeBalanced
<1>3. L \in LegRow /\ S \in LegRow /\ order[o].ref \in Int /\ p \in Int
  BY LedgerAssumption DEF LedgerInv, TypeOK, OrderRow, Legs, Sides
<1>4. L.net \in Int /\ S.net \in Int /\ L.pnl \in Int /\ S.pnl \in Int
  BY <1>3 DEF LegRow
<1> HIDE DEF L, S
<1>5. CASE L.st = "open"
  BY <1>1, <1>2, <1>3, <1>4, <1>5 DEF L, S
<1>6. CASE L.st # "open"
  BY <1>1, <1>2, <1>4, <1>6 DEF L, S
<1> QED
  BY <1>5, <1>6

(* The safety of the tables, for every number of orders: no half hedge, a     *)
(* paired audit trail, hedges whose cash and profit agree, capital paid once. *)
THEOREM LedgerSafe ==
  Spec => [](LegsFollowOrder /\ FlowsFollowLegs /\ HedgeIdentity /\ CapitalOnce)
<1>1. Spec => []LedgerInv
  BY LedgerInit, LedgerStep, PTL DEF Spec
<1>2. LedgerInv => LegsFollowOrder /\ FlowsFollowLegs /\ HedgeIdentity /\ CapitalOnce
  BY InvImpliesHedgeIdentity DEF LedgerInv
<1> QED
  BY <1>1, <1>2, PTL

(* For every ledger the rows of the audit trail are those that the status of  *)
(* their leg and its settlements call for.                                    *)
THEOREM TrailFollowsLegs == Spec => []FlowsFollowLegs
BY LedgerSafe, PTL

(* For every pair of prices, what a hedge did to the balance is what its legs *)
(* booked and would still gain.                                               *)
THEOREM HedgesBalance == Spec => []HedgeIdentity
BY LedgerSafe, PTL

(* Whatever the restarts and the configured capitals, capital is paid in once.*)
THEOREM CapitalPaidOnce == Spec => []CapitalOnce
BY LedgerSafe, PTL

LEMMA HistoryStep == LedgerInv /\ [Next]_vars => [KeepsHistory]_vars
<1> SUFFICES ASSUME LedgerInv, Next PROVE KeepsHistory
  OBVIOUS
<1>1. order \in [Orders -> OrderRow] /\ leg \in [Legs -> LegRow]
  BY DEF LedgerInv, TypeOK
<1>2. ASSUME NEW l \in Legs, leg'[l] = leg[l] PROVE Kept(l)
  BY <1>1, <1>2 DEF Kept, LegRow
<1>3. ASSUME NEW o \in Orders, NEW kind \in Kinds, NEW st \in {"suggested", "rejected"}, Insert(o, kind, st)
      PROVE KeepsHistory
  BY <1>1, <1>2, <1>3 DEF KeepsHistory, Insert
<1>4. ASSUME NEW o \in Orders, Accept(o)
      PROVE KeepsHistory
  <2>1. \A p \in Orders : order'[p] # order[p] => Arc(p)
    BY <1>1, <1>4 DEF Accept, Arc, OrderRow
  <2>2. ASSUME NEW l \in Legs PROVE Kept(l)
    <3>1. CASE l[1] = o /\ l[2] \in BuildLegs(order[o].kind)
      <4>1. leg[l] = NoLeg
        BY <3>1, <1>4 DEF Accept, LedgerInv, LegsFollowOrder, LegStatus, EmptyLegs
      <4>2. leg'[l] = OpenedLeg(NoLeg, l[2], order[o].ref)
        BY <3>1, <1>4 DEF Accept
      <4>3. /\ leg'[l].opens = NoLeg.opens + 1 /\ leg'[l].closes = NoLeg.closes
            /\ leg'[l].funds = NoLeg.funds
        BY <4>2, NoLegType, OpenedLegFields
      <4> QED
        BY <4>1, <4>3 DEF Kept, NoLeg
    <3>2. CASE ~(l[1] = o /\ l[2] \in BuildLegs(order[o].kind))
      BY <3>2, <1>2, <1>4 DEF Accept
    <3> QED
      BY <3>1, <3>2
  <2> QED
    BY <2>1, <2>2 DEF KeepsHistory
<1>5. ASSUME NEW o \in Orders, Reject(o)
      PROVE KeepsHistory
  BY <1>1, <1>2, <1>5 DEF KeepsHistory, Reject, Arc, OrderRow
<1>6. ASSUME NEW o \in Orders, NEW px \in [Sides -> Readings], Close(o, px)
      PROVE KeepsHistory
  <2>1. \A p \in Orders : order'[p] # order[p] => Arc(p)
    BY <1>1, <1>6 DEF Close, Arc, OrderRow
  <2>2. ASSUME NEW l \in Legs PROVE Kept(l)
    <3>1. CASE l[1] = o /\ l[2] \in BuildLegs(order[o].kind)
      <4>1. leg'[l] = ClosedLeg(leg[l], l[2], order[o].ref, px[l[2]])
        BY <3>1, <1>6 DEF Close
      <4>2. /\ leg'[l].opens = leg[l].opens /\ leg'[l].closes = leg[l].closes + 1
            /\ leg'[l].funds = leg[l].funds
        BY <4>1, <1>1, ClosedLegFields
      <4> QED
        BY <4>2, <1>1 DEF Kept, LegRow
    <3>2. CASE ~(l[1] = o /\ l[2] \in BuildLegs(order[o].kind))
      BY <3>2, <1>2, <1>6 DEF Close
    <3> QED
      BY <3>1, <3>2
  <2> QED
    BY <2>1, <2>2 DEF KeepsHistory
<1>7. ASSUME NEW m \in Legs, NEW add \in FundingAdds, SettleFunding(m, add)
      PROVE KeepsHistory
  <2>1. leg'[m].opens = leg[m].opens /\ leg'[m].funds = leg[m].funds + 1 /\ leg'[m].closes = leg[m].closes
    BY <1>1, <1>7, FundedLegFields DEF SettleFunding
  <2>2. Kept(m)
    BY <1>1, <2>1 DEF Kept, LegRow
  <2>3. \A l \in Legs \ {m} : leg'[l] = leg[l]
    BY <1>1, <1>7 DEF SettleFunding
  <2> QED
    BY <1>2, <1>7, <2>2, <2>3 DEF SettleFunding, KeepsHistory
<1>8. CASE UNCHANGED <<order, leg>>
  BY <1>2, <1>8 DEF KeepsHistory
<1> QED
  BY <1>3, <1>4, <1>5, <1>6, <1>7, <1>8 DEF Next, InitAccount, Tick

(* The audit trail is append-only, and an order only moves along its status   *)
(* machine, over every step of every behaviour.                               *)
THEOREM HistoryIsKept == Spec => HistoryKept
<1>1. Spec => []LedgerInv
  BY LedgerInit, LedgerStep, PTL DEF Spec
<1> QED
  BY <1>1, HistoryStep, PTL DEF Spec, HistoryKept
-----------------------------------------------------------------------------
(* The balance. *)

LEMMA LegsFinite == IsFiniteSet(Legs)
<1>1. IsFiniteSet(Sides)
  <2>1. IsFiniteSet({} \cup {"long"})
    BY FS_EmptySet, FS_AddElement
  <2>2. IsFiniteSet(({} \cup {"long"}) \cup {"short"})
    BY <2>1, FS_AddElement
  <2>3. Sides = ({} \cup {"long"}) \cup {"short"}
    BY DEF Sides
  <2> QED
    BY <2>2, <2>3, Zenon
<1> QED
  BY <1>1, OrdersAssumption, FS_Product DEF Legs

\* From f to g the value of each leg of order o on a side of S moves by d of the side.
OrderMoved(f, g, o, S, d) ==
  \A l \in Legs : g[l] = IF l[1] = o /\ l[2] \in S THEN f[l] + d[l[2]] ELSE f[l]

\* SumMoves for the legs.
LEMMA LegMoves ==
  ASSUME NEW f \in [Legs -> Int], NEW g \in [Legs -> Int], NEW x \in Legs, NEW d \in Int,
         Moved(Legs, f, g, x, d)
  PROVE  SumFunction(f) \in Int /\ SumFunction(g) = SumFunction(f) + d
<1>1. IsFiniteSet(Legs)
  BY LegsFinite
<1> QED
  BY <1>1, SumMoves

LEMMA SumType == ASSUME NEW S, IsFiniteSet(S), NEW F \in [S -> Int] PROVE SumFunction(F) \in Int
<1>1. \E h \in [SUBSET S -> Int] : Sums(F, h, SUBSET S) /\ SumFunction(F) = h[S]
  BY SumFunctionSums
<1> QED
  BY <1>1

LEMMA LegSumType == ASSUME NEW f \in [Legs -> Int] PROVE SumFunction(f) \in Int
<1>1. IsFiniteSet(Legs)
  BY LegsFinite
<1> QED
  BY <1>1, SumType

\* Amounts d added to the legs of one order move the sum by their total.
LEMMA LegsMove ==
  ASSUME NEW f \in [Legs -> Int], NEW g \in [Legs -> Int], NEW o \in Orders,
         NEW S \in SUBSET Sides, NEW d \in [S -> Int],
         OrderMoved(f, g, o, S, d)
  PROVE  SumFunction(g) = SumFunction(f) + Total(d)
<1> DEFINE L == <<o, "long">>
           H == <<o, "short">>
           a == IF "long" \in S THEN d["long"] ELSE 0
           b == IF "short" \in S THEN d["short"] ELSE 0
<1>1. L \in Legs /\ H \in Legs /\ L # H /\ a \in Int /\ b \in Int
  BY DEF Legs, Sides
<1>2. \A l \in Legs : l[1] = o => l = L \/ l = H
  BY DEF Legs, Sides
<1>3. L[1] = o /\ L[2] = "long" /\ H[1] = o /\ H[2] = "short"
  OBVIOUS
<1>4. a + b = Total(d)
  BY DEF Total
<1>5. g[L] = f[L] + a /\ g[H] = f[H] + b
  BY <1>1, <1>3 DEF OrderMoved
<1>6. \A l \in Legs : l # L /\ l # H => g[l] = f[l]
  BY <1>2 DEF OrderMoved
<1> HIDE DEF L, H, a, b
<1>7. PICK m \in [Legs -> Int] : \A l \in Legs : m[l] = IF l = L THEN f[l] + a ELSE f[l]
  <2>1. [l \in Legs |-> IF l = L THEN f[l] + a ELSE f[l]] \in [Legs -> Int]
    BY <1>1
  <2> QED
    BY <2>1
<1>8. Moved(Legs, f, m, L, a) /\ Moved(Legs, m, g, H, b)
  BY <1>1, <1>5, <1>6, <1>7 DEF Moved
<1>9. SumFunction(m) = SumFunction(f) + a /\ SumFunction(f) \in Int
  BY <1>1, <1>8, LegMoves
<1>10. SumFunction(g) = SumFunction(m) + b
  BY <1>1, <1>8, LegMoves
<1> QED
  BY <1>1, <1>4, <1>9, <1>10

(* The nets of the legs, as the function CashConserved sums. *)
Nets == [l \in Legs |-> leg[l].net]

\* The sum does not notice a step that leaves every net alone.
LEMMA NetsStay ==
  ASSUME \A l \in Legs : leg'[l].net = leg[l].net
  PROVE  SumFunction(Nets') = SumFunction(Nets)
<1>1. Nets' = Nets
  BY DEF Nets
<1> QED
  BY <1>1

LEMMA CashInit == Init => CashConserved
<1> SUFFICES ASSUME Init PROVE CashConserved
  OBVIOUS
<1>1. Nets \in [Legs -> Int] /\ \A l \in Legs : Nets[l] = 0
  BY DEF Init, Nets, NoLeg
<1>2. SumFunction(Nets) = 0
  BY <1>1, LegsFinite, SumOfZeros, Zenon
<1> QED
  BY <1>2 DEF Init, NoAccount, CashConserved, Nets

LEMMA CashStep == LedgerInv /\ CashConserved /\ [Next]_vars => CashConserved'
<1> SUFFICES ASSUME LedgerInv, CashConserved, [Next]_vars
             PROVE  acct'.cash = acct'.funded + SumFunction(Nets')
  BY DEF CashConserved, Nets
<1>1. TypeOK /\ TypeOK'
  BY TypeStep DEF LedgerInv
<1>2. /\ Nets \in [Legs -> Int] /\ SumFunction(Nets) \in Int
      /\ Nets' \in [Legs -> Int] /\ SumFunction(Nets') \in Int
  <2>1. Nets \in [Legs -> Int] /\ Nets' \in [Legs -> Int]
    BY <1>1 DEF TypeOK, LegRow, Nets
  <2> QED
    BY <2>1, LegSumType
<1>3. acct.cash = acct.funded + SumFunction(Nets)
  BY DEF CashConserved, Nets
<1>4. acct \in Account /\ acct.cash \in Int /\ acct.funded \in Int
  BY <1>1 DEF TypeOK, Account
<1>5. ASSUME NEW amount \in Int, acct' = Credit(acct, amount), SumFunction(Nets') = SumFunction(Nets) + amount
      PROVE  acct'.cash = acct'.funded + SumFunction(Nets')
  BY <1>2, <1>3, <1>4, <1>5, CreditFields
<1>6. ASSUME NEW o \in Orders, Accept(o)
      PROVE  acct'.cash = acct'.funded + SumFunction(Nets')
  <2> DEFINE sides == BuildLegs(order[o].kind)
             ref == order[o].ref
             d == [side \in sides |-> OpenCash(side, ref)]
  <2>1. ref \in Int /\ sides \in SUBSET Sides /\ NoPrice \in Readings
    BY <1>1, BuildLegsAreSides DEF TypeOK, OrderRow, Readings
  <2>2. d \in [sides -> Int]
    BY <2>1, AmountsAreInts
  <2>3. Total(d) \in Int
    BY <2>1, <2>2, TotalIsInt
  <2>4. \A l \in Legs : leg'[l] = IF l[1] = o /\ l[2] \in sides THEN OpenedLeg(NoLeg, l[2], ref) ELSE leg[l]
    BY <1>6 DEF Accept
  <2>5. \A l \in Legs : l[1] = o => leg[l] = NoLeg
    BY <1>6 DEF Accept, LedgerInv, LegsFollowOrder, LegStatus, EmptyLegs
  <2>6. \A l \in Legs : OpenedLeg(NoLeg, l[2], ref).net = NoLeg.net + OpenCash(l[2], ref)
    BY NoLegType, OpenedLegFields
  <2>7. \A l \in Legs : l[2] \in sides => d[l[2]] = OpenCash(l[2], ref)
    OBVIOUS
  <2>8. OrderMoved(Nets, Nets', o, sides, d)
    BY <2>4, <2>5, <2>6, <2>7 DEF Nets, OrderMoved
  <2>9. acct' = Credit(acct, Total(d))
    BY <1>6 DEF Accept
  <2> HIDE DEF d, sides
  <2>10. SumFunction(Nets') = SumFunction(Nets) + Total(d)
    BY <1>2, <2>1, <2>2, <2>8, LegsMove
  <2> QED
    BY <1>5, <2>3, <2>9, <2>10
<1>7. ASSUME NEW o \in Orders, NEW px \in [Sides -> Readings], Close(o, px)
      PROVE  acct'.cash = acct'.funded + SumFunction(Nets')
  <2> DEFINE sides == BuildLegs(order[o].kind)
             ref == order[o].ref
             d == [side \in sides |-> CloseCash(side, px[side])]
  <2>1. ref \in Int /\ sides \in SUBSET Sides
    BY <1>1, BuildLegsAreSides DEF TypeOK, OrderRow
  <2>2. d \in [sides -> Int]
    BY <2>1, AmountsAreInts
  <2>3. Total(d) \in Int
    BY <2>1, <2>2, TotalIsInt
  <2>4. \A l \in Legs : leg'[l] = IF l[1] = o /\ l[2] \in sides
                                  THEN ClosedLeg(leg[l], l[2], ref, px[l[2]]) ELSE leg[l]
    BY <1>7 DEF Close
  <2>5. ASSUME NEW l \in Legs
        PROVE  ClosedLeg(leg[l], l[2], ref, px[l[2]]).net = leg[l].net + CloseCash(l[2], px[l[2]])
    <3>1. leg[l] \in LegRow
      BY <1>1 DEF TypeOK
    <3> QED
      BY <3>1, ClosedLegFields
  <2>6. \A l \in Legs : l[2] \in sides => d[l[2]] = CloseCash(l[2], px[l[2]])
    OBVIOUS
  <2>7. OrderMoved(Nets, Nets', o, sides, d)
    BY <2>4, <2>5, <2>6 DEF Nets, OrderMoved
  <2>8. acct' = Credit(acct, Total(d))
    BY <1>7 DEF Close
  <2> HIDE DEF d, sides
  <2>9. SumFunction(Nets') = SumFunction(Nets) + Total(d)
    BY <1>2, <2>1, <2>2, <2>7, LegsMove
  <2> QED
    BY <1>5, <2>3, <2>8, <2>9
<1>8. ASSUME NEW m \in Legs, NEW add \in FundingAdds, SettleFunding(m, add)
      PROVE  acct'.cash = acct'.funded + SumFunction(Nets')
  <2>1. add \in Int
    BY LedgerAssumption
  <2>2. leg[m] \in LegRow /\ leg' = [leg EXCEPT ![m] = FundedLeg(leg[m], add)] /\ acct' = Credit(acct, add)
    BY <1>1, <1>8 DEF TypeOK, SettleFunding
  <2>3. FundedLeg(leg[m], add).net = leg[m].net + add
    BY <2>2, FundedLegFields
  <2>4. Moved(Legs, Nets, Nets', m, add)
    BY <1>1, <2>2, <2>3 DEF Nets, TypeOK, Moved
  <2>5. SumFunction(Nets') = SumFunction(Nets) + add
    BY <1>2, <2>1, <2>4, LegMoves
  <2> QED
    BY <1>5, <2>1, <2>2, <2>5
<1>9. ASSUME NEW c \in Capitals, InitAccount(c)
      PROVE  acct'.cash = acct'.funded + SumFunction(Nets')
  <2>1. SumFunction(Nets') = SumFunction(Nets)
    BY <1>9, NetsStay DEF InitAccount
  <2>2. c \in Int /\ acct' = SeededAccount(acct, c) /\ (acct.ins = 0 => acct.funded = 0)
    BY <1>9, LedgerAssumption DEF InitAccount, LedgerInv
  <2>3. CASE acct.ins = 0
    <3>1. acct'.cash = acct.cash + c /\ acct'.funded = c
      BY <2>2, <2>3 DEF SeededAccount
    <3> QED
      BY <1>2, <1>3, <1>4, <2>1, <2>2, <2>3, <3>1
  <2>4. CASE acct.ins # 0
    <3>1. acct'.cash = acct.cash /\ acct'.funded = acct.funded
      BY <1>4, <2>2, <2>4 DEF SeededAccount, Account
    <3> QED
      BY <1>3, <2>1, <3>1
  <2> QED
    BY <2>3, <2>4
<1>10. CASE UNCHANGED <<leg, acct>>
  BY <1>3, <1>10, NetsStay
<1> QED
  BY <1>6, <1>7, <1>8, <1>9, <1>10 DEF Next, Insert, Reject, Tick, vars

(* For every number of orders and every history of settlements and restarts,  *)
(* the balance of sim_account is the sum of the rows of sim_cash_flow.        *)
THEOREM BalanceConserved == Spec => []CashConserved
<1>1. LedgerInv /\ CashConserved /\ [Next]_vars => (LedgerInv /\ CashConserved)'
  BY LedgerStep, CashStep
<1>2. Spec => [](LedgerInv /\ CashConserved)
  BY LedgerInit, CashInit, <1>1, PTL DEF Spec
<1> QED
  BY <1>2, PTL

-----------------------------------------------------------------------------
(* The transactions. *)

\* What TxInv says of one session with record r.
Sound(s, r) == Progress(s, r) /\ Undisturbed(r) /\ ClosesWhole(r)

LEMMA IdleType == ASSUME NEW pc \in {"idle", "check", "list", "next", "leg"} PROVE Idle(pc) \in Session
BY NoLegType DEF Idle, Session, Readings, Statuses, NoAccount, Account

LEMMA IdleSound ==
  ASSUME NEW s \in Sessions
  PROVE Sound(s, Idle("idle")) /\ (s = Settler => Sound(s, Idle("next")))
BY DEF Idle, Sound, Progress, Undisturbed, ClosesWhole

-----------------------------------------------------------------------------
(* One session moves and the tables stay. *)

\* Nobody but s has written what a record r of s has written.
LocksFree(s, r) ==
  /\ r.wst # "none" => OrderFree(s, r.o)
  /\ \A side \in r.dirty : r.o \in Orders => LegFree(s, <<r.o, side>>)
  /\ r.held => AcctFree(s)

LEMMA OwnLocksFree ==
  ASSUME TxInv, NEW s \in Sessions
  PROVE LocksFree(s, ses[s])
<1>1. ses[s] \in Session
  BY DEF TxInv, TxTypeOK
<1>2. ASSUME NEW t \in Sessions \ {s} PROVE /\ \A o \in Orders : ~(LocksOrder(s, o) /\ LocksOrder(t, o))
                                            /\ \A l \in Legs : ~(LocksLeg(s, l) /\ LocksLeg(t, l))
                                            /\ ~(ses[s].held /\ ses[t].held)
  BY DEF TxInv, OneWriter
<1>3. ses[s].wst # "none" => ses[s].o \in Orders
  BY <1>1 DEF TxInv, Progress, Session
<1>4. ses[s].wst # "none" => OrderFree(s, ses[s].o)
  BY <1>2, <1>3 DEF OrderFree, LocksOrder
<1>5. ASSUME NEW side \in ses[s].dirty, ses[s].o \in Orders PROVE LegFree(s, <<ses[s].o, side>>)
  BY <1>1, <1>2, <1>5 DEF LegFree, LocksLeg, Session, Legs
<1>6. ses[s].held => AcctFree(s)
  BY <1>2 DEF AcctFree
<1> QED
  BY <1>4, <1>5, <1>6 DEF LocksFree

LEMMA OneWriterStep ==
  ASSUME TxInv, NEW s \in Sessions, NEW r \in Session, ses' = [ses EXCEPT ![s] = r], LocksFree(s, r)
  PROVE OneWriter'
<1>1. ses'[s] = r /\ \A t \in Sessions \ {s} : ses'[t] = ses[t]
  BY DEF TxInv, TxTypeOK
<1>2. ASSUME NEW t \in Sessions \ {s}
      PROVE /\ \A o \in Orders : ~(LocksOrder(s, o)' /\ LocksOrder(t, o)')
            /\ \A l \in Legs : ~(LocksLeg(s, l)' /\ LocksLeg(t, l)')
            /\ ~(ses'[s].held /\ ses'[t].held)
  BY <1>1, <1>2 DEF LocksFree, OrderFree, LegFree, AcctFree, LocksOrder, LocksLeg, Legs
<1>3. ASSUME NEW t \in Sessions \ {s}, NEW u \in Sessions \ {s}, t # u
      PROVE /\ \A o \in Orders : ~(LocksOrder(t, o)' /\ LocksOrder(u, o)')
            /\ \A l \in Legs : ~(LocksLeg(t, l)' /\ LocksLeg(u, l)')
            /\ ~(ses'[t].held /\ ses'[u].held)
  BY <1>1, <1>3 DEF TxInv, OneWriter, LocksOrder, LocksLeg
<1> QED
  BY <1>2, <1>3 DEF OneWriter

\* What is said of a record stays true of it while the tables stay.
LEMMA SameTables ==
  ASSUME UNCHANGED <<order, leg, acct>>, NEW s, NEW r, Sound(s, r)
  PROVE \A q : q = r => /\ Progress(s, q)' /\ Undisturbed(q)' /\ ClosesWhole(q)'
<1>1. \A q : /\ Targets(q)' = Targets(q)
             /\ \A l : NewLeg(q, l)' = NewLeg(q, l) /\ CashAmount(q, l)' = CashAmount(q, l)
  BY DEF Targets, NewLeg, CashAmount
<1>2. \A q : Credited(q)' = Credited(q)
  BY <1>1 DEF Credited
<1>3. \A q : Staged(q)' = Staged(q)
  BY <1>1, <1>2 DEF Staged
<1>4. \A q : q = r => Progress(s, q)'
  BY <1>1, <1>2 DEF Sound, Progress
<1>5. \A q : q = r => Undisturbed(q)'
  BY <1>1, <1>3 DEF Sound, Undisturbed
<1>6. \A q : q = r => ClosesWhole(q)'
  BY DEF Sound, ClosesWhole
<1> QED
  BY <1>4, <1>5, <1>6

\* The session of the settlement does not move.
LEMMA PaysOnceStep ==
  ASSUME PaysOnce, ses'[Settler] = ses[Settler], list' = list,
         UNCHANGED <<order, leg>>
  PROVE PaysOnce'
BY DEF PaysOnce, OrderOf

LEMMA MoveStep ==
  ASSUME TxInv, NEW s \in Sessions, NEW r \in Session, ses' = [ses EXCEPT ![s] = r],
         UNCHANGED <<vars, up>>, up # "down" \/ r.pc = "idle",
         list' \subseteq Legs, PaysOnce', Sound(s, r), LocksFree(s, r)
  PROVE TxInv'
<1>1. ses'[s] = r /\ \A t \in Sessions \ {s} : ses'[t] = ses[t]
  BY DEF TxInv, TxTypeOK
<1>2. order' = order /\ leg' = leg /\ acct' = acct /\ price' = price /\ up' = up
  BY DEF vars
<1>3. TxTypeOK'
  BY <1>2 DEF TxInv, TxTypeOK, TypeOK
<1>4. LegsFollowOrder' /\ HedgesPriced'
  BY <1>2 DEF TxInv, LegsFollowOrder, HedgesPriced
<1>5. (up = "down" => \A t \in Sessions : ses[t].pc = "idle")'
  BY <1>1, <1>2 DEF TxInv
<1>6. OneWriter'
  BY OneWriterStep
<1>7. ASSUME NEW t \in Sessions PROVE Sound(t, ses[t])'
  <2>1. Sound(t, ses'[t])
    BY <1>1 DEF TxInv, Sound
  <2> QED
    BY <1>2, <2>1, SameTables DEF Sound
<1> QED
  BY <1>3, <1>4, <1>5, <1>6, <1>7 DEF TxInv, Sound

-----------------------------------------------------------------------------
(* The steps of a handler, until its transaction commits. *)

\* The session of the settlement stays on its leg.
LEMMA PaysOnceSame ==
  ASSUME PaysOnce, list' = list, UNCHANGED <<order, leg>>, ses'[Settler].pc # "idle",
         ses'[Settler].tx = ses[Settler].tx, ses'[Settler].o = ses[Settler].o,
         ses'[Settler].add = ses[Settler].add
  PROVE PaysOnce'
BY DEF PaysOnce, OrderOf

\* A step that goes on with the same order, or a request that starts.
LEMMA HandlerStep ==
  ASSUME TxInv, NEW s \in Sessions, NEW r \in Session, Goto(s, r), UNCHANGED <<vars, up, list>>,
         up # "down", r.pc # "idle", Sound(s, r), LocksFree(s, r),
         s # Settler \/ (r.tx = ses[s].tx /\ r.o = ses[s].o /\ r.add = ses[s].add)
  PROVE TxInv'
<1>1. ses' = [ses EXCEPT ![s] = r]
  BY DEF Goto
<1>2. ses'[s] = r /\ \A t \in Sessions \ {s} : ses'[t] = ses[t]
  BY <1>1 DEF TxInv, TxTypeOK
<1>3. PaysOnce'
  <2>1. CASE s = Settler
    BY <1>2, <2>1, PaysOnceSame DEF TxInv, vars
  <2>2. CASE s # Settler
    BY <1>2, <2>2, PaysOnceStep DEF TxInv, vars, Sessions
  <2> QED
    BY <2>1, <2>2
<1>4. list' \subseteq Legs
  BY DEF TxInv, TxTypeOK
<1> QED
  BY <1>1, <1>3, <1>4, MoveStep

LEMMA ReturnStep ==
  ASSUME TxInv, NEW s \in Sessions, Return(s), UNCHANGED <<vars, up>>
  PROVE TxInv'
<1>1. ses' = [ses EXCEPT ![s] = Idle("idle")]
  BY DEF Return, Goto
<1>2. ses'[s] = Idle("idle") /\ \A t \in Sessions \ {s} : ses'[t] = ses[t]
  BY <1>1 DEF TxInv, TxTypeOK
<1>3. PaysOnce'
  <2>1. CASE s = Settler
    BY <1>2, <2>1 DEF Return, PaysOnce, Idle
  <2>2. CASE s # Settler
    BY <1>2, <2>2, PaysOnceStep DEF Return, TxInv, vars, Sessions
  <2> QED
    BY <2>1, <2>2
<1>4. list' \subseteq Legs
  BY DEF Return, TxInv, TxTypeOK
<1>5. Idle("idle") \in Session /\ Idle("idle").pc = "idle" /\ LocksFree(s, Idle("idle"))
  BY IdleType DEF Idle, LocksFree
<1> QED
  BY <1>1, <1>3, <1>4, <1>5, IdleSound, MoveStep

\* A session that has written nothing yet is sound wherever its handler is.
LEMMA NothingWritten ==
  ASSUME NEW s \in Sessions, NEW r \in Session, r.dirty = {}, ~r.held, r.wst = "none",
         r.pc \in {"check", "reject", "mirror", "list", "price", "order"}, s # Settler,
         r.tx \in {"accept", "close"}, r.o \in Orders,
         r.pc \in {"check", "reject", "mirror"} => r.tx = "accept",
         r.pc \in {"list", "price"} => r.tx = "close",
         ClosesWhole(r)
  PROVE Sound(s, r) /\ LocksFree(s, r)
BY SessionAssumption DEF Sound, Progress, Undisturbed, LocksFree

\* What is known of a session that a request has started.
LEMMA Busy ==
  ASSUME TxInv, NEW s \in Sessions, ses[s].pc # "idle"
  PROVE /\ up # "down" /\ ses[s] \in Session /\ Sound(s, ses[s])
        /\ ses[s].pc # "next" => ses[s].o \in Orders
BY DEF TxInv, TxTypeOK, Sound, Progress, Session

LEMMA ConfirmReadStep ==
  ASSUME TxInv, NEW c \in Clients, NEW o \in Orders, ConfirmRead(c, o)
  PROVE TxInv'
<1> DEFINE r == [Idle("check") EXCEPT !.tx = "accept", !.o = o]
<1>1. c \in Sessions /\ c # Settler
  BY SessionAssumption DEF Sessions
<1>2. r \in Session
  BY IdleType DEF Session
<1>3. /\ r.dirty = {} /\ ~r.held /\ r.wst = "none" /\ r.pc = "check" /\ r.tx = "accept" /\ r.o = o
  BY DEF Idle
<1> HIDE DEF r
<1>4. Sound(c, r) /\ LocksFree(c, r)
  BY <1>1, <1>2, <1>3, NothingWritten DEF ClosesWhole
<1> QED
  BY <1>1, <1>2, <1>3, <1>4, HandlerStep DEF ConfirmRead, r

LEMMA CloseReadStep ==
  ASSUME TxInv, NEW c \in Clients, NEW o \in Orders, CloseRead(c, o)
  PROVE TxInv'
<1> DEFINE r == [Idle("list") EXCEPT !.tx = "close", !.o = o]
<1>1. c \in Sessions /\ c # Settler
  BY SessionAssumption DEF Sessions
<1>2. r \in Session
  BY IdleType DEF Session
<1>3. /\ r.dirty = {} /\ ~r.held /\ r.wst = "none" /\ r.pc = "list" /\ r.tx = "close" /\ r.o = o
  BY DEF Idle
<1> HIDE DEF r
<1>4. ClosesWhole(r)
  BY <1>3 DEF ClosesWhole, CloseRead
<1>5. Sound(c, r) /\ LocksFree(c, r)
  BY <1>1, <1>2, <1>3, <1>4, NothingWritten
<1> QED
  BY <1>1, <1>2, <1>3, <1>5, HandlerStep DEF CloseRead, r

\* Before its first UPDATE a session has written nothing.
LEMMA Unwritten ==
  ASSUME TxInv, NEW s \in Sessions,
         ses[s].pc \in {"check", "reject", "mirror", "list", "price", "order"}
  PROVE /\ up # "down" /\ ses[s] \in Session /\ s # Settler /\ s \in Clients /\ ses[s].o \in Orders
        /\ ses[s].dirty = {} /\ ~ses[s].held /\ ses[s].wst = "none"
        /\ ses[s].tx \in {"accept", "close"} /\ ClosesWhole(ses[s])
BY Busy DEF Sound, Progress, Sessions

LEMMA ConfirmCheckStep ==
  ASSUME TxInv, NEW s \in Sessions, ConfirmCheck(s)
  PROVE TxInv'
<1>1. /\ ses[s].pc = "check" /\ up # "down" /\ s # Settler /\ ses[s].tx = "accept"
      /\ ses[s] \in Session /\ ses[s].o \in Orders /\ ses[s].dirty = {} /\ ~ses[s].held /\ ses[s].wst = "none"
  BY Unwritten, Busy DEF ConfirmCheck, Sound, Progress
<1>2. PICK pc \in {"reject", "mirror"} : Goto(s, [ses[s] EXCEPT !.pc = pc]) /\ UNCHANGED <<vars, up, list>>
  BY DEF ConfirmCheck
<1> DEFINE r == [ses[s] EXCEPT !.pc = pc]
<1>3. /\ r \in Session /\ r.pc = pc /\ r.tx = "accept" /\ r.o \in Orders /\ r.dirty = {} /\ ~r.held
      /\ r.wst = "none"
  BY <1>1 DEF Session
<1> HIDE DEF r
<1>4. Sound(s, r) /\ LocksFree(s, r)
  BY <1>1, <1>3, NothingWritten DEF ClosesWhole
<1> QED
  BY <1>1, <1>2, <1>3, <1>4, HandlerStep DEF r

LEMMA MirrorOrderStep ==
  ASSUME TxInv, NEW s \in Sessions, MirrorOrder(s)
  PROVE TxInv'
<1> DEFINE r == [ses[s] EXCEPT !.pc = "order"]
<1>1. /\ ses[s].pc = "mirror" /\ up # "down" /\ s # Settler /\ ses[s].tx = "accept"
      /\ ses[s] \in Session /\ ses[s].o \in Orders /\ ses[s].dirty = {} /\ ~ses[s].held /\ ses[s].wst = "none"
  BY Unwritten, Busy DEF MirrorOrder, Sound, Progress
<1>2. /\ r \in Session /\ r.pc = "order" /\ r.tx = "accept" /\ r.o \in Orders /\ r.dirty = {} /\ ~r.held
      /\ r.wst = "none"
  BY <1>1 DEF Session
<1>3. Goto(s, r) /\ UNCHANGED <<vars, up, list>>
  BY DEF MirrorOrder
<1> HIDE DEF r
<1>4. Sound(s, r) /\ LocksFree(s, r)
  BY <1>1, <1>2, NothingWritten DEF ClosesWhole
<1> QED
  BY <1>1, <1>2, <1>3, <1>4, HandlerStep

LEMMA AcceptLockStep ==
  ASSUME TxInv, NEW s \in Sessions, AcceptLock(s)
  PROVE TxInv'
<1> DEFINE r == [ses[s] EXCEPT !.pc = "fill", !.wst = "confirmed"]
<1>1. /\ ses[s].pc = "order" /\ ses[s].tx = "accept" /\ OrderFree(s, ses[s].o)
      /\ up # "down" /\ s # Settler
      /\ ses[s] \in Session /\ ses[s].o \in Orders /\ ses[s].dirty = {} /\ ~ses[s].held
  BY Unwritten DEF AcceptLock
<1>2. CASE OrderOf(s).st # "suggested"
  BY <1>2, ReturnStep DEF AcceptLock
<1>3. CASE OrderOf(s).st = "suggested"
  <2>1. /\ r \in Session /\ r.pc = "fill" /\ r.tx = "accept" /\ r.o = ses[s].o /\ r.dirty = {} /\ ~r.held
        /\ r.wst = "confirmed"
    BY <1>1 DEF Session, Statuses
  <2>2. Goto(s, r) /\ UNCHANGED <<vars, up, list>>
    BY <1>3 DEF AcceptLock
  <2> HIDE DEF r
  <2>3. Progress(s, r)
    BY <1>1, <2>1, SessionAssumption DEF Progress
  <2>4. Undisturbed(r) /\ ClosesWhole(r)
    BY <1>3, <2>1 DEF Undisturbed, ClosesWhole, OrderOf
  <2>5. LocksFree(s, r)
    BY <1>1, <2>1 DEF LocksFree
  <2> QED
    BY <1>1, <2>1, <2>2, <2>3, <2>4, <2>5, HandlerStep DEF Sound
<1> QED
  BY <1>2, <1>3

\* A session that starts on the legs of its order has all of them before it.
LEMMA LegsAhead ==
  ASSUME NEW s \in Sessions, NEW r \in Session, r.pc = "leg", r.dirty = {}, ~r.held, r.o \in Orders,
         r.todo = Targets(r), r.todo # {}
  PROVE Credited(r) = {} /\ r.todo \subseteq Targets(r) /\ r.dirty = Credited(r)
        /\ (r.held <=> Credited(r) # {})
BY DEF Credited

LEMMA AcceptFillStep ==
  ASSUME TxInv, NEW s \in Sessions, AcceptFill(s)
  PROVE TxInv'
<1> DEFINE sides == BuildLegs(OrderOf(s).kind)
           r == [ses[s] EXCEPT !.pc = "leg", !.wst = "filled", !.todo = sides]
<1>1. /\ ses[s].pc = "fill" /\ ses[s].wst = "confirmed" /\ up # "down" /\ s # Settler
      /\ ses[s] \in Session /\ ses[s].o \in Orders /\ ses[s].dirty = {} /\ ~ses[s].held
      /\ ses[s].tx = "accept" /\ OrderOf(s).st = "suggested"
  BY Busy DEF AcceptFill, Sound, Progress, Undisturbed, OrderOf
<1>2. sides # {} /\ sides \subseteq Sides
  BY BuildLegsAreSides DEF BuildLegs
<1>3. /\ r \in Session /\ r.pc = "leg" /\ r.tx = "accept" /\ r.o = ses[s].o /\ r.dirty = {} /\ ~r.held
      /\ r.wst = "filled" /\ r.todo = sides
  BY <1>1, <1>2 DEF Session, Statuses
<1>4. Goto(s, r) /\ UNCHANGED <<vars, up, list>>
  BY DEF AcceptFill
<1>5. Targets(r) = sides
  BY <1>3 DEF Targets, OrderOf
<1> HIDE DEF r, sides
<1>6. Progress(s, r)
  BY <1>1, <1>2, <1>3, <1>5, LegsAhead, SessionAssumption DEF Progress
<1>7. Undisturbed(r) /\ ClosesWhole(r)
  BY <1>1, <1>3 DEF Undisturbed, ClosesWhole, OrderOf
<1>8. LocksFree(s, r)
  BY <1>1, <1>3, OwnLocksFree DEF LocksFree
<1> QED
  BY <1>1, <1>3, <1>4, <1>6, <1>7, <1>8, HandlerStep DEF Sound

LEMMA FirstSideIn == ASSUME NEW S \in SUBSET Sides, S # {} PROVE FirstSide(S) \in S
BY DEF FirstSide, Sides

LEMMA CloseListStep ==
  ASSUME TxInv, NEW s \in Sessions, CloseList(s)
  PROVE TxInv'
<1> DEFINE o == ses[s].o
           open == {side \in Sides : leg[<<o, side>>].st = "open"}
           r == [ses[s] EXCEPT !.pc = "price", !.legs = open, !.todo = open]
<1>1. /\ ses[s].pc = "list" /\ up # "down" /\ s # Settler /\ ses[s].tx = "close"
      /\ ses[s] \in Session /\ o \in Orders /\ ses[s].dirty = {} /\ ~ses[s].held /\ ses[s].wst = "none"
      /\ ClosesWhole(ses[s])
  BY Unwritten, Busy DEF CloseList, Sound, Progress
<1>2. CASE open = {}
  BY <1>2, ReturnStep DEF CloseList
<1>3. CASE open # {}
  <2>1. /\ r \in Session /\ r.pc = "price" /\ r.tx = "close" /\ r.o = o /\ r.dirty = {} /\ ~r.held
        /\ r.wst = "none" /\ r.legs = open /\ r.todo = open
    BY <1>1 DEF Session
  <2>2. Goto(s, r) /\ UNCHANGED <<vars, up, list>>
    BY <1>3 DEF CloseList
  <2>3. order[o].st \in {"filled", "closed"}
    BY <1>1 DEF ClosesWhole
  <2>4. \A side \in Sides : leg[<<o, side>>].st
          = IF side \in BuildLegs(order[o].kind) THEN LegStatus(order[o].st) ELSE "none"
    BY <1>1 DEF TxInv, LegsFollowOrder, Legs
  <2>5. open = BuildLegs(order[o].kind)
    BY <1>3, <2>3, <2>4, BuildLegsAreSides DEF LegStatus
  <2> HIDE DEF r
  <2>6. ClosesWhole(r)
    BY <1>3, <2>1, <2>3, <2>5 DEF ClosesWhole
  <2>7. Sound(s, r) /\ LocksFree(s, r)
    BY <1>1, <2>1, <2>6, NothingWritten
  <2> QED
    BY <1>1, <2>1, <2>2, <2>7, HandlerStep
<1> QED
  BY <1>2, <1>3

LEMMA ClosePriceStep ==
  ASSUME TxInv, NEW s \in Sessions, ClosePrice(s)
  PROVE TxInv'
<1> DEFINE side == FirstSide(ses[s].todo)
           rest == ses[s].todo \ {side}
           pc == IF rest = {} THEN "order" ELSE "price"
           p == price[OrderOf(s).kind]
           r == [ses[s] EXCEPT !.px[side] = p, !.todo = rest, !.pc = pc]
<1>1. /\ ses[s].pc = "price" /\ up # "down" /\ s # Settler /\ ses[s].tx = "close"
      /\ ses[s] \in Session /\ ses[s].o \in Orders /\ ses[s].dirty = {} /\ ~ses[s].held /\ ses[s].wst = "none"
      /\ ClosesWhole(ses[s])
  BY Unwritten, Busy DEF ClosePrice, Sound, Progress
<1>2. /\ OrderOf(s).st \in {"filled", "closed"} /\ ses[s].legs = BuildLegs(OrderOf(s).kind)
      /\ ses[s].todo # {} /\ ses[s].todo \subseteq ses[s].legs
      /\ OrderOf(s).kind = "funding_hedge" =>
           \A x \in ses[s].legs \ ses[s].todo : ses[s].px[x] # NoPrice
  BY <1>1 DEF ClosesWhole, OrderOf
<1>3. side \in ses[s].todo /\ side \in Sides
  BY <1>1, <1>2, FirstSideIn DEF Session
<1>4. p \in Readings /\ (OrderOf(s).kind = "funding_hedge" => p # NoPrice)
  BY <1>1, <1>2 DEF TxInv, TxTypeOK, TypeOK, OrderRow, HedgesPriced, OrderOf
<1> HIDE DEF p, side
<1>5. /\ r \in Session /\ r.pc = pc /\ r.tx = "close" /\ r.o = ses[s].o /\ r.dirty = {} /\ ~r.held
      /\ r.wst = "none" /\ r.legs = ses[s].legs /\ r.todo = rest
      /\ r.px = [ses[s].px EXCEPT ![side] = p]
  BY <1>1, <1>4 DEF Session
<1>6. Goto(s, r) /\ UNCHANGED <<vars, up, list>>
  BY DEF ClosePrice, p, side
<1>7. \A x \in Sides : r.px[x] = IF x = side THEN p ELSE ses[s].px[x]
  BY <1>1, <1>5 DEF Session
<1> HIDE DEF r
<1>8. ClosesWhole(r)
  <2>1. r.legs \subseteq Sides
    BY <1>1, <1>5 DEF Session
  <2> QED
    BY <1>2, <1>3, <1>4, <1>5, <1>7, <2>1 DEF ClosesWhole, OrderOf
<1>9. Sound(s, r) /\ LocksFree(s, r)
  BY <1>1, <1>5, <1>8, NothingWritten
<1> QED
  BY <1>1, <1>5, <1>6, <1>9, HandlerStep

LEMMA CloseLockStep ==
  ASSUME TxInv, NEW s \in Sessions, CloseLock(s)
  PROVE TxInv'
<1> DEFINE r == [ses[s] EXCEPT !.pc = "leg", !.wst = "closed", !.todo = ses[s].legs]
<1>1. /\ ses[s].pc = "order" /\ ses[s].tx = "close" /\ OrderFree(s, ses[s].o)
      /\ up # "down" /\ s # Settler
      /\ ses[s] \in Session /\ ses[s].o \in Orders /\ ses[s].dirty = {} /\ ~ses[s].held
      /\ ClosesWhole(ses[s])
  BY Unwritten DEF CloseLock
<1>2. CASE OrderOf(s).st # "filled"
  BY <1>2, ReturnStep DEF CloseLock
<1>3. CASE OrderOf(s).st = "filled"
  <2>1. /\ r \in Session /\ r.pc = "leg" /\ r.tx = "close" /\ r.o = ses[s].o /\ r.dirty = {} /\ ~r.held
        /\ r.wst = "closed" /\ r.todo = ses[s].legs /\ r.legs = ses[s].legs /\ r.px = ses[s].px
    BY <1>1 DEF Session, Statuses
  <2>2. Goto(s, r) /\ UNCHANGED <<vars, up, list>>
    BY <1>3 DEF CloseLock
  <2> HIDE DEF r
  <2>3. Targets(r) = r.legs
    BY <2>1 DEF Targets
  <2>4. r.legs # {}
    BY <1>1, <2>1 DEF ClosesWhole, BuildLegs
  <2>5. Progress(s, r)
    BY <1>1, <2>1, <2>3, <2>4, LegsAhead, SessionAssumption DEF Progress
  <2>6. Undisturbed(r)
    BY <1>3, <2>1 DEF Undisturbed, OrderOf
  <2>7. ClosesWhole(r)
    BY <1>1, <2>1 DEF ClosesWhole
  <2>8. LocksFree(s, r)
    BY <1>1, <2>1 DEF LocksFree
  <2> QED
    BY <1>1, <2>1, <2>2, <2>5, <2>6, <2>7, <2>8, HandlerStep DEF Sound
<1> QED
  BY <1>2, <1>3

-----------------------------------------------------------------------------
(* The statements of a transaction. *)

\* A transaction that writes legs: its order, its legs and what it writes are of their types.
LEMMA Writing ==
  ASSUME TxInv, NEW s \in Sessions, ses[s].pc \in {"leg", "acct", "commit"}
  PROVE /\ up # "down" /\ ses[s] \in Session /\ ses[s].o \in Orders /\ order[ses[s].o] \in OrderRow
        /\ ses[s].tx \in {"accept", "close", "settle"}
        /\ Targets(ses[s]) \subseteq Sides /\ Targets(ses[s]) # {}
        /\ ses[s].add \in Int /\ Sound(s, ses[s])
<1>1. up # "down" /\ ses[s] \in Session /\ ses[s].o \in Orders /\ Sound(s, ses[s])
  BY Busy
<1>2. ses[s].tx \in {"accept", "close", "settle"}
  BY <1>1 DEF Sound, Progress
<1>3. order[ses[s].o] \in OrderRow /\ ses[s].add \in Int
  BY <1>1 DEF TxInv, TxTypeOK, TypeOK, Session
<1>4. Targets(ses[s]) \subseteq Sides /\ Targets(ses[s]) # {}
  <2>1. CASE ses[s].tx = "accept"
    <3>1. Targets(ses[s]) = BuildLegs(order[ses[s].o].kind)
      BY <2>1 DEF Targets
    <3> QED
      BY <3>1 DEF BuildLegs, Sides
  <2>2. CASE ses[s].tx = "close"
    <3>1. Targets(ses[s]) = ses[s].legs /\ ses[s].legs = BuildLegs(order[ses[s].o].kind)
      BY <1>1, <2>2 DEF Targets, Sound, ClosesWhole
    <3> QED
      BY <3>1 DEF BuildLegs, Sides
  <2>3. CASE ses[s].tx = "settle"
    <3>1. Targets(ses[s]) = {FundingSide(order[ses[s].o].kind)}
      BY <2>3 DEF Targets
    <3> QED
      BY <3>1 DEF FundingSide, Sides
  <2> QED
    BY <1>2, <2>1, <2>2, <2>3
<1> QED
  BY <1>1, <1>2, <1>3, <1>4

\* What a transaction is to do depends on nothing that its statements change.
LEMMA SameWork ==
  ASSUME NEW q, NEW r, r.tx = q.tx, r.o = q.o, r.legs = q.legs, r.px = q.px, r.add = q.add
  PROVE /\ Targets(r) = Targets(q)
        /\ \A l : NewLeg(r, l) = NewLeg(q, l) /\ CashAmount(r, l) = CashAmount(q, l)
<1>1. Targets(r) = Targets(q)
  BY DEF Targets
<1>2. ASSUME NEW l PROVE NewLeg(r, l) = NewLeg(q, l) /\ CashAmount(r, l) = CashAmount(q, l)
  BY DEF NewLeg, CashAmount
<1> QED
  BY <1>1, <1>2

LEMMA WorkTypes ==
  ASSUME TxInv, NEW r \in Session, r.tx \in {"accept", "close", "settle"}, NEW l \in Legs
  PROVE NewLeg(r, l) \in LegRow /\ CashAmount(r, l) \in Int
<1>1. /\ leg[l] \in LegRow /\ l[2] \in Sides /\ order[l[1]].ref \in Int /\ r.add \in Int
      /\ r.px[l[2]] \in Readings
  BY DEF TxInv, TxTypeOK, TypeOK, OrderRow, Session, Legs
<1>2. CASE r.tx = "accept"
  <2>1. NewLeg(r, l) = OpenedLeg(NoLeg, l[2], order[l[1]].ref) /\ CashAmount(r, l) = OpenCash(l[2], order[l[1]].ref)
    BY <1>2 DEF NewLeg, CashAmount
  <2> QED
    BY <1>1, <2>1, NoLegType, RowOperationsType, AmountsAreInts
<1>3. CASE r.tx = "close"
  <2>1. /\ NewLeg(r, l) = ClosedLeg(leg[l], l[2], order[l[1]].ref, r.px[l[2]])
        /\ CashAmount(r, l) = CloseCash(l[2], r.px[l[2]])
    BY <1>3 DEF NewLeg, CashAmount
  <2> QED
    BY <1>1, <2>1, RowOperationsType, AmountsAreInts
<1>4. CASE r.tx = "settle"
  <2>1. NewLeg(r, l) = FundedLeg(leg[l], r.add) /\ CashAmount(r, l) = r.add
    BY <1>4 DEF NewLeg, CashAmount
  <2> QED
    BY <1>1, <2>1, RowOperationsType
<1> QED
  BY <1>2, <1>3, <1>4

LEMMA WriteLegStep ==
  ASSUME TxInv, NEW s \in Sessions, WriteLeg(s)
  PROVE TxInv'
<1> DEFINE q == ses[s]
           side == FirstSide(q.todo)
           l == <<q.o, side>>
           r == [q EXCEPT !.pc = "acct", !.dirty = @ \cup {side}, !.wleg[side] = NewLeg(q, l)]
<1>1. /\ q.pc = "leg" /\ up # "down" /\ q \in Session /\ q.o \in Orders
      /\ q.tx \in {"accept", "close", "settle"} /\ Sound(s, q) /\ Targets(q) \subseteq Sides
  BY Writing DEF WriteLeg
<1>2. /\ q.todo \subseteq Targets(q) /\ q.todo # {} /\ q.dirty = Credited(q) /\ (q.held <=> Credited(q) # {})
      /\ Credited(q) = Targets(q) \ q.todo
  BY <1>1 DEF Sound, Progress, Credited
<1>3. side \in q.todo /\ side \in Sides /\ l \in Legs
  BY <1>1, <1>2, FirstSideIn DEF Legs
<1>4. CurrentLeg(s) = l /\ CurrentLeg(s)[2] = side
  BY DEF CurrentLeg
<1>5. CASE ses[s].tx = "close" /\ leg[CurrentLeg(s)].st # "open"
  BY <1>5, ReturnStep DEF WriteLeg
<1>6. CASE ~(ses[s].tx = "close" /\ leg[CurrentLeg(s)].st # "open")
  <2>1. Goto(s, r) /\ UNCHANGED <<vars, up, list>>
    BY <1>4, <1>6 DEF WriteLeg
  <2>2. NewLeg(q, l) \in LegRow
    BY <1>1, <1>3, WorkTypes
  <2>3. /\ r \in Session /\ r.pc = "acct" /\ r.tx = q.tx /\ r.o = q.o /\ r.legs = q.legs /\ r.todo = q.todo
        /\ r.px = q.px /\ r.add = q.add /\ r.wst = q.wst /\ r.held = q.held /\ r.wacct = q.wacct
        /\ r.dirty = q.dirty \cup {side} /\ r.wleg = [q.wleg EXCEPT ![side] = NewLeg(q, l)]
    BY <1>1, <1>3, <2>2 DEF Session
  <2>4. \A x \in Sides : r.wleg[x] = IF x = side THEN NewLeg(q, l) ELSE q.wleg[x]
    BY <1>1, <2>3 DEF Session
  <2> HIDE DEF r
  <2>5. Targets(r) = Targets(q) /\ \A m : NewLeg(r, m) = NewLeg(q, m) /\ CashAmount(r, m) = CashAmount(q, m)
    BY <2>3, SameWork
  <2>6. Credited(r) = Credited(q) /\ Staged(r) = Staged(q)
    <3>1. Credited(r) = Credited(q)
      BY <1>1, <2>3, <2>5 DEF Credited
    <3>2. [x \in Credited(r) |-> CashAmount(r, <<r.o, x>>)] = [x \in Credited(q) |-> CashAmount(q, <<q.o, x>>)]
      BY <2>3, <2>5, <3>1
    <3> QED
      BY <3>1, <3>2 DEF Staged
  <2>7. Progress(s, r)
    BY <1>1, <1>2, <2>3, <2>5, <2>6 DEF Sound, Progress
  <2>8. Undisturbed(r)
    <3>1. \A x \in q.dirty : q.wleg[x] = NewLeg(q, <<q.o, x>>) /\ x \in Sides
      BY <1>1, <1>2 DEF Sound, Undisturbed
    <3>2. \A x \in r.dirty : r.wleg[x] = NewLeg(r, <<r.o, x>>)
      BY <1>3, <2>3, <2>4, <2>5, <3>1
    <3> QED
      BY <1>1, <2>3, <2>6, <3>2 DEF Sound, Undisturbed
  <2>9. ClosesWhole(r)
    BY <1>1, <2>3 DEF Sound, ClosesWhole
  <2>10. LocksFree(s, r)
    <3>1. LocksFree(s, q) /\ LegFree(s, l)
      BY <1>4, OwnLocksFree DEF WriteLeg
    <3> QED
      BY <2>3, <3>1 DEF LocksFree
  <2> QED
    BY <1>1, <2>1, <2>3, <2>7, <2>8, <2>9, <2>10, HandlerStep DEF Sound
<1> QED
  BY <1>5, <1>6

LEMMA TotalAdds ==
  ASSUME NEW S \in SUBSET Sides, NEW x \in Sides \ S, NEW f \in [S -> Int], NEW g \in [S \cup {x} -> Int],
         \A y \in S : g[y] = f[y]
  PROVE Total(g) = Total(f) + g[x]
<1>1. DOMAIN f = S /\ DOMAIN g = S \cup {x} /\ Sides = {"long", "short"}
  BY DEF Sides
<1> QED
  BY <1>1 DEF Total

LEMMA CreditTwice ==
  ASSUME NEW a \in Account, NEW m \in Int, NEW n \in Int
  PROVE Credit(Credit(a, m), n) = Credit(a, m + n)
<1> DEFINE b == Credit(Credit(a, m), n)
           c == Credit(a, m + n)
<1>1. Credit(a, m) \in Account /\ b \in Account /\ c \in Account
  BY CreditType
<1>2. b.exists = c.exists /\ b.capital = c.capital /\ b.cash = c.cash /\ b.ins = c.ins /\ b.funded = c.funded
  <2>1. b.cash = (a.cash + m) + n /\ c.cash = a.cash + (m + n) /\ a.cash \in Int
    BY <1>1, CreditFields DEF Account
  <2>2. b.exists = TRUE /\ c.exists = TRUE
    BY <1>1 DEF Credit, Account
  <2>3. b.capital = c.capital /\ b.ins = c.ins /\ b.funded = c.funded
    BY <1>1, CreditFields
  <2>4. b.exists = c.exists
    BY <2>2, Zenon
  <2>5. b.cash = c.cash
    BY <2>1
  <2> QED
    BY <2>3, <2>4, <2>5, Zenon
<1> HIDE DEF b, c
<1>3. b = c
  BY <1>1, <1>2 DEF Account
<1> QED
  BY <1>3 DEF b, c

LEMMA WriteAcctStep ==
  ASSUME TxInv, NEW s \in Sessions, WriteAcct(s)
  PROVE TxInv'
<1> DEFINE q == ses[s]
           side == FirstSide(q.todo)
           l == <<q.o, side>>
           rest == q.todo \ {side}
           base == IF q.held THEN q.wacct ELSE acct
           pc == IF rest = {} THEN "commit" ELSE "leg"
           w == Credit(base, CashAmount(q, l))
           r == [q EXCEPT !.pc = pc, !.todo = rest, !.held = TRUE, !.wacct = w]
<1>1. /\ q.pc = "acct" /\ up # "down" /\ q \in Session /\ q.o \in Orders /\ AcctFree(s)
      /\ q.tx \in {"accept", "close", "settle"} /\ Sound(s, q) /\ Targets(q) \subseteq Sides
  BY Writing DEF WriteAcct
<1>2. /\ q.todo \subseteq Targets(q) /\ q.todo # {} /\ q.dirty = Credited(q) \cup {side}
      /\ (q.held <=> Credited(q) # {}) /\ Credited(q) = Targets(q) \ q.todo
  BY <1>1 DEF Sound, Progress, Credited
<1>3. side \in q.todo /\ side \in Sides /\ l \in Legs
  BY <1>1, <1>2, FirstSideIn DEF Legs
<1>4. Goto(s, r) /\ UNCHANGED <<vars, up, list>>
  BY DEF WriteAcct, CurrentLeg
<1>5. acct \in Account /\ base \in Account /\ CashAmount(q, l) \in Int
  BY <1>1, <1>3, WorkTypes DEF TxInv, TxTypeOK, TypeOK, Session
<1>6. w \in Account
  BY <1>5, CreditType
<1> HIDE DEF w
<1>7. /\ r \in Session /\ r.pc = pc /\ r.tx = q.tx /\ r.o = q.o /\ r.legs = q.legs /\ r.todo = rest
      /\ r.px = q.px /\ r.add = q.add /\ r.wst = q.wst /\ r.held = TRUE /\ r.wacct = w
      /\ r.dirty = q.dirty /\ r.wleg = q.wleg
  BY <1>1, <1>6 DEF Session
<1> HIDE DEF r
<1>8. Targets(r) = Targets(q) /\ \A m : NewLeg(r, m) = NewLeg(q, m) /\ CashAmount(r, m) = CashAmount(q, m)
  BY <1>7, SameWork
<1>9. Credited(r) = Credited(q) \cup {side} /\ side \notin Credited(q)
  BY <1>2, <1>3, <1>7, <1>8 DEF Credited
<1>10. Progress(s, r)
  BY <1>1, <1>2, <1>3, <1>7, <1>8, <1>9 DEF Sound, Progress
<1>11. Undisturbed(r)
  <2> DEFINE f == [x \in Credited(q) |-> CashAmount(q, <<q.o, x>>)]
             g == [x \in Credited(r) |-> CashAmount(r, <<r.o, x>>)]
  <2>1. \A x \in Sides : CashAmount(q, <<q.o, x>>) \in Int
    BY <1>1, WorkTypes DEF Legs
  <2>2. Credited(q) \in SUBSET Sides /\ f \in [Credited(q) -> Int]
    BY <1>1, <1>2, <2>1
  <2>3. g \in [Credited(q) \cup {side} -> Int] /\ (\A y \in Credited(q) : g[y] = f[y]) /\ g[side] = CashAmount(q, l)
    BY <1>3, <1>7, <1>8, <1>9, <2>1, <2>2
  <2>4. Staged(q) = Total(f) /\ Staged(r) = Total(g)
    BY DEF Staged
  <2> HIDE DEF f, g
  <2>5. Staged(r) = Staged(q) + CashAmount(q, l)
    BY <1>3, <1>9, <2>2, <2>3, <2>4, TotalAdds
  <2>6. Staged(q) \in Int
    BY <2>2, <2>4, TotalIsInt
  <2>7. w = Credit(acct, Staged(r))
    <3>1. CASE q.held
      <4>1. base = Credit(acct, Staged(q))
        BY <1>1, <3>1 DEF Sound, Undisturbed
      <4> QED
        BY <1>5, <2>5, <2>6, <4>1, CreditTwice DEF w
    <3>2. CASE ~q.held
      <4>1. Credited(q) = {}
        BY <1>2, <3>2
      <4>2. Staged(q) = 0
        BY <2>2, <2>4, <4>1 DEF Total
      <4> QED
        BY <1>5, <2>5, <3>2, <4>2 DEF w
    <3> QED
      BY <3>1, <3>2
  <2>8. \A x \in r.dirty : r.wleg[x] = NewLeg(r, <<r.o, x>>)
    BY <1>1, <1>7, <1>8 DEF Sound, Undisturbed
  <2> QED
    BY <1>1, <1>7, <2>7, <2>8 DEF Sound, Undisturbed
<1>12. ClosesWhole(r)
  BY <1>1, <1>7 DEF Sound, ClosesWhole
<1>13. LocksFree(s, r)
  BY <1>1, <1>7, OwnLocksFree DEF LocksFree
<1> QED
  BY <1>1, <1>4, <1>7, <1>10, <1>11, <1>12, <1>13, HandlerStep DEF Sound

-----------------------------------------------------------------------------
(* The settlement between its transactions. *)

LEMMA SettleListStep ==
  ASSUME TxInv, NEW kind \in Kinds, SettleList(kind)
  PROVE TxInv'
<1> DEFINE r == Idle("next")
<1>1. Settler \in Sessions /\ up # "down" /\ ses' = [ses EXCEPT ![Settler] = r] /\ r \in Session
  BY IdleType DEF Sessions, SettleList, Goto
<1>2. ses'[Settler] = r /\ r.tx = "none" /\ r.pc = "next"
  BY <1>1 DEF TxInv, TxTypeOK, Idle
<1>3. order' = order /\ leg' = leg /\ UNCHANGED <<vars, up>>
  BY DEF SettleList, vars
<1>4. list' \subseteq Legs /\ \A l \in list' : /\ leg[l].st # "none" /\ leg[l].funds < MaxFundings
                                               /\ l[2] = FundingSide(order[l[1]].kind)
  BY DEF SettleList
<1>5. PaysOnce'
  BY <1>2, <1>3, <1>4 DEF PaysOnce
<1>6. Sound(Settler, r) /\ LocksFree(Settler, r)
  BY <1>1, IdleSound DEF Idle, LocksFree
<1> QED
  BY <1>1, <1>3, <1>4, <1>5, <1>6, MoveStep

LEMMA SettleNextStep ==
  ASSUME TxInv, SettleNext
  PROVE TxInv'
<1>1. /\ Settler \in Sessions /\ ses[Settler].pc = "next" /\ up # "down" /\ ses[Settler].tx = "none"
      /\ UNCHANGED <<vars, up>> /\ order' = order /\ leg' = leg
  BY Busy DEF SettleNext, Sessions, Sound, Progress, vars
<1>2. CASE list = {}
  BY <1>1, <1>2, ReturnStep DEF SettleNext
<1>3. CASE list # {}
  <2>1. PICK l \in list, add \in FundingAdds :
          /\ list' = list \ {l}
          /\ Goto(Settler, [Idle("leg") EXCEPT !.tx = "settle", !.o = l[1], !.todo = {l[2]}, !.add = add])
    BY <1>3 DEF SettleNext
  <2> DEFINE r == [Idle("leg") EXCEPT !.tx = "settle", !.o = l[1], !.todo = {l[2]}, !.add = add]
  <2>2. /\ l \in Legs /\ l[1] \in Orders /\ l[2] \in Sides /\ l = <<l[1], l[2]>> /\ add \in Int
        /\ list \subseteq Legs
    BY LedgerAssumption DEF TxInv, TxTypeOK, Legs
  <2>3. /\ \A m \in list : /\ leg[m].st # "none" /\ leg[m].funds < MaxFundings
                           /\ m[2] = FundingSide(order[m[1]].kind)
    BY DEF TxInv, PaysOnce
  <2>5. r \in Session
    BY <2>2, IdleType DEF Session
  <2>6. /\ r.pc = "leg" /\ r.tx = "settle" /\ r.o = l[1] /\ r.todo = {l[2]} /\ r.add = add
        /\ r.dirty = {} /\ ~r.held /\ r.wst = "none"
    BY DEF Idle
  <2>7. ses' = [ses EXCEPT ![Settler] = r] /\ ses'[Settler] = r
    BY <1>1, <2>1 DEF Goto, TxInv, TxTypeOK
  <2> HIDE DEF r
  <2>8. Targets(r) = {l[2]}
    BY <2>3, <2>6 DEF Targets
  <2>9. Progress(Settler, r)
    BY <2>2, <2>5, <2>6, <2>8, LegsAhead, SessionAssumption, <1>1 DEF Progress
  <2>10. Undisturbed(r) /\ ClosesWhole(r) /\ LocksFree(Settler, r)
    BY <2>6 DEF Undisturbed, ClosesWhole, LocksFree
  <2>11. PaysOnce'
    <3>1. FundingSide(order[l[1]].kind) = l[2] /\ list' = list \ {l}
      BY <2>1, <2>3
    <3>2. {m \in Legs : r.tx = "settle" /\ m = <<r.o, FundingSide(order[r.o].kind)>>} = {l}
      BY <2>2, <2>6, <3>1
    <3> QED
      BY <1>1, <2>3, <2>6, <2>7, <3>1, <3>2 DEF PaysOnce, OrderOf
  <2> QED
    BY <1>1, <2>1, <2>2, <2>5, <2>7, <2>9, <2>10, <2>11, MoveStep DEF Sound
<1> QED
  BY <1>2, <1>3

-----------------------------------------------------------------------------
(* Steps that write the tables. *)

\* A step that leaves alone what the record of a session rests on.
LEMMA Unmoved ==
  ASSUME TxInv, NEW t \in Sessions, ses'[t] = ses[t],
         order' \in [Orders -> OrderRow],
         \A o \in Orders : order[o].st # "none" => order'[o].kind = order[o].kind /\ order'[o].ref = order[o].ref,
         ses[t].wst # "none" => order'[ses[t].o].st = order[ses[t].o].st,
         ses[t].tx = "close" => order'[ses[t].o].st \in {"filled", "closed"},
         \A side \in ses[t].dirty : leg'[<<ses[t].o, side>>] = leg[<<ses[t].o, side>>],
         ses[t].held => acct' = acct
  PROVE Sound(t, ses[t])'
<1> DEFINE r == ses[t]
<1>1. r \in Session /\ Sound(t, r)
  BY DEF TxInv, TxTypeOK, Sound
<1>2. r.tx = "close" => r.o \in Orders /\ order[r.o].st # "none"
  BY <1>1 DEF Sound, Progress, ClosesWhole, Session
<1>3. CASE r.pc \notin {"leg", "acct", "commit"}
  <2>1. Progress(t, r)'
    BY <1>1, <1>3 DEF Sound, Progress
  <2>2. Undisturbed(r)'
    BY <1>1, <1>3 DEF Sound, Progress, Undisturbed
  <2>3. ClosesWhole(r)'
    BY <1>1, <1>2 DEF Sound, ClosesWhole
  <2> QED
    BY <2>1, <2>2, <2>3 DEF Sound
<1>4. CASE r.pc \in {"leg", "acct", "commit"}
  <2>1. /\ r.o \in Orders /\ r.tx \in {"accept", "close", "settle"} /\ Targets(r) \subseteq Sides
        /\ r.dirty \subseteq Sides
    BY <1>1, <1>4, Writing DEF Session
  <2>2. order[r.o].st # "none"
    <3>1. CASE r.tx = "accept"
      BY <1>1, <1>4, <3>1 DEF Sound, Progress, Undisturbed
    <3>2. CASE r.tx = "close"
      BY <1>2, <3>2
    <3>3. CASE r.tx = "settle"
      <4> DEFINE l == <<r.o, FundingSide(OrderOf(Settler).kind)>>
      <4>1. t = Settler
        BY <1>1, <3>3 DEF Sound, Progress
      <4>2. l \in Legs /\ leg[l].st # "none"
        BY <2>1, <3>3, <4>1 DEF TxInv, PaysOnce, Legs, FundingSide, Sides
      <4> QED
        BY <4>2 DEF TxInv, LegsFollowOrder, LegStatus
    <3> QED
      BY <2>1, <3>1, <3>2, <3>3
  <2>3. order'[r.o].kind = order[r.o].kind /\ order'[r.o].ref = order[r.o].ref
    BY <2>1, <2>2
  <2>4. Targets(r)' = Targets(r) /\ \A side : CashAmount(r, <<r.o, side>>)' = CashAmount(r, <<r.o, side>>)
    BY <2>3 DEF Targets, CashAmount
  <2>5. \A side \in r.dirty : NewLeg(r, <<r.o, side>>)' = NewLeg(r, <<r.o, side>>)
    BY <2>3 DEF NewLeg
  <2>6. Credited(r)' = Credited(r) /\ Staged(r)' = Staged(r)
    <3>1. Credited(r)' = Credited(r)
      BY <2>4 DEF Credited
    <3>2. [side \in Credited(r) |-> CashAmount(r, <<r.o, side>>)]'
            = [side \in Credited(r) |-> CashAmount(r, <<r.o, side>>)]
      BY <2>4, <3>1
    <3> QED
      BY <3>1, <3>2 DEF Staged
  <2>7. Progress(t, r)'
    BY <1>1, <2>4, <2>6 DEF Sound, Progress
  <2>8. Undisturbed(r)'
    BY <1>1, <2>5, <2>6 DEF Sound, Undisturbed
  <2>9. ClosesWhole(r)'
    BY <1>1, <1>2 DEF Sound, ClosesWhole
  <2> QED
    BY <2>7, <2>8, <2>9 DEF Sound
<1> QED
  BY <1>3, <1>4

\* What an order and a leg keep while the tables move as the store promises.
LEMMA TermsStay ==
  ASSUME LedgerInv, [Next]_vars
  PROVE /\ \A o \in Orders : /\ order[o].st # "none" => order'[o].kind = order[o].kind /\ order'[o].ref = order[o].ref
                             /\ order[o].st \in {"filled", "closed"} => order'[o].st \in {"filled", "closed"}
        /\ \A l \in Legs : leg[l].st # "none" => leg'[l].st # "none"
<1>1. CASE UNCHANGED vars
  BY <1>1 DEF vars
<1>2. CASE ~UNCHANGED vars
  <2>1. KeepsHistory /\ LedgerInv'
    BY <1>2, HistoryStep, LedgerStep
  <2>2. ASSUME NEW o \in Orders, order[o].st # "none"
        PROVE /\ order'[o].kind = order[o].kind /\ order'[o].ref = order[o].ref
              /\ order[o].st \in {"filled", "closed"} => order'[o].st \in {"filled", "closed"}
    BY <2>1, <2>2 DEF KeepsHistory, Arc
  <2>3. ASSUME NEW l \in Legs, leg[l].st # "none" PROVE leg'[l].st # "none"
    BY <2>1, <2>3 DEF KeepsHistory, Kept, LedgerInv, FlowsFollowLegs
  <2> QED
    BY <2>2, <2>3
<1> QED
  BY <1>1, <1>2

LEMMA HedgesPricedStep ==
  ASSUME TypeOK, HedgesPriced, [Next]_vars
  PROVE HedgesPriced'
<1>1. order \in [Orders -> OrderRow]
  BY DEF TypeOK
<1>2. ASSUME NEW o \in Orders, NEW kind \in Kinds, NEW st \in {"suggested", "rejected"}, Insert(o, kind, st)
      PROVE HedgesPriced'
  <2>1. PICK ref \in RefPrices(kind) :
          /\ kind = "funding_hedge" /\ st = "suggested" => ref > 0
          /\ order' = [order EXCEPT ![o] = [st |-> st, kind |-> kind, ref |-> ref]]
    BY <1>2 DEF Insert
  <2>2. kind = "funding_hedge" /\ st = "suggested" => price[kind] # NoPrice
    BY <2>1 DEF RefPrices
  <2>3. order'[o].kind = kind /\ order'[o].st = st /\ price' = price
    BY <1>1, <1>2, <2>1 DEF Insert
  <2>4. \A p \in Orders \ {o} : order'[p] = order[p]
    BY <1>1, <2>1
  <2> QED
    BY <2>2, <2>3, <2>4 DEF HedgesPriced
<1>3. ASSUME NEW o \in Orders, Accept(o) PROVE HedgesPriced'
  BY <1>1, <1>3 DEF Accept, HedgesPriced, OrderRow
<1>4. ASSUME NEW o \in Orders, Reject(o) PROVE HedgesPriced'
  BY <1>1, <1>4 DEF Reject, HedgesPriced, OrderRow
<1>5. ASSUME NEW o \in Orders, NEW px, Close(o, px) PROVE HedgesPriced'
  BY <1>1, <1>5 DEF Close, HedgesPriced, OrderRow
<1>6. ASSUME NEW kind \in Kinds, NEW p \in Prices, Tick(kind, p) PROVE HedgesPriced'
  BY <1>6, LedgerAssumption DEF Tick, HedgesPriced, TypeOK
<1>7. CASE UNCHANGED <<order, price>>
  BY <1>7 DEF HedgesPriced
<1> QED
  BY <1>2, <1>3, <1>4, <1>5, <1>6, <1>7, LedgerAssumption
     DEF Next, SettleFunding, InitAccount, vars

\* What the step of session s, or of none, must leave to session t.
Spares(t) ==
  /\ ses[t].wst # "none" => order'[ses[t].o].st = order[ses[t].o].st
  /\ \A side \in ses[t].dirty : leg'[<<ses[t].o, side>>] = leg[<<ses[t].o, side>>]
  /\ ses[t].held => acct' = acct

LEMMA SparedIsSound ==
  ASSUME TxInv, LedgerInv, [Next]_vars, NEW t \in Sessions, ses'[t] = ses[t], Spares(t)
  PROVE Sound(t, ses[t])'
<1>1. ses[t].tx = "close" => ses[t].o \in Orders /\ order[ses[t].o].st \in {"filled", "closed"}
  BY DEF TxInv, TxTypeOK, Session, Progress, ClosesWhole
<1>2. order' \in [Orders -> OrderRow]
  BY TypeStep DEF LedgerInv, TypeOK
<1> QED
  BY <1>1, <1>2, TermsStay, Unmoved DEF Spares

\* A step on the tables that stays within the promises of the store and within the locks.
LEMMA TableStep ==
  ASSUME TxInv, LedgerInv, [Next]_vars, NEW s \in Sessions, NEW r \in Session,
         ses' = [ses EXCEPT ![s] = r], LocksFree(s, r), Sound(s, ses[s])',
         \A t \in Sessions \ {s} : Spares(t),
         list' \subseteq Legs, PaysOnce', up' \in {"down", "plain", "sim"},
         up' = "down" => up = "down" /\ r.pc = "idle"
  PROVE TxInv'
<1>1. ses'[s] = r /\ \A t \in Sessions \ {s} : ses'[t] = ses[t]
  BY DEF TxInv, TxTypeOK
<1>2. TxTypeOK'
  BY TypeStep DEF TxInv, TxTypeOK
<1>3. LegsFollowOrder' /\ HedgesPriced'
  BY LedgerStep, HedgesPricedStep DEF TxInv, LedgerInv
<1>4. (up = "down" => \A t \in Sessions : ses[t].pc = "idle")'
  BY <1>1 DEF TxInv
<1>5. OneWriter'
  BY OneWriterStep
<1>6. ASSUME NEW t \in Sessions PROVE Sound(t, ses[t])'
  BY <1>1, <1>6, SparedIsSound
<1> QED
  BY <1>2, <1>3, <1>4, <1>5, <1>6 DEF TxInv, Sound

LEMMA NextIdle ==
  ASSUME NEW s \in Sessions, NEW pc \in {"idle", "next"}, pc = "next" => s = Settler, ses'[s] = Idle(pc)
  PROVE Sound(s, ses[s])'
BY DEF Idle, Sound, Progress, Undisturbed, ClosesWhole

LEMMA RejectOrderStep ==
  ASSUME TxInv, LedgerInv, NEW s \in Sessions, RejectOrder(s)
  PROVE TxInv' /\ [Next]_vars
<1> DEFINE o == ses[s].o
<1>1. /\ s # Settler /\ s \in Clients /\ o \in Orders /\ up # "down" /\ OrderFree(s, o)
      /\ leg' = leg /\ acct' = acct /\ price' = price /\ up' = up /\ list' = list
      /\ ses' = [ses EXCEPT ![s] = Idle("idle")]
  BY Unwritten DEF RejectOrder, Return, Goto
<1>2. CASE order[o].st # "suggested"
  <2>1. UNCHANGED <<vars, up>> /\ Return(s)
    BY <1>1, <1>2 DEF RejectOrder, OrderOf, vars
  <2> QED
    BY <2>1, ReturnStep
<1>3. CASE order[o].st = "suggested"
  <2>1. order' = [order EXCEPT ![o].st = "rejected"] /\ order \in [Orders -> OrderRow]
    BY <1>3 DEF RejectOrder, OrderOf, TxInv, TxTypeOK, TypeOK
  <2>2. Reject(o) /\ [Next]_vars
    BY <1>1, <1>3, <2>1 DEF Reject, Next
  <2>3. \A p \in Orders : order'[p].kind = order[p].kind /\ (p # o => order'[p] = order[p])
    BY <2>1 DEF OrderRow
  <2>4. ASSUME NEW t \in Sessions \ {s} PROVE Spares(t)
    <3>1. ses[t].wst # "none" => ses[t].o \in Orders /\ ses[t].o # o
      BY <1>1 DEF OrderFree, LocksOrder, TxInv, TxTypeOK, Session, Progress
    <3> QED
      BY <1>1, <2>3, <3>1 DEF Spares
  <2>5. PaysOnce'
    <3>1. ses'[Settler] = ses[Settler] /\ ses[Settler] \in Session
      BY <1>1 DEF TxInv, TxTypeOK, Sessions
    <3>2. \A l \in Legs : order'[l[1]].kind = order[l[1]].kind
      BY <2>3 DEF Legs
    <3>3. ses[Settler].tx = "settle" => ses[Settler].o \in Orders
      BY <3>1, SessionAssumption DEF TxInv, Progress, Session, Sessions
    <3>4. ses[Settler].tx = "settle" => order'[ses[Settler].o].kind = order[ses[Settler].o].kind
      BY <2>3, <3>3
    <3>5. list \subseteq Legs
      BY DEF TxInv, TxTypeOK
    <3> QED
      BY <1>1, <3>1, <3>2, <3>4, <3>5 DEF TxInv, PaysOnce, OrderOf
  <2>6. Idle("idle") \in Session /\ LocksFree(s, Idle("idle")) /\ ses'[s] = Idle("idle")
    BY <1>1, IdleType DEF Idle, LocksFree, TxInv, TxTypeOK
  <2>7. Sound(s, ses[s])'
    BY <2>6, NextIdle
  <2>8. up \in {"down", "plain", "sim"} /\ list' \subseteq Legs
    BY <1>1 DEF TxInv, TxTypeOK
  <2> QED
    BY <1>1, <2>2, <2>4, <2>5, <2>6, <2>7, <2>8, TableStep
<1> QED
  BY <1>2, <1>3

-----------------------------------------------------------------------------
(* A commit is one operation of SimLedger. *)

\* What a transaction that reaches its commit has written.
LEMMA Staging ==
  ASSUME TxInv, NEW s \in Sessions, ses[s].pc = "commit"
  PROVE LET q == ses[s]
        IN /\ q.tx \in {"accept", "close", "settle"} /\ q \in Session /\ q.o \in Orders /\ up # "down"
           /\ Sound(s, q) /\ Targets(q) \subseteq Sides /\ q.dirty = Targets(q) /\ q.held
           /\ q.wacct = Credit(acct, Total([side \in Targets(q) |-> CashAmount(q, <<q.o, side>>)]))
           /\ \A side \in Targets(q) : q.wleg[side] = NewLeg(q, <<q.o, side>>)
<1> DEFINE q == ses[s]
<1>1. /\ q.tx \in {"accept", "close", "settle"} /\ q \in Session /\ q.o \in Orders /\ up # "down"
      /\ Sound(s, q) /\ Targets(q) \subseteq Sides /\ Targets(q) # {}
  BY Writing
<1>2. q.todo = {} /\ q.dirty = Credited(q) /\ (q.held <=> Credited(q) # {})
  BY <1>1 DEF Sound, Progress
<1>3. Credited(q) = Targets(q)
  BY <1>2 DEF Credited
<1>4. q.wacct = Credit(acct, Staged(q))
  BY <1>1, <1>2, <1>3 DEF Sound, Undisturbed
<1>5. \A side \in Targets(q) : q.wleg[side] = NewLeg(q, <<q.o, side>>)
  BY <1>1, <1>2, <1>3 DEF Sound, Undisturbed
<1>6. Staged(q) = Total([side \in Targets(q) |-> CashAmount(q, <<q.o, side>>)])
  BY <1>3 DEF Staged
<1> QED
  BY <1>1, <1>2, <1>3, <1>4, <1>5, <1>6

LEMMA CommitWrites ==
  ASSUME TxInv, NEW s \in Sessions, Commit(s)
  PROVE LET q == ses[s]
        IN /\ leg' = [l \in Legs |-> IF l[1] = q.o /\ l[2] \in Targets(q) THEN NewLeg(q, l) ELSE leg[l]]
           /\ acct' = Credit(acct, Total([side \in Targets(q) |-> CashAmount(q, <<q.o, side>>)]))
<1> DEFINE q == ses[s]
<1>1. /\ q.dirty = Targets(q) /\ \A side \in Targets(q) : q.wleg[side] = NewLeg(q, <<q.o, side>>)
      /\ q.wacct = Credit(acct, Total([side \in Targets(q) |-> CashAmount(q, <<q.o, side>>)]))
  BY Staging DEF Commit
<1>2. leg' = [l \in Legs |-> IF LocksLeg(s, l) THEN q.wleg[l[2]] ELSE leg[l]] /\ acct' = q.wacct
  BY DEF Commit
<1>3. ASSUME NEW l \in Legs PROVE LocksLeg(s, l) <=> l[1] = q.o /\ l[2] \in Targets(q)
  BY <1>1 DEF LocksLeg
<1>4. ASSUME NEW l \in Legs, l[1] = q.o, l[2] \in Targets(q) PROVE q.wleg[l[2]] = NewLeg(q, l)
  <2>1. l = <<q.o, l[2]>>
    BY <1>4 DEF Legs
  <2> QED
    BY <1>1, <1>4, <2>1
<1> QED
  BY <1>1, <1>2, <1>3, <1>4

LEMMA CommitAccept ==
  ASSUME TxInv, NEW s \in Sessions, Commit(s), ses[s].tx = "accept"
  PROVE Accept(ses[s].o) /\ ses[s].o \in Orders
<1> DEFINE q == ses[s]
           sides == BuildLegs(order[q.o].kind)
<1>1. q.o \in Orders /\ Sound(s, q)
  BY Staging DEF Commit
<1>2. q.wst = "filled" /\ order[q.o].st = "suggested"
  BY <1>1 DEF Commit, Sound, Progress, Undisturbed
<1>3. Targets(q) = sides
  BY DEF Targets
<1>4. \A l : NewLeg(q, l) = OpenedLeg(NoLeg, l[2], order[l[1]].ref) /\ CashAmount(q, l) = OpenCash(l[2], order[l[1]].ref)
  BY DEF NewLeg, CashAmount
<1>5. [side \in Targets(q) |-> CashAmount(q, <<q.o, side>>)] = [side \in sides |-> OpenCash(side, order[q.o].ref)]
  BY <1>3, <1>4
<1>6. [l \in Legs |-> IF l[1] = q.o /\ l[2] \in Targets(q) THEN NewLeg(q, l) ELSE leg[l]]
        = [l \in Legs |-> IF l[1] = q.o /\ l[2] \in sides THEN OpenedLeg(NoLeg, l[2], order[q.o].ref) ELSE leg[l]]
  BY <1>3, <1>4
<1>7. /\ leg' = [l \in Legs |-> IF l[1] = q.o /\ l[2] \in sides THEN OpenedLeg(NoLeg, l[2], order[q.o].ref) ELSE leg[l]]
      /\ acct' = Credit(acct, Total([side \in sides |-> OpenCash(side, order[q.o].ref)]))
  BY <1>5, <1>6, CommitWrites
<1>8. order' = [order EXCEPT ![q.o].st = "filled"] /\ price' = price
  BY <1>2 DEF Commit
<1> QED
  BY <1>1, <1>2, <1>7, <1>8 DEF Accept

LEMMA CommitClose ==
  ASSUME TxInv, NEW s \in Sessions, Commit(s), ses[s].tx = "close"
  PROVE Close(ses[s].o, ses[s].px) /\ ses[s].o \in Orders /\ ses[s].px \in [Sides -> Readings]
<1> DEFINE q == ses[s]
           sides == BuildLegs(order[q.o].kind)
           ref == order[q.o].ref
<1>1. q.o \in Orders /\ q \in Session /\ Sound(s, q)
  BY Staging DEF Commit
<1>2. q.wst = "closed" /\ order[q.o].st = "filled" /\ q.legs = sides
  BY <1>1 DEF Commit, Sound, Progress, Undisturbed, ClosesWhole
<1>3. order[q.o].kind = "funding_hedge" => \A side \in Sides : q.px[side] # NoPrice
  <2>1. order[q.o].kind = "funding_hedge" => \A side \in q.legs : q.px[side] # NoPrice
    BY <1>1 DEF Commit, Sound, ClosesWhole
  <2> QED
    BY <1>2, <2>1 DEF BuildLegs, Sides
<1>4. Targets(q) = sides
  BY <1>2 DEF Targets
<1>5. \A l : /\ NewLeg(q, l) = ClosedLeg(leg[l], l[2], order[l[1]].ref, q.px[l[2]])
             /\ CashAmount(q, l) = CloseCash(l[2], q.px[l[2]])
  BY DEF NewLeg, CashAmount
<1>6. [side \in Targets(q) |-> CashAmount(q, <<q.o, side>>)] = [side \in sides |-> CloseCash(side, q.px[side])]
  BY <1>4, <1>5
<1>7. [l \in Legs |-> IF l[1] = q.o /\ l[2] \in Targets(q) THEN NewLeg(q, l) ELSE leg[l]]
        = [l \in Legs |-> IF l[1] = q.o /\ l[2] \in sides THEN ClosedLeg(leg[l], l[2], ref, q.px[l[2]]) ELSE leg[l]]
  BY <1>4, <1>5
<1>8. /\ leg' = [l \in Legs |-> IF l[1] = q.o /\ l[2] \in sides THEN ClosedLeg(leg[l], l[2], ref, q.px[l[2]]) ELSE leg[l]]
      /\ acct' = Credit(acct, Total([side \in sides |-> CloseCash(side, q.px[side])]))
  BY <1>6, <1>7, CommitWrites
<1>9. order' = [order EXCEPT ![q.o].st = "closed"] /\ price' = price /\ q.px \in [Sides -> Readings]
  BY <1>1, <1>2 DEF Commit, Session
<1> QED
  BY <1>1, <1>2, <1>3, <1>8, <1>9 DEF Close

LEMMA CommitSettle ==
  ASSUME TxInv, NEW s \in Sessions, Commit(s), ses[s].tx = "settle"
  PROVE LET l == <<ses[s].o, FundingSide(order[ses[s].o].kind)>>
        IN s = Settler /\ l \in Legs /\ l \notin list /\ ses[s].add \in FundingAdds /\ SettleFunding(l, ses[s].add)
<1> DEFINE q == ses[s]
           side == FundingSide(order[q.o].kind)
           l == <<q.o, side>>
<1>1. q.o \in Orders /\ q \in Session /\ Sound(s, q) /\ s = Settler /\ side \in Sides
  BY Staging DEF Commit, Sound, Progress, FundingSide, Sides
<1>2. q.wst = "none" /\ q.add \in FundingAdds /\ q.add \in Int
  BY <1>1 DEF Sound, Progress, Commit, TxInv, PaysOnce, Session
<1>3. l \in Legs /\ leg[l].st # "none" /\ leg[l].funds < MaxFundings /\ l \notin list
  BY <1>1 DEF TxInv, PaysOnce, Legs, OrderOf
<1>4. Targets(q) = {side}
  BY DEF Targets
<1>5. \A m : NewLeg(q, m) = FundedLeg(leg[m], q.add) /\ CashAmount(q, m) = q.add
  BY DEF NewLeg, CashAmount
<1>6. [x \in Targets(q) |-> CashAmount(q, <<q.o, x>>)] = [x \in {side} |-> q.add]
  BY <1>4, <1>5
<1>7. Total([x \in {side} |-> q.add]) = q.add
  BY <1>1, <1>2 DEF Total, Sides
<1>8. \A m \in Legs : m[1] = q.o /\ m[2] \in Targets(q) <=> m = l
  BY <1>4 DEF Legs
<1>9. leg \in [Legs -> LegRow]
  BY DEF TxInv, TxTypeOK, TypeOK
<1>10. leg' = [leg EXCEPT ![l] = FundedLeg(leg[l], q.add)]
  <2>1. leg' = [m \in Legs |-> IF m[1] = q.o /\ m[2] \in Targets(q) THEN NewLeg(q, m) ELSE leg[m]]
    BY CommitWrites
  <2>2. [m \in Legs |-> IF m[1] = q.o /\ m[2] \in Targets(q) THEN NewLeg(q, m) ELSE leg[m]]
          = [m \in Legs |-> IF m = l THEN FundedLeg(leg[l], q.add) ELSE leg[m]]
    BY <1>5, <1>8
  <2> QED
    BY <1>9, <2>1, <2>2
<1>11. acct' = Credit(acct, q.add)
  BY <1>6, <1>7, CommitWrites
<1>12. order' = order /\ price' = price
  BY <1>2 DEF Commit
<1> QED
  BY <1>1, <1>2, <1>3, <1>10, <1>11, <1>12 DEF SettleFunding

\* The legs a settlement has listed stay what they were while others write.
LEMMA PaysOnceWhileOthersWrite ==
  ASSUME TxInv, LedgerInv, [Next]_vars, ses'[Settler] = ses[Settler], list' = list,
         \A l \in Legs : leg[l].st # "none" => leg'[l].funds = leg[l].funds
  PROVE PaysOnce'
<1> DEFINE r == ses[Settler]
           now == {l \in Legs : r.tx = "settle" /\ l = <<r.o, FundingSide(order[r.o].kind)>>}
<1>1. list \subseteq Legs /\ r \in Session
  BY DEF TxInv, TxTypeOK, Sessions
<1>2. \A l \in Legs : leg[l].st # "none" =>
        leg'[l].st # "none" /\ leg'[l].funds = leg[l].funds /\ order'[l[1]].kind = order[l[1]].kind
  <2>1. \A l \in Legs : leg[l].st # "none" => l[1] \in Orders /\ order[l[1]].st # "none"
    BY DEF TxInv, LegsFollowOrder, LegStatus, Legs
  <2> QED
    BY <2>1, TermsStay
<1>3. \A l \in list \cup now : l \in Legs /\ leg[l].st # "none"
  BY <1>1 DEF TxInv, PaysOnce, OrderOf
<1>4. r.tx = "settle" => order'[r.o].kind = order[r.o].kind
  <2> SUFFICES ASSUME r.tx = "settle" PROVE order'[r.o].kind = order[r.o].kind
    OBVIOUS
  <2> DEFINE l == <<r.o, FundingSide(order[r.o].kind)>>
  <2>1. r.o \in Orders
    BY <1>1, SessionAssumption DEF TxInv, Progress, Session, Sessions
  <2>2. l \in now /\ l[1] = r.o
    BY <2>1 DEF Legs, FundingSide, Sides
  <2> QED
    BY <1>2, <1>3, <2>2
<1>5. {l \in Legs : r.tx = "settle" /\ l = <<r.o, FundingSide(order'[r.o].kind)>>} = now
  BY <1>4
<1> QED
  BY <1>1, <1>2, <1>3, <1>5 DEF TxInv, PaysOnce, OrderOf

LEMMA CommitLedger ==
  ASSUME TxInv, NEW s \in Sessions, Commit(s)
  PROVE Next
<1>1. ses[s].tx \in {"accept", "close", "settle"}
  BY Staging DEF Commit
<1>2. CASE ses[s].tx = "accept"
  BY <1>2, CommitAccept DEF Next
<1>3. CASE ses[s].tx = "close"
  BY <1>3, CommitClose DEF Next
<1>4. CASE ses[s].tx = "settle"
  BY <1>4, CommitSettle DEF Next
<1> QED
  BY <1>1, <1>2, <1>3, <1>4

LEMMA CommitStep ==
  ASSUME TxInv, LedgerInv, NEW s \in Sessions, Commit(s)
  PROVE TxInv'
<1> DEFINE q == ses[s]
           pc == IF s = Settler THEN "next" ELSE "idle"
<1>1. /\ q.pc = "commit" /\ q \in Session /\ q.o \in Orders /\ up # "down" /\ Sound(s, q) /\ q.held
      /\ q.tx \in {"accept", "close", "settle"} /\ q.dirty = Targets(q)
  BY Staging DEF Commit
<1>2. /\ ses' = [ses EXCEPT ![s] = Idle(pc)] /\ up' = up /\ list' = list
      /\ order' = IF q.wst = "none" THEN order ELSE [order EXCEPT ![q.o].st = q.wst]
      /\ leg' = [l \in Legs |-> IF LocksLeg(s, l) THEN q.wleg[l[2]] ELSE leg[l]]
  BY DEF Commit, Goto
<1>3. ses'[s] = Idle(pc) /\ \A t \in Sessions \ {s} : ses'[t] = ses[t]
  BY <1>2 DEF TxInv, TxTypeOK
<1>4. Idle(pc) \in Session /\ LocksFree(s, Idle(pc)) /\ Sound(s, ses[s])'
  BY <1>3, IdleType, NextIdle DEF Idle, LocksFree
<1>5. ASSUME NEW t \in Sessions \ {s} PROVE Spares(t)
  <2>1. /\ \A o \in Orders : ~(LocksOrder(s, o) /\ LocksOrder(t, o))
        /\ \A l \in Legs : ~(LocksLeg(s, l) /\ LocksLeg(t, l))
        /\ ~ses[t].held
    BY <1>1 DEF TxInv, OneWriter
  <2>2. ses[t] \in Session /\ (ses[t].wst # "none" \/ ses[t].dirty # {} => ses[t].o \in Orders)
    BY DEF TxInv, TxTypeOK, Session, Progress
  <2>3. ses[t].wst # "none" => order'[ses[t].o].st = order[ses[t].o].st
    <3>1. order \in [Orders -> OrderRow]
      BY DEF TxInv, TxTypeOK, TypeOK
    <3> QED
      BY <1>1, <1>2, <2>1, <2>2, <3>1 DEF LocksOrder, OrderRow
  <2>4. ASSUME NEW side \in ses[t].dirty PROVE leg'[<<ses[t].o, side>>] = leg[<<ses[t].o, side>>]
    <3>1. <<ses[t].o, side>> \in Legs /\ LocksLeg(t, <<ses[t].o, side>>)
      BY <2>2 DEF Legs, Session, LocksLeg
    <3> QED
      BY <1>2, <2>1, <3>1
  <2> QED
    BY <2>1, <2>3, <2>4 DEF Spares
<1>6. [Next]_vars
  BY CommitLedger
<1>7. PaysOnce'
  <2>1. CASE q.tx = "settle"
    <3> DEFINE l == <<q.o, FundingSide(order[q.o].kind)>>
    <3>1. s = Settler /\ l \in Legs /\ l \notin list /\ SettleFunding(l, q.add)
      BY <2>1, CommitSettle
    <3>2. order' = order /\ (\A m \in list : m \in Legs /\ leg'[m] = leg[m])
      BY <3>1 DEF SettleFunding, TxInv, TxTypeOK, TypeOK
    <3>3. ses'[Settler].tx = "none" /\ ses'[Settler].pc = "next"
      BY <1>3, <3>1 DEF Idle
    <3> QED
      BY <1>2, <3>2, <3>3 DEF TxInv, PaysOnce
  <2>2. CASE q.tx # "settle"
    <3>1. s # Settler /\ Settler \in Sessions
      BY <1>1, <2>2 DEF Sound, Progress, Sessions
    <3>2. ASSUME NEW l \in Legs, leg[l].st # "none" PROVE leg'[l].funds = leg[l].funds
      <4>1. leg'[l] = IF l[1] = q.o /\ l[2] \in Targets(q) THEN NewLeg(q, l) ELSE leg[l]
        BY CommitWrites
      <4>2. CASE q.tx = "accept"
        <5>1. ~(l[1] = q.o /\ l[2] \in Targets(q))
          BY <3>2, <4>2, CommitAccept DEF Accept, TxInv, LegsFollowOrder, LegStatus
        <5> QED
          BY <4>1, <5>1
      <4>3. CASE q.tx = "close"
        <5>1. NewLeg(q, l) = ClosedLeg(leg[l], l[2], order[l[1]].ref, q.px[l[2]])
          BY <4>3 DEF NewLeg
        <5>2. leg[l] \in LegRow
          BY DEF TxInv, TxTypeOK, TypeOK
        <5> QED
          BY <4>1, <5>1, <5>2, ClosedLegFields
      <4> QED
        BY <1>1, <2>2, <4>2, <4>3
    <3> QED
      BY <1>2, <1>3, <1>6, <3>1, <3>2, PaysOnceWhileOthersWrite
  <2> QED
    BY <2>1, <2>2
<1>8. list' \subseteq Legs /\ up' \in {"down", "plain", "sim"}
  BY <1>2 DEF TxInv, TxTypeOK
<1> QED
  BY <1>1, <1>2, <1>4, <1>5, <1>6, <1>7, <1>8, TableStep

-----------------------------------------------------------------------------
(* The process and its environment. *)

\* A step of the environment, no session takes part in it.
LEMMA AsideStep ==
  ASSUME TxInv, LedgerInv, [Next]_vars, ses' = ses, list' = list, up' \in {"down", "plain", "sim"},
         up' = "down" => up = "down", \A t \in Sessions : Spares(t),
         \A l \in Legs : leg[l].st # "none" => leg'[l].funds = leg[l].funds
  PROVE TxInv'
<1>1. Settler \in Sessions /\ ses[Settler] \in Session /\ ses \in [Sessions -> Session] /\ list \subseteq Legs
  BY DEF Sessions, TxInv, TxTypeOK
<1>2. ses' = [ses EXCEPT ![Settler] = ses[Settler]]
  BY <1>1
<1>3. Sound(Settler, ses[Settler])'
  BY <1>1, SparedIsSound
<1>4. LocksFree(Settler, ses[Settler])
  BY <1>1, OwnLocksFree
<1>5. PaysOnce'
  BY PaysOnceWhileOthersWrite
<1>6. up' = "down" => up = "down" /\ ses[Settler].pc = "idle"
  BY <1>1 DEF TxInv
<1> QED
  BY <1>1, <1>2, <1>3, <1>4, <1>5, <1>6, TableStep

LEMMA CrashStep ==
  ASSUME TxInv, LedgerInv, Crash
  PROVE TxInv'
<1>1. /\ UNCHANGED vars /\ order' = order /\ leg' = leg /\ acct' = acct /\ price' = price
      /\ up' = "down" /\ list' = {} /\ \A s \in Sessions : ses'[s] = Idle("idle")
  BY DEF Crash, vars
<1>2. TxTypeOK'
  BY <1>1, IdleType DEF Crash, TxInv, TxTypeOK, TypeOK
<1>3. LegsFollowOrder' /\ HedgesPriced'
  BY <1>1 DEF TxInv, LegsFollowOrder, HedgesPriced
<1>4. (up = "down" => \A s \in Sessions : ses[s].pc = "idle")'
  BY <1>1 DEF Idle
<1>5. OneWriter'
  BY <1>1 DEF OneWriter, LocksOrder, LocksLeg, Idle
<1>6. PaysOnce'
  BY <1>1 DEF PaysOnce, Idle, Sessions
<1>7. \A s \in Sessions : Sound(s, ses[s])'
  BY <1>1, NextIdle
<1> QED
  BY <1>2, <1>3, <1>4, <1>5, <1>6, <1>7 DEF TxInv, Sound

LEMMA BootStep ==
  ASSUME TxInv, LedgerInv, BootPlain \/ \E c \in Capitals : BootSim(c)
  PROVE TxInv' /\ [Next]_vars
<1>1. \A t \in Sessions : ~ses[t].held
  BY DEF BootPlain, BootSim, TxInv, Progress
<1>2. /\ order' = order /\ leg' = leg /\ ses' = ses /\ list' = list /\ up' \in {"plain", "sim"}
  BY DEF BootPlain, BootSim, vars
<1>3. [Next]_vars
  BY DEF BootPlain, BootSim, Next, InitAccount
<1> QED
  BY <1>1, <1>2, <1>3, AsideStep DEF Spares

LEMMA GenerateStep ==
  ASSUME TxInv, LedgerInv, NEW o \in Orders, NEW kind \in Kinds, NEW st \in {"suggested", "rejected"},
         Generate(o, kind, st)
  PROVE TxInv' /\ [Next]_vars
<1>1. [Next]_vars
  BY DEF Generate, Next
<1>2. /\ order[o].st = "none" /\ leg' = leg /\ acct' = acct /\ up' = up /\ ses' = ses /\ list' = list
      /\ \A p \in Orders \ {o} : order'[p] = order[p]
  BY DEF Generate, Insert, TxInv, TxTypeOK, TypeOK
<1>3. ASSUME NEW t \in Sessions PROVE Spares(t)
  <2>1. ses[t].wst # "none" => ses[t].o \in Orders /\ ses[t].o # o
    BY <1>2 DEF TxInv, TxTypeOK, Session, Progress, Undisturbed, Statuses
  <2> QED
    BY <1>2, <2>1 DEF Spares
<1>4. up' \in {"down", "plain", "sim"}
  BY <1>2 DEF TxInv, TxTypeOK
<1> QED
  BY <1>1, <1>2, <1>3, <1>4, AsideStep

LEMMA TickerStep ==
  ASSUME TxInv, LedgerInv, NEW kind \in Quoted, NEW p \in Prices, TickerFact(kind, p)
  PROVE TxInv' /\ [Next]_vars
<1>1. [Next]_vars
  BY DEF TickerFact, Next
<1>2. order' = order /\ leg' = leg /\ acct' = acct /\ up' = up /\ ses' = ses /\ list' = list
  BY DEF TickerFact, Tick
<1>3. \A t \in Sessions : Spares(t)
  BY <1>2 DEF Spares
<1>4. up' \in {"down", "plain", "sim"}
  BY <1>2 DEF TxInv, TxTypeOK
<1> QED
  BY <1>1, <1>2, <1>3, <1>4, AsideStep

-----------------------------------------------------------------------------
(* The theorems. *)

LEMMA TxInvInit == TxInit => TxInv /\ LedgerInv
<1> SUFFICES ASSUME TxInit PROVE TxInv /\ LedgerInv
  OBVIOUS
<1>1. LedgerInv /\ TypeOK /\ LegsFollowOrder
  BY LedgerInit DEF TxInit, LedgerInv
<1>2. \A s \in Sessions : ses[s] = Idle("idle")
  BY DEF TxInit
<1>3. TxTypeOK
  BY <1>1, <1>2, IdleType DEF TxInit, TxTypeOK
<1>4. HedgesPriced
  BY DEF TxInit, Init, NoOrder, HedgesPriced
<1>5. OneWriter
  BY <1>2 DEF OneWriter, LocksOrder, LocksLeg, Idle
<1>6. PaysOnce
  BY <1>2 DEF TxInit, PaysOnce, Idle, Sessions
<1>7. ASSUME NEW s \in Sessions PROVE Sound(s, ses[s]) /\ ses[s].pc = "idle"
  <2>1. Sound(s, Idle("idle")) /\ Idle("idle").pc = "idle"
    BY IdleSound DEF Idle
  <2> QED
    BY <1>2, <2>1
<1> QED
  BY <1>1, <1>3, <1>4, <1>5, <1>6, <1>7 DEF TxInv, Sound

\* Every step keeps the invariant, and is a step of SimLedger or leaves the tables alone.
LEMMA TxStep == TxInv /\ LedgerInv /\ [TxNext]_txvars => TxInv' /\ [Next]_vars
<1> SUFFICES ASSUME TxInv, LedgerInv, [TxNext]_txvars PROVE TxInv' /\ [Next]_vars
  OBVIOUS
<1>1. ASSUME NEW c \in Clients, NEW o \in Orders, ConfirmRead(c, o) \/ CloseRead(c, o)
      PROVE TxInv' /\ [Next]_vars
  BY <1>1, ConfirmReadStep, CloseReadStep DEF ConfirmRead, CloseRead
<1>2. ASSUME NEW kind \in Kinds, SettleList(kind)
      PROVE TxInv' /\ [Next]_vars
  BY <1>2, SettleListStep DEF SettleList
<1>3. ASSUME NEW s \in Sessions, Step(s)
      PROVE TxInv' /\ [Next]_vars
  <2>1. CASE ConfirmCheck(s)
    BY <2>1, ConfirmCheckStep DEF ConfirmCheck
  <2>2. CASE RejectOrder(s)
    BY <2>2, RejectOrderStep
  <2>3. CASE MirrorOrder(s)
    BY <2>3, MirrorOrderStep DEF MirrorOrder
  <2>4. CASE AcceptLock(s)
    BY <2>4, AcceptLockStep DEF AcceptLock
  <2>5. CASE AcceptFill(s)
    BY <2>5, AcceptFillStep DEF AcceptFill
  <2>6. CASE CloseList(s)
    BY <2>6, CloseListStep DEF CloseList
  <2>7. CASE ClosePrice(s)
    BY <2>7, ClosePriceStep DEF ClosePrice
  <2>8. CASE CloseLock(s)
    BY <2>8, CloseLockStep DEF CloseLock
  <2>9. CASE SettleNext
    BY <2>9, SettleNextStep DEF SettleNext
  <2>10. CASE WriteLeg(s)
    BY <2>10, WriteLegStep DEF WriteLeg
  <2>11. CASE WriteAcct(s)
    BY <2>11, WriteAcctStep DEF WriteAcct
  <2>12. CASE Commit(s)
    BY <2>12, CommitStep, CommitLedger
  <2> QED
    BY <1>3, <2>1, <2>2, <2>3, <2>4, <2>5, <2>6, <2>7, <2>8, <2>9, <2>10, <2>11, <2>12 DEF Step
<1>4. ASSUME NEW s \in Sessions, Fail(s) \/ DeadlockVictim(s)
      PROVE TxInv' /\ [Next]_vars
  BY <1>4, ReturnStep DEF DeadlockVictim, Fail
<1>5. ASSUME NEW o \in Orders, NEW kind \in Kinds, NEW st \in {"suggested", "rejected"}, Generate(o, kind, st)
      PROVE TxInv' /\ [Next]_vars
  BY <1>5, GenerateStep
<1>6. ASSUME NEW kind \in Quoted, NEW p \in Prices, TickerFact(kind, p)
      PROVE TxInv' /\ [Next]_vars
  BY <1>6, TickerStep
<1>7. CASE Crash
  BY <1>7, CrashStep DEF Crash
<1>8. CASE BootPlain \/ \E c \in Capitals : BootSim(c)
  BY <1>8, BootStep
<1>9. CASE UNCHANGED txvars
  <2>1. UNCHANGED <<vars, up, list, ses>> /\ ses \in [Sessions -> Session] /\ Settler \in Sessions /\ list \subseteq Legs
    BY <1>9 DEF txvars, vars, TxInv, TxTypeOK, Sessions
  <2>2. PaysOnce'
    BY <2>1, PaysOnceStep DEF TxInv, vars
  <2>3. ses' = [ses EXCEPT ![Settler] = ses[Settler]] /\ LocksFree(Settler, ses[Settler])
    BY <2>1, OwnLocksFree
  <2>4. Sound(Settler, ses[Settler]) /\ (up # "down" \/ ses[Settler].pc = "idle")
    BY <2>1 DEF TxInv, Sound
  <2>5. TxInv'
    BY <2>1, <2>2, <2>3, <2>4, MoveStep
  <2> QED
    BY <2>1, <2>5
<1> QED
  BY <1>1, <1>2, <1>3, <1>4, <1>5, <1>6, <1>7, <1>8, <1>9 DEF TxNext

(* Whatever the requests, the settlement, failures and restarts do to each    *)
(* other: no row has two writers, what a transaction staged is what its place *)
(* in the handler says, and the committed rows it rests on have not moved.    *)
THEOREM TxSafe == TxSpec => []TxInv
<1>1. TxInv /\ LedgerInv /\ [TxNext]_txvars => TxInv' /\ LedgerInv'
  BY TxStep, LedgerStep
<1> QED
  BY <1>1, TxInvInit, PTL DEF TxSpec

(* Sessions and tables are well typed in every reachable state. *)
THEOREM TxTypes == TxSpec => []TxTypeOK
<1>1. TxInv => TxTypeOK
  BY DEF TxInv
<1> QED
  BY <1>1, TxSafe, PTL

(* The handlers, statement by statement and interleaved with each other, with *)
(* the settlement, aborts and restarts, implement the atomic operations.      *)
THEOREM TxImplementsLedger == TxSpec => LedgerSpec
<1>1. TxInit => Init
  BY DEF TxInit
<1>2. TxInv /\ LedgerInv /\ [TxNext]_txvars => TxInv' /\ LedgerInv' /\ [Next]_vars
  BY TxStep, LedgerStep
<1> QED
  BY <1>1, <1>2, TxInvInit, PTL DEF TxSpec, Spec, LedgerSpec

(* So what the store promises holds of the tables the handlers leave behind:  *)
(* no half hedge stays naked, the trail pairs up with the legs, the two       *)
(* expansions of D-056 agree, the balance is the sum of the cash flow,        *)
(* capital is paid in once, no row is removed.                                *)
THEOREM HandlersKeepPromises ==
  TxSpec => /\ []LegsFollowOrder /\ []FlowsFollowLegs /\ []HedgeIdentity
            /\ []CashConserved /\ []CapitalOnce /\ HistoryKept
<1>1. TxSpec => Spec
  BY TxImplementsLedger DEF LedgerSpec
<1>2. Spec => []LegsFollowOrder
  BY LedgerSafe, PTL
<1> QED
  BY <1>1, <1>2, TrailFollowsLegs, HedgesBalance, BalanceConserved, CapitalPaidOnce, HistoryIsKept
=============================================================================
