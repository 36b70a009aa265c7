------------------------------- MODULE SimTx -------------------------------
(***************************************************************************)
(* The write paths of the simulated account, statement by statement: the   *)
(* ConfirmSimOrder and CloseSimOrder handlers of internal/simapi, the      *)
(* funding settlement of internal/sim, and the PostgreSQL transactions of  *)
(* internal/store/pgstore they run.  Isolation is READ COMMITTED: what a   *)
(* transaction has written is private until it commits, the rows it wrote  *)
(* stay locked until it ends, and a statement that needs a locked row      *)
(* waits and then sees the row as committed.                               *)
(*                                                                         *)
(* The committed tables are the variables of SimLedger.                    *)
(***************************************************************************)
EXTENDS SimLedger

CONSTANTS
  Clients,   \* concurrent requests of the HTTP server
  NoOne,     \* the order of a session that works on none
  Settler    \* the goroutine of RunSettleLoop

VARIABLES
  up,        \* "down", or the process runs: "plain" without, "sim" with a sim configuration
  list,      \* legs the current settlement group has still to pay
  ses        \* the state of each session

txvars == <<order, leg, acct, price, up, list, ses>>

Sessions == Clients \cup {Settler}
ASSUME SessionAssumption == Settler \notin Clients /\ NoOne \notin Orders

Session ==
  [pc : {"idle", "check", "reject", "mirror", "list", "price", "order", "fill", "leg", "acct",
         "commit", "next"},
   tx : {"none", "accept", "close", "settle"},  \* what the session runs
   o : Orders \cup {NoOne},                     \* the order it works on
   legs : SUBSET Sides,                         \* legs to close, as listed
   todo : SUBSET Sides,                         \* legs the loop has still to visit
   px : [Sides -> Readings],                    \* ticker readings of a close
   add : Int,                                   \* funding amount of a settlement
   wst : Statuses \cup {"confirmed"},           \* status written, "none" if unwritten
   dirty : SUBSET Sides,                        \* legs written, and their new rows
   wleg : [Sides -> LegRow],
   held : BOOLEAN,                              \* balance written, and its new row
   wacct : Account]

Idle(pc) ==
  [pc |-> pc, tx |-> "none", o |-> NoOne, legs |-> {}, todo |-> {},
   px |-> [side \in Sides |-> NoPrice], add |-> 0, wst |-> "none", dirty |-> {},
   wleg |-> [side \in Sides |-> NoLeg], held |-> FALSE, wacct |-> NoAccount]

(* The type invariant. *)
TxTypeOK ==
  /\ TypeOK
  /\ up \in {"down", "plain", "sim"}
  /\ list \subseteq Legs
  /\ ses \in [Sessions -> Session]

-----------------------------------------------------------------------------
(* Row locks: a row is locked by the unfinished transaction that wrote it. *)

LocksOrder(t, o) == ses[t].wst # "none" /\ ses[t].o = o
LocksLeg(t, l) == ses[t].o = l[1] /\ l[2] \in ses[t].dirty
OrderFree(s, o) == \A t \in Sessions \ {s} : ~LocksOrder(t, o)
LegFree(s, l) == \A t \in Sessions \ {s} : ~LocksLeg(t, l)
AcctFree(s) == \A t \in Sessions \ {s} : ~ses[t].held

FirstSide(sides) == IF "long" \in sides THEN "long" ELSE "short"
CurrentLeg(s) == <<ses[s].o, FirstSide(ses[s].todo)>>
OrderOf(s) == order[ses[s].o]

\* The session moves on: r is its next record.
Goto(s, r) == ses' = [ses EXCEPT ![s] = r]

\* Bug: the handler returns without rolling its transaction back.
ReturnWithoutRollback(s) ==
  Goto(s, [ses[s] EXCEPT !.pc = "idle"]) /\ list' = IF s = Settler THEN {} ELSE list

\* The handler returns, with an error unless its transaction has committed.
Return(s) == Goto(s, Idle("idle")) /\ list' = IF s = Settler THEN {} ELSE list

-----------------------------------------------------------------------------
(* ConfirmSimOrder. *)

\* GetSimOrder and the status check that only makes errors readable.
ConfirmRead(c, o) ==
  /\ up # "down" /\ ses[c].pc = "idle"
  /\ order[o].st = "suggested"
  /\ Goto(c, [Idle("check") EXCEPT !.tx = "accept", !.o = o])
  /\ UNCHANGED <<vars, up, list>>

\* The reference price confirmDrift looks up for the kind of the order.
ConfirmPrice(row) ==
  IF row.kind = "repo" \/ (row.kind = "carry_asset" /\ price[row.kind] = NoPrice)
  THEN row.ref ELSE price[row.kind]

\* ConfirmDriftCheck on the reference price: missing, or more than 2% away.
RefDrifts(row) ==
  LET cur == ConfirmPrice(row)
      gap == IF cur >= row.ref THEN cur - row.ref ELSE row.ref - cur
  IN row.ref = 0 \/ cur = NoPrice \/ 100 * gap > 2 * row.ref

\* confirmDrift; the verdict on the annualized spread is left open.
ConfirmCheck(c) ==
  /\ ses[c].pc = "check"
  /\ \E spreadDrifts \in BOOLEAN :
       Goto(c, [ses[c] EXCEPT !.pc = IF RefDrifts(OrderOf(c)) \/ spreadDrifts
                                     THEN "reject" ELSE "mirror"])
  /\ UNCHANGED <<vars, up, list>>

\* Bug: the UPDATE selects the order by its id alone.
RejectOrderUnguarded(c) ==
  /\ ses[c].pc = "reject"
  /\ OrderFree(c, ses[c].o)
  /\ order' = [order EXCEPT ![ses[c].o].st = "rejected"]
  /\ Return(c)
  /\ UNCHANGED <<leg, acct, price, up>>

\* RejectSimOrder, one guarded UPDATE that commits by itself.
RejectOrder(c) ==
  /\ ses[c].pc = "reject"
  /\ OrderFree(c, ses[c].o)
  /\ order' = IF OrderOf(c).st = "suggested"
              THEN [order EXCEPT ![ses[c].o].st = "rejected"] ELSE order
  /\ Return(c)
  /\ UNCHANGED <<leg, acct, price, up>>

\* mirrorToExec: testnet calls that touch none of the four tables and, whatever
\* becomes of them, let the confirmation go on.
MirrorOrder(c) ==
  /\ ses[c].pc = "mirror"
  /\ Goto(c, [ses[c] EXCEPT !.pc = "order"])
  /\ UNCHANGED <<vars, up, list>>

\* Bug: the first UPDATE does not ask for status suggested.
AcceptLockUnguarded(c) ==
  /\ ses[c].pc = "order" /\ ses[c].tx = "accept"
  /\ OrderFree(c, ses[c].o)
  /\ Goto(c, [ses[c] EXCEPT !.pc = "fill", !.wst = "confirmed"])
  /\ UNCHANGED <<vars, up, list>>

\* AcceptSimOrder, first UPDATE: suggested -> confirmed, or no row and rollback.
AcceptLock(c) ==
  /\ ses[c].pc = "order" /\ ses[c].tx = "accept"
  /\ OrderFree(c, ses[c].o)
  /\ IF OrderOf(c).st = "suggested"
     THEN Goto(c, [ses[c] EXCEPT !.pc = "fill", !.wst = "confirmed"]) /\ UNCHANGED list
     ELSE Return(c)
  /\ UNCHANGED <<vars, up>>

\* Bug: the second UPDATE is missing.
AcceptFillForgotten(c) ==
  /\ ses[c].pc = "fill"
  /\ Goto(c, [ses[c] EXCEPT !.pc = "leg", !.todo = BuildLegs(OrderOf(c).kind)])
  /\ UNCHANGED <<vars, up, list>>

\* AcceptSimOrder, second UPDATE, on the row the first one wrote.
AcceptFill(c) ==
  /\ ses[c].pc = "fill" /\ ses[c].wst = "confirmed"
  /\ Goto(c, [ses[c] EXCEPT !.pc = "leg", !.wst = "filled",
                            !.todo = BuildLegs(OrderOf(c).kind)])
  /\ UNCHANGED <<vars, up, list>>

-----------------------------------------------------------------------------
(* CloseSimOrder. *)

CloseRead(c, o) ==
  /\ up # "down" /\ ses[c].pc = "idle"
  /\ order[o].st = "filled"
  /\ Goto(c, [Idle("list") EXCEPT !.tx = "close", !.o = o])
  /\ UNCHANGED <<vars, up, list>>

\* ListOpenSimPositions filtered by the order; nothing to close is an error.
CloseList(c) ==
  /\ ses[c].pc = "list"
  /\ LET open == {side \in Sides : leg[<<ses[c].o, side>>].st = "open"}
     IN IF open = {} THEN Return(c)
        ELSE Goto(c, [ses[c] EXCEPT !.pc = "price", !.legs = open, !.todo = open]) /\ UNCHANGED list
  /\ UNCHANGED <<vars, up>>

\* One LatestFacts(ticker) per leg.
ClosePrice(c) ==
  /\ ses[c].pc = "price"
  /\ LET side == FirstSide(ses[c].todo)
         rest == ses[c].todo \ {side}
     IN Goto(c, [ses[c] EXCEPT !.px[side] = price[OrderOf(c).kind], !.todo = rest,
                               !.pc = IF rest = {} THEN "order" ELSE "price"])
  /\ UNCHANGED <<vars, up, list>>

\* The guarded UPDATE filled -> closed, or ErrNotFound.
CloseLock(c) ==
  /\ ses[c].pc = "order" /\ ses[c].tx = "close"
  /\ OrderFree(c, ses[c].o)
  /\ IF OrderOf(c).st = "filled"
     THEN Goto(c, [ses[c] EXCEPT !.pc = "leg", !.wst = "closed", !.todo = ses[c].legs])
          /\ UNCHANGED list
     ELSE Return(c)
  /\ UNCHANGED <<vars, up>>

-----------------------------------------------------------------------------
(* Simulator.SettleFunding of one (kind, symbol, venue) group. *)

SettleList(kind) ==
  /\ up = "sim" /\ ses[Settler].pc = "idle"
  /\ list' = {l \in Legs : /\ leg[l].st = "open" /\ order[l[1]].kind = kind
                                  /\ l[2] = FundingSide(kind)
                                  /\ leg[l].funds < MaxFundings}
  /\ Goto(Settler, Idle("next"))
  /\ UNCHANGED <<vars, up>>

SettleNext ==
  /\ ses[Settler].pc = "next"
  /\ IF list = {} THEN Return(Settler)
     ELSE \E l \in list, add \in FundingAdds :
            /\ list' = list \ {l}
            /\ Goto(Settler, [Idle("leg") EXCEPT !.tx = "settle", !.o = l[1],
                                                 !.todo = {l[2]}, !.add = add])
  /\ UNCHANGED <<vars, up>>

-----------------------------------------------------------------------------
(* The statements the three transactions share: per leg one write of the   *)
(* position and its cash flow row, then the upsert of the balance.         *)

\* The row version that a session with record r writes for leg l, and its cash flow row.
NewLeg(r, l) ==
  CASE r.tx = "accept" -> OpenedLeg(NoLeg, l[2], order[l[1]].ref)
    [] r.tx = "close" -> ClosedLeg(leg[l], l[2], order[l[1]].ref, r.px[l[2]])
    [] r.tx = "settle" -> FundedLeg(leg[l], r.add)

CashAmount(r, l) ==
  CASE r.tx = "accept" -> OpenCash(l[2], order[l[1]].ref)
    [] r.tx = "close" -> CloseCash(l[2], r.px[l[2]])
    [] r.tx = "settle" -> r.add

\* A close requires the leg to be open still, a settlement only that it exists.
WriteLeg(s) ==
  /\ ses[s].pc = "leg"
  /\ LegFree(s, CurrentLeg(s))
  /\ IF ses[s].tx = "close" /\ leg[CurrentLeg(s)].st # "open" THEN Return(s)
     ELSE /\ Goto(s, [ses[s] EXCEPT !.pc = "acct", !.dirty = @ \cup {CurrentLeg(s)[2]},
                                    !.wleg[CurrentLeg(s)[2]] = NewLeg(ses[s], CurrentLeg(s))])
          /\ UNCHANGED list
  /\ UNCHANGED <<vars, up>>

WriteAcct(s) ==
  /\ ses[s].pc = "acct"
  /\ AcctFree(s)
  /\ LET rest == ses[s].todo \ {CurrentLeg(s)[2]}
         base == IF ses[s].held THEN ses[s].wacct ELSE acct
     IN Goto(s, [ses[s] EXCEPT !.pc = IF rest = {} THEN "commit" ELSE "leg", !.todo = rest,
                               !.held = TRUE,
                               !.wacct = Credit(base, CashAmount(ses[s], CurrentLeg(s)))])
  /\ UNCHANGED <<vars, up, list>>

\* The settlement goes on with the next leg of its group, a handler answers.
Commit(s) ==
  /\ ses[s].pc = "commit"
  /\ order' = IF ses[s].wst = "none" THEN order
              ELSE [order EXCEPT ![ses[s].o].st = ses[s].wst]
  /\ leg' = [l \in Legs |-> IF LocksLeg(s, l) THEN ses[s].wleg[l[2]] ELSE leg[l]]
  /\ acct' = ses[s].wacct
  /\ Goto(s, Idle(IF s = Settler THEN "next" ELSE "idle"))
  /\ UNCHANGED <<price, up, list>>

-----------------------------------------------------------------------------
(* Failures. *)

\* A query fails, the request is cancelled, or PostgreSQL aborts the transaction:
\* rollback, the error is returned, a settlement group is given up.
Fail(s) ==
  /\ ses[s].pc # "idle"
  /\ Return(s)
  /\ UNCHANGED <<vars, up>>

\* The session that holds the row the next statement of s needs.
WaitsFor(s, t) ==
  /\ t # s
  /\ \/ ses[s].pc \in {"reject", "order"} /\ LocksOrder(t, ses[s].o)
     \/ ses[s].pc = "leg" /\ LocksLeg(t, CurrentLeg(s))
     \/ ses[s].pc = "acct" /\ ses[t].held

\* The deadlock detector of PostgreSQL picks a victim.
DeadlockVictim(s) == (\E t \in Sessions : WaitsFor(s, t) /\ WaitsFor(t, s)) /\ Fail(s)

\* The process dies: its connections close and every transaction rolls back.
Crash ==
  /\ up # "down"
  /\ up' = "down"
  /\ ses' = [s \in Sessions |-> Idle("idle")]
  /\ list' = {}
  /\ UNCHANGED vars

\* run: InitSimAccount before the server listens, or no sim configuration at all.
BootSim(c) ==
  /\ up = "down" /\ up' = "sim"
  /\ acct' = SeededAccount(acct, c)
  /\ UNCHANGED <<order, leg, price, list, ses>>

BootPlain ==
  /\ up = "down" /\ up' = "plain"
  /\ UNCHANGED <<vars, list, ses>>

\* The rule goroutines insert orders, the collectors tickers.
Generate(o, kind, st) ==
  up = "sim" /\ Insert(o, kind, st) /\ UNCHANGED <<up, list, ses>>
TickerFact(kind, p) ==
  up # "down" /\ Tick(kind, p) /\ UNCHANGED <<up, list, ses>>

-----------------------------------------------------------------------------
TxInit ==
  /\ Init
  /\ up = "down" /\ list = {}
  /\ ses = [s \in Sessions |-> Idle("idle")]

\* What a session does by itself once a request or a tick has started it.
Step(s) ==
  \/ ConfirmCheck(s) \/ RejectOrder(s) \/ MirrorOrder(s) \/ AcceptLock(s) \/ AcceptFill(s)
  \/ CloseList(s) \/ ClosePrice(s) \/ CloseLock(s)
  \/ s = Settler /\ SettleNext
  \/ WriteLeg(s) \/ WriteAcct(s) \/ Commit(s)

TxNext ==
  \/ \E c \in Clients, o \in Orders : ConfirmRead(c, o) \/ CloseRead(c, o)
  \/ \E kind \in Kinds : SettleList(kind)
  \/ \E s \in Sessions : Step(s) \/ Fail(s) \/ DeadlockVictim(s)
  \/ \E o \in Orders, kind \in Kinds, st \in {"suggested", "rejected"} : Generate(o, kind, st)
  \/ \E kind \in Quoted, p \in Prices : TickerFact(kind, p)
  \/ Crash \/ BootPlain \/ \E c \in Capitals : BootSim(c)

TxSpec == TxInit /\ [][TxNext]_txvars
(* Scheduling.  A session waits only for row locks, which PostgreSQL grants *)
(* in arrival order, so a session that can go on time and again goes on;    *)
(* the deadlock detector always runs.  Requests, ticks, failures and the    *)
(* other environment steps may never happen.                                *)
LiveSpec == TxSpec /\ \A s \in Sessions : SF_txvars(Step(s)) /\ WF_txvars(DeadlockVictim(s))

-----------------------------------------------------------------------------
(* The two-phase discipline that makes the transactions atomic; r is the     *)
(* record of a session.                                                      *)

\* The legs its transaction is to write, and those it has credited so far.
Targets(r) ==
  CASE r.tx = "accept" -> BuildLegs(order[r.o].kind)
    [] r.tx = "close" -> r.legs
    [] r.tx = "settle" -> {FundingSide(order[r.o].kind)}
Credited(r) == IF r.pc \in {"leg", "acct", "commit"} THEN Targets(r) \ r.todo ELSE {}
Staged(r) == Total([side \in Credited(r) |-> CashAmount(r, <<r.o, side>>)])

(* No row has two writers. *)
OneWriter ==
  \A s, t \in Sessions : s # t =>
    /\ \A o \in Orders : ~(LocksOrder(s, o) /\ LocksOrder(t, o))
    /\ \A l \in Legs : ~(LocksLeg(s, l) /\ LocksLeg(t, l))
    /\ ~(ses[s].held /\ ses[t].held)

\* What session s has written is what its place in the handler says.
Progress(s, r) ==
  /\ r.pc \in {"idle", "next"} <=> r.tx = "none"
  /\ r.tx = "none" <=> r.o = NoOne
  /\ r.tx \in (IF s = Settler THEN {"none", "settle"} ELSE {"none", "accept", "close"})
  /\ r.pc = "next" => s = Settler
  /\ r.pc \in {"check", "reject", "mirror", "fill"} => r.tx = "accept"
  /\ r.pc \in {"list", "price"} => r.tx = "close"
  /\ r.pc = "order" => r.tx # "settle"
  /\ r.pc \notin {"leg", "acct", "commit"} =>
       /\ r.wst = IF r.pc = "fill" THEN "confirmed" ELSE "none"
       /\ r.dirty = {} /\ ~r.held
  /\ r.pc \in {"leg", "acct", "commit"} =>
       /\ <<r.tx, r.wst>> \in {<<"accept", "filled">>, <<"close", "closed">>, <<"settle", "none">>}
       /\ r.todo \subseteq Targets(r)
       /\ r.todo = {} <=> r.pc = "commit"
       /\ r.dirty = Credited(r) \cup (IF r.pc = "acct" THEN {FirstSide(r.todo)} ELSE {})
       /\ r.held <=> Credited(r) # {}

\* The committed rows a transaction is based on have not moved under it: the status its
\* first UPDATE found, the rows and the balance it computed from.
Undisturbed(r) ==
  /\ r.wst \in {"confirmed", "filled"} => order[r.o].st = "suggested"
  /\ r.wst = "closed" => order[r.o].st = "filled"
  /\ \A side \in r.dirty : r.wleg[side] = NewLeg(r, <<r.o, side>>)
  /\ r.held => r.wacct = Credit(acct, Staged(r))

\* A close lists every leg of its order or none, and each of its readings for a hedge
\* is a price, since the hedge was generated with one.
ClosesWhole(r) ==
  LET read == r.legs \ (IF r.pc = "price" THEN r.todo ELSE {})
  IN r.tx = "close" =>
       /\ order[r.o].st \in {"filled", "closed"}
       /\ r.pc # "list" => r.legs = BuildLegs(order[r.o].kind)
       /\ r.pc = "price" => r.todo # {} /\ r.todo \subseteq r.legs
       /\ r.pc # "list" /\ order[r.o].kind = "funding_hedge" => \A side \in read : r.px[side] # NoPrice

HedgesPriced ==
  \A o \in Orders : order[o].kind = "funding_hedge" /\ order[o].st \in {"suggested", "filled", "closed"}
    => price["funding_hedge"] # NoPrice

\* The settlement pays each listed leg once, and only legs that earn.
PaysOnce ==
  LET r == ses[Settler]
      now == {l \in Legs : r.tx = "settle" /\ l = <<r.o, FundingSide(OrderOf(Settler).kind)>>}
  IN /\ \A l \in list \cup now : /\ leg[l].st # "none" /\ leg[l].funds < MaxFundings
                                 /\ l[2] = FundingSide(order[l[1]].kind)
     /\ list \cap now = {}
     /\ r.tx = "settle" => r.add \in FundingAdds
     /\ r.pc = "idle" => list = {}

(* The inductive invariant: with it, a commit is one step of SimLedger.      *)
TxInv ==
  /\ TxTypeOK /\ LegsFollowOrder /\ HedgesPriced
  /\ up = "down" => \A s \in Sessions : ses[s].pc = "idle"
  /\ OneWriter /\ PaysOnce
  /\ \A s \in Sessions : Progress(s, ses[s]) /\ Undisturbed(ses[s]) /\ ClosesWhole(ses[s])

(* Every interleaving of the handlers, the settlement, failures and restarts *)
(* leaves the tables as the atomic operations of SimLedger would.            *)
LedgerSpec == Spec

(* Every request is answered and every settlement group comes to its end:    *)
(* nobody waits forever for a lock, whatever fails in between.               *)
EveryoneReturns == \A s \in Sessions : ses[s].pc # "idle" ~> ses[s].pc = "idle"

(* sim_cash.go and backfill.go: funding is booked on open legs, which stay   *)
(* open.  (SettleSimPositionFunding does not look at the status.)            *)
FundingOnlyOpen ==
  [][\A l \in Legs : leg'[l].funds > leg[l].funds => leg[l].st = "open"]_txvars

=============================================================================
