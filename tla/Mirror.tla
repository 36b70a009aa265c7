------------------------------- MODULE Mirror -------------------------------
(***************************************************************************)
(* Confirming one suggested order with its legs mirrored to a test network *)
(* (ConfirmSimOrder and mirrorToExec of internal/simapi, Executor of       *)
(* internal/simtestnet, InsertSimExecution): leg by leg the order is       *)
(* placed at the exchange, read back and put on record, under one budget   *)
(* of time, and none of it may hold up the local fill.  Every statement    *)
(* may fail, with or without effect, and the process may end at any point. *)
(*                                                                         *)
(* Abstractions: the quantity of a result is whether it is set; prices and *)
(* signatures are left out; the budget of time runs out at any moment.     *)
(***************************************************************************)
EXTENDS Naturals, Sequences, FiniteSets

CONSTANTS
  Confirms,   \* requests that confirm the order
  Answers     \* the states in which an order is read back, in the words of Binance

ASSUME MirrorAssumption == Answers \subseteq {"NEW", "PARTIALLY_FILLED", "FILLED", "CANCELED"}

ExecVenues == {"", "binance_testnet", "okx_demo"}
Kinds == {"funding_hedge", "repo"}
Legs == {"spot", "perp"}
ExecStatuses == {"placed", "filled", "partial", "rejected", "error"}

VARIABLES
  venue,    \* Config.ExecVenue, "" without an executor
  kind,     \* the kind of the order
  status,   \* its row in sim_orders
  ctl,      \* where each request is, or how it ended
  legs,     \* the legs it has still to mirror
  result,   \* ExecResult of the leg it is at
  late,     \* its budget of time is used up
  gone,     \* its client has left, which cancels the request
  orders,   \* orders at the exchange: request, leg and state
  rows,     \* sim_order_executions: request, leg and status
  ended     \* how each leg of each request ended, as its summary says

rvars == <<venue, kind, status, ctl, legs, result, late, gone, orders, rows, ended>>

Order == [by : Confirms, leg : Legs, state : Answers]
Row == [by : Confirms, leg : Legs, status : ExecStatuses, known : BOOLEAN]
\* known: the number of the order at the exchange is set; sized: so is the quantity.
ExecResult == [status : ExecStatuses, known : BOOLEAN, sized : BOOLEAN]
NoResult == [status |-> "error", known |-> FALSE, sized |-> FALSE]

\* Where a request is handled.
Under == {"gate", "place", "record", "accept"}

MirrorTypeOK ==
  /\ venue \in ExecVenues /\ kind \in Kinds
  /\ status \in {"suggested", "filled", "rejected"}
  /\ ctl \in [Confirms -> Under \cup {"off", "accepted", "refused", "failed", "broken", "crashed"}]
  /\ legs \in [Confirms -> Seq(Legs)]
  /\ result \in [Confirms -> ExecResult]
  /\ late \in [Confirms -> BOOLEAN] /\ gone \in [Confirms -> BOOLEAN]
  /\ orders \subseteq Order /\ rows \subseteq Row
  /\ ended \in [Confirms -> [Legs -> {"open", "skipped", "recorded", "unrecorded", "failed"}]]

MirrorInit ==
  /\ venue \in ExecVenues /\ kind \in Kinds
  /\ status = "suggested" /\ orders = {} /\ rows = {}
  /\ ctl = [c \in Confirms |-> "off"] /\ legs = [c \in Confirms |-> <<>>]
  /\ result = [c \in Confirms |-> NoResult]
  /\ late = [c \in Confirms |-> FALSE] /\ gone = [c \in Confirms |-> FALSE]
  /\ ended = [c \in Confirms |-> [l \in Legs |-> "open"]]

-----------------------------------------------------------------------------
Moves(c, from, to) == ctl[c] = from /\ ctl' = [ctl EXCEPT ![c] = to]
Steady == UNCHANGED <<venue, kind>>
NoMirror == UNCHANGED <<legs, result, late, orders, rows, ended>>

\* An UPDATE that only takes a suggested order.
Taken(to) == IF status = "suggested" THEN to ELSE status

\* BuildLegs of a funding hedge; without an executor, and for other kinds, nothing is mirrored.
Mirrored == IF venue = "" \/ kind # "funding_hedge" THEN <<>> ELSE <<"spot", "perp">>

\* The handler of c returns, and its context ends.
Returns(c) ==
  /\ gone' = [gone EXCEPT ![c] = FALSE] /\ late' = [late EXCEPT ![c] = FALSE]
  /\ UNCHANGED <<legs, result, orders, rows, ended>>

\* GetSimOrder: only a suggested order can be confirmed.
Read(c) ==
  /\ Moves(c, "off", IF status = "suggested" THEN "gate" ELSE "refused")
  /\ Steady /\ UNCHANGED <<status, gone>> /\ NoMirror

\* The drift gate passes: mirrorToExec begins with its budget.
GatePasses(c) ==
  /\ Moves(c, "gate", IF Mirrored = <<>> THEN "accept" ELSE "place")
  /\ legs' = [legs EXCEPT ![c] = Mirrored]
  /\ Steady /\ UNCHANGED <<status, gone, result, late, orders, rows, ended>>

\* It refuses: RejectSimOrder, which only takes a suggested order.
GateRefuses(c) ==
  /\ Moves(c, "gate", IF status = "suggested" THEN "refused" ELSE "failed")
  /\ status' = Taken("rejected")
  /\ Steady /\ Returns(c)

\* The client closes the connection, or the budget ends.
ClientLeaves(c) ==
  /\ ~gone[c] /\ ctl[c] \in Under
  /\ gone' = [gone EXCEPT ![c] = TRUE] /\ late' = [late EXCEPT ![c] = TRUE]
  /\ Steady /\ UNCHANGED <<status, ctl, legs, result, orders, rows, ended>>

BudgetEnds(c) ==
  /\ ~late[c] /\ ctl[c] \in {"place", "record"}
  /\ late' = [late EXCEPT ![c] = TRUE]
  /\ Steady /\ UNCHANGED <<status, ctl, legs, result, gone, orders, rows, ended>>

\* The next leg, or the local fill after the last one.
LegEnds(c, how) ==
  /\ ended' = [ended EXCEPT ![c][Head(legs[c])] = how]
  /\ legs' = [legs EXCEPT ![c] = Tail(@)]
  /\ result' = [result EXCEPT ![c] = NoResult]
  /\ Moves(c, ctl[c], IF legs'[c] = <<>> THEN "accept" ELSE "place")

\* The futures of Binance have no spot leg.
Unsupported(c) == venue = "binance_testnet" /\ Head(legs[c]) = "spot"

SkipLeg(c) ==
  /\ ctl[c] = "place" /\ Unsupported(c)
  /\ LegEnds(c, "skipped")
  /\ Steady /\ UNCHANGED <<status, gone, late, orders, rows>>

\* binanceResult and getOKXOrder: what an order read back becomes.
ReadBack(state) ==
  [status |-> CASE state = "FILLED" -> "filled"
                [] state = "PARTIALLY_FILLED" -> "partial"
                [] state = "NEW" -> "placed"
                [] OTHER -> "rejected",
   known |-> TRUE, sized |-> TRUE]

\* PlaceOrder ends with a result, and the exchange has taken the order in one of some states or not.
Placed(c, r, states) ==
  /\ Moves(c, "place", "record") /\ ~Unsupported(c)
  /\ result' = [result EXCEPT ![c] = r]
  /\ \/ states = {} /\ UNCHANGED orders
     \/ \E s \in states : orders' = orders \cup {[by |-> c, leg |-> Head(legs[c]), state |-> s]}
  /\ Steady /\ UNCHANGED <<status, legs, late, gone, rows, ended>>

\* The exchange takes the order and the read-back succeeds.
PlaceAnswered(c) == ~late[c] /\ \E s \in Answers : Placed(c, ReadBack(s), {s})

\* The exchange refuses it.
PlaceRefused(c) == ~late[c] /\ Placed(c, [NoResult EXCEPT !.status = "rejected"], {})

\* It takes it, but its answer is lost, cannot be parsed, or the read-back fails.
PlaceUnanswered(c) == ~late[c] /\ Placed(c, NoResult, Answers)

\* The request does not reach it, or the budget is used up.
PlaceFails(c) == Placed(c, NoResult, {})

\* The row of the leg c is at, with what its result says; it can be inserted within the budget.
RowOf(c) == [by |-> c, leg |-> Head(legs[c]), status |-> result[c].status, known |-> result[c].known]
Insertable(c) == ctl[c] = "record" /\ result[c].sized /\ ~late[c]
Stored(c) == Insertable(c) /\ rows' = rows \cup {RowOf(c)}

\* InsertSimExecution within the budget: a row.
Record(c) ==
  /\ Stored(c) /\ LegEnds(c, "recorded")
  /\ Steady /\ UNCHANGED <<status, gone, late, orders>>

\* Bug: a leg that cannot be recorded is taken for recorded.
RecordDrops(c) ==
  /\ ctl[c] = "record" /\ ~result[c].sized
  /\ LegEnds(c, "recorded")
  /\ Steady /\ UNCHANGED <<status, gone, late, orders, rows>>

\* It refuses a result whose quantity is not set, which is that of every failure and refusal.
RecordRefused(c) ==
  /\ ctl[c] = "record" /\ ~result[c].sized
  /\ LegEnds(c, "unrecorded")
  /\ Steady /\ UNCHANGED <<status, gone, late, orders, rows>>

\* Bug: the failure of the record is returned to the client.
RecordFailsStops(c) ==
  /\ Moves(c, "record", "failed")
  /\ Steady /\ UNCHANGED <<status, gone, legs, result, late, orders, rows, ended>>

\* The insertion fails, as it does once the budget is used up: the summary says so.
RecordFails(c) ==
  /\ ctl[c] = "record" /\ result[c].sized
  /\ LegEnds(c, "failed")
  /\ Steady /\ UNCHANGED <<status, gone, late, orders, rows>>

\* It takes effect, but its answer is lost or the budget ends before: the summary says that it failed.
RecordUnanswered(c) ==
  /\ Stored(c) /\ LegEnds(c, "failed")
  /\ Steady /\ UNCHANGED <<status, gone, late, orders>>

\* AcceptSimOrder, which only takes a suggested order.
Accept(c) ==
  /\ ~gone[c] /\ Moves(c, "accept", IF status = "suggested" THEN "accepted" ELSE "failed")
  /\ status' = Taken("filled")
  /\ Steady /\ Returns(c)

\* It does not get that far once the request is cancelled.
AcceptCancelled(c) ==
  /\ gone[c] /\ Moves(c, "accept", "broken")
  /\ Steady /\ UNCHANGED status /\ Returns(c)

\* A statement of the store fails where the handler returns its error: GetSimOrder, the gate with
\* RejectSimOrder, AcceptSimOrder.  The change may be made all the same, the answer being lost.
ReadFails(c) ==
  /\ Moves(c, "off", "broken")
  /\ Steady /\ UNCHANGED status /\ Returns(c)

GateFails(c) ==
  /\ Moves(c, "gate", "broken") /\ status' \in {status, Taken("rejected")}
  /\ Steady /\ Returns(c)

AcceptFails(c) ==
  /\ Moves(c, "accept", "broken") /\ status' \in {status, Taken("filled")}
  /\ Steady /\ Returns(c)

\* The process ends, and with it every request it handles; statements under way may take effect.
ServerDies ==
  /\ \E c \in Confirms : ctl[c] \in Under
  /\ ctl' = [c \in Confirms |-> IF ctl[c] \in Under THEN "crashed" ELSE ctl[c]]
  /\ gone' = [c \in Confirms |-> FALSE] /\ late' = [c \in Confirms |-> FALSE]
  /\ result' = [c \in Confirms |-> NoResult] /\ legs' = [c \in Confirms |-> <<>>]
  /\ \E done \in SUBSET {c \in Confirms : Insertable(c)} : rows' = rows \cup {RowOf(c) : c \in done}
  /\ status' \in {status} \cup {Taken("rejected") : c \in {d \in Confirms : ctl[d] = "gate"}}
                          \cup {Taken("filled") : c \in {d \in Confirms : ctl[d] = "accept"}}
  /\ Steady /\ UNCHANGED <<orders, ended>>

MirrorStep(c) ==
  \/ Read(c) \/ GatePasses(c) \/ GateRefuses(c) \/ ClientLeaves(c) \/ BudgetEnds(c)
  \/ SkipLeg(c) \/ PlaceAnswered(c) \/ PlaceRefused(c) \/ PlaceUnanswered(c) \/ PlaceFails(c)
  \/ Record(c) \/ RecordRefused(c) \/ RecordFails(c) \/ RecordUnanswered(c)
  \/ Accept(c) \/ AcceptCancelled(c) \/ ReadFails(c) \/ GateFails(c) \/ AcceptFails(c)

MirrorNext == ServerDies \/ \E c \in Confirms : MirrorStep(c)

MirrorSpec == MirrorInit /\ [][MirrorNext]_rvars

\* A request that is being handled goes on: its calls return, the gate with an answer.
MirrorProgress ==
  \A c \in Confirms :
    WF_rvars(GatePasses(c) \/ GateRefuses(c) \/ SkipLeg(c) \/ PlaceFails(c) \/ Record(c) \/ RecordRefused(c)
               \/ RecordFails(c) \/ Accept(c) \/ AcceptCancelled(c))

-----------------------------------------------------------------------------
(* Properties. *)

(* The records account for what the mirror did, whatever is lost on the way: *)
(* a record is about an order the exchange has, in the state it had then; a  *)
(* request places a leg once and records it once; a leg that ended recorded  *)
(* has its record.  An order without one belongs to a leg just placed, to a  *)
(* request that went down with the process, or to a leg whose summary says   *)
(* error; and that summary is wrong about the record only if the insertion   *)
(* took effect without an answer.                                            *)
MirrorAccounted ==
  /\ \A r \in rows :
       /\ \E o \in orders : o.by = r.by /\ o.leg = r.leg /\ ReadBack(o.state).status = r.status
       /\ \A t \in rows : t.by = r.by /\ t.leg = r.leg => t = r
       /\ \/ ended[r.by][r.leg] \in {"recorded", "failed"}
          \/ ended[r.by][r.leg] = "open" /\ ctl[r.by] = "crashed"
  /\ \A o \in orders :
       /\ \A p \in orders : p.by = o.by /\ p.leg = o.leg => p = o
       /\ \/ \E r \in rows : r.by = o.by /\ r.leg = o.leg
          \/ ended[o.by][o.leg] \in {"unrecorded", "failed"}
          \/ ended[o.by][o.leg] = "open" /\ ctl[o.by] \in {"record", "crashed"}
  /\ \A c \in Confirms, l \in Legs :
       ended[c][l] = "recorded" => \E r \in rows : r.by = c /\ r.leg = l

(* Nothing the mirror meets holds up the local fill: once a request has      *)
(* passed the gate the order is filled or closed, unless its client leaves,  *)
(* the process ends, or the store fails the fill itself.                     *)
FillNotHeldUp ==
  \A c \in Confirms :
    ctl[c] \in {"place", "record", "accept"} ~> status # "suggested" \/ gone[c] \/ ctl[c] \in {"crashed", "broken"}

(* mirror.go and migration 0012: a failure of the network, a refusal by the  *)
(* exchange and a budget used up become records of status error or rejected. *)
(* (InsertSimExecution refuses a quantity of 0, which is theirs.)            *)
FailuresOnRecord ==
  \A c \in Confirms, l \in Legs :
    ended[c][l] = "unrecorded" => \E r \in rows : r.by = c /\ r.leg = l
=============================================================================
