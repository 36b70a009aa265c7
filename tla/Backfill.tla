------------------------------ MODULE Backfill ------------------------------
(***************************************************************************)
(* The backfill of the funding history at boot: for one venue after the    *)
(* other the settlements of the window are polled, page by page, those     *)
(* stored already are queried, and the others are inserted, while the      *)
(* scheduler stores funding facts of its own in the same table.            *)
(*                                                                         *)
(* Abstractions: a settlement is its number, which stands for its time,    *)
(* the same for all symbols of a venue; what the scheduler stores carries  *)
(* the time of its poll, never that of a settlement, and only counts;      *)
(* nothing leaves the window while the program runs.                       *)
(***************************************************************************)
EXTENDS Naturals, FiniteSets

CONSTANTS
  NumVenues,      \* the collectors, in the order they are polled
  NewestFirst,      \* those whose pages go back from the newest settlement (OKX)
  PageSize,       \* settlements of a full page
  From,           \* the first settlement of the window
  MaxSettlements, \* bound: settlements of a venue
  QueryLimit,     \* rows a query of the stored facts returns at most
  MaxLive,        \* bound: rows of the scheduler
  MaxCuts         \* bound: queries of a venue that are cut off by the limit

Venues == 1..NumVenues
Settlements == 1..MaxSettlements

ASSUME BackfillAssumption ==
  /\ NumVenues \in Nat \ {0} /\ MaxSettlements \in Nat /\ QueryLimit \in Nat
  /\ NewestFirst \subseteq Venues /\ PageSize \in Nat \ {0} /\ From \in Nat \ {0}
  /\ MaxLive \in Nat /\ MaxCuts \in Nat

VARIABLES
  settled,  \* settlements so far
  copies,   \* rows stored for each settlement of a venue
  live,     \* rows the scheduler has stored for a venue
  runner,   \* the goroutine of the boot
  venue,    \* the venue it is at
  upto,     \* the last settlement when it began to poll the venue
  cursor,   \* where its next page starts: at it, or before it
  polled,   \* how often it has got a settlement
  found,    \* those its query returned
  cut       \* history: queries of a venue that were cut off by the limit

pollvars == <<upto, cursor, polled>>
bvars == <<settled, copies, live, runner, venue, pollvars, found, cut>>

BackfillTypeOK ==
  /\ settled \in 0..MaxSettlements
  /\ copies \in [Venues -> [Settlements -> Nat]] /\ live \in [Venues -> 0..MaxLive]
  /\ runner \in {"off", "poll", "page", "query", "insert", "done"} /\ venue \in Venues
  /\ upto \in 0..MaxSettlements /\ cursor \in Nat /\ polled \in [Settlements -> Nat]
  /\ found \subseteq Settlements
  /\ cut \in [Venues -> 0..MaxCuts]

Unpolled == [n \in Settlements |-> 0]

BackfillInit ==
  /\ settled = 0 /\ copies = [v \in Venues |-> [n \in Settlements |-> 0]]
  /\ live = [v \in Venues |-> 0]
  /\ runner = "off" /\ venue = 1 /\ upto = 0 /\ cursor = 0 /\ polled = Unpolled /\ found = {}
  /\ cut = [v \in Venues |-> 0]

-----------------------------------------------------------------------------
\* The settlements stored for a venue.
Stored(v) == {n \in Settlements : copies[v][n] > 0}

\* Whether the rows of a venue fit into a query: those of its settlements, at least one each
\* and more once a query was cut off, and those of the scheduler.
Fits(v) == cut[v] = 0 /\ Cardinality(Stored(v)) + live[v] <= QueryLimit

Settle ==
  /\ settled < MaxSettlements /\ settled' = settled + 1
  /\ UNCHANGED <<copies, live, runner, venue, pollvars, found, cut>>

\* The scheduler stores a funding fact.
StoreLive(v) ==
  /\ runner # "off" /\ live[v] < MaxLive /\ live' = [live EXCEPT ![v] = @ + 1]
  /\ UNCHANGED <<settled, copies, runner, venue, pollvars, found, cut>>

\* What the runner knows of a venue is gone with it.
Forget == upto' = 0 /\ cursor' = 0 /\ polled' = Unpolled /\ found' = {}

Boot ==
  /\ runner = "off" /\ runner' = "poll" /\ venue' = 1
  /\ UNCHANGED <<settled, copies, live, pollvars, found, cut>>

\* The process ends.
Shutdown ==
  /\ runner # "off" /\ runner' = "off" /\ venue' = 1 /\ Forget
  /\ UNCHANGED <<settled, copies, live, cut>>

\* The next venue, or the end.
NextVenue ==
  /\ IF venue < NumVenues THEN runner' = "poll" /\ venue' = venue + 1
     ELSE runner' = "done" /\ venue' = venue
  /\ Forget

\* Poll reads the clock and asks for the first page.
StartPoll ==
  /\ runner = "poll" /\ runner' = "page" /\ upto' = settled
  /\ cursor' = IF venue \in NewestFirst THEN settled + 1 ELSE From
  /\ UNCHANGED <<settled, copies, live, venue, polled, found, cut>>

\* A page: the settlements from the cursor on, or those before it.
Page ==
  IF venue \in NewestFirst THEN {n \in Settlements : n < cursor /\ cursor <= n + PageSize}
  ELSE {n \in Settlements : cursor <= n /\ n < cursor + PageSize /\ n <= upto}
Full == IF venue \in NewestFirst THEN PageSize < cursor ELSE cursor + PageSize <= upto + 1

\* Bug: the next page begins with the last settlement of this one.
NextCursorInclusive == IF venue \in NewestFirst THEN cursor - PageSize ELSE cursor + PageSize - 1

\* The next page begins after the last settlement of this one, or ends before it.
NextCursor == IF venue \in NewestFirst THEN cursor - PageSize ELSE cursor + PageSize

\* paginate: of what is older than the window nothing is kept.
TakePage == polled' = [n \in Settlements |-> IF n \in Page /\ From <= n THEN polled[n] + 1 ELSE polled[n]]

GetPage ==
  /\ runner = "page" /\ Full /\ (venue \in NewestFirst => From <= NextCursor)
  /\ TakePage /\ cursor' = NextCursor
  /\ UNCHANGED <<settled, copies, live, runner, venue, upto, found, cut>>

\* The last page is not full, reaches back over the window, or on to a settlement of this moment.
\* A venue without history is passed over.
GetLastPage ==
  /\ runner = "page"
  /\ ~Full \/ (IF venue \in NewestFirst THEN NextCursor < From ELSE NextCursor = upto + 1)
  /\ IF upto < From THEN NextVenue ELSE TakePage /\ runner' = "query" /\ UNCHANGED <<venue, upto, cursor, found>>
  /\ UNCHANGED <<settled, copies, live, cut>>

\* QueryFacts, oldest first: a limit that is too small cuts off the newest.
QueryExisting ==
  /\ runner = "query" /\ runner' = "insert"
  /\ \/ Fits(venue) /\ found' = Stored(venue) /\ cut' = cut
     \/ /\ ~Fits(venue) /\ cut[venue] < MaxCuts
        /\ \E n \in 0..MaxSettlements : found' = {m \in Stored(venue) : m <= n}
        /\ cut' = [cut EXCEPT ![venue] = @ + 1]
  /\ UNCHANGED <<settled, copies, live, venue, pollvars>>

\* Bug: what is stored is not looked at.
UncoveredIgnored(existing, batch) == batch

UncoveredFacts(existing, batch) == batch \ existing

\* InsertFacts copies all of them or none; when its answer is lost the boot still fails.
StoreHistory ==
  LET new == UncoveredFacts(found, {n \in Settlements : polled[n] > 0})
  IN copies' = [copies EXCEPT ![venue] = [n \in Settlements |->
                  IF n \in new THEN copies[venue][n] + polled[n] ELSE copies[venue][n]]]

InsertHistory ==
  /\ runner = "insert" /\ StoreHistory /\ NextVenue
  /\ UNCHANGED <<settled, live, cut>>

\* A failure ends the backfill of this boot, for the venues after it too.
BackfillFails ==
  /\ runner \in {"page", "query", "insert"} /\ runner' = "done" /\ Forget
  /\ UNCHANGED <<settled, copies, live, venue, cut>>

InsertUnsure ==
  /\ runner = "insert" /\ StoreHistory /\ runner' = "done" /\ Forget
  /\ UNCHANGED <<settled, live, venue, cut>>

BackfillNext ==
  \/ Settle \/ Boot \/ Shutdown \/ \E v \in Venues : StoreLive(v)
  \/ StartPoll \/ GetPage \/ GetLastPage \/ QueryExisting \/ InsertHistory \/ InsertUnsure \/ BackfillFails

BackfillSpec == BackfillInit /\ [][BackfillNext]_bvars

-----------------------------------------------------------------------------
(* Properties. *)

\* Settlements a to b, each once.
Each(a, b) == [n \in Settlements |-> IF a <= n /\ n <= b THEN 1 ELSE 0]
Later(a, b) == IF a < b THEN b ELSE a

\* What has been polled when: so far, and in the end the window as it was when the poll began.
PolledSoFar ==
  CASE runner = "page" /\ venue \in NewestFirst -> cursor <= upto + 1 /\ polled = Each(Later(From, cursor), upto)
    [] runner = "page" /\ venue \notin NewestFirst ->
         From <= cursor /\ polled = [n \in Settlements |-> IF From <= n /\ n < cursor /\ n <= upto THEN 1 ELSE 0]
    [] runner \in {"query", "insert"} -> polled = Each(From, upto)
    [] OTHER -> polled = Unpolled

\* What is about to be inserted is not stored yet, but for queries that were cut off.
FreshInsert ==
  runner = "insert" => \A n \in Settlements \ found : polled[n] > 0 => copies[venue][n] <= cut[venue]

\* Each query that was cut off stores a settlement once more at most.
CopiesCounted ==
  \A v \in Venues : \A n \in Settlements : copies[v][n] <= 1 + cut[v]

(* A settlement is stored once, whatever boots failed, were killed or never  *)
(* learnt that they had stored, unless a query of what is stored was cut off *)
(* by its limit, and then at most once more for each such query; and what is *)
(* inserted is the whole window, however pages and settlements fall.         *)
HistoryOnce == PolledSoFar /\ FreshInsert /\ CopiesCounted
=============================================================================
