------------------------------ MODULE FactFeed ------------------------------
(***************************************************************************)
(* What the collection of facts promises to the rest of the program: the   *)
(* rows of a source only grow, in the order its readings were taken, and a *)
(* source is announced as healthy only with a reading that is stored.      *)
(***************************************************************************)
EXTENDS Naturals, Sequences

CONSTANTS
  Sources,    \* the data sources
  MaxReading  \* bound: readings of a source, in the order of its clock

VARIABLES
  log,   \* the readings stored for a source, in the order of their insertion
  told   \* the newest reading a source was announced healthy with

fvars == <<log, told>>

FeedInit ==
  /\ log = [s \in Sources |-> <<>>]
  /\ told = [s \in Sources |-> 0]

\* The newest reading stored, 0 if there is none.
Newest(rows) == IF rows = <<>> THEN 0 ELSE rows[Len(rows)]

\* A batch of rows of one reading is stored.
Store(s) ==
  \E r \in Newest(log[s])..MaxReading, n \in 1..2 :
    /\ r > 0
    /\ log' = [log EXCEPT ![s] = @ \o [i \in 1..n |-> r]]
    /\ UNCHANGED told

\* A source is announced healthy with a reading that is stored.
Announce(s) ==
  \E r \in told[s]..Newest(log[s]) :
    /\ told' = [told EXCEPT ![s] = r]
    /\ UNCHANGED log

FeedNext == \E s \in Sources : Store(s) \/ Announce(s)

FeedSpec == FeedInit /\ [][FeedNext]_fvars
=============================================================================
