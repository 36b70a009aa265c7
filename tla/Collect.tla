------------------------------ MODULE Collect ------------------------------
(***************************************************************************)
(* The scheduler of internal/collect with its deduplication, and the       *)
(* heartbeat of internal/alert that watches it: per source a goroutine     *)
(* that polls and stores and a goroutine that reports how long ago that    *)
(* last succeeded.                                                         *)
(*                                                                         *)
(* Abstractions: a source yields one key, and a reading, its value with    *)
(* its time, is a number; waiting times are left out, and an age counts    *)
(* the polling intervals since the last success.                           *)
(***************************************************************************)
EXTENDS Naturals, Sequences, FiniteSets

CONSTANTS
  Sources,     \* the data sources
  MaxReading,  \* bound: readings of a source
  MaxFaults,   \* bound: restarts, and insertions that fail after the fact
  Windows      \* threshold of the rule collector_heartbeat, in missed windows

ASSUME CollectAssumption ==
  MaxReading \in Nat /\ MaxFaults \in Nat /\ Windows \in Nat

VARIABLES
  answers, \* whether a source answers at all
  market,  \* the reading a source shows now, 0 before its first
  log,     \* the rows stored for a source, in the order of their insertion
  up,      \* the process runs
  last,    \* dedupSet.last: the reading last stored by this process, 0 for none
  pc,      \* the goroutine of a source
  batch,   \* the facts its poll has returned
  kept,    \* those of them that are not duplicates
  age,     \* polling intervals since lastOK, one more than Windows standing for all beyond
  beat,    \* the newest heartbeat stored for a source
  faults,  \* history: restarts and insertions that failed after the fact
  told,    \* history: the reading the last success of a source was recorded with
  excused  \* history: rows a source may hold twice, by what has happened to it

cvars == <<answers, market, log, up, last, pc, batch, kept, age, beat, faults, told, excused>>

MaxAge == Windows + 1

CollectTypeOK ==
  /\ answers \in [Sources -> BOOLEAN]
  /\ market \in [Sources -> 0..MaxReading] /\ last \in [Sources -> 0..MaxReading]
  /\ log \in [Sources -> Seq(1..MaxReading)] /\ up \in BOOLEAN
  /\ pc \in [Sources -> {"poll", "filter", "sink", "remember", "record", "sleep", "hung"}]
  /\ batch \in [Sources -> Seq(1..MaxReading)] /\ kept \in [Sources -> Seq(1..MaxReading)]
  /\ age \in [Sources -> 0..MaxAge] /\ beat \in [Sources -> 0..MaxAge]
  /\ faults \in 0..MaxFaults /\ told \in [Sources -> 0..MaxReading]
  /\ excused \in [Sources -> Nat]

CollectInit ==
  /\ answers = [s \in Sources |-> TRUE]
  /\ market = [s \in Sources |-> 0] /\ log = [s \in Sources |-> <<>>] /\ up = FALSE
  /\ last = [s \in Sources |-> 0] /\ pc = [s \in Sources |-> "poll"]
  /\ batch = [s \in Sources |-> <<>>] /\ kept = [s \in Sources |-> <<>>]
  /\ age = [s \in Sources |-> 0] /\ beat = [s \in Sources |-> 0]
  /\ faults = 0 /\ told = [s \in Sources |-> 0] /\ excused = [s \in Sources |-> 0]

-----------------------------------------------------------------------------
At(s, place) == up /\ pc[s] = place

Goes(s, place) == pc' = [pc EXCEPT ![s] = place]

\* The source shows another reading.
Moves(s) ==
  /\ market[s] < MaxReading
  /\ market' = [market EXCEPT ![s] = @ + 1]
  /\ UNCHANGED <<answers, log, up, last, pc, batch, kept, age, beat, faults, told, excused>>

\* The source no longer answers, or does again.
Turns(s) ==
  /\ answers' = [answers EXCEPT ![s] = ~@]
  /\ UNCHANGED <<market, log, up, last, pc, batch, kept, age, beat, faults, told, excused>>

\* Poll: what the source shows, which a page may list twice.
Poll(s) ==
  /\ At(s, "poll") /\ answers[s] /\ market[s] > 0
  /\ \E b \in {<<market[s]>>, <<market[s], market[s]>>} : batch' = [batch EXCEPT ![s] = b]
  /\ Goes(s, "filter")
  /\ UNCHANGED <<answers, market, log, up, last, kept, age, beat, faults, told, excused>>

\* Poll fails or times out: no success is recorded, and after the backoff it polls again.
PollFails(s) ==
  /\ At(s, "poll") /\ Goes(s, "sleep")
  /\ UNCHANGED <<answers, market, log, up, last, batch, kept, age, beat, faults, told, excused>>

\* emit, the first critical section: the facts of a batch, which are all one reading, are
\* dropped if that is the one remembered; only a key without memory is compared with the
\* batch itself.
Kept(s) ==
  LET r == batch[s][1]
  IN CASE last[s] = 0 -> <<r>> [] last[s] = r -> <<>> [] OTHER -> batch[s]

\* Bug: what is kept is remembered before it is stored.
FilterRemembers(s) ==
  /\ At(s, "filter")
  /\ kept' = [kept EXCEPT ![s] = Kept(s)]
  /\ last' = [last EXCEPT ![s] = batch[s][1]]
  /\ Goes(s, IF Kept(s) = <<>> THEN "record" ELSE "sink")
  /\ UNCHANGED <<answers, market, log, up, batch, age, beat, faults, told, excused>>

Filter(s) ==
  /\ At(s, "filter")
  /\ kept' = [kept EXCEPT ![s] = Kept(s)]
  /\ Goes(s, IF Kept(s) = <<>> THEN "record" ELSE "sink")
  /\ UNCHANGED <<answers, market, log, up, last, batch, age, beat, faults, told, excused>>

\* The sink stores what was kept; a batch that lists a fact twice is excused for it.
Sink(s) ==
  /\ At(s, "sink")
  /\ log' = [log EXCEPT ![s] = @ \o kept[s]]
  /\ excused' = [excused EXCEPT ![s] = @ + Len(kept[s]) - 1]
  /\ Goes(s, "remember")
  /\ UNCHANGED <<answers, market, up, last, batch, kept, age, beat, faults, told>>

\* The sink fails and stores nothing.
SinkFails(s) ==
  /\ At(s, "sink") /\ Goes(s, "sleep")
  /\ UNCHANGED <<answers, market, log, up, last, batch, kept, age, beat, faults, told, excused>>

\* The sink, which has no time limit of its own, does not return, for as long as it likes.
SinkHangs(s) ==
  /\ At(s, "sink") /\ Goes(s, "hung")
  /\ UNCHANGED <<answers, market, log, up, last, batch, kept, age, beat, faults, told, excused>>

HangEnds(s) ==
  /\ At(s, "hung") /\ Goes(s, "sleep")
  /\ UNCHANGED <<answers, market, log, up, last, batch, kept, age, beat, faults, told, excused>>

\* The sink stores, but its answer is lost or does not come: the same facts are stored again.
SinkUnsure(s) ==
  /\ At(s, "sink") /\ faults < MaxFaults
  /\ log' = [log EXCEPT ![s] = @ \o kept[s]]
  /\ faults' = faults + 1 /\ excused' = [excused EXCEPT ![s] = @ + Len(kept[s])]
  /\ \E place \in {"sleep", "hung"} : Goes(s, place)
  /\ UNCHANGED <<answers, market, up, last, batch, kept, age, beat, told>>

\* Bug: nothing is remembered of a batch.
RememberNothing(s) ==
  /\ At(s, "remember") /\ Goes(s, "record")
  /\ UNCHANGED <<answers, market, log, up, last, batch, kept, age, beat, faults, told, excused>>

\* emit, the second critical section.
Remember(s) ==
  /\ At(s, "remember")
  /\ last' = [last EXCEPT ![s] = kept[s][Len(kept[s])]]
  /\ Goes(s, "record")
  /\ UNCHANGED <<answers, market, log, up, batch, kept, age, beat, faults, told, excused>>

\* OnSuccess, which is Heartbeat.Record.
Record(s) ==
  /\ At(s, "record")
  /\ age' = [age EXCEPT ![s] = 0]
  /\ told' = [told EXCEPT ![s] = batch[s][1]]
  /\ Goes(s, "sleep")
  /\ UNCHANGED <<answers, market, log, up, last, batch, kept, beat, faults, excused>>

\* The interval, or the backoff, is over.
WakeSource(s) ==
  /\ At(s, "sleep") /\ Goes(s, "poll")
  /\ batch' = [batch EXCEPT ![s] = <<>>] /\ kept' = [kept EXCEPT ![s] = <<>>]
  /\ UNCHANGED <<answers, market, log, up, last, age, beat, faults, told, excused>>

-----------------------------------------------------------------------------
(* The heartbeat. *)

\* A polling interval passes.
Elapse(s) ==
  /\ up /\ age[s] < MaxAge
  /\ age' = [age EXCEPT ![s] = @ + 1]
  /\ UNCHANGED <<answers, market, log, up, last, pc, batch, kept, beat, faults, told, excused>>

\* Bug: the heartbeat is sent by the polling goroutine, whenever it waits.
BeatWhileWaiting(s) ==
  /\ At(s, "sleep") /\ beat' = [beat EXCEPT ![s] = age[s]]
  /\ UNCHANGED <<answers, market, log, up, last, pc, batch, kept, age, faults, told, excused>>

\* runSource of the heartbeat, on its own timer; a failed insertion changes nothing.
Beat(s) ==
  /\ up /\ beat' = [beat EXCEPT ![s] = age[s]]
  /\ UNCHANGED <<answers, market, log, up, last, pc, batch, kept, age, faults, told, excused>>

-----------------------------------------------------------------------------
\* The process ends, wherever its goroutines are.
StopCollect ==
  /\ up /\ up' = FALSE /\ faults < MaxFaults /\ faults' = faults + 1
  /\ excused' = [s \in Sources |-> excused[s] + 1]
  /\ UNCHANGED <<answers, market, log, last, pc, batch, kept, age, beat, told>>

\* Bug: the heartbeat tracks no source before its first success.
StartUntracked ==
  /\ ~up /\ up' = TRUE
  /\ last' = [s \in Sources |-> 0] /\ pc' = [s \in Sources |-> "poll"]
  /\ batch' = [s \in Sources |-> <<>>] /\ kept' = [s \in Sources |-> <<>>]
  /\ age' = [s \in Sources |-> MaxAge + 1]
  /\ UNCHANGED <<answers, market, log, beat, faults, told, excused>>

\* It starts with an empty memory; Track starts the age of every source at the boot.
StartCollect ==
  /\ ~up /\ up' = TRUE
  /\ last' = [s \in Sources |-> 0] /\ pc' = [s \in Sources |-> "poll"]
  /\ batch' = [s \in Sources |-> <<>>] /\ kept' = [s \in Sources |-> <<>>]
  /\ age' = [s \in Sources |-> 0]
  /\ UNCHANGED <<answers, market, log, beat, faults, told, excused>>

CollectNext ==
  \/ StartCollect \/ StopCollect
  \/ \E s \in Sources :
       \/ Moves(s) \/ Turns(s) \/ Poll(s) \/ PollFails(s) \/ Filter(s) \/ Sink(s) \/ SinkFails(s)
       \/ SinkHangs(s) \/ HangEnds(s) \/ SinkUnsure(s) \/ Remember(s) \/ Record(s) \/ WakeSource(s) \/ Elapse(s) \/ Beat(s)

CollectSpec == CollectInit /\ [][CollectNext]_cvars

\* The goroutines are scheduled.
SourceProgress(s) ==
  WF_cvars(WakeSource(s) \/ Filter(s) \/ Remember(s) \/ Record(s) \/ PollFails(s) \/ SinkFails(s))

\* Time passes and the heartbeat of a source runs, whether the source answers or not.
BeatProgress(s) == WF_cvars(Elapse(s)) /\ WF_cvars(Beat(s))

CollectProgress == \A s \in Sources : SourceProgress(s) /\ BeatProgress(s)

-----------------------------------------------------------------------------
(* Properties. *)

(* A fact is stored once.  What a source holds beyond one row per reading    *)
(* goes back to a restart, which forgets what was stored last, to an         *)
(* insertion whose answer was lost, or to a batch that lists it twice.       *)
RepeatsExcused ==
  \A s \in Sources :
    Len(log[s]) <= Cardinality({log[s][i] : i \in DOMAIN log[s]}) + excused[s]

\* The abstract feed, with its newest announcement for that of the heartbeat.
Feed == INSTANCE FactFeed
        WITH Sources <- Sources, MaxReading <- MaxReading, log <- log, told <- told

(* The collection implements the feed: rows are stored in the order of the   *)
(* readings, and no success reaches the heartbeat for a reading that is not  *)
(* stored, however polls, failures and restarts fall.                        *)
ImplementsFeed == Feed!FeedSpec

(* Every source catches up: once the program stays up, the source answers    *)
(* and no insertion hangs, what it shows last is stored in the end, though   *)
(* polls and insertions fail in between.                                     *)
ReadingsArrive ==
  \A s \in Sources :
    <>[](up /\ answers[s] /\ pc[s] # "hung" /\ market[s] = MaxReading) => <>[](Feed!Newest(log[s]) = market[s])

(* A source that stops succeeding is reported, whether it no longer answers  *)
(* or its own goroutine is stuck in an insertion: its heartbeat passes the   *)
(* threshold of the rule.                                                    *)
SilenceReported ==
  \A s \in Sources : <>[](up /\ pc[s] # "record") => <>[](beat[s] > Windows)
=============================================================================
