------------------------------ MODULE Exporter ------------------------------
(***************************************************************************)
(* The facts exporter of internal/exporter: a goroutine that renders the   *)
(* latest facts into its section of facts.md at boot, once a day, and when *)
(* a rule becomes active, unless the last export was less than             *)
(* ruleTriggerThrottle ago.  Others edit the same file.                    *)
(*                                                                         *)
(* Abstractions: the facts are a version number; the file is the lines     *)
(* before and after the section and the snapshots in it, each with the     *)
(* lines of others caught behind it; a time is only kept as the time since *)
(* the last export, up to the throttle.                                    *)
(***************************************************************************)
EXTENDS Naturals, Sequences

CONSTANTS
  Lines,         \* the lines others write into the file
  MaxSnapshots,  \* snapshots the section keeps
  Throttle,      \* ruleTriggerThrottle, in ticks
  MaxFacts,      \* bound: versions of the facts
  MayDamage      \* whether someone may remove the end marker

ASSUME ExporterAssumption ==
  MaxSnapshots \in Nat \ {0} /\ Throttle \in Nat /\ MaxFacts \in Nat /\ MayDamage \in BOOLEAN

VARIABLES
  facts,     \* version of the facts stored
  file,      \* facts.md: the lines before and after the section, its snapshots, whether it ends
  trigger,   \* the trigger channel holds its one event
  due,       \* the channel of the daily ticker holds its one tick
  since,       \* time since lastExportAt, Throttle standing for that and more
  at,        \* the goroutine
  seen,      \* the facts its export has read
  base,      \* the file its export has read
  raced,     \* history: lines written between the reading and the renaming of an export
  damaged    \* history: the end marker was removed

xvars == <<facts, file, trigger, due, since, at, seen, base, raced, damaged>>

Empty == [head |-> {}, snaps |-> <<>>, tail |-> {}, open |-> FALSE]

Snapshot(v) == [v |-> v, current |-> TRUE, lines |-> {}]

Snapshots == [v : 0..MaxFacts, current : BOOLEAN, lines : SUBSET Lines]

Files == [head : SUBSET Lines, snaps : Seq(Snapshots), tail : SUBSET Lines, open : BOOLEAN]

ExporterTypeOK ==
  /\ facts \in 0..MaxFacts /\ seen \in 0..MaxFacts /\ since \in 0..Throttle
  /\ file \in Files /\ base \in Files
  /\ trigger \in BOOLEAN /\ due \in BOOLEAN /\ damaged \in BOOLEAN
  /\ at \in {"off", "select", "facts", "file", "write"}
  /\ raced \subseteq Lines

ExporterInit ==
  /\ facts = 0 /\ file = Empty /\ trigger = FALSE /\ due = FALSE /\ since = Throttle
  /\ at = "off" /\ seen = 0 /\ base = Empty /\ raced = {} /\ damaged = FALSE

-----------------------------------------------------------------------------
(* writeSection. *)

\* The first snapshot marked current is marked expired.
Expired(snaps) ==
  [i \in DOMAIN snaps |->
     [snaps[i] EXCEPT !.current = @ /\ \E j \in 1..(i - 1) : snaps[j].current]]

\* Bug: one snapshot too many is kept.
TruncatedLate(snaps) ==
  IF Len(snaps) > MaxSnapshots + 1 THEN SubSeq(snaps, 1, MaxSnapshots + 1) ELSE snaps

\* truncateSnapshots: all of the section from snapshot number MaxSnapshots + 1 on goes.
Truncated(snaps) ==
  IF Len(snaps) > MaxSnapshots THEN SubSeq(snaps, 1, MaxSnapshots) ELSE snaps

\* appendSection, with no section in the file: what it held comes before the new section.
Appended(doc, v) ==
  [doc EXCEPT !.head = @ \cup doc.tail, !.tail = {}, !.snaps = <<Snapshot(v)>>]

\* appendSection behind a section that has lost its end marker: the next marker is that
\* of the new section, and what lies between belongs to the last snapshot of the old one.
Swallowed(doc, v) ==
  LET caught == [doc.snaps EXCEPT ![Len(doc.snaps)].lines = @ \cup doc.tail]
  IN [doc EXCEPT !.snaps = Append(caught, Snapshot(v)), !.tail = {}, !.open = FALSE]

\* Bug: what follows the section is dropped.
ReplacedCut(doc, v) ==
  [doc EXCEPT !.snaps = Truncated(<<Snapshot(v)>> \o Expired(@)), !.tail = {}]

\* The section replaced; sectionHeader and stripSectionHeader keep its head in its place.
Replaced(doc, v) ==
  [doc EXCEPT !.snaps = Truncated(<<Snapshot(v)>> \o Expired(@))]

Rendered(doc, v) ==
  IF doc.snaps = <<>> THEN Appended(doc, v)
  ELSE IF doc.open THEN Swallowed(doc, v)
  ELSE Replaced(doc, v)

-----------------------------------------------------------------------------
(* The world around the exporter. *)

\* Facts are collected.
FactsCollected ==
  /\ facts < MaxFacts /\ facts' = facts + 1
  /\ UNCHANGED <<file, trigger, due, since, at, seen, base, raced, damaged>>

\* OnRuleActive never blocks: an event that finds another in the channel merges with it.
OnRuleActive ==
  /\ at # "off" /\ trigger' = TRUE
  /\ UNCHANGED <<facts, file, due, since, at, seen, base, raced, damaged>>

\* Time passes; the day may end.
TimePasses ==
  /\ at # "off"
  /\ since' = IF since < Throttle THEN since + 1 ELSE since
  /\ due' \in {due, TRUE}
  /\ UNCHANGED <<facts, file, trigger, at, seen, base, raced, damaged>>

Written(l) ==
  l \in file.head \cup file.tail \cup UNION {file.snaps[i].lines : i \in DOMAIN file.snaps}

\* Someone writes a line at the head or at the end of the file.
EditFile(l) ==
  /\ ~Written(l) /\ l \notin raced
  /\ file' \in {[file EXCEPT !.head = @ \cup {l}], [file EXCEPT !.tail = @ \cup {l}]}
  /\ raced' = IF at = "write" THEN raced \cup {l} ELSE raced
  /\ UNCHANGED <<facts, trigger, due, since, at, seen, base, damaged>>

\* Someone removes the end marker.
Damage ==
  /\ MayDamage /\ ~damaged /\ file.snaps # <<>>
  /\ file' = [file EXCEPT !.open = TRUE] /\ damaged' = TRUE
  /\ UNCHANGED <<facts, trigger, due, since, at, seen, base, raced>>

-----------------------------------------------------------------------------
(* The goroutine. *)

\* Run: a ticker, and the export of the boot; nothing is remembered of an earlier run.
StartExporter ==
  /\ at = "off" /\ at' = "facts"
  /\ trigger' = FALSE /\ due' = FALSE /\ since' = Throttle
  /\ UNCHANGED <<facts, file, seen, base, raced, damaged>>

\* The process ends; an unfinished export leaves the file as it was.
StopExporter ==
  /\ at # "off" /\ at' = "off" /\ seen' = 0 /\ base' = Empty
  /\ UNCHANGED <<facts, file, trigger, due, since, raced, damaged>>

\* Bug: a tick that finds an event in the trigger channel leaves the export to it.
SelectDueYields ==
  /\ at = "select" /\ due /\ due' = FALSE /\ at' = IF trigger THEN "select" ELSE "facts"
  /\ UNCHANGED <<facts, file, trigger, since, seen, base, raced, damaged>>

\* The daily tick is taken.
SelectDue ==
  /\ at = "select" /\ due /\ due' = FALSE /\ at' = "facts"
  /\ UNCHANGED <<facts, file, trigger, since, seen, base, raced, damaged>>

\* A trigger is taken, and dropped if the last export is too recent.
SelectTrigger ==
  /\ at = "select" /\ trigger /\ trigger' = FALSE
  /\ at' = IF since < Throttle THEN "select" ELSE "facts"
  /\ UNCHANGED <<facts, file, due, since, seen, base, raced, damaged>>

\* Export reads the latest facts and renders them.
ReadFacts ==
  /\ at = "facts" /\ at' = "file" /\ seen' = facts
  /\ UNCHANGED <<facts, file, trigger, due, since, base, raced, damaged>>

ReadFile ==
  /\ at = "file" /\ at' = "write" /\ base' = file
  /\ UNCHANGED <<facts, file, trigger, due, since, seen, raced, damaged>>

\* atomicWrite; only a successful export restarts the throttle.
WriteFile ==
  /\ at = "write" /\ at' = "select"
  /\ file' = Rendered(base, seen)
  /\ since' = 0 /\ base' = Empty /\ seen' = 0
  /\ UNCHANGED <<facts, trigger, due, raced, damaged>>

\* A query, the reading or the writing of the file fails: Run only warns.
ExportFails ==
  /\ at \in {"facts", "file", "write"} /\ at' = "select"
  /\ base' = Empty /\ seen' = 0
  /\ UNCHANGED <<facts, file, trigger, due, since, raced, damaged>>

ExporterNext ==
  \/ FactsCollected \/ OnRuleActive \/ TimePasses \/ Damage \/ \E l \in Lines : EditFile(l)
  \/ StartExporter \/ StopExporter \/ SelectDue \/ SelectTrigger
  \/ ReadFacts \/ ReadFile \/ WriteFile \/ ExportFails

ExporterSpec == ExporterInit /\ [][ExporterNext]_xvars

\* Days end; what becomes of an export is left to the strong fairness of a run.
ExporterProgress == WF_xvars(TimePasses /\ due')

-----------------------------------------------------------------------------
(* Properties. *)

(* As long as nobody damages the markers the section holds at most           *)
(* MaxSnapshots snapshots, newest first, of which only the newest is marked  *)
(* current.                                                                  *)
SectionInOrder ==
  ~damaged =>
    /\ Len(file.snaps) <= MaxSnapshots
    /\ \A i \in DOMAIN file.snaps :
         /\ file.snaps[i].current <=> i = 1
         /\ i > 1 => file.snaps[i].v <= file.snaps[i - 1].v

(* No export removes a line of somebody else, unless it was written while    *)
(* that export was between reading and renaming the file, or a marker was    *)
(* removed.                                                                  *)
LinesKept ==
  [][~damaged => \A l \in Lines : Written(l) => Written(l)' \/ l \in raced]_xvars

\* The file shows the facts as they are now.
Shown == file.snaps # <<>> /\ file.snaps[1].v = facts

(* The file catches up: once the program stays up, and the facts stop        *)
(* changing as they must in this model, it shows them, whatever triggers     *)
(* were throttled, merged or lost.                                           *)
CatchesUp == <>[](at # "off") => <>[]Shown
=============================================================================
