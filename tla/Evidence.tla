------------------------------ MODULE Evidence ------------------------------
(***************************************************************************)
(* What the dashboard tells of the facts of the last 30 days: the cards    *)
(* of opportunities, the insights, and the evidence by which an entry of   *)
(* the knowledge base is reviewed (dashboard/oppcalc.go, insights.go and   *)
(* knowledge.go, internal/knowledge, and the queries they make).           *)
(*                                                                         *)
(* Abstractions: one symbol on several venues; rates in hundredths of a    *)
(* percent; all that is told is a verdict, its texts are left out; a mean  *)
(* is kept as a sum and a number.                                          *)
(***************************************************************************)
EXTENDS Integers, Sequences, FiniteSets, SequencesExt

CONSTANTS
  FundingVenues, DefiVenues, RepoVenues,   \* where there are facts of a kind
  FundingRates, DefiRates, RepoRates,      \* and what they may be
  HedgeCost,     \* oppFriction over 30 days, per year
  StableBase,    \* stableBasePct
  EntryRate,     \* fundingWindowEntryPct
  MinSpread,     \* minCrossVenueSpread
  ReviewStatuses, \* those that a review gives (active, superseded, retracted)
  DefaultLimit,  \* rows of a query without a limit
  MaxRows        \* bound: facts within the 30 days

ASSUME EvidenceAssumption ==
  /\ DefaultLimit \in Nat \ {0} /\ MaxRows \in Nat
  /\ FundingRates \cup DefiRates \cup RepoRates \cup {HedgeCost, StableBase, EntryRate, MinSpread} \subseteq Int

\* Signatures of entries: one has no detector.
Signatures == {"spike_trap", "cross_venue", "single_pool", "by_hand"}

VARIABLES
  sig,     \* the signature of the entry
  told,    \* the facts of the last 30 days of the kind that it is about, oldest first
  fresh,   \* how many of them, the newest ones, are of the last day
  newest,  \* of each venue the newest fact there is, 30 days old or not
  recent,  \* an order of the last 7 days that is not rejected
  entry,   \* its row of knowledge_entries
  reviewed \* history: what its reviews said and saw

evidencevars == <<sig, told, fresh, newest, recent, entry, reviewed>>

Kind == CASE sig \in {"spike_trap", "cross_venue"} -> "funding"
          [] sig = "single_pool" -> "defi_rate" [] sig = "by_hand" -> "reverse_repo"
VenuesOf == CASE Kind = "funding" -> FundingVenues [] Kind = "defi_rate" -> DefiVenues [] OTHER -> RepoVenues
RatesOf == CASE Kind = "funding" -> FundingRates [] Kind = "defi_rate" -> DefiRates [] OTHER -> RepoRates
AllVenues == FundingVenues \cup DefiVenues \cup RepoVenues
AllRates == FundingRates \cup DefiRates \cup RepoRates

NoRate == <<>>
NoEntry == [present |-> FALSE, status |-> "active", validated |-> FALSE, direction |-> ""]
Nothing == [status |-> "active", direction |-> "", any |-> FALSE]

EvidenceTypeOK ==
  /\ sig \in Signatures /\ told \in Seq([of : AllVenues, rate : AllRates]) /\ fresh \in 0..Len(told)
  /\ newest \in [AllVenues -> {NoRate} \cup {<<r>> : r \in AllRates}] /\ recent \in BOOLEAN
  /\ entry \in [present : BOOLEAN, status : {"active"} \cup ReviewStatuses, validated : BOOLEAN, direction : {"", "hit", "miss"}]
  /\ reviewed \in [status : {"active"} \cup ReviewStatuses, direction : {"", "hit", "miss"}, any : BOOLEAN]

EvidenceInit ==
  /\ sig \in Signatures /\ told = <<>> /\ fresh = 0 /\ newest = [v \in AllVenues |-> NoRate]
  /\ recent = FALSE /\ entry = NoEntry /\ reviewed = Nothing

-----------------------------------------------------------------------------
(* The data: QueryFacts without a limit, and what is made of its rows. *)

\* The oldest rows come first, and the limit cuts the others off.
Asked(rows) == IF Len(rows) > DefaultLimit THEN SubSeq(rows, 1, DefaultLimit) ELSE rows
Month == Asked(told)
LastDay == Asked(SubSeq(told, Len(told) - fresh + 1, Len(told)))

RowsOf(rows, v) == {i \in DOMAIN rows : rows[i].of = v}
Having(rows) == {v \in VenuesOf : RowsOf(rows, v) # {}}

\* latestByVenueSymbol and fundingLatestAvg: the last value of a venue stays, and its values add up.
LastOf(rows, v) == rows[Max(RowsOf(rows, v))].rate
SumOf(rows, v) == SumFunctionOnSet([i \in DOMAIN rows |-> rows[i].rate], RowsOf(rows, v))
CountOf(rows, v) == Cardinality(RowsOf(rows, v))

-----------------------------------------------------------------------------
(* oppcalc.go: the card of a venue. *)

\* ratingFor, of a mean and a net rate in n parts; without a mean nothing but the rate counts.
RatingFor(rate, sum, n, net) ==
  IF rate <= 0 \/ (n > 0 /\ net <= 0) THEN "trap"
  ELSE IF n > 0 /\ sum > 0 /\ rate * n > 2 * sum THEN "trap"
  ELSE IF n > 0 /\ net > StableBase * n THEN "grab"
  ELSE "breakeven"

\* fundingCard, carryCard and repoCard: there is none without a fact; a repo is what it is today.
Card(v) ==
  LET sum == SumOf(Month, v)
      n == CountOf(Month, v)
      rate == Head(newest[v])
  IN  IF newest[v] = NoRate THEN "no_card"
      ELSE CASE Kind = "funding" -> RatingFor(rate, sum, n, sum - HedgeCost * n)
             [] Kind = "defi_rate" -> RatingFor(rate, sum, n, sum)
             [] Kind = "reverse_repo" -> IF rate <= 0 THEN "trap" ELSE IF rate > StableBase THEN "grab" ELSE "breakeven"

\* oppCards: the cards of a kind.
OppCards == {<<v, Card(v)>> : v \in {w \in VenuesOf : newest[w] # NoRate}}

-----------------------------------------------------------------------------
(* internal/knowledge: the detectors, over the last values of the venues. *)

FundingSpikeTrap(rows, v) ==
  /\ SumOf(rows, v) > 0 /\ LastOf(rows, v) > 0
  /\ LastOf(rows, v) * CountOf(rows, v) > 2 * SumOf(rows, v)

\* Twice the median of a sequence of rates.
MedianTwice(rates) ==
  LET s == SortSeq(rates, LAMBDA a, b : a < b)
      n == Len(s)
  IN  s[(n + 1) \div 2] + s[n \div 2 + 1]

\* DefiPoolSpikes, and defiAnomalies, which has its own code for it: far over the median of 3 or more.
PoolSpikes(rows) ==
  LET pools == SetToSeq(Having(rows))
      twice == MedianTwice([i \in DOMAIN pools |-> LastOf(rows, pools[i])])
  IN  IF Len(pools) < 3 THEN {} ELSE IF twice <= 0 THEN {} ELSE {v \in Having(rows) : LastOf(rows, v) > twice}

Spread(rows) ==
  LET gaps == {LastOf(rows, v) - LastOf(rows, w) : v, w \in Having(rows)}
  IN  CHOOSE g \in gaps : \A h \in gaps : h <= g

CrossVenueDivergence(rows) == Cardinality(Having(rows)) >= 2 /\ Spread(rows) >= MinSpread

-----------------------------------------------------------------------------
(* insights.go and knowledge.go. *)

\* noOrderHint: no order in 7 days, and every rate of the last day below that of entry.
NoOrderHint ==
  /\ Kind = "funding" /\ ~recent /\ Having(LastDay) # {}
  /\ \A v \in Having(LastDay) : LastOf(LastDay, v) < EntryRate

\* knowledgeMatches: what matches an entry, of whatever status.
Matches ==
  IF ~entry.present THEN {}
  ELSE CASE sig = "spike_trap" -> {v \in Having(Month) : FundingSpikeTrap(Month, v)}
         [] sig = "single_pool" -> PoolSpikes(Month)
         [] sig = "cross_venue" -> IF CrossVenueDivergence(Month) THEN Having(Month) ELSE {}
         [] OTHER -> {}

\* ListInsights: what it tells of the rates.
ListInsights == [hint |-> NoOrderHint, matches |-> Matches]

\* The evidence on each signature: unknown without data.
SpikeEvidence ==
  IF Having(Month) = {} THEN "unknown"
  ELSE IF \E v \in Having(Month) : FundingSpikeTrap(Month, v) THEN "hit" ELSE "miss"

DefiEvidence ==
  IF Having(Month) = {} THEN "unknown" ELSE IF PoolSpikes(Month) # {} THEN "hit" ELSE "miss"

\* "panic" as no spread is over 0, so that there is no largest one to show.
CrossVenueEvidence ==
  IF Cardinality(Having(Month)) < 2 THEN "unknown"
  ELSE IF CrossVenueDivergence(Month) THEN "hit" ELSE IF Spread(Month) > 0 THEN "miss" ELSE "panic"

\* knowledgeEvidence.
EvidenceNow ==
  CASE sig = "spike_trap" -> SpikeEvidence
    [] sig = "single_pool" -> DefiEvidence
    [] sig = "cross_venue" -> CrossVenueEvidence
    [] OTHER -> "unknown"

\* recheckNeeded.
RecheckNeeded(now) == entry.validated /\ entry.direction # "" /\ now \in {"hit", "miss"} /\ now # entry.direction

\* ListKnowledgeEntries: the entry with its evidence.
ListedEntry == LET now == EvidenceNow IN [evidence |-> now, recheck |-> RecheckNeeded(now)]

-----------------------------------------------------------------------------
RecordFact(v, r) ==
  /\ Len(told) < MaxRows
  /\ told' = Append(told, [of |-> v, rate |-> r]) /\ fresh' = fresh + 1 /\ newest' = [newest EXCEPT ![v] = <<r>>]
  /\ UNCHANGED <<sig, recent, entry, reviewed>>

\* A fact becomes older than a day, or than 30 days.
AgeDay == /\ fresh > 0 /\ fresh' = fresh - 1 /\ UNCHANGED <<sig, told, newest, recent, entry, reviewed>>
AgeMonth ==
  /\ Len(told) > fresh /\ told' = Tail(told)
  /\ UNCHANGED <<sig, fresh, newest, recent, entry, reviewed>>

\* An order is made, or the last one is 7 days old, of which only a hint on funding tells.
OrderComesOrAges == Kind = "funding" /\ recent' = ~recent /\ UNCHANGED <<sig, told, fresh, newest, entry, reviewed>>

\* Bug: the seed wins.
SeedEntryOver ==
  /\ entry' = [NoEntry EXCEPT !.present = TRUE]
  /\ UNCHANGED <<sig, told, fresh, newest, recent, reviewed>>

\* seedKnowledge, at each start: UpsertKnowledgeEntry leaves a row as it is.
SeedEntry ==
  /\ entry' = IF entry.present THEN entry ELSE [NoEntry EXCEPT !.present = TRUE]
  /\ UNCHANGED <<sig, told, fresh, newest, recent, reviewed>>

\* ReviewKnowledgeEntry: the direction stays if there is none now, or the query failed.
Review(st) ==
  LET now == EvidenceNow
  IN  /\ entry.present /\ now # "panic"
      /\ \E dir \in {now, "failed"} :
           LET says == IF dir \in {"hit", "miss"} THEN dir ELSE ""
               then(old) == IF says = "" THEN old ELSE says
           IN  /\ entry' = [entry EXCEPT !.status = st, !.validated = TRUE, !.direction = then(@)]
               /\ reviewed' = [status |-> st, direction |-> then(reviewed.direction), any |-> TRUE]
      /\ UNCHANGED <<sig, told, fresh, newest, recent>>

EvidenceNext ==
  \/ \E v \in VenuesOf, r \in RatesOf : RecordFact(v, r)
  \/ AgeDay \/ AgeMonth \/ OrderComesOrAges \/ SeedEntry
  \/ \E st \in ReviewStatuses : Review(st)

EvidenceSpec == EvidenceInit /\ [][EvidenceNext]_evidencevars

-----------------------------------------------------------------------------
(* Properties. *)

(* The ways in which the dashboard judges the same facts agree: what a card  *)
(* calls worth taking is no spike, a hint that nothing is near entry is not  *)
(* given while a rate of the day is, and what an insight matches is what a   *)
(* review sees.  An entry is marked for another review just when the facts   *)
(* now say the opposite of the last review that could see either, and        *)
(* neither a restart nor a review without data undoes that.                  *)
EvidenceAgrees ==
  /\ \A v \in Having(Month) :
       (Kind = "funding" /\ Len(told) <= DefaultLimit /\ <<v, "grab">> \in OppCards) => ~FundingSpikeTrap(told, v)
  /\ Len(told) <= DefaultLimit /\ ListInsights.hint =>
       \A i \in (Len(told) - fresh + 1)..Len(told) : Head(newest[told[i].of]) < EntryRate
  /\ ListInsights.matches # {} => ListedEntry.evidence = "hit"
  /\ reviewed.any => entry.status = reviewed.status /\ entry.validated
  /\ ListedEntry.recheck <=>
       (reviewed.any /\ <<reviewed.direction, ListedEntry.evidence>> \in {<<"hit", "miss">>, <<"miss", "hit">>})

(* insights.go and knowledge.go: the last row of a venue in a query is its   *)
(* newest fact.                                                              *)
NewestShown ==
  /\ \A v \in Having(Month) : <<LastOf(Month, v)>> = newest[v]
  /\ \A v \in Having(LastDay) : <<LastOf(LastDay, v)>> = newest[v]
=============================================================================
