----------------------------- MODULE MCMonitor -----------------------------
(***************************************************************************)
(* The monitoring half of the program for model checking: collection,      *)
(* alert delivery, exporter, history backfill and live quotes.  They share *)
(* no state that these models keep, so that a behaviour runs one of them   *)
(* and the checks cover each of them alone instead of their product.       *)
(***************************************************************************)
EXTENDS Collect, AlertDelivery, Exporter, Backfill, Quotes

VARIABLE part   \* the component that runs

mvars == <<part, cvars, dvars, xvars, bvars, qvars>>

MonitorTypeOK ==
  /\ CollectTypeOK /\ DeliveryTypeOK /\ ExporterTypeOK /\ BackfillTypeOK /\ QuotesTypeOK

MonitorInit ==
  /\ part \in {"collect", "deliver", "export", "backfill", "quote"}
  /\ CollectInit /\ DeliveryInit /\ ExporterInit /\ BackfillInit /\ QuotesInit

MonitorNext ==
  /\ part' = part
  /\ \/ part = "collect" /\ CollectNext /\ UNCHANGED <<dvars, xvars, bvars, qvars>>
     \/ part = "deliver" /\ DeliveryNext /\ UNCHANGED <<cvars, xvars, bvars, qvars>>
     \/ part = "export" /\ ExporterNext /\ UNCHANGED <<cvars, dvars, bvars, qvars>>
     \/ part = "backfill" /\ BackfillNext /\ UNCHANGED <<cvars, dvars, xvars, qvars>>
     \/ part = "quote" /\ QuotesNext /\ UNCHANGED <<cvars, dvars, xvars, bvars>>

\* A step of the program that is one of action A.
Steps(A) == MonitorNext /\ A

(* What is tried again and again does not fail, or break off, every time: the polls and the  *)
(* insertions, the listing and the mailing of alerts, the three parts of an export and the   *)
(* choice of the daily tick by its select, the dial, the frames of the exchange and their    *)
(* reading, and the push to the browser.  As one component runs, an action of each of them   *)
(* can share a conjunct.                                                                     *)
Persistence ==
  /\ SF_mvars(Steps(ReadFacts \/ List \/ Dial \/ \E s \in Sources : Poll(s)))
  /\ SF_mvars(Steps(ReadFile \/ Send \/ SendFrame \/ \E s \in Sources : Sink(s)))
  /\ SF_mvars(Steps(WriteFile \/ (ReadFrame /\ Head(wire) # 0)))
  /\ SF_mvars(Steps(SelectDue \/ Push))

\* Nothing is owed to a component that has not been started, as the others are not.
MonitorSpec ==
  /\ MonitorInit /\ [][MonitorNext]_mvars
  /\ CollectProgress /\ DeliveryProgress /\ ExporterProgress /\ QuotesProgress
  /\ Persistence
=============================================================================
