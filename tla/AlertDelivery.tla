---------------------------- MODULE AlertDelivery ----------------------------
(***************************************************************************)
(* The alerter of internal/alert: a goroutine that lists the alerts not    *)
(* yet delivered, oldest first and a batch at a time, mails each one and   *)
(* marks it.  Mailing and marking are two calls, either may fail, and the  *)
(* process may die between them.                                           *)
(*                                                                         *)
(* Abstractions: an alert is its rank in (ts, id), the order it is listed  *)
(* in; rules write alerts in any order, since ts is read before the row is *)
(* inserted; how long the alerter sleeps is left out.                      *)
(***************************************************************************)
EXTENDS Naturals, FiniteSets

CONSTANTS
  MaxAlerts,   \* bound: alerts ever written
  Refused,     \* alerts the mail server never takes
  BatchSize,   \* alerts of one round
  MaxUnrecorded \* bound: mails of one alert whose delivery is not recorded

Alerts == 1..MaxAlerts

ASSUME DeliveryAssumption ==
  /\ MaxAlerts \in Nat /\ MaxUnrecorded \in Nat
  /\ BatchSize \in Nat \ {0}
  /\ Refused \subseteq Alerts

VARIABLES
  alert,      \* the row of each alert
  mails,      \* history: how often the server has taken the mail of an alert
  unrecorded, \* history: how often that went unrecorded
  smtp,       \* the mail server answers
  mailer,     \* the goroutine of the alerter
  round,      \* the alerts of the round it has still to handle
  failed      \* an alert of the round has failed

dvars == <<alert, mails, unrecorded, smtp, mailer, round, failed>>

DeliveryTypeOK ==
  /\ alert \in [Alerts -> {"none", "pending", "delivered"}]
  /\ mails \in [Alerts -> Nat] /\ unrecorded \in [Alerts -> Nat]
  /\ smtp \in BOOLEAN /\ failed \in BOOLEAN
  /\ mailer \in {"off", "disabled", "list", "send", "mark", "sleep"}
  /\ round \subseteq Alerts

DeliveryInit ==
  /\ alert = [a \in Alerts |-> "none"]
  /\ mails = [a \in Alerts |-> 0] /\ unrecorded = [a \in Alerts |-> 0]
  /\ smtp = TRUE /\ mailer = "off" /\ round = {} /\ failed = FALSE

-----------------------------------------------------------------------------
Pending == {a \in Alerts : alert[a] = "pending"}

\* PendingAlerts: the oldest of them, at most BatchSize.
Listed == {a \in Pending : Cardinality({b \in Pending : b < a}) < BatchSize}

\* The alert a round is at.
Foremost == CHOOSE a \in round : \A b \in round : a <= b

\* A rule writes an alert (InsertAlert).
Raise(a) ==
  /\ alert[a] = "none"
  /\ alert' = [alert EXCEPT ![a] = "pending"]
  /\ UNCHANGED <<mails, unrecorded, smtp, mailer, round, failed>>

\* The mail server goes down or comes back.
ServerFlips ==
  /\ smtp' = ~smtp
  /\ UNCHANGED <<alert, mails, unrecorded, mailer, round, failed>>

\* Start: without a valid configuration the alerter is not started until the next boot.
StartAlerter ==
  /\ mailer = "off" /\ mailer' \in {"list", "disabled"}
  /\ UNCHANGED <<alert, mails, unrecorded, smtp, round, failed>>

\* The process ends.
StopAlerter ==
  /\ mailer # "off" /\ mailer' = "off"
  /\ unrecorded' = IF mailer = "mark" THEN [unrecorded EXCEPT ![Foremost] = @ + 1] ELSE unrecorded
  /\ mailer = "mark" => unrecorded[Foremost] < MaxUnrecorded
  /\ round' = {} /\ failed' = FALSE
  /\ UNCHANGED <<alert, mails, smtp>>

\* sendRound begins; with nothing to send the round is over.
List ==
  /\ mailer = "list"
  /\ round' = Listed /\ failed' = FALSE
  /\ mailer' = IF Listed = {} THEN "sleep" ELSE "send"
  /\ UNCHANGED <<alert, mails, unrecorded, smtp>>

ListFails ==
  /\ mailer = "list" /\ mailer' = "sleep"
  /\ UNCHANGED <<alert, mails, unrecorded, smtp, round, failed>>

\* The round goes on without its head; at its end it sleeps if anything failed.
Skip(fails) ==
  /\ round' = round \ {Foremost}
  /\ failed' = (failed \/ fails)
  /\ mailer' = IF round' # {} THEN "send" ELSE IF failed' THEN "sleep" ELSE "list"

\* sendMail succeeds.
Send ==
  /\ mailer = "send" /\ smtp /\ Foremost \notin Refused
  /\ mails' = [mails EXCEPT ![Foremost] = @ + 1]
  /\ mailer' = "mark"
  /\ UNCHANGED <<alert, unrecorded, smtp, round, failed>>

\* Bug: a failure ends the round.
SendFailsBreaks ==
  /\ mailer = "send" /\ mailer' = "sleep"
  /\ round' = {} /\ failed' = TRUE
  /\ UNCHANGED <<alert, mails, unrecorded, smtp>>

\* sendMail fails and the server has not taken the mail.
SendFails ==
  /\ mailer = "send" /\ Skip(TRUE)
  /\ UNCHANGED <<alert, mails, unrecorded, smtp>>

\* sendMail fails after the server took the mail: the answer to DATA or to QUIT is lost.
SendUnsure ==
  /\ mailer = "send" /\ smtp /\ Foremost \notin Refused /\ unrecorded[Foremost] < MaxUnrecorded
  /\ mails' = [mails EXCEPT ![Foremost] = @ + 1]
  /\ unrecorded' = [unrecorded EXCEPT ![Foremost] = @ + 1]
  /\ Skip(TRUE)
  /\ UNCHANGED <<alert, smtp>>

\* Bug: all alerts of the round are marked with the first one that was sent.
MarkRound ==
  /\ mailer = "mark"
  /\ alert' = [a \in Alerts |-> IF a \in round THEN "delivered" ELSE alert[a]]
  /\ Skip(FALSE)
  /\ UNCHANGED <<mails, unrecorded, smtp>>

\* MarkAlertDelivered succeeds.
Mark ==
  /\ mailer = "mark"
  /\ alert' = [alert EXCEPT ![Foremost] = "delivered"]
  /\ Skip(FALSE)
  /\ UNCHANGED <<mails, unrecorded, smtp>>

\* MarkAlertDelivered fails: the mail will be sent again.
MarkFails ==
  /\ mailer = "mark" /\ unrecorded[Foremost] < MaxUnrecorded
  /\ unrecorded' = [unrecorded EXCEPT ![Foremost] = @ + 1]
  /\ Skip(TRUE)
  /\ UNCHANGED <<alert, mails, smtp>>

WakeAlerter ==
  /\ mailer = "sleep" /\ mailer' = "list"
  /\ UNCHANGED <<alert, mails, unrecorded, smtp, round, failed>>

DeliveryNext ==
  \/ \E a \in Alerts : Raise(a)
  \/ ServerFlips \/ StartAlerter \/ StopAlerter
  \/ List \/ ListFails \/ Send \/ SendFails \/ SendUnsure \/ Mark \/ MarkFails \/ WakeAlerter

DeliverySpec == DeliveryInit /\ [][DeliveryNext]_dvars

\* The goroutine is scheduled and its sleeps end.
DeliveryProgress ==
  /\ WF_dvars(List \/ ListFails) /\ WF_dvars(Send \/ SendFails) /\ WF_dvars(Mark \/ MarkFails)
  /\ WF_dvars(WakeAlerter)

-----------------------------------------------------------------------------
(* Properties. *)

\* The alert is mailed and about to be marked.
Marking(a) == mailer = "mark" /\ a = Foremost

\* A round only holds alerts that are still pending, and the goroutine is in one or not.
RoundIsFresh ==
  /\ round \subseteq Pending
  /\ mailer \in {"send", "mark"} <=> round # {}

\* Beyond the mail that is on record each one goes back to a fault.
MailsCounted ==
  \A a \in Alerts :
    /\ alert[a] = "none" => mails[a] = 0
    /\ mails[a] = unrecorded[a] + (IF alert[a] = "delivered" \/ Marking(a) THEN 1 ELSE 0)

(* At-least-once, and duplicates only from faults: an alert marked delivered *)
(* was mailed, what a round mails is not yet delivered, and beyond one mail  *)
(* each further one goes back to a lost answer, a failed mark or a restart   *)
(* between mail and mark.                                                    *)
MailsAccounted == RoundIsFresh /\ MailsCounted

\* The program stays up with a configuration and the mail server stays up.
Calm == smtp /\ mailer \notin {"off", "disabled"}

(* Every alert the server does not refuse is delivered once the program and  *)
(* the server stay up, although those refused fail in every round: as long   *)
(* as they do not fill a batch, they hold up nobody.                         *)
AllDelivered ==
  <>[]Calm => \A a \in Alerts \ Refused : alert[a] = "pending" ~> alert[a] = "delivered"
=============================================================================
