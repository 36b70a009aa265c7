------------------------------ MODULE MCTrade ------------------------------
(***************************************************************************)
(* The ledger and the sessions that work on it, for model checking.  A     *)
(* behaviour runs either the atomic operations, on two orders at two       *)
(* prices and two capitals, or the statements of the sessions, on one      *)
(* order at one price, scheduled as in LiveSpec.                           *)
(***************************************************************************)
EXTENDS SimTx

VARIABLE part   \* what runs

tradevars == <<part, txvars>>

MCFundingAdds == {-1, 2}   \* funding may be paid or earned
OneOrder == CHOOSE o \in Orders : TRUE
OnePrice == CHOOSE p \in Prices : TRUE
OneCapital == CHOOSE c \in Capitals : TRUE
OneAdd == CHOOSE a \in FundingAdds : a > 0

\* The sessions stay within one order, one price, one capital and one funding amount.
OneOfEach ==
  /\ \A o \in Orders \ {OneOrder} : order'[o].st = "none"
  /\ \A k \in Kinds : price'[k] \in {OnePrice, NoPrice}
  /\ acct'.ins > 0 => acct'.funded = OneCapital
  /\ \A s \in Sessions : ses'[s].add \in {OneAdd, 0}

\* The orders of the ledger are interchangeable: a repo comes before a carry_asset and
\* that before a funding_hedge.
InTurn ==
  \A o \in Orders \ {OneOrder} : order'[o].st # "none" =>
    \/ order'[OneOrder].kind \in {"repo", order'[o].kind}
    \/ order'[OneOrder].kind = "carry_asset" /\ order'[o].kind = "funding_hedge"

TradeInit == part \in {"ledger", "sessions"} /\ TxInit
TradeNext ==
  /\ part' = part
  /\ \/ part = "ledger" /\ Next /\ InTurn /\ UNCHANGED <<up, list, ses>>
     \/ part = "sessions" /\ TxNext /\ OneOfEach
TradeSpec ==
  /\ TradeInit /\ [][TradeNext]_tradevars
  /\ \A s \in Sessions : SF_txvars(Step(s)) /\ WF_txvars(DeadlockVictim(s))
=============================================================================
