------------------------------ MODULE MCServer ------------------------------
(***************************************************************************)
(* The other half of the program for model checking: how it comes up, the  *)
(* mirror to a test network, the settlement loop, the language of the      *)
(* rules, and what the gates and the dashboard compute from what is        *)
(* stored.  As in MCMonitor a behaviour runs one of them.                  *)
(***************************************************************************)
EXTENDS Boot, Mirror, SettleLoop, RuleLang, Measure, Replay, Evidence, Report

VARIABLE part   \* the component that runs

svars == <<part, wvars, rvars, lvars, langvars, measvars, replayvars, evidencevars, reportvars>>

-----------------------------------------------------------------------------
(* Conditions like those of defaults.go, as texts and as they are to be parsed. *)

EH == <<Sign("binance_earn"), Sign("USDT_H")>>
EL == <<Sign("binance_earn"), Sign("USDT_L")>>
In(e) == <<Sign("("), e[1], Sign(","), e[2], Sign(")")>>
Avg(n, u) == Agg("avg", n, u)

TrxText == <<Avg(24, "h"), Sign(">"), Num(0), Sign("&&"), Shifted(Avg(48, "h"), 24, "h"), Sign("<="), Num(0)>>
ChgText == <<Agg("chg", 24, "h"), Sign(">="), Num(4), Sign("||"), Agg("chg", 24, "h"), Sign("<="), Num(-4)>>
LadderText == <<Avg(2, "d")>> \o In(EH) \o <<Sign(">"), Num(3), Sign("*"), Avg(2, "d")>> \o In(EL)
LowText == <<Agg("last", 24, "h"), Sign("<"), Agg("p25", 3, "d")>>
Good == {TrxText, ChgText, LadderText, LowText}

\* Their texts with one token missing, repeated elsewhere or in the place of another, or with a shift
\* of an aggregate or by itself.
Edited(t) ==
  {RemoveAt(t, i) : i \in DOMAIN t} \cup {InsertAt(t, i, t[j]) : i, j \in DOMAIN t}
  \cup {ReplaceAt(t, i, t[j]) : i, j \in DOMAIN t}
  \cup {InsertAt(t, i, Shift(1, "d")) : i \in DOMAIN t}
  \cup {ReplaceAt(t, i, Shifted(t[i], 1, "d")) : i \in {i \in DOMAIN t : t[i].sign = "agg"}}
MCTexts == Good \cup UNION {Edited(t) : t \in Good}

Over(agg, mult, days, back, of) == [kind |-> agg, mult |-> mult, window |-> days * Day, offset |-> back * Day, scope |-> of]
Cmp(l, op, r) == [lhs |-> l, op |-> op, rhs |-> r]
Change == Over("chg", 1, 1, 0, <<>>)
MCConditions ==
  {<<<<Cmp(Over("avg", 1, 1, 0, <<>>), ">", Constant(0)), Cmp(Over("avg", 1, 2, 1, <<>>), "<=", Constant(0))>>>>,
   <<<<Cmp(Change, ">=", Constant(4))>>, <<Cmp(Change, "<=", Constant(-4))>>>>,
   <<<<Cmp(Over("avg", 1, 2, 0, EH), ">", Over("avg", 3, 2, 0, EL))>>>>,
   <<<<Cmp(Over("last", 1, 1, 0, <<>>), "<", Over("p25", 1, 3, 0, <<>>))>>>>,
   <<<<Cmp(Over("avg", 1, 2, 1, EH), ">", Over("avg", 3, 2, 0, EL))>>>>}

MCEntities == {EH, EL}
MCValues == {-1, 4}

\* Five days of readings of EH, low ones first.
MCHistories ==
  {<<>>} \cup {[i \in 1..5 |-> [of |-> EH, ts |-> i - 5, value |-> IF i <= k THEN -1 ELSE 4]] : k \in 1..4}

MCFundingRates == {-300, 1800, 2000}
MCAnnualRates == {-8, 230}

-----------------------------------------------------------------------------
ServerTypeOK ==
  /\ BootTypeOK /\ MirrorTypeOK /\ LoopTypeOK /\ LangTypeOK /\ MeasureTypeOK /\ ReplayTypeOK /\ EvidenceTypeOK
  /\ ReportTypeOK

\* A component that does not run stands at one of its initial states.
ServerInit ==
  /\ part \in {"boot", "mirror", "settle", "lang", "measure", "replay", "evidence", "report"}
  /\ \/ part = "boot"
     \/ part # "boot" /\ dsn = TRUE /\ simOK = TRUE /\ pg = TRUE /\ applied = <<>>
  /\ \/ part = "mirror"
     \/ part # "mirror" /\ venue = "" /\ kind = "repo"
  /\ \/ part = "lang"
     \/ part # "lang" /\ text = LowText /\ only = {} /\ facts = <<>>
  /\ \/ part = "replay"
     \/ part # "replay" /\ strategy = "other"
  /\ \/ part = "evidence"
     \/ part # "evidence" /\ sig = "by_hand"
  /\ BootInit /\ MirrorInit /\ LoopInit /\ LangInit /\ MeasureInit /\ ReplayInit /\ EvidenceInit
  /\ ReportInit

ServerNext ==
  /\ part' = part
  /\ \/ part = "boot" /\ BootNext /\ UNCHANGED <<rvars, lvars, langvars, measvars, replayvars, evidencevars, reportvars>>
     \/ part = "mirror" /\ MirrorNext /\ UNCHANGED <<wvars, lvars, langvars, measvars, replayvars, evidencevars, reportvars>>
     \/ part = "settle" /\ LoopNext /\ UNCHANGED <<wvars, rvars, langvars, measvars, replayvars, evidencevars, reportvars>>
     \/ part = "lang" /\ LangNext /\ UNCHANGED <<wvars, rvars, lvars, measvars, replayvars, evidencevars, reportvars>>
     \/ part = "measure" /\ MeasureNext /\ UNCHANGED <<wvars, rvars, lvars, langvars, replayvars, evidencevars, reportvars>>
     \/ part = "replay" /\ ReplayNext /\ UNCHANGED <<wvars, rvars, lvars, langvars, measvars, evidencevars, reportvars>>
     \/ part = "evidence" /\ EvidenceNext /\ UNCHANGED <<wvars, rvars, lvars, langvars, measvars, replayvars, reportvars>>
     \/ part = "report" /\ ReportNext /\ UNCHANGED <<wvars, rvars, lvars, langvars, measvars, replayvars, evidencevars>>

\* Nothing is owed to a component that has not been started, as the others are not.
ServerSpec ==
  /\ ServerInit /\ [][ServerNext]_svars
  /\ BootProgress /\ MirrorProgress /\ LoopProgress
=============================================================================
