------------------------------ MODULE RuleLang ------------------------------
(***************************************************************************)
(* The language of the rules (cond.go, parse.go and the evaluation in      *)
(* engine.go of internal/rule): a condition is parsed when the engine is   *)
(* built, and evaluated over the facts of a query that reaches as far back *)
(* as the condition looks.                                                 *)
(*                                                                         *)
(* Abstractions: a token is a record, as if each were already read by      *)
(* itself; times are in minutes; rows are the positions of their facts,    *)
(* which never change; of an average only the sum and the number are kept; *)
(* the value that goes into the message of an alert is left out.           *)
(***************************************************************************)
EXTENDS Integers, Sequences, FiniteSets, FiniteSetsExt, SequencesExt, Functions

CONSTANTS
  Texts,        \* conditions as they stand in the table of the rules, of their tokens
  Running,      \* those of them that are evaluated here
  Conditions,   \* conditions, parsed, some of whose texts are among them
  Entities,     \* (venue, symbol)
  Values,       \* readings
  Histories,    \* facts there may be at first
  MaxTime,      \* bound: the clock
  Grain,        \* bound: steps of the clock
  MaxReadings,  \* bound: facts
  QueryMax      \* rows of a query (maxFacts)

AggKinds == {"avg", "last", "p25", "chg"}

(* Tokens: a number, an aggregate, or a sign or name; a shift by itself is not part of an aggregate. *)
NoAgg == [kind |-> "none", n |-> 0, unit |-> "m", offN |-> 0, offUnit |-> "m"]
Sign(s) == [sign |-> s, num |-> 0, agg |-> NoAgg]
Num(v) == [sign |-> "num", num |-> v, agg |-> NoAgg]
Agg(kind, n, unit) == [sign |-> "agg", num |-> 0, agg |-> [NoAgg EXCEPT !.kind = kind, !.n = n, !.unit = unit]]
Shifted(t, n, unit) == [t EXCEPT !.agg.offN = n, !.agg.offUnit = unit]
Shift(n, unit) == Shifted(Sign("@"), n, unit)
End == Sign("")
Tokens == {End} \cup UNION {{t[i] : i \in DOMAIN t} : t \in Texts}

\* Oldest first, and of an entity at most one at a time.
InTime(fs) ==
  \A i, j \in DOMAIN fs : i < j => fs[i].ts <= fs[j].ts /\ (fs[i].of = fs[j].of => fs[i].ts < fs[j].ts)

ASSUME RuleLangAssumption ==
  /\ \A t \in Texts : t \in Seq(Tokens) /\ \A i \in DOMAIN t : t[i] # End
  /\ \A t \in Tokens : t.num \in Int /\ t.agg.n \in Int /\ t.agg.offN \in Int
  /\ Running \subseteq Texts /\ Values \subseteq Int
  /\ MaxTime \in Nat /\ Grain \in Nat \ {0} /\ MaxReadings \in Nat /\ QueryMax \in Nat
  /\ <<>> \in Histories /\ <<>> \notin Entities
  /\ \A h \in Histories : h \in Seq([of : Entities, ts : Int, value : Int]) /\ InTime(h) /\ \A i \in DOMAIN h : h[i].ts <= 0

VARIABLES
  text,    \* the condition of the rule
  only,    \* the entities of its scope, all of them if empty
  rule,    \* the condition after parsing
  eng,     \* "new", "refused", "ready" or, within a round, "judge"
  clock,   \* time
  facts,   \* facts of its kind, oldest first
  got,     \* what the query of the round returned
  asked,   \* how many facts were stored then
  matches  \* verdict of the last round: the entities that match, the rule itself if it is scoped

langvars == <<text, only, rule, eng, clock, facts, got, asked, matches>>

-----------------------------------------------------------------------------
(* Conditions. *)

Comparisons == {">", "<", ">=", "<="}
Units == [m |-> 1, h |-> 60, d |-> 1440]
Day == 1440

\* parseDur.
Duration(n, unit) == n * Units[unit]
DurationOK(n, unit) == n > 0 /\ unit \in DOMAIN Units

\* An operand is a constant, or mult times an aggregate, of one entity if scope is not empty.
Constant(v) == [kind |-> "const", mult |-> v, window |-> 0, offset |-> 0, scope |-> <<>>]
Scoped(op) == op.kind # "const" /\ op.scope # <<>>
Implicit(op) == op.kind # "const" /\ op.scope = <<>>

\* A parser returns what it has read, the position after it, and whether it succeeded.
Parsed(v, i) == [ok |-> TRUE, val |-> v, i |-> i]
Failed == [ok |-> FALSE, val |-> <<>>, i |-> 0]

Tok(toks, i) == IF i <= Len(toks) THEN toks[i] ELSE End

\* parseAggFrom: the aggregate of token i, and the scope that may follow it.
ParseAgg(toks, i, mult) ==
  LET t == Tok(toks, i)
      a == t.agg
      op == [kind |-> a.kind, mult |-> mult, window |-> Duration(a.n, a.unit),
             offset |-> IF a.offN = 0 THEN 0 ELSE Duration(a.offN, a.offUnit), scope |-> <<>>]
  IN  IF t.sign # "agg" \/ a.kind \notin AggKinds \/ ~DurationOK(a.n, a.unit)
        \/ (a.offN # 0 /\ ~DurationOK(a.offN, a.offUnit))
      THEN Failed
      ELSE IF Tok(toks, i + 1).sign # "(" THEN Parsed(op, i + 1)
      ELSE IF Tok(toks, i + 2) = End \/ Tok(toks, i + 3).sign # "," \/ Tok(toks, i + 4) = End
                \/ Tok(toks, i + 5).sign # ")"
      THEN Failed
      ELSE Parsed([op EXCEPT !.scope = <<Tok(toks, i + 2), Tok(toks, i + 4)>>], i + 6)

ParseOperand(toks, i) ==
  IF Tok(toks, i).sign # "num" THEN ParseAgg(toks, i, 1)
  ELSE IF Tok(toks, i + 1).sign = "*" THEN ParseAgg(toks, i + 2, Tok(toks, i).num)
  ELSE Parsed(Constant(Tok(toks, i).num), i + 1)

ParseCmp(toks, i) ==
  LET l == ParseOperand(toks, i)
  IN  IF ~l.ok THEN Failed
      ELSE IF Tok(toks, l.i).sign \notin Comparisons THEN Failed
      ELSE LET r == ParseOperand(toks, l.i + 1)
           IN  IF ~r.ok THEN Failed
               ELSE Parsed([lhs |-> l.val, op |-> Tok(toks, l.i).sign, rhs |-> r.val], r.i)

\* parseAnd and parse: parts that are separated by a sign, from each token on.
ParseList(part, sign, toks) ==
  LET from[j \in 1..(Len(toks) + 1)] ==
        IF ~part[j].ok THEN Failed
        ELSE IF Tok(toks, part[j].i).sign # sign THEN Parsed(<<part[j].val>>, part[j].i)
        ELSE LET rest == from[part[j].i + 1]
             IN  IF rest.ok THEN Parsed(<<part[j].val>> \o rest.val, rest.i) ELSE Failed
  IN  from

ParseCmps(toks) == [j \in 1..(Len(toks) + 1) |-> ParseCmp(toks, j)]
ParseAnd(toks) == ParseList(ParseCmps(toks), "&&", toks)
Parse(toks) == ParseList(ParseAnd(toks), "||", toks)[1]

Comparands(cond) ==
  UNION {UNION {{cond[i][j].lhs, cond[i][j].rhs} : j \in DOMAIN cond[i]} : i \in DOMAIN cond}

\* Bug: what is left over after a condition is not looked at.
ParseCondLoosely(toks) ==
  LET c == Parse(toks)
  IN  IF ~c.ok \/ ((\E op \in Comparands(c.val) : Scoped(op)) /\ (\E op \in Comparands(c.val) : Implicit(op)))
      THEN Failed ELSE c

\* parseCond: nothing may be left over, and the aggregates are all scoped or none is.
ParseCond(toks) ==
  LET c == Parse(toks)
  IN  IF ~c.ok THEN Failed
      ELSE IF Tok(toks, c.i) # End THEN Failed
      ELSE IF (\E op \in Comparands(c.val) : Scoped(op)) /\ (\E op \in Comparands(c.val) : Implicit(op)) THEN Failed
      ELSE c

-----------------------------------------------------------------------------
(* Evaluation over a set of facts, by their positions. *)

\* A number as a quotient; what is not defined is told by ok.
Ratio(num, den) == [ok |-> TRUE, num |-> num, den |-> den]
Undefined == [ok |-> FALSE, num |-> 0, den |-> 1]

Holds(op, l, r) ==
  LET a == l.num * r.den
      b == r.num * l.den
  IN  (op = ">" /\ a > b) \/ (op = "<" /\ a < b) \/ (op = ">=" /\ a >= b) \/ (op = "<=" /\ a <= b)

\* groupByEntity and filterEntity.
OfEntity(fs, e) == {i \in fs : facts[i].of = e}

\* windowFacts: [now - w - o, now - o).
WindowFacts(fs, now, w, o) == {i \in fs : now - w - o <= facts[i].ts /\ facts[i].ts < now - o}

SumValues(fs) == SumFunctionOnSet([i \in fs |-> facts[i].value], fs)

\* The value at place k after sorting them.
Ranked(fs, k) ==
  CHOOSE v \in {facts[i].value : i \in fs} :
    Cardinality({i \in fs : facts[i].value < v}) < k /\ k <= Cardinality({i \in fs : facts[i].value <= v})

\* The last value less the one before it, in a source that may have more than the window.
ValueChange(src, last) ==
  LET upto == {i \in src : facts[i].ts <= facts[last].ts}
  IN  IF Cardinality(upto) < 2 THEN Undefined
      ELSE Ratio(facts[last].value - facts[Max(upto \ {Max(upto)})].value, 1)

\* aggValue.
AggValue(op, fs, now) ==
  LET src == IF op.scope = <<>> THEN fs ELSE OfEntity(fs, op.scope)
      win == WindowFacts(src, now, op.window, op.offset)
  IN  IF win = {} THEN Undefined
      ELSE IF op.kind = "avg" THEN Ratio(SumValues(win), Cardinality(win))
      ELSE IF op.kind = "last" THEN Ratio(facts[Max(win)].value, 1)
      ELSE IF op.kind = "p25" THEN Ratio(Ranked(win, (Cardinality(win) + 3) \div 4), 1)
      ELSE ValueChange(src, Max(win))

OperandValue(op, fs, now) ==
  IF op.kind = "const" THEN Ratio(op.mult, 1)
  ELSE LET v == AggValue(op, fs, now) IN IF v.ok THEN Ratio(op.mult * v.num, v.den) ELSE Undefined

\* eval: some conjunction holds; a comparison with an operand that is not defined does not.
Eval(cond, fs, now) ==
  \E i \in DOMAIN cond : \A j \in DOMAIN cond[i] :
    LET l == OperandValue(cond[i][j].lhs, fs, now)
        r == OperandValue(cond[i][j].rhs, fs, now)
    IN  l.ok /\ r.ok /\ Holds(cond[i][j].op, l, r)

\* How far an operand looks, with a day more for the value before the last one.
Back(op) ==
  IF op.kind = "const" THEN 0 ELSE op.window + op.offset + (IF op.kind = "chg" THEN Day ELSE 0)

\* Bug: the value before the last one of the window is not fetched.
LookbackBare(cond) ==
  Max({0} \cup {op.window + op.offset : op \in {op \in Comparands(cond) : op.kind # "const"}})

\* lookback: the farthest a condition looks.
Lookback(cond) == Max({0} \cup {Back(op) : op \in Comparands(cond)})

OneScoped(cond) == \E op \in Comparands(cond) : Scoped(op)

\* filterScope.
InScope(fs) == {i \in fs : only = {} \/ facts[i].of \in only}

\* judge: a scoped condition once, over everything; another one for each entity that has facts.
TheRule == <<>>
Judge(cond, fs, now) ==
  IF OneScoped(cond) THEN (IF Eval(cond, fs, now) THEN {TheRule} ELSE {})
  ELSE {e \in Entities : OfEntity(fs, e) # {} /\ Eval(cond, OfEntity(fs, e), now)}

-----------------------------------------------------------------------------
LangInit ==
  /\ text \in Texts /\ only \in {{}} \cup {{e} : e \in Entities} /\ facts \in Histories
  /\ text \notin Running => only = {} /\ facts = <<>>
  /\ rule = <<>> /\ eng = "new" /\ clock = 0
  /\ got = {} /\ asked = 0 /\ matches = {}

\* New parses the condition, at each start of the program, which fails if it cannot be parsed.
NewRule ==
  /\ eng # "judge"
  /\ LET c == ParseCond(text)
     IN  eng' = (IF c.ok THEN "ready" ELSE "refused") /\ rule' = c.val
  /\ UNCHANGED <<text, only, clock, facts, got, asked, matches>>

\* A fact of its kind is stored, at most one of an entity at a time.
Reading(e, v) ==
  /\ eng \in {"ready", "judge"} /\ text \in Running /\ Len(facts) < MaxReadings
  /\ \A i \in DOMAIN facts : facts[i].of = e => facts[i].ts < clock
  /\ facts' = Append(facts, [of |-> e, ts |-> clock, value |-> v])
  /\ UNCHANGED <<text, only, rule, eng, clock, got, asked, matches>>

TimePasses ==
  /\ eng \in {"ready", "judge"} /\ text \in Running /\ clock + Grain <= MaxTime /\ clock' = clock + Grain
  /\ UNCHANGED <<text, only, rule, eng, facts, got, asked, matches>>

\* evaluateRule: the query, of the oldest rows as far as the condition looks back. It ends at the
\* moment it runs, which is after every fact stored by then.
QueryRound ==
  /\ eng = "ready" /\ text \in Running /\ eng' = "judge" /\ asked' = Len(facts)
  /\ LET all == {i \in DOMAIN facts : clock - Lookback(rule) <= facts[i].ts}
     IN  got' = InScope({i \in all : Cardinality({j \in all : j <= i}) <= QueryMax})
  /\ matches' = {}
  /\ UNCHANGED <<text, only, rule, clock, facts>>

\* Then the verdict, by the clock of that moment.
JudgeRound ==
  /\ eng = "judge" /\ eng' = "ready" /\ matches' = Judge(rule, got, clock)
  /\ got' = {} /\ asked' = 0
  /\ UNCHANGED <<text, only, rule, clock, facts>>

LangNext ==
  \/ NewRule \/ TimePasses \/ QueryRound \/ JudgeRound
  \/ \E e \in Entities, v \in Values : Reading(e, v)

Operands ==
  [kind : AggKinds \cup {"const"}, mult : Int, window : Nat, offset : Nat, scope : {<<>>} \cup (Tokens \X Tokens)]
Comparison == [lhs : Operands, op : Comparisons, rhs : Operands]

LangTypeOK ==
  /\ text \in Seq(Tokens) /\ only \subseteq Entities /\ eng \in {"new", "refused", "ready", "judge"}
  /\ rule \in Seq(Seq(Comparison))
  /\ facts \in Seq([of : Entities, ts : Int, value : Int]) /\ clock \in 0..MaxTime
  /\ got \subseteq DOMAIN facts /\ asked \in 0..Len(facts)
  /\ matches \subseteq Entities \cup {TheRule}

LangSpec == LangInit /\ [][LangNext]_langvars

-----------------------------------------------------------------------------
(* Properties. *)

\* What a text says, by the grammar of cond.go: a token is an aggregate, whatever its scope; the
\* tokens from i to i + 5 are one and its scope, and a shift may follow them; the tokens from i to
\* j - 1 are an aggregate, an operand, and so on.
Fits(t, op) ==
  /\ t.sign = "agg" /\ t.agg.kind \in AggKinds /\ op.kind = t.agg.kind
  /\ DurationOK(t.agg.n, t.agg.unit) /\ op.window = Duration(t.agg.n, t.agg.unit)
  /\ \/ t.agg.offN = 0 /\ op.offset = 0
     \/ DurationOK(t.agg.offN, t.agg.offUnit) /\ op.offset = Duration(t.agg.offN, t.agg.offUnit)

SaysScope(toks, op, i) ==
  /\ Tok(toks, i + 1).sign = "(" /\ Tok(toks, i + 3).sign = "," /\ Tok(toks, i + 5).sign = ")"
  /\ op.scope = <<Tok(toks, i + 2), Tok(toks, i + 4)>>

SaysAgg(toks, op, i, j) ==
  LET t == Tok(toks, i)
      s == Tok(toks, i + 6)
  IN  \/ op.scope = <<>> /\ Fits(t, op) /\ j = i + 1
      \/ /\ SaysScope(toks, op, i) /\ t.agg.offN = 0
         /\ \/ Fits(t, op) /\ j = i + 6
            \/ s.sign = "@" /\ s.agg.offN # 0 /\ Fits(Shifted(t, s.agg.offN, s.agg.offUnit), op) /\ j = i + 7

SaysOperand(toks, op, i, j) ==
  LET t == Tok(toks, i)
  IN  \/ t.sign = "num" /\ op = Constant(t.num) /\ j = i + 1
      \/ op.mult = 1 /\ SaysAgg(toks, op, i, j)
      \/ t.sign = "num" /\ op.mult = t.num /\ Tok(toks, i + 1).sign = "*" /\ SaysAgg(toks, op, i + 2, j)

SaysCmp(toks, c, i, j) ==
  \E m \in DOMAIN toks :
    SaysOperand(toks, c.lhs, i, m) /\ toks[m].sign = c.op /\ SaysOperand(toks, c.rhs, m + 1, j)

\* Ways to cut the tokens from i to j - 1 into n parts, at tokens of a sign.
Cuts(toks, sign, n, i, j) ==
  LET places == {p \in DOMAIN toks : toks[p].sign = sign}
  IN  {[k \in 0..n |-> IF k = 0 THEN i - 1 ELSE IF k = n THEN j ELSE at[k]] : at \in [1..(n - 1) -> places]}

SaysAnd(toks, cs, i, j) ==
  cs # <<>> /\ \E cut \in Cuts(toks, "&&", Len(cs), i, j) :
                  \A k \in DOMAIN cs : SaysCmp(toks, cs[k], cut[k - 1] + 1, cut[k])

Says(toks, cond) ==
  cond # <<>> /\ \E cut \in Cuts(toks, "||", Len(cond), 1, Len(toks) + 1) :
                    \A k \in DOMAIN cond : SaysAnd(toks, cond[k], cut[k - 1] + 1, cut[k])

OneSort(cond) == \A p, q \in Comparands(cond) : ~(Scoped(p) /\ Implicit(q))
Rules == {c \in Seq(Seq(Comparison)) : OneSort(c)}

ASSUME ConditionsAssumption == \A c \in Conditions : c \in Seq(Seq(Comparison)) /\ OneSort(c)

(* cond.go, on the grammar and on bad conditions: a rule never runs as       *)
(* another one than it is written.  It is what its text says to the last     *)
(* token, whatever is missing or too much in it, with aggregates of one sort *)
(* only, and the text says nothing else; and no text that says a condition   *)
(* is refused.                                                               *)
(* (Of one entity, avg_2d(v,s)@1d is refused and avg_2d@1d(v,s) is read.)    *)
ParsedAsDocumented ==
  /\ eng \in {"ready", "judge"} =>
       Says(text, rule) /\ OneSort(rule) /\ \A c \in Conditions : Says(text, c) => c = rule
  /\ eng = "refused" => \A c \in Conditions : ~Says(text, c)

\* No aggregate of one entity is shifted, before its scope or after it.
ShiftsUnscoped(toks) ==
  \A i \in DOMAIN toks :
    /\ toks[i].sign = "agg" /\ Tok(toks, i + 1).sign = "(" => toks[i].agg.offN = 0
    /\ toks[i].sign = ")" => Tok(toks, i + 1).sign # "@"

(* That holds of every text but those in which an aggregate of one entity is *)
(* shifted.                                                                  *)
ParsedExactly == ShiftsUnscoped(text) => ParsedAsDocumented

\* The facts that entity e, or a scoped aggregate, is judged by: what was stored before the query.
Seen(op, e) ==
  {f \in {facts[i] : i \in 1..asked} :
     (only = {} \/ f.of \in only) /\ f.of = (IF op.scope = <<>> THEN e ELSE op.scope)}
Window(op, e) == {f \in Seen(op, e) : clock - op.window - op.offset <= f.ts /\ f.ts < clock - op.offset}
Newest(fs) == CHOOSE f \in fs : \A g \in fs : g.ts <= f.ts
Earlier(op, e) == {f \in Seen(op, e) : f.ts < Newest(Window(op, e)).ts}

\* The least value that a quarter of the facts does not exceed.
NotAbove(f, fs) == {g \in fs : g.value <= f.value}
Quartile(fs) ==
  LET low == {f \in fs : 4 * Cardinality(NotAbove(f, fs)) >= Cardinality(fs)}
  IN  (CHOOSE f \in low : \A g \in low : f.value <= g.value).value

\* What an aggregate means, over sets.
Meaning(op, e) ==
  LET fs == Window(op, e)
  IN  IF op.kind = "const" THEN Ratio(op.mult, 1)
      ELSE IF fs = {} \/ (op.kind = "chg" /\ Earlier(op, e) = {}) THEN Undefined
      ELSE IF op.kind = "avg" THEN Ratio(op.mult * SumFunctionOnSet([f \in fs |-> f.value], fs), Cardinality(fs))
      ELSE IF op.kind = "last" THEN Ratio(op.mult * Newest(fs).value, 1)
      ELSE IF op.kind = "p25" THEN Ratio(op.mult * Quartile(fs), 1)
      ELSE Ratio(op.mult * (Newest(fs).value - Newest(Earlier(op, e)).value), 1)

Meant(e) ==
  \E i \in DOMAIN rule : \A j \in DOMAIN rule[i] :
    LET l == Meaning(rule[i][j].lhs, e)
        r == Meaning(rule[i][j].rhs, e)
    IN  l.ok /\ r.ok /\ Holds(rule[i][j].op, l, r)

\* The value before the newest one of a window is looked for a day before the window.
Within(e) ==
  \A op \in Comparands(rule) :
    (op.kind = "chg" /\ Window(op, e) # {} /\ Earlier(op, e) # {}) =>
      Newest(Earlier(op, e)).ts >= clock - op.window - op.offset - Day

\* Each conjunction looks at facts.
Looks(cond) ==
  \A i \in DOMAIN cond : \E j \in DOMAIN cond[i] : cond[i][j].lhs.kind # "const" \/ cond[i][j].rhs.kind # "const"

(* The verdict of a round is the one that the condition has over all facts   *)
(* stored before its query: neither how far the query looks back, nor the    *)
(* time that goes by until the verdict, nor the facts of other entities      *)
(* change it, for changes as long as two values are a day apart at most, and *)
(* for as many facts as one query returns.                                   *)
VerdictsExact ==
  eng = "judge" /\ asked <= QueryMax =>
    IF OneScoped(rule) THEN Within(TheRule) => (Judge(rule, got, clock) # {} <=> Meant(TheRule))
    ELSE Looks(rule) => \A e \in Entities : Within(e) => (e \in Judge(rule, got, clock) <=> Meant(e))
=============================================================================
