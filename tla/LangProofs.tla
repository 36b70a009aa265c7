----------------------------- MODULE LangProofs -----------------------------
(***************************************************************************)
(* Proofs about RuleLang.  The parser: whatever texts the rules have, it   *)
(* makes of each the one condition that the text says by the grammar, and  *)
(* refuses only a text that says none.  The verdict: what is computed from *)
(* the rows of a query, by their positions, is what the condition means    *)
(* over all facts stored before it, as a set.                              *)
(***************************************************************************)
EXTENDS RuleLang, FiniteSums, SequenceTheorems

(* The grammar: what a part of the parser returns, if it succeeds, is of its type and behind its first token. *)

ParseOf(r, j, T) == r.ok \in BOOLEAN /\ (r.ok => r.val \in T /\ r.i \in Nat /\ j < r.i)
Parses(part, toks, T) == \A j \in 1..(Len(toks) + 1) : ParseOf(part[j], j, T)

LEMMA ParsedIs ==
  ASSUME NEW T, NEW v \in T, NEW i \in Nat, NEW j \in Nat, j < i
  PROVE  ParseOf(Parsed(v, i), j, T)
BY DEF ParseOf, Parsed

LEMMA FailedIs == ASSUME NEW T, NEW j PROVE ParseOf(Failed, j, T)
BY DEF ParseOf, Failed

LEMMA EndIsToken == End \in Tokens
BY DEF End, Sign, NoAgg, Tokens

LEMMA TokIs ==
  ASSUME NEW S, NEW toks \in Seq(S), NEW i \in Nat \ {0}
  PROVE  Tok(toks, i) \in S \cup {End} /\ (Tok(toks, i) # End => i <= Len(toks))
<1>1. CASE i <= Len(toks)
  BY <1>1 DEF Tok
<1>2. CASE ~(i <= Len(toks))
  BY <1>2, EndIsToken DEF Tok
<1> QED
  BY <1>1, <1>2

-----------------------------------------------------------------------------
(* Lists. *)

ListStep(part, sign, toks, f, j) ==
  IF ~part[j].ok THEN Failed
  ELSE IF Tok(toks, part[j].i).sign # sign THEN Parsed(<<part[j].val>>, part[j].i)
  ELSE LET rest == f[part[j].i + 1]
       IN  IF rest.ok THEN Parsed(<<part[j].val>> \o rest.val, rest.i) ELSE Failed

AreLists(part, sign, toks, f) == f = [j \in 1..(Len(toks) + 1) |-> ListStep(part, sign, toks, f, j)]

\* A list looks at later ones only.
LEMMA LooksAhead ==
  ASSUME NEW S, NEW toks \in Seq(S), NEW T, NEW part, Parses(part, toks, T), NEW sign, sign # End.sign,
         NEW j \in 1..(Len(toks) + 1), NEW f, NEW g, \A k \in 1..(Len(toks) + 1) : j < k => f[k] = g[k]
  PROVE  ListStep(part, sign, toks, f, j) = ListStep(part, sign, toks, g, j)
<1>1. ParseOf(part[j], j, T) /\ Len(toks) \in Nat
  BY DEF Parses
<1>2. ASSUME part[j].ok, Tok(toks, part[j].i).sign = sign
      PROVE  f[part[j].i + 1] = g[part[j].i + 1]
  <2>1. part[j].i \in Nat /\ j < part[j].i
    BY <1>1, <1>2 DEF ParseOf
  <2>2. part[j].i <= Len(toks)
    BY <1>2, <2>1, TokIs
  <2> QED
    BY <1>1, <2>1, <2>2
<1> QED
  BY <1>2, Zenon DEF ListStep

LEMMA ListsExist ==
  ASSUME NEW S, NEW toks \in Seq(S), NEW T, NEW part, Parses(part, toks, T), NEW sign, sign # End.sign
  PROVE  \E f : AreLists(part, sign, toks, f)
<1> DEFINE n == Len(toks) + 1
           Right(f, m) == \A j \in 1..n : m < j => f[j] = ListStep(part, sign, toks, f, j)
           Good == {m \in Nat : m <= n => \E f : Right(f, n - m)}
<1>1. n \in Nat
  OBVIOUS
<1>2. 0 \in Good
  BY <1>1
<1>3. ASSUME NEW m \in Nat, m \in Good PROVE m + 1 \in Good
  <2> SUFFICES ASSUME m + 1 <= n PROVE \E f : Right(f, n - (m + 1))
    OBVIOUS
  <2>1. PICK f : Right(f, n - m)
    BY <1>1, <1>3
  <2> DEFINE c == n - m
             g == [j \in 1..n |-> IF j = c THEN ListStep(part, sign, toks, f, c) ELSE f[j]]
  <2>2. c \in 1..n
    BY <1>1
  <2>3. g[c] = ListStep(part, sign, toks, f, c) /\ \A j \in 1..n : j # c => g[j] = f[j]
    BY <2>2
  <2> HIDE DEF g
  <2>4. ASSUME NEW j \in 1..n, n - (m + 1) < j PROVE g[j] = ListStep(part, sign, toks, g, j)
    <3>1. c <= j /\ \A k \in 1..n : j < k => k # c
      BY <1>1, <2>2, <2>4
    <3>2. \A k \in 1..n : j < k => f[k] = g[k]
      BY <2>3, <3>1
    <3>3. ListStep(part, sign, toks, f, j) = ListStep(part, sign, toks, g, j)
      BY <3>2, LooksAhead
    <3>4. g[j] = ListStep(part, sign, toks, f, j)
      BY <1>1, <2>1, <2>2, <2>3, <3>1
    <3> QED
      BY <3>3, <3>4
  <2> QED
    BY <2>4
<1>4. Nat \subseteq Good
  <2> HIDE DEF Good
  <2> QED
    BY <1>2, <1>3, AllNaturals
<1>5. PICK f : Right(f, n - n)
  BY <1>1, <1>4
<1> DEFINE g == [j \in 1..n |-> f[j]]
<1>6. g = [j \in 1..n |-> ListStep(part, sign, toks, g, j)]
  <2>1. ASSUME NEW j \in 1..n PROVE f[j] = ListStep(part, sign, toks, g, j)
    <3>1. \A k \in 1..n : f[k] = g[k]
      OBVIOUS
    <3> HIDE DEF g
    <3>2. ListStep(part, sign, toks, f, j) = ListStep(part, sign, toks, g, j)
      BY <3>1, LooksAhead
    <3> QED
      BY <1>1, <1>5, <3>2
  <2> QED
    BY <2>1, Zenon
<1> QED
  BY <1>6, Zenon DEF AreLists

LEMMA ListParses ==
  ASSUME NEW S, NEW toks \in Seq(S), NEW T, NEW part, Parses(part, toks, T), NEW sign, sign # End.sign
  PROVE  Parses(ParseList(part, sign, toks), toks, Seq(T))
<1> DEFINE n == Len(toks) + 1
           f == CHOOSE f : AreLists(part, sign, toks, f)
           Good == {m \in Nat : m <= n => \A j \in 1..n : n - m < j => ParseOf(f[j], j, Seq(T))}
<1>1. ParseList(part, sign, toks) = f
  BY Zenon DEF ParseList, AreLists, ListStep
<1>2. AreLists(part, sign, toks, f)
  BY ListsExist, Zenon
<1> HIDE DEF f
<1>3. n \in Nat /\ \A j \in 1..n : f[j] = ListStep(part, sign, toks, f, j)
  BY <1>2 DEF AreLists
<1>4. 0 \in Good
  BY <1>3
<1>5. ASSUME NEW m \in Nat, m \in Good PROVE m + 1 \in Good
  <2> SUFFICES ASSUME m + 1 <= n, NEW j \in 1..n, n - (m + 1) < j PROVE ParseOf(f[j], j, Seq(T))
    OBVIOUS
  <2>0. j \in Nat
    BY <1>3
  <2>1. ParseOf(part[j], j, T) /\ f[j] = ListStep(part, sign, toks, f, j)
    BY <1>3 DEF Parses
  <2>2. CASE ~part[j].ok
    <3>1. f[j] = Failed
      BY <2>1, <2>2 DEF ListStep
    <3> QED
      BY <3>1, FailedIs
  <2>3. CASE part[j].ok /\ Tok(toks, part[j].i).sign # sign
    <3>1. f[j] = Parsed(<<part[j].val>>, part[j].i)
      BY <2>1, <2>3 DEF ListStep
    <3>2. part[j].val \in T /\ part[j].i \in Nat /\ j < part[j].i
      BY <2>1, <2>3 DEF ParseOf
    <3>3. <<part[j].val>> \in Seq(T)
      BY <3>2
    <3>4. ParseOf(Parsed(<<part[j].val>>, part[j].i), j, Seq(T))
      BY <2>0, <3>2, <3>3, ParsedIs, Zenon
    <3> QED
      BY <3>1, <3>4, Zenon
  <2>4. CASE part[j].ok /\ Tok(toks, part[j].i).sign = sign
    <3> DEFINE k == part[j].i + 1
    <3>1. part[j].val \in T /\ part[j].i \in Nat /\ j < part[j].i
      BY <2>1, <2>4 DEF ParseOf
    <3>2. part[j].i <= Len(toks)
      BY <2>4, <3>1, TokIs
    <3>3. k \in 1..n /\ n - m < k /\ j < k
      BY <1>3, <3>1, <3>2
    <3>4. ParseOf(f[k], k, Seq(T))
      BY <1>5, <3>3
    <3>5. f[j] = IF f[k].ok THEN Parsed(<<part[j].val>> \o f[k].val, f[k].i) ELSE Failed
      BY <2>1, <2>4 DEF ListStep
    <3> HIDE DEF k
    <3>6. CASE f[k].ok
      <4>1. f[k].val \in Seq(T) /\ f[k].i \in Nat /\ j < f[k].i
        BY <3>3, <3>4, <3>6 DEF ParseOf
      <4>2. <<part[j].val>> \o f[k].val \in Seq(T)
        BY <3>1, <4>1
      <4>3. ParseOf(Parsed(<<part[j].val>> \o f[k].val, f[k].i), j, Seq(T))
        BY <2>0, <4>1, <4>2, ParsedIs, Zenon
      <4> QED
        BY <3>5, <3>6, <4>3, Zenon
    <3>7. CASE ~f[k].ok
      BY <3>5, <3>7, FailedIs
    <3> QED
      BY <3>6, <3>7
  <2> QED
    BY <2>2, <2>3, <2>4
<1>6. Nat \subseteq Good
  <2> HIDE DEF Good
  <2> QED
    BY <1>4, <1>5, AllNaturals
<1>7. \A j \in 1..n : ParseOf(f[j], j, Seq(T))
  BY <1>3, <1>6
<1> QED
  BY <1>1, <1>7 DEF Parses
-----------------------------------------------------------------------------
(* Operands, comparisons and conditions. *)

\* The tokens of a text, and the end behind it.
Reads(toks) == \A k \in Nat \ {0} : Tok(toks, k) \in Tokens

LEMMA TextReads == ASSUME NEW toks \in Seq(Tokens) PROVE Reads(toks)
<1>1. ASSUME NEW k \in Nat \ {0} PROVE Tok(toks, k) \in Tokens
  BY TokIs, EndIsToken
<1> QED
  BY <1>1 DEF Reads

LEMMA DurationIs ==
  ASSUME NEW n \in Int, NEW unit, DurationOK(n, unit)
  PROVE  Duration(n, unit) \in Nat
<1>1. unit \in {"m", "h", "d"} /\ n > 0
  BY DEF DurationOK, Units
<1>2. Units["m"] = 1 /\ Units["h"] = 60 /\ Units["d"] = 1440
  BY DEF Units
<1>3. CASE unit = "m"
  BY <1>1, <1>2, <1>3 DEF Duration
<1>4. CASE unit = "h"
  BY <1>1, <1>2, <1>4 DEF Duration
<1>5. CASE unit = "d"
  BY <1>1, <1>2, <1>5 DEF Duration
<1> QED
  BY <1>1, <1>3, <1>4, <1>5

LEMMA OperandIs ==
  ASSUME NEW kind \in AggKinds \cup {"const"}, NEW mult \in Int, NEW w \in Nat, NEW o \in Nat,
         NEW scope \in {<<>>} \cup (Tokens \X Tokens)
  PROVE  [kind |-> kind, mult |-> mult, window |-> w, offset |-> o, scope |-> scope] \in Operands
BY DEF Operands

LEMMA AggParses ==
  ASSUME NEW toks, Reads(toks), NEW i \in Nat \ {0}, NEW mult \in Int
  PROVE  ParseOf(ParseAgg(toks, i, mult), i, Operands)
<1> DEFINE t == Tok(toks, i)
           a == t.agg
           offset == IF a.offN = 0 THEN 0 ELSE Duration(a.offN, a.offUnit)
           op == [kind |-> a.kind, mult |-> mult, window |-> Duration(a.n, a.unit), offset |-> offset, scope |-> <<>>]
           bad == \/ t.sign # "agg" \/ a.kind \notin AggKinds \/ ~DurationOK(a.n, a.unit)
                  \/ (a.offN # 0 /\ ~DurationOK(a.offN, a.offUnit))
           bare == Tok(toks, i + 1).sign # "("
           cut == \/ Tok(toks, i + 2) = End \/ Tok(toks, i + 3).sign # "," \/ Tok(toks, i + 4) = End
                  \/ Tok(toks, i + 5).sign # ")"
           s == <<Tok(toks, i + 2), Tok(toks, i + 4)>>
           sop == [kind |-> a.kind, mult |-> mult, window |-> Duration(a.n, a.unit), offset |-> offset, scope |-> s]
<1>1. t \in Tokens /\ s \in Tokens \X Tokens
  BY DEF Reads
<1>2. a.n \in Int /\ a.offN \in Int
  BY <1>1, RuleLangAssumption
<1>3. ASSUME ~bad PROVE op \in Operands /\ sop \in Operands
  <2>1. a.kind \in AggKinds /\ Duration(a.n, a.unit) \in Nat
    BY <1>2, <1>3, DurationIs
  <2>2. offset \in Nat
    BY <1>2, <1>3, DurationIs
  <2> HIDE DEF a, offset, s
  <2> QED
    BY <1>1, <2>1, <2>2, OperandIs
<1>4. [op EXCEPT !.scope = s] = sop
  OBVIOUS
<1>5. ParseAgg(toks, i, mult) =
        IF bad THEN Failed ELSE IF bare THEN Parsed(op, i + 1) ELSE IF cut THEN Failed ELSE Parsed(sop, i + 6)
  BY <1>4, Zenon DEF ParseAgg
<1> HIDE DEF op, sop, bad, bare, cut
<1>6. ASSUME NEW v \in Operands, NEW k \in {i + 1, i + 6} PROVE ParseOf(Parsed(v, k), i, Operands)
  BY ParsedIs
<1> QED
  BY <1>3, <1>5, <1>6, FailedIs, Zenon

LEMMA OperandParses ==
  ASSUME NEW toks, Reads(toks), NEW i \in Nat \ {0}
  PROVE  ParseOf(ParseOperand(toks, i), i, Operands)
<1> DEFINE num == Tok(toks, i).num
<1>1. num \in Int
  BY RuleLangAssumption DEF Reads
<1>2. ParseOf(ParseAgg(toks, i, 1), i, Operands)
  BY AggParses
<1>3. ParseOf(ParseAgg(toks, i + 2, num), i, Operands)
  <2>1. ParseOf(ParseAgg(toks, i + 2, num), i + 2, Operands)
    BY <1>1, AggParses
  <2> QED
    BY <2>1 DEF ParseOf
<1>4. ParseOf(Parsed(Constant(num), i + 1), i, Operands)
  <2>1. Constant(num) \in Operands
    BY <1>1 DEF Constant, Operands
  <2> QED
    BY <2>1, ParsedIs
<1> QED
  BY <1>2, <1>3, <1>4, Zenon DEF ParseOperand

LEMMA CmpParses ==
  ASSUME NEW toks, Reads(toks), NEW i \in Nat \ {0}
  PROVE  ParseOf(ParseCmp(toks, i), i, Comparison)
<1> DEFINE l == ParseOperand(toks, i)
           r == ParseOperand(toks, l.i + 1)
           op == Tok(toks, l.i).sign
           c == [lhs |-> l.val, op |-> op, rhs |-> r.val]
<1>1. ParseOf(l, i, Operands)
  BY OperandParses
<1>2. ASSUME l.ok, op \in Comparisons, r.ok PROVE ParseOf(Parsed(c, r.i), i, Comparison)
  <2>1. l.val \in Operands /\ l.i \in Nat /\ i < l.i
    BY <1>1, <1>2 DEF ParseOf
  <2>2. ParseOf(r, l.i + 1, Operands)
    BY <2>1, OperandParses
  <2>3. r.val \in Operands /\ r.i \in Nat /\ i < r.i
    BY <1>2, <2>1, <2>2 DEF ParseOf
  <2>4. c \in Comparison
    <3> HIDE DEF l, r, op
    <3> QED
      BY <1>2, <2>1, <2>3 DEF Comparison
  <2> HIDE DEF c, r
  <2> QED
    BY <2>3, <2>4, ParsedIs
<1>3. ParseCmp(toks, i) = IF ~l.ok THEN Failed ELSE IF op \notin Comparisons THEN Failed
                          ELSE IF ~r.ok THEN Failed ELSE Parsed(c, r.i)
  BY Zenon DEF ParseCmp
<1> HIDE DEF l, r, op, c
<1> QED
  BY <1>2, <1>3, FailedIs, Zenon

LEMMA CondParses ==
  ASSUME NEW toks \in Seq(Tokens)
  PROVE  LET c == ParseCond(toks)
         IN  c.ok \in BOOLEAN /\ (c.ok => c.val \in Rules) /\ (~c.ok => c.val = <<>>)
<1>1. Reads(toks)
  BY TextReads
<1>2. Parses(ParseCmps(toks), toks, Comparison)
  <2>1. ASSUME NEW j \in 1..(Len(toks) + 1) PROVE ParseOf(ParseCmps(toks)[j], j, Comparison)
    <3>1. ParseCmps(toks)[j] = ParseCmp(toks, j) /\ j \in Nat \ {0}
      BY DEF ParseCmps
    <3> QED
      BY <1>1, <3>1, CmpParses
  <2> QED
    BY <2>1 DEF Parses
<1>3. "&&" # End.sign /\ "||" # End.sign
  BY DEF End, Sign
<1>4. Parses(ParseAnd(toks), toks, Seq(Comparison))
  <2>1. Parses(ParseList(ParseCmps(toks), "&&", toks), toks, Seq(Comparison))
    BY <1>2, <1>3, ListParses, Zenon
  <2> QED
    BY <2>1, Zenon DEF ParseAnd
<1>5. Parses(ParseList(ParseAnd(toks), "||", toks), toks, Seq(Seq(Comparison)))
  BY <1>3, <1>4, ListParses, Zenon
<1>6. ParseOf(Parse(toks), 1, Seq(Seq(Comparison)))
  <2>1. 1 \in 1..(Len(toks) + 1)
    OBVIOUS
  <2> QED
    BY <1>5, <2>1, Zenon DEF Parse, Parses
<1> DEFINE c == Parse(toks)
           mixed == (\E op \in Comparands(c.val) : Scoped(op)) /\ (\E op \in Comparands(c.val) : Implicit(op))
<1>7. c.ok \in BOOLEAN /\ (c.ok => c.val \in Seq(Seq(Comparison)))
  BY <1>6, Zenon DEF ParseOf
<1>8. ASSUME c.ok, ~mixed PROVE c.val \in Rules
  BY <1>7, <1>8, Zenon DEF Rules, OneSort
<1>9. ParseCond(toks) = Failed \/ (ParseCond(toks) = c /\ c.ok /\ ~mixed)
  BY <1>7, Zenon DEF ParseCond
<1>10. Failed.ok = FALSE /\ Failed.val = <<>>
  BY DEF Failed
<1> HIDE DEF c, mixed
<1> QED
  BY <1>7, <1>8, <1>9, <1>10, Zenon
-----------------------------------------------------------------------------
(* What a text says (Says), and that the parser finds it: an aggregate, an operand, a comparison, and lists. *)

Gives(r, v, e) == r.ok /\ r.val = v /\ r.i = e
Clean(toks) == toks \in Seq(Tokens) /\ (\A k \in DOMAIN toks : toks[k] # End) /\ ShiftsUnscoped(toks)

LEMMA ParsedGives == ASSUME NEW v, NEW e PROVE Gives(Parsed(v, e), v, e)
BY DEF Gives, Parsed

LEMMA ParsedFields == ASSUME NEW r, NEW v, NEW e, r = Parsed(v, e) PROVE r.ok /\ r.val = v /\ r.i = e
BY DEF Parsed

\* A token that has a sign is one of the text.
LEMMA SignedWithin ==
  ASSUME NEW toks, Clean(toks), NEW k \in Nat \ {0}, Tok(toks, k).sign # End.sign
  PROVE  k <= Len(toks) /\ k \in DOMAIN toks /\ Tok(toks, k) = toks[k]
<1>1. toks \in Seq(Tokens) /\ Tok(toks, k) # End
  BY DEF Clean
<1>2. k <= Len(toks)
  BY <1>1, TokIs
<1> QED
  BY <1>1, <1>2 DEF Tok

LEMMA WithinIsToken ==
  ASSUME NEW toks, Clean(toks), NEW k \in Nat \ {0}, k <= Len(toks)
  PROVE  Tok(toks, k) # End /\ k \in DOMAIN toks
<1>1. toks \in Seq(Tokens) /\ \A x \in DOMAIN toks : toks[x] # End
  BY DEF Clean
<1> QED
  BY <1>1 DEF Tok

\* Signs of the grammar are not the end of a text.
LEMMA EndSign ==
  /\ End.sign = ""
  /\ \A s \in Comparisons \cup {"num", "agg", "*", "(", ",", ")", "&&", "||"} : s # End.sign
  /\ \A s \in Comparisons : s \notin {"(", "*", "&&", "||", "num", "agg"}
BY DEF End, Sign, Comparisons

Offset(a) == IF a.offN = 0 THEN 0 ELSE Duration(a.offN, a.offUnit)
AggOf(t, mult, scope) ==
  [kind |-> t.agg.kind, mult |-> mult, window |-> Duration(t.agg.n, t.agg.unit), offset |-> Offset(t.agg), scope |-> scope]
BadAgg(t) ==
  \/ t.sign # "agg" \/ t.agg.kind \notin AggKinds \/ ~DurationOK(t.agg.n, t.agg.unit)
  \/ (t.agg.offN # 0 /\ ~DurationOK(t.agg.offN, t.agg.offUnit))
CutScope(toks, i) ==
  \/ Tok(toks, i + 2) = End \/ Tok(toks, i + 3).sign # "," \/ Tok(toks, i + 4) = End
  \/ Tok(toks, i + 5).sign # ")"

LEMMA ParseAggIs ==
  ASSUME NEW toks, NEW i, NEW mult
  PROVE  ParseAgg(toks, i, mult) =
           IF BadAgg(Tok(toks, i)) THEN Failed
           ELSE IF Tok(toks, i + 1).sign # "(" THEN Parsed(AggOf(Tok(toks, i), mult, <<>>), i + 1)
           ELSE IF CutScope(toks, i) THEN Failed
           ELSE Parsed(AggOf(Tok(toks, i), mult, <<Tok(toks, i + 2), Tok(toks, i + 4)>>), i + 6)
<1> DEFINE s == <<Tok(toks, i + 2), Tok(toks, i + 4)>>
<1>1. [AggOf(Tok(toks, i), mult, <<>>) EXCEPT !.scope = s] = AggOf(Tok(toks, i), mult, s)
  <2> HIDE DEF s
  <2> QED
    BY DEF AggOf
<1> QED
  BY <1>1, Zenon DEF ParseAgg, AggOf, Offset, BadAgg, CutScope

LEMMA AggFields ==
  ASSUME NEW op, NEW t, NEW mult, NEW scope, op = AggOf(t, mult, scope)
  PROVE  /\ op.kind = t.agg.kind /\ op.window = Duration(t.agg.n, t.agg.unit) /\ op.offset = Offset(t.agg)
         /\ op.mult = mult /\ op.scope = scope
BY Zenon DEF AggOf

LEMMA AggEqual ==
  ASSUME NEW op \in Operands, NEW t, NEW scope,
         op.kind = t.agg.kind, op.window = Duration(t.agg.n, t.agg.unit), op.offset = Offset(t.agg), op.scope = scope
  PROVE  op = AggOf(t, op.mult, scope)
BY DEF Operands, AggOf

\* Without a shift of an aggregate of one entity the grammar is that of the parser.
LEMMA SaysAggIs ==
  ASSUME NEW toks, Clean(toks), NEW op, NEW i \in Nat \ {0}, NEW j
  PROVE  SaysAgg(toks, op, i, j) <=>
           Fits(Tok(toks, i), op) /\ ((op.scope = <<>> /\ j = i + 1) \/ (SaysScope(toks, op, i) /\ j = i + 6))
<1> DEFINE t == Tok(toks, i)
           s == Tok(toks, i + 6)
<1>1. ASSUME SaysScope(toks, op, i) PROVE s.sign # "@"
  <2>1. Tok(toks, i + 5).sign = ")"
    BY <1>1, Zenon DEF SaysScope
  <2>2. Tok(toks, i + 5).sign # End.sign
    BY <2>1, EndSign, Zenon
  <2>3. i + 5 \in Nat \ {0} /\ (i + 5) + 1 = i + 6
    OBVIOUS
  <2>4. i + 5 \in DOMAIN toks /\ Tok(toks, i + 5) = toks[i + 5]
    BY <2>2, <2>3, SignedWithin, Zenon
  <2>5. Tok(toks, (i + 5) + 1).sign # "@"
    BY <2>1, <2>4, Zenon DEF Clean, ShiftsUnscoped
  <2> QED
    BY <2>3, <2>5, Zenon
<1>2. ASSUME SaysScope(toks, op, i), Fits(t, op) PROVE t.agg.offN = 0
  <2>1. t.sign = "agg" /\ Tok(toks, i + 1).sign = "("
    BY <1>2, Zenon DEF SaysScope, Fits
  <2>2. i \in DOMAIN toks /\ t = toks[i]
    BY <2>1, EndSign, SignedWithin
  <2> QED
    BY <2>1, <2>2, Zenon DEF Clean, ShiftsUnscoped
<1>3. SaysAgg(toks, op, i, j) <=>
        \/ op.scope = <<>> /\ Fits(t, op) /\ j = i + 1
        \/ /\ SaysScope(toks, op, i) /\ t.agg.offN = 0
           /\ \/ Fits(t, op) /\ j = i + 6
              \/ s.sign = "@" /\ s.agg.offN # 0 /\ Fits(Shifted(t, s.agg.offN, s.agg.offUnit), op) /\ j = i + 7
  BY Zenon DEF SaysAgg
<1> HIDE DEF t, s
<1> QED
  BY <1>1, <1>2, <1>3, Zenon DEF t

LEMMA FitsIs ==
  ASSUME NEW op, NEW t, NEW mult, NEW scope, op = AggOf(t, mult, scope), ~BadAgg(t)
  PROVE  Fits(t, op)
<1>1. op.kind = t.agg.kind /\ op.window = Duration(t.agg.n, t.agg.unit) /\ op.offset = Offset(t.agg)
  BY AggFields
<1>2. CASE t.agg.offN = 0
  <2>1. op.offset = 0
    BY <1>1, <1>2 DEF Offset
  <2> QED
    BY <1>1, <1>2, <2>1, Zenon DEF BadAgg, Fits
<1>3. CASE t.agg.offN # 0
  <2>1. op.offset = Duration(t.agg.offN, t.agg.offUnit)
    BY <1>1, <1>3 DEF Offset
  <2> QED
    BY <1>1, <1>3, <2>1, Zenon DEF BadAgg, Fits
<1> QED
  BY <1>2, <1>3

LEMMA FitsNotBad ==
  ASSUME NEW t, NEW op, Fits(t, op)
  PROVE  ~BadAgg(t) /\ op.kind = t.agg.kind /\ op.window = Duration(t.agg.n, t.agg.unit) /\ op.offset = Offset(t.agg)
<1>1. ASSUME t.agg.offN = 0 PROVE ~DurationOK(t.agg.offN, t.agg.offUnit)
  BY <1>1 DEF DurationOK
<1>2. CASE t.agg.offN = 0
  <2>1. Offset(t.agg) = 0
    BY <1>2 DEF Offset
  <2> QED
    BY <1>1, <1>2, <2>1, Zenon DEF Fits, BadAgg
<1>3. CASE t.agg.offN # 0
  <2>1. Offset(t.agg) = Duration(t.agg.offN, t.agg.offUnit)
    BY <1>3 DEF Offset
  <2> QED
    BY <1>3, <2>1, Zenon DEF Fits, BadAgg
<1> QED
  BY <1>2, <1>3

LEMMA AggSound ==
  ASSUME NEW toks, Clean(toks), NEW i \in Nat \ {0}, NEW mult \in Int, NEW r,
         r = ParseAgg(toks, i, mult), r.ok
  PROVE  SaysAgg(toks, r.val, i, r.i) /\ r.val.mult = mult /\ r.i \in Nat /\ i < r.i /\ r.i <= Len(toks) + 1
<1> DEFINE t == Tok(toks, i)
           s == <<Tok(toks, i + 2), Tok(toks, i + 4)>>
<1>0. Failed.ok = FALSE
  BY DEF Failed
<1>1. ~BadAgg(t)
  BY <1>0, ParseAggIs, Zenon
<1>2. t.sign = "agg"
  BY <1>1, Zenon DEF BadAgg
<1>3. i <= Len(toks) /\ Len(toks) \in Nat
  <2>1. t.sign # End.sign
    BY <1>2, EndSign, Zenon
  <2>2. Len(toks) \in Nat
    BY Zenon, LenProperties DEF Clean
  <2> QED
    BY <2>1, <2>2, SignedWithin
<1>4. CASE Tok(toks, i + 1).sign # "("
  <2>1. r = Parsed(AggOf(t, mult, <<>>), i + 1)
    BY <1>1, <1>4, ParseAggIs, Zenon
  <2>2. r.val = AggOf(t, mult, <<>>) /\ r.i = i + 1
    BY <2>1, ParsedFields
  <2>3. Fits(t, r.val) /\ r.val.scope = <<>> /\ r.val.mult = mult
    BY <1>1, <2>2, FitsIs, AggFields
  <2>4. SaysAgg(toks, r.val, i, r.i)
    BY <2>2, <2>3, SaysAggIs, Zenon
  <2> QED
    BY <1>3, <2>2, <2>3, <2>4
<1>5. CASE ~(Tok(toks, i + 1).sign # "(")
  <2>1. ~CutScope(toks, i)
    BY <1>0, <1>1, <1>5, ParseAggIs, Zenon
  <2>2. r = Parsed(AggOf(t, mult, s), i + 6)
    BY <1>1, <1>5, <2>1, ParseAggIs, Zenon
  <2>3. r.val = AggOf(t, mult, s) /\ r.i = i + 6
    BY <2>2, ParsedFields
  <2>4. Tok(toks, i + 5).sign # End.sign
    BY <2>1, EndSign, Zenon DEF CutScope
  <2>5. i + 5 <= Len(toks)
    BY <2>4, SignedWithin
  <2>6. Fits(t, r.val) /\ r.val.scope = s /\ r.val.mult = mult
    BY <1>1, <2>3, FitsIs, AggFields
  <2>7. SaysScope(toks, r.val, i)
    BY <1>5, <2>1, <2>6, Zenon DEF SaysScope, CutScope
  <2>8. SaysAgg(toks, r.val, i, r.i)
    BY <2>3, <2>6, <2>7, SaysAggIs, Zenon
  <2> QED
    BY <1>3, <2>3, <2>5, <2>6, <2>8
<1> QED
  BY <1>4, <1>5

LEMMA AggComplete ==
  ASSUME NEW toks, Clean(toks), NEW i \in Nat \ {0}, NEW j, NEW op \in Operands,
         SaysAgg(toks, op, i, j), Tok(toks, j).sign # "("
  PROVE  Gives(ParseAgg(toks, i, op.mult), op, j)
<1> DEFINE t == Tok(toks, i)
           s == <<Tok(toks, i + 2), Tok(toks, i + 4)>>
<1>1. Fits(t, op) /\ ((op.scope = <<>> /\ j = i + 1) \/ (SaysScope(toks, op, i) /\ j = i + 6))
  BY SaysAggIs, Zenon
<1>2. ~BadAgg(t) /\ op.kind = t.agg.kind /\ op.window = Duration(t.agg.n, t.agg.unit) /\ op.offset = Offset(t.agg)
  BY <1>1, FitsNotBad, Zenon
<1>3. op = AggOf(t, op.mult, op.scope)
  BY <1>2, AggEqual, Zenon
<1>4. CASE op.scope = <<>> /\ j = i + 1
  <2>1. ParseAgg(toks, i, op.mult) = Parsed(AggOf(t, op.mult, <<>>), i + 1)
    BY <1>2, <1>4, ParseAggIs, Zenon
  <2> QED
    BY <1>3, <1>4, <2>1, ParsedGives, Zenon
<1>5. CASE SaysScope(toks, op, i) /\ j = i + 6
  <2>1. Tok(toks, i + 5).sign # End.sign
    BY <1>5, EndSign, Zenon DEF SaysScope
  <2>2. i + 5 <= Len(toks) /\ Len(toks) \in Nat
    <3>1. Len(toks) \in Nat
      BY Zenon, LenProperties DEF Clean
    <3> QED
      BY <2>1, <3>1, SignedWithin
  <2>3. i + 2 \in Nat \ {0} /\ i + 2 <= Len(toks) /\ i + 4 \in Nat \ {0} /\ i + 4 <= Len(toks)
    BY <2>2
  <2>4. Tok(toks, i + 2) # End /\ Tok(toks, i + 4) # End
    BY <2>3, WithinIsToken, Zenon
  <2>5. ~CutScope(toks, i) /\ Tok(toks, i + 1).sign = "(" /\ op.scope = s
    BY <1>5, <2>4, Zenon DEF CutScope, SaysScope
  <2>6. ParseAgg(toks, i, op.mult) = Parsed(AggOf(t, op.mult, s), i + 6)
    BY <1>2, <2>5, ParseAggIs, Zenon
  <2> QED
    BY <1>3, <1>5, <2>5, <2>6, ParsedGives, Zenon
<1> QED
  BY <1>1, <1>4, <1>5

-----------------------------------------------------------------------------
(* Operands and comparisons. *)

LEMMA OperandSound ==
  ASSUME NEW toks, Clean(toks), NEW i \in Nat \ {0}, NEW r, r = ParseOperand(toks, i), r.ok
  PROVE  SaysOperand(toks, r.val, i, r.i) /\ r.i \in Nat /\ i < r.i /\ r.i <= Len(toks) + 1
<1> DEFINE t == Tok(toks, i)
<1>0. Len(toks) \in Nat /\ t.num \in Int
  <2>1. toks \in Seq(Tokens) /\ t \in Tokens
    BY TextReads, Zenon DEF Clean, Reads
  <2> QED
    BY <2>1, LenProperties, RuleLangAssumption, Zenon
<1>1. CASE t.sign # "num"
  <2>1. r = ParseAgg(toks, i, 1)
    BY <1>1, Zenon DEF ParseOperand
  <2>2. SaysAgg(toks, r.val, i, r.i) /\ r.val.mult = 1 /\ r.i \in Nat /\ i < r.i /\ r.i <= Len(toks) + 1
    BY <2>1, AggSound
  <2> QED
    BY <2>2, Zenon DEF SaysOperand
<1>2. CASE t.sign = "num" /\ Tok(toks, i + 1).sign = "*"
  <2>0. i + 2 \in Nat \ {0}
    OBVIOUS
  <2>1. r = ParseAgg(toks, i + 2, t.num)
    BY <1>2, Zenon DEF ParseOperand
  <2>2. /\ SaysAgg(toks, r.val, i + 2, r.i) /\ r.val.mult = t.num
        /\ r.i \in Nat /\ i + 2 < r.i /\ r.i <= Len(toks) + 1
    BY <1>0, <2>0, <2>1, AggSound, Zenon
  <2>3. SaysOperand(toks, r.val, i, r.i)
    BY <1>2, <2>2, Zenon DEF SaysOperand
  <2> QED
    BY <2>2, <2>3
<1>3. CASE t.sign = "num" /\ Tok(toks, i + 1).sign # "*"
  <2>1. r = Parsed(Constant(t.num), i + 1)
    BY <1>3, Zenon DEF ParseOperand
  <2>2. r.val = Constant(t.num) /\ r.i = i + 1
    BY <2>1, ParsedFields
  <2>3. i <= Len(toks)
    <3>1. t.sign # End.sign
      BY <1>3, EndSign, Zenon
    <3> QED
      BY <3>1, SignedWithin
  <2>4. SaysOperand(toks, r.val, i, r.i)
    BY <1>3, <2>2, Zenon DEF SaysOperand
  <2> QED
    BY <1>0, <2>2, <2>3, <2>4
<1> QED
  BY <1>1, <1>2, <1>3

LEMMA OperandComplete ==
  ASSUME NEW toks, Clean(toks), NEW i \in Nat \ {0}, NEW j, NEW op \in Operands,
         SaysOperand(toks, op, i, j), Tok(toks, j).sign \notin {"(", "*"}
  PROVE  Gives(ParseOperand(toks, i), op, j)
<1> DEFINE t == Tok(toks, i)
<1>0. Tok(toks, j).sign # "(" /\ Tok(toks, j).sign # "*"
  OBVIOUS
<1>1. CASE t.sign = "num" /\ op = Constant(t.num) /\ j = i + 1
  <2>1. ParseOperand(toks, i) = Parsed(Constant(t.num), i + 1)
    BY <1>0, <1>1, Zenon DEF ParseOperand
  <2> QED
    BY <1>1, <2>1, ParsedGives, Zenon
<1>2. CASE op.mult = 1 /\ SaysAgg(toks, op, i, j)
  <2>1. Gives(ParseAgg(toks, i, op.mult), op, j)
    BY <1>0, <1>2, AggComplete
  <2>2. t.sign = "agg"
    BY <1>2, SaysAggIs, Zenon DEF Fits
  <2>3. t.sign # "num"
    BY <2>2
  <2>4. ParseOperand(toks, i) = ParseAgg(toks, i, op.mult)
    BY <1>2, <2>3, Zenon DEF ParseOperand
  <2> QED
    BY <2>1, <2>4, Zenon
<1>3. CASE t.sign = "num" /\ op.mult = t.num /\ Tok(toks, i + 1).sign = "*" /\ SaysAgg(toks, op, i + 2, j)
  <2>1. i + 2 \in Nat \ {0}
    OBVIOUS
  <2>2. Gives(ParseAgg(toks, i + 2, op.mult), op, j)
    BY <1>0, <1>3, <2>1, AggComplete, Zenon
  <2>3. ParseOperand(toks, i) = ParseAgg(toks, i + 2, op.mult)
    BY <1>3, Zenon DEF ParseOperand
  <2> QED
    BY <2>2, <2>3, Zenon
<1> QED
  BY <1>1, <1>2, <1>3, Zenon DEF SaysOperand

\* What ends a comparison: a sign that continues none of its parts.
Closes(s) == s \notin {"(", "*"}

LEMMA CmpSound ==
  ASSUME NEW toks, Clean(toks), NEW i \in Nat \ {0}, NEW r, r = ParseCmp(toks, i), r.ok
  PROVE  SaysCmp(toks, r.val, i, r.i) /\ r.i \in Nat /\ i < r.i /\ r.i <= Len(toks) + 1
<1>0. Failed.ok = FALSE
  BY DEF Failed
<1>1. PICK l, m, q, c : /\ l = ParseOperand(toks, i) /\ m = l.i /\ q = ParseOperand(toks, m + 1)
                        /\ c = [lhs |-> l.val, op |-> Tok(toks, m).sign, rhs |-> q.val]
  OBVIOUS
<1>2. l.ok /\ Tok(toks, m).sign \in Comparisons /\ q.ok /\ r = Parsed(c, q.i)
  BY <1>0, <1>1, Zenon DEF ParseCmp
<1>3. c.lhs = l.val /\ c.op = Tok(toks, m).sign /\ c.rhs = q.val
  BY <1>1, Zenon
<1>4. SaysOperand(toks, c.lhs, i, m) /\ m \in Nat /\ i < m
  BY <1>1, <1>2, <1>3, OperandSound, Zenon
<1>5. m \in Nat \ {0} /\ m + 1 \in Nat \ {0}
  BY <1>4
<1>6. m \in DOMAIN toks /\ Tok(toks, m) = toks[m]
  BY <1>2, <1>5, EndSign, SignedWithin, Zenon
<1>7. SaysOperand(toks, c.rhs, m + 1, q.i) /\ q.i \in Nat /\ m + 1 < q.i /\ q.i <= Len(toks) + 1
  BY <1>1, <1>2, <1>3, <1>5, OperandSound, Zenon
<1>8. r.val = c /\ r.i = q.i
  BY <1>2, ParsedFields
<1>9. SaysCmp(toks, r.val, i, r.i)
  BY <1>3, <1>4, <1>6, <1>7, <1>8, Zenon DEF SaysCmp
<1> QED
  BY <1>4, <1>7, <1>8, <1>9

LEMMA ComparisonIs ==
  ASSUME NEW c \in Comparison
  PROVE  c.lhs \in Operands /\ c.op \in Comparisons /\ c.rhs \in Operands /\ c = [lhs |-> c.lhs, op |-> c.op, rhs |-> c.rhs]
BY DEF Comparison

LEMMA CmpComplete ==
  ASSUME NEW toks, Clean(toks), NEW i \in Nat \ {0}, NEW j, NEW c \in Comparison,
         SaysCmp(toks, c, i, j), Closes(Tok(toks, j).sign)
  PROVE  Gives(ParseCmp(toks, i), c, j)
<1>1. PICK m \in DOMAIN toks :
        SaysOperand(toks, c.lhs, i, m) /\ toks[m].sign = c.op /\ SaysOperand(toks, c.rhs, m + 1, j)
  BY Zenon DEF SaysCmp
<1>2. m \in Nat \ {0} /\ m + 1 \in Nat \ {0} /\ Tok(toks, m) = toks[m]
  <2>1. toks \in Seq(Tokens)
    BY Zenon DEF Clean
  <2> QED
    BY <2>1 DEF Tok
<1>3. c.lhs \in Operands /\ c.op \in Comparisons /\ c.rhs \in Operands /\ c = [lhs |-> c.lhs, op |-> c.op, rhs |-> c.rhs]
  BY ComparisonIs, Zenon
<1>4. Tok(toks, m).sign = c.op /\ Tok(toks, m).sign \notin {"(", "*"} /\ Tok(toks, j).sign \notin {"(", "*"}
  <2>1. c.op # "(" /\ c.op # "*"
    BY <1>3, EndSign, Zenon
  <2> QED
    BY <1>1, <1>2, <2>1, Zenon DEF Closes
<1>5. Gives(ParseOperand(toks, i), c.lhs, m)
  BY <1>1, <1>3, <1>4, OperandComplete, Zenon
<1>6. Gives(ParseOperand(toks, m + 1), c.rhs, j)
  BY <1>1, <1>2, <1>3, <1>4, OperandComplete, Zenon
<1>7. ParseCmp(toks, i) = Parsed([lhs |-> c.lhs, op |-> c.op, rhs |-> c.rhs], j)
  BY <1>3, <1>4, <1>5, <1>6, Zenon DEF ParseCmp, Gives
<1> QED
  BY <1>3, <1>7, ParsedGives, Zenon

-----------------------------------------------------------------------------
(* A list and the places between its parts: where the part before it ends, the next one begins behind it. *)

Trail(part, sign, toks, n, vals, c) ==
  \A k \in 1..n :
    /\ c[k - 1] + 1 \in 1..(Len(toks) + 1) /\ Gives(part[c[k - 1] + 1], vals[k], c[k])
    /\ k < n => Tok(toks, c[k]).sign = sign
    /\ k = n => Tok(toks, c[k]).sign # sign

Trailed(part, sign, toks, T, j, vals, e) ==
  \E n \in Nat \ {0} : \E c \in [0..n -> Nat] :
    vals \in Seq(T) /\ Len(vals) = n /\ c[0] = j - 1 /\ c[n] = e /\ Trail(part, sign, toks, n, vals, c)

\* A list is its first part and the others.
LEMMA Joined ==
  ASSUME NEW T, NEW v \in T, NEW rest \in Seq(T)
  PROVE  /\ <<v>> \o rest \in Seq(T) /\ Len(<<v>> \o rest) = Len(rest) + 1 /\ (<<v>> \o rest)[1] = v
         /\ \A k \in 2..(Len(rest) + 1) : (<<v>> \o rest)[k] = rest[k - 1]
<1>1. <<v>> \in Seq(T) /\ Len(<<v>>) = 1 /\ <<v>>[1] = v /\ Len(rest) \in Nat
  OBVIOUS
<1> QED
  BY <1>1, ConcatProperties

LEMMA Parted ==
  ASSUME NEW T, NEW vs \in Seq(T), vs # <<>>
  PROVE  /\ vs[1] \in T /\ Tail(vs) \in Seq(T) /\ Len(Tail(vs)) = Len(vs) - 1
         /\ \A k \in 1..Len(Tail(vs)) : Tail(vs)[k] = vs[k + 1]
         /\ vs = <<vs[1]>> \o Tail(vs)
<1> DEFINE rest == Tail(vs)
<1>1. rest \in Seq(T) /\ Len(rest) = Len(vs) - 1 /\ \A k \in 1..Len(rest) : rest[k] = vs[k + 1]
  BY HeadTailProperties
<1>2. Len(vs) \in Nat /\ vs[1] \in T
  <2>1. Len(vs) \in Nat \ {0}
    BY EmptySeq, LenProperties
  <2> QED
    BY <2>1
<1> HIDE DEF rest
<1> DEFINE w == <<vs[1]>> \o rest
<1>3. w \in Seq(T) /\ Len(w) = Len(rest) + 1 /\ w[1] = vs[1] /\ \A k \in 2..(Len(rest) + 1) : w[k] = rest[k - 1]
  BY <1>1, <1>2, Joined
<1> HIDE DEF w
<1>4. \A k \in 1..Len(vs) : vs[k] = w[k]
  BY <1>1, <1>2, <1>3
<1>5. vs = w
  BY <1>1, <1>2, <1>3, <1>4, SeqEqual
<1> QED
  BY <1>1, <1>2, <1>5 DEF rest, w

LEMMA OneTrailed ==
  ASSUME NEW part, NEW sign, NEW toks, NEW T, NEW j \in 1..(Len(toks) + 1), Len(toks) \in Nat, NEW v \in T, NEW e \in Nat,
         Gives(part[j], v, e), Tok(toks, e).sign # sign
  PROVE  Trailed(part, sign, toks, T, j, <<v>>, e)
<1> DEFINE c == [k \in 0..1 |-> IF k = 0 THEN j - 1 ELSE e]
           vals == <<v>>
<1>1. c \in [0..1 -> Nat] /\ c[0] = j - 1 /\ c[1] = e /\ vals \in Seq(T) /\ Len(vals) = 1 /\ vals[1] = v
  OBVIOUS
<1> HIDE DEF c, vals
<1>2. c[1 - 1] + 1 = j
  BY <1>1
<1>3. \A k \in 1..1 : k = 1
  OBVIOUS
<1>4. Trail(part, sign, toks, 1, vals, c)
  <2>1. ASSUME NEW k \in 1..1
        PROVE  /\ c[k - 1] + 1 \in 1..(Len(toks) + 1) /\ Gives(part[c[k - 1] + 1], vals[k], c[k])
               /\ ~(k < 1) /\ Tok(toks, c[k]).sign # sign
    <3>1. k = 1
      BY <1>3
    <3> QED
      BY <1>1, <1>2, <3>1
  <2> QED
    BY <2>1 DEF Trail
<1>5. Trailed(part, sign, toks, T, j, vals, e)
  <2>1. 1 \in Nat \ {0}
    OBVIOUS
  <2> QED
    BY <1>1, <1>4, <2>1, Zenon DEF Trailed
<1> QED
  BY <1>5 DEF vals

LEMMA MoreTrailed ==
  ASSUME NEW part, NEW sign, NEW toks, NEW T, NEW j \in 1..(Len(toks) + 1), Len(toks) \in Nat, NEW v \in T, NEW m \in Nat,
         Gives(part[j], v, m), Tok(toks, m).sign = sign, NEW rest, NEW e, Trailed(part, sign, toks, T, m + 1, rest, e)
  PROVE  Trailed(part, sign, toks, T, j, <<v>> \o rest, e)
<1>0. PICK n \in Nat \ {0} : \E d \in [0..n -> Nat] :
        rest \in Seq(T) /\ Len(rest) = n /\ d[0] = (m + 1) - 1 /\ d[n] = e /\ Trail(part, sign, toks, n, rest, d)
  BY Zenon DEF Trailed
<1>1. PICK d \in [0..n -> Nat] :
        rest \in Seq(T) /\ Len(rest) = n /\ d[0] = (m + 1) - 1 /\ d[n] = e /\ Trail(part, sign, toks, n, rest, d)
  BY <1>0
<1> DEFINE vals == <<v>> \o rest
           c == [k \in 0..(n + 1) |-> IF k = 0 THEN j - 1 ELSE d[k - 1]]
<1>2. vals \in Seq(T) /\ Len(vals) = n + 1 /\ vals[1] = v /\ \A k \in 2..(n + 1) : vals[k] = rest[k - 1]
  BY <1>1, Joined
<1>3. c \in [0..(n + 1) -> Nat] /\ c[0] = j - 1 /\ \A k \in 1..(n + 1) : c[k] = d[k - 1]
  BY <1>1
<1> HIDE DEF vals, c
<1>4. Trail(part, sign, toks, n + 1, vals, c)
  <2> SUFFICES ASSUME NEW k \in 1..(n + 1)
               PROVE  /\ c[k - 1] + 1 \in 1..(Len(toks) + 1) /\ Gives(part[c[k - 1] + 1], vals[k], c[k])
                      /\ k < n + 1 => Tok(toks, c[k]).sign = sign
                      /\ k = n + 1 => Tok(toks, c[k]).sign # sign
    BY Zenon DEF Trail
  <2>1. CASE k = 1
    <3>1. c[k - 1] + 1 = j /\ c[k] = m /\ vals[k] = v /\ k < n + 1
      BY <1>1, <1>2, <1>3, <2>1
    <3> QED
      BY <3>1
  <2>2. CASE k # 1
    <3>1. k - 1 \in 1..n /\ k \in 2..(n + 1) /\ k - 1 \in 1..(n + 1) /\ k - 1 - 1 = k - 2
      BY <1>1, <2>2
    <3>2. c[k] = d[k - 1] /\ c[k - 1] = d[(k - 1) - 1] /\ vals[k] = rest[k - 1]
      BY <1>2, <1>3, <3>1
    <3>3. /\ d[(k - 1) - 1] + 1 \in 1..(Len(toks) + 1) /\ Gives(part[d[(k - 1) - 1] + 1], rest[k - 1], d[k - 1])
          /\ k - 1 < n => Tok(toks, d[k - 1]).sign = sign
          /\ k - 1 = n => Tok(toks, d[k - 1]).sign # sign
      BY <1>1, <3>1 DEF Trail
    <3> QED
      BY <1>1, <3>2, <3>3
  <2> QED
    BY <2>1, <2>2
<1>5. n + 1 \in Nat \ {0} /\ c[n + 1] = e
  BY <1>1, <1>3
<1>6. Trailed(part, sign, toks, T, j, vals, e)
  BY <1>2, <1>3, <1>4, <1>5, Zenon DEF Trailed
<1> QED
  BY <1>6 DEF vals

LEMMA ListIs ==
  ASSUME NEW S, NEW toks \in Seq(S), NEW T, NEW part, Parses(part, toks, T), NEW sign, sign # End.sign
  PROVE  \A j \in 1..(Len(toks) + 1) :
           ParseList(part, sign, toks)[j] = ListStep(part, sign, toks, ParseList(part, sign, toks), j)
<1> DEFINE f == CHOOSE f : AreLists(part, sign, toks, f)
<1>1. ParseList(part, sign, toks) = f
  BY Zenon DEF ParseList, AreLists, ListStep
<1>2. AreLists(part, sign, toks, f)
  BY ListsExist, Zenon
<1> HIDE DEF f
<1>3. \A j \in 1..(Len(toks) + 1) : f[j] = ListStep(part, sign, toks, f, j)
  BY <1>2 DEF AreLists
<1> QED
  BY <1>1, <1>3, Zenon

LEMMA ListSound ==
  ASSUME NEW S, NEW toks \in Seq(S), NEW T, NEW part, Parses(part, toks, T), NEW sign, sign # End.sign,
         NEW j \in 1..(Len(toks) + 1), ParseList(part, sign, toks)[j].ok
  PROVE  Trailed(part, sign, toks, T, j, ParseList(part, sign, toks)[j].val, ParseList(part, sign, toks)[j].i)
<1> DEFINE n == Len(toks) + 1
           f == ParseList(part, sign, toks)
           Sound(x) == f[x].ok => Trailed(part, sign, toks, T, x, f[x].val, f[x].i)
           Good == {m \in Nat : m <= n => \A x \in 1..n : n - m < x => Sound(x)}
<1>1. n \in Nat /\ Len(toks) \in Nat /\ \A x \in 1..n : f[x] = ListStep(part, sign, toks, f, x)
  BY ListIs
<1>0. Failed.ok = FALSE
  BY DEF Failed
<1> HIDE DEF f
<1>2. 0 \in Good
  BY <1>1
<1>3. ASSUME NEW m \in Nat, m \in Good PROVE m + 1 \in Good
  <2> SUFFICES ASSUME m + 1 <= n, NEW x \in 1..n, n - (m + 1) < x, f[x].ok
               PROVE  Trailed(part, sign, toks, T, x, f[x].val, f[x].i)
    OBVIOUS
  <2>1. ParseOf(part[x], x, T) /\ f[x] = ListStep(part, sign, toks, f, x)
    BY <1>1 DEF Parses
  <2>2. part[x].ok
    BY <1>0, <2>1, Zenon DEF ListStep
  <2> DEFINE v == part[x].val
             e == part[x].i
  <2>3. v \in T /\ e \in Nat /\ x < e /\ Gives(part[x], v, e)
    BY <2>1, <2>2 DEF ParseOf, Gives
  <2>4. CASE Tok(toks, e).sign # sign
    <3>1. f[x] = Parsed(<<v>>, e)
      BY <2>1, <2>2, <2>4, Zenon DEF ListStep
    <3>2. f[x].val = <<v>> /\ f[x].i = e
      BY <3>1, ParsedFields
    <3>3. Trailed(part, sign, toks, T, x, <<v>>, e)
      BY <1>1, <2>3, <2>4, OneTrailed
    <3> QED
      BY <3>2, <3>3
  <2>5. CASE Tok(toks, e).sign = sign
    <3>1. e <= Len(toks)
      BY <2>3, <2>5, TokIs
    <3>2. e + 1 \in 1..n /\ n - m < e + 1
      BY <1>1, <2>3, <3>1
    <3>3. f[x] = IF f[e + 1].ok THEN Parsed(<<v>> \o f[e + 1].val, f[e + 1].i) ELSE Failed
      BY <2>1, <2>2, <2>5, Zenon DEF ListStep
    <3>4. f[e + 1].ok
      BY <1>0, <3>3
    <3>5. Trailed(part, sign, toks, T, e + 1, f[e + 1].val, f[e + 1].i)
      BY <1>1, <1>3, <3>2, <3>4
    <3>6. f[x].val = <<v>> \o f[e + 1].val /\ f[x].i = f[e + 1].i
      <4>1. f[x] = Parsed(<<v>> \o f[e + 1].val, f[e + 1].i)
        BY <3>3, <3>4, Zenon
      <4>2. ASSUME NEW w, NEW q, f[x] = Parsed(w, q) PROVE f[x].val = w /\ f[x].i = q
        BY <4>2, ParsedFields
      <4> QED
        BY <4>1, <4>2, Zenon
    <3>7. Trailed(part, sign, toks, T, x, <<v>> \o f[e + 1].val, f[e + 1].i)
      <4> HIDE DEF v, e
      <4> QED
        BY <1>1, <2>3, <2>5, <3>5, MoreTrailed
    <3> QED
      BY <3>6, <3>7
  <2> QED
    BY <2>4, <2>5
<1>4. Nat \subseteq Good
  <2> HIDE DEF Good
  <2> QED
    BY <1>2, <1>3, AllNaturals
<1>5. \A x \in 1..n : Sound(x)
  BY <1>1, <1>4
<1> QED
  BY <1>5 DEF f

LEMMA ListComplete ==
  ASSUME NEW S, NEW toks \in Seq(S), NEW T, NEW part, Parses(part, toks, T), NEW sign, sign # End.sign,
         NEW n \in Nat \ {0}, NEW vals \in Seq(T), Len(vals) = n, NEW c \in [0..n -> Nat],
         Trail(part, sign, toks, n, vals, c)
  PROVE  Gives(ParseList(part, sign, toks)[c[0] + 1], vals, c[n])
<1> DEFINE f == ParseList(part, sign, toks)
           Complete(x) == \A vs \in Seq(T), d \in [0..x -> Nat] :
                            Len(vs) = x /\ Trail(part, sign, toks, x, vs, d) => Gives(f[d[0] + 1], vs, d[x])
           Good == {x \in Nat : x # 0 => Complete(x)}
<1>1. Len(toks) \in Nat /\ \A x \in 1..(Len(toks) + 1) : f[x] = ListStep(part, sign, toks, f, x)
  BY ListIs
<1> HIDE DEF f
<1>2. 0 \in Good
  OBVIOUS
<1>3. ASSUME NEW x \in Nat, x \in Good PROVE x + 1 \in Good
  <2> SUFFICES ASSUME NEW vs \in Seq(T), NEW d \in [0..(x + 1) -> Nat], Len(vs) = x + 1,
                      Trail(part, sign, toks, x + 1, vs, d)
               PROVE  Gives(f[d[0] + 1], vs, d[x + 1])
    <3>1. Complete(x + 1) => x + 1 \in Good
      <4> HIDE DEF Complete
      <4> QED
        OBVIOUS
    <3> QED
      BY <3>1, Zenon
  <2>1. 1 \in 1..(x + 1) /\ 1 - 1 = 0
    OBVIOUS
  <2>2. /\ d[0] + 1 \in 1..(Len(toks) + 1) /\ Gives(part[d[0] + 1], vs[1], d[1])
        /\ 1 < x + 1 => Tok(toks, d[1]).sign = sign
        /\ 1 = x + 1 => Tok(toks, d[1]).sign # sign
    BY <2>1 DEF Trail
  <2>3. f[d[0] + 1] = ListStep(part, sign, toks, f, d[0] + 1)
    BY <1>1, <2>2
  <2>4. part[d[0] + 1].ok /\ part[d[0] + 1].val = vs[1] /\ part[d[0] + 1].i = d[1]
    BY <2>2 DEF Gives
  <2>5. CASE x = 0
    <3>1. f[d[0] + 1] = Parsed(<<vs[1]>>, d[1])
      BY <2>2, <2>3, <2>4, <2>5 DEF ListStep
    <3>2. vs = <<vs[1]>>
      BY <2>5
    <3> QED
      BY <2>5, <3>1, <3>2, ParsedGives
  <2>6. CASE x # 0
    <3> DEFINE rest == Tail(vs)
               b == [k \in 0..x |-> d[k + 1]]
    <3>0. vs # <<>>
      BY <2>6, EmptySeq
    <3>1. rest \in Seq(T) /\ Len(rest) = x /\ \A k \in 1..x : rest[k] = vs[k + 1]
      BY <3>0, Parted
    <3>2. b \in [0..x -> Nat] /\ \A k \in 0..x : b[k] = d[k + 1]
      OBVIOUS
    <3>3. vs = <<vs[1]>> \o rest
      BY <3>0, Parted
    <3> HIDE DEF rest, b
    <3>4. Trail(part, sign, toks, x, rest, b)
      <4> SUFFICES ASSUME NEW k \in 1..x
                   PROVE  /\ b[k - 1] + 1 \in 1..(Len(toks) + 1) /\ Gives(part[b[k - 1] + 1], rest[k], b[k])
                          /\ k < x => Tok(toks, b[k]).sign = sign
                          /\ k = x => Tok(toks, b[k]).sign # sign
        BY Zenon DEF Trail
      <4>1. k + 1 \in 1..(x + 1) /\ k - 1 \in 0..x /\ k \in 0..x /\ (k + 1) - 1 = (k - 1) + 1
        OBVIOUS
      <4>2. b[k] = d[k + 1] /\ b[k - 1] = d[(k + 1) - 1] /\ rest[k] = vs[k + 1]
        BY <3>1, <3>2, <4>1
      <4>3. /\ d[(k + 1) - 1] + 1 \in 1..(Len(toks) + 1) /\ Gives(part[d[(k + 1) - 1] + 1], vs[k + 1], d[k + 1])
            /\ k + 1 < x + 1 => Tok(toks, d[k + 1]).sign = sign
            /\ k + 1 = x + 1 => Tok(toks, d[k + 1]).sign # sign
        BY <4>1 DEF Trail
      <4> QED
        BY <4>2, <4>3
    <3>5. Gives(f[b[0] + 1], rest, b[x])
      BY <1>3, <2>6, <3>1, <3>2, <3>4
    <3>6. Gives(f[d[1] + 1], rest, d[x + 1])
      BY <3>2, <3>5
    <3>7. f[d[0] + 1] = Parsed(<<vs[1]>> \o rest, d[x + 1])
      <4>1. Tok(toks, d[1]).sign = sign
        BY <2>2, <2>6
      <4> QED
        BY <2>3, <2>4, <3>6, <4>1, Zenon DEF ListStep, Gives
    <3> QED
      BY <3>3, <3>7, ParsedGives
  <2> QED
    BY <2>5, <2>6
<1>4. Nat \subseteq Good
  <2> HIDE DEF Good
  <2> QED
    BY <1>2, <1>3, AllNaturals
<1>5. Complete(n)
  BY <1>4
<1> QED
  BY <1>5 DEF f

-----------------------------------------------------------------------------
(* Such places are a way to cut the text. *)

IsCut(toks, sign, n, i, j, cut) ==
  /\ cut \in [0..n -> Nat] /\ cut[0] = i - 1 /\ cut[n] = j
  /\ \A k \in 1..(n - 1) : cut[k] \in DOMAIN toks /\ toks[cut[k]].sign = sign

LEMMA CutIs ==
  ASSUME NEW toks \in Seq(Tokens), NEW sign, NEW n \in Nat \ {0}, NEW i \in Nat \ {0}, NEW j \in Nat,
         NEW cut \in Cuts(toks, sign, n, i, j)
  PROVE  IsCut(toks, sign, n, i, j, cut)
<1> DEFINE places == {p \in DOMAIN toks : toks[p].sign = sign}
<1>1. PICK at \in [1..(n - 1) -> places] : cut = [k \in 0..n |-> IF k = 0 THEN i - 1 ELSE IF k = n THEN j ELSE at[k]]
  BY Zenon DEF Cuts
<1>2. places \subseteq Nat
  <2>1. DOMAIN toks = 1..Len(toks) /\ Len(toks) \in Nat
    BY LenProperties
  <2> QED
    BY <2>1
<1>3. \A k \in 0..n : k # 0 /\ k # n => k \in 1..(n - 1)
  OBVIOUS
<1>4. i - 1 \in Nat /\ 0 \in 0..n /\ n \in 0..n /\ n # 0 /\ \A k \in 1..(n - 1) : k \in 0..n /\ k # 0 /\ k # n
  OBVIOUS
<1> HIDE DEF places
<1>5. cut \in [0..n -> Nat] /\ cut[0] = i - 1 /\ cut[n] = j /\ \A k \in 1..(n - 1) : cut[k] = at[k]
  BY <1>1, <1>2, <1>3, <1>4
<1>6. \A k \in 1..(n - 1) : at[k] \in places
  BY <1>1
<1> QED
  BY <1>5, <1>6, Zenon DEF places, IsCut

LEMMA CutMade ==
  ASSUME NEW toks, NEW sign, NEW n \in Nat \ {0}, NEW i \in Nat \ {0}, NEW j \in Nat, NEW cut \in [0..n -> Nat],
         cut[0] = i - 1, cut[n] = j, \A k \in 1..(n - 1) : cut[k] \in DOMAIN toks /\ toks[cut[k]].sign = sign
  PROVE  cut \in Cuts(toks, sign, n, i, j)
<1> DEFINE places == {p \in DOMAIN toks : toks[p].sign = sign}
           at == [k \in 1..(n - 1) |-> cut[k]]
<1>1. at \in [1..(n - 1) -> places]
  OBVIOUS
<1>2. \A k \in 0..n : k # 0 /\ k # n => k \in 1..(n - 1)
  OBVIOUS
<1>3. \A k \in 0..n : cut[k] = IF k = 0 THEN i - 1 ELSE IF k = n THEN j ELSE at[k]
  BY <1>2
<1> HIDE DEF at
<1>4. cut = [k \in 0..n |-> IF k = 0 THEN i - 1 ELSE IF k = n THEN j ELSE at[k]]
  <2>1. cut = [k \in 0..n |-> cut[k]]
    OBVIOUS
  <2> QED
    BY <1>3, <2>1, Zenon
<1> QED
  BY <1>1, <1>4, Zenon DEF Cuts

LEMMA TrailCuts ==
  ASSUME NEW toks, Clean(toks), NEW T, NEW part, Parses(part, toks, T), NEW sign, sign # End.sign,
         NEW n \in Nat \ {0}, NEW vals, NEW c \in [0..n -> Nat], Trail(part, sign, toks, n, vals, c),
         NEW i \in Nat \ {0}, c[0] = i - 1
  PROVE  c \in Cuts(toks, sign, n, i, c[n])
<1>1. ASSUME NEW k \in 1..(n - 1) PROVE c[k] \in DOMAIN toks /\ toks[c[k]].sign = sign
  <2>1. k \in 1..n /\ k < n /\ k \in 0..n
    OBVIOUS
  <2> DEFINE x == c[k - 1] + 1
  <2>2. x \in 1..(Len(toks) + 1) /\ Gives(part[x], vals[k], c[k]) /\ Tok(toks, c[k]).sign = sign
    BY <2>1, Zenon DEF Trail
  <2> HIDE DEF x
  <2>3. x < c[k] /\ c[k] \in Nat
    BY <2>1, <2>2 DEF Parses, ParseOf, Gives
  <2>4. c[k] \in Nat \ {0}
    BY <2>2, <2>3
  <2>5. Tok(toks, c[k]).sign # End.sign
    BY <2>2, Zenon
  <2>6. c[k] \in DOMAIN toks /\ Tok(toks, c[k]) = toks[c[k]]
    BY <2>4, <2>5, SignedWithin, Zenon
  <2> QED
    BY <2>2, <2>6
<1>2. c[n] \in Nat
  OBVIOUS
<1> QED
  BY <1>1, <1>2, CutMade

LEMMA CmpsParse ==
  ASSUME NEW toks, Clean(toks)
  PROVE  /\ toks \in Seq(Tokens) /\ Len(toks) \in Nat /\ DOMAIN toks = 1..Len(toks)
         /\ "&&" # End.sign /\ "||" # End.sign
         /\ Parses(ParseCmps(toks), toks, Comparison)
         /\ \A j \in 1..(Len(toks) + 1) : ParseCmps(toks)[j] = ParseCmp(toks, j)
         /\ Parses(ParseAnd(toks), toks, Seq(Comparison))
<1>1. toks \in Seq(Tokens)
  BY Zenon DEF Clean
<1>2. Reads(toks) /\ Len(toks) \in Nat /\ DOMAIN toks = 1..Len(toks)
  BY <1>1, TextReads, LenProperties
<1>3. "&&" # End.sign /\ "||" # End.sign
  BY EndSign, Zenon
<1>4. \A j \in 1..(Len(toks) + 1) : ParseCmps(toks)[j] = ParseCmp(toks, j)
  BY Zenon DEF ParseCmps
<1>5. Parses(ParseCmps(toks), toks, Comparison)
  <2>1. ASSUME NEW j \in 1..(Len(toks) + 1) PROVE ParseOf(ParseCmps(toks)[j], j, Comparison)
    <3>1. j \in Nat \ {0}
      BY <1>2
    <3> QED
      BY <1>2, <1>4, <3>1, CmpParses
  <2> QED
    BY <2>1 DEF Parses
<1>6. Parses(ParseAnd(toks), toks, Seq(Comparison))
  <2>1. Parses(ParseList(ParseCmps(toks), "&&", toks), toks, Seq(Comparison))
    BY <1>1, <1>3, <1>5, ListParses, Zenon
  <2> QED
    BY <2>1, Zenon DEF ParseAnd
<1> QED
  BY <1>1, <1>2, <1>3, <1>4, <1>5, <1>6

LEMMA AndSound ==
  ASSUME NEW toks, Clean(toks), NEW i \in 1..(Len(toks) + 1), NEW r, r = ParseAnd(toks)[i], r.ok
  PROVE  SaysAnd(toks, r.val, i, r.i) /\ r.i \in Nat /\ r.i <= Len(toks) + 1
<1> DEFINE part == ParseCmps(toks)
<1>1. /\ toks \in Seq(Tokens) /\ Len(toks) \in Nat /\ "&&" # End.sign /\ Parses(part, toks, Comparison)
      /\ \A x \in 1..(Len(toks) + 1) : part[x] = ParseCmp(toks, x)
  BY CmpsParse, Zenon
<1> HIDE DEF part
<1>2. Trailed(part, "&&", toks, Comparison, i, r.val, r.i)
  <2>1. r = ParseList(part, "&&", toks)[i]
    BY Zenon DEF ParseAnd, part
  <2> QED
    BY <1>1, <2>1, ListSound, Zenon
<1>3. PICK n \in Nat \ {0} : \E c \in [0..n -> Nat] :
        /\ r.val \in Seq(Comparison) /\ Len(r.val) = n /\ c[0] = i - 1 /\ c[n] = r.i
        /\ Trail(part, "&&", toks, n, r.val, c)
  BY <1>2, Zenon DEF Trailed
<1>4. PICK c \in [0..n -> Nat] :
        /\ r.val \in Seq(Comparison) /\ Len(r.val) = n /\ c[0] = i - 1 /\ c[n] = r.i
        /\ Trail(part, "&&", toks, n, r.val, c)
  BY <1>3
<1>5. i \in Nat \ {0} /\ DOMAIN r.val = 1..n
  BY <1>1, <1>4, LenProperties
<1>6. c \in Cuts(toks, "&&", Len(r.val), i, r.i)
  <2>1. c \in Cuts(toks, "&&", n, i, c[n])
    BY <1>1, <1>4, <1>5, TrailCuts, Zenon
  <2> QED
    BY <1>4, <2>1, Zenon
<1>7. ASSUME NEW k \in 1..n PROVE SaysCmp(toks, r.val[k], c[k - 1] + 1, c[k]) /\ c[k] <= Len(toks) + 1
  <2> DEFINE x == c[k - 1] + 1
  <2>1. x \in 1..(Len(toks) + 1) /\ Gives(part[x], r.val[k], c[k])
    BY <1>4, Zenon DEF Trail
  <2> HIDE DEF x
  <2>2. x \in Nat \ {0}
    BY <1>1, <2>1
  <2>3. part[x] = ParseCmp(toks, x) /\ part[x].ok /\ part[x].val = r.val[k] /\ part[x].i = c[k]
    BY <1>1, <2>1, Zenon DEF Gives
  <2>4. SaysCmp(toks, r.val[k], x, c[k]) /\ c[k] <= Len(toks) + 1
    BY <2>2, <2>3, CmpSound, Zenon
  <2> QED
    BY <2>4 DEF x
<1>8. r.val # <<>>
  BY <1>4, EmptySeq
<1>9. SaysAnd(toks, r.val, i, r.i)
  BY <1>5, <1>6, <1>7, <1>8, Zenon DEF SaysAnd
<1>10. n \in 1..n /\ c[n] \in Nat
  OBVIOUS
<1> QED
  BY <1>4, <1>7, <1>9, <1>10

LEMMA AndComplete ==
  ASSUME NEW toks, Clean(toks), NEW i \in 1..(Len(toks) + 1), NEW j \in Nat, NEW cs \in Seq(Comparison),
         SaysAnd(toks, cs, i, j), Closes(Tok(toks, j).sign), Tok(toks, j).sign # "&&"
  PROVE  Gives(ParseAnd(toks)[i], cs, j)
<1> DEFINE part == ParseCmps(toks)
           n == Len(cs)
<1>1. /\ toks \in Seq(Tokens) /\ Len(toks) \in Nat /\ DOMAIN toks = 1..Len(toks) /\ "&&" # End.sign
      /\ Parses(part, toks, Comparison) /\ \A x \in 1..(Len(toks) + 1) : part[x] = ParseCmp(toks, x)
  BY CmpsParse, Zenon
<1> HIDE DEF part
<1>2. cs # <<>>
  BY Zenon DEF SaysAnd
<1>3. PICK cut \in Cuts(toks, "&&", n, i, j) : \A k \in DOMAIN cs : SaysCmp(toks, cs[k], cut[k - 1] + 1, cut[k])
  BY Zenon DEF SaysAnd
<1>4. n \in Nat \ {0} /\ DOMAIN cs = 1..n /\ i \in Nat \ {0} /\ \A k \in 1..n : cs[k] \in Comparison
  BY <1>1, <1>2, EmptySeq, LenProperties, ElementOfSeq
<1> HIDE DEF n
<1>5. /\ cut \in [0..n -> Nat] /\ cut[0] = i - 1 /\ cut[n] = j
      /\ \A k \in 1..(n - 1) : cut[k] \in DOMAIN toks /\ toks[cut[k]].sign = "&&"
  <2>1. cut \in Cuts(toks, "&&", n, i, j) /\ n \in Nat \ {0} /\ i \in Nat \ {0} /\ j \in Nat /\ toks \in Seq(Tokens)
    BY <1>1, <1>4
  <2>2. IsCut(toks, "&&", n, i, j, cut)
    BY <2>1, CutIs, Zenon
  <2> QED
    BY <2>2, Zenon DEF IsCut
<1>6. Closes("&&")
  BY DEF Closes
<1>7. ASSUME NEW k \in 1..n
      PROVE  /\ cut[k - 1] + 1 \in 1..(Len(toks) + 1) /\ Gives(part[cut[k - 1] + 1], cs[k], cut[k])
             /\ k < n => Tok(toks, cut[k]).sign = "&&"
             /\ k = n => Tok(toks, cut[k]).sign # "&&"
  <2> DEFINE x == cut[k - 1] + 1
  <2>1. x \in 1..(Len(toks) + 1)
    <3>1. CASE k = 1
      BY <1>4, <1>5, <3>1
    <3>2. CASE k # 1
      <4>1. k - 1 \in 1..(n - 1)
        BY <1>4, <3>2
      <4>2. cut[k - 1] \in 1..Len(toks)
        BY <1>1, <1>5, <4>1, Zenon
      <4> QED
        BY <1>1, <4>2
    <3> QED
      BY <3>1, <3>2
  <2>2. ASSUME k < n PROVE Tok(toks, cut[k]).sign = "&&"
    <3>1. k \in 1..(n - 1)
      BY <1>4, <2>2
    <3>2. cut[k] \in 1..Len(toks) /\ toks[cut[k]].sign = "&&"
      BY <1>1, <1>5, <3>1, Zenon
    <3>3. Tok(toks, cut[k]) = toks[cut[k]]
      BY <1>1, <3>2 DEF Tok
    <3> QED
      BY <3>2, <3>3, Zenon
  <2>3. Closes(Tok(toks, cut[k]).sign) /\ (k = n => Tok(toks, cut[k]).sign # "&&")
    <3>1. k < n \/ k = n
      BY <1>4
    <3> QED
      BY <1>5, <1>6, <2>2, <3>1, Zenon
  <2>4. SaysCmp(toks, cs[k], x, cut[k]) /\ cs[k] \in Comparison
    BY <1>3, <1>4, Zenon
  <2> HIDE DEF x
  <2>5. x \in Nat \ {0}
    BY <1>1, <2>1
  <2>6. Gives(part[x], cs[k], cut[k])
    BY <1>1, <2>1, <2>3, <2>4, <2>5, CmpComplete, Zenon
  <2> QED
    BY <2>1, <2>2, <2>3, <2>6 DEF x
<1>8. Trail(part, "&&", toks, n, cs, cut)
  BY <1>7, Zenon DEF Trail
<1>9. Gives(ParseList(part, "&&", toks)[cut[0] + 1], cs, cut[n])
  <2>1. Len(cs) = n
    BY DEF n
  <2> QED
    BY <1>1, <1>4, <1>5, <1>8, <2>1, ListComplete, Zenon
<1>10. cut[0] + 1 = i
  BY <1>4, <1>5
<1> QED
  BY <1>5, <1>9, <1>10, Zenon DEF ParseAnd, part

LEMMA CondSound ==
  ASSUME NEW toks, Clean(toks), ParseCond(toks).ok
  PROVE  Says(toks, ParseCond(toks).val)
<1> DEFINE part == ParseAnd(toks)
           r == Parse(toks)
<1>0. Failed.ok = FALSE
  BY DEF Failed
<1>1. /\ toks \in Seq(Tokens) /\ Len(toks) \in Nat /\ "||" # End.sign /\ Parses(part, toks, Seq(Comparison))
  BY CmpsParse, Zenon
<1>2. ParseCond(toks) = r /\ r.ok /\ Tok(toks, r.i) = End
  BY <1>0, Zenon DEF ParseCond
<1> HIDE DEF part, r
<1>3. 1 \in 1..(Len(toks) + 1)
  BY <1>1
<1>4. Trailed(part, "||", toks, Seq(Comparison), 1, r.val, r.i)
  <2>1. r = ParseList(part, "||", toks)[1]
    BY Zenon DEF Parse, part, r
  <2> QED
    BY <1>1, <1>2, <1>3, <2>1, ListSound, Zenon
<1>5. PICK n \in Nat \ {0} : \E c \in [0..n -> Nat] :
        /\ r.val \in Seq(Seq(Comparison)) /\ Len(r.val) = n /\ c[0] = 1 - 1 /\ c[n] = r.i
        /\ Trail(part, "||", toks, n, r.val, c)
  BY <1>4, Zenon DEF Trailed
<1>6. PICK c \in [0..n -> Nat] :
        /\ r.val \in Seq(Seq(Comparison)) /\ Len(r.val) = n /\ c[0] = 1 - 1 /\ c[n] = r.i
        /\ Trail(part, "||", toks, n, r.val, c)
  BY <1>5
<1>7. 1 \in Nat \ {0} /\ DOMAIN r.val = 1..n
  BY <1>6, LenProperties
<1>8. ASSUME NEW k \in 1..n
      PROVE  SaysAnd(toks, r.val[k], c[k - 1] + 1, c[k]) /\ c[k] <= Len(toks) + 1 /\ c[k - 1] + 1 < c[k]
             /\ c[k - 1] + 1 \in Nat \ {0}
  <2> DEFINE x == c[k - 1] + 1
  <2>1. x \in 1..(Len(toks) + 1) /\ Gives(part[x], r.val[k], c[k])
    BY <1>6, Zenon DEF Trail
  <2> HIDE DEF x
  <2>2. x \in Nat \ {0}
    BY <1>1, <2>1
  <2>3. part[x].ok /\ part[x].val = r.val[k] /\ part[x].i = c[k]
    BY <2>1, Zenon DEF Gives
  <2>4. SaysAnd(toks, r.val[k], x, c[k]) /\ c[k] <= Len(toks) + 1
    BY <2>1, <2>3, AndSound, Zenon DEF part
  <2>5. x < c[k]
    BY <1>1, <2>1, <2>3, Zenon DEF Parses, ParseOf
  <2> QED
    BY <2>2, <2>4, <2>5 DEF x
\* Only behind its last token has a text ended.
<1>9. c[n] = Len(toks) + 1
  <2>1. n \in 1..n /\ n \in 0..n /\ n - 1 \in 0..n
    OBVIOUS
  <2>2. c[n] \in Nat \ {0} /\ c[n] <= Len(toks) + 1
    BY <1>8, <2>1
  <2>3. ~(c[n] <= Len(toks))
    BY <1>2, <1>6, <2>2, WithinIsToken, Zenon
  <2> QED
    BY <1>1, <2>2, <2>3
<1>10. c \in Cuts(toks, "||", Len(r.val), 1, Len(toks) + 1)
  <2>1. c \in Cuts(toks, "||", n, 1, c[n])
    BY <1>1, <1>6, <1>7, TrailCuts, Zenon
  <2> QED
    BY <1>6, <1>9, <2>1, Zenon
<1>11. r.val # <<>>
  BY <1>6, EmptySeq
<1>12. Says(toks, r.val)
  BY <1>7, <1>8, <1>10, <1>11, Zenon DEF Says
<1> QED
  BY <1>2, <1>12, Zenon

LEMMA CondComplete ==
  ASSUME NEW toks, Clean(toks), NEW cond \in Rules, Says(toks, cond)
  PROVE  ParseCond(toks).ok /\ ParseCond(toks).val = cond
<1> DEFINE part == ParseAnd(toks)
           n == Len(cond)
           j == Len(toks) + 1
<1>1. /\ toks \in Seq(Tokens) /\ Len(toks) \in Nat /\ DOMAIN toks = 1..Len(toks) /\ "||" # End.sign
      /\ Parses(part, toks, Seq(Comparison))
  BY CmpsParse, Zenon
<1> HIDE DEF part
<1>2. cond # <<>> /\ cond \in Seq(Seq(Comparison)) /\ OneSort(cond)
  BY Zenon DEF Says, Rules
<1>3. PICK cut \in Cuts(toks, "||", n, 1, j) : \A k \in DOMAIN cond : SaysAnd(toks, cond[k], cut[k - 1] + 1, cut[k])
  BY Zenon DEF Says
<1>4. n \in Nat \ {0} /\ DOMAIN cond = 1..n /\ j \in Nat /\ 1 \in Nat \ {0} /\ \A k \in 1..n : cond[k] \in Seq(Comparison)
  BY <1>1, <1>2, EmptySeq, LenProperties, ElementOfSeq
<1>5. Len(cond) = n /\ Len(toks) + 1 = j
  OBVIOUS
<1> HIDE DEF n, j
<1>6. IsCut(toks, "||", n, 1, j, cut)
  BY <1>1, <1>3, <1>4, CutIs, Zenon
<1>7. /\ cut \in [0..n -> Nat] /\ cut[0] = 1 - 1 /\ cut[n] = j
      /\ \A k \in 1..(n - 1) : cut[k] \in DOMAIN toks /\ toks[cut[k]].sign = "||"
  BY <1>6, Zenon DEF IsCut
<1>8. Closes("||") /\ "||" # "&&"
  BY DEF Closes
<1>9. Tok(toks, j) = End /\ Closes(End.sign) /\ End.sign # "&&" /\ End.sign # "||"
  <2>1. Tok(toks, j) = End
    BY <1>1, <1>5 DEF Tok
  <2> QED
    BY <2>1, EndSign DEF Closes
<1>10. ASSUME NEW k \in 1..n
       PROVE  /\ cut[k - 1] + 1 \in 1..(Len(toks) + 1) /\ Gives(part[cut[k - 1] + 1], cond[k], cut[k])
              /\ k < n => Tok(toks, cut[k]).sign = "||"
              /\ k = n => Tok(toks, cut[k]).sign # "||"
  <2> DEFINE x == cut[k - 1] + 1
  <2>1. x \in 1..(Len(toks) + 1)
    <3>1. CASE k = 1
      BY <1>1, <1>4, <1>7, <3>1
    <3>2. CASE k # 1
      <4>1. k - 1 \in 1..(n - 1)
        BY <1>4, <3>2
      <4>2. cut[k - 1] \in 1..Len(toks)
        BY <1>1, <1>7, <4>1, Zenon
      <4> QED
        BY <1>1, <4>2
    <3> QED
      BY <3>1, <3>2
  <2>2. ASSUME k < n PROVE Tok(toks, cut[k]).sign = "||"
    <3>1. k \in 1..(n - 1)
      BY <1>4, <2>2
    <3>2. cut[k] \in 1..Len(toks) /\ toks[cut[k]].sign = "||"
      BY <1>1, <1>7, <3>1, Zenon
    <3>3. Tok(toks, cut[k]) = toks[cut[k]]
      BY <1>1, <3>2 DEF Tok
    <3> QED
      BY <3>2, <3>3, Zenon
  <2>3. /\ Closes(Tok(toks, cut[k]).sign) /\ Tok(toks, cut[k]).sign # "&&"
        /\ k = n => Tok(toks, cut[k]).sign # "||"
    <3>1. k < n \/ k = n
      BY <1>4
    <3> QED
      BY <1>7, <1>8, <1>9, <2>2, <3>1, Zenon
  <2>4. SaysAnd(toks, cond[k], x, cut[k]) /\ cond[k] \in Seq(Comparison)
    BY <1>3, <1>4, Zenon
  <2>5. cut[k] \in Nat
    BY <1>4, <1>7
  <2> HIDE DEF x
  <2>6. Gives(part[x], cond[k], cut[k])
    BY <2>1, <2>3, <2>4, <2>5, AndComplete, Zenon DEF part
  <2> QED
    BY <2>1, <2>2, <2>3, <2>6 DEF x
<1>11. Trail(part, "||", toks, n, cond, cut)
  BY <1>10, Zenon DEF Trail
<1>12. Gives(ParseList(part, "||", toks)[cut[0] + 1], cond, cut[n])
  BY <1>1, <1>2, <1>4, <1>5, <1>7, <1>11, ListComplete, Zenon
<1>13. cut[0] + 1 = 1
  BY <1>7
<1>14. Gives(Parse(toks), cond, j)
  BY <1>7, <1>12, <1>13, Zenon DEF Parse, part
<1>15. ~((\E op \in Comparands(cond) : Scoped(op)) /\ (\E op \in Comparands(cond) : Implicit(op)))
  BY <1>2, Zenon DEF OneSort
<1>16. ParseCond(toks) = Parse(toks)
  BY <1>9, <1>14, <1>15, Zenon DEF ParseCond, Gives
<1> QED
  BY <1>14, <1>16, Zenon DEF Gives

\* A text that is in the table has no empty token.
LEMMA TextsClean == \A t \in Texts : ShiftsUnscoped(t) => Clean(t)
BY RuleLangAssumption, Zenon DEF Clean

(* A text in which no aggregate of one entity is shifted says one condition  *)
(* at most that has aggregates of one sort, by the grammar of cond.go, and   *)
(* the parser finds it: what it refuses says none (parseCond).               *)
THEOREM TextsSayOneThing ==
  \A t \in Texts : ShiftsUnscoped(t) =>
    \A c \in Rules : Says(t, c) <=> (ParseCond(t).ok /\ ParseCond(t).val = c)
<1> SUFFICES ASSUME NEW t \in Texts, ShiftsUnscoped(t), NEW c \in Rules
             PROVE  Says(t, c) <=> (ParseCond(t).ok /\ ParseCond(t).val = c)
  BY Zenon
<1>1. Clean(t)
  BY TextsClean
<1>2. ASSUME Says(t, c) PROVE ParseCond(t).ok /\ ParseCond(t).val = c
  BY <1>1, <1>2, CondComplete, Zenon
<1>3. ASSUME ParseCond(t).ok, ParseCond(t).val = c PROVE Says(t, c)
  BY <1>1, <1>3, CondSound, Zenon
<1> QED
  BY <1>2, <1>3, Zenon

-----------------------------------------------------------------------------
(* The facts, and how far a condition looks. *)

Fact == [of : Entities, ts : Int, value : Int]
Judging == eng = "judge"

LEMMA FactIs == \A f \in Fact : f.ts \in Int /\ f.value \in Int /\ f.of \in Entities
BY DEF Fact

LEMMA Appended ==
  ASSUME NEW fs \in Seq(Fact), InTime(fs), NEW c \in Int, \A i \in DOMAIN fs : fs[i].ts <= c,
         NEW f \in Fact, f.ts = c, \A i \in DOMAIN fs : fs[i].of = f.of => fs[i].ts < c
  PROVE  /\ Append(fs, f) \in Seq(Fact) /\ InTime(Append(fs, f)) /\ Len(Append(fs, f)) = Len(fs) + 1
         /\ \A i \in DOMAIN Append(fs, f) : Append(fs, f)[i].ts <= c
         /\ \A i \in 1..Len(fs) : Append(fs, f)[i] = fs[i]
<1> DEFINE gs == Append(fs, f)
           n == Len(fs)
<1>1. gs \in Seq(Fact) /\ Len(gs) = n + 1 /\ n \in Nat /\ DOMAIN gs = 1..(n + 1) /\ DOMAIN fs = 1..n
  OBVIOUS
<1>2. gs[n + 1] = f /\ \A i \in 1..n : gs[i] = fs[i]
  OBVIOUS
<1>3. \A i \in 1..n : fs[i].ts \in Int
  <2>1. \A i \in 1..n : fs[i] \in Fact
    OBVIOUS
  <2> QED
    BY <2>1, FactIs
<1> HIDE DEF gs
<1>4. ASSUME NEW i \in 1..(n + 1) PROVE gs[i].ts <= c
  BY <1>1, <1>2, <1>4
<1>5. ASSUME NEW i \in 1..(n + 1), NEW j \in 1..(n + 1), i < j
      PROVE  gs[i].ts <= gs[j].ts /\ (gs[i].of = gs[j].of => gs[i].ts < gs[j].ts)
  <2>1. i \in 1..n /\ gs[i] = fs[i]
    BY <1>1, <1>2, <1>5
  <2>2. CASE j = n + 1
    <3>1. gs[j] = f
      BY <1>2, <2>2
    <3> QED
      BY <1>1, <2>1, <3>1
  <2>3. CASE j # n + 1
    <3>1. j \in 1..n /\ gs[j] = fs[j]
      BY <1>1, <1>2, <2>3
    <3> QED
      BY <1>1, <1>5, <2>1, <3>1 DEF InTime
  <2> QED
    BY <2>2, <2>3
<1>6. InTime(gs)
  BY <1>1, <1>5 DEF InTime
<1> QED
  BY <1>1, <1>2, <1>4, <1>6 DEF gs

LEMMA ComparandsFinite ==
  ASSUME NEW c \in Seq(Seq(Comparison))
  PROVE  IsFiniteSet(Comparands(c)) /\ Comparands(c) \subseteq Operands
<1> DEFINE Of(p) == {p.lhs, p.rhs}
           In1(s) == UNION {{s[j].lhs, s[j].rhs} : j \in DOMAIN s}
<1>1. ASSUME NEW s \in Seq(Comparison) PROVE IsFiniteSet(In1(s)) /\ In1(s) \subseteq Operands
  <2> DEFINE S == {{s[j].lhs, s[j].rhs} : j \in 1..Len(s)}
             f == [j \in 1..Len(s) |-> {s[j].lhs, s[j].rhs}]
  <2>1. DOMAIN s = 1..Len(s) /\ Len(s) \in Nat /\ \A j \in 1..Len(s) : s[j] \in Comparison
    OBVIOUS
  <2>2. S = Images(f, 1..Len(s)) /\ IsFiniteSet(1..Len(s))
    BY <2>1, FS_Interval DEF Images
  <2>3. IsFiniteSet(S)
    BY <2>2, ImagesFinite
  <2>4. \A x \in S : IsFiniteSet(x)
    BY PairFinite
  <2>5. IsFiniteSet(UNION S)
    BY <2>3, <2>4, FS_UNION
  <2>6. \A j \in 1..Len(s) : s[j].lhs \in Operands /\ s[j].rhs \in Operands
    BY <2>1, Zenon DEF Comparison
  <2>7. In1(s) = UNION S
    BY <2>1, Zenon
  <2>8. \A x \in S : x \subseteq Operands
    BY <2>6, Zenon
  <2> HIDE DEF S, In1
  <2> QED
    BY <2>5, <2>7, <2>8
<1> DEFINE S == {In1(c[i]) : i \in 1..Len(c)}
           f == [i \in 1..Len(c) |-> In1(c[i])]
<1>2. DOMAIN c = 1..Len(c) /\ Len(c) \in Nat /\ \A i \in 1..Len(c) : c[i] \in Seq(Comparison)
  OBVIOUS
<1>3. Comparands(c) = UNION S
  BY <1>2, Zenon DEF Comparands
<1> HIDE DEF In1
<1>4. S = Images(f, 1..Len(c)) /\ IsFiniteSet(1..Len(c))
  BY <1>2, FS_Interval DEF Images
<1>5. IsFiniteSet(S)
  BY <1>4, ImagesFinite
<1>6. \A x \in S : IsFiniteSet(x) /\ x \subseteq Operands
  BY <1>1, <1>2
<1>7. IsFiniteSet(UNION S) /\ UNION S \subseteq Operands
  BY <1>5, <1>6, FS_UNION
<1> QED
  BY <1>3, <1>7

LEMMA LookbackIs ==
  ASSUME NEW c \in Seq(Seq(Comparison))
  PROVE  Lookback(c) \in Nat /\ \A op \in Comparands(c) : Back(op) \in Nat /\ Back(op) <= Lookback(c)
<1> DEFINE S == {Back(op) : op \in Comparands(c)}
           f == [op \in Comparands(c) |-> Back(op)]
           T == {0} \cup S
<1>1. IsFiniteSet(Comparands(c)) /\ \A op \in Comparands(c) : Back(op) \in Nat
  <2>1. ASSUME NEW op \in Operands PROVE Back(op) \in Nat
    <3>1. op.window \in Nat /\ op.offset \in Nat
      BY DEF Operands
    <3> QED
      BY <3>1 DEF Back, Day
  <2> QED
    BY <2>1, ComparandsFinite
<1>2. IsFiniteSet(S)
  <2>1. f \in Surjection(Comparands(c), S)
    BY DEF Surjection
  <2> QED
    BY <1>1, <2>1, FS_Surjection
<1>3. IsFiniteSet(T) /\ T # {} /\ T \subseteq Nat
  <2>1. IsFiniteSet(S \cup {0}) /\ S \subseteq Nat
    BY <1>1, <1>2, FS_AddElement
  <2>2. T = S \cup {0}
    OBVIOUS
  <2> HIDE DEF S, T
  <2> QED
    BY <2>1, <2>2
<1>4. Max(T) \in T /\ \A x \in T : x <= Max(T)
  BY <1>3, GreatestOf
<1> QED
  BY <1>1, <1>3, <1>4 DEF Lookback
-----------------------------------------------------------------------------
(* The invariant. *)

FactsInv ==
  /\ facts \in Seq(Fact) /\ InTime(facts) /\ clock \in 0..MaxTime
  /\ \A i \in DOMAIN facts : facts[i].ts <= clock

RuleInv ==
  /\ text \in Texts /\ only \subseteq Entities /\ rule \in Rules
  /\ eng \in {"new", "refused", "ready", "judge"} /\ matches \subseteq Entities \cup {TheRule}

\* What a query at time t has fetched.
Fetched(t) == {i \in 1..asked : (only = {} \/ facts[i].of \in only) /\ t - Lookback(rule) <= facts[i].ts}

GotInv ==
  /\ asked \in 0..Len(facts) /\ got \subseteq 1..asked
  /\ Judging /\ asked <= QueryMax => \E t \in Nat : t <= clock /\ got = Fetched(t)

LangInv == FactsInv /\ RuleInv /\ GotInv

LEMMA NoRule == <<>> \in Rules
<1>1. <<>> \in Seq(Seq(Comparison)) /\ DOMAIN <<>> = {}
  OBVIOUS
<1>2. Comparands(<<>>) = {}
  BY <1>1, Zenon DEF Comparands
<1> QED
  BY <1>1, <1>2, Zenon DEF Rules, OneSort

LEMMA RuleTyped == rule \in Rules => rule \in Seq(Seq(Comparison)) /\ Lookback(rule) \in Nat
BY LookbackIs, Zenon DEF Rules

LEMMA JudgeTyped == \A c, fs, now : Judge(c, fs, now) \subseteq Entities \cup {TheRule}
BY Zenon DEF Judge

LEMMA LangStart == LangInit => LangInv
<1> SUFFICES ASSUME LangInit PROVE LangInv
  OBVIOUS
<1>1. /\ text \in Texts /\ only \in {{}} \cup {{e} : e \in Entities} /\ facts \in Histories
      /\ rule = <<>> /\ eng = "new" /\ clock = 0 /\ got = {} /\ asked = 0 /\ matches = {}
  BY Zenon DEF LangInit
<1>2. RuleInv
  BY <1>1, NoRule, Zenon DEF RuleInv
<1>3. facts \in Seq(Fact) /\ InTime(facts) /\ \A i \in DOMAIN facts : facts[i].ts <= 0
  BY <1>1, RuleLangAssumption, Zenon DEF Fact
<1>4. FactsInv
  BY <1>1, <1>3, RuleLangAssumption DEF FactsInv
<1>5. ~Judging
  BY <1>1 DEF Judging
<1>6. GotInv
  <2>1. Len(facts) \in Nat
    BY <1>3
  <2> QED
    BY <1>1, <1>5, <2>1 DEF GotInv
<1> QED
  BY <1>2, <1>4, <1>6, Zenon DEF LangInv

\* Facts that are added and time that passes leave what was fetched as it is.
LEMMA GotStays ==
  ASSUME FactsInv, GotInv, FactsInv', UNCHANGED <<got, asked, only, rule>>, Judging' = Judging,
         Len(facts) <= Len(facts'), \A i \in 1..Len(facts) : facts'[i] = facts[i], clock <= clock'
  PROVE  GotInv'
<1>1. Len(facts) \in Nat /\ Len(facts') \in Nat /\ clock \in Int /\ clock' \in Int
  BY DEF FactsInv
<1>2. asked' \in 0..Len(facts') /\ got' \subseteq 1..asked' /\ asked \in Nat
  BY <1>1 DEF GotInv
<1>3. ASSUME NEW t PROVE Fetched(t)' = Fetched(t)
  <2>1. \A i \in 1..asked : facts'[i] = facts[i]
    BY <1>1 DEF GotInv
  <2>2. Lookback(rule)' = Lookback(rule)
    BY DEF Lookback, Comparands
  <2> QED
    BY <2>1, <2>2 DEF Fetched
<1>4. ASSUME Judging', asked' <= QueryMax PROVE \E t \in Nat : t <= clock' /\ got' = Fetched(t)'
  <2>1. PICK t \in Nat : t <= clock /\ got = Fetched(t)
    BY <1>4 DEF GotInv
  <2> QED
    BY <1>1, <1>3, <2>1
<1> QED
  BY <1>2, <1>4 DEF GotInv

LEMMA QueryFetches ==
  ASSUME FactsInv, RuleInv, asked' = Len(facts), UNCHANGED <<facts, only, rule, clock>>,
         LET all == {i \in DOMAIN facts : clock - Lookback(rule) <= facts[i].ts}
         IN  got' = InScope({i \in all : Cardinality({j \in all : j <= i}) <= QueryMax})
  PROVE  GotInv'
<1> DEFINE n == Len(facts)
           all == {i \in DOMAIN facts : clock - Lookback(rule) <= facts[i].ts}
           oldest == {i \in all : Cardinality({j \in all : j <= i}) <= QueryMax}
<1>1. n \in Nat /\ DOMAIN facts = 1..n /\ clock \in Nat /\ n \in 0..n
  BY RuleLangAssumption DEF FactsInv
<1>2. got' = {i \in oldest : only = {} \/ facts[i].of \in only}
  BY DEF InScope
<1>3. got' \subseteq 1..n
  BY <1>1, <1>2
<1>4. ASSUME n <= QueryMax PROVE oldest = all
  <2>1. ASSUME NEW i \in all PROVE Cardinality({j \in all : j <= i}) <= QueryMax
    <3> DEFINE s == {j \in all : j <= i}
    <3>1. s \subseteq 1..n
      BY <1>1
    <3>2. IsFiniteSet(1..n) /\ Cardinality(1..n) = n
      <4> HIDE DEF n
      <4> QED
        BY <1>1, FS_Interval
    <3>3. Cardinality(s) \in Nat /\ Cardinality(s) <= n
      BY <3>1, <3>2, FS_Subset, FS_CardinalityType
    <3>4. QueryMax \in Nat
      BY RuleLangAssumption, Zenon
    <3>5. Cardinality(s) <= QueryMax
      <4> HIDE DEF s, n
      <4> QED
        BY <1>1, <1>4, <3>3, <3>4
    <3> QED
      BY <3>5, Zenon
  <2> HIDE DEF all
  <2> QED
    BY <2>1
<1>5. ASSUME n <= QueryMax, NEW t, t = clock PROVE got' = Fetched(t)'
  <2>1. Lookback(rule)' = Lookback(rule)
    BY DEF Lookback, Comparands
  <2>2. Fetched(t)' = {i \in 1..n : (only = {} \/ facts[i].of \in only) /\ t - Lookback(rule) <= facts[i].ts}
    BY <1>1, <2>1 DEF Fetched
  <2>3. got' = {i \in all : only = {} \/ facts[i].of \in only}
    BY <1>2, <1>4, <1>5
  <2> QED
    BY <1>1, <1>5, <2>2, <2>3
<1>6. ASSUME asked' <= QueryMax PROVE \E t \in Nat : t <= clock' /\ got' = Fetched(t)'
  <2>1. PICK t : t = clock
    OBVIOUS
  <2>2. got' = Fetched(t)'
    BY <1>5, <1>6, <2>1
  <2>3. t \in Nat /\ t <= clock'
    BY <1>1, <2>1
  <2> QED
    BY <2>2, <2>3, Zenon
<1> HIDE DEF n
<1> QED
  BY <1>1, <1>3, <1>6 DEF GotInv, n
LEMMA LangStep == LangInv /\ [LangNext]_langvars => LangInv'
<1> SUFFICES ASSUME LangInv, [LangNext]_langvars PROVE LangInv'
  OBVIOUS
<1>0. FactsInv /\ RuleInv /\ GotInv
  BY DEF LangInv
<1>1. CASE NewRule
  <2> DEFINE c == ParseCond(text)
  <2>1. /\ eng # "judge" /\ eng' = (IF c.ok THEN "ready" ELSE "refused") /\ rule' = c.val
        /\ UNCHANGED <<text, only, clock, facts, got, asked, matches>>
    BY <1>1, Zenon DEF NewRule
  <2>2. c.ok \in BOOLEAN /\ (c.ok => c.val \in Rules) /\ (~c.ok => c.val = <<>>)
    <3>1. text \in Seq(Tokens)
      BY <1>0, RuleLangAssumption, Zenon DEF RuleInv
    <3> QED
      BY <3>1, CondParses, Zenon
  <2>3. rule' \in Rules
    BY <2>1, <2>2, NoRule, Zenon
  <2> HIDE DEF c
  <2>4. RuleInv'
    BY <1>0, <2>1, <2>3, Zenon DEF RuleInv
  <2>5. ~Judging'
    BY <2>1 DEF Judging
  <2>6. FactsInv' /\ GotInv'
    BY <1>0, <2>1, <2>5 DEF FactsInv, GotInv
  <2> QED
    BY <2>4, <2>6 DEF LangInv
<1>2. CASE TimePasses
  <2>1. /\ clock + Grain <= MaxTime /\ clock' = clock + Grain
        /\ UNCHANGED <<text, only, rule, eng, facts, got, asked, matches>>
    BY <1>2, Zenon DEF TimePasses
  <2>2. Grain \in Nat /\ MaxTime \in Nat
    BY RuleLangAssumption, Zenon
  <2>3. clock \in Nat /\ clock' \in 0..MaxTime /\ clock <= clock'
    BY <1>0, <2>1, <2>2 DEF FactsInv
  <2>4. FactsInv'
    <3>1. \A i \in DOMAIN facts : facts[i].ts \in Int
      <4>1. \A i \in DOMAIN facts : facts[i] \in Fact
        BY <1>0 DEF FactsInv
      <4> QED
        BY <4>1, FactIs
    <3>2. InTime(facts)' = InTime(facts)
      BY <2>1 DEF InTime
    <3> QED
      BY <1>0, <2>1, <2>3, <3>1, <3>2 DEF FactsInv
  <2>5. Judging' = Judging
    BY <2>1 DEF Judging
  <2>6. Len(facts) <= Len(facts') /\ \A i \in 1..Len(facts) : facts'[i] = facts[i]
    BY <1>0, <2>1 DEF FactsInv
  <2>7. GotInv'
    BY <1>0, <2>1, <2>3, <2>4, <2>5, <2>6, GotStays
  <2>8. RuleInv'
    BY <1>0, <2>1, Zenon DEF RuleInv
  <2> QED
    BY <2>4, <2>7, <2>8 DEF LangInv
<1>3. CASE QueryRound
  <2>1. /\ eng' = "judge" /\ asked' = Len(facts) /\ matches' = {} /\ UNCHANGED <<text, only, rule, clock, facts>>
        /\ LET all == {i \in DOMAIN facts : clock - Lookback(rule) <= facts[i].ts}
           IN  got' = InScope({i \in all : Cardinality({j \in all : j <= i}) <= QueryMax})
    BY <1>3, Zenon DEF QueryRound
  <2>2. GotInv'
    BY <1>0, <2>1, QueryFetches
  <2>3. RuleInv'
    BY <1>0, <2>1, Zenon DEF RuleInv
  <2>4. FactsInv'
    BY <1>0, <2>1, Zenon DEF FactsInv, InTime
  <2> QED
    BY <2>2, <2>3, <2>4 DEF LangInv
<1>4. CASE JudgeRound
  <2>1. /\ eng' = "ready" /\ matches' = Judge(rule, got, clock) /\ got' = {} /\ asked' = 0
        /\ UNCHANGED <<text, only, rule, clock, facts>>
    BY <1>4, Zenon DEF JudgeRound
  <2>2. RuleInv'
    <3>1. matches' \subseteq Entities \cup {TheRule}
      BY <2>1, JudgeTyped, Zenon
    <3> QED
      BY <1>0, <2>1, <3>1, Zenon DEF RuleInv
  <2>3. ~Judging'
    BY <2>1 DEF Judging
  <2>4. GotInv'
    BY <1>0, <2>1, <2>3 DEF GotInv, FactsInv
  <2>5. FactsInv'
    BY <1>0, <2>1, Zenon DEF FactsInv, InTime
  <2> QED
    BY <2>2, <2>4, <2>5 DEF LangInv
<1>5. ASSUME NEW e \in Entities, NEW v \in Values, Reading(e, v) PROVE LangInv'
  <2> DEFINE f == [of |-> e, ts |-> clock, value |-> v]
  <2>1. /\ \A i \in DOMAIN facts : facts[i].of = e => facts[i].ts < clock
        /\ facts' = Append(facts, f) /\ UNCHANGED <<text, only, rule, eng, clock, got, asked, matches>>
    BY <1>5, Zenon DEF Reading
  <2>2. clock \in Int /\ v \in Int
    <3>1. v \in Int
      BY RuleLangAssumption, Zenon
    <3> QED
      BY <1>0, <3>1 DEF FactsInv
  <2>3. f \in Fact /\ f.ts = clock /\ f.of = e
    BY <2>2 DEF Fact
  <2> HIDE DEF f
  <2>4. /\ facts' \in Seq(Fact) /\ InTime(facts') /\ Len(facts') = Len(facts) + 1
        /\ \A i \in DOMAIN facts' : facts'[i].ts <= clock
        /\ \A i \in 1..Len(facts) : facts'[i] = facts[i]
    <3>1. facts \in Seq(Fact) /\ InTime(facts) /\ \A i \in DOMAIN facts : facts[i].ts <= clock
      BY <1>0, Zenon DEF FactsInv
    <3>2. \A i \in DOMAIN facts : facts[i].of = f.of => facts[i].ts < clock
      BY <2>1, <2>3, Zenon
    <3> QED
      BY <2>1, <2>2, <2>3, <3>1, <3>2, Appended, Zenon
  <2>5. FactsInv'
    BY <1>0, <2>1, <2>4, Zenon DEF FactsInv, InTime
  <2>6. Judging' = Judging
    BY <2>1 DEF Judging
  <2>7. Len(facts) <= Len(facts') /\ clock <= clock'
    BY <1>0, <2>1, <2>2, <2>4 DEF FactsInv
  <2>8. GotInv'
    BY <1>0, <2>1, <2>4, <2>5, <2>6, <2>7, GotStays
  <2>9. RuleInv'
    BY <1>0, <2>1, Zenon DEF RuleInv
  <2> QED
    BY <2>5, <2>8, <2>9 DEF LangInv
<1>6. CASE UNCHANGED langvars
  <2>1. UNCHANGED <<text, only, rule, eng, clock, facts, got, asked, matches>>
    BY <1>6, Zenon DEF langvars
  <2>2. FactsInv' /\ RuleInv'
    BY <1>0, <2>1, Zenon DEF FactsInv, RuleInv, InTime
  <2>3. Judging' = Judging
    BY <2>1 DEF Judging
  <2>4. Len(facts) <= Len(facts') /\ clock <= clock'
    BY <1>0, <2>1 DEF FactsInv
  <2>5. GotInv'
    BY <1>0, <2>1, <2>2, <2>3, <2>4, GotStays
  <2> QED
    BY <2>2, <2>5 DEF LangInv
<1> QED
  BY <1>1, <1>2, <1>3, <1>4, <1>5, <1>6, Zenon DEF LangNext

LEMMA LangInvTypes == LangInv => LangTypeOK
<1> SUFFICES ASSUME LangInv PROVE LangTypeOK
  OBVIOUS
<1>1. FactsInv /\ RuleInv /\ GotInv
  BY DEF LangInv
<1>2. rule \in Seq(Seq([lhs : Operands, op : Comparisons, rhs : Operands]))
  BY <1>1, RuleTyped, Zenon DEF RuleInv, Comparison
<1>3. facts \in Seq([of : Entities, ts : Int, value : Int]) /\ clock \in 0..MaxTime
  BY <1>1, Zenon DEF FactsInv, Fact
<1>4. got \subseteq DOMAIN facts /\ asked \in 0..Len(facts)
  BY <1>1 DEF FactsInv, GotInv
<1>5. text \in Seq(Tokens)
  BY <1>1, RuleLangAssumption, Zenon DEF RuleInv
<1> QED
  BY <1>1, <1>2, <1>3, <1>4, <1>5, Zenon DEF LangTypeOK, RuleInv, Rules

(* Types of the rule language, whatever the texts of its rules: in           *)
(* particular every condition the parser accepts is one of comparisons of    *)
(* operands, and a query returns positions of facts.                         *)
THEOREM LangTypes == LangSpec => []LangTypeOK
<1>1. LangSpec => []LangInv
  BY LangStart, LangStep, PTL DEF LangSpec
<1> QED
  BY <1>1, LangInvTypes, PTL
-----------------------------------------------------------------------------
(* The facts of one entity, by their positions, and as a set. *)

At(P) == Images(facts, P)

\* Positions of facts that were taken one after the other.
Timed(P, n) ==
  /\ n \in Nat /\ P \in SUBSET (1..n)
  /\ \A i \in P : facts[i].ts \in Int /\ facts[i].value \in Int
  /\ \A i, j \in P : i < j => facts[i].ts < facts[j].ts

LEMMA TimedSubset == ASSUME NEW n, NEW P, Timed(P, n), NEW Q \in SUBSET P PROVE Timed(Q, n)
BY DEF Timed

LEMMA TimedOneToOne ==
  ASSUME NEW n, NEW P, Timed(P, n)
  PROVE  /\ OneToOne(facts, P) /\ IsFiniteSet(P) /\ Cardinality(P) \in Nat
         /\ IsFiniteSet(At(P)) /\ Cardinality(At(P)) = Cardinality(P)
<1>1. ASSUME NEW i \in P, NEW j \in P, facts[i] = facts[j] PROVE i = j
  <2>0. facts[i].ts = facts[j].ts
    BY <1>1, Zenon
  <2>1. i \in Int /\ j \in Int /\ facts[i].ts = facts[j].ts /\ facts[i].ts \in Int
    BY <2>0 DEF Timed
  <2>2. ~(i < j) /\ ~(j < i)
    BY <2>1 DEF Timed
  <2> QED
    BY <2>1, <2>2
<1>2. OneToOne(facts, P)
  BY <1>1 DEF OneToOne
<1>3. IsFiniteSet(P)
  <2>1. IsFiniteSet(1..n) /\ P \subseteq 1..n
    BY FS_Interval DEF Timed
  <2> QED
    BY <2>1, FS_Subset
<1> QED
  BY <1>2, <1>3, FS_CardinalityType, ImagesFinite DEF At

LEMMA NewestIs ==
  ASSUME NEW n, NEW P, Timed(P, n), P # {}
  PROVE  /\ Max(P) \in P /\ \A i \in P : i <= Max(P) /\ facts[i].ts <= facts[Max(P)].ts
         /\ Newest(At(P)) = facts[Max(P)]
<1> DEFINE m == Max(P)
<1>1. m \in P /\ \A i \in P : i <= m
  BY GreatestPosition DEF Timed
<1> HIDE DEF m
<1>2. \A i \in P : i \in Int /\ facts[i].ts \in Int
  BY DEF Timed
<1>3. ASSUME NEW i \in P PROVE facts[i].ts <= facts[m].ts /\ (i # m => facts[i].ts < facts[m].ts)
  <2>1. CASE i = m
    BY <1>2, <2>1
  <2>2. CASE i # m
    <3>1. i < m
      BY <1>1, <1>2, <2>2
    <3>2. facts[i].ts < facts[m].ts
      BY <1>1, <3>1 DEF Timed
    <3> QED
      BY <1>1, <1>2, <3>2
  <2> QED
    BY <2>1, <2>2
<1>4. facts[m] \in At(P) /\ \A g \in At(P) : g.ts <= facts[m].ts
  BY <1>1, <1>3 DEF At, Images
<1>5. ASSUME NEW f \in At(P), \A g \in At(P) : g.ts <= f.ts PROVE f = facts[m]
  <2>1. PICK i \in P : f = facts[i]
    BY DEF At, Images
  <2>2. facts[m].ts <= facts[i].ts
    BY <1>4, <1>5, <2>1
  <2>3. i = m
    BY <1>1, <1>2, <1>3, <2>2
  <2> QED
    BY <2>1, <2>3
<1>6. Newest(At(P)) = facts[m]
  BY <1>4, <1>5, Zenon DEF Newest
<1> QED
  BY <1>1, <1>3, <1>6 DEF m

LEMMA SumIs ==
  ASSUME NEW n, NEW P, Timed(P, n)
  PROVE  SumValues(P) = SumFunctionOnSet([f \in At(P) |-> f.value], At(P))
<1> DEFINE F == [i \in P |-> facts[i].value]
           G == [f \in At(P) |-> f.value]
<1>1. Ints(F, P)
  BY DEF Ints, Timed
<1>2. \A i \in P : facts[i] \in At(P)
  BY DEF At, Images
<1>3. \A i \in P : F[i] = G[facts[i]]
  BY <1>2
<1> HIDE DEF F, G
<1>4. SumFunctionOnSet(F, P) = SumFunctionOnSet(G, Images(facts, P))
  BY <1>1, <1>3, TimedOneToOne, SumThrough
<1> QED
  BY <1>4 DEF SumValues, F, G, At

\* A set of facts that is not empty has one of the least, and one of the greatest value.
LEMMA LeastValue ==
  ASSUME NEW n, NEW P, Timed(P, n), P # {}
  PROVE  /\ \E i \in P : \A j \in P : facts[i].value <= facts[j].value
         /\ \E i \in P : \A j \in P : facts[j].value <= facts[i].value
<1> DEFINE Has(A) == A = {} \/ (/\ \E i \in A : \A j \in A : facts[i].value <= facts[j].value
                                /\ \E i \in A : \A j \in A : facts[j].value <= facts[i].value)
           Good == {A \in SUBSET P : Has(A)}
<1>1. \A i \in P : facts[i].value \in Int
  BY DEF Timed
<1>2. {} \in Good
  OBVIOUS
<1>3. ASSUME NEW A \in SUBSET P, A # {}, A \ {Chosen(A)} \in Good PROVE A \in Good
  <2> DEFINE c == Chosen(A)
             B == A \ {c}
  <2>1. c \in A
    BY <1>3, ChosenIn
  <2> HIDE DEF c
  <2>2. Has(B)
    BY <1>3 DEF c
  <2>3. CASE B = {}
    <3>1. A = {c}
      BY <2>1, <2>3
    <3> QED
      BY <1>1, <2>1, <3>1
  <2>4. CASE B # {}
    <3>1. PICK a \in B : \A j \in B : facts[a].value <= facts[j].value
      BY <2>2, <2>4
    <3>2. PICK b \in B : \A j \in B : facts[j].value <= facts[b].value
      BY <2>2, <2>4
    <3>3. A = B \cup {c} /\ \A j \in A : facts[j].value \in Int
      BY <1>1, <2>1
    <3> HIDE DEF B
    <3>4. \E i \in A : \A j \in A : facts[i].value <= facts[j].value
      <4>1. CASE facts[a].value <= facts[c].value
        BY <3>1, <3>3, <4>1
      <4>2. CASE ~(facts[a].value <= facts[c].value)
        BY <3>1, <3>3, <4>2
      <4> QED
        BY <4>1, <4>2
    <3>5. \E i \in A : \A j \in A : facts[j].value <= facts[i].value
      <4>1. CASE facts[c].value <= facts[b].value
        BY <3>2, <3>3, <4>1
      <4>2. CASE ~(facts[c].value <= facts[b].value)
        BY <3>2, <3>3, <4>2
      <4> QED
        BY <4>1, <4>2
    <3> QED
      BY <3>4, <3>5
  <2> QED
    BY <2>3, <2>4
<1>4. SUBSET P \subseteq Good
  <2> HIDE DEF Good
  <2>1. IsFiniteSet(P)
    BY TimedOneToOne
  <2> QED
    BY <1>2, <1>3, <2>1, AllSubsets
<1>5. P \in Good
  BY <1>4
<1> QED
  BY <1>5

\* Numbers of facts by their value.
NotAboveIs(P, i) == {j \in P : facts[j].value <= facts[i].value}

LEMMA NotAboveCount ==
  ASSUME NEW n, NEW P, Timed(P, n), NEW i \in P
  PROVE  /\ Cardinality(NotAbove(facts[i], At(P))) = Cardinality(NotAboveIs(P, i))
         /\ Cardinality(NotAboveIs(P, i)) \in Nat
<1> DEFINE Q == NotAboveIs(P, i)
<1>1. Q \in SUBSET P
  BY DEF NotAboveIs
<1>2. Timed(Q, n)
  BY <1>1, TimedSubset, Zenon
<1>3. NotAbove(facts[i], At(P)) = At(Q)
  BY DEF NotAbove, NotAboveIs, At, Images
<1> QED
  BY <1>2, <1>3, TimedOneToOne

LEMMA QuarterIs ==
  ASSUME NEW c \in Nat, NEW k \in Nat
  PROVE  (c + 3) \div 4 \in Nat /\ (4 * k >= c <=> k >= (c + 3) \div 4)
OBVIOUS

LEMMA QuartileIs ==
  ASSUME NEW n, NEW P, Timed(P, n), P # {}
  PROVE  Quartile(At(P)) = Ranked(P, (Cardinality(P) + 3) \div 4)
<1> DEFINE c == Cardinality(P)
           k == (c + 3) \div 4
           low == {f \in At(P) : 4 * Cardinality(NotAbove(f, At(P))) >= Cardinality(At(P))}
           L == {i \in P : k <= Cardinality(NotAboveIs(P, i))}
           Below(v) == {j \in P : facts[j].value < v}
           UpTo(v) == {j \in P : facts[j].value <= v}
           Vals == {facts[i].value : i \in P}
<1>1. c \in Nat /\ k \in Nat /\ Cardinality(At(P)) = c /\ IsFiniteSet(P)
  <2>1. c \in Nat
    BY TimedOneToOne
  <2> QED
    BY <2>1, TimedOneToOne, QuarterIs
<1>2. \A i \in P : facts[i].value \in Int
  BY DEF Timed
<1>3. low = At(L)
  <2>1. ASSUME NEW i \in P
        PROVE  4 * Cardinality(NotAbove(facts[i], At(P))) >= Cardinality(At(P)) <=> k <= Cardinality(NotAboveIs(P, i))
    <3> DEFINE q == Cardinality(NotAboveIs(P, i))
    <3>1. Cardinality(NotAbove(facts[i], At(P))) = q /\ q \in Nat
      BY NotAboveCount
    <3> HIDE DEF q, c
    <3>2. 4 * q >= c <=> q >= (c + 3) \div 4
      BY <1>1, <3>1, QuarterIs
    <3>3. q >= k <=> k <= q
      BY <1>1, <3>1
    <3> QED
      BY <1>1, <3>1, <3>2, <3>3 DEF q
  <2> HIDE DEF k
  <2> QED
    BY <2>1 DEF At, Images
<1> HIDE DEF k, c
<1>4. \A v : IsFiniteSet(UpTo(v)) /\ IsFiniteSet(Below(v)) /\ Cardinality(UpTo(v)) \in Nat /\ Cardinality(Below(v)) \in Nat
  <2>1. \A v : UpTo(v) \subseteq P /\ Below(v) \subseteq P
    OBVIOUS
  <2> HIDE DEF UpTo, Below
  <2> QED
    BY <1>1, <2>1, FS_Subset, FS_CardinalityType
<1>5. \A A, B : IsFiniteSet(B) /\ A \subseteq B => Cardinality(A) <= Cardinality(B)
  BY FS_Subset
<1>6. k <= c /\ k > 0
  <2>1. c > 0
    BY <1>1, FS_EmptySet DEF c
  <2> QED
    BY <1>1, <2>1 DEF k
<1>7. L # {}
  <2>1. PICK i \in P : \A j \in P : facts[j].value <= facts[i].value
    BY LeastValue
  <2>2. NotAboveIs(P, i) = P
    BY <2>1 DEF NotAboveIs
  <2>3. k <= Cardinality(NotAboveIs(P, i))
    BY <1>6, <2>2 DEF c
  <2> QED
    BY <2>3
<1>8. PICK m \in L : \A j \in L : facts[m].value <= facts[j].value
  <2>1. Timed(L, n)
    BY TimedSubset
  <2> HIDE DEF L
  <2> QED
    BY <1>7, <2>1, LeastValue
<1> DEFINE w == facts[m].value
<1>9. m \in P /\ w \in Int /\ w \in Vals /\ k <= Cardinality(UpTo(w))
  BY <1>2, <1>8 DEF NotAboveIs
<1>10. Quartile(At(P)) = w
  <2>1. facts[m] \in low /\ \A g \in low : facts[m].value <= g.value
    <3> HIDE DEF L, low
    <3> QED
      BY <1>3, <1>8 DEF At, Images
  <2>2. ASSUME NEW f \in low, \A g \in low : f.value <= g.value PROVE f.value = w
    <3>1. PICK i \in P : f = facts[i]
      BY DEF At, Images
    <3>2. f.value <= w /\ w <= f.value
      BY <2>1, <2>2
    <3> QED
      BY <1>2, <1>9, <3>1, <3>2
  <2> DEFINE h == CHOOSE f \in low : \A g \in low : f.value <= g.value
  <2>3. h \in low /\ \A g \in low : h.value <= g.value
    <3> HIDE DEF low
    <3> QED
      BY <2>1, Zenon
  <2>4. h.value = w
    <3> HIDE DEF h, low
    <3> QED
      BY <2>2, <2>3
  <2>5. Quartile(At(P)) = h.value
    BY Zenon DEF Quartile
  <2> QED
    BY <2>4, <2>5
<1>11. Cardinality(Below(w)) < k
  <2> SUFFICES ASSUME ~(Cardinality(Below(w)) < k) PROVE FALSE
    OBVIOUS
  <2>0. Cardinality(Below(w)) \in Nat
    BY <1>4
  <2>1. k <= Cardinality(Below(w)) /\ Below(w) # {}
    <3>1. k <= Cardinality(Below(w))
      <4> HIDE DEF Below
      <4> QED
        BY <1>1, <2>0
    <3>2. Below(w) = {} => Cardinality(Below(w)) = 0
      BY FS_EmptySet
    <3> HIDE DEF Below
    <3> QED
      BY <1>6, <3>1, <3>2, <1>1
  <2>2. Timed(Below(w), n)
    BY TimedSubset
  <2>3. PICK i \in Below(w) : \A j \in Below(w) : facts[j].value <= facts[i].value
    <3> HIDE DEF Below
    <3> QED
      BY <2>1, <2>2, LeastValue
  <2>4. i \in P /\ facts[i].value < w
    BY <2>3
  <2>5. Below(w) \subseteq NotAboveIs(P, i)
    BY <2>3 DEF NotAboveIs
  <2>6. k <= Cardinality(NotAboveIs(P, i))
    <3>1. NotAboveIs(P, i) \subseteq P /\ IsFiniteSet(NotAboveIs(P, i)) /\ Cardinality(NotAboveIs(P, i)) \in Nat
      BY <1>1, FS_Subset, FS_CardinalityType DEF NotAboveIs
    <3>2. Cardinality(Below(w)) <= Cardinality(NotAboveIs(P, i))
      BY <2>5, <3>1, <1>5
    <3> HIDE DEF Below
    <3> QED
      BY <1>1, <2>0, <2>1, <3>1, <3>2
  <2>7. w <= facts[i].value
    BY <1>8, <2>4, <2>6
  <2> QED
    BY <1>2, <1>9, <2>4, <2>7
<1>12. ASSUME NEW v \in Vals, NEW u \in Vals, v < u, k <= Cardinality(UpTo(v)), Cardinality(Below(u)) < k PROVE FALSE
  <2>1. v \in Int /\ u \in Int
    BY <1>2
  <2>2. UpTo(v) \subseteq Below(u)
    BY <1>2, <1>12, <2>1
  <2>3. Cardinality(UpTo(v)) <= Cardinality(Below(u))
    BY <1>4, <1>5, <2>2
  <2> HIDE DEF UpTo, Below
  <2> QED
    BY <1>1, <1>4, <1>12, <2>3
<1> DEFINE Is(v) == Cardinality(Below(v)) < k /\ k <= Cardinality(UpTo(v))
<1>13. ASSUME NEW v \in Vals, Is(v) PROVE v = w
  <2>1. v \in Int /\ w \in Vals /\ Is(w)
    BY <1>2, <1>9, <1>11
  <2>2. ~(v < w) /\ ~(w < v)
    BY <1>12, <1>13, <2>1
  <2> QED
    BY <1>9, <2>1, <2>2
<1>14. Ranked(P, k) = CHOOSE v \in Vals : Is(v)
  BY Zenon DEF Ranked
<1>15. (CHOOSE v \in Vals : Is(v)) = w
  <2>1. w \in Vals /\ Is(w)
    BY <1>9, <1>11
  <2> HIDE DEF Is, Vals, w
  <2> QED
    BY <1>13, <2>1, Zenon
<1> QED
  BY <1>10, <1>14, <1>15 DEF k, c

\* The value before the last one is found in the facts fetched if it was fetched at all.
LEMMA ChangeIs ==
  ASSUME NEW n, NEW P, Timed(P, n), NEW lo \in Int, NEW m \in P, lo <= facts[m].ts,
         NEW E, E = {i \in P : facts[i].ts < facts[m].ts}, E # {} => lo <= facts[Max(E)].ts
  PROVE  ValueChange({i \in P : lo <= facts[i].ts}, m) =
           IF E = {} THEN Undefined ELSE Ratio(facts[m].value - facts[Max(E)].value, 1)
<1> DEFINE S == {i \in P : lo <= facts[i].ts}
           U == {i \in S : facts[i].ts <= facts[m].ts}
           R == {i \in E : lo <= facts[i].ts}
<1>1. \A i \in P : i \in Int /\ facts[i].ts \in Int
  BY DEF Timed
<1>2. ASSUME NEW i \in P PROVE (facts[i].ts < facts[m].ts <=> i < m) /\ (facts[i].ts <= facts[m].ts <=> i <= m)
  <2>1. CASE i < m
    BY <1>1, <2>1 DEF Timed
  <2>2. CASE m < i
    <3>1. facts[m].ts < facts[i].ts
      BY <2>2 DEF Timed
    <3> QED
      BY <1>1, <2>2, <3>1
  <2>3. CASE i = m
    BY <1>1, <2>3
  <2> QED
    BY <1>1, <2>1, <2>2, <2>3
<1>3. U = R \cup {m} /\ m \notin R /\ \A i \in U : i \in P /\ i <= m
  <2>1. \A i \in U : i \in P /\ i <= m
    BY <1>2
  <2>2. \A i \in U : i = m \/ i \in R
    BY <1>1, <1>2
  <2>3. \A i \in R : i \in U /\ i # m
    BY <1>1, <1>2
  <2>4. m \in U
    BY <1>1
  <2> HIDE DEF U, R
  <2> QED
    BY <2>1, <2>2, <2>3, <2>4
<1>4. U \in SUBSET P /\ R \in SUBSET P /\ E \in SUBSET P
  OBVIOUS
<1>5. Timed(U, n) /\ Timed(R, n) /\ Timed(E, n)
  BY <1>4, TimedSubset
<1> HIDE DEF U, R
<1>6. Max(U) = m /\ U \ {m} = R
  <2>1. Max(U) \in U /\ \A i \in U : i <= Max(U)
    BY <1>3, <1>5, NewestIs
  <2>2. Max(U) <= m /\ m <= Max(U) /\ Max(U) \in Int
    BY <1>1, <1>3, <2>1
  <2> QED
    BY <1>1, <1>3, <2>2
<1>7. Cardinality(U) < 2 <=> R = {}
  <2>1. IsFiniteSet(R) /\ Cardinality(R) \in Nat
    BY <1>5, TimedOneToOne
  <2>2. Cardinality(U) = Cardinality(R) + 1
    BY <1>3, <2>1, FS_AddElement
  <2>3. R = {} <=> Cardinality(R) = 0
    BY <2>1, FS_EmptySet
  <2> QED
    BY <2>1, <2>2, <2>3
<1>8. ASSUME E # {} PROVE R # {} /\ Max(R) = Max(E)
  <2>1. Max(E) \in E /\ \A i \in E : i <= Max(E)
    BY <1>5, <1>8, NewestIs
  <2>2. Max(E) \in R
    BY <1>8, <2>1 DEF R
  <2>3. Max(R) \in R /\ \A i \in R : i <= Max(R)
    BY <1>5, <2>2, NewestIs
  <2>4. Max(R) \in E /\ Max(R) \in P /\ Max(E) \in P
    BY <1>4, <2>1, <2>3 DEF R
  <2>5. Max(R) <= Max(E) /\ Max(E) <= Max(R)
    BY <2>1, <2>2, <2>3, <2>4
  <2> QED
    BY <1>1, <2>2, <2>4, <2>5
<1>9. E = {} => R = {}
  BY DEF R
<1>10. ValueChange(S, m) = IF Cardinality(U) < 2 THEN Undefined
                           ELSE Ratio(facts[m].value - facts[Max(U \ {Max(U)})].value, 1)
  BY Zenon DEF ValueChange, U
<1> HIDE DEF S
<1>11. ValueChange(S, m) = IF E = {} THEN Undefined ELSE Ratio(facts[m].value - facts[Max(E)].value, 1)
  <2>1. CASE E = {}
    BY <1>7, <1>9, <1>10, <2>1, Zenon
  <2>2. CASE E # {}
    BY <1>6, <1>7, <1>8, <1>10, <2>2, Zenon
  <2> QED
    BY <2>1, <2>2
<1> QED
  BY <1>11 DEF S

Source(op, fs) == IF op.scope = <<>> THEN fs ELSE OfEntity(fs, op.scope)

\* What an operand is worth on the facts fetched is what it means on all facts.
LEMMA OperandExact ==
  ASSUME NEW n, NEW P, Timed(P, n), NEW op \in Operands, op.kind # "const", NEW e, NEW fs, NEW lo \in Int, clock \in Int,
         Seen(op, e) = At(P), Source(op, fs) = {i \in P : lo <= facts[i].ts}, lo <= clock - Back(op),
         op.kind = "chg" /\ Window(op, e) # {} /\ Earlier(op, e) # {} =>
           Newest(Earlier(op, e)).ts >= clock - op.window - op.offset - Day
  PROVE  OperandValue(op, fs, clock) = Meaning(op, e)
<1> DEFINE S == {i \in P : lo <= facts[i].ts}
           W == WindowFacts(S, clock, op.window, op.offset)
           m == Max(W)
           E == {i \in P : facts[i].ts < facts[m].ts}
           c == Cardinality(W)
<1>1. op.window \in Nat /\ op.offset \in Nat /\ op.kind \in AggKinds
  BY DEF Operands
<1>2. Back(op) \in Nat /\ op.window + op.offset <= Back(op)
      /\ (op.kind = "chg" => Back(op) = op.window + op.offset + Day)
  BY <1>1 DEF Back, Day
<1>3. \A i \in P : i \in Int /\ facts[i].ts \in Int
  BY DEF Timed
<1>4. W = {i \in P : clock - op.window - op.offset <= facts[i].ts /\ facts[i].ts < clock - op.offset}
  <2>1. lo <= clock - op.window - op.offset
    BY <1>1, <1>2
  <2>2. \A i \in P : clock - op.window - op.offset <= facts[i].ts => lo <= facts[i].ts
    BY <1>1, <1>3, <2>1
  <2> QED
    BY <2>2 DEF WindowFacts
<1>5. Window(op, e) = At(W)
  <2>1. Window(op, e) = {f \in At(P) : clock - op.window - op.offset <= f.ts /\ f.ts < clock - op.offset}
    BY Zenon DEF Window
  <2> HIDE DEF W
  <2> QED
    BY <1>4, <2>1 DEF At, Images
<1>6. W \in SUBSET P /\ Timed(W, n) /\ (W = {} <=> At(W) = {})
  <2>1. W \in SUBSET P
    BY <1>4
  <2> HIDE DEF W
  <2> QED
    BY <2>1, TimedSubset DEF At, Images
<1>7. AggValue(op, fs, clock) =
        IF W = {} THEN Undefined
        ELSE IF op.kind = "avg" THEN Ratio(SumValues(W), c)
        ELSE IF op.kind = "last" THEN Ratio(facts[m].value, 1)
        ELSE IF op.kind = "p25" THEN Ratio(Ranked(W, (c + 3) \div 4), 1)
        ELSE ValueChange(S, m)
  BY Zenon DEF AggValue, Source
<1>8. OperandValue(op, fs, clock) =
        IF AggValue(op, fs, clock).ok THEN Ratio(op.mult * AggValue(op, fs, clock).num, AggValue(op, fs, clock).den)
        ELSE Undefined
  BY Zenon DEF OperandValue
<1>9. Undefined.ok = FALSE /\ \A x, y : Ratio(x, y).ok = TRUE /\ Ratio(x, y).num = x /\ Ratio(x, y).den = y
  BY DEF Undefined, Ratio
<1>12. ASSUME NEW x, NEW y, AggValue(op, fs, clock) = Ratio(x, y)
       PROVE  OperandValue(op, fs, clock) = Ratio(op.mult * x, y)
  <2> DEFINE a == AggValue(op, fs, clock)
  <2>1. a.ok = TRUE /\ a.num = x /\ a.den = y
    <3>1. a = Ratio(x, y)
      BY <1>12, Zenon
    <3> HIDE DEF a
    <3> QED
      BY <3>1 DEF Ratio
  <2> HIDE DEF a
  <2>2. OperandValue(op, fs, clock) = IF a.ok THEN Ratio(op.mult * a.num, a.den) ELSE Undefined
    BY <1>8, Zenon DEF a
  <2> QED
    BY <2>1, <2>2, Zenon
<1>10. CASE W = {}
  <2>1. OperandValue(op, fs, clock) = Undefined
    <3> HIDE DEF W, S, m, c
    <3> QED
      BY <1>7, <1>8, <1>9, <1>10, Zenon
  <2>2. Meaning(op, e) = Undefined
    <3> HIDE DEF W
    <3> QED
      BY <1>5, <1>6, <1>10, Zenon DEF Meaning
  <2> QED
    BY <2>1, <2>2
<1>11. CASE W # {}
  <2> HIDE DEF W
  <2>1. m \in W /\ Newest(At(W)) = facts[m] /\ m \in P /\ lo <= facts[m].ts
    <3>1. m \in W /\ Newest(At(W)) = facts[m]
      BY <1>6, <1>11, NewestIs
    <3>2. clock - op.window - op.offset <= facts[m].ts /\ m \in P
      BY <1>4, <3>1
    <3> QED
      BY <1>1, <1>2, <1>3, <3>1, <3>2
  <2> HIDE DEF m
  <2>2. Earlier(op, e) = At(E) /\ (E = {} <=> At(E) = {}) /\ E \in SUBSET P /\ Timed(E, n)
    <3>1. Earlier(op, e) = {f \in At(P) : f.ts < facts[m].ts}
      BY <1>5, <2>1, Zenon DEF Earlier
    <3>2. E \in SUBSET P /\ Timed(E, n)
      <4>1. E \in SUBSET P
        OBVIOUS
      <4> HIDE DEF E
      <4> QED
        BY <4>1, TimedSubset
    <3>3. At(E) = {f \in At(P) : f.ts < facts[m].ts}
      BY DEF At, Images
    <3>4. E = {} <=> At(E) = {}
      <4> HIDE DEF E
      <4> QED
        BY DEF At, Images
    <3> HIDE DEF E
    <3> QED
      BY <3>1, <3>2, <3>3, <3>4, Zenon
  <2>3. E # {} => Newest(At(E)) = facts[Max(E)] /\ Max(E) \in P
    <3> HIDE DEF E
    <3> QED
      BY <2>2, NewestIs
  <2>4. ASSUME op.kind = "chg"
        PROVE  ValueChange(S, m) = IF E = {} THEN Undefined ELSE Ratio(facts[m].value - facts[Max(E)].value, 1)
    <3>1. ASSUME E # {} PROVE lo <= facts[Max(E)].ts
      <4>1. facts[Max(E)].ts >= clock - op.window - op.offset - Day
        <5> HIDE DEF E
        <5> QED
          BY <1>5, <1>6, <1>11, <2>2, <2>3, <2>4, <3>1, Zenon
      <4>2. facts[Max(E)].ts \in Int /\ Day \in Int
        BY <1>3, <2>3, <3>1 DEF Day
      <4> HIDE DEF E
      <4> QED
        BY <1>1, <1>2, <2>4, <4>1, <4>2
    <3> QED
      BY <2>1, <3>1, ChangeIs
  <2> HIDE DEF E, S
  <2>5. c = Cardinality(At(W)) /\ SumValues(W) = SumFunctionOnSet([f \in At(W) |-> f.value], At(W))
        /\ Ranked(W, (c + 3) \div 4) = Quartile(At(W))
    BY <1>6, <1>11, TimedOneToOne, SumIs, QuartileIs
  <2> HIDE DEF c
  <2>6. CASE op.kind = "avg"
    <3>0. AggValue(op, fs, clock) = Ratio(SumValues(W), c)
      BY <1>7, <1>11, <2>6, Zenon
    <3>1. OperandValue(op, fs, clock) = Ratio(op.mult * SumValues(W), c)
      BY <1>12, <3>0
    <3>2. Meaning(op, e) = Ratio(op.mult * SumFunctionOnSet([f \in At(W) |-> f.value], At(W)), Cardinality(At(W)))
      BY <1>5, <1>6, <1>11, <2>6 DEF Meaning
    <3> QED
      BY <2>5, <3>1, <3>2, Zenon
  <2>7. CASE op.kind = "last"
    <3>0. AggValue(op, fs, clock) = Ratio(facts[m].value, 1)
      BY <1>7, <1>11, <2>7
    <3>1. OperandValue(op, fs, clock) = Ratio(op.mult * facts[m].value, 1)
      BY <1>12, <3>0
    <3>2. Meaning(op, e) = Ratio(op.mult * Newest(At(W)).value, 1)
      BY <1>5, <1>6, <1>11, <2>7 DEF Meaning
    <3> QED
      BY <2>1, <3>1, <3>2, Zenon
  <2>8. CASE op.kind = "p25"
    <3>0. AggValue(op, fs, clock) = Ratio(Ranked(W, (c + 3) \div 4), 1)
      BY <1>7, <1>11, <2>8
    <3>1. OperandValue(op, fs, clock) = Ratio(op.mult * Ranked(W, (c + 3) \div 4), 1)
      BY <1>12, <3>0
    <3>2. Meaning(op, e) = Ratio(op.mult * Quartile(At(W)), 1)
      BY <1>5, <1>6, <1>11, <2>8 DEF Meaning
    <3> QED
      BY <2>5, <3>1, <3>2, Zenon
  <2>9. CASE op.kind = "chg"
    <3>1. AggValue(op, fs, clock) = ValueChange(S, m)
      BY <1>7, <1>11, <2>9
    <3>2. CASE E = {}
      <4>1. OperandValue(op, fs, clock) = Undefined
        BY <1>8, <1>9, <2>4, <2>9, <3>1, <3>2, Zenon
      <4>2. Meaning(op, e) = Undefined
        BY <2>2, <2>9, <3>2 DEF Meaning
      <4> QED
        BY <4>1, <4>2
    <3>3. CASE E # {}
      <4>1. OperandValue(op, fs, clock) = Ratio(op.mult * (facts[m].value - facts[Max(E)].value), 1)
        BY <1>12, <2>4, <2>9, <3>1, <3>3
      <4>2. Meaning(op, e) = Ratio(op.mult * (Newest(At(W)).value - Newest(At(E)).value), 1)
        BY <1>5, <1>6, <1>11, <2>2, <2>9, <3>3 DEF Meaning
      <4> QED
        BY <2>1, <2>3, <3>3, <4>1, <4>2, Zenon
    <3> QED
      BY <3>2, <3>3
  <2> QED
    BY <1>1, <2>6, <2>7, <2>8, <2>9 DEF AggKinds
<1> QED
  BY <1>10, <1>11

-----------------------------------------------------------------------------
(* The verdict. *)

Subject(op, e) == IF op.scope = <<>> THEN e ELSE op.scope
SeenAt(x) == {i \in 1..asked : (only = {} \/ facts[i].of \in only) /\ facts[i].of = x}

LEMMA SeenTimed ==
  ASSUME LangInv, NEW x
  PROVE  Timed(SeenAt(x), asked)
<1> DEFINE n == Len(facts)
<1>1. /\ facts \in Seq(Fact) /\ InTime(facts) /\ n \in Nat /\ DOMAIN facts = 1..n
      /\ asked \in 0..n /\ \A i \in 1..n : facts[i] \in Fact
  BY DEF LangInv, FactsInv, GotInv
<1> HIDE DEF n
<1>2. asked \in Nat /\ SeenAt(x) \in SUBSET (1..asked) /\ \A i \in SeenAt(x) : i \in 1..n /\ facts[i].of = x
  BY <1>1 DEF SeenAt
<1>3. \A i \in SeenAt(x) : facts[i].ts \in Int /\ facts[i].value \in Int
  BY <1>1, <1>2, FactIs
<1>4. \A i, j \in SeenAt(x) : i < j => facts[i].ts < facts[j].ts
  BY <1>1, <1>2 DEF InTime
<1> QED
  BY <1>2, <1>3, <1>4 DEF Timed

LEMMA SeenIs ==
  ASSUME NEW op, NEW e
  PROVE  Seen(op, e) = At(SeenAt(Subject(op, e)))
<1> DEFINE x == Subject(op, e)
<1>1. Seen(op, e) = {f \in {facts[i] : i \in 1..asked} : (only = {} \/ f.of \in only) /\ f.of = x}
  BY Zenon DEF Seen, Subject
<1> HIDE DEF x
<1> QED
  BY <1>1 DEF At, Images, SeenAt, x

LEMMA ValuesExact ==
  ASSUME LangInv, Judging, asked <= QueryMax, NEW e, Within(e), NEW fs, NEW op \in Comparands(rule),
         op.kind # "const" => Source(op, fs) = OfEntity(got, Subject(op, e))
  PROVE  OperandValue(op, fs, clock) = Meaning(op, e)
<1>1. CASE op.kind = "const"
  BY <1>1, Zenon DEF OperandValue, Meaning
<1>2. CASE op.kind # "const"
  <2> DEFINE P == SeenAt(Subject(op, e))
             S(t) == {i \in P : t - Lookback(rule) <= facts[i].ts}
  <2>1. rule \in Seq(Seq(Comparison)) /\ Lookback(rule) \in Nat
    BY RuleTyped, Zenon DEF LangInv, RuleInv
  <2>2. op \in Operands /\ Back(op) \in Nat /\ Back(op) <= Lookback(rule)
    BY <2>1, ComparandsFinite, LookbackIs, Zenon
  <2>3. PICK t \in Nat : t <= clock /\ got = Fetched(t)
    BY Zenon DEF LangInv, GotInv
  <2>4. OfEntity(got, Subject(op, e)) = S(t)
    <3> DEFINE x == Subject(op, e)
    <3>1. OfEntity(got, x) = {i \in Fetched(t) : facts[i].of = x}
      BY <2>3, Zenon DEF OfEntity
    <3> HIDE DEF x
    <3>2. {i \in Fetched(t) : facts[i].of = x} = {i \in SeenAt(x) : t - Lookback(rule) <= facts[i].ts}
      BY DEF Fetched, SeenAt
    <3> QED
      BY <3>1, <3>2 DEF x
  <2>5. clock \in Nat
    <3>1. clock \in 0..MaxTime
      BY Zenon DEF LangInv, FactsInv
    <3> QED
      BY <3>1
  <2>6. t - Lookback(rule) \in Int /\ t - Lookback(rule) <= clock - Back(op)
    BY <2>1, <2>2, <2>3, <2>5
  <2>7. Timed(P, asked) /\ Seen(op, e) = At(P)
    BY SeenTimed, SeenIs
  <2>8. Source(op, fs) = S(t)
    BY <1>2, <2>4, Zenon
  <2>9. op.kind = "chg" /\ Window(op, e) # {} /\ Earlier(op, e) # {} =>
          Newest(Earlier(op, e)).ts >= clock - op.window - op.offset - Day
    BY Zenon DEF Within
  <2>10. clock \in Int
    BY <2>5
  <2> HIDE DEF P
  <2> QED
    BY <1>2, <2>2, <2>6, <2>7, <2>8, <2>9, <2>10, OperandExact
<1> QED
  BY <1>1, <1>2

LEMMA EvalExact ==
  ASSUME NEW e, NEW fs, \A op \in Comparands(rule) : OperandValue(op, fs, clock) = Meaning(op, e)
  PROVE  Eval(rule, fs, clock) <=> Meant(e)
<1>1. \A i \in DOMAIN rule : \A j \in DOMAIN rule[i] :
        rule[i][j].lhs \in Comparands(rule) /\ rule[i][j].rhs \in Comparands(rule)
  BY DEF Comparands
<1>2. \A i \in DOMAIN rule : \A j \in DOMAIN rule[i] :
        /\ OperandValue(rule[i][j].lhs, fs, clock) = Meaning(rule[i][j].lhs, e)
        /\ OperandValue(rule[i][j].rhs, fs, clock) = Meaning(rule[i][j].rhs, e)
  BY <1>1, Zenon
<1> QED
  BY <1>2, Zenon DEF Eval, Meant

\* Without facts no conjunction holds that looks at some.
LEMMA NothingHolds ==
  ASSUME Looks(rule), \A op \in Comparands(rule) : op.kind # "const" => op.scope = <<>>
  PROVE  ~Eval(rule, {}, clock)
<1>1. ASSUME NEW op, op.kind # "const", op.scope = <<>> PROVE ~OperandValue(op, {}, clock).ok
  <2>1. WindowFacts({}, clock, op.window, op.offset) = {}
    BY DEF WindowFacts
  <2>2. AggValue(op, {}, clock) = Undefined
    BY <1>1, <2>1, Zenon DEF AggValue
  <2>3. OperandValue(op, {}, clock) = IF Undefined.ok THEN Ratio(op.mult * Undefined.num, Undefined.den) ELSE Undefined
    BY <1>1, <2>2, Zenon DEF OperandValue
  <2>4. ~Undefined.ok
    BY DEF Undefined
  <2> QED
    BY <2>3, <2>4, Zenon
<1>2. \A i \in DOMAIN rule : \A j \in DOMAIN rule[i] :
        rule[i][j].lhs \in Comparands(rule) /\ rule[i][j].rhs \in Comparands(rule)
  BY DEF Comparands
<1> QED
  BY <1>1, <1>2, Zenon DEF Eval, Looks

LEMMA LangInvExact == LangInv => VerdictsExact
<1> SUFFICES ASSUME LangInv, eng = "judge", asked <= QueryMax
             PROVE  IF OneScoped(rule) THEN Within(TheRule) => (Judge(rule, got, clock) # {} <=> Meant(TheRule))
                    ELSE Looks(rule) => \A e \in Entities : Within(e) => (e \in Judge(rule, got, clock) <=> Meant(e))
  BY Zenon DEF VerdictsExact
<1>1. Judging
  BY DEF Judging
<1>2. \A p, q \in Comparands(rule) : ~(Scoped(p) /\ Implicit(q))
  BY Zenon DEF LangInv, RuleInv, Rules, OneSort
<1>3. ASSUME OneScoped(rule), Within(TheRule) PROVE Judge(rule, got, clock) # {} <=> Meant(TheRule)
  <2>1. ASSUME NEW op \in Comparands(rule) PROVE OperandValue(op, got, clock) = Meaning(op, TheRule)
    <3>1. op.kind # "const" => op.scope # <<>>
      BY <1>2, <1>3, Zenon DEF OneScoped, Scoped, Implicit
    <3>2. op.kind # "const" => Source(op, got) = OfEntity(got, Subject(op, TheRule))
      BY <3>1, Zenon DEF Source, Subject
    <3> QED
      BY <1>1, <1>3, <3>2, ValuesExact, Zenon
  <2>2. Eval(rule, got, clock) <=> Meant(TheRule)
    BY <2>1, EvalExact, Zenon
  <2>3. Judge(rule, got, clock) = IF Eval(rule, got, clock) THEN {TheRule} ELSE {}
    BY <1>3, Zenon DEF Judge
  <2> QED
    BY <2>2, <2>3
<1>4. ASSUME ~OneScoped(rule), Looks(rule), NEW e \in Entities, Within(e)
      PROVE  e \in Judge(rule, got, clock) <=> Meant(e)
  <2> DEFINE fs == OfEntity(got, e)
  <2>0. \A op \in Comparands(rule) : op.kind # "const" => op.scope = <<>>
    BY <1>4, Zenon DEF OneScoped, Scoped
  <2>1. ASSUME NEW op \in Comparands(rule) PROVE OperandValue(op, fs, clock) = Meaning(op, e)
    <3>1. op.kind # "const" => Source(op, fs) = OfEntity(got, Subject(op, e))
      BY <2>0, Zenon DEF Source, Subject
    <3> HIDE DEF fs
    <3> QED
      BY <1>1, <1>4, <3>1, ValuesExact, Zenon
  <2>2. e \in Judge(rule, got, clock) <=> fs # {} /\ Eval(rule, fs, clock)
    BY <1>4, Zenon DEF Judge
  <2> HIDE DEF fs
  <2>3. Eval(rule, fs, clock) <=> Meant(e)
    BY <2>1, EvalExact, Zenon
  <2>4. fs = {} => ~Eval(rule, fs, clock)
    BY <1>4, <2>0, NothingHolds, Zenon
  <2> QED
    BY <2>2, <2>3, <2>4, Zenon
<1> QED
  BY <1>3, <1>4, Zenon

(* The verdict of every round is the one the condition has over all facts    *)
(* stored before its query, for every rule the parser accepts, every facts   *)
(* and times: no window is cut off by how far the query looks back, nothing  *)
(* of another entity is counted, and nothing that arrives between the query  *)
(* and the verdict changes it.                                               *)
THEOREM VerdictsAreExact == LangSpec => []VerdictsExact
<1>1. LangSpec => []LangInv
  BY LangStart, LangStep, PTL DEF LangSpec
<1> QED
  BY <1>1, LangInvExact, PTL

\* What runs is what the parser returned for the text, which never changes.
ReadInv ==
  /\ eng \in {"ready", "judge"} => ParseCond(text).ok /\ rule = ParseCond(text).val
  /\ eng = "refused" => ~ParseCond(text).ok

LEMMA ReadStart == LangInit => ReadInv
BY DEF LangInit, ReadInv

LEMMA ReadStep == ReadInv /\ [LangNext]_langvars => ReadInv'
<1> SUFFICES ASSUME ReadInv, [LangNext]_langvars PROVE ReadInv'
  OBVIOUS
<1>1. CASE NewRule
  <2> DEFINE c == ParseCond(text)
  <2>1. eng' = (IF c.ok THEN "ready" ELSE "refused") /\ rule' = c.val /\ text' = text
    BY <1>1, Zenon DEF NewRule
  <2>2. eng' \in {"ready", "judge"} => c.ok
    BY <2>1
  <2>3. eng' = "refused" => ~c.ok
    BY <2>1
  <2> HIDE DEF c
  <2>4. ParseCond(text') = c
    BY <2>1, Zenon DEF c
  <2> QED
    BY <2>1, <2>2, <2>3, <2>4, Zenon DEF ReadInv
<1>2. CASE TimePasses \/ (\E e \in Entities, v \in Values : Reading(e, v)) \/ UNCHANGED langvars
  <2>1. text' = text /\ rule' = rule /\ eng' = eng
    BY <1>2, Zenon DEF TimePasses, Reading, langvars
  <2> QED
    BY <2>1, Zenon DEF ReadInv
<1>3. CASE QueryRound \/ JudgeRound
  <2>1. text' = text /\ rule' = rule /\ eng \in {"ready", "judge"} /\ eng' \in {"ready", "judge"} /\ eng' # "refused"
    BY <1>3 DEF QueryRound, JudgeRound
  <2> QED
    BY <2>1, Zenon DEF ReadInv
<1> QED
  BY <1>1, <1>2, <1>3, Zenon DEF LangNext

LEMMA ReadExact == LangInv /\ ReadInv => ParsedExactly
<1> SUFFICES ASSUME LangInv, ReadInv, ShiftsUnscoped(text) PROVE ParsedAsDocumented
  BY Zenon DEF ParsedExactly
<1>1. text \in Texts /\ rule \in Rules
  BY Zenon DEF LangInv, RuleInv
<1>2. \A c \in Conditions : c \in Rules
  BY ConditionsAssumption, Zenon DEF Rules
<1>3. \A c \in Rules : Says(text, c) <=> (ParseCond(text).ok /\ ParseCond(text).val = c)
  BY <1>1, TextsSayOneThing, Zenon
<1>4. ASSUME eng \in {"ready", "judge"}
      PROVE  Says(text, rule) /\ OneSort(rule) /\ \A c \in Conditions : Says(text, c) => c = rule
  <2>1. ParseCond(text).ok /\ ParseCond(text).val = rule
    BY <1>4, Zenon DEF ReadInv
  <2>2. \A c \in Rules : Says(text, c) <=> c = rule
    BY <1>3, <2>1, Zenon
  <2> QED
    BY <1>1, <1>2, <2>2, Zenon DEF Rules
<1>5. ASSUME eng = "refused", NEW c \in Conditions PROVE ~Says(text, c)
  BY <1>2, <1>3, <1>5, Zenon DEF ReadInv
<1> QED
  BY <1>4, <1>5, Zenon DEF ParsedAsDocumented

(* A rule runs as what its text says, to the last token, with aggregates of  *)
(* one sort, and as nothing else that the text could be read as; a text that *)
(* says such a condition is never refused (New and parseCond).  What a text  *)
(* says is the grammar of cond.go; texts that shift an aggregate of one      *)
(* entity are excepted, for which the parser departs from it.                *)
THEOREM ParsedIsExact == LangSpec => []ParsedExactly
<1>1. LangSpec => []LangInv
  BY LangStart, LangStep, PTL DEF LangSpec
<1>2. LangSpec => []ReadInv
  BY ReadStart, ReadStep, PTL DEF LangSpec
<1> QED
  BY <1>1, <1>2, ReadExact, PTL
=============================================================================
