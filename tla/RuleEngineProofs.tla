-------------------------- MODULE RuleEngineProofs --------------------------
(***************************************************************************)
(* Proofs about RuleEngine: its types, the bound on how far concurrent     *)
(* rule goroutines overshoot the daily cap, that every recorded state was  *)
(* announced before, and that no entity has more orders than alerts.       *)
(***************************************************************************)
EXTENDS RuleEngine, FiniteSetTheorems, WellFoundedInduction, TLAPS

N == Cardinality(SimRules)

\* A nonempty set of naturals has a least element.
LEMMA LeastNat ==
  ASSUME NEW T \in SUBSET Nat, T # {}
  PROVE  \E m \in T : \A n \in T : m <= n
<1>. DEFINE R == {ss \in Nat \X Nat : ss[1] < ss[2]}
<1>1. IsWellFoundedOn(R, Nat)
  BY NatLessThanWellFounded, Zenon DEF OpToRel
<1>2. PICK m \in T : \A n \in T : ~(<<n, m>> \in R)
  <2>. HIDE DEF R
  <2>. QED
    BY <1>1, WFMin, Zenon
<1>3. \A n \in T : n < m => <<n, m>> \in R
  BY Zenon
<1>4. \A n \in T : ~(n < m)
  BY <1>2, <1>3
<1>. QED
  BY <1>4

LEMMA SimRulesFacts ==
  /\ IsFiniteSet(SimRules) /\ SimRules \subseteq Rules
  /\ N \in Nat /\ N >= 1 /\ DailyMax \in Nat /\ DailyMax >= 1
<1>1. IsFiniteSet(SimRules) /\ SimRules # {}
  BY EngineAssumption
<1>2. N \in Nat /\ N # 0
  BY <1>1, FS_CardinalityType, FS_EmptySet DEF N
<1>. QED
  BY <1>1, <1>2, EngineAssumption

\* The sets the bound is about are finite, with the cardinalities arithmetic needs.
LEMMA Finiteness ==
  ASSUME EngineTypeOK
  PROVE  /\ IsFiniteSet(Counted) /\ Cardinality(Counted) \in Nat
         /\ \A t : IsFiniteSet(CountedBefore(t)) /\ Cardinality(CountedBefore(t)) \in Nat
         /\ \A t : IsFiniteSet(FlyingBefore(t)) /\ Cardinality(FlyingBefore(t)) \in Nat
<1>1. IsFiniteSet(orders)
  BY DEF EngineTypeOK
<1>2. \A t : Counted \in SUBSET orders /\ CountedBefore(t) \in SUBSET orders
             /\ FlyingBefore(t) \in SUBSET SimRules
  BY DEF Counted, CountedBefore, FlyingBefore
<1>3. IsFiniteSet(SimRules)
  BY SimRulesFacts
<1>4. \A S : \A T \in SUBSET S : IsFiniteSet(S) => IsFiniteSet(T)
  BY FS_Subset
<1>5. \A S : IsFiniteSet(S) => Cardinality(S) \in Nat
  BY FS_CardinalityType
<1>. QED
  BY <1>1, <1>2, <1>3, <1>4, <1>5

\* Cardinalities of included sets.
LEMMA Included ==
  ASSUME NEW S, NEW T \in SUBSET S, IsFiniteSet(S)
  PROVE  Cardinality(T) <= Cardinality(S)
BY FS_Subset

-----------------------------------------------------------------------------
(* Types. *)

LEMMA AtType == \A pc \in {"off", "rest", "alert", "put"} : At(pc) \in Goroutine
BY DEF At, Goroutine

LEMMA OnwardType ==
  ASSUME EngineTypeOK, NEW r \in Rules, NEW todo \in SUBSET Entities
  PROVE  Onward(r, todo) \in Goroutine
<1>1. run[r].want \in {"active", "resolved"}
  BY DEF EngineTypeOK, Goroutine
<1>. QED
  BY <1>1 DEF Onward, At, Goroutine

\* An action that only gives rule r a goroutine of the right type keeps the types.
LEMMA BecomesType ==
  ASSUME EngineTypeOK, NEW r \in Rules, NEW g \in Goroutine, Becomes(r, g),
         UNCHANGED <<up, hit, trigger, alerts, orders, clock, epoch>>
  PROVE  EngineTypeOK'
BY DEF EngineTypeOK, Becomes

LEMMA EngineInitType == EngineInit => EngineTypeOK
<1>. SUFFICES ASSUME EngineInit PROVE EngineTypeOK
  OBVIOUS
<1>1. IsFiniteSet(orders)
  BY FS_EmptySet DEF EngineInit
<1>2. run \in [Rules -> Goroutine]
  BY AtType DEF EngineInit
<1>3. alerts \in [Rules -> Seq({"active", "resolved"})]
  BY DEF EngineInit
<1>4. /\ hit \in [Rules -> SUBSET Entities] /\ trigger \in [Rules -> States]
      /\ epoch \in [Rules -> Nat] /\ clock \in Nat
  BY DEF EngineInit, States
<1>5. up \in BOOLEAN /\ orders \subseteq Row
  BY DEF EngineInit
<1>. QED
  BY <1>1, <1>2, <1>3, <1>4, <1>5, Zenon DEF EngineTypeOK

LEMMA EngineTypeStep ==
  ASSUME EngineTypeOK, EngineNext
  PROVE  EngineTypeOK'
<1>. USE DEF EngineNext, EngineStep
<1>1. ASSUME NEW r \in Rules, Evaluate(r) PROVE EngineTypeOK'
  <2>1. hit[r] \in SUBSET Entities
    BY DEF EngineTypeOK
  <2>2. /\ At("put") \in Goroutine
        /\ [At("alert") EXCEPT !.want = "resolved"] \in Goroutine
        /\ [At("alert") EXCEPT !.todo = hit[r]] \in Goroutine
    BY <2>1 DEF At, Goroutine
  <2>. QED
    BY <1>1, <2>2, BecomesType DEF Evaluate
<1>2. ASSUME NEW r \in Rules, Announce(r) PROVE EngineTypeOK'
  <2>1. run[r].todo \in SUBSET Entities /\ run[r].want \in {"active", "resolved"}
    BY DEF EngineTypeOK, Goroutine
  <2>2. Onward(r, IF r \in SimRules THEN run[r].todo ELSE {}) \in Goroutine
    BY <2>1, OnwardType
  <2>3. run' \in [Rules -> Goroutine]
    BY <1>2, <2>2 DEF Announce, Becomes, EngineTypeOK
  <2>4. alerts' \in [Rules -> Seq({"active", "resolved"})]
    BY <1>2, <2>1 DEF Announce, EngineTypeOK
  <2>. QED
    BY <1>2, <2>3, <2>4 DEF Announce, EngineTypeOK
<1>3. ASSUME NEW r \in Rules, SkipEntity(r) PROVE EngineTypeOK'
  <2>1. \A e : run[r].todo \ {e} \in SUBSET Entities
    BY DEF EngineTypeOK, Goroutine
  <2>. QED
    BY <1>3, <2>1, OnwardType, BecomesType DEF SkipEntity
<1>4. ASSUME NEW r \in Rules, Stamp(r) PROVE EngineTypeOK'
  <2>1. PICK e \in run[r].todo :
          Becomes(r, [run[r] EXCEPT !.pc = "day", !.ent = {e}, !.ts = clock + 1])
    BY <1>4 DEF Stamp
  <2>2. run[r] \in Goroutine /\ {e} \in SUBSET Entities /\ clock + 1 \in Nat
    BY <2>1 DEF EngineTypeOK, Goroutine
  <2>3. [run[r] EXCEPT !.pc = "day", !.ent = {e}, !.ts = clock + 1] \in Goroutine
    BY <2>2 DEF Goroutine
  <2>. QED
    BY <1>4, <2>1, <2>2, <2>3 DEF Stamp, Becomes, EngineTypeOK
<1>5. ASSUME NEW r \in Rules, ReadDay(r) PROVE EngineTypeOK'
  <2>1. run[r] \in Goroutine /\ Cardinality(CountedBefore(run[r].ts)) \in Nat
    BY Finiteness DEF EngineTypeOK
  <2>2. [run[r] EXCEPT !.pc = "insert", !.day = Cardinality(CountedBefore(run[r].ts))] \in Goroutine
    BY <2>1 DEF Goroutine
  <2>. QED
    BY <1>5, <2>2, BecomesType DEF ReadDay
<1>6. ASSUME NEW r \in Rules, InsertOrder(r) PROVE EngineTypeOK'
  <2>1. PICK e \in run[r].ent, passes \in BOOLEAN :
          /\ orders' = orders \cup
               {[rule |-> r, ent |-> e, ts |-> run[r].ts,
                 counts |-> passes /\ UnderCap(run[r].day), epoch |-> epoch[r]]}
          /\ Becomes(r, Onward(r, run[r].todo \ {e}))
    BY <1>6 DEF InsertOrder
  <2>2. /\ run[r].ent \in SUBSET Entities /\ run[r].todo \ {e} \in SUBSET Entities
        /\ run[r].ts \in Nat /\ epoch[r] \in Nat
    BY DEF EngineTypeOK, Goroutine
  <2>3. (passes /\ UnderCap(run[r].day)) \in BOOLEAN
    BY Zenon DEF UnderCap
  <2>4. [rule |-> r, ent |-> e, ts |-> run[r].ts,
         counts |-> passes /\ UnderCap(run[r].day), epoch |-> epoch[r]] \in Row
    <3>. DEFINE c == passes /\ UnderCap(run[r].day)
    <3>. HIDE DEF c
    <3>. c \in BOOLEAN
      BY <2>3 DEF c
    <3>. [rule |-> r, ent |-> e, ts |-> run[r].ts, counts |-> c, epoch |-> epoch[r]] \in Row
      BY <2>1, <2>2 DEF Row
    <3>. QED
      BY DEF c
  <2>5. orders' \subseteq Row /\ IsFiniteSet(orders')
    BY <2>1, <2>4, FS_AddElement DEF EngineTypeOK
  <2>6. Onward(r, run[r].todo \ {e}) \in Goroutine
    BY <2>2, OnwardType
  <2>. QED
    BY <1>6, <2>1, <2>5, <2>6 DEF InsertOrder, Becomes, EngineTypeOK
<1>7. ASSUME NEW r \in Rules, Put(r) PROVE EngineTypeOK'
  <2>1. run[r].want \in States
    BY DEF EngineTypeOK, Goroutine, States
  <2>2. run' \in [Rules -> Goroutine]
    BY <1>7, AtType DEF Put, Becomes, EngineTypeOK
  <2>3. epoch' \in [Rules -> Nat]
    BY <1>7 DEF Put, EngineTypeOK
  <2>. QED
    BY <1>7, <2>1, <2>2, <2>3 DEF Put, EngineTypeOK
<1>8. ASSUME NEW r \in Rules, DriverFails(r) PROVE EngineTypeOK'
  BY <1>8, OnwardType, BecomesType DEF DriverFails
<1>9. ASSUME NEW r \in Rules, EvaluationFails(r) PROVE EngineTypeOK'
  BY <1>9, AtType, BecomesType DEF EvaluationFails
<1>10. ASSUME NEW r \in Rules, NEW es \in SUBSET Entities, Facts(r, es) PROVE EngineTypeOK'
  BY <1>10 DEF Facts, EngineTypeOK
<1>11. ASSUME NEW x \in orders, Retire(x) PROVE EngineTypeOK'
  <2>1. [x EXCEPT !.counts = FALSE] \in Row
    BY DEF EngineTypeOK, Row
  <2>2. IsFiniteSet(orders \ {x})
    BY FS_RemoveElement DEF EngineTypeOK
  <2>3. IsFiniteSet(orders')
    BY <1>11, <2>2, FS_AddElement DEF Retire
  <2>. QED
    BY <1>11, <2>1, <2>3 DEF Retire, EngineTypeOK
<1>12. CASE Start \/ Crash
  BY <1>12, AtType DEF Start, Crash, EngineTypeOK
<1>. QED
  BY <1>1, <1>2, <1>3, <1>4, <1>5, <1>6, <1>7, <1>8, <1>9, <1>10, <1>11, <1>12

(* The tables and goroutines of the engine hold values of their types, for   *)
(* any rules, entities and cap.                                              *)
THEOREM EngineTypeCorrect == EngineSpec => []EngineTypeOK
<1>1. EngineTypeOK /\ UNCHANGED evars => EngineTypeOK'
  BY DEF EngineTypeOK, evars
<1>. QED
  BY EngineInitType, EngineTypeStep, <1>1, PTL DEF EngineSpec

-----------------------------------------------------------------------------
(* The daily cap.  Its invariant as an operator of the orders os, the        *)
(* goroutines g and the clock c, so that each step is one lemma about values. *)

Older(os, t) == {x \in os : x.counts /\ x.ts < t}
Flies(g, r) == g[r].pc \in {"day", "insert"}
Flying(g, t) == {r \in SimRules : Flies(g, r) /\ g[r].ts < t}
Before(os, g, t) == Cardinality(Older(os, t)) + Cardinality(Flying(g, t))

Typed(os, g, c) ==
  os \subseteq Row /\ IsFiniteSet(os) /\ g \in [Rules -> Goroutine] /\ c \in Nat

Known(g) == \A r \in Rules : Flies(g, r) \/ g[r].pc = "entity" => r \in SimRules

Distinct(os, g, c) ==
  /\ \A x \in os : x.ts <= c
  /\ \A x, y \in os : x.ts = y.ts => x = y
  /\ \A r \in Rules : Flies(g, r) =>
       /\ g[r].ts <= c
       /\ \A x \in os : x.ts # g[r].ts
       /\ \A q \in Rules : Flies(g, q) /\ g[q].ts = g[r].ts => q = r

Late(os, g) ==
  /\ \A r \in Rules : g[r].pc = "insert" => Before(os, g, g[r].ts) <= g[r].day + N - 1
  /\ \A x \in os : x.counts => Before(os, g, x.ts) <= DailyMax - 1 + N - 1

Books(os, g, c) == Typed(os, g, c) /\ Known(g) /\ Distinct(os, g, c) /\ Late(os, g)

\* The invariant is Books of the state, before a step and after it.
LEMMA CapInvIsBooks ==
  /\ CapInv <=> EngineTypeOK /\ Books(orders, run, clock)
  /\ CapInv' <=> EngineTypeOK' /\ Books(orders', run', clock')
<1>1. EngineTypeOK => Typed(orders, run, clock)
  BY DEF EngineTypeOK, Typed
<1>2. EngineTypeOK' => Typed(orders', run', clock')
  BY DEF EngineTypeOK, Typed
<1>3. /\ SimRulesOrder <=> Known(run)
      /\ SimRulesOrder' <=> Known(run')
  BY DEF SimRulesOrder, Known, InFlight, Flies
<1>4. /\ StampsDistinct <=> Distinct(orders, run, clock)
      /\ StampsDistinct' <=> Distinct(orders', run', clock')
  BY DEF StampsDistinct, Distinct, InFlight, Flies
<1>5. LateOrders <=> Late(orders, run)
  <2>1. \A t : CountedBefore(t) = Older(orders, t) /\ FlyingBefore(t) = Flying(run, t)
    BY DEF CountedBefore, Counted, Older, FlyingBefore, Flying, InFlight, Flies
  <2>. QED
    BY <2>1 DEF LateOrders, Late, Before, Counted, N
<1>6. LateOrders' <=> Late(orders', run')
  <2>1. \A t : /\ {x \in {y \in orders' : y.counts} : x.ts < t} = Older(orders', t)
               /\ {q \in SimRules : run'[q].pc \in {"day", "insert"} /\ run'[q].ts < t}
                    = Flying(run', t)
    BY DEF Older, Flying, Flies
  <2>. QED
    BY <2>1 DEF LateOrders, Late, Before, Counted, CountedBefore, FlyingBefore, InFlight, N
<1>. QED
  BY <1>1, <1>2, <1>3, <1>4, <1>5, <1>6 DEF CapInv, Books

\* What Before counts is finite.
LEMMA BeforeFinite ==
  ASSUME NEW os, NEW g, NEW c, Typed(os, g, c)
  PROVE  \A t : /\ IsFiniteSet(Older(os, t)) /\ Cardinality(Older(os, t)) \in Nat
                /\ IsFiniteSet(Flying(g, t)) /\ Cardinality(Flying(g, t)) \in Nat
<1>. SUFFICES ASSUME NEW t
     PROVE /\ IsFiniteSet(Older(os, t)) /\ Cardinality(Older(os, t)) \in Nat
           /\ IsFiniteSet(Flying(g, t)) /\ Cardinality(Flying(g, t)) \in Nat
  OBVIOUS
<1>1. IsFiniteSet(Older(os, t))
  <2>1. Older(os, t) \in SUBSET os /\ IsFiniteSet(os)
    BY DEF Older, Typed
  <2>. QED
    BY <2>1, FS_Subset
<1>2. IsFiniteSet(Flying(g, t))
  <2>1. Flying(g, t) \in SUBSET SimRules
    BY DEF Flying
  <2>. QED
    BY <2>1, SimRulesFacts, FS_Subset
<1>. QED
  BY <1>1, <1>2, FS_CardinalityType

\* Fewer orders and fewer goroutines: Before is no greater.
LEMMA BeforeShrinks ==
  ASSUME NEW os, NEW g, NEW c, Typed(os, g, c), NEW os2, NEW g2, NEW c2, Typed(os2, g2, c2),
         NEW t, Older(os2, t) \subseteq Older(os, t), Flying(g2, t) \subseteq Flying(g, t)
  PROVE  Before(os2, g2, t) <= Before(os, g, t)
<1>1. Cardinality(Older(os2, t)) <= Cardinality(Older(os, t))
  BY BeforeFinite, Included
<1>2. Cardinality(Flying(g2, t)) <= Cardinality(Flying(g, t))
  BY BeforeFinite, Included
<1>3. /\ Cardinality(Older(os, t)) \in Nat /\ Cardinality(Older(os2, t)) \in Nat
      /\ Cardinality(Flying(g, t)) \in Nat /\ Cardinality(Flying(g2, t)) \in Nat
  BY BeforeFinite
<1>. QED
  BY <1>1, <1>2, <1>3 DEF Before

\* A step that writes no order and starts no signal: goroutines in flight stay or land.
LEMMA Landing ==
  ASSUME NEW os, NEW g, NEW c, Books(os, g, c), NEW g2 \in [Rules -> Goroutine],
         \A q \in Rules : Flies(g2, q) => g2[q] = g[q],
         \A q \in Rules : g2[q].pc = "entity" => q \in SimRules
  PROVE  Books(os, g2, c)
<1>1. Typed(os, g, c) /\ Typed(os, g2, c)
  BY DEF Books, Typed
<1>2. \A q \in Rules : Flies(g2, q) => Flies(g, q) /\ g2[q] = g[q]
  BY DEF Flies
<1>3. Known(g2)
  BY <1>2 DEF Books, Known
<1>4. Distinct(os, g2, c)
  BY <1>2 DEF Books, Distinct
<1>5. \A t : Before(os, g2, t) <= Before(os, g, t)
  <2>1. \A t : Flying(g2, t) \subseteq Flying(g, t)
    BY <1>2, SimRulesFacts DEF Flying
  <2>. QED
    BY <2>1, <1>1, BeforeShrinks
<1>6. \A t : Before(os, g2, t) \in Nat /\ Before(os, g, t) \in Nat
  BY <1>1, BeforeFinite DEF Before
<1>7. Late(os, g2)
  <2>1. ASSUME NEW r \in Rules, g2[r].pc = "insert"
        PROVE  Before(os, g2, g2[r].ts) <= g2[r].day + N - 1
    <3>1. g2[r] = g[r]
      BY <2>1 DEF Flies
    <3>2. Before(os, g, g[r].ts) <= g[r].day + N - 1
      BY <2>1, <3>1 DEF Books, Late
    <3>3. g[r].day \in Nat
      BY <1>1 DEF Typed, Goroutine
    <3>. QED
      BY <3>1, <3>2, <3>3, <1>5, <1>6, SimRulesFacts
  <2>2. ASSUME NEW x \in os, x.counts
        PROVE  Before(os, g2, x.ts) <= DailyMax - 1 + N - 1
    <3>1. Before(os, g, x.ts) <= DailyMax - 1 + N - 1
      BY <2>2 DEF Books, Late
    <3>. QED
      BY <3>1, <1>5, <1>6, SimRulesFacts
  <2>. QED
    BY <2>1, <2>2 DEF Late
<1>. QED
  BY <1>1, <1>3, <1>4, <1>7 DEF Books

\* A new signal is stamped later than every order and signal there is.
LEMMA Stamping ==
  ASSUME NEW os, NEW g, NEW c, Books(os, g, c), NEW r \in SimRules, NEW h \in Goroutine,
         h.pc = "day", h.ts = c + 1
  PROVE  Books(os, [g EXCEPT ![r] = h], c + 1)
<1>. DEFINE g2 == [g EXCEPT ![r] = h]
<1>1. Typed(os, g, c) /\ Typed(os, g2, c + 1) /\ c \in Nat /\ r \in Rules
  BY SimRulesFacts DEF Books, Typed
<1>2. /\ g2[r] = h
      /\ \A q \in Rules : q # r => g2[q] = g[q] /\ (Flies(g2, q) <=> Flies(g, q))
  BY <1>1 DEF Typed, Flies
<1>3. /\ \A x \in os : x.ts \in Nat /\ x.ts <= c
      /\ \A q \in Rules : g[q].ts \in Nat /\ g[q].day \in Nat /\ (Flies(g, q) => g[q].ts <= c)
  BY <1>1 DEF Books, Typed, Row, Goroutine, Distinct
<1>. HIDE DEF g2
<1>4. Known(g2)
  BY <1>2 DEF Books, Known
<1>5. Distinct(os, g2, c + 1)
  <2>1. \A x \in os : x.ts <= c + 1 /\ x.ts # c + 1
    BY <1>1, <1>3
  <2>2. \A x, y \in os : x.ts = y.ts => x = y
    BY DEF Books, Distinct
  <2>3. ASSUME NEW q \in Rules, Flies(g2, q)
        PROVE  /\ g2[q].ts <= c + 1
               /\ \A x \in os : x.ts # g2[q].ts
               /\ \A p \in Rules : Flies(g2, p) /\ g2[p].ts = g2[q].ts => p = q
    <3>1. CASE q = r
      BY <3>1, <1>1, <1>2, <1>3, <2>1
    <3>2. CASE q # r
      <4>1. Flies(g, q) /\ g2[q].ts = g[q].ts /\ g[q].ts <= c
        BY <2>3, <3>2, <1>2, <1>3
      <4>2. \A x \in os : x.ts # g[q].ts
        BY <4>1 DEF Books, Distinct
      <4>3. \A p \in Rules : Flies(g, p) /\ g[p].ts = g[q].ts => p = q
        BY <4>1 DEF Books, Distinct
      <4>4. h.ts # g[q].ts
        BY <4>1, <1>1, <1>3
      <4>5. \A p \in Rules : Flies(g2, p) /\ g2[p].ts = g2[q].ts => p = q
        BY <4>1, <4>3, <4>4, <1>2
      <4>. QED
        BY <4>1, <4>2, <4>5, <1>1, <1>3
    <3>. QED
      BY <3>1, <3>2
  <2>. QED
    BY <2>1, <2>2, <2>3 DEF Distinct
<1>6. \A t \in Nat : t <= c => Before(os, g2, t) <= Before(os, g, t)
  <2>. SUFFICES ASSUME NEW t \in Nat, t <= c PROVE Flying(g2, t) \subseteq Flying(g, t)
    BY <1>1, BeforeShrinks
  <2>1. ~(g2[r].ts < t)
    BY <1>1, <1>2
  <2>. QED
    BY <2>1, <1>2, SimRulesFacts DEF Flying
<1>7. \A t : Before(os, g2, t) \in Nat /\ Before(os, g, t) \in Nat
  BY <1>1, BeforeFinite DEF Before
<1>8. Late(os, g2)
  <2>1. ASSUME NEW q \in Rules, g2[q].pc = "insert"
        PROVE  Before(os, g2, g2[q].ts) <= g2[q].day + N - 1
    <3>1. g2[q] = g[q] /\ g[q].pc = "insert" /\ Flies(g, q)
      BY <2>1, <1>2 DEF Flies
    <3>2. Before(os, g, g[q].ts) <= g[q].day + N - 1
      BY <3>1 DEF Books, Late
    <3>. QED
      BY <3>1, <3>2, <1>3, <1>6, <1>7, SimRulesFacts
  <2>2. ASSUME NEW x \in os, x.counts
        PROVE  Before(os, g2, x.ts) <= DailyMax - 1 + N - 1
    <3>1. Before(os, g, x.ts) <= DailyMax - 1 + N - 1
      BY <2>2 DEF Books, Late
    <3>. QED
      BY <3>1, <1>3, <1>6, <1>7, SimRulesFacts
  <2>. QED
    BY <2>1, <2>2 DEF Late
<1>9. Books(os, g2, c + 1)
  BY <1>1, <1>4, <1>5, <1>8 DEF Books
<1>. QED
  BY <1>9 DEF g2

\* Only the other rules may still come with a signal older than that of r.
LEMMA Reading ==
  ASSUME NEW os, NEW g, NEW c, Books(os, g, c), NEW r \in Rules, g[r].pc = "day",
         NEW h \in Goroutine, h.pc = "insert", h.ts = g[r].ts,
         h.day = Cardinality(Older(os, g[r].ts))
  PROVE  Books(os, [g EXCEPT ![r] = h], c)
<1>. DEFINE g2 == [g EXCEPT ![r] = h]
<1>1. Typed(os, g, c) /\ Typed(os, g2, c) /\ r \in SimRules
  BY DEF Books, Typed, Known, Flies
<1>2. /\ g2[r] = h
      /\ \A q \in Rules : q # r => g2[q] = g[q]
      /\ \A q \in Rules : g2[q].ts = g[q].ts /\ (Flies(g2, q) <=> Flies(g, q))
      /\ \A q \in Rules : g2[q].pc = "entity" <=> g[q].pc = "entity"
  BY <1>1 DEF Typed, Flies
<1>3. \A q \in Rules : g[q].ts \in Nat /\ g[q].day \in Nat
  BY <1>1 DEF Typed, Goroutine
<1>. HIDE DEF g2
<1>4. Known(g2) /\ Distinct(os, g2, c)
  BY <1>2 DEF Books, Known, Distinct
<1>5. \A t : Flying(g2, t) = Flying(g, t) /\ Before(os, g2, t) = Before(os, g, t)
  BY <1>2, SimRulesFacts DEF Flying, Before
<1>6. Before(os, g, g[r].ts) <= h.day + N - 1
  <2>1. Flying(g, g[r].ts) \in SUBSET (SimRules \ {r})
    BY <1>3 DEF Flying
  <2>2. IsFiniteSet(SimRules \ {r}) /\ Cardinality(SimRules \ {r}) = N - 1
    BY <1>1, SimRulesFacts, FS_RemoveElement DEF N
  <2>3. Cardinality(Flying(g, g[r].ts)) <= N - 1
    BY <2>1, <2>2, Included
  <2>4. Cardinality(Flying(g, g[r].ts)) \in Nat /\ h.day \in Nat
    BY <1>1, BeforeFinite
  <2>. QED
    BY <2>3, <2>4, SimRulesFacts DEF Before
<1>7. Late(os, g2)
  <2>1. ASSUME NEW q \in Rules, g2[q].pc = "insert"
        PROVE  Before(os, g2, g2[q].ts) <= g2[q].day + N - 1
    BY <2>1, <1>2, <1>5, <1>6 DEF Books, Late
  <2>2. ASSUME NEW x \in os, x.counts
        PROVE  Before(os, g2, x.ts) <= DailyMax - 1 + N - 1
    BY <2>2, <1>5 DEF Books, Late
  <2>. QED
    BY <2>1, <2>2 DEF Late
<1>8. Books(os, g2, c)
  BY <1>1, <1>4, <1>7 DEF Books
<1>. QED
  BY <1>8 DEF g2

\* An order that counts no longer leaves every sum smaller.
LEMMA Retiring ==
  ASSUME NEW os, NEW g, NEW c, Books(os, g, c), NEW x \in os,
         NEW y \in Row, y.ts = x.ts, ~y.counts
  PROVE  Books((os \ {x}) \cup {y}, g, c)
<1>. DEFINE os2 == (os \ {x}) \cup {y}
<1>1. Typed(os, g, c) /\ Typed(os2, g, c)
  <2>1. IsFiniteSet(os \ {x}) /\ os \subseteq Row
    BY FS_RemoveElement DEF Books, Typed
  <2>2. IsFiniteSet(os2)
    BY <2>1, FS_AddElement
  <2>. QED
    BY <2>1, <2>2 DEF Books, Typed
<1>2. \A z \in os2 : z.counts => z \in os
  OBVIOUS
<1>3. \A z \in os2 : (z \in os /\ z # x) \/ z = y
  OBVIOUS
<1>. HIDE DEF os2
<1>4. Distinct(os2, g, c)
  <2>1. /\ \A u, v \in os : u.ts = v.ts => u = v
        /\ \A u \in os : u.ts <= c
    BY DEF Books, Distinct
  <2>2. /\ \A u, v \in os2 : u.ts = v.ts => u = v
        /\ \A u \in os2 : u.ts <= c
        /\ \A u \in os2 : \E v \in os : u.ts = v.ts
    BY <2>1, <1>3
  <2>. QED
    BY <2>2 DEF Books, Distinct
<1>5. \A t : Before(os2, g, t) <= Before(os, g, t)
  <2>1. \A t : Older(os2, t) \subseteq Older(os, t)
    BY <1>2 DEF Older
  <2>. QED
    BY <2>1, <1>1, BeforeShrinks
<1>6. \A t : Before(os2, g, t) \in Nat /\ Before(os, g, t) \in Nat
  BY <1>1, BeforeFinite DEF Before
<1>7. Late(os2, g)
  <2>1. ASSUME NEW q \in Rules, g[q].pc = "insert"
        PROVE  Before(os2, g, g[q].ts) <= g[q].day + N - 1
    <3>1. Before(os, g, g[q].ts) <= g[q].day + N - 1 /\ g[q].day \in Nat
      BY <2>1, <1>1 DEF Books, Late, Typed, Goroutine
    <3>. QED
      BY <3>1, <1>5, <1>6, SimRulesFacts
  <2>2. ASSUME NEW z \in os2, z.counts
        PROVE  Before(os2, g, z.ts) <= DailyMax - 1 + N - 1
    <3>1. Before(os, g, z.ts) <= DailyMax - 1 + N - 1
      BY <2>2, <1>2 DEF Books, Late
    <3>. QED
      BY <3>1, <1>5, <1>6, SimRulesFacts
  <2>. QED
    BY <2>1, <2>2 DEF Late
<1>8. Books(os2, g, c)
  BY <1>1, <1>4, <1>7 DEF Books
<1>. QED
  BY <1>8 DEF os2

\* An order inserted was in flight before: every sum that sees it loses its goroutine.
LEMMA Inserting ==
  ASSUME NEW os, NEW g, NEW c, Books(os, g, c), NEW r \in Rules, g[r].pc = "insert",
         NEW h \in Goroutine, ~(h.pc \in {"day", "insert"}),
         NEW y \in Row, y.ts = g[r].ts, y.counts => UnderCap(g[r].day)
  PROVE  Books(os \cup {y}, [g EXCEPT ![r] = h], c)
<1>. DEFINE g2 == [g EXCEPT ![r] = h]
            os2 == os \cup {y}
<1>1. Typed(os, g, c) /\ r \in SimRules /\ Flies(g, r)
  BY DEF Books, Known, Flies
<1>2. Typed(os2, g2, c)
  BY <1>1, FS_AddElement DEF Typed
<1>3. /\ ~Flies(g2, r)
      /\ \A q \in Rules : q # r => g2[q] = g[q] /\ (Flies(g2, q) <=> Flies(g, q))
  BY <1>1 DEF Typed, Flies
<1>4. \A q \in Rules : g[q].ts \in Nat /\ g[q].day \in Nat
  BY <1>1 DEF Typed, Goroutine
<1>5. \A z \in os2 : z \in os \/ z = y
  OBVIOUS
<1>6. Known(g2)
  <2>1. h.pc = "entity" => r \in SimRules
    BY <1>1
  <2>2. g2[r] = h
    BY <1>1 DEF Typed
  <2>. HIDE DEF g2
  <2>. QED
    BY <1>1, <1>3 DEF Books, Known
<1>. HIDE DEF g2, os2
<1>7. Distinct(os2, g2, c)
  <2>1. /\ \A u, v \in os : u.ts = v.ts => u = v
        /\ \A u \in os : u.ts <= c /\ u.ts # y.ts
        /\ y.ts <= c
    BY <1>1 DEF Books, Distinct
  <2>2. \A q \in Rules : Flies(g2, q) =>
          /\ Flies(g, q) /\ g2[q] = g[q] /\ g[q].ts # y.ts /\ g[q].ts <= c
          /\ \A u \in os : u.ts # g[q].ts
          /\ \A p \in Rules : Flies(g, p) /\ g[p].ts = g[q].ts => p = q
    BY <1>1, <1>3 DEF Books, Distinct
  <2>3. \A u, v \in os2 : u.ts = v.ts => u = v
    BY <2>1, <1>5
  <2>4. \A u \in os2 : u.ts <= c
    BY <2>1, <1>5
  <2>5. \A q \in Rules : Flies(g2, q) => \A u \in os2 : u.ts # g2[q].ts
    BY <2>2, <1>5
  <2>6. \A q \in Rules : Flies(g2, q) =>
          \A p \in Rules : Flies(g2, p) /\ g2[p].ts = g2[q].ts => p = q
    BY <2>2
  <2>. QED
    BY <2>2, <2>3, <2>4, <2>5, <2>6 DEF Distinct
<1>8. ASSUME NEW t \in Nat PROVE Before(os2, g2, t) <= Before(os, g, t)
  <2>1. Flying(g2, t) \subseteq Flying(g, t) /\ r \notin Flying(g2, t)
    BY <1>3, SimRulesFacts DEF Flying
  <2>2. CASE y.ts < t
    <3>1. Flying(g2, t) \in SUBSET (Flying(g, t) \ {r}) /\ r \in Flying(g, t)
      BY <2>1, <2>2, <1>1 DEF Flying
    <3>2. /\ IsFiniteSet(Flying(g, t)) /\ Cardinality(Flying(g, t)) \in Nat
          /\ Cardinality(Flying(g2, t)) \in Nat
          /\ IsFiniteSet(Older(os, t)) /\ Cardinality(Older(os, t)) \in Nat
          /\ Cardinality(Older(os2, t)) \in Nat
      BY <1>1, <1>2, BeforeFinite
    <3>3. /\ IsFiniteSet(Flying(g, t) \ {r})
          /\ Cardinality(Flying(g, t) \ {r}) = Cardinality(Flying(g, t)) - 1
      BY <3>1, <3>2, FS_RemoveElement
    <3>4. Cardinality(Flying(g2, t)) <= Cardinality(Flying(g, t)) - 1
      BY <3>1, <3>3, Included
    <3>5. Older(os2, t) \in SUBSET (Older(os, t) \cup {y})
      BY <1>5 DEF Older
    <3>6. /\ IsFiniteSet(Older(os, t) \cup {y})
          /\ \/ Cardinality(Older(os, t) \cup {y}) = Cardinality(Older(os, t))
             \/ Cardinality(Older(os, t) \cup {y}) = Cardinality(Older(os, t)) + 1
      BY <3>2, FS_AddElement
    <3>7. Cardinality(Older(os2, t)) <= Cardinality(Older(os, t) \cup {y})
      BY <3>5, <3>6, Included
    <3>8. Cardinality(Older(os2, t)) <= Cardinality(Older(os, t)) + 1
      BY <3>2, <3>6, <3>7
    <3>. QED
      BY <3>2, <3>4, <3>8 DEF Before
  <2>3. CASE ~(y.ts < t)
    <3>1. Older(os2, t) \subseteq Older(os, t)
      BY <2>3, <1>5 DEF Older
    <3>. QED
      BY <3>1, <2>1, <1>1, <1>2, BeforeShrinks
  <2>. QED
    BY <2>2, <2>3
<1>9. \A t : Before(os2, g2, t) \in Nat /\ Before(os, g, t) \in Nat
  BY <1>1, <1>2, BeforeFinite DEF Before
<1>10. Late(os2, g2)
  <2>1. ASSUME NEW q \in Rules, g2[q].pc = "insert"
        PROVE  Before(os2, g2, g2[q].ts) <= g2[q].day + N - 1
    <3>1. g2[q] = g[q] /\ g[q].pc = "insert"
      BY <2>1, <1>3 DEF Flies
    <3>2. Before(os, g, g[q].ts) <= g[q].day + N - 1
      BY <3>1 DEF Books, Late
    <3>. QED
      BY <3>1, <3>2, <1>4, <1>8, <1>9, SimRulesFacts
  <2>2. ASSUME NEW z \in os2, z.counts
        PROVE  Before(os2, g2, z.ts) <= DailyMax - 1 + N - 1
    <3>1. CASE z \in os
      <4>1. Before(os, g, z.ts) <= DailyMax - 1 + N - 1 /\ z.ts \in Nat
        BY <2>2, <3>1, <1>1 DEF Books, Late, Typed, Row
      <4>. QED
        BY <4>1, <1>8, <1>9, SimRulesFacts
    <3>2. CASE z = y
      <4>1. Before(os, g, g[r].ts) <= g[r].day + N - 1
        BY DEF Books, Late
      <4>2. g[r].day <= DailyMax - 1
        BY <2>2, <3>2, <1>4, SimRulesFacts DEF UnderCap
      <4>. QED
        BY <3>2, <4>1, <4>2, <1>4, <1>8, <1>9, SimRulesFacts
    <3>. QED
      BY <2>2, <3>1, <3>2, <1>5
  <2>. QED
    BY <2>1, <2>2 DEF Late
<1>11. Books(os2, g2, c)
  BY <1>2, <1>6, <1>7, <1>10 DEF Books
<1>. QED
  BY <1>11 DEF g2, os2

\* All orders that count are the latest of them and those it was counted against.
LEMMA BooksBound ==
  ASSUME NEW os, NEW g, NEW c, Books(os, g, c)
  PROVE  Cardinality({x \in os : x.counts}) <= DailyMax + N - 1
<1>. DEFINE S == {x \in os : x.counts}
<1>1. /\ Typed(os, g, c) /\ c \in Nat
      /\ \A x \in S : x \in os /\ x.counts /\ x.ts \in Nat /\ x.ts <= c
  BY DEF Books, Typed, Distinct, Row
<1>2. CASE S = {}
  <2>1. Cardinality(S) = 0
    BY <1>2, FS_EmptySet
  <2>. QED
    BY <2>1, SimRulesFacts
<1>3. CASE S # {}
  <2>. DEFINE T == {c - x.ts : x \in S}
  <2>1. T \in SUBSET Nat /\ T # {}
    BY <1>1, <1>3
  <2>2. PICK m \in T : \A n \in T : m <= n
    BY <2>1, LeastNat
  <2>3. PICK x \in S : m = c - x.ts
    OBVIOUS
  <2>4. \A z \in S : z.ts <= x.ts
    <3>. TAKE z \in S
    <3>1. c - z.ts \in T
      OBVIOUS
    <3>. QED
      BY <3>1, <2>2, <2>3, <1>1
  <2>5. S \in SUBSET (Older(os, x.ts) \cup {x})
    <3>1. \A z \in S : z.ts = x.ts => z = x
      BY <1>1 DEF Books, Distinct
    <3>. QED
      BY <3>1, <2>4, <1>1 DEF Older
  <2>6. /\ IsFiniteSet(Older(os, x.ts)) /\ Cardinality(Older(os, x.ts)) \in Nat
        /\ Cardinality(Flying(g, x.ts)) \in Nat
    BY <1>1, BeforeFinite
  <2>7. Cardinality(Older(os, x.ts)) <= DailyMax - 1 + N - 1
    <3>1. Before(os, g, x.ts) <= DailyMax - 1 + N - 1
      BY <1>1 DEF Books, Late
    <3>. QED
      BY <3>1, <2>6, SimRulesFacts DEF Before
  <2>8. /\ IsFiniteSet(Older(os, x.ts) \cup {x})
        /\ \/ Cardinality(Older(os, x.ts) \cup {x}) = Cardinality(Older(os, x.ts))
           \/ Cardinality(Older(os, x.ts) \cup {x}) = Cardinality(Older(os, x.ts)) + 1
    BY <2>6, FS_AddElement
  <2>9. Cardinality(S) <= Cardinality(Older(os, x.ts) \cup {x}) /\ Cardinality(S) \in Nat
    <3>1. IsFiniteSet(S)
      BY <2>5, <2>8, FS_Subset
    <3>. QED
      BY <3>1, <2>5, <2>8, Included, FS_CardinalityType
  <2>10. Cardinality(S) <= DailyMax - 1 + N - 1 + 1
    <3>. HIDE DEF S
    <3>. QED
      BY <2>6, <2>7, <2>8, <2>9, SimRulesFacts
  <2>11. Cardinality(S) \in Nat
    BY <2>9
  <2>. HIDE DEF S
  <2>12. Cardinality(S) <= DailyMax + N - 1
    BY <2>10, <2>11, SimRulesFacts
  <2>. QED
    BY <2>12 DEF S
<1>. QED
  BY <1>2, <1>3

-----------------------------------------------------------------------------
LEMMA CapInvInit == EngineInit => CapInv
<1>. SUFFICES ASSUME EngineInit PROVE CapInv
  OBVIOUS
<1>1. \A r \in Rules : run[r].pc = "off"
  BY DEF EngineInit, At
<1>2. orders = {}
  BY DEF EngineInit
<1>. QED
  BY <1>1, <1>2, EngineInitType
     DEF CapInv, SimRulesOrder, StampsDistinct, LateOrders, InFlight, Counted

\* A step that only moves goroutines, none of them to a signal.
LEMMA MoveStep ==
  ASSUME CapInv, EngineTypeOK', UNCHANGED <<orders, clock>>,
         \A q \in Rules : run'[q] # run[q] =>
           /\ ~Flies(run', q)
           /\ run'[q].pc = "entity" => q \in SimRules
  PROVE  CapInv'
<1>1. Books(orders, run, clock) /\ run' \in [Rules -> Goroutine]
  BY CapInvIsBooks DEF EngineTypeOK
<1>2. \A q \in Rules : run[q].pc = "entity" => q \in SimRules
  BY DEF CapInv, SimRulesOrder
<1>3. Books(orders, run', clock)
  BY <1>1, <1>2, Landing
<1>. QED
  BY <1>3, CapInvIsBooks

\* The goroutine of r is given a place that OnRuleActive or the engine continues from.
LEMMA BecomesMoves ==
  ASSUME EngineTypeOK, NEW r \in Rules, NEW g, Becomes(r, g), ~(g.pc \in {"day", "insert"}),
         g.pc = "entity" => r \in SimRules
  PROVE  \A q \in Rules : run'[q] # run[q] =>
           /\ ~Flies(run', q)
           /\ run'[q].pc = "entity" => q \in SimRules
BY DEF EngineTypeOK, Becomes, Flies

LEMMA Places ==
  /\ \A pc : At(pc).pc = pc
  /\ \A r, todo : Onward(r, todo).pc = IF todo = {} THEN "put" ELSE "entity"
BY DEF At, Onward

LEMMA CapInvStep ==
  ASSUME CapInv, EngineNext
  PROVE  CapInv'
<1>1. EngineTypeOK /\ EngineTypeOK'
  BY EngineTypeStep DEF CapInv
<1>2. Books(orders, run, clock)
  BY CapInvIsBooks
<1>3. \A r \in Rules : InFlight(r) \/ run[r].pc = "entity" => r \in SimRules
  BY DEF CapInv, SimRulesOrder
<1>4. ASSUME NEW r \in Rules, Evaluate(r) PROVE CapInv'
  <2>1. PICK g : Becomes(r, g) /\ g.pc \in {"put", "alert"}
    BY <1>4 DEF Evaluate, At
  <2>. QED
    BY <1>1, <1>4, <2>1, BecomesMoves, MoveStep DEF Evaluate
<1>5. ASSUME NEW r \in Rules, Announce(r) PROVE CapInv'
  <2>. DEFINE todo == IF r \in SimRules THEN run[r].todo ELSE {}
  <2>1. Becomes(r, Onward(r, todo)) /\ UNCHANGED <<orders, clock>>
    BY <1>5 DEF Announce
  <2>2. Onward(r, todo).pc = "entity" => r \in SimRules
    BY Places
  <2>3. ~(Onward(r, todo).pc \in {"day", "insert"})
    BY Places
  <2>. QED
    BY <1>1, <2>1, <2>2, <2>3, BecomesMoves, MoveStep
<1>6. ASSUME NEW r \in Rules, SkipEntity(r) \/ DriverFails(r) PROVE CapInv'
  <2>1. r \in SimRules
    BY <1>3, <1>6 DEF SkipEntity, DriverFails, InFlight
  <2>2. PICK todo : Becomes(r, Onward(r, todo))
    BY <1>6 DEF SkipEntity, DriverFails
  <2>3. ~(Onward(r, todo).pc \in {"day", "insert"})
    BY Places
  <2>. QED
    BY <1>1, <1>6, <2>1, <2>2, <2>3, BecomesMoves, MoveStep DEF SkipEntity, DriverFails
<1>7. ASSUME NEW r \in Rules, Put(r) \/ EvaluationFails(r) PROVE CapInv'
  <2>1. Becomes(r, At("rest")) /\ UNCHANGED <<orders, clock>>
    BY <1>7 DEF Put, EvaluationFails
  <2>. QED
    BY <1>1, <2>1, Places, BecomesMoves, MoveStep
<1>8. ASSUME NEW r \in Rules, Stamp(r) PROVE CapInv'
  <2>1. PICK e \in run[r].todo :
          Becomes(r, [run[r] EXCEPT !.pc = "day", !.ent = {e}, !.ts = clock + 1])
    BY <1>8 DEF Stamp
  <2>. DEFINE h == [run[r] EXCEPT !.pc = "day", !.ent = {e}, !.ts = clock + 1]
  <2>2. run' = [run EXCEPT ![r] = h] /\ run[r] \in Goroutine
    BY <1>1, <2>1 DEF Becomes, EngineTypeOK
  <2>3. h.pc = "day" /\ h.ts = clock + 1
    BY <2>2 DEF Goroutine
  <2>4. h \in Goroutine
    BY <1>1, <2>2 DEF EngineTypeOK
  <2>5. r \in SimRules /\ clock' = clock + 1 /\ orders' = orders
    BY <1>3, <1>8 DEF Stamp
  <2>. HIDE DEF h
  <2>. QED
    BY <1>1, <1>2, <2>2, <2>3, <2>4, <2>5, Stamping, CapInvIsBooks
<1>9. ASSUME NEW r \in Rules, ReadDay(r) PROVE CapInv'
  <2>. DEFINE h == [run[r] EXCEPT !.pc = "insert", !.day = Cardinality(CountedBefore(run[r].ts))]
  <2>1. run' = [run EXCEPT ![r] = h] /\ run[r] \in Goroutine
    BY <1>1, <1>9 DEF ReadDay, Becomes, EngineTypeOK
  <2>2. CountedBefore(run[r].ts) = Older(orders, run[r].ts)
    BY DEF CountedBefore, Counted, Older
  <2>3. h.pc = "insert" /\ h.ts = run[r].ts /\ h.day = Cardinality(Older(orders, run[r].ts))
    BY <2>1, <2>2 DEF Goroutine
  <2>4. h \in Goroutine
    BY <1>1, <2>1 DEF EngineTypeOK
  <2>5. run[r].pc = "day" /\ UNCHANGED <<orders, clock>>
    BY <1>9 DEF ReadDay
  <2>. HIDE DEF h
  <2>. QED
    BY <1>1, <1>2, <2>1, <2>3, <2>4, <2>5, Reading, CapInvIsBooks
<1>10. ASSUME NEW r \in Rules, InsertOrder(r) PROVE CapInv'
  <2>1. PICK e \in run[r].ent, passes \in BOOLEAN :
          /\ orders' = orders \cup
               {[rule |-> r, ent |-> e, ts |-> run[r].ts,
                 counts |-> passes /\ UnderCap(run[r].day), epoch |-> epoch[r]]}
          /\ Becomes(r, Onward(r, run[r].todo \ {e}))
    BY <1>10 DEF InsertOrder
  <2>. DEFINE b == passes /\ UnderCap(run[r].day)
              y == [rule |-> r, ent |-> e, ts |-> run[r].ts, counts |-> b, epoch |-> epoch[r]]
              h == Onward(r, run[r].todo \ {e})
  <2>2. orders' = orders \cup {y} /\ run' = [run EXCEPT ![r] = h]
    BY <2>1 DEF Becomes
  <2>3. y \in Row
    BY <1>1, <2>2 DEF EngineTypeOK
  <2>4. b => UnderCap(run[r].day)
    OBVIOUS
  <2>5. h \in Goroutine
    BY <1>1, <2>2 DEF EngineTypeOK
  <2>6. ~(h.pc \in {"day", "insert"})
    BY Places
  <2>7. run[r].pc = "insert" /\ clock' = clock
    BY <1>10 DEF InsertOrder
  <2>. HIDE DEF b, h
  <2>8. y.ts = run[r].ts /\ (y.counts => UnderCap(run[r].day))
    BY <2>4
  <2>. HIDE DEF y
  <2>. QED
    BY <1>1, <1>2, <2>2, <2>3, <2>5, <2>6, <2>7, <2>8, Inserting, CapInvIsBooks
<1>11. ASSUME NEW x \in orders, Retire(x) PROVE CapInv'
  <2>. DEFINE y == [x EXCEPT !.counts = FALSE]
  <2>1. x \in Row /\ orders' = (orders \ {x}) \cup {y} /\ UNCHANGED <<run, clock>>
    BY <1>1, <1>11 DEF Retire, EngineTypeOK
  <2>2. y \in Row /\ y.ts = x.ts /\ ~y.counts
    BY <2>1 DEF Row
  <2>. HIDE DEF y
  <2>. QED
    BY <1>1, <1>2, <2>1, <2>2, Retiring, CapInvIsBooks
<1>12. ASSUME NEW r \in Rules, NEW es, Facts(r, es) PROVE CapInv'
  BY <1>1, <1>12, MoveStep DEF Facts
<1>13. CASE Start \/ Crash
  <2>1. \A q \in Rules : run'[q].pc \in {"rest", "off"}
    BY <1>13, Places DEF Start, Crash
  <2>. QED
    BY <1>1, <1>13, <2>1, MoveStep DEF Start, Crash, Flies
<1>. QED
  BY <1>4, <1>5, <1>6, <1>7, <1>8, <1>9, <1>10, <1>11, <1>12, <1>13 DEF EngineNext, EngineStep

(* CapInv, the invariant behind the bound, holds throughout.                 *)
THEOREM CapInvCorrect == EngineSpec => []CapInv
<1>1. CapInv /\ UNCHANGED evars => CapInv'
  <2>. SUFFICES ASSUME CapInv, UNCHANGED evars PROVE CapInv'
    OBVIOUS
  <2>1. EngineTypeOK'
    BY DEF CapInv, EngineTypeOK, evars
  <2>. QED
    BY <2>1, CapInvIsBooks DEF evars
<1>. QED
  BY CapInvInit, CapInvStep, <1>1, PTL DEF EngineSpec

(* Concurrent rule goroutines overshoot the daily cap by less than one order *)
(* for each rule beside the late one, for any rules, entities and cap.        *)
THEOREM CapHolds == EngineSpec => []CapOvershoot
<1>1. CapInv => CapOvershoot
  <2>. SUFFICES ASSUME CapInv PROVE CapOvershoot
    OBVIOUS
  <2>1. Books(orders, run, clock)
    BY CapInvIsBooks
  <2>2. Cardinality({x \in orders : x.counts}) <= DailyMax + N - 1
    BY <2>1, BooksBound
  <2>. QED
    BY <2>2 DEF CapOvershoot, Counted, N
<1>. QED
  BY CapInvCorrect, <1>1, PTL

-----------------------------------------------------------------------------
(* Alerts come before states. *)

LastAlertIs(r, what) == Len(alerts[r]) > 0 /\ alerts[r][Len(alerts[r])] = what

\* A goroutine past its alert is about to record the state the alert announced, unless
\* it records the state the rule is in.
AlertFirst ==
  \A r \in Rules :
    /\ run[r].pc \in {"entity", "day", "insert"} => LastAlertIs(r, run[r].want)
    /\ run[r].pc = "put" => LastAlertIs(r, run[r].want) \/ trigger[r] = run[r].want

\* Within one rule, OnRuleActive keeps the state to be recorded.
LEMMA OnwardKeeps ==
  \A r, todo : Onward(r, todo).want = run[r].want /\ Onward(r, todo).pc \in {"put", "entity"}
BY DEF Onward, At

\* A step of OnRuleActive goes on with an alert already written.
LEMMA DriverStep ==
  ASSUME EngineTypeOK, AlertFirst, NEW r \in Rules, NEW g, Becomes(r, g),
         run[r].pc \in {"entity", "day", "insert"},
         g.want = run[r].want, UNCHANGED <<trigger, alerts>>
  PROVE  AlertFirst'
<1>1. \A q \in Rules : run'[q] = IF q = r THEN g ELSE run[q]
  BY DEF EngineTypeOK, Becomes
<1>2. \A q, w : LastAlertIs(q, w)' <=> LastAlertIs(q, w)
  BY DEF LastAlertIs
<1>. QED
  BY <1>1 DEF AlertFirst, LastAlertIs

LEMMA AlertFirstStep ==
  ASSUME EngineTypeOK, AlertFirst, EngineNext
  PROVE  AlertFirst'
<1>1. run \in [Rules -> Goroutine] /\ alerts \in [Rules -> Seq({"active", "resolved"})]
  BY DEF EngineTypeOK
<1>2. ASSUME NEW r \in Rules, Evaluate(r) PROVE AlertFirst'
  <2>. DEFINE G(g) == \/ g.pc = "alert"
                      \/ g.pc = "put" /\ g.want = "active" /\ trigger[r] = "active"
  <2>1. PICK g : Becomes(r, g) /\ G(g)
    <3>1. \/ Becomes(r, At("put")) /\ trigger[r] = "active"
          \/ Becomes(r, [At("alert") EXCEPT !.want = "resolved"])
          \/ Becomes(r, [At("alert") EXCEPT !.todo = hit[r]])
      BY <1>2 DEF Evaluate
    <3>2. /\ trigger[r] = "active" => G(At("put"))
          /\ G([At("alert") EXCEPT !.want = "resolved"])
          /\ G([At("alert") EXCEPT !.todo = hit[r]])
      BY DEF At
    <3>. HIDE DEF G
    <3>. QED
      BY <3>1, <3>2, Zenon
  <2>2. UNCHANGED <<trigger, alerts>>
    BY <1>2 DEF Evaluate
  <2>. QED
    BY <1>1, <2>1, <2>2 DEF Becomes, AlertFirst, LastAlertIs
<1>3. ASSUME NEW r \in Rules, Announce(r) PROVE AlertFirst'
  <2>1. PICK g : run' = [run EXCEPT ![r] = g] /\ g.want = run[r].want
    BY <1>3, OnwardKeeps DEF Announce, Becomes
  <2>2. alerts' = [alerts EXCEPT ![r] = Append(alerts[r], run[r].want)] /\ trigger' = trigger
    BY <1>3 DEF Announce
  <2>3. alerts[r] \in Seq({"active", "resolved"}) /\ run[r].want \in {"active", "resolved"}
    BY <1>1 DEF Goroutine
  <2>4. alerts'[r] = Append(alerts[r], run[r].want)
    BY <1>1, <2>2
  <2>5. Len(alerts'[r]) = Len(alerts[r]) + 1 /\ alerts'[r][Len(alerts[r]) + 1] = run[r].want
    BY <2>3, <2>4
  <2>6. Len(alerts'[r]) > 0 /\ alerts'[r][Len(alerts'[r])] = run'[r].want
    BY <1>1, <2>1, <2>3, <2>5
  <2>7. \A q \in Rules : q # r => run'[q] = run[q] /\ alerts'[q] = alerts[q]
    BY <1>1, <2>1, <2>2
  <2>. QED
    BY <2>2, <2>6, <2>7 DEF AlertFirst, LastAlertIs
<1>4. ASSUME NEW r \in Rules, SkipEntity(r) \/ InsertOrder(r) \/ DriverFails(r)
      PROVE  AlertFirst'
  <2>1. PICK todo : Becomes(r, Onward(r, todo))
    BY <1>4 DEF SkipEntity, InsertOrder, DriverFails
  <2>2. run[r].pc \in {"entity", "day", "insert"} /\ UNCHANGED <<trigger, alerts>>
    BY <1>4 DEF SkipEntity, InsertOrder, DriverFails
  <2>. QED
    BY <2>1, <2>2, OnwardKeeps, DriverStep
<1>5. ASSUME NEW r \in Rules, Stamp(r) \/ ReadDay(r) PROVE AlertFirst'
  <2>1. PICK g : Becomes(r, g) /\ g.want = run[r].want
    <3>1. run[r] \in Goroutine
      BY <1>1
    <3>2. CASE Stamp(r)
      <4>1. PICK e : Becomes(r, [run[r] EXCEPT !.pc = "day", !.ent = {e}, !.ts = clock + 1])
        BY <3>2 DEF Stamp
      <4>2. [run[r] EXCEPT !.pc = "day", !.ent = {e}, !.ts = clock + 1].want = run[r].want
        BY <3>1 DEF Goroutine
      <4>. QED
        BY <4>1, <4>2
    <3>3. CASE ReadDay(r)
      <4>. DEFINE d == Cardinality(CountedBefore(run[r].ts))
      <4>1. Becomes(r, [run[r] EXCEPT !.pc = "insert", !.day = d])
        BY <3>3 DEF ReadDay
      <4>2. [run[r] EXCEPT !.pc = "insert", !.day = d].want = run[r].want
        BY <3>1 DEF Goroutine
      <4>. QED
        BY <4>1, <4>2
    <3>. QED
      BY <1>5, <3>2, <3>3
  <2>2. run[r].pc \in {"entity", "day", "insert"} /\ UNCHANGED <<trigger, alerts>>
    BY <1>5 DEF Stamp, ReadDay
  <2>. QED
    BY <2>1, <2>2, DriverStep
<1>6. ASSUME NEW r \in Rules, Put(r) \/ EvaluationFails(r) PROVE AlertFirst'
  <2>1. run' = [run EXCEPT ![r] = At("rest")] /\ alerts' = alerts
    BY <1>6 DEF Put, EvaluationFails, Becomes
  <2>2. At("rest").pc = "rest"
    BY DEF At
  <2>3. \A q \in Rules : q # r => trigger'[q] = trigger[q]
    BY <1>6 DEF Put, EvaluationFails, EngineTypeOK
  <2>. QED
    BY <1>1, <2>1, <2>2, <2>3 DEF AlertFirst, LastAlertIs
<1>7. CASE \/ \E r \in Rules, es \in SUBSET Entities : Facts(r, es)
           \/ \E x \in orders : Retire(x)
  <2>1. UNCHANGED <<trigger, alerts, run>>
    BY <1>7 DEF Facts, Retire
  <2>. QED
    BY <2>1 DEF AlertFirst, LastAlertIs
<1>8. CASE Start \/ Crash
  <2>1. \A q \in Rules : run'[q].pc \in {"rest", "off"}
    BY <1>8 DEF Start, Crash, At
  <2>. QED
    BY <2>1 DEF AlertFirst
<1>. QED
  BY <1>2, <1>3, <1>4, <1>5, <1>6, <1>7, <1>8 DEF EngineNext, EngineStep

(* No change of state is recorded without its alert, for any rules: neither  *)
(* failures nor crashes between the writes of a transition hide one.         *)
THEOREM NothingHidden == EngineSpec => Announced
<1>. DEFINE A == \A r \in Rules :
              trigger'[r] # trigger[r] => trigger'[r] = alerts[r][Len(alerts[r])]
<1>1. EngineInit => AlertFirst
  BY DEF EngineInit, AlertFirst, At
<1>2. AlertFirst /\ UNCHANGED evars => AlertFirst'
  BY DEF AlertFirst, LastAlertIs, evars
<1>3. EngineTypeOK /\ AlertFirst /\ [EngineNext]_evars => [A]_evars
  <2>. SUFFICES ASSUME EngineTypeOK, AlertFirst, EngineNext, NEW r \in Rules,
                       trigger'[r] # trigger[r]
       PROVE    trigger'[r] = alerts[r][Len(alerts[r])]
    BY DEF evars
  <2>1. Put(r)
    BY DEF EngineNext, EngineStep, Evaluate, Announce, SkipEntity, Stamp, ReadDay, InsertOrder,
           Put, DriverFails, EvaluationFails, Facts, Retire, Start, Crash, EngineTypeOK
  <2>2. run[r].pc = "put" /\ trigger'[r] = run[r].want
    BY <2>1 DEF Put, EngineTypeOK
  <2>. QED
    BY <2>2 DEF AlertFirst, LastAlertIs
<1>. QED
  BY EngineTypeCorrect, AlertFirstStep, <1>1, <1>2, <1>3, PTL DEF EngineSpec, Announced
-----------------------------------------------------------------------------
(* Orders and the alerts they come from. *)

Placed(os, r, e) == {x \in os : x.rule = r /\ x.ent = e}
Actives(s) == {i \in DOMAIN s : s[i] = "active"}

\* OnRuleActive may still place an order for e.
Owes(g, e) == g.pc \in {"entity", "day", "insert"} /\ e \in g.todo

\* The orders of rule r that are placed or owed for an entity are covered by its alerts s.
Covered(os, s, g, r) ==
  /\ g.pc = "alert" /\ g.todo # {} => g.want = "active"
  /\ g.pc \in {"day", "insert"} => g.ent \subseteq g.todo
  /\ \A e \in Entities :
       /\ Cardinality(Placed(os, r, e)) <= Cardinality(Actives(s))
       /\ Owes(g, e) => Cardinality(Placed(os, r, e)) + 1 <= Cardinality(Actives(s))

OrdersCovered == \A r \in Rules : Covered(orders, alerts[r], run[r], r)

LEMMA PlacedFinite ==
  ASSUME NEW os, IsFiniteSet(os)
  PROVE  \A r, e : IsFiniteSet(Placed(os, r, e)) /\ Cardinality(Placed(os, r, e)) \in Nat
<1>. SUFFICES ASSUME NEW r, NEW e
     PROVE IsFiniteSet(Placed(os, r, e)) /\ Cardinality(Placed(os, r, e)) \in Nat
  OBVIOUS
<1>1. Placed(os, r, e) \in SUBSET os
  BY DEF Placed
<1>. QED
  BY <1>1, FS_Subset, FS_CardinalityType

LEMMA ActivesFinite ==
  ASSUME NEW T, NEW s \in Seq(T)
  PROVE  IsFiniteSet(Actives(s)) /\ Cardinality(Actives(s)) \in Nat
<1>1. Actives(s) \in SUBSET (1 .. Len(s))
  BY DEF Actives
<1>2. Len(s) \in Int
  OBVIOUS
<1>3. IsFiniteSet(1 .. Len(s))
  BY <1>2, FS_Interval
<1>4. IsFiniteSet(Actives(s))
  BY <1>1, <1>3, FS_Subset
<1>. QED
  BY <1>4, FS_CardinalityType

\* Another alert never takes one away, and an activation adds one.
LEMMA AlertAdds ==
  ASSUME NEW T, NEW s \in Seq(T), NEW w \in T
  PROVE  /\ Cardinality(Actives(s)) <= Cardinality(Actives(Append(s, w)))
         /\ w = "active" => Cardinality(Actives(Append(s, w))) = Cardinality(Actives(s)) + 1
<1>1. CASE w = "active"
  <2>1. Actives(Append(s, w)) = Actives(s) \cup {Len(s) + 1}
    BY <1>1 DEF Actives
  <2>2. Len(s) + 1 \notin Actives(s)
    BY DEF Actives
  <2>3. Cardinality(Actives(s) \cup {Len(s) + 1}) = Cardinality(Actives(s)) + 1
    BY <2>2, ActivesFinite, FS_AddElement
  <2>. QED
    BY <2>1, <2>3, ActivesFinite
<1>2. CASE w # "active"
  <2>1. Actives(Append(s, w)) = Actives(s)
    BY <1>2 DEF Actives
  <2>. QED
    BY <2>1, <1>2, ActivesFinite
<1>. QED
  BY <1>1, <1>2

\* A goroutine that owes no more than before.
LEMMA OwesLess ==
  ASSUME NEW os, NEW s, NEW g, NEW h, NEW r, Covered(os, s, g, r),
         h.pc = "alert" /\ h.todo # {} => h.want = "active",
         h.pc \in {"day", "insert"} => h.ent \subseteq h.todo,
         \A e \in Entities : Owes(h, e) => Owes(g, e)
  PROVE  Covered(os, s, h, r)
BY DEF Covered

\* A step of rule r that touches neither orders nor alerts and leaves it owing no more.
LEMMA CoveredMove ==
  ASSUME EngineTypeOK, OrdersCovered, NEW r \in Rules, NEW h, Becomes(r, h),
         UNCHANGED <<orders, alerts>>,
         h.pc = "alert" /\ h.todo # {} => h.want = "active",
         h.pc \in {"day", "insert"} => h.ent \subseteq h.todo,
         \A e \in Entities : Owes(h, e) => Owes(run[r], e)
  PROVE  OrdersCovered'
<1>1. \A q \in Rules : run'[q] = IF q = r THEN h ELSE run[q]
  BY DEF EngineTypeOK, Becomes
<1>2. Covered(orders, alerts[r], h, r)
  <2>. DEFINE s == alerts[r]
              g == run[r]
  <2>1. Covered(orders, s, g, r)
    BY DEF OrdersCovered
  <2>. HIDE DEF s, g
  <2>2. \A e \in Entities : Owes(h, e) => Owes(g, e)
    BY DEF g
  <2>. QED
    BY <2>1, <2>2, OwesLess DEF s
<1>. QED
  BY <1>1, <1>2 DEF OrdersCovered

\* Orders that give no entity more rows.
LEMMA FewerPlaced ==
  ASSUME NEW os, NEW os2, NEW s, NEW g, NEW r, Covered(os, s, g, r),
         \A e : Cardinality(Placed(os2, r, e)) <= Cardinality(Placed(os, r, e)),
         \A e : Cardinality(Placed(os, r, e)) \in Nat /\ Cardinality(Placed(os2, r, e)) \in Nat,
         Cardinality(Actives(s)) \in Nat
  PROVE  Covered(os2, s, g, r)
<1>1. ASSUME NEW e \in Entities
      PROVE  /\ Cardinality(Placed(os2, r, e)) <= Cardinality(Actives(s))
             /\ Owes(g, e) => Cardinality(Placed(os2, r, e)) + 1 <= Cardinality(Actives(s))
  BY DEF Covered
<1>. QED
  BY <1>1 DEF Covered

\* A row inserted for an entity that was owed one.
LEMMA InsertCovered ==
  ASSUME NEW os, IsFiniteSet(os), NEW s, NEW g, NEW h, NEW r, NEW x, Covered(os, s, g, r),
         Cardinality(Actives(s)) \in Nat, x.rule = r, Owes(g, x.ent),
         h.pc \in {"put", "entity"}, \A e \in Entities : Owes(h, e) => Owes(g, e) /\ e # x.ent
  PROVE  Covered(os \cup {x}, s, h, r)
<1>1. ASSUME NEW e \in Entities, e = x.ent
      PROVE  /\ Cardinality(Placed(os \cup {x}, r, e)) <= Cardinality(Actives(s))
             /\ ~ Owes(h, e)
  <2>1. Placed(os \cup {x}, r, e) = Placed(os, r, e) \cup {x}
    BY <1>1 DEF Placed
  <2>. DEFINE P == Placed(os, r, e)
              W == Cardinality(Actives(s))
  <2>2. IsFiniteSet(P) /\ Cardinality(P) \in Nat /\ W \in Nat
    BY PlacedFinite
  <2>3. Cardinality(P) + 1 <= W
    BY <1>1 DEF Covered
  <2>4. Cardinality(Placed(os \cup {x}, r, e)) = Cardinality(P \cup {x})
    BY <2>1
  <2>5. ~ Owes(h, e)
    BY <1>1
  <2>. HIDE DEF P, W
  <2>6. Cardinality(P \cup {x}) = (IF x \in P THEN Cardinality(P) ELSE Cardinality(P) + 1)
    BY <2>2, FS_AddElement
  <2>7. Cardinality(P \cup {x}) <= W
    BY <2>2, <2>3, <2>6
  <2>8. Cardinality(Placed(os \cup {x}, r, e)) <= W
    BY <2>4, <2>7
  <2>. QED
    BY <2>5, <2>8 DEF W
<1>2. ASSUME NEW e \in Entities, e # x.ent
      PROVE  Placed(os \cup {x}, r, e) = Placed(os, r, e)
  BY <1>2 DEF Placed
<1>. QED
  BY <1>1, <1>2 DEF Covered

LEMMA OrdersCoveredStep ==
  ASSUME EngineTypeOK, EngineTypeOK', OrdersCovered, EngineNext
  PROVE  OrdersCovered'
<1>1. /\ run \in [Rules -> Goroutine] /\ alerts \in [Rules -> Seq({"active", "resolved"})]
      /\ IsFiniteSet(orders) /\ IsFiniteSet(orders')
  BY DEF EngineTypeOK
<1>2. \A q \in Rules : Cardinality(Actives(alerts[q])) \in Nat
  BY <1>1, ActivesFinite
<1>3. \A q, e : Cardinality(Placed(orders, q, e)) \in Nat /\ Cardinality(Placed(orders', q, e)) \in Nat
  BY <1>1, PlacedFinite
<1>4. ASSUME NEW r \in Rules, Evaluate(r) PROVE OrdersCovered'
  <2>1. PICK h : Becomes(r, h) /\ h \in {At("put"), [At("alert") EXCEPT !.want = "resolved"],
                                         [At("alert") EXCEPT !.todo = hit[r]]}
    BY <1>4 DEF Evaluate
  <2>2. /\ h.pc \in {"put", "alert"}
        /\ h.todo # {} => h.want = "active"
    BY <2>1 DEF At
  <2>3. UNCHANGED <<orders, alerts>>
    BY <1>4 DEF Evaluate
  <2>4. \A e \in Entities : ~ Owes(h, e)
    BY <2>2 DEF Owes
  <2>5. h.pc \notin {"day", "insert"}
    BY <2>2
  <2>. HIDE DEF Becomes, OrdersCovered
  <2>. QED
    BY <2>1, <2>2, <2>3, <2>4, <2>5, CoveredMove
<1>5. ASSUME NEW r \in Rules, Announce(r) PROVE OrdersCovered'
  <2>. DEFINE todo == IF r \in SimRules THEN run[r].todo ELSE {}
  <2>1. PICK h : h = Onward(r, todo)
    OBVIOUS
  <2>2. PICK s : s = Append(alerts[r], run[r].want)
    OBVIOUS
  <2>3. \A q \in Rules : /\ run'[q] = IF q = r THEN h ELSE run[q]
                         /\ alerts'[q] = IF q = r THEN s ELSE alerts[q]
    BY <1>1, <1>5, <2>1, <2>2 DEF Announce, Becomes
  <2>4. orders' = orders /\ run[r].pc = "alert"
    BY <1>5 DEF Announce
  <2>5. h.pc \in {"put", "entity"} /\ h.todo = todo
    BY <2>1 DEF Onward, At
  <2>6. Covered(orders, alerts[r], run[r], r)
    BY DEF OrdersCovered
  <2>7. run[r].want \in {"active", "resolved"}
    BY <1>1 DEF Goroutine
  <2>8. Cardinality(Actives(alerts[r])) <= Cardinality(Actives(s))
        /\ (run[r].want = "active" => Cardinality(Actives(s)) = Cardinality(Actives(alerts[r])) + 1)
    BY <1>1, <2>2, <2>7, AlertAdds
  <2>9. todo # {} => run[r].want = "active"
    BY <2>4, <2>6 DEF Covered
  <2>10. Cardinality(Actives(s)) \in Nat
    <3>1. s \in Seq({"active", "resolved"})
      BY <1>1, <2>2, <2>7
    <3>. QED
      BY <3>1, ActivesFinite
  <2>11. Covered(orders, s, h, r)
    <3>1. ASSUME NEW e \in Entities
          PROVE  /\ Cardinality(Placed(orders, r, e)) <= Cardinality(Actives(s))
                 /\ Owes(h, e) => Cardinality(Placed(orders, r, e)) + 1 <= Cardinality(Actives(s))
      <4>1. Cardinality(Placed(orders, r, e)) <= Cardinality(Actives(alerts[r]))
        BY <2>6 DEF Covered
      <4>2. Owes(h, e) => todo # {}
        BY <2>5 DEF Owes
      <4>. HIDE DEF todo
      <4>. QED
        BY <4>1, <4>2, <2>8, <2>9, <2>10, <1>2, <1>3
    <3>. QED
      BY <3>1, <2>5 DEF Covered
  <2>. QED
    BY <2>3, <2>4, <2>11 DEF OrdersCovered
<1>6. ASSUME NEW r \in Rules, SkipEntity(r) \/ DriverFails(r) PROVE OrdersCovered'
  <2>1. PICK todo \in SUBSET run[r].todo : Becomes(r, Onward(r, todo))
    BY <1>6 DEF SkipEntity, DriverFails
  <2>2. PICK h : h = Onward(r, todo)
    OBVIOUS
  <2>3. h.pc \in {"put", "entity"} /\ h.todo = todo
    BY <2>2 DEF Onward, At
  <2>4. run[r].pc \in {"entity", "day", "insert"} /\ UNCHANGED <<orders, alerts>>
    BY <1>6 DEF SkipEntity, DriverFails
  <2>5. \A e \in Entities : Owes(h, e) => Owes(run[r], e)
    BY <2>1, <2>3, <2>4 DEF Owes
  <2>. HIDE DEF Becomes, OrdersCovered
  <2>6. /\ ~(h.pc = "alert") /\ h.pc \notin {"day", "insert"} /\ Becomes(r, h)
    BY <2>1, <2>2, <2>3
  <2>. QED
    BY <2>4, <2>5, <2>6, CoveredMove
<1>7. ASSUME NEW r \in Rules, Stamp(r) PROVE OrdersCovered'
  <2>1. PICK e \in run[r].todo :
          Becomes(r, [run[r] EXCEPT !.pc = "day", !.ent = {e}, !.ts = clock + 1])
    BY <1>7 DEF Stamp
  <2>2. PICK h : h = [run[r] EXCEPT !.pc = "day", !.ent = {e}, !.ts = clock + 1]
    OBVIOUS
  <2>3. run[r] \in Goroutine
    BY <1>1
  <2>4. h.pc = "day" /\ h.ent = {e} /\ h.todo = run[r].todo
    BY <2>2, <2>3 DEF Goroutine
  <2>5. run[r].pc = "entity" /\ UNCHANGED <<orders, alerts>>
    BY <1>7 DEF Stamp
  <2>6. /\ \A f \in Entities : Owes(h, f) => Owes(run[r], f)
        /\ h.ent \subseteq h.todo /\ h.pc # "alert"
    BY <2>1, <2>4, <2>5 DEF Owes
  <2>. HIDE DEF Becomes, OrdersCovered
  <2>. QED
    BY <2>1, <2>2, <2>5, <2>6, CoveredMove
<1>8. ASSUME NEW r \in Rules, ReadDay(r) PROVE OrdersCovered'
  <2>1. PICK h : h = [run[r] EXCEPT !.pc = "insert", !.day = Cardinality(CountedBefore(run[r].ts))]
    OBVIOUS
  <2>2. run[r] \in Goroutine
    BY <1>1
  <2>3. h.pc = "insert" /\ h.ent = run[r].ent /\ h.todo = run[r].todo
    BY <2>1, <2>2 DEF Goroutine
  <2>4. run[r].pc = "day" /\ Becomes(r, h) /\ UNCHANGED <<orders, alerts>>
    BY <1>8, <2>1 DEF ReadDay
  <2>5. run[r].ent \subseteq run[r].todo
    BY <2>4 DEF OrdersCovered, Covered
  <2>6. /\ \A e \in Entities : Owes(h, e) => Owes(run[r], e)
        /\ h.ent \subseteq h.todo /\ h.pc # "alert"
    BY <2>3, <2>4, <2>5 DEF Owes
  <2>. HIDE DEF Becomes, OrdersCovered
  <2>. QED
    BY <2>4, <2>6, CoveredMove
<1>9. ASSUME NEW r \in Rules, InsertOrder(r) PROVE OrdersCovered'
  <2>1. PICK e \in run[r].ent, passes \in BOOLEAN :
          /\ orders' = orders \cup
               {[rule |-> r, ent |-> e, ts |-> run[r].ts,
                 counts |-> passes /\ UnderCap(run[r].day), epoch |-> epoch[r]]}
          /\ Becomes(r, Onward(r, run[r].todo \ {e}))
    BY <1>9 DEF InsertOrder
  <2>2. PICK x : x = [rule |-> r, ent |-> e, ts |-> run[r].ts,
                      counts |-> passes /\ UnderCap(run[r].day), epoch |-> epoch[r]]
    OBVIOUS
  <2>3. x.rule = r /\ x.ent = e
    BY <2>2
  <2>4. PICK h : h = Onward(r, run[r].todo \ {e})
    OBVIOUS
  <2>5. h.pc \in {"put", "entity"} /\ h.todo = run[r].todo \ {e}
    BY <2>4 DEF Onward, At
  <2>6. run[r].pc = "insert" /\ alerts' = alerts
    BY <1>9 DEF InsertOrder
  <2>7. \A q \in Rules : run'[q] = IF q = r THEN h ELSE run[q]
    BY <1>1, <2>1, <2>4 DEF Becomes
  <2>8. Covered(orders, alerts[r], run[r], r)
    BY DEF OrdersCovered
  <2>9. Owes(run[r], x.ent)
    BY <2>1, <2>3, <2>6, <2>8 DEF Covered, Owes
  <2>10. \A f \in Entities : Owes(h, f) => Owes(run[r], f) /\ f # x.ent
    BY <2>3, <2>5, <2>6 DEF Owes
  <2>11. Covered(orders \cup {x}, alerts[r], h, r)
    <3>. DEFINE g == run[r]
                s == alerts[r]
    <3>1. Covered(orders, s, g, r) /\ Cardinality(Actives(s)) \in Nat /\ Owes(g, x.ent)
          /\ \A f \in Entities : Owes(h, f) => Owes(g, f) /\ f # x.ent
      BY <1>2, <2>8, <2>9, <2>10
    <3>. HIDE DEF g, s
    <3>2. Covered(orders \cup {x}, s, h, r)
      BY <1>1, <2>3, <2>5, <3>1, InsertCovered
    <3>. QED
      BY <3>2 DEF s
  <2>12. ASSUME NEW q \in Rules, q # r PROVE Covered(orders \cup {x}, alerts[q], run[q], q)
    <3>1. \A f : Placed(orders \cup {x}, q, f) = Placed(orders, q, f)
      BY <2>3, <2>12 DEF Placed
    <3>2. Covered(orders, alerts[q], run[q], q)
      BY DEF OrdersCovered
    <3>. QED
      BY <3>1, <3>2 DEF Covered
  <2>13. orders' = orders \cup {x}
    BY <2>1, <2>2
  <2>. QED
    BY <2>6, <2>7, <2>11, <2>12, <2>13 DEF OrdersCovered
<1>10. ASSUME NEW r \in Rules, Put(r) \/ EvaluationFails(r) PROVE OrdersCovered'
  <2>1. PICK h : h = At("rest")
    OBVIOUS
  <2>2. Becomes(r, h) /\ UNCHANGED <<orders, alerts>>
    BY <1>10, <2>1 DEF Put, EvaluationFails
  <2>3. h.pc = "rest"
    BY <2>1 DEF At
  <2>4. \A e \in Entities : ~ Owes(h, e)
    BY <2>3 DEF Owes
  <2>5. h.pc # "alert" /\ h.pc \notin {"day", "insert"}
    BY <2>3
  <2>. HIDE DEF Becomes, OrdersCovered
  <2>. QED
    BY <2>2, <2>4, <2>5, CoveredMove
<1>11. ASSUME NEW r \in Rules, NEW es \in SUBSET Entities, Facts(r, es) PROVE OrdersCovered'
  BY <1>11 DEF Facts, OrdersCovered
<1>12. ASSUME NEW x \in orders, Retire(x) PROVE OrdersCovered'
  <2>1. PICK y : y = [x EXCEPT !.counts = FALSE]
    OBVIOUS
  <2>2. x \in Row
    BY DEF EngineTypeOK
  <2>3. y.rule = x.rule /\ y.ent = x.ent
    BY <2>1, <2>2 DEF Row
  <2>4. orders' = (orders \ {x}) \cup {y} /\ UNCHANGED <<alerts, run>>
    BY <1>12, <2>1 DEF Retire
  <2>5. ASSUME NEW q, NEW e
        PROVE Cardinality(Placed(orders', q, e)) <= Cardinality(Placed(orders, q, e))
    <3>1. CASE q = x.rule /\ e = x.ent
      <4>1. Placed(orders', q, e) = (Placed(orders, q, e) \ {x}) \cup {y} /\ x \in Placed(orders, q, e)
        BY <2>3, <2>4, <3>1 DEF Placed
      <4>2. PICK P : P = Placed(orders, q, e)
        OBVIOUS
      <4>3. IsFiniteSet(P) /\ Cardinality(P) \in Nat /\ x \in P
        BY <1>1, <4>1, <4>2, PlacedFinite
      <4>4. IsFiniteSet(P \ {x}) /\ Cardinality(P \ {x}) = Cardinality(P) - 1
        BY <4>3, FS_RemoveElement
      <4>5. Cardinality((P \ {x}) \cup {y}) <= Cardinality(P \ {x}) + 1
        <5>1. Cardinality(P \ {x}) \in Nat
          BY <4>4, FS_CardinalityType
        <5>. QED
          BY <4>4, <5>1, FS_AddElement
      <4>. QED
        BY <4>1, <4>2, <4>3, <4>4, <4>5
    <3>2. CASE ~(q = x.rule /\ e = x.ent)
      <4>1. Placed(orders', q, e) = Placed(orders, q, e)
        BY <2>3, <2>4, <3>2 DEF Placed
      <4>. QED
        BY <4>1, <1>3
    <3>. QED
      BY <3>1, <3>2
  <2>6. ASSUME NEW q \in Rules PROVE Covered(orders', alerts[q], run[q], q)
    <3>. DEFINE g == run[q]
                s == alerts[q]
    <3>1. PICK os : os = orders'
      OBVIOUS
    <3>2. /\ Covered(orders, s, g, q) /\ Cardinality(Actives(s)) \in Nat
          /\ \A e : Cardinality(Placed(os, q, e)) <= Cardinality(Placed(orders, q, e))
          /\ \A e : Cardinality(Placed(orders, q, e)) \in Nat /\ Cardinality(Placed(os, q, e)) \in Nat
      BY <1>2, <1>3, <2>5, <3>1 DEF OrdersCovered
    <3>. HIDE DEF g, s
    <3>3. Covered(os, s, g, q)
      BY <3>2, FewerPlaced
    <3>. QED
      BY <3>1, <3>3 DEF g, s
  <2>. QED
    BY <2>4, <2>6 DEF OrdersCovered
<1>13. ASSUME Start \/ Crash PROVE OrdersCovered'
  <2>1. \A q \in Rules : run'[q].pc \in {"rest", "off"}
    BY <1>13 DEF Start, Crash, At
  <2>2. UNCHANGED <<orders, alerts>>
    BY <1>13 DEF Start, Crash
  <2>. QED
    BY <2>1, <2>2 DEF OrdersCovered, Covered, Owes
<1>. QED
  BY <1>4, <1>5, <1>6, <1>7, <1>8, <1>9, <1>10, <1>11, <1>12, <1>13 DEF EngineNext, EngineStep

(* However often an alert, a driver or a state write fails and the process   *)
(* restarts, an entity has no more orders of a rule than the rule has alerts  *)
(* of an activation: for any rules, entities and cap.                         *)
THEOREM OrdersHaveAlerts == EngineSpec => []OrdersFollowAlerts
<1>1. EngineInit => OrdersCovered
  <2>. SUFFICES ASSUME EngineInit, NEW r \in Rules PROVE Covered(orders, alerts[r], run[r], r)
    BY DEF OrdersCovered
  <2>1. run[r].pc = "off" /\ orders = {} /\ alerts[r] = <<>>
    BY DEF EngineInit, At
  <2>2. \A e : Placed(orders, r, e) = {} /\ Actives(alerts[r]) = {}
    BY <2>1 DEF Placed, Actives
  <2>3. Cardinality({}) = 0
    BY FS_EmptySet
  <2>4. \A e \in Entities : ~ Owes(run[r], e)
    BY <2>1 DEF Owes
  <2>5. Cardinality(Actives(alerts[r])) = 0 /\ \A e : Cardinality(Placed(orders, r, e)) = 0
    BY <2>2, <2>3
  <2>. QED
    BY <2>1, <2>4, <2>5 DEF Covered
<1>2. OrdersCovered /\ UNCHANGED evars => OrdersCovered'
  BY DEF OrdersCovered, evars
<1>3. OrdersCovered => OrdersFollowAlerts
  BY DEF OrdersCovered, Covered, Placed, Actives, OrdersFollowAlerts, Written
<1>. QED
  BY EngineTypeCorrect, OrdersCoveredStep, <1>1, <1>2, <1>3, PTL DEF EngineSpec
=============================================================================
