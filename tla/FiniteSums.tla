----------------------------- MODULE FiniteSums -----------------------------
(***************************************************************************)
(* Sums over finite sets.  SumFunctionOnSet is a recursive function over   *)
(* the subsets of a set; what it computes is proved by looking at the      *)
(* least subset for which the claim would fail.                            *)
(***************************************************************************)
EXTENDS Integers, Functions, FiniteSetsExt, FiniteSetTheorems, WellFoundedInduction, TLAPS

\* A set of naturals that holds 0 and every successor holds them all.
LEMMA AllNaturals ==
  ASSUME NEW Good, 0 \in Good, \A n \in Nat : n \in Good => n + 1 \in Good
  PROVE  Nat \subseteq Good
<1> SUFFICES ASSUME Nat \ Good # {} PROVE FALSE
  OBVIOUS
<1> DEFINE R == OpToRel(<, Nat)
           T == Nat \ Good
<1>1. IsWellFoundedOn(R, Nat)
  BY NatLessThanWellFounded
<1>2. PICK m \in T : \A n \in T : ~(<<n, m>> \in R)
  <2> HIDE DEF R
  <2>1. T \subseteq Nat /\ T # {}
    OBVIOUS
  <2> HIDE DEF T
  <2> QED
    BY <1>1, <2>1, WFMin
<1>3. m \in Nat /\ m # 0 /\ m - 1 \in Nat /\ (m - 1) + 1 = m /\ m - 1 < m
  OBVIOUS
<1>4. m - 1 \in T
  BY <1>3
<1>5. <<m - 1, m>> \in R
  BY <1>3 DEF OpToRel
<1> QED
  BY <1>2, <1>4, <1>5

Chosen(s) == CHOOSE x \in s : TRUE

LEMMA ChosenIn == ASSUME NEW s, s # {} PROVE Chosen(s) \in s
BY DEF Chosen

\* A set of subsets that holds the empty one, and one with its chosen element if it
\* holds it without, holds them all.
LEMMA AllSubsets ==
  ASSUME NEW S, IsFiniteSet(S), NEW Good, {} \in Good,
         \A s \in SUBSET S : s # {} /\ s \ {Chosen(s)} \in Good => s \in Good
  PROVE  SUBSET S \subseteq Good
<1> DEFINE N == {n \in Nat : \A s \in SUBSET S : Cardinality(s) <= n => s \in Good}
<1>1. \A s \in SUBSET S : IsFiniteSet(s) /\ Cardinality(s) \in Nat
  BY FS_Subset, FS_CardinalityType
<1>2. 0 \in N
  <2>1. \A s \in SUBSET S : Cardinality(s) <= 0 => s = {}
    BY <1>1, FS_EmptySet
  <2> QED
    BY <2>1
<1>3. ASSUME NEW n \in Nat, n \in N PROVE n + 1 \in N
  <2>1. ASSUME NEW s \in SUBSET S, Cardinality(s) <= n + 1, s # {} PROVE s \in Good
    <3>1. Chosen(s) \in s /\ Cardinality(s) \in Nat
      BY <1>1, <2>1, ChosenIn
    <3>2. Cardinality(s \ {Chosen(s)}) = Cardinality(s) - 1
      BY <1>1, <3>1, FS_RemoveElement
    <3>3. s \ {Chosen(s)} \in SUBSET S /\ Cardinality(s \ {Chosen(s)}) <= n
      BY <2>1, <3>1, <3>2
    <3>4. s \ {Chosen(s)} \in Good
      BY <1>3, <3>3
    <3> QED
      BY <2>1, <3>4
  <2> QED
    BY <2>1
<1>4. Nat \subseteq N
  <2> HIDE DEF N
  <2> QED
    BY <1>2, <1>3, AllNaturals
<1>5. Cardinality(S) \in N
  BY <1>4, FS_CardinalityType
<1>6. \A s \in SUBSET S : Cardinality(s) <= Cardinality(S)
  BY FS_Subset
<1> QED
  BY <1>5, <1>6

\* h sums F over the subsets in D, element by element.
Sums(F, h, D) == \A s \in D : h[s] = IF s = {} THEN 0 ELSE F[Chosen(s)] + h[s \ {Chosen(s)}]

LEMMA SumsExist ==
  ASSUME NEW S, IsFiniteSet(S), NEW F \in [S -> Int]
  PROVE  \E h \in [SUBSET S -> Int] : Sums(F, h, SUBSET S)
<1> DEFINE Small(n) == {s \in SUBSET S : Cardinality(s) <= n}
           N == {n \in Nat : \E h \in [Small(n) -> Int] : Sums(F, h, Small(n))}
<1>1. \A s \in SUBSET S : IsFiniteSet(s) /\ Cardinality(s) \in Nat
  BY FS_Subset, FS_CardinalityType
<1>2. 0 \in N
  <2> DEFINE h == [s \in Small(0) |-> 0]
  <2>1. \A s \in Small(0) : s = {}
    BY <1>1, FS_EmptySet
  <2>2. Sums(F, h, Small(0))
    BY <2>1 DEF Sums
  <2>3. h \in [Small(0) -> Int]
    OBVIOUS
  <2> QED
    BY <2>2, <2>3
<1>3. ASSUME NEW n \in Nat, n \in N PROVE n + 1 \in N
  <2>1. PICK g \in [Small(n) -> Int] : Sums(F, g, Small(n))
    BY <1>3
  <2> DEFINE h == [s \in Small(n + 1) |-> IF s = {} THEN 0 ELSE F[Chosen(s)] + g[s \ {Chosen(s)}]]
  <2>2. \A s \in Small(n) : s \in Small(n + 1)
    BY <1>1
  <2>3. ASSUME NEW s \in Small(n + 1), s # {}
        PROVE  s \ {Chosen(s)} \in Small(n) /\ F[Chosen(s)] \in Int
    <3>1. Chosen(s) \in s /\ s \in SUBSET S /\ Cardinality(s) \in Nat
      BY <1>1, <2>3, ChosenIn
    <3>2. Cardinality(s \ {Chosen(s)}) = Cardinality(s) - 1
      BY <1>1, <3>1, FS_RemoveElement
    <3>3. Cardinality(s) <= n + 1
      OBVIOUS
    <3> QED
      BY <3>1, <3>2, <3>3
  <2> HIDE DEF Small
  <2>4. h \in [Small(n + 1) -> Int]
    <3>1. ASSUME NEW s \in Small(n + 1)
          PROVE  (IF s = {} THEN 0 ELSE F[Chosen(s)] + g[s \ {Chosen(s)}]) \in Int
      <4>1. CASE s = {}
        BY <4>1
      <4>2. CASE s # {}
        BY <2>3, <4>2
      <4> QED
        BY <4>1, <4>2
    <3> QED
      BY <3>1
  <2>5. \A s \in Small(n) : h[s] = g[s]
    BY <2>1, <2>2 DEF Sums
  <2>6. Sums(F, h, Small(n + 1))
    <3> SUFFICES ASSUME NEW s \in Small(n + 1)
                 PROVE  h[s] = IF s = {} THEN 0 ELSE F[Chosen(s)] + h[s \ {Chosen(s)}]
      BY DEF Sums
    <3>1. h[s] = IF s = {} THEN 0 ELSE F[Chosen(s)] + g[s \ {Chosen(s)}]
      OBVIOUS
    <3> HIDE DEF h
    <3>2. CASE s = {}
      BY <3>1, <3>2
    <3>3. CASE s # {}
      BY <2>3, <2>5, <3>1, <3>3
    <3> QED
      BY <3>2, <3>3
  <2> HIDE DEF h
  <2> QED
    BY <2>4, <2>6
<1>4. Nat \subseteq N
  <2> HIDE DEF N
  <2> QED
    BY <1>2, <1>3, AllNaturals
<1>5. Cardinality(S) \in N
  BY <1>4, FS_CardinalityType
<1>6. Small(Cardinality(S)) = SUBSET S
  BY FS_Subset
<1> QED
  BY <1>5, <1>6

LEMMA SumUnfolds ==
  ASSUME NEW F, NEW S
  PROVE  SumFunctionOnSet(F, S) = (CHOOSE h : h = [s \in SUBSET S |->
           IF s = {} THEN 0 ELSE F[CHOOSE x \in s : TRUE] + h[s \ {CHOOSE x \in s : TRUE}]])[S]
BY DEF SumFunctionOnSet, FoldFunctionOnSet, MapThenFoldSet

\* F has integers on S.
Ints(F, S) == \A x \in S : F[x] \in Int

LEMMA SumsOn ==
  ASSUME NEW S, IsFiniteSet(S), NEW F, Ints(F, S)
  PROVE  \E h \in [SUBSET S -> Int] : Sums(F, h, SUBSET S) /\ SumFunctionOnSet(F, S) = h[S]
<1> DEFINE Is(h) == h = [s \in SUBSET S |-> IF s = {} THEN 0 ELSE F[CHOOSE x \in s : TRUE] + h[s \ {CHOOSE x \in s : TRUE}]]
           k == CHOOSE h : Is(h)
           G == [x \in S |-> F[x]]
<1>1. SumFunctionOnSet(F, S) = k[S]
  BY SumUnfolds
<1>2. G \in [S -> Int]
  BY DEF Ints
<1>3. PICK g \in [SUBSET S -> Int] : Sums(G, g, SUBSET S)
  <2> HIDE DEF G
  <2> QED
    BY <1>2, SumsExist
<1>4. Sums(F, g, SUBSET S)
  <2>1. \A s \in SUBSET S : s # {} => G[Chosen(s)] = F[Chosen(s)]
    BY ChosenIn
  <2> HIDE DEF G
  <2> QED
    BY <1>3, <2>1 DEF Sums
<1>5. Is(g)
  BY <1>4 DEF Sums, Chosen
<1>6. Is(k)
  <2> HIDE DEF Is
  <2> QED
    BY <1>5
<1> HIDE DEF k
<1>7. Sums(F, k, SUBSET S) /\ k = [s \in SUBSET S |-> k[s]]
  BY <1>6 DEF Sums, Chosen
<1> HIDE DEF Is
<1> DEFINE Good == {s \in SUBSET S : k[s] = g[s]}
<1>8. {} \in Good
  <2>1. k[{}] = 0 /\ g[{}] = 0
    BY <1>4, <1>7 DEF Sums
  <2> QED
    BY <2>1
<1>9. ASSUME NEW s \in SUBSET S, s # {}, s \ {Chosen(s)} \in Good PROVE s \in Good
  BY <1>4, <1>7, <1>9 DEF Sums
<1>10. SUBSET S \subseteq Good
  <2> HIDE DEF Good
  <2> QED
    BY <1>8, <1>9, AllSubsets
<1>11. k = g
  BY <1>7, <1>10
<1> QED
  BY <1>1, <1>4, <1>11

LEMMA SumFunctionSums ==
  ASSUME NEW S, IsFiniteSet(S), NEW F \in [S -> Int]
  PROVE  \E h \in [SUBSET S -> Int] : Sums(F, h, SUBSET S) /\ SumFunction(F) = h[S]
<1>1. S = DOMAIN F /\ Ints(F, S)
  BY DEF Ints
<1> QED
  BY <1>1, SumsOn DEF SumFunction

\* From f to g, functions on S, the value at x moves by d.
Moved(S, f, g, x, d) == \A y \in S : g[y] = IF y = x THEN f[y] + d ELSE f[y]

\* A sum with one term changed changes by as much.
LEMMA SumMoves ==
  ASSUME NEW S, IsFiniteSet(S), NEW F \in [S -> Int], NEW G \in [S -> Int], NEW x \in S, NEW d \in Int,
         Moved(S, F, G, x, d)
  PROVE  /\ SumFunction(F) \in Int
         /\ SumFunction(G) = SumFunction(F) + d
<1>1. \A y \in S : G[y] = F[y] + (IF y = x THEN d ELSE 0)
  BY DEF Moved
<1>2. PICK h \in [SUBSET S -> Int] : Sums(F, h, SUBSET S) /\ SumFunction(F) = h[S]
  BY SumFunctionSums
<1>3. PICK g \in [SUBSET S -> Int] : Sums(G, g, SUBSET S) /\ SumFunction(G) = g[S]
  BY <1>1, SumFunctionSums
<1> DEFINE Good == {s \in SUBSET S : g[s] = h[s] + (IF x \in s THEN d ELSE 0)}
<1>4. {} \in Good
  <2>1. g[{}] = 0 /\ h[{}] = 0
    BY <1>2, <1>3 DEF Sums
  <2> QED
    BY <2>1
<1>5. ASSUME NEW s \in SUBSET S, s # {}, s \ {Chosen(s)} \in Good PROVE s \in Good
  <2>1. Chosen(s) \in s /\ Chosen(s) \in S
    BY <1>5, ChosenIn
  <2>2. /\ g[s] = G[Chosen(s)] + g[s \ {Chosen(s)}]
        /\ h[s] = F[Chosen(s)] + h[s \ {Chosen(s)}]
    BY <1>2, <1>3, <1>5 DEF Sums
  <2>3. h[s \ {Chosen(s)}] \in Int /\ F[Chosen(s)] \in Int
    BY <2>1
  <2>4. CASE x = Chosen(s)
    BY <1>1, <1>5, <2>1, <2>2, <2>3, <2>4
  <2>5. CASE x # Chosen(s)
    BY <1>1, <1>5, <2>1, <2>2, <2>3, <2>5
  <2> QED
    BY <2>4, <2>5
<1>6. SUBSET S \subseteq Good
  <2> HIDE DEF Good
  <2> QED
    BY <1>4, <1>5, AllSubsets
<1>7. S \in Good
  BY <1>6
<1> QED
  BY <1>2, <1>3, <1>7

LEMMA SumOfZeros ==
  ASSUME NEW S, IsFiniteSet(S), NEW F \in [S -> Int], \A x \in S : F[x] = 0
  PROVE  SumFunction(F) = 0
<1>1. PICK h \in [SUBSET S -> Int] : Sums(F, h, SUBSET S) /\ SumFunction(F) = h[S]
  BY SumFunctionSums
<1> DEFINE Good == {s \in SUBSET S : h[s] = 0}
<1>2. {} \in Good
  <2>1. h[{}] = 0
    BY <1>1 DEF Sums
  <2> QED
    BY <2>1
<1>3. ASSUME NEW s \in SUBSET S, s # {}, s \ {Chosen(s)} \in Good PROVE s \in Good
  <2>1. Chosen(s) \in S
    BY <1>3, ChosenIn
  <2>2. h[s] = F[Chosen(s)] + h[s \ {Chosen(s)}]
    BY <1>1, <1>3 DEF Sums
  <2> QED
    BY <1>3, <2>1, <2>2
<1>4. SUBSET S \subseteq Good
  <2> HIDE DEF Good
  <2> QED
    BY <1>2, <1>3, AllSubsets
<1> QED
  BY <1>1, <1>4

-----------------------------------------------------------------------------
(* What the order of the elements and the rest of the domain do not change. *)

Freely(S, F, h) == \A s \in SUBSET S : \A x \in s : h[s] = F[x] + h[s \ {x}]

\* Any element may be taken out of a sum, not only the one that was chosen.
LEMMA AnyElement ==
  ASSUME NEW S, IsFiniteSet(S), NEW F, Ints(F, S), NEW h \in [SUBSET S -> Int], Sums(F, h, SUBSET S)
  PROVE  Freely(S, F, h)
<1> DEFINE Free(s) == \A x \in s : h[s] = F[x] + h[s \ {x}]
           N == {n \in Nat : \A s \in SUBSET S : Cardinality(s) <= n => Free(s)}
<1>1. \A s \in SUBSET S : IsFiniteSet(s) /\ Cardinality(s) \in Nat
  BY FS_Subset, FS_CardinalityType
<1>2. 0 \in N
  <2>1. \A s \in SUBSET S : Cardinality(s) <= 0 => s = {}
    BY <1>1, FS_EmptySet
  <2> QED
    BY <2>1
<1>3. ASSUME NEW n \in Nat, n \in N PROVE n + 1 \in N
  <2>1. ASSUME NEW s \in SUBSET S, Cardinality(s) <= n + 1, NEW x \in s
        PROVE  h[s] = F[x] + h[s \ {x}]
    <3> DEFINE c == Chosen(s)
    <3>1. c \in s
      BY <2>1, ChosenIn
    <3>2. h[s] = F[c] + h[s \ {c}]
      BY <2>1 DEF Sums
    <3>3. CASE x = c
      BY <3>2, <3>3
    <3>4. CASE x # c
      <4> HIDE DEF c
      <4>1. /\ Cardinality(s \ {c}) = Cardinality(s) - 1
            /\ Cardinality(s \ {x}) = Cardinality(s) - 1
        BY <1>1, <2>1, <3>1, FS_RemoveElement
      <4>2. /\ s \ {c} \in SUBSET S /\ Cardinality(s \ {c}) <= n
            /\ s \ {x} \in SUBSET S /\ Cardinality(s \ {x}) <= n
        BY <1>1, <2>1, <4>1
      <4>3. Free(s \ {c}) /\ Free(s \ {x})
        BY <1>3, <4>2
      <4>4. h[s \ {c}] = F[x] + h[(s \ {c}) \ {x}]
        BY <2>1, <3>4, <4>3
      <4>5. h[s \ {x}] = F[c] + h[(s \ {x}) \ {c}]
        BY <3>1, <3>4, <4>3
      <4>6. (s \ {c}) \ {x} = (s \ {x}) \ {c} /\ (s \ {c}) \ {x} \in SUBSET S
        BY <2>1
      <4>7. h[(s \ {c}) \ {x}] \in Int /\ F[x] \in Int /\ F[c] \in Int
        BY <2>1, <3>1, <4>6 DEF Ints
      <4> DEFINE q == h[(s \ {c}) \ {x}]
      <4>8. h[s \ {c}] = F[x] + q /\ h[s \ {x}] = F[c] + q /\ q \in Int
        BY <4>4, <4>5, <4>6, <4>7
      <4> HIDE DEF q
      <4> QED
        BY <3>2, <4>7, <4>8
    <3> QED
      BY <3>3, <3>4
  <2> QED
    BY <2>1
<1>4. Nat \subseteq N
  <2> HIDE DEF N
  <2> QED
    BY <1>2, <1>3, AllNaturals
<1>5. Cardinality(S) \in N
  BY <1>4, FS_CardinalityType
<1>6. \A s \in SUBSET S : Cardinality(s) <= Cardinality(S)
  BY FS_Subset
<1> QED
  BY <1>5, <1>6 DEF Freely

\* One h has the sums over all subsets.
LEMMA SumsOfSubset ==
  ASSUME NEW S, IsFiniteSet(S), NEW F, Ints(F, S), NEW h \in [SUBSET S -> Int], Sums(F, h, SUBSET S),
         NEW A \in SUBSET S
  PROVE  SumFunctionOnSet(F, A) = h[A]
<1>1. IsFiniteSet(A) /\ Ints(F, A)
  BY FS_Subset DEF Ints
<1>2. PICK a \in [SUBSET A -> Int] : Sums(F, a, SUBSET A) /\ SumFunctionOnSet(F, A) = a[A]
  BY <1>1, SumsOn
<1> DEFINE Good == {s \in SUBSET A : a[s] = h[s]}
<1>3. {} \in Good
  <2>1. a[{}] = 0 /\ h[{}] = 0
    BY <1>2 DEF Sums
  <2> QED
    BY <2>1
<1>4. ASSUME NEW s \in SUBSET A, s # {}, s \ {Chosen(s)} \in Good PROVE s \in Good
  <2>1. s \in SUBSET S
    OBVIOUS
  <2> QED
    BY <1>2, <1>4, <2>1 DEF Sums
<1>5. SUBSET A \subseteq Good
  <2> HIDE DEF Good
  <2> QED
    BY <1>1, <1>3, <1>4, AllSubsets
<1> QED
  BY <1>2, <1>5

\* The sum over two sets with nothing in common is that over each of them.
LEMMA SumOfUnion ==
  ASSUME NEW A, IsFiniteSet(A), NEW B, IsFiniteSet(B), A \cap B = {}, NEW F, Ints(F, A), Ints(F, B)
  PROVE  /\ SumFunctionOnSet(F, A) \in Int /\ SumFunctionOnSet(F, B) \in Int
         /\ SumFunctionOnSet(F, A \cup B) = SumFunctionOnSet(F, A) + SumFunctionOnSet(F, B)
<1> DEFINE S == A \cup B
<1>1. IsFiniteSet(S) /\ Ints(F, S)
  BY FS_Union DEF Ints
<1>2. A \in SUBSET S /\ B \in SUBSET S /\ S \in SUBSET S
  OBVIOUS
<1> HIDE DEF S
<1>3. PICK h \in [SUBSET S -> Int] : Sums(F, h, SUBSET S) /\ SumFunctionOnSet(F, S) = h[S]
  BY <1>1, SumsOn
<1>4. SumFunctionOnSet(F, A) = h[A] /\ SumFunctionOnSet(F, B) = h[B]
  BY <1>1, <1>2, <1>3, SumsOfSubset
<1> DEFINE Good == {t \in SUBSET B : h[A \cup t] = h[A] + h[t]}
<1>5. {} \in Good
  <2>1. h[{}] = 0 /\ A \cup {} = A /\ h[A] \in Int
    BY <1>2, <1>3 DEF Sums
  <2> QED
    BY <2>1
<1>6. ASSUME NEW t \in SUBSET B, t # {}, t \ {Chosen(t)} \in Good PROVE t \in Good
  <2> DEFINE c == Chosen(t)
  <2>1. c \in t /\ c \notin A
    BY <1>6, ChosenIn
  <2> HIDE DEF c
  <2>2. (A \cup t) \ {c} = A \cup (t \ {c}) /\ A \cup t \in SUBSET S /\ t \in SUBSET S /\ t \ {c} \in SUBSET S
    BY <2>1 DEF S
  <2>3. h[A \cup t] = F[c] + h[A \cup (t \ {c})] /\ h[t] = F[c] + h[t \ {c}]
    <3>1. Freely(S, F, h)
      BY <1>1, <1>3, AnyElement
    <3>2. h[A \cup t] = F[c] + h[(A \cup t) \ {c}]
      BY <2>1, <2>2, <3>1 DEF Freely
    <3>3. h[t] = F[c] + h[t \ {c}]
      BY <2>1, <2>2, <3>1 DEF Freely
    <3>4. (A \cup t) \ {c} = A \cup (t \ {c})
      BY <2>2
    <3> QED
      BY <3>2, <3>3, <3>4, Zenon
  <2>4. h[A \cup (t \ {c})] = h[A] + h[t \ {c}]
    BY <1>6 DEF c
  <2>5. F[c] \in Int /\ h[A] \in Int /\ h[t \ {c}] \in Int
    BY <1>2, <2>1, <2>2 DEF Ints
  <2> QED
    BY <2>3, <2>4, <2>5
<1>7. SUBSET B \subseteq Good
  <2> HIDE DEF Good
  <2> QED
    BY <1>5, <1>6, AllSubsets
<1>8. h[S] = h[A] + h[B]
  BY <1>7 DEF S
<1> QED
  BY <1>2, <1>3, <1>4, <1>8 DEF S

LEMMA SumOfOne ==
  ASSUME NEW F, NEW x, F[x] \in Int
  PROVE  SumFunctionOnSet(F, {x}) = F[x]
<1>1. IsFiniteSet({x}) /\ Ints(F, {x})
  BY FS_Singleton DEF Ints
<1>2. PICK h \in [SUBSET {x} -> Int] : Sums(F, h, SUBSET {x}) /\ SumFunctionOnSet(F, {x}) = h[{x}]
  BY <1>1, SumsOn
<1>3. Chosen({x}) = x /\ {x} \ {x} = {}
  BY ChosenIn
<1>4. h[{x}] = F[x] + h[{}] /\ h[{}] = 0
  BY <1>2, <1>3 DEF Sums
<1> QED
  BY <1>2, <1>4

LEMMA SumOfNone ==
  ASSUME NEW F
  PROVE  SumFunctionOnSet(F, {}) = 0
<1>1. IsFiniteSet({}) /\ Ints(F, {})
  BY FS_EmptySet DEF Ints
<1>2. PICK h \in [SUBSET {} -> Int] : Sums(F, h, SUBSET {}) /\ SumFunctionOnSet(F, {}) = h[{}]
  BY <1>1, SumsOn
<1> QED
  BY <1>2 DEF Sums

\* A sum depends on nothing but the terms in it.
LEMMA SumAgrees ==
  ASSUME NEW S, IsFiniteSet(S), NEW F, Ints(F, S), NEW G, \A x \in S : F[x] = G[x]
  PROVE  SumFunctionOnSet(F, S) = SumFunctionOnSet(G, S)
<1>1. Ints(G, S)
  BY DEF Ints
<1>2. PICK h \in [SUBSET S -> Int] : Sums(F, h, SUBSET S) /\ SumFunctionOnSet(F, S) = h[S]
  BY SumsOn
<1>3. Sums(G, h, SUBSET S)
  <2>1. \A s \in SUBSET S : s # {} => F[Chosen(s)] = G[Chosen(s)]
    BY ChosenIn
  <2> QED
    BY <1>2, <2>1 DEF Sums
<1>4. SumFunctionOnSet(G, S) = h[S]
  BY <1>1, <1>3, SumsOfSubset
<1> QED
  BY <1>2, <1>4

Images(p, A) == {p[x] : x \in A}

\* p maps A to other elements, no two of them to the same one.
OneToOne(p, A) == \A x, y \in A : p[x] = p[y] => x = y

LEMMA ImagesFinite ==
  ASSUME NEW A, IsFiniteSet(A), NEW p
  PROVE  IsFiniteSet(Images(p, A)) /\ (OneToOne(p, A) => Cardinality(Images(p, A)) = Cardinality(A))
<1> DEFINE f == [x \in A |-> p[x]]
<1>1. f \in Surjection(A, Images(p, A))
  BY DEF Surjection, Images
<1>2. OneToOne(p, A) => f \in Injection(A, Images(p, A))
  BY <1>1 DEF Surjection, Injection, IsInjective, OneToOne
<1> HIDE DEF f
<1> QED
  BY <1>1, <1>2, FS_Surjection

\* A sum may be taken over the images of its elements.
LEMMA SumThrough ==
  ASSUME NEW A, IsFiniteSet(A), NEW F, Ints(F, A), NEW p, OneToOne(p, A), NEW G, \A x \in A : F[x] = G[p[x]]
  PROVE  SumFunctionOnSet(F, A) = SumFunctionOnSet(G, Images(p, A))
<1> DEFINE S == Images(p, A)
<1>1. IsFiniteSet(S)
  BY ImagesFinite
<1>2. Ints(G, S)
  BY DEF Ints, Images
<1>3. \A t \in SUBSET A : Images(p, t) \in SUBSET S
  BY DEF Images
<1> HIDE DEF S
<1>4. PICK h \in [SUBSET A -> Int] : Sums(F, h, SUBSET A) /\ SumFunctionOnSet(F, A) = h[A]
  BY SumsOn
<1>5. PICK g \in [SUBSET S -> Int] : Sums(G, g, SUBSET S) /\ SumFunctionOnSet(G, S) = g[S]
  BY <1>1, <1>2, SumsOn
<1>6. Freely(S, G, g)
  BY <1>1, <1>2, <1>5, AnyElement
<1> DEFINE Good == {t \in SUBSET A : h[t] = g[Images(p, t)]}
<1>7. {} \in Good
  <2>1. Images(p, {}) = {} /\ {} \in SUBSET S
    BY DEF Images
  <2>2. h[{}] = 0 /\ g[{}] = 0
    BY <1>4, <1>5, <2>1 DEF Sums
  <2> QED
    BY <2>1, <2>2
<1>8. ASSUME NEW t \in SUBSET A, t # {}, t \ {Chosen(t)} \in Good PROVE t \in Good
  <2> DEFINE c == Chosen(t)
  <2>1. c \in t /\ c \in A
    BY <1>8, ChosenIn
  <2>2. h[t] = F[c] + h[t \ {c}]
    BY <1>4, <1>8 DEF Sums
  <2>3. h[t \ {c}] = g[Images(p, t \ {c})]
    BY <1>8
  <2> HIDE DEF c
  <2>4. p[c] \in Images(p, t) /\ Images(p, t) \ {p[c]} = Images(p, t \ {c})
    BY <2>1 DEF Images, OneToOne
  <2>5. g[Images(p, t)] = G[p[c]] + g[Images(p, t \ {c})]
    <3>1. Images(p, t) \in SUBSET S
      BY <1>3
    <3>2. g[Images(p, t)] = G[p[c]] + g[Images(p, t) \ {p[c]}]
      BY <1>6, <2>4, <3>1 DEF Freely
    <3> QED
      BY <2>4, <3>2
  <2> QED
    BY <2>1, <2>2, <2>3, <2>5
<1>9. SUBSET A \subseteq Good
  <2> HIDE DEF Good
  <2> QED
    BY <1>7, <1>8, AllSubsets
<1>10. h[A] = g[Images(p, A)]
  BY <1>9
<1> QED
  BY <1>4, <1>5, <1>10 DEF S

\* The sum with an element is the one without it and its term.
LEMMA SumWith ==
  ASSUME NEW S, IsFiniteSet(S), NEW F, Ints(F, S), NEW s \in SUBSET S, NEW c \in s
  PROVE  /\ SumFunctionOnSet(F, s \ {c}) \in Int /\ F[c] \in Int
         /\ SumFunctionOnSet(F, s) = SumFunctionOnSet(F, s \ {c}) + F[c]
<1> DEFINE u == s \ {c}
<1>1. u \cap {c} = {} /\ u \cup {c} = s /\ F[c] \in Int /\ Ints(F, u) /\ Ints(F, {c})
  BY DEF Ints
<1>2. IsFiniteSet(u) /\ IsFiniteSet({c})
  BY FS_Subset, FS_Singleton
<1>3. SumFunctionOnSet(F, {c}) = F[c]
  BY <1>1, SumOfOne
<1> HIDE DEF u
<1>4. /\ SumFunctionOnSet(F, u) \in Int
      /\ SumFunctionOnSet(F, u \cup {c}) = SumFunctionOnSet(F, u) + SumFunctionOnSet(F, {c})
  BY <1>1, <1>2, SumOfUnion
<1> QED
  BY <1>1, <1>3, <1>4 DEF u

LEMMA SumTyped ==
  ASSUME NEW S, IsFiniteSet(S), NEW F, Ints(F, S)
  PROVE  SumFunctionOnSet(F, S) \in Int /\ (S = {} => SumFunctionOnSet(F, S) = 0)
<1>1. PICK h \in [SUBSET S -> Int] : Sums(F, h, SUBSET S) /\ SumFunctionOnSet(F, S) = h[S]
  BY SumsOn
<1> QED
  BY <1>1 DEF Sums

Combined(S, F, G, b, H) == \A x \in S : H[x] = F[x] - b * G[x]

\* A sum of differences is the difference of the sums.
LEMMA SumCombines ==
  ASSUME NEW S, IsFiniteSet(S), NEW F, Ints(F, S), NEW G, Ints(G, S), NEW b \in Int,
         NEW H, Combined(S, F, G, b, H)
  PROVE  /\ SumFunctionOnSet(F, S) \in Int /\ SumFunctionOnSet(G, S) \in Int
         /\ SumFunctionOnSet(H, S) = SumFunctionOnSet(F, S) - b * SumFunctionOnSet(G, S)
<1> DEFINE Is(s) == /\ SumFunctionOnSet(F, s) \in Int /\ SumFunctionOnSet(G, s) \in Int
                    /\ SumFunctionOnSet(H, s) = SumFunctionOnSet(F, s) - b * SumFunctionOnSet(G, s)
           Good == {s \in SUBSET S : Is(s)}
<1>1. {} \in Good
  <2>1. SumFunctionOnSet(F, {}) = 0 /\ SumFunctionOnSet(G, {}) = 0 /\ SumFunctionOnSet(H, {}) = 0
    BY SumOfNone
  <2> QED
    BY <2>1
<1>2. ASSUME NEW s \in SUBSET S, s # {}, s \ {Chosen(s)} \in Good PROVE s \in Good
  <2> DEFINE c == Chosen(s)
             u == s \ {c}
  <2>1. c \in s /\ c \in S /\ u \cap {c} = {} /\ s = u \cup {c} /\ u \in SUBSET S /\ Is(u)
    BY <1>2, ChosenIn
  <2>2. \A x \in S : b * G[x] \in Int /\ H[x] \in Int
    BY DEF Ints, Combined
  <2>3. F[c] \in Int /\ G[c] \in Int /\ H[c] = F[c] - b * G[c] /\ b * G[c] \in Int /\ Ints(H, S)
    BY <2>1, <2>2 DEF Ints, Combined
  <2>4. SumFunctionOnSet(F, s) = SumFunctionOnSet(F, u) + F[c]
    BY <2>1, SumWith
  <2>5. SumFunctionOnSet(G, s) = SumFunctionOnSet(G, u) + G[c]
    BY <2>1, SumWith
  <2>7. SumFunctionOnSet(H, s) = SumFunctionOnSet(H, u) + H[c]
    BY <2>1, <2>3, SumWith
  <2> HIDE DEF c, u, Is
  <2>6. Is(s)
    <3> DEFINE fu == SumFunctionOnSet(F, u)
               gu == SumFunctionOnSet(G, u)
               hu == SumFunctionOnSet(H, u)
    <3>1. fu \in Int /\ gu \in Int /\ hu = fu - b * gu
      BY <2>1 DEF Is
    <3> HIDE DEF fu, gu, hu
    <3>2. b * (gu + G[c]) = b * gu + b * G[c] /\ b * gu \in Int
      BY <2>3, <3>1
    <3>3. hu + H[c] = (fu + F[c]) - b * (gu + G[c])
      BY <2>3, <3>1, <3>2
    <3> QED
      BY <2>3, <2>4, <2>5, <2>7, <3>1, <3>3 DEF Is, fu, gu, hu
  <2> QED
    BY <2>6
<1>3. SUBSET S \subseteq Good
  <2> HIDE DEF Good
  <2> QED
    BY <1>1, <1>2, AllSubsets
<1> QED
  BY <1>3

\* The sum of a one for each element is how many there are.
LEMMA SumOfOnes ==
  ASSUME NEW S, IsFiniteSet(S), NEW F, \A x \in S : F[x] = 1
  PROVE  SumFunctionOnSet(F, S) = Cardinality(S)
<1> DEFINE Is(s) == SumFunctionOnSet(F, s) = Cardinality(s)
           Good == {s \in SUBSET S : Is(s)}
<1>1. {} \in Good
  BY SumOfNone, FS_EmptySet
<1>2. ASSUME NEW s \in SUBSET S, s # {}, s \ {Chosen(s)} \in Good PROVE s \in Good
  <2> DEFINE c == Chosen(s)
             u == s \ {c}
  <2>1. c \in s /\ c \in S /\ c \notin u /\ u \cap {c} = {} /\ s = u \cup {c} /\ u \in SUBSET S /\ Is(u)
    BY <1>2, ChosenIn
  <2>2. IsFiniteSet(u) /\ IsFiniteSet({c})
    BY <2>1, FS_Subset, FS_Singleton
  <2> HIDE DEF c, u
  <2>3. Cardinality(s) = Cardinality(u) + 1
    BY <2>1, <2>2, FS_AddElement
  <2>4. Ints(F, S)
    BY DEF Ints
  <2>6. SumFunctionOnSet(F, s) = SumFunctionOnSet(F, u) + 1
    BY <2>1, <2>4, SumWith DEF u
  <2> QED
    BY <2>1, <2>3, <2>6
<1>3. SUBSET S \subseteq Good
  <2> HIDE DEF Good
  <2> QED
    BY <1>1, <1>2, AllSubsets
<1> QED
  BY <1>3

\* A sum without negative terms is not negative, and zero only if all of them are.
LEMMA SumOfNaturals ==
  ASSUME NEW S, IsFiniteSet(S), NEW F, \A x \in S : F[x] \in Nat
  PROVE  /\ SumFunctionOnSet(F, S) \in Nat
         /\ \A x \in S : F[x] <= SumFunctionOnSet(F, S)
<1> DEFINE Is(s) == SumFunctionOnSet(F, s) \in Nat /\ \A x \in s : F[x] <= SumFunctionOnSet(F, s)
           Good == {s \in SUBSET S : Is(s)}
<1>1. {} \in Good
  BY SumOfNone
<1>2. ASSUME NEW s \in SUBSET S, s # {}, s \ {Chosen(s)} \in Good PROVE s \in Good
  <2> DEFINE c == Chosen(s)
             u == s \ {c}
  <2>1. c \in s /\ c \in S /\ u \cap {c} = {} /\ s = u \cup {c} /\ u \in SUBSET S /\ Is(u)
    BY <1>2, ChosenIn
  <2>2. Ints(F, S)
    BY DEF Ints
  <2>3. F[c] \in Nat /\ \A x \in u : F[x] \in Nat
    BY <2>1
  <2>6. SumFunctionOnSet(F, s) = SumFunctionOnSet(F, u) + F[c]
    BY <2>1, <2>2, SumWith
  <2> HIDE DEF c, u, Is
  <2>7. SumFunctionOnSet(F, u) \in Nat /\ \A x \in u : F[x] <= SumFunctionOnSet(F, u)
    BY <2>1 DEF Is
  <2>8. Is(s)
    <3>1. SumFunctionOnSet(F, s) \in Nat
      BY <2>3, <2>6, <2>7
    <3>2. ASSUME NEW x \in s PROVE F[x] <= SumFunctionOnSet(F, s)
      <4>1. x = c \/ x \in u
        BY <2>1
      <4> QED
        BY <2>3, <2>6, <2>7, <4>1
    <3> QED
      BY <3>1, <3>2 DEF Is
  <2> QED
    BY <2>8
<1>3. SUBSET S \subseteq Good
  <2> HIDE DEF Good
  <2> QED
    BY <1>1, <1>2, AllSubsets
<1> QED
  BY <1>3

LEMMA SumOfNothing ==
  ASSUME NEW S, IsFiniteSet(S), NEW F, \A x \in S : F[x] = 0
  PROVE  SumFunctionOnSet(F, S) = 0
<1> DEFINE zero == [x \in S |-> 0]
<1>1. SumFunction(zero) = 0
  <2>1. zero \in [S -> Int] /\ \A x \in S : zero[x] = 0
    OBVIOUS
  <2> HIDE DEF zero
  <2> QED
    BY <2>1, SumOfZeros
<1>2. SumFunctionOnSet(zero, S) = 0
  BY <1>1 DEF SumFunction
<1>3. Ints(F, S) /\ \A x \in S : F[x] = zero[x]
  BY DEF Ints
<1> HIDE DEF zero
<1> QED
  BY <1>2, <1>3, SumAgrees

\* A sum is the one over a part, if the other terms are zero.
LEMMA SumOfPart ==
  ASSUME NEW S, IsFiniteSet(S), NEW F, Ints(F, S), NEW V \in SUBSET S, NEW G,
         \A x \in V : G[x] = F[x], \A x \in S \ V : F[x] = 0
  PROVE  SumFunctionOnSet(G, V) = SumFunctionOnSet(F, S)
<1> DEFINE W == S \ V
<1>1. /\ V \cup W = S /\ V \cap W = {}
      /\ Ints(F, V) /\ Ints(F, W) /\ Ints(G, V)
      /\ \A x \in W : F[x] = 0
  BY DEF Ints
<1>2. IsFiniteSet(V) /\ IsFiniteSet(W)
  BY FS_Subset, FS_Difference
<1> HIDE DEF W
<1>3. /\ SumFunctionOnSet(F, V) \in Int
      /\ SumFunctionOnSet(F, V \cup W) = SumFunctionOnSet(F, V) + SumFunctionOnSet(F, W)
  BY <1>1, <1>2, SumOfUnion
<1>4. SumFunctionOnSet(F, W) = 0
  BY <1>1, <1>2, SumOfNothing
<1>5. SumFunctionOnSet(G, V) = SumFunctionOnSet(F, V)
  BY <1>1, <1>2, SumAgrees
<1> QED
  BY <1>1, <1>3, <1>4, <1>5

-----------------------------------------------------------------------------
(* Greatest and least elements. *)

LEMMA GreatestPosition ==
  ASSUME NEW n \in Nat, NEW P \in SUBSET (1..n), P # {}
  PROVE  Max(P) \in P /\ \A i \in P : i <= Max(P)
<1> DEFINE U == {m \in Nat : \A i \in P : i <= m}
<1>1. n \in U /\ U \subseteq Nat /\ \A i \in P : i \in Nat /\ i >= 1
  OBVIOUS
<1>2. \A m \in Nat : m \in U <=> \A i \in P : i <= m
  OBVIOUS
<1> HIDE DEF U
<1>3. PICK m \in U : \A k \in U : ~(<<k, m>> \in OpToRel(<, Nat))
  BY <1>1, NatLessThanWellFounded, WFMin
<1>4. m \in P
  <2> SUFFICES ASSUME m \notin P PROVE FALSE
    OBVIOUS
  <2>1. m \in Nat /\ \A i \in P : i \in Nat /\ i <= m /\ i # m /\ i >= 1
    BY <1>1, <1>2
  <2>2. m # 0 /\ m - 1 \in Nat /\ m - 1 < m
    <3>1. PICK i \in P : TRUE
      OBVIOUS
    <3> QED
      BY <2>1, <3>1
  <2>3. m - 1 \in U
    BY <1>2, <2>1, <2>2
  <2>4. <<m - 1, m>> \in OpToRel(<, Nat)
    BY <2>1, <2>2 DEF OpToRel
  <2> QED
    BY <1>3, <2>3, <2>4
<1>5. m \in P /\ \A i \in P : m >= i
  BY <1>1, <1>2, <1>4
<1>6. Max(P) \in P /\ \A i \in P : Max(P) >= i
  BY <1>5 DEF Max
<1> QED
  BY <1>6

LEMMA LeastPosition ==
  ASSUME NEW P \in SUBSET Nat, P # {}
  PROVE  Min(P) \in P /\ \A k \in P : Min(P) <= k
<1>1. PICK m \in P : \A k \in P : ~(<<k, m>> \in OpToRel(<, Nat))
  BY NatLessThanWellFounded, WFMin
<1>2. ASSUME NEW k \in P PROVE m <= k
  <2>1. k \in Nat /\ m \in Nat
    OBVIOUS
  <2>2. ASSUME k < m PROVE FALSE
    <3>1. <<k, m>> \in OpToRel(<, Nat)
      BY <2>1, <2>2 DEF OpToRel
    <3> QED
      BY <1>1, <3>1
  <2> QED
    BY <2>1, <2>2
<1> QED
  BY <1>2 DEF Min

LEMMA GreatestOf ==
  ASSUME NEW S, IsFiniteSet(S), S # {}, S \subseteq Nat
  PROVE  Max(S) \in S /\ \A x \in S : x <= Max(S)
<1> DEFINE F == [x \in S |-> x]
           n == SumFunctionOnSet(F, S)
           P == {x + 1 : x \in S}
<1>1. n \in Nat /\ \A x \in S : F[x] <= n
  <2>1. \A x \in S : F[x] \in Nat
    OBVIOUS
  <2> HIDE DEF F
  <2> QED
    BY <2>1, SumOfNaturals
<1>2. \A x \in S : x <= n
  BY <1>1
<1> HIDE DEF n
<1>3. P \in SUBSET (1..(n + 1)) /\ P # {} /\ n + 1 \in Nat
  <2>1. \A x \in S : x \in Nat /\ x + 1 \in 1..(n + 1)
    BY <1>1, <1>2
  <2>2. P # {}
    OBVIOUS
  <2> QED
    BY <1>1, <2>1, <2>2
<1>4. Max(P) \in P /\ \A i \in P : i <= Max(P)
  BY <1>3, GreatestPosition
<1>5. PICK m \in S : Max(P) = m + 1
  BY <1>4
<1>6. \A y \in S : m >= y
  <2>1. ASSUME NEW y \in S PROVE m >= y
    <3>1. y + 1 \in P
      OBVIOUS
    <3>2. y + 1 <= m + 1
      BY <1>4, <1>5, <3>1
    <3> QED
      BY <3>2
  <2> QED
    BY <2>1
<1>7. Max(S) \in S /\ \A y \in S : Max(S) >= y
  BY <1>6, Zenon DEF Max
<1> QED
  BY <1>7

LEMMA PairFinite == ASSUME NEW x, NEW y PROVE IsFiniteSet({x, y})
<1>1. IsFiniteSet({x} \cup {y})
  BY FS_Singleton, FS_AddElement
<1>2. {x} \cup {y} = {x, y}
  OBVIOUS
<1> QED
  BY <1>1, <1>2
=============================================================================
