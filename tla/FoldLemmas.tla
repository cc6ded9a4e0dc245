------------------------------- MODULE FoldLemmas -------------------------------
(***************************************************************************)
(* What folds of the community modules compute, as far as the proofs about *)
(* the stores and the frames need it: sums over finite sets                *)
(* (MapThenSumSet), folds over sequences (FoldLeft) and the sequence of a  *)
(* set.  They are defined by choosing a function that satisfies the        *)
(* recursion; the lemmas show that there is one, and argue about its       *)
(* values by a least counterexample.                                       *)
(***************************************************************************)
EXTENDS Integers, FiniteSets, Sequences, SequencesExt, FiniteSetsExt, FiniteSetTheorems,
        WellFoundedInduction, TLAPS

(* A set of numbers that is not empty has a least one.                       *)
LEMMA LeastNat ==
    ASSUME NEW T \in SUBSET Nat, T # {}
    PROVE  \E x \in T : \A y \in T : x <= y
<1> DEFINE R == OpToRel(<, Nat)
<1>1. IsWellFoundedOn(R, Nat) BY NatLessThanWellFounded
<1>2. \A x, y \in Nat : <<y, x>> \in R <=> y < x BY DEF OpToRel
<1> HIDE DEF R
<1>3. T \subseteq Nat OBVIOUS
<1>4. \E x \in T : \A y \in T : ~ (<<y, x>> \in R) BY <1>1, <1>3, WFMin
<1>5. PICK x \in T : \A y \in T : ~ (<<y, x>> \in R) BY <1>4
<1>6. ASSUME NEW y \in T PROVE x <= y
  <2>1. ~ (<<y, x>> \in R) /\ x \in Nat /\ y \in Nat BY <1>3, <1>5
  <2>2. ~ (y < x) BY <2>1, <1>2
  <2> QED BY <2>1, <2>2
<1> QED BY <1>6

(* A set of subsets that holds every subset whose smaller ones it holds.      *)
LEMMA SetInduction ==
    ASSUME NEW S, IsFiniteSet(S), NEW G,
           \A s \in SUBSET S : (\A x \in s : s \ {x} \in G) => s \in G
    PROVE  SUBSET S \subseteq G
<1> DEFINE T == {Cardinality(s) : s \in (SUBSET S) \ G}
<1> SUFFICES ASSUME (SUBSET S) \ G # {} PROVE FALSE OBVIOUS
<1>1. \A s \in SUBSET S : IsFiniteSet(s) /\ Cardinality(s) \in Nat
  BY FS_Subset, FS_CardinalityType
<1>2. T \in SUBSET Nat /\ T # {} BY <1>1
<1>3. PICK s \in (SUBSET S) \ G : \A t \in (SUBSET S) \ G : Cardinality(s) <= Cardinality(t)
  <2>1. PICK c \in T : \A d \in T : c <= d
    <3> HIDE DEF T
    <3> QED BY <1>2, LeastNat
  <2> QED BY <2>1
<1>4. ASSUME NEW x \in s PROVE s \ {x} \in G
  <2>1. s \ {x} \in SUBSET S OBVIOUS
  <2>2. Cardinality(s \ {x}) = Cardinality(s) - 1 BY <1>1, FS_RemoveElement
  <2> QED BY <2>1, <2>2, <1>1, <1>3
<1> QED BY <1>4

Pick(s) == CHOOSE x \in s : TRUE
Sums(g, w, S) == g = [s \in SUBSET S |-> IF s = {} THEN 0 ELSE w[Pick(s)] + g[s \ {Pick(s)}]]

LEMMA PickIn == \A s : s # {} => Pick(s) \in s
BY DEF Pick

LEMMA SumsExist ==
    ASSUME NEW S, IsFiniteSet(S), NEW w
    PROVE  \E g : Sums(g, w, S)
<1> DEFINE Part(n) == {s \in SUBSET S : Cardinality(s) <= n}
           Upto(g, n) ==
               g = [s \in Part(n) |-> IF s = {} THEN 0 ELSE w[Pick(s)] + g[s \ {Pick(s)}]]
           Bad == {n \in Nat : ~\E g : Upto(g, n)}
<1>1. \A s \in SUBSET S : IsFiniteSet(s) /\ Cardinality(s) \in Nat
  BY FS_Subset, FS_CardinalityType
<1>2. ASSUME NEW n \in Nat, NEW s \in Part(n), s # {}
      PROVE  n > 0 /\ s \ {Pick(s)} \in Part(n - 1)
  <2>1. Pick(s) \in s BY <1>2, PickIn
  <2>2. s \in SUBSET S /\ Cardinality(s) <= n OBVIOUS
  <2>3. Cardinality(s \ {Pick(s)}) = Cardinality(s) - 1
    BY <2>1, <2>2, <1>1, FS_RemoveElement
  <2>4. s \ {Pick(s)} \in SUBSET S BY <2>2
  <2> QED BY <2>2, <2>3, <2>4, <1>1
<1>3. \E g : Upto(g, 0)
  <2> DEFINE g == [s \in Part(0) |-> 0]
  <2>1. ASSUME NEW s \in Part(0), s # {} PROVE FALSE
    <3>1. 0 > 0 BY <2>1, <1>2
    <3> QED BY <3>1
  <2>2. Upto(g, 0) BY <2>1
  <2> QED BY <2>2
<1>4. ASSUME NEW n \in Nat, n # 0, NEW g, Upto(g, n - 1)
      PROVE  \E h : Upto(h, n)
  <2> DEFINE h == [s \in Part(n) |-> IF s = {} THEN 0 ELSE w[Pick(s)] + g[s \ {Pick(s)}]]
  <2>1. \A s \in Part(n) : s # {} => s \ {Pick(s)} \in Part(n - 1) BY <1>2
  <2>2. \A t \in Part(n - 1) : t \in Part(n)
    <3> TAKE t \in Part(n - 1)
    <3>1. t \in SUBSET S /\ Cardinality(t) <= n - 1 OBVIOUS
    <3> QED BY <3>1, <1>1
  <2>3. \A t \in Part(n - 1) :
            g[t] = IF t = {} THEN 0 ELSE w[Pick(t)] + g[t \ {Pick(t)}]
    <3> HIDE DEF Part
    <3> QED BY <1>4
  <2>4. \A t \in Part(n - 1) : h[t] = g[t]
    <3> HIDE DEF Part
    <3> QED BY <2>2, <2>3
  <2>5. Upto(h, n)
    <3> HIDE DEF Part
    <3> QED BY <2>1, <2>4
  <2> QED BY <2>5
<1>5. Bad = {}
  <2> SUFFICES ASSUME Bad # {} PROVE FALSE OBVIOUS
  <2>0. Bad \in SUBSET Nat OBVIOUS
  <2>1. PICK n \in Bad : \A m \in Bad : n <= m
    <3> HIDE DEF Bad
    <3> QED BY <2>0, LeastNat
  <2>2. n \in Nat /\ n # 0
    <3> HIDE DEF Upto
    <3> QED BY <1>3
  <2>3. n - 1 \in Nat /\ n - 1 \notin Bad
    <3> HIDE DEF Bad
    <3> QED BY <2>0, <2>1, <2>2
  <2>4. PICK g : Upto(g, n - 1)
    <3> HIDE DEF Upto
    <3> QED BY <2>3
  <2> HIDE DEF Upto
  <2> QED BY <2>2, <2>4, <1>4
<1>6. Cardinality(S) \in Nat BY FS_CardinalityType
<1>7. PICK g : Upto(g, Cardinality(S)) BY <1>5, <1>6
<1>8. Part(Cardinality(S)) = SUBSET S BY FS_Subset
<1> QED BY <1>7, <1>8 DEF Sums

LEMMA SumsStep ==
    ASSUME NEW S, NEW w, NEW g, Sums(g, w, S), NEW s \in SUBSET S
    PROVE  g[s] = IF s = {} THEN 0 ELSE w[Pick(s)] + g[s \ {Pick(s)}]
BY DEF Sums

LEMMA SumsNat ==
    ASSUME NEW S, IsFiniteSet(S), NEW w, NEW g, Sums(g, w, S), \A x \in S : w[x] \in Nat
    PROVE  \A s \in SUBSET S : g[s] \in Nat
<1>0. \A t \in SUBSET S : g[t] = IF t = {} THEN 0 ELSE w[Pick(t)] + g[t \ {Pick(t)}]
  BY SumsStep
<1> DEFINE G == {s \in SUBSET S : g[s] \in Nat}
<1>1. ASSUME NEW s \in SUBSET S, \A x \in s : s \ {x} \in G PROVE s \in G
  <2>1. CASE s = {} BY <2>1, <1>0
  <2>2. CASE s # {}
    <3>1. Pick(s) \in s BY <2>2, PickIn
    <3>2. w[Pick(s)] \in Nat /\ g[s \ {Pick(s)}] \in Nat BY <3>1, <1>1
    <3>3. g[s] = w[Pick(s)] + g[s \ {Pick(s)}] BY <2>2, <1>0
    <3> QED BY <3>2, <3>3
  <2> QED BY <2>1, <2>2
<1>2. SUBSET S \subseteq G
  <2> HIDE DEF G
  <2> QED BY <1>1, SetInduction
<1> QED BY <1>2

LEMMA SumsRemove ==
    ASSUME NEW S, IsFiniteSet(S), NEW w, NEW g, Sums(g, w, S), \A x \in S : w[x] \in Nat,
           NEW s \in SUBSET S, NEW x \in s
    PROVE  g[s] = w[x] + g[s \ {x}]
<1> DEFINE G == {t \in SUBSET S : \A y \in t : g[t] = w[y] + g[t \ {y}]}
<1>1. ASSUME NEW t \in SUBSET S, \A y \in t : t \ {y} \in G PROVE t \in G
  <2> SUFFICES ASSUME NEW y \in t PROVE g[t] = w[y] + g[t \ {y}] OBVIOUS
  <2> DEFINE p == Pick(t)
  <2>1. p \in t /\ t # {} BY PickIn
  <2>2. g[t] = w[p] + g[t \ {p}] BY <2>1, SumsStep
  <2>3. CASE p = y BY <2>2, <2>3
  <2>4. CASE p # y
    <3>1. y \in t \ {p} /\ p \in t \ {y} BY <2>1, <2>4
    <3>2. t \ {p} \in G /\ t \ {y} \in G BY <2>1, <1>1
    <3>3. g[t \ {p}] = w[y] + g[(t \ {p}) \ {y}] /\ g[t \ {y}] = w[p] + g[(t \ {y}) \ {p}]
      BY <3>1, <3>2
    <3>4. (t \ {p}) \ {y} = (t \ {y}) \ {p} OBVIOUS
    <3>5. w[p] \in Nat /\ w[y] \in Nat BY <2>1
    <3>6. g[(t \ {p}) \ {y}] \in Nat
      <4>1. (t \ {p}) \ {y} \in SUBSET S OBVIOUS
      <4> QED BY <4>1, SumsNat
    <3>7. g[t] = w[p] + (w[y] + g[(t \ {p}) \ {y}]) BY <2>2, <3>3
    <3>8. g[t \ {y}] = w[p] + g[(t \ {p}) \ {y}] BY <3>3, <3>4
    <3> HIDE DEF p
    <3>9. g[t] = w[y] + g[t \ {y}] BY ONLY <3>5, <3>6, <3>7, <3>8
    <3> QED BY <3>9
  <2> QED BY <2>3, <2>4
<1>2. SUBSET S \subseteq G
  <2> HIDE DEF G
  <2> QED BY <1>1, SetInduction
<1> QED BY <1>2

LEMMA SumsAgree ==
    ASSUME NEW S, IsFiniteSet(S), NEW w, NEW g, Sums(g, w, S), \A x \in S : w[x] \in Nat,
           NEW R, IsFiniteSet(R), NEW v, NEW h, Sums(h, v, R), \A x \in R : v[x] \in Nat,
           NEW s \in SUBSET S, s \in SUBSET R, \A x \in s : w[x] = v[x]
    PROVE  g[s] = h[s]
<1>a. \A t \in SUBSET S : g[t] = IF t = {} THEN 0 ELSE w[Pick(t)] + g[t \ {Pick(t)}]
  BY ONLY Sums(g, w, S), SumsStep
<1>b. \A t \in SUBSET R : h[t] = IF t = {} THEN 0 ELSE v[Pick(t)] + h[t \ {Pick(t)}]
  BY ONLY Sums(h, v, R), SumsStep
<1> DEFINE G == {t \in SUBSET s : g[t] = h[t]}
<1>1. ASSUME NEW t \in SUBSET s, \A y \in t : t \ {y} \in G PROVE t \in G
  <2>1. t \in SUBSET S /\ t \in SUBSET R OBVIOUS
  <2>2. g[t] = IF t = {} THEN 0 ELSE w[Pick(t)] + g[t \ {Pick(t)}] BY <2>1, <1>a
  <2>3. h[t] = IF t = {} THEN 0 ELSE v[Pick(t)] + h[t \ {Pick(t)}] BY <2>1, <1>b
  <2>4. t # {} => /\ Pick(t) \in t /\ w[Pick(t)] = v[Pick(t)]
                  /\ g[t \ {Pick(t)}] = h[t \ {Pick(t)}]
    BY <1>1, PickIn
  <2> QED BY <2>2, <2>3, <2>4
<1>2. IsFiniteSet(s) BY FS_Subset
<1>3. SUBSET s \subseteq G
  <2> HIDE DEF G
  <2> QED BY <1>1, <1>2, SetInduction
<1> QED BY <1>3

LEMMA SumsOnce ==
    ASSUME NEW S, IsFiniteSet(S), NEW w, \A x \in S : w[x] \in Nat,
           NEW g, Sums(g, w, S), NEW h, Sums(h, w, S)
    PROVE  g[S] = h[S]
<1>1. S \in SUBSET S /\ \A x \in S : w[x] = w[x] OBVIOUS
<1> QED BY <1>1, SumsAgree

LEMMA SumsMonotone ==
    ASSUME NEW S, IsFiniteSet(S), NEW w, NEW g, Sums(g, w, S), \A x \in S : w[x] \in Nat,
           NEW v, NEW h, Sums(h, v, S), \A x \in S : v[x] \in Nat /\ v[x] <= w[x],
           NEW s \in SUBSET S
    PROVE  h[s] <= g[s]
<1> DEFINE G == {t \in SUBSET S : h[t] <= g[t]}
<1>1. ASSUME NEW t \in SUBSET S, \A y \in t : t \ {y} \in G PROVE t \in G
  <2>1. CASE t = {}
    <3>1. g[t] = 0 /\ h[t] = 0 BY <2>1, SumsStep
    <3> QED BY <3>1
  <2>2. CASE t # {}
    <3>1. PICK y : y \in t BY <2>2
    <3>2. g[t] = w[y] + g[t \ {y}] BY <3>1, SumsRemove
    <3>3. h[t] = v[y] + h[t \ {y}] BY <3>1, SumsRemove
    <3>4. t \ {y} \in SUBSET S /\ h[t \ {y}] <= g[t \ {y}] BY <3>1, <1>1
    <3>5. g[t \ {y}] \in Nat /\ h[t \ {y}] \in Nat BY <3>4, SumsNat
    <3>6. y \in S BY <3>1
    <3>7. v[y] \in Nat /\ w[y] \in Nat /\ v[y] <= w[y] BY <3>6
    <3>8. h[t] <= g[t] BY ONLY <3>2, <3>3, <3>4, <3>5, <3>7
    <3> QED BY <3>8
  <2> QED BY <2>1, <2>2
<1>2. SUBSET S \subseteq G
  <2> HIDE DEF G
  <2> QED BY <1>1, SetInduction
<1> QED BY <1>2

(* The sum of a function over a set, as MapThenSumSet computes it.           *)
Sum(w, S) == MapThenSumSet(LAMBDA x : w[x], S)

LEMMA SumBy ==
    ASSUME NEW S, IsFiniteSet(S), NEW w
    PROVE  \E g : Sums(g, w, S) /\ Sum(w, S) = g[S]
<1>1. Sum(w, S) = (CHOOSE f : Sums(f, w, S))[S]
  BY DEF Sum, MapThenSumSet, MapThenFoldSet, Sums, Pick
<1>2. Sums(CHOOSE f : Sums(f, w, S), w, S) BY SumsExist
<1> QED BY <1>1, <1>2

LEMMA SumNat ==
    ASSUME NEW S, IsFiniteSet(S), NEW w, \A x \in S : w[x] \in Nat
    PROVE  Sum(w, S) \in Nat
<1>1. PICK g : Sums(g, w, S) /\ Sum(w, S) = g[S] BY SumBy
<1>2. \A s \in SUBSET S : g[s] \in Nat BY <1>1, SumsNat
<1> QED BY <1>1, <1>2

LEMMA SumNone == \A w : Sum(w, {}) = 0
<1> SUFFICES ASSUME NEW w PROVE Sum(w, {}) = 0 OBVIOUS
<1>1. PICK g : Sums(g, w, {}) /\ Sum(w, {}) = g[{}] BY SumBy, FS_EmptySet
<1> QED BY <1>1 DEF Sums

LEMMA SumRemove ==
    ASSUME NEW S, IsFiniteSet(S), NEW w, \A x \in S : w[x] \in Nat, NEW x \in S
    PROVE  Sum(w, S) = w[x] + Sum(w, S \ {x})
<1> DEFINE R == S \ {x}
<1>0. IsFiniteSet(R) /\ R \subseteq S /\ S \in SUBSET S /\ R \in SUBSET R BY FS_RemoveElement
<1>1. PICK g : Sums(g, w, S) /\ Sum(w, S) = g[S] BY SumBy
<1>2. PICK h : Sums(h, w, R) /\ Sum(w, R) = h[R] BY <1>0, SumBy
<1>3. g[S] = w[x] + g[R] BY <1>0, <1>1, SumsRemove
<1>4. \A y \in R : w[y] \in Nat BY <1>0
<1>5. R \in SUBSET S BY <1>0
<1> HIDE DEF R
<1>6. g[R] = h[R] BY <1>0, <1>1, <1>2, <1>4, <1>5, SumsAgree
<1> QED BY <1>1, <1>2, <1>3, <1>6 DEF R

LEMMA SumSame ==
    ASSUME NEW S, IsFiniteSet(S), NEW w, NEW v,
           \A x \in S : w[x] \in Nat /\ v[x] = w[x]
    PROVE  Sum(v, S) = Sum(w, S)
<1>1. PICK g : Sums(g, w, S) /\ Sum(w, S) = g[S] BY SumBy
<1>2. PICK h : Sums(h, v, S) /\ Sum(v, S) = h[S] BY SumBy
<1>3. g[S] = h[S]
  <2>1. S \in SUBSET S /\ (\A x \in S : v[x] \in Nat) OBVIOUS
  <2> QED BY <2>1, <1>1, <1>2, SumsAgree
<1> QED BY <1>1, <1>2, <1>3

LEMMA SumMonotone ==
    ASSUME NEW S, IsFiniteSet(S), NEW w, NEW v,
           \A x \in S : w[x] \in Nat /\ v[x] \in Nat /\ v[x] <= w[x]
    PROVE  Sum(v, S) <= Sum(w, S)
<1>1. PICK g : Sums(g, w, S) /\ Sum(w, S) = g[S] BY SumBy
<1>2. PICK h : Sums(h, v, S) /\ Sum(v, S) = h[S] BY SumBy
<1>3. h[S] <= g[S]
  <2>1. S \in SUBSET S OBVIOUS
  <2> QED BY <2>1, <1>1, <1>2, SumsMonotone
<1> QED BY <1>1, <1>2, <1>3

(* A function that differs from another at one element.                      *)
LEMMA SumChange ==
    ASSUME NEW S, IsFiniteSet(S), NEW w, NEW v, NEW x \in S,
           \A y \in S : w[y] \in Nat /\ v[y] \in Nat,
           \A y \in S \ {x} : v[y] = w[y]
    PROVE  /\ Sum(v, S) = Sum(w, S) - w[x] + v[x]
           /\ Sum(w, S) \in Nat /\ Sum(v, S) \in Nat
<1> DEFINE R == S \ {x}
<1>1. IsFiniteSet(R) BY FS_RemoveElement
<1>2. Sum(w, S) = w[x] + Sum(w, R) BY SumRemove
<1>3. Sum(v, S) = v[x] + Sum(v, R) BY SumRemove
<1>4. \A y \in R : w[y] \in Nat /\ v[y] = w[y] OBVIOUS
<1>5. w[x] \in Nat /\ v[x] \in Nat OBVIOUS
<1>6. Sum(w, S) \in Nat /\ Sum(v, S) \in Nat BY SumNat
<1> HIDE DEF R
<1>7. Sum(v, R) = Sum(w, R) BY <1>1, <1>4, SumSame
<1>8. Sum(w, R) \in Nat BY <1>1, <1>4, SumNat
<1> QED BY <1>2, <1>3, <1>5, <1>6, <1>7, <1>8

-----------------------------------------------------------------------------
(* Folds.                                                                    *)

(* Counting up to m.                                                         *)
LEMMA Upward ==
    ASSUME NEW m \in Nat, NEW G, 0 \in G, \A k \in 1..m : k - 1 \in G => k \in G
    PROVE  0..m \subseteq G
<1> DEFINE T == (0..m) \ G
<1> SUFFICES ASSUME T # {} PROVE FALSE OBVIOUS
<1>1. T \in SUBSET Nat OBVIOUS
<1>2. PICK k \in T : \A j \in T : k <= j
  <2> HIDE DEF T
  <2> QED BY <1>1, LeastNat
<1>3. k \in 1..m /\ k - 1 \in 0..m /\ k - 1 \in Nat OBVIOUS
<1>4. k - 1 \in G BY <1>2, <1>3
<1> QED BY <1>3, <1>4

(* What FoldLeft computes over 1..m, when its operation stays in a set.      *)
Folded(g, F, base, m) ==
    g = [s \in SUBSET (1..m) |-> IF s = {} THEN base ELSE F[<<g[s \ {Max(s)}], Max(s)>>]]

LEMMA MaxOf ==
    ASSUME NEW m \in Nat, NEW s \in SUBSET (1..m), s # {}
    PROVE  Max(s) \in s /\ \A x \in s : x <= Max(s)
<1> DEFINE T == {m - x : x \in s}
<1>0. \A x \in s : x \in 1..m /\ x \in Nat /\ m - x \in Nat OBVIOUS
<1>1. T \in SUBSET Nat /\ T # {} BY <1>0
<1>2. PICK d \in T : \A e \in T : d <= e
  <2> HIDE DEF T
  <2> QED BY <1>1, LeastNat
<1>3. PICK x \in s : d = m - x OBVIOUS
<1>4. \A y \in s : x >= y
  <2> TAKE y \in s
  <2>1. m - y \in T OBVIOUS
  <2>2. d <= m - y BY <1>2, <2>1
  <2>3. x \in Nat /\ y \in Nat BY <1>0
  <2> QED BY <1>3, <2>2, <2>3
<1> DEFINE P(z) == z \in s /\ \A y \in s : z >= y
<1>5. \E z : P(z) BY <1>4
<1>6. P(CHOOSE z : P(z)) BY <1>5
<1>7. Max(s) = CHOOSE z : P(z) BY DEF Max
<1>8. P(Max(s)) BY <1>6, <1>7
<1>9. Max(s) \in s /\ \A y \in s : Max(s) >= y BY <1>8
<1>10. \A y \in s : Max(s) \in Nat /\ y \in Nat BY <1>0, <1>9
<1> QED BY <1>9, <1>10

LEMMA MaxUpTo == ASSUME NEW k \in Nat \ {0} PROVE Max(1..k) = k /\ (1..k) \ {k} = 1..(k - 1)
<1>1. 1..k \in SUBSET (1..k) /\ k \in 1..k OBVIOUS
<1>2. Max(1..k) \in 1..k /\ \A x \in 1..k : x <= Max(1..k) BY <1>1, MaxOf
<1> QED BY <1>1, <1>2

LEMMA FoldExists ==
    ASSUME NEW m \in Nat, NEW W, NEW base \in W, NEW F \in [W \X (1..m) -> W]
    PROVE  \E g \in [SUBSET (1..m) -> W] : Folded(g, F, base, m)
<1> DEFINE S == 1..m
           Part(n) == {s \in SUBSET S : Cardinality(s) <= n}
           Next_(g, s) == IF s = {} THEN base ELSE F[<<g[s \ {Max(s)}], Max(s)>>]
           Upto(g, n) == g \in [Part(n) -> W] /\ \A s \in Part(n) : g[s] = Next_(g, s)
           Bad == {n \in Nat : ~\E g : Upto(g, n)}
<1>0. IsFiniteSet(S) BY FS_Interval
<1>1. \A s \in SUBSET S : IsFiniteSet(s) /\ Cardinality(s) \in Nat
  BY <1>0, FS_Subset, FS_CardinalityType
<1>2. ASSUME NEW n \in Nat, NEW s \in Part(n), s # {}
      PROVE  n > 0 /\ s \ {Max(s)} \in Part(n - 1) /\ Max(s) \in S
  <2>1. Max(s) \in s BY <1>2, MaxOf
  <2>2. s \in SUBSET S /\ Cardinality(s) <= n OBVIOUS
  <2>3. Cardinality(s \ {Max(s)}) = Cardinality(s) - 1
    BY <2>1, <2>2, <1>1, FS_RemoveElement
  <2>4. s \ {Max(s)} \in SUBSET S /\ Max(s) \in S BY <2>1, <2>2
  <2>5. Cardinality(s) \in Nat /\ Cardinality(s \ {Max(s)}) \in Nat BY <2>2, <2>4, <1>1
  <2>6. n > 0 /\ Cardinality(s \ {Max(s)}) <= n - 1
    <3> HIDE DEF S, Part
    <3> QED BY <2>2, <2>3, <2>5
  <2> QED BY <2>4, <2>6
<1>3. \E g : Upto(g, 0)
  <2> DEFINE g == [s \in Part(0) |-> base]
  <2>1. ASSUME NEW s \in Part(0), s # {} PROVE FALSE
    <3>1. 0 > 0 BY <2>1, <1>2
    <3> QED BY <3>1
  <2>2. Upto(g, 0) BY <2>1
  <2> QED BY <2>2
<1>4. ASSUME NEW n \in Nat, n # 0, NEW g, Upto(g, n - 1)
      PROVE  \E h : Upto(h, n)
  <2> DEFINE h == [s \in Part(n) |-> Next_(g, s)]
  <2>1. \A s \in Part(n) : s # {} => s \ {Max(s)} \in Part(n - 1) /\ Max(s) \in S BY <1>2
  <2>2. \A t \in Part(n - 1) : t \in Part(n)
    <3> TAKE t \in Part(n - 1)
    <3>1. t \in SUBSET S /\ Cardinality(t) <= n - 1 OBVIOUS
    <3> QED BY <3>1, <1>1
  <2>3. \A t \in Part(n - 1) : g[t] = Next_(g, t) /\ g[t] \in W
    <3> HIDE DEF Part, Next_
    <3> QED BY <1>4
  <2>4. \A s \in Part(n) : h[s] = Next_(g, s)
    <3> HIDE DEF Part, Next_
    <3> QED OBVIOUS
  <2>5. \A t \in Part(n - 1) : h[t] = g[t]
    <3> HIDE DEF Part, Next_, h
    <3> QED BY <2>2, <2>3, <2>4
  <2>6. \A s \in Part(n) : Next_(g, s) = Next_(h, s)
    <3> HIDE DEF Part, h
    <3> QED BY <2>1, <2>5
  <2>7. \A s \in Part(n) : Next_(g, s) \in W
    <3> TAKE s \in Part(n)
    <3>1. CASE s = {} BY <3>1
    <3>2. CASE s # {}
      <4>1. g[s \ {Max(s)}] \in W /\ Max(s) \in 1..m
        <5> HIDE DEF Part, Next_
        <5> QED BY <2>1, <2>3, <3>2
      <4>2. F[<<g[s \ {Max(s)}], Max(s)>>] \in W BY <4>1
      <4> QED BY <3>2, <4>2
    <3> QED BY <3>1, <3>2
  <2>8. h \in [Part(n) -> W]
    <3> HIDE DEF Part, Next_
    <3> QED BY <2>7
  <2>9. Upto(h, n)
    <3> HIDE DEF Part, Next_, h
    <3> QED BY <2>4, <2>6, <2>8
  <2> QED BY <2>9
<1>5. Bad = {}
  <2> SUFFICES ASSUME Bad # {} PROVE FALSE OBVIOUS
  <2>0. Bad \in SUBSET Nat OBVIOUS
  <2>1. PICK n \in Bad : \A k \in Bad : n <= k
    <3> HIDE DEF Bad
    <3> QED BY <2>0, LeastNat
  <2>2. n \in Nat /\ n # 0
    <3> HIDE DEF Upto
    <3> QED BY <1>3
  <2>3. n - 1 \in Nat /\ n - 1 \notin Bad
    <3> HIDE DEF Bad
    <3> QED BY <2>0, <2>1, <2>2
  <2>4. PICK g : Upto(g, n - 1)
    <3> HIDE DEF Upto
    <3> QED BY <2>3
  <2>5. \E h : Upto(h, n)
    <3> HIDE DEF Upto
    <3> QED BY <2>2, <2>4, <1>4
  <2> HIDE DEF Upto
  <2> QED BY <2>5
<1>6. Cardinality(S) \in Nat BY <1>1
<1>7. PICK g : Upto(g, Cardinality(S))
  <2> HIDE DEF Upto
  <2> QED BY <1>5, <1>6
<1>8. Part(Cardinality(S)) = SUBSET S BY <1>0, FS_Subset
<1>9. g \in [SUBSET S -> W] /\ \A s \in SUBSET S : g[s] = Next_(g, s) BY <1>7, <1>8
<1>10. g = [s \in SUBSET S |-> Next_(g, s)]
  <2> HIDE DEF Next_
  <2> QED BY <1>9
<1> QED BY <1>9, <1>10 DEF Folded

(* The stages of a fold over 1..m.                                           *)
Staged(g, W, F, base, m) ==
    /\ g[{}] = base
    /\ \A s \in SUBSET (1..m) :
           s # {} /\ g[s \ {Max(s)}] \in W => g[s] = F[<<g[s \ {Max(s)}], Max(s)>>]

StagesOf(C, g, W, F, base, m) ==
    /\ C \in [0..m -> W] /\ C[0] = base /\ C[m] = g[1..m]
    /\ \A k \in 1..m : C[k] = F[<<C[k - 1], k>>]

LEMMA FoldStages ==
    ASSUME NEW m \in Nat, NEW W, NEW base \in W, NEW F \in [W \X (1..m) -> W], NEW g,
           Staged(g, W, F, base, m)
    PROVE  \E C : StagesOf(C, g, W, F, base, m)
<1> DEFINE C == [k \in 0..m |-> g[1..k]]
           G == {k \in 0..m : C[k] \in W}
<1>1. 1..0 = {} /\ 0 \in 0..m /\ m \in 0..m OBVIOUS
<1>2. C[0] = base BY <1>1 DEF Staged
<1>3. ASSUME NEW k \in 1..m, C[k - 1] \in W
      PROVE  C[k] = F[<<C[k - 1], k>>] /\ C[k] \in W
  <2>1. k \in Nat \ {0} /\ k - 1 \in 0..m /\ k \in 0..m OBVIOUS
  <2>2. Max(1..k) = k /\ (1..k) \ {k} = 1..(k - 1) BY <2>1, MaxUpTo
  <2>3. C[k - 1] = g[1..(k - 1)] /\ C[k] = g[1..k] BY <2>1
  <2>4. 1..k \in SUBSET (1..m) /\ 1..k # {} BY <2>1
  <2>5. g[1..k] = F[<<g[1..(k - 1)], k>>]
    <3> HIDE DEF C
    <3> QED BY <1>3, <2>2, <2>3, <2>4 DEF Staged
  <2>6. <<C[k - 1], k>> \in W \X (1..m) BY <1>3
  <2> HIDE DEF C
  <2> QED BY <2>3, <2>5, <2>6
<1>4. 0..m \subseteq G
  <2>1. 0 \in G
    <3> HIDE DEF C
    <3> QED BY <1>1, <1>2
  <2>2. ASSUME NEW k \in 1..m, k - 1 \in G PROVE k \in G
    <3>1. k \in 0..m OBVIOUS
    <3> HIDE DEF C
    <3> QED BY <1>3, <2>2, <3>1
  <2> HIDE DEF G
  <2> QED BY <2>1, <2>2, Upward
<1>5. C \in [0..m -> W]
  <2>1. C = [k \in 0..m |-> C[k]] OBVIOUS
  <2> HIDE DEF C
  <2> QED BY <1>4, <2>1
<1>6. \A k \in 1..m : C[k] = F[<<C[k - 1], k>>]
  <2> TAKE k \in 1..m
  <2>1. k - 1 \in 0..m OBVIOUS
  <2>2. C[k - 1] \in W
    <3> HIDE DEF C
    <3> QED BY <1>4, <2>1
  <2> HIDE DEF C
  <2> QED BY <1>3, <2>2
<1>7. C[m] = g[1..m] BY <1>1
<1> HIDE DEF C
<1>8. StagesOf(C, g, W, F, base, m) BY <1>2, <1>5, <1>6, <1>7 DEF StagesOf
<1> QED BY <1>8

-----------------------------------------------------------------------------
(* A set as a sequence: each element once.                                   *)
LEMMA SeqOfSet ==
    ASSUME NEW S, IsFiniteSet(S)
    PROVE  /\ Cardinality(S) \in Nat /\ DOMAIN SetToSeq(S) = 1..Cardinality(S)
           /\ \A x : x \in S <=> \E k \in 1..Cardinality(S) : SetToSeq(S)[k] = x
           /\ SetToSeq(S) \in Seq(S)
           /\ \A j, k \in DOMAIN SetToSeq(S) : SetToSeq(S)[j] = SetToSeq(S)[k] => j = k
<1> DEFINE m == Cardinality(S)
           f == SetToSeq(S)
<1>1. m \in Nat /\ ExistsBijection(1..m, S) BY FS_CardinalityType
<1>2. \E g \in [1..m -> S] : IsInjective(g)
  <2>1. PICK g : g \in Bijection(1..m, S) BY <1>1 DEF ExistsBijection
  <2>2. g \in [1..m -> S] /\ IsInjective(g) BY <2>1 DEF Bijection, Injection
  <2> QED BY <2>2
<1>3. f \in [1..m -> S] /\ IsInjective(f) BY <1>2 DEF SetToSeq
<1> HIDE DEF f
<1>4. f \in Injection(1..m, S) BY <1>3 DEF Injection, IsInjective
<1>5. Cardinality(1..m) = m BY <1>1, FS_Interval
<1>6. f \in Surjection(1..m, S) BY <1>4, <1>5, FS_Injection
<1>7. \A x \in S : \E k \in 1..m : f[k] = x BY <1>6 DEF Surjection
<1>8. \A j, k \in DOMAIN f : f[j] = f[k] => j = k BY <1>3 DEF IsInjective
<1>9. f \in Seq(S)
  <2> HIDE DEF m
  <2> QED BY <1>1, <1>3
<1> QED BY <1>1, <1>3, <1>7, <1>8, <1>9 DEF f
==============================================================================
