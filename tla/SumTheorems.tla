---------------------------- MODULE SumTheorems ----------------------------
(***************************************************************************)
(* Facts about the sums of MapThenSumSet, which the community modules      *)
(* define as a recursive function on the subsets of the set: the sum of    *)
(* natural numbers over a finite set, what an element more adds to it and  *)
(* an element less takes from it, and the maximum of a finite set.         *)
(*                                                                         *)
(* A recursive function is the one CHOOSE finds, so that a function which  *)
(* satisfies the recursion has to be shown to exist.  Induction is by the  *)
(* least counterexample: strict inclusion is well founded on finite sets.  *)
(***************************************************************************)
EXTENDS FiniteSetsExt, FiniteSetTheorems, TLAPS

(* The sum of w[x] over the elements of S.                                  *)
SumOf(w, S) == MapThenSumSet(LAMBDA x : w[x], S)

(* The element a sum takes next.                                            *)
First(s) == CHOOSE x \in s : TRUE

(* g sums w over every subset of S, the way MapThenFoldSet does.            *)
Sums(w, S, g) ==
  g = [s \in SUBSET S |-> IF s = {} THEN 0 ELSE w[First(s)] + g[s \ {First(s)}]]

-----------------------------------------------------------------------------
(* A set of subsets of a finite set that is not empty has a least one.      *)
LEMMA LeastSubset ==
  ASSUME NEW S, IsFiniteSet(S), NEW C, C \subseteq SUBSET S, C # {}
  PROVE  \E s \in C : \A t \in C : ~ (t \subseteq s /\ t # s)
<1>1. IsWellFoundedOn(StrictSubsetOrdering(S), SUBSET S)
  BY FS_StrictSubsetOrderingWellFounded, FS_FiniteSubsetsOfFinite
<1>2. \E s \in C : \A t \in C : ~ (<<t, s>> \in StrictSubsetOrdering(S))
  BY <1>1, WFMin
<1>3. QED
  BY <1>2 DEF StrictSubsetOrdering

(* The first element of a set is one of its elements.                       *)
LEMMA FirstIn ==
  ASSUME NEW s, s # {}
  PROVE  First(s) \in s /\ s \ {First(s)} \subseteq s /\ s \ {First(s)} # s
<1>1. First(s) \in s
  BY DEF First
<1>2. QED
  BY <1>1

(* Sums over two sets agree on what is in both.                             *)
LEMMA SumsAgree ==
  ASSUME NEW w, NEW S, NEW T, NEW g, NEW h, IsFiniteSet(S),
         Sums(w, S, g), Sums(w, T, h)
  PROVE  \A s \in SUBSET S : s \subseteq T => g[s] = h[s]
<1> DEFINE C == {s \in SUBSET S : s \subseteq T /\ g[s] # h[s]}
<1> SUFFICES ASSUME C # {} PROVE FALSE
  OBVIOUS
<1>1. C \subseteq SUBSET S
  OBVIOUS
<1> HIDE DEF C
<1>2. PICK s \in C : \A t \in C : ~ (t \subseteq s /\ t # s)
  BY <1>1, LeastSubset
<1> USE DEF C
<1>3. s \in SUBSET S /\ s \in SUBSET T /\ g[s] # h[s]
  BY <1>2
<1>4. /\ g[s] = IF s = {} THEN 0 ELSE w[First(s)] + g[s \ {First(s)}]
      /\ h[s] = IF s = {} THEN 0 ELSE w[First(s)] + h[s \ {First(s)}]
  BY <1>3 DEF Sums
<1>5. s # {}
  BY <1>3, <1>4
<1>6. s \ {First(s)} \notin C
  BY <1>2, <1>5, FirstIn
<1>7. g[s \ {First(s)}] = h[s \ {First(s)}]
  BY <1>3, <1>6
<1>8. QED
  BY <1>3, <1>4, <1>7

(* There are sums over every finite set.                                    *)
LEMMA SumsExist ==
  ASSUME NEW w, NEW S, IsFiniteSet(S)
  PROVE  \E g : Sums(w, S, g)
<1> DEFINE C == {s \in SUBSET S : ~ \E g : Sums(w, s, g)}
<1> SUFFICES ASSUME C # {} PROVE FALSE
  OBVIOUS
<1>1. C \subseteq SUBSET S
  OBVIOUS
<1> HIDE DEF C
<1>2. PICK T \in C : \A t \in C : ~ (t \subseteq T /\ t # T)
  BY <1>1, LeastSubset
<1> USE DEF C
<1>3. T \subseteq S /\ ~ \E g : Sums(w, T, g)
  BY <1>2
<1> DEFINE Before(s) == CHOOSE g : Sums(w, s, g)
           Rest(s) == s \ {First(s)}
           h == [s \in SUBSET T |-> IF s = {} THEN 0 ELSE w[First(s)] + Before(Rest(s))[Rest(s)]]
<1>4. ASSUME NEW s, s \subseteq T, s # T
      PROVE  Sums(w, s, Before(s))
  <2>1. s \notin C
    BY <1>2, <1>4
  <2>2. s \in SUBSET S
    BY <1>3, <1>4
  <2>3. \E g : Sums(w, s, g)
    BY <2>1, <2>2
  <2>4. QED
    BY <2>3
<1>5. ASSUME NEW s, s \subseteq T, s # T
      PROVE  h[s] = Before(s)[s]
  <2>1. Sums(w, s, Before(s))
    BY <1>4, <1>5
  <2>2. Before(s)[s] = IF s = {} THEN 0 ELSE w[First(s)] + Before(s)[Rest(s)]
    BY <2>1 DEF Sums
  <2>3. h[s] = IF s = {} THEN 0 ELSE w[First(s)] + Before(Rest(s))[Rest(s)]
    BY <1>5
  <2>4. CASE s = {}
    BY <2>2, <2>3, <2>4
  <2>5. CASE s # {}
    <3>1. Rest(s) \subseteq s /\ Rest(s) # T
      BY <1>5, <2>5, FirstIn
    <3>2. Sums(w, Rest(s), Before(Rest(s)))
      BY <1>4, <1>5, <3>1
    <3>3. IsFiniteSet(s)
      BY <1>3, <1>5, FS_Subset
    <3>4. Before(s)[Rest(s)] = Before(Rest(s))[Rest(s)]
      <4> HIDE DEF Before, Rest
      <4>1. QED
        BY <2>1, <3>1, <3>2, <3>3, SumsAgree
    <3>5. QED
      BY <2>2, <2>3, <2>5, <3>4
  <2>6. QED
    BY <2>4, <2>5
<1>6. Sums(w, T, h)
  <2>1. ASSUME NEW s \in SUBSET T, s # {}
        PROVE  h[Rest(s)] = Before(Rest(s))[Rest(s)]
    <3>1. Rest(s) \subseteq T /\ Rest(s) # T
      BY <2>1, FirstIn
    <3> HIDE DEF Rest, h, Before
    <3>2. QED
      BY <3>1, <1>5
  <2>2. h = [s \in SUBSET T |-> IF s = {} THEN 0 ELSE w[First(s)] + h[Rest(s)]]
    <3> HIDE DEF Rest, Before
    <3>1. \A s \in SUBSET T : h[s] = IF s = {} THEN 0 ELSE w[First(s)] + h[Rest(s)]
      BY <2>1
    <3>2. h = [s \in SUBSET T |-> h[s]]
      OBVIOUS
    <3> HIDE DEF h
    <3>3. QED
      BY <3>1, <3>2
  <2>3. QED
    BY <2>2 DEF Sums
<1>7. QED
  BY <1>3, <1>6

(* The sum of the fold is the one of any function that sums.                *)
LEMMA SumOfIs ==
  ASSUME NEW w, NEW S, IsFiniteSet(S), NEW T, NEW g, S \subseteq T, Sums(w, T, g)
  PROVE  SumOf(w, S) = g[S]
<1> DEFINE h == CHOOSE f : Sums(w, S, f)
<1>1. SumOf(w, S) = h[S]
  BY DEF SumOf, MapThenSumSet, MapThenFoldSet, Sums, First
<1>2. Sums(w, S, h)
  BY SumsExist
<1> HIDE DEF h
<1>3. h[S] = g[S]
  BY <1>2, SumsAgree
<1>4. QED
  BY <1>1, <1>3

(* Sums of natural numbers are natural numbers.                             *)
LEMMA SumsNat ==
  ASSUME NEW w, NEW S, IsFiniteSet(S), \A x \in S : w[x] \in Nat, NEW g, Sums(w, S, g)
  PROVE  \A s \in SUBSET S : g[s] \in Nat
<1> DEFINE C == {s \in SUBSET S : g[s] \notin Nat}
<1> SUFFICES ASSUME C # {} PROVE FALSE
  OBVIOUS
<1>1. C \subseteq SUBSET S
  OBVIOUS
<1> HIDE DEF C
<1>2. PICK s \in C : \A t \in C : ~ (t \subseteq s /\ t # s)
  BY <1>1, LeastSubset
<1> USE DEF C
<1>3. s \subseteq S /\ g[s] \notin Nat
  BY <1>2
<1>4. g[s] = IF s = {} THEN 0 ELSE w[First(s)] + g[s \ {First(s)}]
  BY <1>3 DEF Sums
<1>5. s # {}
  BY <1>3, <1>4
<1>6. g[s \ {First(s)}] \in Nat
  BY <1>2, <1>3, <1>5, FirstIn
<1>7. w[First(s)] \in Nat
  BY <1>3, <1>5, FirstIn
<1>8. QED
  BY <1>3, <1>4, <1>5, <1>6, <1>7

(* Any element may be the next: sums do not depend on what First chooses.   *)
LEMMA SumsAnyElement ==
  ASSUME NEW w, NEW S, IsFiniteSet(S), \A x \in S : w[x] \in Nat, NEW g, Sums(w, S, g)
  PROVE  \A s \in SUBSET S : \A x \in s : g[s] = w[x] + g[s \ {x}]
<1> DEFINE C == {s \in SUBSET S : \E x \in s : g[s] # w[x] + g[s \ {x}]}
<1> SUFFICES ASSUME C # {} PROVE FALSE
  OBVIOUS
<1>1. C \subseteq SUBSET S
  OBVIOUS
<1> HIDE DEF C
<1>2. PICK s \in C : \A t \in C : ~ (t \subseteq s /\ t # s)
  BY <1>1, LeastSubset
<1>3. s \subseteq S
  BY <1>1
<1>4. PICK x \in s : g[s] # w[x] + g[s \ {x}]
  BY DEF C
<1> DEFINE y == First(s)
<1>5. y \in s
  BY <1>4, FirstIn
<1>6. g[s] = w[y] + g[s \ {y}]
  BY <1>3, <1>4 DEF Sums
<1> HIDE DEF y
<1>7. x # y
  BY <1>4, <1>6
<1>8. g[s \ {y}] = w[x] + g[(s \ {y}) \ {x}]
  <2>1. s \ {y} \in SUBSET S /\ s \ {y} \notin C /\ x \in s \ {y}
    BY <1>2, <1>3, <1>5, <1>7
  <2>2. QED
    BY <2>1 DEF C
<1>9. g[s \ {x}] = w[y] + g[(s \ {x}) \ {y}]
  <2>1. s \ {x} \in SUBSET S /\ s \ {x} \notin C /\ y \in s \ {x}
    BY <1>2, <1>3, <1>5, <1>7
  <2>2. QED
    BY <2>1 DEF C
<1>10. (s \ {x}) \ {y} = (s \ {y}) \ {x}
  OBVIOUS
<1>11. w[x] \in Nat /\ w[y] \in Nat /\ g[(s \ {x}) \ {y}] \in Nat
  <2>1. (s \ {x}) \ {y} \in SUBSET S
    BY <1>3
  <2>2. QED
    BY <2>1, <1>3, <1>5, SumsNat
<1>12. g[s] = w[y] + (w[x] + g[(s \ {x}) \ {y}])
  BY <1>6, <1>8, <1>10
<1>13. g[s] # w[x] + (w[y] + g[(s \ {x}) \ {y}])
  BY <1>4, <1>9
<1>14. QED
  BY <1>11, <1>12, <1>13

-----------------------------------------------------------------------------
(* What the other proofs use.                                               *)

(* The sum over no element is 0, and over finitely many a natural number.   *)
LEMMA SumOfNat ==
  ASSUME NEW w, NEW S, IsFiniteSet(S), \A x \in S : w[x] \in Nat
  PROVE  SumOf(w, S) \in Nat /\ SumOf(w, {}) = 0
<1>1. PICK g : Sums(w, S, g)
  BY SumsExist
<1>2. SumOf(w, S) = g[S] /\ SumOf(w, {}) = g[{}]
  BY <1>1, SumOfIs, FS_EmptySet
<1>3. g[S] \in Nat
  BY <1>1, SumsNat
<1>4. g[{}] = 0
  BY <1>1 DEF Sums
<1>5. QED
  BY <1>2, <1>3, <1>4

(* An element that joins the set adds its weight.                           *)
LEMMA SumOfAdd ==
  ASSUME NEW w, NEW S, IsFiniteSet(S), NEW x, x \notin S, \A y \in S \cup {x} : w[y] \in Nat
  PROVE  SumOf(w, S \cup {x}) = SumOf(w, S) + w[x]
<1> DEFINE T == S \cup {x}
<1>1. IsFiniteSet(T)
  BY FS_AddElement
<1>2. S \subseteq T /\ T \ {x} = S /\ x \in T
  OBVIOUS
<1>3. \A y \in T : w[y] \in Nat
  OBVIOUS
<1> HIDE DEF T
<1>4. PICK g : Sums(w, T, g)
  BY <1>1, SumsExist
<1>5. SumOf(w, T) = g[T] /\ SumOf(w, S) = g[S]
  BY <1>1, <1>2, <1>4, SumOfIs
<1>6. g[T] = w[x] + g[S]
  BY <1>1, <1>2, <1>3, <1>4, SumsAnyElement
<1>7. w[x] \in Nat /\ g[S] \in Nat
  BY <1>1, <1>2, <1>3, <1>4, SumsNat
<1>8. QED
  BY <1>5, <1>6, <1>7 DEF T

(* An element that leaves the set takes its weight along.                   *)
LEMMA SumOfRemove ==
  ASSUME NEW w, NEW S, IsFiniteSet(S), NEW x \in S, \A y \in S : w[y] \in Nat
  PROVE  SumOf(w, S \ {x}) = SumOf(w, S) - w[x]
<1> DEFINE T == S \ {x}
<1>1. IsFiniteSet(T) /\ x \notin T /\ \A y \in T \cup {x} : w[y] \in Nat /\ T \cup {x} = S
  BY FS_RemoveElement
<1>2. SumOf(w, T) \in Nat /\ w[x] \in Nat
  BY <1>1, SumOfNat
<1> HIDE DEF T
<1>3. SumOf(w, S) = SumOf(w, T) + w[x]
  BY <1>1, SumOfAdd
<1>4. QED
  BY <1>2, <1>3 DEF T

(* Weights that agree on the elements have the same sum.                    *)
LEMMA SumOfAgree ==
  ASSUME NEW S, IsFiniteSet(S), NEW v, NEW w, \A y \in S : v[y] = w[y]
  PROVE  SumOf(v, S) = SumOf(w, S)
<1>1. PICK g : Sums(w, S, g)
  BY SumsExist
<1>2. \A s \in SUBSET S : s # {} => v[First(s)] = w[First(s)]
  BY FirstIn
<1>3. Sums(v, S, g)
  BY <1>1, <1>2 DEF Sums
<1>4. SumOf(w, S) = g[S] /\ SumOf(v, S) = g[S]
  BY <1>1, <1>3, SumOfIs
<1>5. QED
  BY <1>4

(* A weight that changes changes the sum by as much.                        *)
LEMMA SumOfChange ==
  ASSUME NEW S, IsFiniteSet(S), NEW x \in S, NEW v, NEW w,
         \A y \in S : v[y] \in Nat /\ w[y] \in Nat,
         \A y \in S \ {x} : v[y] = w[y]
  PROVE  SumOf(v, S) = SumOf(w, S) - w[x] + v[x]
<1> DEFINE T == S \ {x}
<1>1. IsFiniteSet(T) /\ \A y \in T : v[y] = w[y] /\ v[y] \in Nat /\ w[y] \in Nat
  BY FS_RemoveElement
<1>2. SumOf(v, T) = SumOf(v, S) - v[x] /\ SumOf(w, T) = SumOf(w, S) - w[x]
  BY SumOfRemove
<1>3. /\ SumOf(v, S) \in Nat /\ v[x] \in Nat
      /\ SumOf(w, S) \in Nat /\ w[x] \in Nat
  BY SumOfNat
<1> HIDE DEF T
<1>4. SumOf(v, T) = SumOf(w, T)
  BY <1>1, SumOfAgree
<1>5. QED
  BY <1>2, <1>3, <1>4

(* A sum is bounded by the number of its elements times the greatest one.   *)
LEMMA SumOfAtMost ==
  ASSUME NEW S, IsFiniteSet(S), NEW m \in Nat, NEW w,
         \A y \in S : w[y] \in Nat /\ w[y] <= m
  PROVE  SumOf(w, S) <= Cardinality(S) * m
<1> DEFINE C == {s \in SUBSET S : ~ (SumOf(w, s) <= Cardinality(s) * m)}
<1> SUFFICES ASSUME C # {} PROVE FALSE
  OBVIOUS
<1>1. C \subseteq SUBSET S
  OBVIOUS
<1> HIDE DEF C
<1>2. PICK s \in C : \A t \in C : ~ (t \subseteq s /\ t # s)
  BY ONLY <1>1, IsFiniteSet(S), C # {}, LeastSubset
<1> USE DEF C
<1>3. s \subseteq S /\ ~ (SumOf(w, s) <= Cardinality(s) * m)
  BY <1>2
<1>4. IsFiniteSet(s) /\ \A y \in s : w[y] \in Nat
  BY <1>3, FS_Subset
<1>5. CASE s = {}
  <2>1. SumOf(w, s) = 0 /\ Cardinality(s) = 0
    BY <1>4, <1>5, SumOfNat, FS_EmptySet
  <2>2. QED
    BY <1>3, <2>1
<1>6. CASE s # {}
  <2>1. PICK x : x \in s
    BY <1>6
  <2> DEFINE t == s \ {x}
  <2>2. t \in SUBSET S /\ t \notin C
    BY <1>2, <1>3, <2>1
  <2>3. SumOf(w, t) <= Cardinality(t) * m
    BY <2>2
  <2>4. SumOf(w, t) = SumOf(w, s) - w[x]
    BY <1>4, <2>1, SumOfRemove
  <2>5. /\ Cardinality(t) = Cardinality(s) - 1
        /\ Cardinality(s) \in Nat
    BY <1>4, <2>1, FS_RemoveElement, FS_CardinalityType
  <2>6. SumOf(w, s) \in Nat /\ w[x] \in Nat /\ w[x] <= m
    BY <1>3, <1>4, <2>1, SumOfNat
  <2> HIDE DEF t
  <2>7. (Cardinality(s) - 1) * m + m = Cardinality(s) * m
    BY <2>5
  <2>8. (Cardinality(s) - 1) * m \in Int
    BY <2>5
  <2>9. QED
    BY <1>3, <2>3, <2>4, <2>5, <2>6, <2>7, <2>8
<1>7. QED
  BY <1>5, <1>6

(* A finite set of natural numbers that is not empty has a greatest one.    *)
LEMMA MaxIs ==
  ASSUME NEW S, S \subseteq Nat, IsFiniteSet(S), S # {}
  PROVE  Max(S) \in S /\ \A y \in S : Max(S) >= y
<1> DEFINE C == {s \in SUBSET S : s # {} /\ ~ \E m \in s : \A y \in s : m >= y}
<1> SUFFICES ASSUME C # {} PROVE FALSE
  <2>1. CASE C = {}
    <3>1. \E m \in S : \A y \in S : m >= y
      BY <2>1
    <3>2. QED
      BY <3>1 DEF Max
  <2>2. QED
    BY <2>1
<1>2. C \subseteq SUBSET S
  OBVIOUS
<1> HIDE DEF C
<1>3. PICK s \in C : \A t \in C : ~ (t \subseteq s /\ t # s)
  BY ONLY <1>2, IsFiniteSet(S), C # {}, LeastSubset
<1> USE DEF C
<1>4. s \subseteq S /\ s # {} /\ ~ \E m \in s : \A y \in s : m >= y
  BY <1>3
<1>5. PICK x : x \in s
  BY <1>4
<1>6. CASE s \ {x} = {}
  <2>1. s = {x} /\ x \in Nat
    BY <1>4, <1>5, <1>6
  <2>2. QED
    BY <1>4, <2>1
<1>7. CASE s \ {x} # {}
  <2>1. s \ {x} \notin C
    BY <1>3, <1>5
  <2>2. PICK m \in s \ {x} : \A y \in s \ {x} : m >= y
    BY <2>1, <1>4, <1>7
  <2>3. x \in Nat /\ m \in Nat /\ s \subseteq Nat
    BY <1>4, <1>5, <2>2
  <2>4. CASE m >= x
    BY <1>4, <2>2, <2>4
  <2>5. CASE x >= m
    <3>1. \A y \in s : x >= y
      BY <2>2, <2>3, <2>5
    <3>2. QED
      BY <1>4, <1>5, <3>1
  <2>6. QED
    BY <2>3, <2>4, <2>5
<1>8. QED
  BY <1>6, <1>7
=============================================================================
