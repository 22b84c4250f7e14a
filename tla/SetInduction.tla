---------------------------- MODULE SetInduction ----------------------------
(***************************************************************************)
(* Induction over the natural numbers for sets instead of predicates: a    *)
(* statement about n is proved by showing that the set of the n it holds   *)
(* for is Nat.  With it: lists of steps that are followed one by one, and  *)
(* the sums over finite sets that SumFunction computes.                    *)
(***************************************************************************)
EXTENDS Integers, FiniteSets, Functions, FiniteSetTheorems, WellFoundedInduction, TLAPS

(* A set of natural numbers that is not empty has a least member.          *)
LEMMA LeastNat ==
  ASSUME NEW S \in SUBSET Nat, S # {}
  PROVE  \E x \in S : \A y \in S : x <= y
<1> DEFINE R == {pair \in Nat \X Nat : pair[1] < pair[2]}
<1>1. IsWellFoundedOn(R, Nat)
  BY NatLessThanWellFounded DEF OpToRel
<1> HIDE DEF R
<1>2. PICK x \in S : \A y \in S : <<y, x>> \notin R
  BY <1>1, WFMin
<1>3. \A y \in S : ~(y < x)
  BY <1>2 DEF R
<1> QED
  BY <1>3

(* The principle of induction.                                             *)
LEMMA InductiveIsNat ==
  ASSUME NEW S \in SUBSET Nat, 0 \in S, \A n \in S : n + 1 \in S
  PROVE  S = Nat
<1> SUFFICES ASSUME Nat \ S # {} PROVE FALSE
  OBVIOUS
<1>1. PICK x \in Nat \ S : \A y \in Nat \ S : x <= y
  BY LeastNat
<1>2. x - 1 \in Nat /\ x - 1 \in S
  BY <1>1
<1> QED
  BY <1>2

\* f follows the steps, one after the other, from a first value.
Follows(f, N, X, first, step) ==
  f \in [0..N -> X] /\ f[0] = first /\ \A n \in 1..N : f[n] = step[n][f[n - 1]]

(* The steps of a finite list can be followed.                             *)
LEMMA Iterates ==
  ASSUME NEW N \in Nat, NEW X, NEW first \in X, NEW step, step \in [1..N -> [X -> X]]
  PROVE  \E f : Follows(f, N, X, first, step)
<1> DEFINE Reaches(n) ==
      \E f \in [0..n -> X] : f[0] = first /\ \A m \in 1..n : f[m] = step[m][f[m - 1]]
<1> DEFINE Good == {n \in Nat : n <= N => Reaches(n)}
<1>1. 0 \in Good
  <2> DEFINE f == [n \in 0..0 |-> first]
  <2>1. f \in [0..0 -> X] /\ f[0] = first
    OBVIOUS
  <2>2. \A m \in 1..0 : FALSE
    OBVIOUS
  <2> HIDE DEF f
  <2>3. Reaches(0)
    BY <2>1, <2>2
  <2> QED
    BY <2>3
<1>2. ASSUME NEW n \in Good PROVE n + 1 \in Good
  <2>1. n \in Nat /\ (n <= N => Reaches(n))
    OBVIOUS
  <2> HIDE DEF Good
  <2> SUFFICES ASSUME n + 1 <= N PROVE Reaches(n + 1)
    BY <2>1 DEF Good
  <2>2. PICK f \in [0..n -> X] : f[0] = first /\ \A m \in 1..n : f[m] = step[m][f[m - 1]]
    BY <2>1
  <2> DEFINE g == [m \in 0..(n + 1) |-> IF m <= n THEN f[m] ELSE step[n + 1][f[n]]]
  <2>3. f[n] \in X /\ step[n + 1] \in [X -> X]
    BY <2>1, <2>2
  <2>4. g \in [0..(n + 1) -> X]
    BY <2>1, <2>2, <2>3
  <2>5. g[0] = first
    BY <2>1, <2>2
  <2>6. ASSUME NEW m \in 1..(n + 1) PROVE g[m] = step[m][g[m - 1]]
    <3>1. CASE m \in 1..n
      <4>1. g[m] = f[m] /\ g[m - 1] = f[m - 1]
        BY <2>1, <3>1
      <4> QED
        BY <2>2, <3>1, <4>1
    <3>2. CASE m = n + 1
      <4>1. g[m] = step[n + 1][f[n]] /\ g[m - 1] = f[n]
        BY <2>1, <3>2
      <4> QED
        BY <3>2, <4>1
    <3> QED
      BY <2>1, <3>1, <3>2
  <2> HIDE DEF g
  <2> QED
    BY <2>4, <2>5, <2>6
<1> HIDE DEF Reaches
<1>3. Good = Nat
  BY <1>1, <1>2, InductiveIsNat DEF Good
<1>4. Reaches(N)
  BY <1>3 DEF Good
<1> QED
  BY <1>4 DEF Reaches, Follows

-----------------------------------------------------------------------------
(* Sums over a finite set.                                                 *)

Some(s) == CHOOSE x \in s : TRUE

\* iter is the recursion by which SumFunction adds up f over the subsets of S.
Sums(iter, f, S) ==
  /\ iter \in [SUBSET S -> Int] /\ iter[{}] = 0
  /\ \A s \in SUBSET S : s # {} => iter[s] = f[Some(s)] + iter[s \ {Some(s)}]

(* The recursion has a solution.                                           *)
LEMMA SumsExist ==
  ASSUME NEW S, IsFiniteSet(S), NEW f, \A x \in S : f[x] \in Int
  PROVE  \E iter : Sums(iter, f, S)
<1> DEFINE Upto(g, n) ==
             /\ g \in [SUBSET S -> Int] /\ g[{}] = 0
             /\ \A s \in SUBSET S : s # {} /\ Cardinality(s) <= n =>
                  g[s] = f[Some(s)] + g[s \ {Some(s)}]
           Good == {n \in Nat : \E g : Upto(g, n)}
<1>1. ASSUME NEW s \in SUBSET S
      PROVE  /\ IsFiniteSet(s) /\ Cardinality(s) \in Nat
             /\ Cardinality(s) = 0 <=> s = {}
             /\ s # {} => /\ Some(s) \in s /\ s \ {Some(s)} \in SUBSET S
                          /\ Cardinality(s \ {Some(s)}) = Cardinality(s) - 1
  <2>1. IsFiniteSet(s) /\ Cardinality(s) \in Nat /\ (Cardinality(s) = 0 <=> s = {})
    BY FS_Subset, FS_CardinalityType, FS_EmptySet
  <2>2. ASSUME s # {}
        PROVE  /\ Some(s) \in s /\ s \ {Some(s)} \in SUBSET S
               /\ Cardinality(s \ {Some(s)}) = Cardinality(s) - 1
    <3>1. Some(s) \in s
      BY <2>2 DEF Some
    <3> QED
      BY <2>1, <3>1, FS_RemoveElement
  <2> QED
    BY <2>1, <2>2
<1>0. \A s \in SUBSET S : Cardinality(s) \in Nat /\ (s # {} => Cardinality(s) # 0)
  BY <1>1
<1>2. 0 \in Good
  <2> DEFINE g == [s \in SUBSET S |-> 0]
  <2>1. \A s \in SUBSET S : s # {} => ~(Cardinality(s) <= 0)
    BY <1>0
  <2>2. Upto(g, 0)
    BY <2>1
  <2> QED
    BY <2>2
<1>3. ASSUME NEW n \in Good PROVE n + 1 \in Good
  <2>1. PICK g : Upto(g, n)
    OBVIOUS
  <2> DEFINE h == [s \in SUBSET S |->
        IF Cardinality(s) = n + 1 THEN f[Some(s)] + g[s \ {Some(s)}] ELSE g[s]]
  <2>2. n \in Nat
    OBVIOUS
  <2>3. ASSUME NEW s \in SUBSET S
        PROVE  /\ h[s] \in Int
               /\ s # {} /\ Cardinality(s) <= n + 1 => h[s] = f[Some(s)] + h[s \ {Some(s)}]
    <3>1. CASE Cardinality(s) = n + 1
      <4>1. s # {} /\ Cardinality(s \ {Some(s)}) = n /\ s \ {Some(s)} \in SUBSET S /\ f[Some(s)] \in Int
        BY <1>1, <2>2, <3>1
      <4>2. h[s \ {Some(s)}] = g[s \ {Some(s)}] /\ g[s \ {Some(s)}] \in Int
        BY <2>1, <2>2, <4>1
      <4>3. h[s] = f[Some(s)] + g[s \ {Some(s)}]
        BY <3>1
      <4> QED
        BY <4>1, <4>2, <4>3
    <3>2. CASE Cardinality(s) # n + 1
      <4>1. h[s] = g[s] /\ g[s] \in Int
        BY <2>1, <3>2
      <4>2. ASSUME s # {}, Cardinality(s) <= n + 1
            PROVE  h[s] = f[Some(s)] + h[s \ {Some(s)}]
        <5>0. Cardinality(s) \in Nat /\ Cardinality(s) <= n
          BY <1>0, <2>2, <3>2, <4>2
        <5>1. /\ Cardinality(s) <= n /\ s \ {Some(s)} \in SUBSET S
              /\ Cardinality(s \ {Some(s)}) # n + 1
          BY <1>1, <2>2, <4>2, <5>0
        <5>2. h[s \ {Some(s)}] = g[s \ {Some(s)}]
          BY <5>1
        <5>3. g[s] = f[Some(s)] + g[s \ {Some(s)}]
          BY <2>1, <4>2, <5>1
        <5> QED
          BY <4>1, <5>2, <5>3
      <4> QED
        BY <4>1, <4>2
    <3> QED
      BY <3>1, <3>2
  <2>4. h[{}] = 0
    <3>1. Cardinality({}) # n + 1 /\ {} \in SUBSET S
      BY <2>2, FS_EmptySet
    <3> QED
      BY <2>1, <3>1
  <2>5. h \in [SUBSET S -> Int]
    BY <2>3
  <2> HIDE DEF h
  <2>6. \E k : Upto(k, n + 1)
    BY <2>3, <2>4, <2>5
  <2>7. n + 1 \in Nat
    BY <2>2
  <2> HIDE DEF Upto
  <2> QED
    BY <2>6, <2>7
<1>4. Good = Nat
  <2> HIDE DEF Good
  <2> QED
    BY <1>2, <1>3, InductiveIsNat DEF Good
<1>5. Cardinality(S) \in Nat
  BY FS_CardinalityType
<1>6. PICK g : Upto(g, Cardinality(S))
  BY <1>4, <1>5
<1>7. \A s \in SUBSET S : Cardinality(s) <= Cardinality(S)
  BY FS_Subset
<1> QED
  BY <1>6, <1>7 DEF Sums

(* What SumFunction computes.                                              *)
LEMMA SumUnfolds ==
  ASSUME NEW f, IsFiniteSet(DOMAIN f), \A x \in DOMAIN f : f[x] \in Int
  PROVE  \E iter : Sums(iter, f, DOMAIN f) /\ SumFunction(f) = iter[DOMAIN f]
<1> DEFINE S == DOMAIN f
           Solves(g) == g = [s \in SUBSET S |->
                               IF s = {} THEN 0 ELSE f[Some(s)] + g[s \ {Some(s)}]]
           iter == CHOOSE g : Solves(g)
<1>1. SumFunction(f) = iter[S]
  BY DEF SumFunction, SumFunctionOnSet, FoldFunctionOnSet, MapThenFoldSet, Some
<1>2. PICK g : Sums(g, f, S)
  BY SumsExist
<1>3. Solves(g)
  BY <1>2 DEF Sums
<1>4. Solves(iter)
  BY <1>3
<1> HIDE DEF iter
<1>5. DOMAIN iter = SUBSET S /\ iter[{}] = 0
  BY <1>4
<1>6. \A s \in SUBSET S : s # {} => iter[s] = f[Some(s)] + iter[s \ {Some(s)}]
  BY <1>4
<1> DEFINE Good == {n \in Nat : \A s \in SUBSET S : Cardinality(s) = n => iter[s] \in Int}
<1>7. 0 \in Good
  <2>1. \A s \in SUBSET S : Cardinality(s) = 0 => s = {}
    BY FS_Subset, FS_EmptySet
  <2> QED
    BY <1>5, <2>1
<1>8. ASSUME NEW n \in Good PROVE n + 1 \in Good
  <2> SUFFICES ASSUME NEW s \in SUBSET S, Cardinality(s) = n + 1 PROVE iter[s] \in Int
    OBVIOUS
  <2>1. n \in Nat /\ \A r \in SUBSET S : Cardinality(r) = n => iter[r] \in Int
    OBVIOUS
  <2> HIDE DEF Good
  <2>2. IsFiniteSet(s) /\ s # {}
    BY <2>1, FS_Subset, FS_EmptySet
  <2>3. Some(s) \in s /\ s \ {Some(s)} \in SUBSET S
    BY <2>2 DEF Some
  <2>4. Cardinality(s \ {Some(s)}) = n
    <3>1. Cardinality(s \ {Some(s)}) = Cardinality(s) - 1
      BY <2>2, <2>3, FS_RemoveElement
    <3> QED
      BY <2>1, <3>1
  <2>5. iter[s \ {Some(s)}] \in Int /\ f[Some(s)] \in Int
    BY <2>1, <2>3, <2>4
  <2>6. iter[s] = f[Some(s)] + iter[s \ {Some(s)}]
    BY <1>6, <2>2
  <2> QED
    BY <2>5, <2>6
<1>9. Good = Nat
  <2> HIDE DEF Good
  <2> QED
    BY <1>7, <1>8, InductiveIsNat DEF Good
<1>10. \A s \in SUBSET S : iter[s] \in Int
  <2>1. \A s \in SUBSET S : Cardinality(s) \in Nat
    BY FS_Subset, FS_CardinalityType
  <2> QED
    BY <1>9, <2>1
<1>11. iter \in [SUBSET S -> Int]
  BY <1>4, <1>10
<1>12. Sums(iter, f, S)
  BY <1>5, <1>6, <1>11 DEF Sums
<1> QED
  BY <1>1, <1>12

(* A sum of integers is an integer.                                        *)
LEMMA SumIsInt ==
  ASSUME NEW f, IsFiniteSet(DOMAIN f), \A x \in DOMAIN f : f[x] \in Int
  PROVE  SumFunction(f) \in Int
<1>1. PICK iter : Sums(iter, f, DOMAIN f) /\ SumFunction(f) = iter[DOMAIN f]
  BY SumUnfolds
<1> QED
  BY <1>1 DEF Sums

(* The recursion may take any element out first.                           *)
LEMMA SumsAny ==
  ASSUME NEW S, IsFiniteSet(S), NEW f, \A x \in S : f[x] \in Int, NEW iter, Sums(iter, f, S)
  PROVE  \A s \in SUBSET S : \A a \in s : iter[s] = f[a] + iter[s \ {a}]
<1> DEFINE Good == {n \in Nat : \A s \in SUBSET S : Cardinality(s) = n =>
                      \A a \in s : iter[s] = f[a] + iter[s \ {a}]}
<1>1. 0 \in Good
  <2>1. \A s \in SUBSET S : Cardinality(s) = 0 => s = {}
    BY FS_Subset, FS_EmptySet
  <2> QED
    BY <2>1
<1>2. ASSUME NEW n \in Good PROVE n + 1 \in Good
  <2> SUFFICES ASSUME NEW s \in SUBSET S, Cardinality(s) = n + 1, NEW a \in s
               PROVE  iter[s] = f[a] + iter[s \ {a}]
    OBVIOUS
  <2>1. n \in Nat /\ \A r \in SUBSET S : Cardinality(r) = n =>
          \A b \in r : iter[r] = f[b] + iter[r \ {b}]
    OBVIOUS
  <2> HIDE DEF Good
  <2> DEFINE x == Some(s)
  <2>2. x \in s
    BY DEF Some
  <2> HIDE DEF x
  <2>3. IsFiniteSet(s)
    BY FS_Subset
  <2>4. \A b \in s : s \ {b} \in SUBSET S /\ Cardinality(s \ {b}) = n
    <3>1. \A b \in s : Cardinality(s \ {b}) = Cardinality(s) - 1
      BY <2>3, FS_RemoveElement
    <3> QED
      BY <2>1, <3>1
  <2>5. iter[s] = f[x] + iter[s \ {x}]
    BY <2>2 DEF x, Sums
  <2>6. CASE a = x
    BY <2>5, <2>6
  <2>7. CASE a # x
    <3>1. a \in s \ {x} /\ x \in s \ {a} /\ (s \ {x}) \ {a} = (s \ {a}) \ {x}
      BY <2>2, <2>7
    <3>2. iter[s \ {x}] = f[a] + iter[(s \ {x}) \ {a}]
      BY <2>1, <2>2, <2>4, <3>1
    <3>3. iter[s \ {a}] = f[x] + iter[(s \ {a}) \ {x}]
      BY <2>1, <2>4, <3>1
    <3>4. f[a] \in Int /\ f[x] \in Int /\ iter[(s \ {a}) \ {x}] \in Int
      BY <2>2 DEF Sums
    <3>5. iter[s] = f[x] + (f[a] + iter[(s \ {a}) \ {x}])
      BY <2>5, <3>1, <3>2
    <3> QED
      BY <3>3, <3>4, <3>5
  <2> QED
    BY <2>6, <2>7
<1>3. Good = Nat
  <2> HIDE DEF Good
  <2> QED
    BY <1>1, <1>2, InductiveIsNat DEF Good
<1>4. \A s \in SUBSET S : Cardinality(s) \in Nat
  BY FS_Subset, FS_CardinalityType
<1> QED
  BY <1>3, <1>4

(* Two recursions agree on the sets whose values agree.                    *)
LEMMA SumsSame ==
  ASSUME NEW S, IsFiniteSet(S), NEW T \in SUBSET S, NEW f, NEW g, \A x \in T : f[x] = g[x],
         NEW i, Sums(i, f, S), NEW j, Sums(j, g, T)
  PROVE  i[T] = j[T]
<1> DEFINE Good == {n \in Nat : \A s \in SUBSET T : Cardinality(s) = n => i[s] = j[s]}
<1>1. 0 \in Good
  <2>1. \A s \in SUBSET T : Cardinality(s) = 0 => s = {}
    BY FS_Subset, FS_EmptySet
  <2> QED
    BY <2>1 DEF Sums
<1>2. ASSUME NEW n \in Good PROVE n + 1 \in Good
  <2> SUFFICES ASSUME NEW s \in SUBSET T, Cardinality(s) = n + 1 PROVE i[s] = j[s]
    OBVIOUS
  <2>1. n \in Nat /\ \A r \in SUBSET T : Cardinality(r) = n => i[r] = j[r]
    OBVIOUS
  <2> HIDE DEF Good
  <2>2. IsFiniteSet(s) /\ s # {}
    BY <2>1, FS_Subset, FS_EmptySet
  <2>3. Some(s) \in s /\ s \ {Some(s)} \in SUBSET T
    BY <2>2 DEF Some
  <2>4. Cardinality(s \ {Some(s)}) = n
    <3>1. Cardinality(s \ {Some(s)}) = Cardinality(s) - 1
      BY <2>2, <2>3, FS_RemoveElement
    <3> QED
      BY <2>1, <3>1
  <2>5. i[s \ {Some(s)}] = j[s \ {Some(s)}] /\ f[Some(s)] = g[Some(s)]
    BY <2>1, <2>3, <2>4
  <2> QED
    BY <2>2, <2>5 DEF Sums
<1>3. Good = Nat
  <2> HIDE DEF Good
  <2> QED
    BY <1>1, <1>2, InductiveIsNat DEF Good
<1>4. Cardinality(T) \in Nat
  BY FS_Subset, FS_CardinalityType
<1> QED
  BY <1>3, <1>4

(* A sum is one of its terms and the sum of the others.                    *)
LEMMA SumTakesOut ==
  ASSUME NEW f, IsFiniteSet(DOMAIN f), \A x \in DOMAIN f : f[x] \in Int, NEW a \in DOMAIN f
  PROVE  SumFunction(f) = f[a] + SumFunction([x \in DOMAIN f \ {a} |-> f[x]])
<1> DEFINE S == DOMAIN f
           T == S \ {a}
           g == [x \in T |-> f[x]]
<1>1. DOMAIN g = T /\ IsFiniteSet(T) /\ T \in SUBSET S /\ \A x \in T : g[x] = f[x] /\ g[x] \in Int
  BY FS_Subset
<1> HIDE DEF g
<1>2. PICK i : Sums(i, f, S) /\ SumFunction(f) = i[S]
  BY SumUnfolds
<1>3. PICK j : Sums(j, g, T) /\ SumFunction(g) = j[T]
  BY <1>1, SumUnfolds
<1>4. i[S] = f[a] + i[T]
  BY <1>2, SumsAny
<1>5. i[T] = j[T]
  BY <1>1, <1>2, <1>3, SumsSame
<1> QED
  BY <1>2, <1>3, <1>4, <1>5 DEF g

=============================================================================
