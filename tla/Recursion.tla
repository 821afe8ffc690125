----------------------------- MODULE Recursion -----------------------------
(***************************************************************************)
(* Facts about numbers, functions that are defined along them, finite sets *)
(* and sums over them, which the proofs about the commands' loops and      *)
(* recursions share.                                                       *)
(***************************************************************************)
EXTENDS Integers, FiniteSets, Functions, FiniteSetTheorems, WellFoundedInduction, TLAPS

(* Every set of numbers that is not empty has a least one. *)
LEMMA LeastNumber ==
    ASSUME NEW T \in SUBSET Nat, T # {}
    PROVE  \E n \in T : \A m \in T : n <= m
<1> DEFINE lt == OpToRel(<, Nat)
<1>1. PICK n \in T : \A m \in T : <<m, n>> \notin lt
  <2> HIDE DEF lt
  <2> QED
    BY NatLessThanWellFounded, WFMin DEF lt
<1>2. \A m \in T : ~(m < n)
  BY <1>1 DEF OpToRel
<1> HIDE DEF lt
<1> QED
  BY <1>2

(* Induction up to a bound, over a set in place of a predicate. *)
LEMMA Induction ==
    ASSUME NEW N \in Nat, NEW S, 0 \in S, \A n \in 1..N : n - 1 \in S => n \in S
    PROVE  \A n \in 0..N : n \in S
<1> SUFFICES ASSUME NEW k \in 0..N, k \notin S
             PROVE  FALSE
  OBVIOUS
<1> DEFINE T == (0..N) \ S
<1>1. T \in SUBSET Nat /\ T # {}
  OBVIOUS
<1>2. PICK n \in T : \A m \in T : n <= m
  <2> HIDE DEF T
  <2> QED
    BY <1>1, LeastNumber
<1>3. n \in 1..N /\ n - 1 \in 0..N
  BY <1>2
<1>4. n - 1 \in S
  BY <1>2, <1>3
<1> QED
  BY <1>2, <1>3, <1>4

\* next[n][v] comes after v at n.
Succession(next, N, V) == next \in [1..N -> [V -> V]]
Recursive(f, N, V, first, next) ==
    /\ f \in [0..N -> V]
    /\ f[0] = first
    /\ \A n \in 1..N : f[n] = next[n][f[n - 1]]

(* A function on 0..N is defined by its first value and what comes after each. *)
LEMMA RecursiveFunction ==
    ASSUME NEW N, NEW V, NEW first, NEW next, N \in Nat, first \in V, Succession(next, N, V)
    PROVE  \E f : Recursive(f, N, V, first, next)
<1>0. next \in [1..N -> [V -> V]]
  BY DEF Succession
<1> DEFINE Upto(k, f) == f[0] = first /\ \A n \in 1..k : f[n] = next[n][f[n - 1]]
           S == {k \in 0..N : \E f \in [0..k -> V] : Upto(k, f)}
<1>1. 0 \in S
  <2> DEFINE g == [n \in 0..0 |-> first]
  <2>1. g \in [0..0 -> V] /\ Upto(0, g)
    OBVIOUS
  <2> HIDE DEF g
  <2> QED
    BY <2>1
<1>2. ASSUME NEW k \in 1..N, k - 1 \in S
      PROVE  k \in S
  <2>1. PICK f \in [0..k - 1 -> V] : Upto(k - 1, f)
    BY <1>2
  <2> DEFINE g == [n \in 0..k |-> IF n = k THEN next[k][f[k - 1]] ELSE f[n]]
  <2>2. f[k - 1] \in V /\ next[k][f[k - 1]] \in V
    BY <1>0, <2>1
  <2>3. g \in [0..k -> V] /\ \A n \in 0..k - 1 : g[n] = f[n]
    BY <2>1, <2>2
  <2>4. g[0] = first
    BY <2>1, <2>3
  <2>5. ASSUME NEW n \in 1..k
        PROVE  g[n] = next[n][g[n - 1]]
    <3>1. n - 1 \in 0..k - 1 /\ g[n - 1] = f[n - 1]
      BY <2>3
    <3>2. CASE n = k
      BY <3>1, <3>2
    <3>3. CASE n # k
      <4>1. n \in 1..k - 1 /\ n \in 0..k - 1
        BY <3>3
      <4> QED
        BY <2>1, <2>3, <3>1, <4>1
    <3> QED
      BY <3>2, <3>3
  <2> HIDE DEF g
  <2> QED
    BY <2>3, <2>4, <2>5
<1>3. N \in S
  <2> HIDE DEF S
  <2>1. \A n \in 0..N : n \in S
    BY <1>1, <1>2, Induction
  <2> QED
    BY <2>1
<1> QED
  BY <1>3 DEF Recursive

(* What such a function has as values. *)
LEMMA RecursiveValues ==
    ASSUME NEW N \in Nat, NEW V, NEW f, f[0] \in V, \A n \in 1..N : f[n - 1] \in V => f[n] \in V
    PROVE  \A n \in 0..N : f[n] \in V
<1> DEFINE S == {n \in 0..N : f[n] \in V}
<1>1. 0 \in S
  OBVIOUS
<1>2. ASSUME NEW n \in 1..N, n - 1 \in S
      PROVE  n \in S
  BY <1>2
<1> HIDE DEF S
<1>3. \A n \in 0..N : n \in S
  BY <1>1, <1>2, Induction
<1> QED
  BY <1>3 DEF S

\* step makes sets of sets, and more of more.
Monotonic(step, D) ==
    /\ step \in [SUBSET D -> SUBSET D]
    /\ \A S, T \in SUBSET D : S \subseteq T => step[S] \subseteq step[T]
\* f[n] is what n steps make of f[0].
Repeated(f, D, step) ==
    /\ f \in [0..Cardinality(D) -> SUBSET D]
    /\ f[0] \subseteq step[f[0]]
    /\ \A n \in 1..Cardinality(D) : f[n] = step[f[n - 1]]

(* After as many steps as there are elements, nothing is left to be added. *)
LEMMA FixedPoint ==
    ASSUME NEW D, NEW step, NEW f, IsFiniteSet(D), Monotonic(step, D), Repeated(f, D, step)
    PROVE  f[Cardinality(D)] = step[f[Cardinality(D)]]
<1>0. /\ step \in [SUBSET D -> SUBSET D]
      /\ \A S, T \in SUBSET D : S \subseteq T => step[S] \subseteq step[T]
      /\ f \in [0..Cardinality(D) -> SUBSET D]
      /\ f[0] \subseteq step[f[0]]
      /\ \A n \in 1..Cardinality(D) : f[n] = step[f[n - 1]]
  BY DEF Monotonic, Repeated
<1> DEFINE N == Cardinality(D)
           S == {n \in 0..N : /\ f[n] \subseteq step[f[n]]
                              /\ f[n] = step[f[n]] \/ Cardinality(f[n]) >= n}
<1>1. N \in Nat
  BY FS_CardinalityType
<1>2. \A A \in SUBSET D : IsFiniteSet(A) /\ Cardinality(A) \in Nat
  BY FS_Subset, FS_CardinalityType
<1>3. N \in Nat /\ f \in [0..N -> SUBSET D] /\ \A n \in 1..N : f[n] = step[f[n - 1]]
  BY <1>0, <1>1
<1> HIDE DEF N
<1>4. 0 \in S
  BY <1>0, <1>2, <1>3
<1>5. ASSUME NEW n \in 1..N, n - 1 \in S
      PROVE  n \in S
  <2>1. n \in 0..N /\ n - 1 \in 0..N /\ n \in Nat
    BY <1>3
  <2> DEFINE old == f[n - 1]
             new == f[n]
  <2>2. /\ old \in SUBSET D /\ new \in SUBSET D /\ new = step[old] /\ old \subseteq step[old]
        /\ old = step[old] \/ Cardinality(old) >= n - 1
    BY <1>0, <1>3, <1>5, <2>1
  <2> SUFFICES /\ new \subseteq step[new]
               /\ new = step[new] \/ Cardinality(new) >= n
    BY <2>1
  <2> HIDE DEF old, new
  <2>3. new \subseteq step[new]
    BY <1>0, <2>2
  <2>4. CASE old = new
    BY <2>2, <2>4
  <2>5. CASE old # new
    <3>1. PICK x \in new : x \notin old
      BY <2>2, <2>5
    <3>2. Cardinality(old \cup {x}) = Cardinality(old) + 1
      BY <1>2, <2>2, <3>1, FS_AddElement
    <3>3. Cardinality(old \cup {x}) <= Cardinality(new)
      BY <1>2, <2>2, <3>1, FS_Subset
    <3>4. Cardinality(old) >= n - 1
      BY <2>2, <2>5
    <3>5. Cardinality(old) \in Nat /\ Cardinality(new) \in Nat
      BY <1>2, <2>2
    <3> QED
      BY <2>1, <2>3, <3>2, <3>3, <3>4, <3>5
  <2> QED
    BY <2>4, <2>5
<1>6. N \in S
  <2> HIDE DEF S
  <2>1. \A n \in 0..N : n \in S
    BY <1>3, <1>4, <1>5, Induction
  <2> QED
    BY <1>3, <2>1
<1>7. ASSUME f[N] # step[f[N]]
      PROVE  FALSE
  <2>1. f[N] \in SUBSET D /\ Cardinality(f[N]) >= N /\ f[N] \subseteq step[f[N]] /\ step[f[N]] \in SUBSET D
    BY <1>0, <1>3, <1>6, <1>7
  <2>2. f[N] = D
    <3>1. Cardinality(f[N]) <= N /\ (Cardinality(f[N]) = N => f[N] = D)
      BY <2>1, FS_Subset DEF N
    <3>2. Cardinality(f[N]) \in Nat
      BY <1>2, <2>1
    <3> QED
      BY <1>3, <2>1, <3>1, <3>2
  <2> QED
    BY <1>7, <2>1, <2>2
<1> QED
  BY <1>7 DEF N

-----------------------------------------------------------------------------
(* Sums over finite sets. *)

(* Among some subsets of a finite set there is one that has none of its own
   subsets with an element less among them. *)
LEMMA SmallestSet ==
    ASSUME NEW S, IsFiniteSet(S), NEW C \in SUBSET SUBSET S, C # {}
    PROVE  \E A \in C : \A x \in A : A \ {x} \notin C
<1> DEFINE sizes == {Cardinality(A) : A \in C}
<1>1. \A A \in SUBSET S : IsFiniteSet(A) /\ Cardinality(A) \in Nat
  BY FS_Subset, FS_CardinalityType
<1>2. sizes \in SUBSET Nat /\ sizes # {}
  BY <1>1
<1>3. PICK n \in sizes : \A m \in sizes : n <= m
  <2> HIDE DEF sizes
  <2> QED
    BY <1>2, LeastNumber
<1>4. PICK A \in C : n = Cardinality(A)
  OBVIOUS
<1>5. ASSUME NEW x \in A, A \ {x} \in C
      PROVE  FALSE
  <2>1. Cardinality(A \ {x}) = Cardinality(A) - 1 /\ Cardinality(A) \in Nat
    BY <1>1, FS_RemoveElement
  <2>2. Cardinality(A) <= Cardinality(A \ {x})
    BY <1>3, <1>4, <1>5
  <2> QED
    BY <2>1, <2>2
<1> QED
  BY <1>5

Some(A) == CHOOSE x \in A : TRUE

\* sum[A] adds up w over A, one element of A after the other as they are chosen.
Adds(sum, w, S) ==
    \A A \in SUBSET S :
        sum[A] = IF A = {} THEN 0 ELSE w[Some(A)] + sum[A \ {Some(A)}]

\* In whatever order.
AddsUp(sum, w, S) == \A A \in SUBSET S : \A x \in A : sum[A] = w[x] + sum[A \ {x}]

LEMMA SomeIsElement ==
    ASSUME NEW A, A # {}
    PROVE  Some(A) \in A
  BY DEF Some

LEMMA SumsExist ==
    ASSUME NEW S, IsFiniteSet(S), NEW w, \A x \in S : w[x] \in Nat
    PROVE  \E sum \in [SUBSET S -> Nat] : Adds(sum, w, S)
<1> DEFINE N == Cardinality(S)
           V == [SUBSET S -> Nat]
           first == [A \in SUBSET S |-> 0]
           Add(v) == [A \in SUBSET S |-> IF A = {} THEN 0 ELSE w[Some(A)] + v[A \ {Some(A)}]]
           next == [n \in 1..N |-> [v \in V |-> Add(v)]]
<1>1. \A A \in SUBSET S : IsFiniteSet(A) /\ Cardinality(A) \in Nat /\ Cardinality(A) <= N
  BY FS_Subset, FS_CardinalityType
<1>2. N \in Nat /\ first \in V
  BY FS_CardinalityType
<1>3. \A v \in V : Add(v) \in V
  BY SomeIsElement
<1>4. \A v, A : A \in SUBSET S /\ A # {} => Add(v)[A] = w[Some(A)] + v[A \ {Some(A)}]
  OBVIOUS
<1>5. first[{}] = 0 /\ \A v : Add(v)[{}] = 0
  OBVIOUS
<1> HIDE DEF N, V, Add, first
<1>6. PICK f : Recursive(f, N, V, first, next)
  <2>1. Succession(next, N, V)
    BY <1>3 DEF Succession
  <2> HIDE DEF next
  <2> QED
    BY <1>2, <2>1, RecursiveFunction
<1>7. /\ f \in [0..N -> V] /\ f[0] = first
      /\ \A n \in 1..N : f[n] = Add(f[n - 1])
  <2>1. f \in [0..N -> V] /\ f[0] = first /\ \A n \in 1..N : f[n] = next[n][f[n - 1]]
    BY <1>6 DEF Recursive
  <2>2. \A n \in 1..N : n - 1 \in 0..N /\ f[n - 1] \in V
    BY <1>2, <2>1
  <2> QED
    BY <2>1, <2>2
<1> DEFINE sum == [A \in SUBSET S |-> f[Cardinality(A)][A]]
<1>8. sum \in [SUBSET S -> Nat]
  <2>1. \A A \in SUBSET S : f[Cardinality(A)] \in V
    BY <1>1, <1>2, <1>7
  <2> QED
    BY <2>1 DEF V
<1>9. sum[{}] = 0
  BY <1>5, <1>7, FS_EmptySet
<1>10. ASSUME NEW A \in SUBSET S, A # {}
       PROVE  sum[A] = w[Some(A)] + sum[A \ {Some(A)}]
  <2> DEFINE B == A \ {Some(A)}
             n == Cardinality(A)
  <2>1. Some(A) \in A /\ B \in SUBSET S
    BY <1>10, SomeIsElement
  <2>2. Cardinality(B) = n - 1 /\ n \in Nat /\ n <= N /\ Cardinality(B) \in Nat
    BY <1>1, <2>1, FS_RemoveElement
  <2>3. n \in 1..N
    BY <1>2, <2>2
  <2>4. sum[A] = Add(f[n - 1])[A]
    BY <1>7, <2>3
  <2>5. Add(f[n - 1])[A] = w[Some(A)] + f[n - 1][B]
    BY <1>4, <1>10
  <2> QED
    BY <2>1, <2>2, <2>4, <2>5
<1> HIDE DEF sum
<1> QED
  BY <1>8, <1>9, <1>10 DEF Adds

(* The order does not matter. *)
LEMMA AddsAny ==
    ASSUME NEW S, IsFiniteSet(S), NEW w, \A x \in S : w[x] \in Nat,
           NEW sum, \A A \in SUBSET S : sum[A] \in Nat, Adds(sum, w, S)
    PROVE  AddsUp(sum, w, S)
<1> DEFINE C == {A \in SUBSET S : \E x \in A : sum[A] # w[x] + sum[A \ {x}]}
<1> SUFFICES ASSUME C # {} PROVE FALSE
  BY DEF AddsUp
<1>1. PICK A \in C : \A x \in A : A \ {x} \notin C
  <2> HIDE DEF C
  <2>1. C \in SUBSET SUBSET S
    BY DEF C
  <2> QED
    BY <2>1, SmallestSet
<1>2. PICK x \in A : sum[A] # w[x] + sum[A \ {x}]
  BY <1>1
<1> DEFINE y == Some(A)
<1>3. y \in A /\ sum[A] = w[y] + sum[A \ {y}]
  BY SomeIsElement DEF Adds
<1> HIDE DEF y
<1>4. x # y
  BY <1>2, <1>3
<1>5. A \ {y} \in SUBSET S /\ A \ {x} \in SUBSET S /\ (A \ {y}) \ {x} = (A \ {x}) \ {y}
  OBVIOUS
<1>6. /\ sum[A \ {y}] = w[x] + sum[(A \ {y}) \ {x}]
      /\ sum[A \ {x}] = w[y] + sum[(A \ {x}) \ {y}]
  BY <1>1, <1>2, <1>3, <1>4, <1>5
<1> DEFINE rest == sum[(A \ {x}) \ {y}]
<1>7. w[x] \in Nat /\ w[y] \in Nat /\ rest \in Nat
  BY <1>2, <1>3, <1>5
<1>8. sum[A \ {y}] = w[x] + rest /\ sum[A \ {x}] = w[y] + rest
  BY <1>5, <1>6
<1> HIDE DEF C, rest
<1> QED
  BY <1>2, <1>3, <1>7, <1>8

(* The library's sums are such sums. *)
LEMMA SumIsUnique ==
    ASSUME NEW S, IsFiniteSet(S), NEW w, NEW sum, NEW other, Adds(sum, w, S), Adds(other, w, S)
    PROVE  sum[S] = other[S]
<1> DEFINE C == {A \in SUBSET S : sum[A] # other[A]}
<1> SUFFICES ASSUME C # {} PROVE FALSE
  OBVIOUS
<1>1. PICK A \in C : \A x \in A : A \ {x} \notin C
  <2> HIDE DEF C
  <2>1. C \in SUBSET SUBSET S
    BY DEF C
  <2> QED
    BY <2>1, SmallestSet
<1>2. A # {} => Some(A) \in A
  BY SomeIsElement
<1> QED
  BY <1>1, <1>2 DEF Adds

LEMMA LibrarySum ==
    ASSUME NEW S, IsFiniteSet(S), NEW w, NEW sum, Adds(sum, w, S)
    PROVE  SumFunctionOnSet(w, S) = sum[S]
<1> DEFINE Body(f) == [A \in SUBSET S |-> IF A = {} THEN 0 ELSE w[Some(A)] + f[A \ {Some(A)}]]
           iter == CHOOSE f : f = Body(f)
<1>1. SumFunctionOnSet(w, S) = iter[S]
  BY DEF SumFunctionOnSet, FoldFunctionOnSet, MapThenFoldSet, Some
<1> DEFINE mine == [A \in SUBSET S |-> sum[A]]
<1>2. mine = Body(mine)
  <2>1. \A A \in SUBSET S : mine[A] = Body(mine)[A]
    BY SomeIsElement DEF Adds
  <2> QED
    BY <2>1
<1>3. iter = Body(iter)
  <2> HIDE DEF Body, mine
  <2> QED
    BY <1>2
<1> HIDE DEF iter
<1>4. Adds(iter, w, S)
  <2> DEFINE g == Body(iter)
  <2>1. \A A \in SUBSET S : g[A] = IF A = {} THEN 0 ELSE w[Some(A)] + iter[A \ {Some(A)}]
    OBVIOUS
  <2>2. iter = g
    BY <1>3
  <2> HIDE DEF g
  <2> QED
    BY <2>1, <2>2 DEF Adds
<1> QED
  BY <1>1, <1>4, SumIsUnique

(* A sum is what one of its elements adds, and the sum without that one. *)
LEMMA SumOfAll ==
    ASSUME NEW S, IsFiniteSet(S), NEW w, \A x \in S : w[x] \in Nat
    PROVE  /\ SumFunctionOnSet(w, {}) = 0
           /\ \A A \in SUBSET S :
                 /\ SumFunctionOnSet(w, A) \in Nat
                 /\ \A x \in A : SumFunctionOnSet(w, A) = w[x] + SumFunctionOnSet(w, A \ {x})
<1>1. PICK sum \in [SUBSET S -> Nat] : Adds(sum, w, S)
  BY SumsExist
<1>2. ASSUME NEW A \in SUBSET S
      PROVE  SumFunctionOnSet(w, A) = sum[A]
  <2>1. IsFiniteSet(A)
    BY FS_Subset
  <2>2. Adds(sum, w, A)
    BY <1>1 DEF Adds
  <2> QED
    BY <2>1, <2>2, LibrarySum
<1>3. sum[{}] = 0
  BY <1>1 DEF Adds
<1>4. \A A \in SUBSET S : \A x \in A : sum[A] = w[x] + sum[A \ {x}]
  <2>1. \A A \in SUBSET S : sum[A] \in Nat
    BY <1>1
  <2>2. AddsUp(sum, w, S)
    BY <1>1, <2>1, AddsAny
  <2> QED
    BY <2>2 DEF AddsUp
<1> QED
  BY <1>2, <1>3, <1>4

(* More elements, more of a sum; and what is not in the set does not matter. *)
LEMMA SumOfMore ==
    ASSUME NEW S, IsFiniteSet(S), NEW w, \A x \in S : w[x] \in Nat,
           NEW A \in SUBSET S, NEW v, \A x \in A : v[x] = w[x]
    PROVE  /\ SumFunctionOnSet(v, A) = SumFunctionOnSet(w, A)
           /\ SumFunctionOnSet(w, A) <= SumFunctionOnSet(w, S)
<1>0. IsFiniteSet(A) /\ \A x \in A : v[x] \in Nat
  BY FS_Subset
<1>1. SumFunctionOnSet(v, A) = SumFunctionOnSet(w, A)
  <2> DEFINE C == {B \in SUBSET A : SumFunctionOnSet(v, B) # SumFunctionOnSet(w, B)}
  <2> SUFFICES ASSUME C # {} PROVE FALSE
    OBVIOUS
  <2>1. PICK B \in C : \A x \in B : B \ {x} \notin C
    <3> HIDE DEF C
    <3>1. C \in SUBSET SUBSET A
      BY DEF C
    <3> QED
      BY <1>0, <3>1, SmallestSet
  <2>2. SumFunctionOnSet(v, {}) = 0 /\ SumFunctionOnSet(w, {}) = 0
    BY <1>0, SumOfAll
  <2>3. PICK x \in B : TRUE
    BY <2>1, <2>2
  <2>4. /\ SumFunctionOnSet(v, B) = v[x] + SumFunctionOnSet(v, B \ {x})
        /\ SumFunctionOnSet(w, B) = w[x] + SumFunctionOnSet(w, B \ {x})
    BY <1>0, <2>3, SumOfAll
  <2> QED
    BY <2>1, <2>3, <2>4
<1>2. SumFunctionOnSet(w, A) <= SumFunctionOnSet(w, S)
  <2> DEFINE less(B) == SumFunctionOnSet(w, A) <= SumFunctionOnSet(w, B)
             C == {B \in SUBSET S : A \subseteq B /\ ~less(B)}
  <2> SUFFICES ASSUME C # {} PROVE FALSE
    OBVIOUS
  <2>1. PICK B \in C : \A x \in B : B \ {x} \notin C
    <3> HIDE DEF C
    <3>1. C \in SUBSET SUBSET S
      BY DEF C
    <3> QED
      BY <3>1, SmallestSet
  <2>2. SumFunctionOnSet(w, A) \in Nat /\ SumFunctionOnSet(w, B) \in Nat
    BY <2>1, SumOfAll
  <2>3. PICK x \in B : x \notin A
    BY <2>1, <2>2
  <2>4. /\ SumFunctionOnSet(w, B) = w[x] + SumFunctionOnSet(w, B \ {x})
        /\ SumFunctionOnSet(w, B \ {x}) \in Nat
    BY <2>3, SumOfAll
  <2>5. SumFunctionOnSet(w, A) <= SumFunctionOnSet(w, B \ {x})
    BY <2>1, <2>3
  <2> QED
    BY <2>1, <2>2, <2>3, <2>4, <2>5
<1> QED
  BY <1>1, <1>2
=============================================================================
