---------------------------- MODULE DataTheorems ----------------------------
(***************************************************************************)
(* Facts about finite sets, sums and folds that the proofs of several      *)
(* components share.                                                       *)
(*                                                                         *)
(* Induction is stated with a set of numbers, or of subsets, in the place  *)
(* of a predicate: every set of numbers that contains 0 and the successor  *)
(* of each of its elements is Nat.                                         *)
(***************************************************************************)
EXTENDS Integers, Sequences, FiniteSets, Functions,
        FiniteSetTheorems, WellFoundedInduction, TLAPS

-----------------------------------------------------------------------------
(* Induction *)

(* A nonempty set of numbers has a least one. *)
LEMMA LeastNumber ==
  ASSUME NEW T \in SUBSET Nat, T # {}
  PROVE  \E n \in T : \A m \in T : n <= m
<1>1. PICK n \in T : \A m \in T : <<m, n>> \notin OpToRel(<, Nat)
  BY NatLessThanWellFounded, WFMin
<1>2. \A m \in T : ~(m < n)
  BY <1>1 DEF OpToRel
<1> QED
  BY <1>2

(* Induction over the natural numbers, for a set T of them. *)
LEMMA NumberInduction ==
  ASSUME NEW T \in SUBSET Nat, 0 \in T, \A n \in T : n + 1 \in T
  PROVE  \A n \in Nat : n \in T
<1> SUFFICES ASSUME Nat \ T # {} PROVE FALSE
  OBVIOUS
<1>1. PICK n \in Nat \ T : \A m \in Nat \ T : n <= m
  BY LeastNumber
<1>2. n # 0 /\ n - 1 \in Nat
  BY <1>1
<1>3. n - 1 \in T
  BY <1>1, <1>2
<1>4. (n - 1) + 1 \in T
  BY <1>3
<1> QED
  BY <1>1, <1>4

(* Every subset of a finite set is finite and has a size.                  *)
LEMMA Sizes ==
  ASSUME NEW S, IsFiniteSet(S)
  PROVE  /\ Cardinality(S) \in Nat
         /\ \A T \in SUBSET S : IsFiniteSet(T) /\ Cardinality(T) \in Nat
         /\ \A T \in SUBSET S : Cardinality(T) <= Cardinality(S)
         /\ \A T \in SUBSET S : Cardinality(T) = 0 <=> T = {}
         /\ \A T \in SUBSET S : \A x \in T : Cardinality(T \ {x}) = Cardinality(T) - 1
<1>1. \A T \in SUBSET S : IsFiniteSet(T) /\ Cardinality(T) <= Cardinality(S)
  BY FS_Subset
<1>2. \A T \in SUBSET S : Cardinality(T) \in Nat
  BY <1>1, FS_CardinalityType
<1>3. \A T \in SUBSET S : Cardinality(T) = 0 <=> T = {}
  BY <1>1, FS_EmptySet
<1>4. \A T \in SUBSET S : \A x \in T : Cardinality(T \ {x}) = Cardinality(T) - 1
  BY <1>1, FS_RemoveElement
<1>5. Cardinality(S) \in Nat
  BY FS_CardinalityType
<1> QED
  BY <1>1, <1>2, <1>3, <1>4, <1>5

(* Taking out one element lowers the size by one. *)
LEMMA SizeWithout ==
  ASSUME NEW T, IsFiniteSet(T), NEW n \in Nat, Cardinality(T) = n + 1, NEW x \in T
  PROVE  IsFiniteSet(T \ {x}) /\ Cardinality(T \ {x}) = n
<1>1. /\ IsFiniteSet(T \ {x})
      /\ Cardinality(T \ {x}) = IF x \in T THEN Cardinality(T) - 1 ELSE Cardinality(T)
  BY FS_RemoveElement
<1>2. Cardinality(T \ {x}) = Cardinality(T) - 1
  BY <1>1
<1> QED
  BY <1>1, <1>2

(* A property of subsets that the empty set has, and that a set has when   *)
(* each set with one element less has it, holds of every subset.           *)
LEMMA SetDescent ==
  ASSUME NEW S, IsFiniteSet(S), NEW P, {} \in P,
         \A T \in SUBSET S : T # {} /\ (\A x \in T : T \ {x} \in P) => T \in P
  PROVE  \A T \in SUBSET S : T \in P
<1> DEFINE N == {n \in Nat : \A T \in SUBSET S : Cardinality(T) = n => T \in P}
<1>1. 0 \in N
  BY Sizes
<1>2. ASSUME NEW n \in N PROVE n + 1 \in N
  <2>1. n \in Nat /\ n + 1 \in Nat /\ \A T \in SUBSET S : Cardinality(T) = n => T \in P
    OBVIOUS
  <2>2. ASSUME NEW T \in SUBSET S, Cardinality(T) = n + 1 PROVE T \in P
    <3>1. IsFiniteSet(T)
      BY FS_Subset
    <3>2. \A x \in T : Cardinality(T \ {x}) = n
      BY <2>1, <2>2, <3>1, SizeWithout
    <3>3. T # {}
      BY <2>1, <2>2, Sizes
    <3>4. \A x \in T : T \ {x} \in SUBSET S
      OBVIOUS
    <3>5. \A x \in T : T \ {x} \in P
      BY <2>1, <3>2, <3>4
    <3> QED
      BY <3>3, <3>5
  <2> QED
    BY <2>1, <2>2
<1> HIDE DEF N
<1>3. \A n \in Nat : n \in N
  BY <1>1, <1>2, NumberInduction DEF N
<1>4. \A T \in SUBSET S : Cardinality(T) \in Nat
  BY Sizes
<1> QED
  BY <1>3, <1>4 DEF N

(* A property of subsets that the empty set has, and a set keeps when it   *)
(* gains an element, holds of the whole set.                               *)
LEMMA SetInduction ==
  ASSUME NEW S, IsFiniteSet(S), NEW P, {} \in P,
         \A T \in SUBSET S : \A x \in S \ T : T \in P => T \cup {x} \in P
  PROVE  S \in P
<1>1. ASSUME NEW T \in SUBSET S, T # {}, \A x \in T : T \ {x} \in P
      PROVE  T \in P
  <2>1. PICK x \in T : TRUE
    BY <1>1
  <2>2. T \ {x} \in SUBSET S /\ x \in S \ (T \ {x}) /\ T \ {x} \in P
    BY <1>1
  <2>3. (T \ {x}) \cup {x} \in P
    BY <2>2
  <2>4. (T \ {x}) \cup {x} = T
    OBVIOUS
  <2> QED
    BY <2>3, <2>4, Zenon
<1> QED
  BY <1>1, SetDescent

(* A finite set of integers that is not empty has a largest.               *)
LEMMA LargestExists ==
  ASSUME NEW S, IsFiniteSet(S), S \subseteq Int, S # {}
  PROVE  \E x \in S : \A y \in S : x >= y
<1> DEFINE P == {T \in SUBSET S : T # {} => \E x \in T : \A y \in T : x >= y}
<1>1. {} \in P
  OBVIOUS
<1>2. ASSUME NEW T \in SUBSET S, NEW z \in S \ T, T \in P PROVE T \cup {z} \in P
  <2>1. CASE T = {}
    <3>1. z >= z /\ z \in T \cup {z} /\ T \cup {z} \in SUBSET S
      OBVIOUS
    <3> QED
      BY <2>1, <3>1
  <2>2. CASE T # {}
    <3>1. PICK x \in T : \A y \in T : x >= y
      BY <1>2, <2>2
    <3>2. x \in Int /\ z \in Int /\ \A y \in T : y \in Int
      OBVIOUS
    <3>3. PICK m \in {x, z} : m >= x /\ m >= z
      BY <3>2
    <3>4. \A y \in T \cup {z} : m >= y
      BY <3>1, <3>2, <3>3
    <3>5. m \in T \cup {z} /\ T \cup {z} \in SUBSET S
      BY <3>3
    <3> QED
      BY <3>4, <3>5
  <2> QED
    BY <2>1, <2>2
<1> HIDE DEF P
<1>3. S \in P
  BY <1>1, <1>2, SetInduction
<1> QED
  BY <1>3 DEF P

-----------------------------------------------------------------------------
(* Sums over a finite set *)

(* The recursion that SumFunctionOnSet(f, S) evaluates.                    *)
SumStep(g, f, s) ==
  IF s = {} THEN 0 ELSE LET x == CHOOSE x \in s : TRUE IN f[x] + g[s \ {x}]
IsSum(g, f, S) == g = [s \in SUBSET S |-> SumStep(g, f, s)]

(* A function that satisfies the recursion exists. *)
LEMMA SumIsDefined ==
  ASSUME NEW f, NEW S, IsFiniteSet(S)
  PROVE  \E g : IsSum(g, f, S)
<1> DEFINE Upto(g, n) == \A s \in SUBSET S : Cardinality(s) <= n => g[s] = SumStep(g, f, s)
           N == {n \in Nat : \E g : Upto(g, n)}
<1>1. 0 \in N
  <2>1. Upto([s \in SUBSET S |-> 0], 0)
    BY Sizes DEF SumStep
  <2> QED
    BY <2>1
<1>2. ASSUME NEW n \in N PROVE n + 1 \in N
  <2>1. PICK g : Upto(g, n)
    OBVIOUS
  <2> DEFINE h == [s \in SUBSET S |-> IF Cardinality(s) <= n THEN g[s] ELSE SumStep(g, f, s)]
  <2>2. ASSUME NEW s \in SUBSET S, Cardinality(s) <= n + 1 PROVE h[s] = SumStep(h, f, s)
    <3>1. h[s] = SumStep(g, f, s)
      BY <2>1
    <3>2. CASE s = {}
      BY <3>1, <3>2 DEF SumStep
    <3>3. CASE s # {}
      <4>1. PICK x : x = (CHOOSE y \in s : TRUE) /\ x \in s
        BY <3>3
      <4>2. s \ {x} \in SUBSET S /\ Cardinality(s \ {x}) <= n
        BY <2>2, <4>1, Sizes
      <4>3. h[s \ {x}] = g[s \ {x}]
        BY <4>2
      <4> HIDE DEF h
      <4> QED
        BY <3>1, <3>3, <4>1, <4>3 DEF SumStep
    <3> QED
      BY <3>2, <3>3
  <2> HIDE DEF h
  <2>3. Upto(h, n + 1)
    BY <2>2
  <2>4. n + 1 \in Nat
    OBVIOUS
  <2> HIDE DEF Upto
  <2> QED
    BY <2>3, <2>4
<1> HIDE DEF N
<1>3. Cardinality(S) \in N
  <2>1. \A n \in Nat : n \in N
    BY <1>1, <1>2, NumberInduction DEF N
  <2> QED
    BY <2>1, Sizes
<1>4. PICK g : Upto(g, Cardinality(S))
  BY <1>3 DEF N
<1> DEFINE h == [s \in SUBSET S |-> g[s]]
<1>5. \A s \in SUBSET S : h[s] = SumStep(h, f, s)
  <2> SUFFICES ASSUME NEW s \in SUBSET S PROVE h[s] = SumStep(h, f, s)
    OBVIOUS
  <2>1. Cardinality(s) <= Cardinality(S)
    BY Sizes
  <2>a. h[s] = SumStep(g, f, s)
    BY <1>4, <2>1
  <2>2. CASE s = {}
    BY <2>a, <2>2 DEF SumStep
  <2>3. CASE s # {}
    <3>1. PICK x : x = (CHOOSE y \in s : TRUE) /\ x \in s
      BY <2>3
    <3>2. h[s \ {x}] = g[s \ {x}]
      OBVIOUS
    <3> HIDE DEF h
    <3> QED
      BY <2>a, <2>3, <3>1, <3>2 DEF SumStep
  <2> QED
    BY <2>2, <2>3
<1>6. DOMAIN h = SUBSET S /\ h = [s \in SUBSET S |-> h[s]]
  OBVIOUS
<1> HIDE DEF h
<1> QED
  BY <1>5, <1>6 DEF IsSum

(* It is computed by one function on all subsets of the set.               *)
LEMMA SumUnfolds ==
  ASSUME NEW f, NEW S, IsFiniteSet(S)
  PROVE  \E g : IsSum(g, f, S) /\ SumFunctionOnSet(f, S) = g[S]
<1> DEFINE iter == CHOOSE g : g = [s \in SUBSET S |->
             IF s = {} THEN 0 ELSE LET x == CHOOSE x \in s : TRUE IN f[x] + g[s \ {x}]]
<1>1. SumFunctionOnSet(f, S) = iter[S]
  BY DEF SumFunctionOnSet, FoldFunctionOnSet, MapThenFoldSet
<1>2. \E g : g = [s \in SUBSET S |->
             IF s = {} THEN 0 ELSE LET x == CHOOSE x \in s : TRUE IN f[x] + g[s \ {x}]]
  <2>1. PICK g : IsSum(g, f, S)
    BY SumIsDefined
  <2> QED
    BY <2>1 DEF IsSum, SumStep
<1>3. iter = [s \in SUBSET S |->
             IF s = {} THEN 0 ELSE LET x == CHOOSE x \in s : TRUE IN f[x] + iter[s \ {x}]]
  BY <1>2
<1> QED
  BY <1>1, <1>3 DEF IsSum, SumStep

(* The recursion gives a subset the same sum whatever set it starts from. *)
LEMMA SumsAgree ==
  ASSUME NEW f, NEW S, IsFiniteSet(S), NEW T \in SUBSET S,
         NEW g, IsSum(g, f, S), NEW h, IsSum(h, f, T)
  PROVE  \A s \in SUBSET T : g[s] = h[s]
<1> DEFINE P == {s \in SUBSET T : g[s] = h[s]}
<1>1. \A s \in SUBSET T : g[s] = SumStep(g, f, s) /\ h[s] = SumStep(h, f, s)
  BY DEF IsSum
<1>2. {} \in P
  BY <1>1 DEF SumStep
<1>3. ASSUME NEW s \in SUBSET T, s # {}, \A x \in s : s \ {x} \in P
      PROVE  s \in P
  <2>1. PICK x : x = (CHOOSE y \in s : TRUE) /\ x \in s
    BY <1>3
  <2>2. g[s \ {x}] = h[s \ {x}]
    BY <1>3, <2>1
  <2> QED
    BY <1>1, <1>3, <2>1, <2>2 DEF SumStep
<1>4. IsFiniteSet(T)
  BY FS_Subset
<1> HIDE DEF P
<1>5. \A s \in SUBSET T : s \in P
  BY <1>2, <1>3, <1>4, SetDescent
<1> QED
  BY <1>5 DEF P

(* The sum over a set is that of one of its elements and the rest.         *)
LEMMA SumOne ==
  ASSUME NEW f, NEW S, IsFiniteSet(S)
  PROVE  /\ SumFunctionOnSet(f, {}) = 0
         /\ S # {} => \E x \in S : SumFunctionOnSet(f, S) = f[x] + SumFunctionOnSet(f, S \ {x})
<1>1. SumFunctionOnSet(f, {}) = 0
  <2>1. IsFiniteSet({})
    BY FS_EmptySet
  <2>2. PICK g : IsSum(g, f, {}) /\ SumFunctionOnSet(f, {}) = g[{}]
    BY <2>1, SumUnfolds
  <2> QED
    BY <2>2 DEF IsSum, SumStep
<1>2. ASSUME S # {}
      PROVE  \E x \in S : SumFunctionOnSet(f, S) = f[x] + SumFunctionOnSet(f, S \ {x})
  <2>1. PICK x : x = (CHOOSE y \in S : TRUE) /\ x \in S
    BY <1>2
  <2>2. PICK g : IsSum(g, f, S) /\ SumFunctionOnSet(f, S) = g[S]
    BY SumUnfolds
  <2>3. IsFiniteSet(S \ {x})
    BY Sizes
  <2>4. PICK h : IsSum(h, f, S \ {x}) /\ SumFunctionOnSet(f, S \ {x}) = h[S \ {x}]
    BY <2>3, SumUnfolds
  <2>5. g[S \ {x}] = h[S \ {x}]
    BY <2>2, <2>4, SumsAgree
  <2>6. g[S] = f[x] + g[S \ {x}]
    BY <1>2, <2>1, <2>2 DEF IsSum, SumStep
  <2> QED
    BY <2>1, <2>2, <2>4, <2>5, <2>6
<1> QED
  BY <1>1, <1>2

(* A sum of integers is an integer. *)
LEMMA SumOfIntegers ==
  ASSUME NEW f, NEW S, IsFiniteSet(S), \A x \in S : f[x] \in Int
  PROVE  SumFunctionOnSet(f, S) \in Int
<1> DEFINE P == {T \in SUBSET S : SumFunctionOnSet(f, T) \in Int}
<1>1. {} \in P
  <2>1. SumFunctionOnSet(f, {}) = 0
    BY SumOne
  <2> QED
    BY <2>1
<1>2. ASSUME NEW T \in SUBSET S, T # {}, \A x \in T : T \ {x} \in P
      PROVE  T \in P
  <2>1. IsFiniteSet(T)
    BY FS_Subset
  <2>2. PICK x \in T : SumFunctionOnSet(f, T) = f[x] + SumFunctionOnSet(f, T \ {x})
    BY <1>2, <2>1, SumOne
  <2>3. SumFunctionOnSet(f, T \ {x}) \in Int
    BY <1>2
  <2> QED
    BY <2>2, <2>3
<1> HIDE DEF P
<1>3. S \in P
  BY <1>1, <1>2, SetDescent
<1> QED
  BY <1>3 DEF P

(* Whichever element is taken out first.                                   *)
LEMMA SumRemove ==
  ASSUME NEW f, NEW S, IsFiniteSet(S), \A x \in S : f[x] \in Int
  PROVE  \A x \in S : SumFunctionOnSet(f, S) = f[x] + SumFunctionOnSet(f, S \ {x})
<1> DEFINE Sum(T) == SumFunctionOnSet(f, T)
           P == {T \in SUBSET S : \A x \in T : Sum(T) = f[x] + Sum(T \ {x})}
<1>1. {} \in P
  OBVIOUS
<1>2. ASSUME NEW T \in SUBSET S, T # {}, \A x \in T : T \ {x} \in P
      PROVE  T \in P
  <2> SUFFICES ASSUME NEW y \in T PROVE Sum(T) = f[y] + Sum(T \ {y})
    OBVIOUS
  <2>1. IsFiniteSet(T)
    BY FS_Subset
  <2>2. PICK z \in T : Sum(T) = f[z] + Sum(T \ {z})
    BY <1>2, <2>1, SumOne
  <2>3. CASE y = z
    BY <2>2, <2>3
  <2>4. CASE y # z
    <3>1. y \in T \ {z} /\ z \in T \ {y} /\ T \ {z} \in P /\ T \ {y} \in P
      BY <1>2, <2>4
    <3>2. Sum(T \ {z}) = f[y] + Sum((T \ {z}) \ {y})
      BY <3>1
    <3>3. Sum(T \ {y}) = f[z] + Sum((T \ {y}) \ {z})
      BY <3>1
    <3>4. PICK U : U = (T \ {y}) \ {z}
      OBVIOUS
    <3>5. (T \ {z}) \ {y} = U
      BY <3>4
    <3>6. Sum(U) \in Int /\ f[y] \in Int /\ f[z] \in Int
      <4>1. IsFiniteSet(U) /\ U \subseteq S
        BY <2>1, <3>4, FS_Subset
      <4> QED
        BY <4>1, SumOfIntegers
    <3>7. Sum((T \ {z}) \ {y}) = Sum(U) /\ Sum((T \ {y}) \ {z}) = Sum(U)
      BY <3>4, <3>5, Zenon
    <3> HIDE DEF Sum
    <3> QED
      BY <2>2, <3>2, <3>3, <3>6, <3>7
  <2> QED
    BY <2>3, <2>4
<1> HIDE DEF P
<1>3. S \in P
  BY <1>1, <1>2, SetDescent
<1> QED
  BY <1>3 DEF P

(* A new element adds its term. *)
LEMMA SumAdd ==
  ASSUME NEW f, NEW S, IsFiniteSet(S), \A y \in S : f[y] \in Int,
         NEW x, x \notin S, f[x] \in Int
  PROVE  SumFunctionOnSet(f, S \cup {x}) = SumFunctionOnSet(f, S) + f[x]
<1>1. IsFiniteSet(S \cup {x}) /\ x \in S \cup {x} /\ \A y \in S \cup {x} : f[y] \in Int
  BY FS_AddElement
<1>2. SumFunctionOnSet(f, S \cup {x}) = f[x] + SumFunctionOnSet(f, (S \cup {x}) \ {x})
  BY <1>1, SumRemove
<1>3. (S \cup {x}) \ {x} = S
  OBVIOUS
<1>4. SumFunctionOnSet(f, (S \cup {x}) \ {x}) = SumFunctionOnSet(f, S)
  BY <1>3, Zenon
<1>5. SumFunctionOnSet(f, S) \in Int
  BY SumOfIntegers
<1> QED
  BY <1>2, <1>4, <1>5

(* Sums over sets whose elements correspond, with equal terms, are equal.  *)
LEMMA SumCorrespond ==
  ASSUME NEW f, NEW S, IsFiniteSet(S), \A x \in S : f[x] \in Int, NEW g, NEW b,
         \A x \in S : g[b[x]] = f[x], \A x, y \in S : b[x] = b[y] => x = y
  PROVE  SumFunctionOnSet(g, {b[x] : x \in S}) = SumFunctionOnSet(f, S)
<1> DEFINE P == {T \in SUBSET S :
                   /\ IsFiniteSet({b[x] : x \in T})
                   /\ SumFunctionOnSet(g, {b[x] : x \in T}) = SumFunctionOnSet(f, T)}
<1>1. {} \in P
  <2>1. {b[x] : x \in {}} = {} /\ IsFiniteSet({})
    BY FS_EmptySet
  <2> QED
    BY <2>1, SumOne
<1>2. ASSUME NEW T \in SUBSET S, NEW x \in S \ T, T \in P PROVE T \cup {x} \in P
  <2> DEFINE B == {b[y] : y \in T}
  <2>1. {b[y] : y \in T \cup {x}} = B \cup {b[x]} /\ b[x] \notin B
    OBVIOUS
  <2>2. IsFiniteSet(B) /\ SumFunctionOnSet(g, B) = SumFunctionOnSet(f, T) /\ IsFiniteSet(T)
    BY <1>2, FS_Subset
  <2>3. \A z \in B : g[z] \in Int
    OBVIOUS
  <2> HIDE DEF B
  <2>4. IsFiniteSet(B \cup {b[x]})
    BY <2>2, FS_AddElement
  <2>5. SumFunctionOnSet(g, B \cup {b[x]}) = SumFunctionOnSet(g, B) + g[b[x]]
    BY <2>1, <2>2, <2>3, SumAdd
  <2>6. SumFunctionOnSet(f, T \cup {x}) = SumFunctionOnSet(f, T) + f[x]
    BY <2>2, SumAdd
  <2> QED
    BY <2>1, <2>2, <2>4, <2>5, <2>6
<1> HIDE DEF P
<1>3. S \in P
  BY <1>1, <1>2, SetInduction
<1> QED
  BY <1>3 DEF P

(* A sum depends on the terms over its set only. *)
LEMMA SumSameTerms ==
  ASSUME NEW f, NEW S, IsFiniteSet(S), \A x \in S : f[x] \in Int, NEW g,
         \A x \in S : g[x] = f[x]
  PROVE  SumFunctionOnSet(g, S) = SumFunctionOnSet(f, S)
<1> DEFINE b == [x \in S |-> x]
<1>1. {b[x] : x \in S} = S
  OBVIOUS
<1>2. (\A x \in S : g[b[x]] = f[x]) /\ (\A x, y \in S : b[x] = b[y] => x = y)
  OBVIOUS
<1> HIDE DEF b
<1>3. SumFunctionOnSet(g, {b[x] : x \in S}) = SumFunctionOnSet(f, S)
  BY <1>2, SumCorrespond
<1> QED
  BY <1>1, <1>3, Zenon

(* The sum over two disjoint sets is the sum of their sums. *)
LEMMA SumUnion ==
  ASSUME NEW f, NEW S, IsFiniteSet(S), NEW T, IsFiniteSet(T), S \cap T = {},
         \A x \in S \cup T : f[x] \in Int
  PROVE  SumFunctionOnSet(f, S \cup T) = SumFunctionOnSet(f, S) + SumFunctionOnSet(f, T)
<1> DEFINE Sum(U) == SumFunctionOnSet(f, U)
           P == {U \in SUBSET T : Sum(S \cup U) = Sum(S) + Sum(U)}
<1>0. Sum(S) \in Int /\ \A U \in SUBSET T : Sum(U) \in Int
  <2>1. \A U \in SUBSET T : IsFiniteSet(U)
    BY FS_Subset
  <2> QED
    BY <2>1, SumOfIntegers
<1>1. {} \in P
  <2>1. S \cup {} = S /\ Sum({}) = 0
    BY SumOne
  <2> HIDE DEF Sum
  <2> QED
    BY <1>0, <2>1
<1>2. ASSUME NEW U \in SUBSET T, NEW x \in T \ U, U \in P PROVE U \cup {x} \in P
  <2>1. IsFiniteSet(U) /\ IsFiniteSet(S \cup U)
    BY FS_Subset, FS_Union
  <2>2. S \cup (U \cup {x}) = (S \cup U) \cup {x} /\ x \notin S \cup U
    OBVIOUS
  <2>3. Sum((S \cup U) \cup {x}) = Sum(S \cup U) + f[x]
    BY <2>1, <2>2, SumAdd
  <2>4. Sum(U \cup {x}) = Sum(U) + f[x]
    BY <2>1, SumAdd
  <2>5. Sum(S \cup U) = Sum(S) + Sum(U) /\ f[x] \in Int /\ Sum(U) \in Int
    BY <1>0, <1>2
  <2>6. U \cup {x} \in SUBSET T
    OBVIOUS
  <2>7. Sum(S \cup (U \cup {x})) = Sum((S \cup U) \cup {x})
    BY <2>2, Zenon
  <2> HIDE DEF Sum
  <2> QED
    BY <1>0, <2>3, <2>4, <2>5, <2>6, <2>7
<1> HIDE DEF P
<1>3. T \in P
  BY <1>1, <1>2, SetInduction
<1> QED
  BY <1>3 DEF P

(* A sum of natural numbers is one, and more of them sum to no less.       *)
LEMMA SumOfNaturals ==
  ASSUME NEW f, NEW S, IsFiniteSet(S), \A x \in S : f[x] \in Nat
  PROVE  SumFunctionOnSet(f, S) \in Nat
<1> DEFINE P == {T \in SUBSET S : SumFunctionOnSet(f, T) \in Nat}
<1>1. {} \in P
  <2>1. IsFiniteSet({})
    BY FS_EmptySet
  <2> QED
    BY <2>1, SumOne
<1>2. ASSUME NEW T \in SUBSET S, NEW x \in S \ T, T \in P PROVE T \cup {x} \in P
  <2>1. IsFiniteSet(T)
    BY FS_Subset
  <2>2. SumFunctionOnSet(f, T \cup {x}) = SumFunctionOnSet(f, T) + f[x]
    BY <2>1, SumAdd
  <2>3. T \cup {x} \in SUBSET S /\ SumFunctionOnSet(f, T) \in Nat /\ f[x] \in Nat
    BY <1>2
  <2> QED
    BY <2>2, <2>3
<1> HIDE DEF P
<1>3. S \in P
  BY <1>1, <1>2, SetInduction
<1> QED
  BY <1>3 DEF P

(* Leaving out terms that are not negative does not raise a sum. *)
LEMMA SumMonotonic ==
  ASSUME NEW f, NEW S, IsFiniteSet(S), \A x \in S : f[x] \in Int,
         NEW T \in SUBSET S, \A x \in S \ T : f[x] >= 0
  PROVE  SumFunctionOnSet(f, T) <= SumFunctionOnSet(f, S)
<1>1. IsFiniteSet(T) /\ IsFiniteSet(S \ T) /\ T \cap (S \ T) = {}
  BY FS_Subset
<1>a. SumFunctionOnSet(f, T \cup (S \ T)) = SumFunctionOnSet(f, S)
  <2>1. T \cup (S \ T) = S
    OBVIOUS
  <2> QED
    BY <2>1, Zenon
<1>2. SumFunctionOnSet(f, S \ T) \in Nat
  BY <1>1, SumOfNaturals
<1>3. SumFunctionOnSet(f, T \cup (S \ T)) = SumFunctionOnSet(f, T) + SumFunctionOnSet(f, S \ T)
  BY <1>1, SumUnion
<1>4. SumFunctionOnSet(f, T) \in Int
  BY <1>1, SumOfIntegers
<1> QED
  BY <1>a, <1>2, <1>3, <1>4

(* Leaving out terms that are not positive does not lower it.              *)
LEMMA SumNotLowered ==
  ASSUME NEW f, NEW S, IsFiniteSet(S), \A x \in S : f[x] \in Int,
         NEW T \in SUBSET S, \A x \in S \ T : f[x] <= 0
  PROVE  SumFunctionOnSet(f, S) <= SumFunctionOnSet(f, T)
<1> DEFINE Sum(U) == SumFunctionOnSet(f, U)
           P == {R \in SUBSET S : Sum(R) <= Sum(R \cap T)}
<1>0. \A R \in SUBSET S : IsFiniteSet(R) /\ IsFiniteSet(R \cap T) /\ Sum(R) \in Int /\ Sum(R \cap T) \in Int
  <2>1. \A R \in SUBSET S : IsFiniteSet(R) /\ R \cap T \in SUBSET S
    BY FS_Subset
  <2>2. \A R \in SUBSET S : Sum(R) \in Int
    BY <2>1, SumOfIntegers
  <2> QED
    BY <2>1, <2>2
<1>1. {} \in P
  <2>1. {} \cap T = {} /\ Sum({}) \in Int
    BY <1>0
  <2>2. Sum({}) <= Sum({} \cap T)
    BY <2>1
  <2> QED
    BY <2>2
<1>2. ASSUME NEW R \in SUBSET S, NEW x \in S \ R, R \in P
      PROVE  R \cup {x} \in P
  <2>1. Sum(R \cup {x}) = Sum(R) + f[x] /\ Sum(R) <= Sum(R \cap T)
    <3>1. IsFiniteSet(R) /\ (\A y \in R : f[y] \in Int) /\ x \notin R /\ f[x] \in Int
      BY <1>0
    <3>2. Sum(R) <= Sum(R \cap T)
      BY <1>2
    <3> QED
      BY <3>1, <3>2, SumAdd
  <2>2. CASE x \in T
    <3>1. (R \cup {x}) \cap T = (R \cap T) \cup {x}
      BY <2>2
    <3>2. Sum((R \cap T) \cup {x}) = Sum(R \cap T) + f[x]
      <4>1. IsFiniteSet(R \cap T) /\ (\A y \in R \cap T : f[y] \in Int) /\ x \notin R \cap T /\ f[x] \in Int
        BY <1>0
      <4> QED
        BY <4>1, SumAdd
    <3> HIDE DEF Sum
    <3>3. Sum((R \cup {x}) \cap T) = Sum(R \cap T) + f[x]
      BY <3>1, <3>2
    <3>4. Sum(R \cup {x}) <= Sum((R \cup {x}) \cap T)
      BY <1>0, <2>1, <3>3
    <3> QED
      BY <3>4
  <2>3. CASE x \notin T
    <3>1. (R \cup {x}) \cap T = R \cap T
      BY <2>3
    <3>2. f[x] \in Int /\ f[x] <= 0
      BY <2>3
    <3> HIDE DEF Sum
    <3>3. Sum(R \cup {x}) <= Sum(R \cap T)
      BY <1>0, <2>1, <3>2
    <3>4. Sum(R \cup {x}) <= Sum((R \cup {x}) \cap T)
      BY <3>1, <3>3
    <3> QED
      BY <3>4
  <2> QED
    BY <2>2, <2>3
<1> HIDE DEF P
<1>3. S \in P
  BY <1>1, <1>2, SetInduction
<1>4. S \cap T = T
  OBVIOUS
<1>5. Sum(S) <= Sum(S \cap T)
  BY <1>3 DEF P
<1> QED
  BY <1>4, <1>5

(* A sum gains when terms that are not positive are exchanged for terms    *)
(* that are not negative.                                                  *)
LEMMA SumImproves ==
  ASSUME NEW f, NEW S, IsFiniteSet(S), NEW T, IsFiniteSet(T), \A x \in S \cup T : f[x] \in Int,
         \A x \in S \ T : f[x] <= 0, \A x \in T \ S : f[x] >= 0
  PROVE  SumFunctionOnSet(f, S) <= SumFunctionOnSet(f, T)
<1>1. PICK B : B = S \cap T
  OBVIOUS
<1>2. B \in SUBSET S /\ B \in SUBSET T /\ IsFiniteSet(B) /\ \A x \in B : f[x] \in Int
  BY <1>1, FS_Subset
<1>3. (\A x \in S \ B : f[x] <= 0) /\ (\A x \in T \ B : f[x] >= 0)
  BY <1>1
<1>4. SumFunctionOnSet(f, S) <= SumFunctionOnSet(f, B)
  BY <1>2, <1>3, SumNotLowered
<1>5. SumFunctionOnSet(f, B) <= SumFunctionOnSet(f, T)
  BY <1>2, <1>3, SumMonotonic
<1>6. /\ SumFunctionOnSet(f, S) \in Int /\ SumFunctionOnSet(f, B) \in Int
      /\ SumFunctionOnSet(f, T) \in Int
  BY <1>2, SumOfIntegers
<1> QED
  BY <1>4, <1>5, <1>6

(* There is one way to list numbers in increasing order.                   *)
IncreasingTo(f, n) ==
  /\ n \in Nat /\ \A i \in 1..n : f[i] \in Int
  /\ \A i, j \in 1..n : i < j => f[i] < f[j]
AllAmong(f, n, g, m) == \A i \in 1..n : \E j \in 1..m : g[j] = f[i]

LEMMA OneIncreasingList ==
  ASSUME NEW n, NEW m, NEW f, NEW g, IncreasingTo(f, n), IncreasingTo(g, m),
         AllAmong(f, n, g, m), AllAmong(g, m, f, n)
  PROVE  n = m /\ \A i \in 1..n : f[i] = g[i]
<1>0. /\ n \in Nat /\ m \in Nat
      /\ \A i \in 1..n : f[i] \in Int
      /\ \A j \in 1..m : g[j] \in Int
      /\ \A i, j \in 1..n : i < j => f[i] < f[j]
      /\ \A i, j \in 1..m : i < j => g[i] < g[j]
      /\ \A i \in 1..n : \E j \in 1..m : g[j] = f[i]
      /\ \A j \in 1..m : \E i \in 1..n : f[i] = g[j]
  BY DEF IncreasingTo, AllAmong
<1> USE <1>0
<1> DEFINE N == {i \in Nat : i <= n /\ i <= m => \A k \in 1..i : f[k] = g[k]}
<1>1. 0 \in N
  OBVIOUS
<1>2. ASSUME NEW i \in N PROVE i + 1 \in N
  <2> SUFFICES ASSUME i + 1 <= n, i + 1 <= m PROVE \A k \in 1..(i + 1) : f[k] = g[k]
    OBVIOUS
  <2>1. i \in Nat /\ \A k \in 1..i : f[k] = g[k]
    OBVIOUS
  <2>2. i + 1 \in 1..n /\ i + 1 \in 1..m /\ f[i + 1] \in Int /\ g[i + 1] \in Int
    BY <2>1
  <2>3. ~(f[i + 1] < g[i + 1])
    <3>1. PICK j \in 1..m : g[j] = f[i + 1]
      BY <2>2
    <3>2. j = i + 1 \/ j < i + 1 \/ i + 1 < j
      BY <2>1
    <3>3. j < i + 1 => j \in 1..i /\ j \in 1..n
      BY <2>1, <2>2
    <3>4. j < i + 1 => f[j] < f[i + 1]
      BY <2>2, <3>3
    <3>5. j < i + 1 => FALSE
      BY <2>1, <2>2, <3>1, <3>3, <3>4
    <3>6. i + 1 < j => g[i + 1] < f[i + 1]
      BY <2>2, <3>1
    <3> QED
      BY <2>2, <3>1, <3>2, <3>5, <3>6
  <2>4. ~(g[i + 1] < f[i + 1])
    <3>1. PICK j \in 1..n : f[j] = g[i + 1]
      BY <2>2
    <3>2. j = i + 1 \/ j < i + 1 \/ i + 1 < j
      BY <2>1
    <3>3. j < i + 1 => j \in 1..i /\ j \in 1..m
      BY <2>1, <2>2
    <3>4. j < i + 1 => g[j] < g[i + 1]
      BY <2>2, <3>3
    <3>5. j < i + 1 => FALSE
      BY <2>1, <2>2, <3>1, <3>3, <3>4
    <3>6. i + 1 < j => f[i + 1] < g[i + 1]
      BY <2>2, <3>1
    <3> QED
      BY <2>2, <3>1, <3>2, <3>5, <3>6
  <2>5. f[i + 1] = g[i + 1]
    BY <2>2, <2>3, <2>4
  <2>6. \A k \in 1..(i + 1) : k \in 1..i \/ k = i + 1
    BY <2>1
  <2> QED
    BY <2>1, <2>5, <2>6
<1>3. N \in SUBSET Nat
  OBVIOUS
<1> HIDE DEF N
<1>4. n \in N /\ m \in N
  BY <1>1, <1>2, <1>3, NumberInduction
<1>5. ~(n < m)
  <2> SUFFICES ASSUME n < m PROVE FALSE
    OBVIOUS
  <2>1. \A k \in 1..n : f[k] = g[k]
    BY <1>4 DEF N
  <2>2. n + 1 \in 1..m
    OBVIOUS
  <2>3. PICK i \in 1..n : f[i] = g[n + 1]
    BY <2>2
  <2>4. i \in 1..m /\ i < n + 1 /\ g[i] = g[n + 1]
    BY <2>1, <2>3
  <2>5. g[i] < g[n + 1] /\ g[n + 1] \in Int
    BY <2>2, <2>4
  <2> QED
    BY <2>4, <2>5
<1>6. ~(m < n)
  <2> SUFFICES ASSUME m < n PROVE FALSE
    OBVIOUS
  <2>1. \A k \in 1..m : f[k] = g[k]
    BY <1>4 DEF N
  <2>2. m + 1 \in 1..n
    OBVIOUS
  <2>3. PICK i \in 1..m : g[i] = f[m + 1]
    BY <2>2
  <2>4. i \in 1..n /\ i < m + 1 /\ f[i] = f[m + 1]
    BY <2>1, <2>3
  <2>5. f[i] < f[m + 1] /\ f[m + 1] \in Int
    BY <2>2, <2>4
  <2> QED
    BY <2>4, <2>5
<1> QED
  BY <1>4, <1>5, <1>6 DEF N

(* A sum over consecutive numbers, taken from either end of a sequence.    *)
LEMMA SumOfRange ==
  ASSUME NEW f, NEW n \in Nat, \A i \in 1..n : f[i] \in Int
  PROVE  /\ \A k \in 1..(n + 1) : \A m \in 0..n : SumFunctionOnSet(f, k..m) \in Int
         /\ \A k \in Int : \A m \in Int : m < k => SumFunctionOnSet(f, k..m) = 0
         /\ \A k \in 1..n : \A m \in 0..(n - 1) : k <= m + 1 =>
              SumFunctionOnSet(f, k..(m + 1)) = SumFunctionOnSet(f, k..m) + f[m + 1]
<1>1. \A k \in Int : \A m \in Int : IsFiniteSet(k..m)
  BY FS_Interval
<1>2. ASSUME NEW k \in 1..(n + 1), NEW m \in 0..n
      PROVE  SumFunctionOnSet(f, k..m) \in Int /\ \A i \in k..m : f[i] \in Int
  <2>1. IsFiniteSet(k..m) /\ \A i \in k..m : f[i] \in Int
    BY <1>1
  <2> QED
    BY <2>1, SumOfIntegers
<1>3. ASSUME NEW k \in Int, NEW m \in Int, m < k PROVE SumFunctionOnSet(f, k..m) = 0
  <2>1. k..m = {}
    BY <1>3
  <2>2. SumFunctionOnSet(f, {}) = 0
    <3>1. IsFiniteSet({})
      BY FS_EmptySet
    <3> QED
      BY <3>1, SumOne
  <2> QED
    BY <2>1, <2>2, Zenon
<1>4. ASSUME NEW k \in 1..n, NEW m \in 0..(n - 1), k <= m + 1
      PROVE  SumFunctionOnSet(f, k..(m + 1)) = SumFunctionOnSet(f, k..m) + f[m + 1]
  <2>1. k..(m + 1) = (k..m) \cup {m + 1} /\ m + 1 \notin k..m
    BY <1>4
  <2>2. IsFiniteSet(k..m) /\ (\A i \in k..m : f[i] \in Int) /\ f[m + 1] \in Int
    BY <1>1
  <2>3. SumFunctionOnSet(f, (k..m) \cup {m + 1}) = SumFunctionOnSet(f, k..m) + f[m + 1]
    <3>1. PICK R : R = k..m
      OBVIOUS
    <3>2. PICK x : x = m + 1
      OBVIOUS
    <3>3. IsFiniteSet(R) /\ (\A i \in R : f[i] \in Int) /\ f[x] \in Int /\ x \notin R
      BY <2>1, <2>2, <3>1, <3>2, Zenon
    <3>4. SumFunctionOnSet(f, R \cup {x}) = SumFunctionOnSet(f, R) + f[x]
      BY <3>3, SumAdd
    <3> QED
      BY <3>1, <3>2, <3>4, Zenon
  <2> QED
    BY <2>1, <2>3, Zenon
<1> QED
  BY <1>2, <1>3, <1>4

(* An account that never goes below 0 holds the largest sum of the latest  *)
(* movements.                                                              *)
LEMMA AccountPeak ==
  ASSUME NEW f, NEW n \in Nat, \A i \in 1..n : f[i] \in Int, NEW account, account[0] = 0,
         \A m \in 0..(n - 1) :
           account[m + 1] = IF account[m] + f[m + 1] < 0 THEN 0 ELSE account[m] + f[m + 1]
  PROVE  /\ \A k \in 1..(n + 1) : account[n] >= SumFunctionOnSet(f, k..n)
         /\ \E k \in 1..(n + 1) : account[n] = SumFunctionOnSet(f, k..n)
<1> DEFINE Sum(k, m) == SumFunctionOnSet(f, k..m)
           Peak(m) == /\ account[m] \in Int
                      /\ \A k \in 1..(m + 1) : account[m] >= Sum(k, m)
                      /\ \E k \in 1..(m + 1) : account[m] = Sum(k, m)
           T == {m \in Nat : m <= n => Peak(m)}
<1>0. /\ \A k \in 1..(n + 1) : \A m \in 0..n : Sum(k, m) \in Int
      /\ \A k \in Int : \A m \in Int : m < k => Sum(k, m) = 0
      /\ \A k \in 1..n : \A m \in 0..(n - 1) : k <= m + 1 => Sum(k, m + 1) = Sum(k, m) + f[m + 1]
  BY SumOfRange
<1> HIDE DEF Sum
<1>1. 0 \in T
  <2>1. Sum(1, 0) = 0
    BY <1>0
  <2> QED
    BY <2>1
<1>2. ASSUME NEW m \in T PROVE m + 1 \in T
  <2> SUFFICES ASSUME m + 1 <= n PROVE Peak(m + 1)
    OBVIOUS
  <2>1. m \in 0..(n - 1) /\ m \in Nat /\ Peak(m)
    OBVIOUS
  <2>2. f[m + 1] \in Int
    BY <2>1
  <2>3. account[m + 1] = IF account[m] + f[m + 1] < 0 THEN 0 ELSE account[m] + f[m + 1]
    BY <2>1
  <2>4. Sum(m + 2, m + 1) = 0
    BY <1>0, <2>1
  <2>5. \A k \in 1..(m + 1) : Sum(k, m + 1) = Sum(k, m) + f[m + 1] /\ Sum(k, m) \in Int
    BY <1>0, <2>1
  <2>6. \A k \in 1..(m + 2) : k \in 1..(m + 1) \/ k = m + 2
    BY <2>1
  <2>7. m + 2 \in 1..(m + 2) /\ \A k \in 1..(m + 1) : k \in 1..(m + 2)
    BY <2>1
  <2>8. account[m + 1] \in Int
    BY <2>1, <2>2, <2>3
  <2>9. \A k \in 1..(m + 2) : account[m + 1] >= Sum(k, m + 1)
    BY <2>1, <2>2, <2>3, <2>4, <2>5, <2>6
  <2>10. \E k \in 1..(m + 2) : account[m + 1] = Sum(k, m + 1)
    <3>1. CASE account[m] + f[m + 1] < 0
      BY <2>3, <2>4, <2>7, <3>1
    <3>2. CASE ~(account[m] + f[m + 1] < 0)
      <4>1. PICK k \in 1..(m + 1) : account[m] = Sum(k, m)
        BY <2>1
      <4>2. account[m + 1] = Sum(k, m + 1)
        BY <2>3, <2>5, <3>2, <4>1
      <4> QED
        BY <2>7, <4>1, <4>2
    <3> QED
      BY <3>1, <3>2
  <2>11. (m + 1) + 1 = m + 2
    BY <2>1
  <2> HIDE DEF T
  <2> QED
    BY <2>8, <2>9, <2>10, <2>11
<1>3. T \in SUBSET Nat
  OBVIOUS
<1> HIDE DEF T
<1>4. n \in T
  BY <1>1, <1>2, <1>3, NumberInduction
<1>5. Peak(n)
  BY <1>4 DEF T
<1> QED
  BY <1>5 DEF Sum

=============================================================================
