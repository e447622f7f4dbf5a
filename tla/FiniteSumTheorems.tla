------------------------- MODULE FiniteSumTheorems -------------------------
(***************************************************************************)
(* Facts about the sum of a function over a finite set, as the modules of  *)
(* the project form it with SumFunctionOnSet.  That operator is a fold: it *)
(* takes the elements out of the set one by one, in an order of its own.   *)
(*                                                                         *)
(* The inductions are stated as minimality: the strict subset order of a   *)
(* finite set is well founded, so that a set of counterexamples that is    *)
(* not empty has a smallest one.                                           *)
(***************************************************************************)
EXTENDS Integers, Functions, FiniteSetTheorems, TLAPS

(* Among subsets of a finite set there is a smallest. *)
LEMMA SmallestSubset ==
  ASSUME NEW S, IsFiniteSet(S), NEW B \in SUBSET SUBSET S, B # {}
  PROVE  \E m \in B : \A u \in B : u \subseteq m => u = m
<1>1. B \subseteq FiniteSubsetsOf(S)
  BY FS_FiniteSubsetsOfFinite
<1>2. IsWellFoundedOn(StrictSubsetOrdering(S), FiniteSubsetsOf(S))
  BY FS_StrictSubsetOrderingWellFounded
<1>3. PICK m \in B : \A u \in B : ~ (<<u, m>> \in StrictSubsetOrdering(S))
  BY <1>1, <1>2, WFMin
<1> QED
  BY <1>3 DEF StrictSubsetOrdering

(* Among natural numbers there is a smallest. *)
LEMMA SmallestNumber ==
  ASSUME NEW B \in SUBSET Nat, B # {}
  PROVE  \E m \in B : \A n \in B : m <= n
<1>1. PICK k \in B : TRUE
  OBVIOUS
<1> DEFINE C == {0 .. n : n \in {i \in B : i <= k}}
<1>2. IsFiniteSet(0 .. k)
  BY FS_Interval
<1>3. C \in SUBSET SUBSET (0 .. k) /\ C # {}
  <2>1. \A n \in {i \in B : i <= k} : 0 .. n \subseteq 0 .. k
    OBVIOUS
  <2>2. 0 .. k \in C
    OBVIOUS
  <2>3. ASSUME NEW c \in C PROVE c \in SUBSET (0 .. k)
    BY <2>1, <2>3
  <2> HIDE DEF C
  <2> QED
    BY <2>2, <2>3
<1>4. PICK c \in C : \A u \in C : u \subseteq c => u = c
  <2> DEFINE I == 0 .. k
  <2>1. IsFiniteSet(I) /\ C \in SUBSET SUBSET I /\ C # {}
    BY <1>2, <1>3
  <2> HIDE DEF C, I
  <2> QED
    BY <2>1, SmallestSubset, SMT
<1>5. PICK m \in B : m <= k /\ c = 0 .. m
  BY <1>4
<1>6. ASSUME NEW n \in B, n < m
      PROVE  FALSE
  <2>1. 0 .. n \in C /\ 0 .. n \subseteq c /\ m \in c /\ m \notin 0 .. n
    BY <1>5, <1>6
  <2> QED
    BY <1>4, <2>1
<1> QED
  BY <1>6

(* What holds of the empty set and is kept when an element is added holds of every
   finite set: good is the set of subsets it holds of. *)
LEMMA GrowingSubsets ==
  ASSUME NEW S, IsFiniteSet(S), NEW good \in SUBSET SUBSET S, {} \in good,
         \A T \in good : \A x \in S \ T : T \union {x} \in good
  PROVE  S \in good
<1> DEFINE B == (SUBSET S) \ good
<1>1. ASSUME NEW m \in B, \A u \in B : u \subseteq m => u = m
      PROVE  FALSE
  <2>1. PICK x \in m : TRUE
    OBVIOUS
  <2>2. m \ {x} \in good
    BY <1>1
  <2>3. (m \ {x}) \union {x} = m /\ x \in S \ (m \ {x})
    OBVIOUS
  <2> QED
    BY <2>2, <2>3
<1>2. B = {}
  <2> HIDE DEF B
  <2>1. B \in SUBSET SUBSET S
    BY DEF B
  <2> QED
    BY <1>1, <2>1, SmallestSubset
<1> QED
  BY <1>2

-----------------------------------------------------------------------------
(* The fold takes out this element. *)
Pick(s) == CHOOSE x \in s : TRUE

(* A table of the fold's results for the sets of a family. *)
Folded(f, family, it) ==
  it = [s \in family |-> IF s = {} THEN 0 ELSE f[Pick(s)] + it[s \ {Pick(s)}]]

(* The library's fold is such a table's value. *)
LEMMA SumIsFolded ==
  ASSUME NEW f, NEW S
  PROVE  SumFunctionOnSet(f, S) = (CHOOSE it : Folded(f, SUBSET S, it))[S]
BY DEF SumFunctionOnSet, FoldFunctionOnSet, MapThenFoldSet, Folded, Pick

(* An element is picked out of a set that is not empty. *)
LEMMA PickIn == \A s : s # {} => Pick(s) \in s
BY DEF Pick

(* There is such a table for the subsets of a finite set. *)
LEMMA FoldedExists ==
  ASSUME NEW f, NEW S, IsFiniteSet(S)
  PROVE  \E it : Folded(f, SUBSET S, it)
<1> DEFINE Small(n) == {s \in SUBSET S : Cardinality(s) <= n}
           Bad == {n \in Nat : ~ \E it : Folded(f, Small(n), it)}
<1>1. Cardinality(S) \in Nat /\ \A s \in SUBSET S : IsFiniteSet(s) /\ Cardinality(s) \in Nat
                                                   /\ Cardinality(s) <= Cardinality(S)
  BY FS_Subset, FS_CardinalityType
<1>2. ASSUME NEW m \in Bad, \A n \in Bad : m <= n
      PROVE  FALSE
  <2> DEFINE smaller == CHOOSE it : Folded(f, Small(m - 1), it)
             table == [s \in Small(m) |-> IF s = {} THEN 0
                                          ELSE f[Pick(s)] + smaller[s \ {Pick(s)}]]
  <2>1. ASSUME NEW s \in Small(m), s # {}
        PROVE  /\ s \ {Pick(s)} \in Small(m - 1) /\ s \ {Pick(s)} \in Small(m)
               /\ m - 1 \in Nat
    <3>1. /\ IsFiniteSet(s) /\ Pick(s) \in s /\ Cardinality(s) \in Nat /\ Cardinality(s) # 0
          /\ Cardinality(s \ {Pick(s)}) = Cardinality(s) - 1
      BY <1>1, <2>1, PickIn, FS_RemoveElement, FS_EmptySet
    <3> QED
      BY <3>1
  <2>2. ASSUME NEW s \in Small(m), s # {}
        PROVE  table[s \ {Pick(s)}] = smaller[s \ {Pick(s)}]
    <3>1. Folded(f, Small(m - 1), smaller)
      <4>1. m - 1 \notin Bad
        <5>1. m \in Nat /\ m - 1 \in Nat
          BY <2>1, <2>2
        <5> HIDE DEF Bad
        <5> QED
          BY <1>2, <5>1
      <4> QED
        BY <2>1, <2>2, <4>1
    <3> DEFINE t == s \ {Pick(s)}
    <3>2. t \in Small(m - 1) /\ t \in Small(m)
      BY <2>1, <2>2
    <3>3. smaller[t] = IF t = {} THEN 0 ELSE f[Pick(t)] + smaller[t \ {Pick(t)}]
      <4> HIDE DEF smaller, Small, t
      <4> QED
        BY <3>1, <3>2 DEF Folded
    <3>4. table[t] = IF t = {} THEN 0 ELSE f[Pick(t)] + smaller[t \ {Pick(t)}]
      <4> HIDE DEF smaller, Small, t
      <4> QED
        BY <3>2
    <3> QED
      BY <3>3, <3>4
  <2>3. Folded(f, Small(m), table)
    <3>1. \A s \in Small(m) :
            s # {} => f[Pick(s)] + table[s \ {Pick(s)}] = f[Pick(s)] + smaller[s \ {Pick(s)}]
      BY <2>2
    <3>2. table = [s \in Small(m) |-> IF s = {} THEN 0
                                      ELSE f[Pick(s)] + smaller[s \ {Pick(s)}]]
      OBVIOUS
    <3> HIDE DEF smaller, Small, table
    <3>3. table = [s \in Small(m) |-> IF s = {} THEN 0
                                      ELSE f[Pick(s)] + table[s \ {Pick(s)}]]
      BY <3>1, <3>2
    <3> QED
      BY <3>3 DEF Folded
  <2> QED
    BY <2>3
<1>3. Bad = {}
  <2> HIDE DEF Bad
  <2>1. Bad \subseteq Nat
    BY DEF Bad
  <2> QED
    BY <1>2, <2>1, SmallestNumber
<1>4. Small(Cardinality(S)) = SUBSET S
  BY <1>1
<1> QED
  BY <1>1, <1>3, <1>4

(* All tables agree. *)
LEMMA FoldedUnique ==
  ASSUME NEW f, NEW S, IsFiniteSet(S), NEW T \in SUBSET S, NEW it1, NEW it2,
         Folded(f, SUBSET S, it1), Folded(f, SUBSET T, it2)
  PROVE  it1[T] = it2[T]
<1> DEFINE Bad == {s \in SUBSET T : it1[s] # it2[s]}
<1>1. ASSUME NEW s \in Bad, \A u \in Bad : u \subseteq s => u = s
      PROVE  FALSE
  <2>1. /\ it1[s] = IF s = {} THEN 0 ELSE f[Pick(s)] + it1[s \ {Pick(s)}]
        /\ it2[s] = IF s = {} THEN 0 ELSE f[Pick(s)] + it2[s \ {Pick(s)}]
    BY DEF Folded
  <2>2. s # {} => it1[s \ {Pick(s)}] = it2[s \ {Pick(s)}]
    BY <1>1, PickIn
  <2> QED
    BY <2>1, <2>2
<1>2. Bad = {}
  <2> HIDE DEF Bad
  <2>1. Bad \in SUBSET SUBSET T
    BY DEF Bad
  <2>2. IsFiniteSet(T)
    BY FS_Subset
  <2> QED
    BY <1>1, <2>1, <2>2, SmallestSubset
<1> QED
  BY <1>2

(* The sum over no element, and the first element the fold takes out. *)
LEMMA SumFolds ==
  ASSUME NEW f, NEW S, IsFiniteSet(S)
  PROVE  /\ S = {} => SumFunctionOnSet(f, S) = 0
         /\ S # {} => /\ Pick(S) \in S
                      /\ SumFunctionOnSet(f, S) =
                           f[Pick(S)] + SumFunctionOnSet(f, S \ {Pick(S)})
<1> DEFINE all == CHOOSE it : Folded(f, SUBSET S, it)
           T == S \ {Pick(S)}
           rest == CHOOSE it : Folded(f, SUBSET T, it)
<1>1. Folded(f, SUBSET S, all) /\ SumFunctionOnSet(f, S) = all[S]
  BY FoldedExists, SumIsFolded
<1>2. IsFiniteSet(T) /\ T \in SUBSET S
  BY FS_Subset
<1>3. Folded(f, SUBSET T, rest) /\ SumFunctionOnSet(f, T) = rest[T]
  BY <1>2, FoldedExists, SumIsFolded
<1> HIDE DEF all, rest
<1>4. all[S] = IF S = {} THEN 0 ELSE f[Pick(S)] + all[T]
  BY <1>1 DEF Folded
<1>5. all[T] = rest[T]
  BY <1>1, <1>2, <1>3, FoldedUnique
<1> QED
  BY <1>1, <1>3, <1>4, <1>5, PickIn

(* The sum over no element. *)
LEMMA SumEmpty ==
  ASSUME NEW f
  PROVE  SumFunctionOnSet(f, {}) = 0
BY SumFolds, FS_EmptySet

(* The sum of integers is one. *)
LEMMA SumType ==
  ASSUME NEW S, IsFiniteSet(S), NEW f, \A x \in S : f[x] \in Int
  PROVE  SumFunctionOnSet(f, S) \in Int
<1> DEFINE B == {s \in SUBSET S : SumFunctionOnSet(f, s) \notin Int}
<1>1. ASSUME NEW m \in B, \A u \in B : u \subseteq m => u = m
      PROVE  FALSE
  <2>1. IsFiniteSet(m)
    BY FS_Subset
  <2>2. m # {}
    BY SumEmpty
  <2>3. SumFunctionOnSet(f, m \ {Pick(m)}) \in Int
    BY <1>1, <2>2, PickIn
  <2>4. SumFunctionOnSet(f, m) = f[Pick(m)] + SumFunctionOnSet(f, m \ {Pick(m)}) /\ Pick(m) \in m
    BY <2>1, <2>2, SumFolds
  <2> QED
    BY <2>3, <2>4
<1>2. B = {}
  <2> HIDE DEF B
  <2>1. B \in SUBSET SUBSET S
    BY DEF B
  <2> QED
    BY <1>1, <2>1, SmallestSubset
<1> QED
  BY <1>2

(* Any element can be taken out first. *)
LEMMA SumWithout ==
  ASSUME NEW S, IsFiniteSet(S), NEW f, \A x \in S : f[x] \in Int, NEW x \in S
  PROVE  SumFunctionOnSet(f, S) = f[x] + SumFunctionOnSet(f, S \ {x})
<1> DEFINE Sum(s) == SumFunctionOnSet(f, s)
           B == {s \in SUBSET S : \E y \in s : Sum(s) # f[y] + Sum(s \ {y})}
<1>1. ASSUME NEW m \in B, \A u \in B : u \subseteq m => u = m
      PROVE  FALSE
  <2>1. PICK y \in m : Sum(m) # f[y] + Sum(m \ {y})
    OBVIOUS
  <2> DEFINE c == Pick(m)
  <2>2. IsFiniteSet(m) /\ IsFiniteSet(m \ {c}) /\ IsFiniteSet(m \ {y})
        /\ IsFiniteSet((m \ {y}) \ {c})
    BY FS_Subset
  <2>3. c \in m /\ Sum(m) = f[c] + Sum(m \ {c})
    BY <2>1, <2>2, SumFolds
  <2>4. y # c
    BY <2>1, <2>3
  <2>5. Sum(m \ {c}) = f[y] + Sum((m \ {c}) \ {y})
    <3>1. m \ {c} \notin B
      BY <1>1, <2>3
    <3> QED
      BY <2>4, <3>1
  <2>6. Sum(m \ {y}) = f[c] + Sum((m \ {y}) \ {c})
    <3>1. m \ {y} \notin B
      BY <1>1, <2>1
    <3> QED
      BY <2>3, <2>4, <3>1
  <2>7. (m \ {c}) \ {y} = (m \ {y}) \ {c}
    OBVIOUS
  <2>8. f[c] \in Int /\ f[y] \in Int /\ Sum((m \ {y}) \ {c}) \in Int
    BY <2>2, <2>3, SumType
  <2> DEFINE rest == Sum((m \ {y}) \ {c})
  <2>9. Sum(m) = f[c] + (f[y] + rest) /\ Sum(m) # f[y] + (f[c] + rest) /\ rest \in Int
    BY <2>1, <2>3, <2>5, <2>6, <2>7, <2>8, Zenon
  <2> HIDE DEF rest
  <2> QED
    BY <2>8, <2>9
<1>2. B = {}
  <2> HIDE DEF B
  <2>1. B \in SUBSET SUBSET S
    BY DEF B
  <2> QED
    BY <1>1, <2>1, SmallestSubset
<1> QED
  BY <1>2

(* One more element. *)
LEMMA SumWith ==
  ASSUME NEW S, IsFiniteSet(S), NEW x, x \notin S, NEW f, \A y \in S \union {x} : f[y] \in Int
  PROVE  SumFunctionOnSet(f, S \union {x}) = SumFunctionOnSet(f, S) + f[x]
<1>1. IsFiniteSet(S \union {x}) /\ (S \union {x}) \ {x} = S
  BY FS_AddElement
<1>2. SumFunctionOnSet(f, S \union {x}) = f[x] + SumFunctionOnSet(f, S)
  BY <1>1, SumWithout
<1>3. SumFunctionOnSet(f, S) \in Int /\ f[x] \in Int
  BY SumType
<1> QED
  BY <1>2, <1>3

-----------------------------------------------------------------------------
(* A sum is no larger than that of larger terms. *)
LEMMA SumMonotone ==
  ASSUME NEW S, IsFiniteSet(S), NEW f, NEW g,
         \A x \in S : f[x] \in Int /\ g[x] \in Int /\ f[x] <= g[x]
  PROVE  SumFunctionOnSet(f, S) <= SumFunctionOnSet(g, S)
<1> DEFINE good == {T \in SUBSET S : SumFunctionOnSet(f, T) <= SumFunctionOnSet(g, T)}
<1>1. {} \in good
  BY SumEmpty
<1>2. ASSUME NEW T \in good, NEW x \in S \ T
      PROVE  T \union {x} \in good
  <2>1. IsFiniteSet(T)
    BY FS_Subset
  <2>2. /\ SumFunctionOnSet(f, T \union {x}) = SumFunctionOnSet(f, T) + f[x]
        /\ SumFunctionOnSet(g, T \union {x}) = SumFunctionOnSet(g, T) + g[x]
    BY <2>1, SumWith
  <2>3. SumFunctionOnSet(f, T) \in Int /\ SumFunctionOnSet(g, T) \in Int
    BY <2>1, SumType
  <2> QED
    BY <2>2, <2>3
<1>3. good \in SUBSET SUBSET S
  OBVIOUS
<1>4. S \in good
  <2> HIDE DEF good
  <2> QED
    BY <1>1, <1>2, <1>3, GrowingSubsets
<1> QED
  BY <1>4

(* The sum depends on the terms only. *)
LEMMA SumAgrees ==
  ASSUME NEW S, IsFiniteSet(S), NEW f, NEW g, \A x \in S : f[x] \in Int /\ f[x] = g[x]
  PROVE  SumFunctionOnSet(f, S) = SumFunctionOnSet(g, S)
<1>1. /\ SumFunctionOnSet(f, S) <= SumFunctionOnSet(g, S)
      /\ SumFunctionOnSet(g, S) <= SumFunctionOnSet(f, S)
  BY SumMonotone
<1>2. SumFunctionOnSet(f, S) \in Int /\ SumFunctionOnSet(g, S) \in Int
  BY SumType
<1> QED
  BY <1>1, <1>2

(* The sum of terms of the same value. *)
LEMMA SumConstant ==
  ASSUME NEW S, IsFiniteSet(S), NEW f, NEW c \in Int, \A x \in S : f[x] = c
  PROVE  SumFunctionOnSet(f, S) = Cardinality(S) * c
<1> DEFINE good == {T \in SUBSET S : SumFunctionOnSet(f, T) = Cardinality(T) * c}
<1>1. {} \in good
  BY SumEmpty, FS_EmptySet
<1>2. ASSUME NEW T \in good, NEW x \in S \ T
      PROVE  T \union {x} \in good
  <2>1. IsFiniteSet(T) /\ Cardinality(T) \in Nat
    BY FS_Subset, FS_CardinalityType
  <2>2. SumFunctionOnSet(f, T \union {x}) = SumFunctionOnSet(f, T) + c
    <3>1. x \notin T /\ f[x] = c /\ \A y \in T \union {x} : f[y] \in Int
      OBVIOUS
    <3>2. SumFunctionOnSet(f, T \union {x}) = SumFunctionOnSet(f, T) + f[x]
      BY <2>1, <3>1, SumWith
    <3> QED
      BY <3>1, <3>2
  <2>3. Cardinality(T \union {x}) = Cardinality(T) + 1
    BY <2>1, FS_AddElement
  <2>4. \A n \in Nat : (n + 1) * c = n * c + c
    OBVIOUS
  <2> QED
    BY <2>1, <2>2, <2>3, <2>4
<1>3. good \in SUBSET SUBSET S
  OBVIOUS
<1>4. S \in good
  <2> HIDE DEF good
  <2> QED
    BY <1>1, <1>2, <1>3, GrowingSubsets
<1> QED
  BY <1>4

(* The terms added one by one. *)
LEMMA SumOfSums ==
  ASSUME NEW S, IsFiniteSet(S), NEW f, NEW g, NEW h,
         \A x \in S : f[x] \in Int /\ g[x] \in Int /\ h[x] = f[x] + g[x]
  PROVE  SumFunctionOnSet(h, S) = SumFunctionOnSet(f, S) + SumFunctionOnSet(g, S)
<1> DEFINE good == {T \in SUBSET S : SumFunctionOnSet(h, T) =
                                        SumFunctionOnSet(f, T) + SumFunctionOnSet(g, T)}
<1>1. {} \in good
  BY SumEmpty
<1>2. ASSUME NEW T \in good, NEW x \in S \ T
      PROVE  T \union {x} \in good
  <2>1. IsFiniteSet(T)
    BY FS_Subset
  <2>2. /\ SumFunctionOnSet(f, T \union {x}) = SumFunctionOnSet(f, T) + f[x]
        /\ SumFunctionOnSet(g, T \union {x}) = SumFunctionOnSet(g, T) + g[x]
        /\ SumFunctionOnSet(h, T \union {x}) = SumFunctionOnSet(h, T) + h[x]
    <3>1. x \notin T /\ \A y \in T \union {x} : f[y] \in Int /\ g[y] \in Int /\ h[y] \in Int
      OBVIOUS
    <3>2. SumFunctionOnSet(f, T \union {x}) = SumFunctionOnSet(f, T) + f[x]
      BY <2>1, <3>1, SumWith
    <3>3. SumFunctionOnSet(g, T \union {x}) = SumFunctionOnSet(g, T) + g[x]
      BY <2>1, <3>1, SumWith
    <3>4. SumFunctionOnSet(h, T \union {x}) = SumFunctionOnSet(h, T) + h[x]
      BY <2>1, <3>1, SumWith
    <3> QED
      BY <3>2, <3>3, <3>4
  <2>3. SumFunctionOnSet(f, T) \in Int /\ SumFunctionOnSet(g, T) \in Int
    BY <2>1, SumType
  <2> QED
    BY <2>2, <2>3
<1>3. good \in SUBSET SUBSET S
  OBVIOUS
<1>4. S \in good
  <2> HIDE DEF good
  <2> QED
    BY <1>1, <1>2, <1>3, GrowingSubsets
<1> QED
  BY <1>4

(* The sum over two sets that share nothing. *)
LEMMA SumUnion ==
  ASSUME NEW S, IsFiniteSet(S), NEW R, IsFiniteSet(R), R \intersect S = {}, NEW f,
         \A x \in R \union S : f[x] \in Int
  PROVE  SumFunctionOnSet(f, R \union S) = SumFunctionOnSet(f, R) + SumFunctionOnSet(f, S)
<1> DEFINE good == {T \in SUBSET S : SumFunctionOnSet(f, R \union T) =
                                        SumFunctionOnSet(f, R) + SumFunctionOnSet(f, T)}
<1>1. {} \in good
  BY SumEmpty, SumType
<1>2. ASSUME NEW T \in good, NEW x \in S \ T
      PROVE  T \union {x} \in good
  <2>1. IsFiniteSet(T) /\ IsFiniteSet(R \union T) /\ x \notin R \union T
    BY FS_Subset, FS_Union
  <2>2. SumFunctionOnSet(f, T \union {x}) = SumFunctionOnSet(f, T) + f[x]
    BY <2>1, SumWith
  <2>3. SumFunctionOnSet(f, (R \union T) \union {x}) = SumFunctionOnSet(f, R \union T) + f[x]
    BY <2>1, SumWith
  <2>4. /\ SumFunctionOnSet(f, T) \in Int /\ SumFunctionOnSet(f, R) \in Int /\ f[x] \in Int
        /\ R \union (T \union {x}) = (R \union T) \union {x}
    BY <2>1, SumType
  <2>5. SumFunctionOnSet(f, R \union T) = SumFunctionOnSet(f, R) + SumFunctionOnSet(f, T)
    OBVIOUS
  <2>6. SumFunctionOnSet(f, R \union (T \union {x})) =
          SumFunctionOnSet(f, R) + SumFunctionOnSet(f, T \union {x})
    <3>1. R \union (T \union {x}) = (R \union T) \union {x}
      OBVIOUS
    <3>2. SumFunctionOnSet(f, R \union (T \union {x})) = SumFunctionOnSet(f, R \union T) + f[x]
      BY <2>3, <3>1, Zenon
    <3> HIDE DEF good
    <3> QED
      BY <2>2, <2>4, <2>5, <3>2
  <2> QED
    BY <2>6
<1>3. good \in SUBSET SUBSET S
  OBVIOUS
<1>4. S \in good
  <2> HIDE DEF good
  <2> QED
    BY <1>1, <1>2, <1>3, GrowingSubsets
<1> QED
  BY <1>4

(* A sum of natural numbers is one, and that over fewer elements is no larger. *)
LEMMA SumOfSubset ==
  ASSUME NEW S, IsFiniteSet(S), NEW T \in SUBSET S, NEW f, \A x \in S : f[x] \in Nat
  PROVE  /\ SumFunctionOnSet(f, S) \in Nat
         /\ SumFunctionOnSet(f, T) <= SumFunctionOnSet(f, S)
<1>1. ASSUME NEW R \in SUBSET S
      PROVE  IsFiniteSet(R) /\ SumFunctionOnSet(f, R) \in Nat
  <2> DEFINE zero == [x \in R |-> 0]
  <2>1. IsFiniteSet(R)
    BY FS_Subset
  <2>2. SumFunctionOnSet(zero, R) = 0
    <3>1. \A x \in R : zero[x] = 0
      OBVIOUS
    <3> HIDE DEF zero
    <3>2. SumFunctionOnSet(zero, R) = Cardinality(R) * 0
      BY <2>1, <3>1, SumConstant
    <3> QED
      BY <2>1, <3>2, FS_CardinalityType
  <2>3. \A x \in R : zero[x] \in Int /\ f[x] \in Int /\ zero[x] <= f[x]
    OBVIOUS
  <2> HIDE DEF zero
  <2>4. SumFunctionOnSet(zero, R) <= SumFunctionOnSet(f, R)
    BY <2>1, <2>3, SumMonotone
  <2>5. SumFunctionOnSet(f, R) \in Int
    BY <2>1, SumType
  <2> QED
    BY <2>1, <2>2, <2>4, <2>5
<1> DEFINE rest == S \ T
<1>2. rest \in SUBSET S /\ T \union rest = S /\ T \intersect rest = {}
  OBVIOUS
<1>3. SumFunctionOnSet(f, T \union rest) = SumFunctionOnSet(f, T) + SumFunctionOnSet(f, rest)
  <2> HIDE DEF rest
  <2>1. IsFiniteSet(T) /\ IsFiniteSet(rest) /\ \A x \in T \union rest : f[x] \in Int
    BY <1>1, <1>2
  <2> QED
    BY <1>2, <2>1, SumUnion
<1> HIDE DEF rest
<1> QED
  BY <1>1, <1>2, <1>3

(* The same terms under other names: f names y what g names to[y]. *)
LEMMA SumRenamed ==
  ASSUME NEW S, IsFiniteSet(S), NEW f, NEW g, NEW to,
         \A x \in S : f[x] \in Int /\ g[to[x]] = f[x],
         \A x, y \in S : to[x] = to[y] => x = y
  PROVE  LET image == {to[x] : x \in S} IN
         IsFiniteSet(image) /\ SumFunctionOnSet(g, image) = SumFunctionOnSet(f, S)
<1> DEFINE Image(T) == {to[x] : x \in T}
           good == {T \in SUBSET S : IsFiniteSet(Image(T)) /\
                                      SumFunctionOnSet(g, Image(T)) = SumFunctionOnSet(f, T)}
<1>1. {} \in good
  <2>1. Image({}) = {}
    OBVIOUS
  <2> QED
    BY <2>1, SumEmpty, FS_EmptySet
<1>2. ASSUME NEW T \in good, NEW x \in S \ T
      PROVE  T \union {x} \in good
  <2>1. IsFiniteSet(T) /\ IsFiniteSet(Image(T))
    BY FS_Subset
  <2>2. SumFunctionOnSet(f, T \union {x}) = SumFunctionOnSet(f, T) + f[x]
    <3>1. IsFiniteSet(T) /\ x \notin T /\ \A y \in T \union {x} : f[y] \in Int
      BY <2>1
    <3> HIDE DEF good, Image
    <3> QED
      BY ONLY <3>1, SumWith
  <2>3. Image(T \union {x}) = Image(T) \union {to[x]} /\ to[x] \notin Image(T)
        /\ \A z \in Image(T) \union {to[x]} : g[z] \in Int
    OBVIOUS
  <2>4. IsFiniteSet(Image(T) \union {to[x]})
    BY <2>1, FS_AddElement
  <2>5. SumFunctionOnSet(g, Image(T) \union {to[x]}) = SumFunctionOnSet(g, Image(T)) + g[to[x]]
    <3> DEFINE I == Image(T)
               y == to[x]
    <3>1. IsFiniteSet(I) /\ y \notin I /\ \A z \in I \union {y} : g[z] \in Int
      BY <2>1, <2>3
    <3> HIDE DEF I, y
    <3>2. SumFunctionOnSet(g, I \union {y}) = SumFunctionOnSet(g, I) + g[y]
      BY <3>1, SumWith
    <3> QED
      BY <3>2 DEF I, y
  <2> QED
    BY <2>2, <2>3, <2>4, <2>5
<1>3. good \in SUBSET SUBSET S
  OBVIOUS
<1>4. S \in good
  <2> HIDE DEF good
  <2> QED
    BY <1>1, <1>2, <1>3, GrowingSubsets
<1> QED
  BY <1>4

(* The sums over parts that share nothing add up to that over all of them. *)
LEMMA SumOfParts ==
  ASSUME NEW S, IsFiniteSet(S), NEW R, IsFiniteSet(R), NEW part,
         \A x \in S : part[x] \in SUBSET R,
         \A x, y \in S : x # y => part[x] \intersect part[y] = {},
         NEW f, \A r \in R : f[r] \in Int,
         NEW g, \A x \in S : g[x] = SumFunctionOnSet(f, part[x])
  PROVE  SumFunctionOnSet(g, S) = SumFunctionOnSet(f, UNION {part[x] : x \in S})
<1> DEFINE All(T) == UNION {part[x] : x \in T}
           good == {T \in SUBSET S : SumFunctionOnSet(g, T) = SumFunctionOnSet(f, All(T))}
<1>1. {} \in good
  <2>1. All({}) = {}
    OBVIOUS
  <2> QED
    BY <2>1, SumEmpty
<1>2. ASSUME NEW T \in good, NEW x \in S \ T
      PROVE  T \union {x} \in good
  <2> DEFINE p == part[x]
             rest == All(T)
  <2>1. T \in SUBSET S /\ x \in S /\ x \notin T
    OBVIOUS
  <2>2. All(T \union {x}) = rest \union p
    OBVIOUS
  <2>3. p \in SUBSET R /\ rest \in SUBSET R
    BY <2>1
  <2>4. p \intersect rest = {}
    BY <2>1
  <2> HIDE DEF p, rest
  <2>5. IsFiniteSet(p) /\ IsFiniteSet(rest) /\ rest \intersect p = {}
        /\ \A r \in rest \union p : f[r] \in Int
    BY <2>3, <2>4, FS_Subset
  <2>6. SumFunctionOnSet(f, rest \union p) = SumFunctionOnSet(f, rest) + SumFunctionOnSet(f, p)
    BY <2>5, SumUnion
  <2>7. \A y \in S : g[y] \in Int
    <3> SUFFICES ASSUME NEW y \in S PROVE g[y] \in Int
      OBVIOUS
    <3>1. IsFiniteSet(part[y]) /\ \A r \in part[y] : f[r] \in Int
      BY FS_Subset
    <3> QED
      BY <3>1, SumType
  <2>8. SumFunctionOnSet(g, T \union {x}) = SumFunctionOnSet(g, T) + g[x]
    <3>1. IsFiniteSet(T) /\ \A y \in T \union {x} : g[y] \in Int
      BY <2>1, <2>7, FS_Subset
    <3> QED
      BY <2>1, <3>1, SumWith
  <2>9. SumFunctionOnSet(g, T) = SumFunctionOnSet(f, rest)
    BY DEF rest
  <2>10. g[x] = SumFunctionOnSet(f, p)
    BY DEF p
  <2> QED
    BY <2>1, <2>2, <2>6, <2>8, <2>9, <2>10
<1>3. good \in SUBSET SUBSET S
  OBVIOUS
<1>4. S \in good
  <2> HIDE DEF good
  <2> QED
    BY <1>1, <1>2, <1>3, GrowingSubsets
<1> QED
  BY <1>4

(* Of two choices of as many terms, the one has the larger sum whose own terms are
   above a threshold that those of the other are below. *)
LEMMA SumOfChoices ==
  ASSUME NEW S, IsFiniteSet(S), NEW T, IsFiniteSet(T), Cardinality(S) = Cardinality(T),
         NEW f, \A x \in S \union T : f[x] \in Int, NEW t \in Int,
         \A x \in S \ T : f[x] <= t, \A x \in T \ S : t <= f[x]
  PROVE  SumFunctionOnSet(f, S) <= SumFunctionOnSet(f, T)
<1> DEFINE both == S \intersect T
           onlyS == S \ T
           onlyT == T \ S
           bound == [x \in S \union T |-> t]
<1>1. IsFiniteSet(both) /\ IsFiniteSet(onlyS) /\ IsFiniteSet(onlyT)
  BY FS_Subset
<1>2. Cardinality(onlyS) = Cardinality(onlyT) /\ Cardinality(onlyS) \in Nat
  <2>1. T \intersect S = S \intersect T
    OBVIOUS
  <2>2. /\ Cardinality(onlyS) = Cardinality(S) - Cardinality(S \intersect T)
        /\ Cardinality(onlyT) = Cardinality(T) - Cardinality(T \intersect S)
    BY FS_Difference
  <2>3. Cardinality(onlyS) \in Nat
    BY <1>1, FS_CardinalityType
  <2> HIDE DEF onlyS, onlyT
  <2> QED
    BY <2>1, <2>2, <2>3
<1>3. S = both \union onlyS /\ T = both \union onlyT
      /\ both \intersect onlyS = {} /\ both \intersect onlyT = {}
      /\ (\A x \in both \union onlyS : f[x] \in Int) /\ (\A x \in both \union onlyT : f[x] \in Int)
  OBVIOUS
<1>4. \A x \in onlyS : f[x] \in Int /\ bound[x] \in Int /\ f[x] <= bound[x] /\ bound[x] = t
  OBVIOUS
<1>5. \A x \in onlyT : f[x] \in Int /\ bound[x] \in Int /\ bound[x] <= f[x] /\ bound[x] = t
  OBVIOUS
<1> HIDE DEF both, onlyS, onlyT, bound
<1>6. /\ SumFunctionOnSet(f, S) = SumFunctionOnSet(f, both) + SumFunctionOnSet(f, onlyS)
      /\ SumFunctionOnSet(f, T) = SumFunctionOnSet(f, both) + SumFunctionOnSet(f, onlyT)
  BY <1>1, <1>3, SumUnion
<1>7. /\ SumFunctionOnSet(f, onlyS) <= SumFunctionOnSet(bound, onlyS)
      /\ SumFunctionOnSet(bound, onlyT) <= SumFunctionOnSet(f, onlyT)
  BY <1>1, <1>4, <1>5, SumMonotone
<1>8. SumFunctionOnSet(bound, onlyS) = SumFunctionOnSet(bound, onlyT)
  <2>1. /\ SumFunctionOnSet(bound, onlyS) = Cardinality(onlyS) * t
        /\ SumFunctionOnSet(bound, onlyT) = Cardinality(onlyT) * t
    BY <1>1, <1>4, <1>5, SumConstant
  <2> QED
    BY <1>2, <2>1
<1>9. /\ SumFunctionOnSet(f, both) \in Int
      /\ SumFunctionOnSet(f, onlyS) \in Int /\ SumFunctionOnSet(f, onlyT) \in Int
      /\ SumFunctionOnSet(bound, onlyS) \in Int
  BY <1>1, <1>3, <1>4, <1>5, SumType
<1> QED
  BY <1>6, <1>7, <1>8, <1>9
=============================================================================
