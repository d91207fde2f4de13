----------------------------- MODULE CommonFacts -----------------------------
(***************************************************************************)
(* Facts several of the proofs need: the least and greatest of numbers,    *)
(* sums of functions over finite sets, which bounds and scores are, the    *)
(* blocks of posting lists, numbers in order, what comes of sequences one  *)
(* after the other, counting and sorting, sequences with a piece replaced, *)
(* and what one insertion does to a queue of results.                      *)
(*                                                                         *)
(* The two principles of induction speak of a set of numbers or of sets,   *)
(* not of a predicate: the set stands for those of which something is to   *)
(* be shown.                                                               *)
(***************************************************************************)
EXTENDS WandData, SequencesExt, FiniteSetTheorems, SequenceTheorems, TLAPS

\* Of natural numbers there is a least one.
LEMMA LeastNatural ==
  ASSUME NEW S \in SUBSET Nat, S # {}
  PROVE  \E n \in S : \A m \in S : n <= m
<1> DEFINE T == {0..n : n \in S}
<1>1. IsWellFoundedOn(StrictSubsetOrdering(Nat), FiniteSubsetsOf(Nat))
  BY FS_StrictSubsetOrderingWellFounded
<1>2. T \subseteq FiniteSubsetsOf(Nat) /\ T # {}
  <2>1. \A n \in S : 0..n \in SUBSET Nat /\ IsFiniteSet(0..n)
    BY FS_Interval
  <2>2. \A n \in S : 0..n \in FiniteSubsetsOf(Nat)
    BY <2>1, Zenon DEF FiniteSubsetsOf
  <2> QED BY <2>2
<1>3. PICK x \in T : \A y \in T : <<y, x>> \notin StrictSubsetOrdering(Nat)
  <2> HIDE DEF T
  <2> QED BY <1>1, <1>2, WFMin
<1>4. PICK n \in S : x = 0..n
  BY <1>3
<1>5. ASSUME NEW m \in S, ~(n <= m) PROVE FALSE
  <2>1. 0..m \in T
    OBVIOUS
  <2>2. 0..m \subseteq 0..n /\ 0..m # 0..n
    BY <1>5
  <2>3. <<0..m, 0..n>> \in StrictSubsetOrdering(Nat)
    BY <2>2 DEF StrictSubsetOrdering
  <2> QED BY <1>3, <1>4, <2>1, <2>3
<1> QED BY <1>5

\* A set with 0 and the successors of its numbers has all natural numbers.
LEMMA SetOfNaturals ==
  ASSUME NEW S, 0 \in S, \A n \in Nat : n \in S => n + 1 \in S
  PROVE  \A n \in Nat : n \in S
<1> SUFFICES ASSUME Nat \ S # {} PROVE FALSE
  OBVIOUS
<1>1. PICK n \in Nat \ S : \A m \in Nat \ S : n <= m
  BY LeastNatural
<1>2. n # 0 /\ n - 1 \in Nat
  BY <1>1
<1>3. n - 1 \in S
  BY <1>1, <1>2
<1>4. (n - 1) + 1 \in S
  BY <1>2, <1>3
<1> QED BY <1>1, <1>4

\* A collection with the empty set and, with a part of T, that part and one more
\* element, has T.
LEMMA SetOfSets ==
  ASSUME NEW T, IsFiniteSet(T), NEW C, {} \in C,
         \A A \in SUBSET T : \A x \in T \ A : A \in C => A \cup {x} \in C
  PROVE  T \in C
<1> DEFINE S == {n \in Nat : \A A \in SUBSET T : Cardinality(A) = n => A \in C}
<1>1. \A A \in SUBSET T : IsFiniteSet(A) /\ Cardinality(A) \in Nat
  BY FS_Subset, FS_CardinalityType
<1>2. 0 \in S
  BY <1>1, FS_EmptySet
<1>3. ASSUME NEW n \in Nat, n \in S PROVE n + 1 \in S
  <2> SUFFICES ASSUME NEW A \in SUBSET T, Cardinality(A) = n + 1 PROVE A \in C
    OBVIOUS
  <2>1. Cardinality(A) # 0 /\ A # {}
    <3>1. n + 1 # 0
      OBVIOUS
    <3> QED BY <3>1, FS_EmptySet, Zenon
  <2>2. PICK x \in A : TRUE
    BY <2>1
  <2>3. Cardinality(A \ {x}) = n
    <3>1. Cardinality(A \ {x}) = Cardinality(A) - 1
      BY <1>1, FS_RemoveElement
    <3> QED BY <3>1
  <2>4. A \ {x} \in C
    BY <1>3, <2>3
  <2>5. x \in T \ (A \ {x}) /\ A = (A \ {x}) \cup {x}
    OBVIOUS
  <2>6. (A \ {x}) \cup {x} \in C
    BY <2>4, <2>5
  <2> QED BY <2>5, <2>6
<1>4. \A n \in Nat : n \in S
  <2> HIDE DEF S
  <2> QED BY <1>2, <1>3, SetOfNaturals
<1>5. Cardinality(T) \in S
  BY <1>1, <1>4
<1> QED BY <1>5

-----------------------------------------------------------------------------
(* SumFunctionOnSet.                                                        *)

\* The element of s that is taken first.
First(s) == CHOOSE x \in s : TRUE

\* g gives of every part of T its sum, taken as the folds take it.
Folds(f, T, g) ==
  g = [s \in SUBSET T |-> IF s = {} THEN 0 ELSE f[First(s)] + g[s \ {First(s)}]]

\* There are such sums.
LEMMA FoldExists ==
  ASSUME NEW T, IsFiniteSet(T), NEW f
  PROVE  \E g : Folds(f, T, g)
<1> DEFINE Small(n) == {s \in SUBSET T : Cardinality(s) <= n}
           Rec(n, g) == g = [s \in Small(n) |-> IF s = {} THEN 0
                                                ELSE f[First(s)] + g[s \ {First(s)}]]
           S == {n \in Nat : \E g : Rec(n, g)}
<1>1. \A A \in SUBSET T : IsFiniteSet(A) /\ Cardinality(A) \in Nat
  BY FS_Subset, FS_CardinalityType
<1>2. \A s \in SUBSET T : s # {} =>
        /\ First(s) \in s
        /\ s \ {First(s)} \in SUBSET T
        /\ Cardinality(s \ {First(s)}) = Cardinality(s) - 1
  BY <1>1, FS_RemoveElement DEF First
<1>3. 0 \in S
  <2>1. Small(0) = {{}}
    BY <1>1, FS_EmptySet
  <2>2. Rec(0, [s \in Small(0) |-> 0])
    BY <2>1
  <2> QED BY <2>2
<1>4. ASSUME NEW n \in Nat, n \in S PROVE n + 1 \in S
  <2>1. PICK g : Rec(n, g)
    BY <1>4
  <2> DEFINE h == [s \in Small(n + 1) |-> IF s = {} THEN 0 ELSE f[First(s)] + g[s \ {First(s)}]]
  <2>2. \A s \in Small(n + 1) : s # {} => s \ {First(s)} \in Small(n)
    BY <1>1, <1>2
  <2>3. \A s \in Small(n) : h[s] = g[s]
    <3>1. Small(n) \subseteq Small(n + 1)
      BY <1>1
    <3> QED BY <2>1, <3>1
  <2>4. \A s \in Small(n + 1) :
          h[s] = IF s = {} THEN 0 ELSE f[First(s)] + h[s \ {First(s)}]
    BY <2>2, <2>3
  <2>5. \E k : Rec(n + 1, k)
    <3> DEFINE k == [s \in Small(n + 1) |-> IF s = {} THEN 0 ELSE f[First(s)] + h[s \ {First(s)}]]
    <3>1. \A s \in Small(n + 1) : h[s] = k[s]
      BY <2>4
    <3>2. h = k
      BY <3>1
    <3> QED BY <3>2
  <2> HIDE DEF Rec
  <2> QED BY <2>5
<1>5. \A n \in Nat : n \in S
  <2> HIDE DEF S
  <2> QED BY <1>3, <1>4, SetOfNaturals
<1>6. PICK g : Rec(Cardinality(T), g)
  BY <1>1, <1>5
<1>7. Small(Cardinality(T)) = SUBSET T
  BY FS_Subset
<1>8. Folds(f, T, g)
  BY <1>6, <1>7 DEF Folds
<1> QED BY <1>8

\* They agree on what they both have.
LEMMA FoldsAgree ==
  ASSUME NEW T, IsFiniteSet(T), NEW f, NEW g, NEW U \in SUBSET T, NEW h,
         Folds(f, T, g), Folds(f, U, h)
  PROVE  \A s \in SUBSET U : g[s] = h[s]
<1> DEFINE S == {n \in Nat : \A s \in SUBSET U : Cardinality(s) = n => g[s] = h[s]}
<1>1. \A A \in SUBSET T : IsFiniteSet(A) /\ Cardinality(A) \in Nat
  BY FS_Subset, FS_CardinalityType
<1>2. \A s \in SUBSET T : s # {} => First(s) \in s /\ Cardinality(s \ {First(s)}) = Cardinality(s) - 1
  BY <1>1, FS_RemoveElement DEF First
<1>3. /\ \A s \in SUBSET T : g[s] = IF s = {} THEN 0 ELSE f[First(s)] + g[s \ {First(s)}]
      /\ \A s \in SUBSET U : h[s] = IF s = {} THEN 0 ELSE f[First(s)] + h[s \ {First(s)}]
  BY DEF Folds
<1>4. 0 \in S
  BY <1>1, <1>3, FS_EmptySet
<1>5. ASSUME NEW n \in Nat, n \in S PROVE n + 1 \in S
  <2> SUFFICES ASSUME NEW s \in SUBSET U, Cardinality(s) = n + 1 PROVE g[s] = h[s]
    OBVIOUS
  <2>1. s # {} /\ s \in SUBSET T
    BY FS_EmptySet
  <2>2. g[s \ {First(s)}] = h[s \ {First(s)}]
    BY <1>2, <1>5, <2>1
  <2> QED BY <1>3, <2>1, <2>2
<1>6. \A n \in Nat : n \in S
  <2> HIDE DEF S
  <2> QED BY <1>4, <1>5, SetOfNaturals
<1> QED BY <1>1, <1>6

\* The sums of the community modules are such sums.
LEMMA SumIsFold ==
  ASSUME NEW T, IsFiniteSet(T), NEW f, NEW g, Folds(f, T, g)
  PROVE  \A s \in SUBSET T : SumFunctionOnSet(f, s) = g[s]
<1> SUFFICES ASSUME NEW s \in SUBSET T PROVE SumFunctionOnSet(f, s) = g[s]
  OBVIOUS
<1> DEFINE h == CHOOSE h : Folds(f, s, h)
<1>1. IsFiniteSet(s)
  BY FS_Subset
<1>2. Folds(f, s, h)
  BY <1>1, FoldExists
<1>3. g[s] = h[s]
  <2> HIDE DEF h
  <2> QED BY <1>2, FoldsAgree
<1>4. SumFunctionOnSet(f, s) = h[s]
  BY DEF SumFunctionOnSet, FoldFunctionOnSet, MapThenFoldSet, Folds, First
<1> QED BY <1>3, <1>4
\* The empty sum, and a sum by the element that comes first.
LEMMA SumUnfolds ==
  ASSUME NEW T, IsFiniteSet(T), NEW f
  PROVE  /\ SumFunctionOnSet(f, {}) = 0
         /\ \A s \in SUBSET T : s # {} =>
              SumFunctionOnSet(f, s) = f[First(s)] + SumFunctionOnSet(f, s \ {First(s)})
<1>1. PICK g : Folds(f, T, g)
  BY FoldExists
<1>2. \A s \in SUBSET T : SumFunctionOnSet(f, s) = g[s]
  BY <1>1, SumIsFold
<1>3. \A s \in SUBSET T : g[s] = IF s = {} THEN 0 ELSE f[First(s)] + g[s \ {First(s)}]
  BY <1>1 DEF Folds
<1> QED BY <1>2, <1>3

\* A sum of integers is one.
LEMMA SumInt ==
  ASSUME NEW T, IsFiniteSet(T), NEW f, \A x \in T : f[x] \in Int
  PROVE  \A s \in SUBSET T : SumFunctionOnSet(f, s) \in Int
<1> DEFINE S == {n \in Nat : \A s \in SUBSET T :
                   Cardinality(s) = n => SumFunctionOnSet(f, s) \in Int}
<1>1. \A s \in SUBSET T : IsFiniteSet(s) /\ Cardinality(s) \in Nat
  BY FS_Subset, FS_CardinalityType
<1>2. \A s \in SUBSET T : s # {} =>
        /\ First(s) \in s /\ Cardinality(s \ {First(s)}) = Cardinality(s) - 1
        /\ SumFunctionOnSet(f, s) = f[First(s)] + SumFunctionOnSet(f, s \ {First(s)})
  <2>1. \A s \in SUBSET T : s # {} => First(s) \in s
    BY DEF First
  <2>2. \A s \in SUBSET T : s # {} => Cardinality(s \ {First(s)}) = Cardinality(s) - 1
    BY <1>1, <2>1, FS_RemoveElement
  <2>3. \A s \in SUBSET T : s # {} =>
          SumFunctionOnSet(f, s) = f[First(s)] + SumFunctionOnSet(f, s \ {First(s)})
    BY SumUnfolds
  <2> QED BY <2>1, <2>2, <2>3
<1>3. 0 \in S
  <2>1. \A s \in SUBSET T : Cardinality(s) = 0 => SumFunctionOnSet(f, s) = 0
    BY <1>1, FS_EmptySet, SumUnfolds
  <2> QED BY <2>1
<1>4. ASSUME NEW n \in Nat, n \in S PROVE n + 1 \in S
  <2> SUFFICES ASSUME NEW s \in SUBSET T, Cardinality(s) = n + 1
               PROVE  SumFunctionOnSet(f, s) \in Int
    OBVIOUS
  <2>1. s # {}
    <3>1. n + 1 # 0
      OBVIOUS
    <3> QED BY <3>1, FS_EmptySet, Zenon
  <2>2. Cardinality(s \ {First(s)}) = n
    BY <1>2, <2>1
  <2>3. SumFunctionOnSet(f, s \ {First(s)}) \in Int
    BY <1>4, <2>2
  <2> QED BY <1>2, <2>1, <2>3
<1>5. \A n \in Nat : n \in S
  <2> HIDE DEF S
  <2> QED BY <1>3, <1>4, SetOfNaturals
<1> QED BY <1>1, <1>5

\* Any element may be taken first.
LEMMA SumAdds ==
  ASSUME NEW T, IsFiniteSet(T), NEW f, \A x \in T : f[x] \in Int
  PROVE  \A s \in SUBSET T : \A x \in T \ s :
           SumFunctionOnSet(f, s \cup {x}) = f[x] + SumFunctionOnSet(f, s)
<1> DEFINE Sum(s) == SumFunctionOnSet(f, s)
           S == {n \in Nat : \A s \in SUBSET T : \A x \in T \ s :
                   Cardinality(s) = n => Sum(s \cup {x}) = f[x] + Sum(s)}
<1>1. \A s \in SUBSET T : IsFiniteSet(s) /\ Cardinality(s) \in Nat /\ Sum(s) \in Int
  BY FS_Subset, FS_CardinalityType, SumInt
<1>2. \A s \in SUBSET T : s # {} => First(s) \in s /\ Sum(s) = f[First(s)] + Sum(s \ {First(s)})
  <2>1. \A s \in SUBSET T : s # {} => First(s) \in s
    BY DEF First
  <2>2. \A s \in SUBSET T : s # {} => Sum(s) = f[First(s)] + Sum(s \ {First(s)})
    BY SumUnfolds
  <2> QED BY <2>1, <2>2
<1>3. \A s \in SUBSET T : \A x \in s : Cardinality(s \ {x}) = Cardinality(s) - 1
  BY <1>1, FS_RemoveElement DEF First
<1>4. Sum({}) = 0
  BY SumUnfolds
<1> HIDE DEF Sum
<1>5. 0 \in S
  <2> SUFFICES ASSUME NEW s \in SUBSET T, NEW x \in T \ s, Cardinality(s) = 0
               PROVE  Sum(s \cup {x}) = f[x] + Sum(s)
    OBVIOUS
  <2>1. s = {}
    BY <1>1, FS_EmptySet
  <2>2. s \cup {x} = {x} /\ {x} \ {x} = {} /\ {x} \in SUBSET T
    BY <2>1
  <2>3. First({x}) = x
    BY <1>2, <2>2
  <2> QED BY <1>2, <1>4, <2>1, <2>2, <2>3
<1>6. ASSUME NEW n \in Nat, n \in S PROVE n + 1 \in S
  <2> SUFFICES ASSUME NEW s \in SUBSET T, NEW x \in T \ s, Cardinality(s) = n + 1
               PROVE  Sum(s \cup {x}) = f[x] + Sum(s)
    OBVIOUS
  <2> DEFINE u == s \cup {x}
             d == First(u)
  <2>1. u \in SUBSET T /\ u # {} /\ d \in u /\ Sum(u) = f[d] + Sum(u \ {d})
    BY <1>2
  <2>2. CASE d = x
    <3>1. u \ {d} = s
      BY <2>2
    <3> QED BY <2>1, <2>2, <3>1
  <2>3. CASE d # x
    <3> DEFINE r == s \ {d}
    <3>1. /\ d \in s /\ r \in SUBSET T /\ d \in T \ r /\ x \in T \ r
          /\ u \ {d} = r \cup {x} /\ s = r \cup {d}
      BY <2>1, <2>3
    <3>2. Cardinality(r) = n
      <4> HIDE DEF d, S
      <4>1. Cardinality(r) = Cardinality(s) - 1
        BY <1>3, <3>1
      <4> QED BY <4>1
    <3> HIDE DEF r, d, u
    <3>3. Sum(r \cup {x}) = f[x] + Sum(r) /\ Sum(r \cup {d}) = f[d] + Sum(r)
      BY <1>6, <3>1, <3>2
    <3>4. f[x] \in Int /\ f[d] \in Int /\ Sum(r) \in Int
      BY <1>1, <3>1
    <3>5. Sum(u) = f[d] + (f[x] + Sum(r)) /\ Sum(s) = f[d] + Sum(r)
      BY <2>1, <3>1, <3>3
    <3>6. Sum(u) = f[x] + Sum(s)
      BY <3>4, <3>5
    <3> QED BY <3>6 DEF u
  <2> QED BY <2>2, <2>3
<1>7. \A n \in Nat : n \in S
  <2> HIDE DEF S
  <2> QED BY <1>5, <1>6, SetOfNaturals
<1> QED BY <1>1, <1>7 DEF Sum

-----------------------------------------------------------------------------
(* What bounds need.                                                        *)

\* A sum of natural numbers is one.
LEMMA SumNat ==
  ASSUME NEW T, IsFiniteSet(T), NEW f, \A x \in T : f[x] \in Nat
  PROVE  SumFunctionOnSet(f, T) \in Nat
<1> DEFINE C == {s \in SUBSET T : SumFunctionOnSet(f, s) \in Nat}
<1>1. {} \in C
  BY SumUnfolds
<1>2. \A A \in SUBSET T : \A x \in T \ A : A \in C => A \cup {x} \in C
  BY SumAdds
<1>3. T \in C
  <2> HIDE DEF C
  <2> QED BY <1>1, <1>2, SetOfSets
<1> QED BY <1>3

\* Greater terms make for a greater sum.
LEMMA SumMonotonic ==
  ASSUME NEW T, IsFiniteSet(T), NEW f, NEW g,
         \A x \in T : f[x] \in Int /\ g[x] \in Int /\ f[x] <= g[x]
  PROVE  SumFunctionOnSet(f, T) <= SumFunctionOnSet(g, T)
<1> DEFINE F(s) == SumFunctionOnSet(f, s)
           G(s) == SumFunctionOnSet(g, s)
           C == {s \in SUBSET T : F(s) <= G(s)}
<1>1. \A s \in SUBSET T : F(s) \in Int /\ G(s) \in Int
  BY SumInt
<1>2. F({}) = 0 /\ G({}) = 0
  BY SumUnfolds
<1>3. \A s \in SUBSET T : \A x \in T \ s :
        F(s \cup {x}) = f[x] + F(s) /\ G(s \cup {x}) = g[x] + G(s)
  <2>1. (\A x \in T : f[x] \in Int) /\ (\A x \in T : g[x] \in Int)
    OBVIOUS
  <2>2. \A s \in SUBSET T : \A x \in T \ s : F(s \cup {x}) = f[x] + F(s)
    BY <2>1, SumAdds
  <2>3. \A s \in SUBSET T : \A x \in T \ s : G(s \cup {x}) = g[x] + G(s)
    BY <2>1, SumAdds
  <2> QED BY <2>2, <2>3
<1> HIDE DEF F, G
<1>4. {} \in C
  BY <1>2
<1>5. \A A \in SUBSET T : \A x \in T \ A : A \in C => A \cup {x} \in C
  BY <1>1, <1>3
<1>6. T \in C
  <2> HIDE DEF C
  <2> QED BY <1>4, <1>5, SetOfSets
<1> QED BY <1>6 DEF F, G

\* Terms that are zero do not count, and others only add.
LEMMA SumOfPart ==
  ASSUME NEW T, IsFiniteSet(T), NEW A \in SUBSET T, NEW f, \A x \in T : f[x] \in Nat
  PROVE  /\ SumFunctionOnSet(f, A) <= SumFunctionOnSet(f, T)
         /\ (\A x \in T \ A : f[x] = 0) =>
              SumFunctionOnSet(f, A) = SumFunctionOnSet(f, T)
<1> DEFINE F(s) == SumFunctionOnSet(f, s)
           U == T \ A
           C == {s \in SUBSET U : /\ F(A) <= F(A \cup s)
                                  /\ (\A x \in s : f[x] = 0) => F(A) = F(A \cup s)}
<1>1. IsFiniteSet(U)
  BY FS_Subset
<1>2. \A s \in SUBSET T : F(s) \in Int
  BY SumInt
<1>3. \A s \in SUBSET T : \A x \in T \ s : F(s \cup {x}) = f[x] + F(s)
  <2>1. \A x \in T : f[x] \in Int
    OBVIOUS
  <2> QED BY <2>1, SumAdds
<1> HIDE DEF F
<1>4. {} \in C
  <2>1. A \cup {} = A
    OBVIOUS
  <2> QED BY <1>2, <2>1
<1>5. ASSUME NEW s \in SUBSET U, NEW x \in U \ s, s \in C PROVE s \cup {x} \in C
  <2>1. /\ A \cup s \in SUBSET T /\ x \in T \ (A \cup s)
        /\ A \cup (s \cup {x}) = (A \cup s) \cup {x}
    OBVIOUS
  <2>2. F(A \cup (s \cup {x})) = f[x] + F(A \cup s)
    BY <1>3, <2>1
  <2>3. f[x] \in Nat /\ F(A) \in Int /\ F(A \cup s) \in Int
    BY <1>2, <2>1
  <2> QED BY <1>5, <2>2, <2>3
<1>6. U \in C
  <2> HIDE DEF C, U
  <2> QED BY <1>1, <1>4, <1>5, SetOfSets
<1>7. A \cup U = T
  OBVIOUS
<1> QED BY <1>6, <1>7 DEF F

\* Equal terms make for equal sums.
LEMMA SumEqual ==
  ASSUME NEW T, IsFiniteSet(T), NEW f, NEW g,
         \A x \in T : f[x] \in Int /\ f[x] = g[x]
  PROVE  SumFunctionOnSet(f, T) = SumFunctionOnSet(g, T)
<1>1. /\ SumFunctionOnSet(f, T) \in Int /\ SumFunctionOnSet(g, T) \in Int
      /\ SumFunctionOnSet(f, T) <= SumFunctionOnSet(g, T)
      /\ SumFunctionOnSet(g, T) <= SumFunctionOnSet(f, T)
  BY SumInt, SumMonotonic
<1> QED BY <1>1

\* Two parts without a common element.
LEMMA SumOfParts ==
  ASSUME NEW T, IsFiniteSet(T), NEW A \in SUBSET T, NEW f, \A x \in T : f[x] \in Int
  PROVE  SumFunctionOnSet(f, T) = SumFunctionOnSet(f, A) + SumFunctionOnSet(f, T \ A)
<1> DEFINE F(s) == SumFunctionOnSet(f, s)
           U == T \ A
           C == {s \in SUBSET U : F(A \cup s) = F(A) + F(s)}
<1>1. IsFiniteSet(U)
  BY FS_Subset
<1>2. \A s \in SUBSET T : F(s) \in Int
  BY SumInt
<1>3. \A s \in SUBSET T : \A x \in T \ s : F(s \cup {x}) = f[x] + F(s)
  BY SumAdds
<1>4. F({}) = 0
  BY SumUnfolds
<1> HIDE DEF F
<1>5. {} \in C
  <2>1. A \cup {} = A
    OBVIOUS
  <2> QED BY <1>2, <1>4, <2>1
<1>6. ASSUME NEW s \in SUBSET U, NEW x \in U \ s, s \in C PROVE s \cup {x} \in C
  <2>1. /\ A \cup s \in SUBSET T /\ x \in T \ (A \cup s) /\ s \in SUBSET T /\ x \in T \ s
        /\ A \cup (s \cup {x}) = (A \cup s) \cup {x}
    OBVIOUS
  <2>2. F(A \cup (s \cup {x})) = f[x] + F(A \cup s) /\ F(s \cup {x}) = f[x] + F(s)
    BY <1>3, <2>1
  <2>3. f[x] \in Int /\ F(A) \in Int /\ F(s) \in Int /\ F(A \cup s) = F(A) + F(s)
    BY <1>2, <1>6, <2>1
  <2>4. F(A \cup (s \cup {x})) = F(A) + F(s \cup {x})
    BY <2>2, <2>3
  <2> QED BY <2>4
<1>7. U \in C
  <2> HIDE DEF C, U
  <2> QED BY <1>1, <1>5, <1>6, SetOfSets
<1>8. A \cup U = T
  OBVIOUS
<1> QED BY <1>7, <1>8 DEF F

-----------------------------------------------------------------------------
(* Least and greatest numbers.                                              *)

\* Min of natural numbers is the least of them.
LEMMA MinOfNaturals ==
  ASSUME NEW S \in SUBSET Nat, S # {}
  PROVE  Min(S) \in S /\ \A n \in S : Min(S) <= n
BY LeastNatural DEF Min

\* Max of a finite set of integers is the greatest of them.
LEMMA MaxOfFinite ==
  ASSUME NEW S \in SUBSET Int, IsFiniteSet(S), S # {}
  PROVE  Max(S) \in S /\ \A n \in S : n <= Max(S)
<1> DEFINE C == {A \in SUBSET S : A = {} \/ \E n \in A : \A m \in A : n >= m}
<1>1. {} \in C
  OBVIOUS
<1>2. ASSUME NEW A \in SUBSET S, NEW x \in S \ A, A \in C PROVE A \cup {x} \in C
  <2>1. CASE A = {}
    BY <2>1
  <2>2. CASE A # {}
    <3>1. PICK n \in A : \A m \in A : n >= m
      BY <1>2, <2>2
    <3>2. CASE x >= n
      <4>1. \A m \in A \cup {x} : x >= m
        BY <3>1, <3>2
      <4> QED BY <4>1
    <3>3. CASE n >= x
      <4>1. \A m \in A \cup {x} : n >= m
        BY <3>1, <3>3
      <4> QED BY <4>1
    <3>4. n \in Int /\ x \in Int
      OBVIOUS
    <3> QED BY <3>2, <3>3, <3>4
  <2> QED BY <2>1, <2>2
<1>3. S \in C
  <2> HIDE DEF C
  <2> QED BY <1>1, <1>2, SetOfSets
<1>4. \E n \in S : \A m \in S : n >= m
  BY <1>3
<1> QED BY <1>4 DEF Max

\* The same for natural numbers with a known bound.
LEMMA MaxOfBounded ==
  ASSUME NEW S \in SUBSET Nat, S # {}, NEW b \in Nat, \A n \in S : n <= b
  PROVE  Max(S) \in S /\ \A n \in S : n <= Max(S)
BY FS_BoundedSetOfNaturals, MaxOfFinite

-----------------------------------------------------------------------------
(* Posting lists and their blocks.                                          *)

\* How many of the numbers D are not above d.
RankIn(D, d) == Cardinality({e \in D : e <= d})

\* The ranks of n numbers are 1 to n, in their order.
LEMMA Ranks ==
  ASSUME NEW D \in SUBSET Nat, IsFiniteSet(D)
  PROVE  /\ \A d \in D : RankIn(D, d) \in 1..Cardinality(D)
         /\ \A d, e \in D : d < e => RankIn(D, d) < RankIn(D, e)
         /\ \A j \in 1..Cardinality(D) : \E d \in D : RankIn(D, d) = j
<1> DEFINE n == Cardinality(D)
           UpTo(d) == {e \in D : e <= d}
<1>1. n \in Nat
  BY FS_CardinalityType
<1>2. ASSUME NEW d \in D PROVE IsFiniteSet(UpTo(d)) /\ RankIn(D, d) \in 1..n
  <2>1. UpTo(d) \in SUBSET D /\ d \in UpTo(d)
    BY <1>2
  <2>2. IsFiniteSet(UpTo(d)) /\ Cardinality(UpTo(d)) <= n
    BY <2>1, FS_Subset
  <2>3. Cardinality(UpTo(d)) \in Nat /\ Cardinality(UpTo(d)) # 0
    <3> HIDE DEF UpTo
    <3> QED BY <2>1, <2>2, FS_CardinalityType, FS_EmptySet
  <2> QED BY <1>1, <2>2, <2>3 DEF RankIn
<1>3. ASSUME NEW d \in D, NEW e \in D, d < e PROVE RankIn(D, d) < RankIn(D, e)
  <2>1. UpTo(d) \in SUBSET UpTo(e) /\ e \in UpTo(e) /\ e \notin UpTo(d)
    <3>1. d \in Nat /\ e \in Nat /\ \A x \in D : x \in Nat
      OBVIOUS
    <3>2. e \in UpTo(e) /\ e \notin UpTo(d)
      BY <1>3, <3>1
    <3>3. ASSUME NEW x \in UpTo(d) PROVE x \in UpTo(e)
      <4>1. x \in D /\ x <= d
        BY <3>3
      <4>2. x <= e
        BY <1>3, <3>1, <4>1
      <4> QED BY <4>1, <4>2
    <3> HIDE DEF UpTo
    <3> QED BY <3>2, <3>3
  <2>2. Cardinality(UpTo(d)) <= Cardinality(UpTo(e)) /\ UpTo(d) # UpTo(e)
    <3> HIDE DEF UpTo
    <3> QED BY <1>2, <2>1, FS_Subset
  <2>3. Cardinality(UpTo(d)) # Cardinality(UpTo(e))
    <3> HIDE DEF UpTo
    <3> QED BY <1>2, <2>1, <2>2, FS_Subset
  <2>4. RankIn(D, d) \in Nat /\ RankIn(D, e) \in Nat
    <3> HIDE DEF n, UpTo
    <3> QED BY <1>1, <1>2
  <2> QED BY <2>2, <2>3, <2>4 DEF RankIn
<1>4. \A j \in 1..n : \E d \in D : RankIn(D, d) = j
  <2> DEFINE f == [d \in D |-> RankIn(D, d)]
             R == {f[d] : d \in D}
  <2>1. \A d, e \in D : f[d] = f[e] => d = e
    <3> SUFFICES ASSUME NEW d \in D, NEW e \in D, RankIn(D, d) = RankIn(D, e) PROVE d = e
      OBVIOUS
    <3>1. \A x \in D : x \in Nat /\ RankIn(D, x) \in Nat
      <4> HIDE DEF n, UpTo
      <4> QED BY <1>1, <1>2
    <3>2. ~(d < e) /\ ~(e < d)
      BY <1>3, <3>1
    <3> QED BY <3>1, <3>2
  <2>2. f \in Surjection(D, R) /\ f \in Injection(D, R)
    BY <2>1 DEF Surjection, Injection, IsInjective
  <2>3. Cardinality(R) = n
    <3> HIDE DEF f, R
    <3> QED BY <2>2, FS_Surjection
  <2>4. R \in SUBSET (1..n)
    BY <1>2
  <2>5. IsFiniteSet(1..n) /\ Cardinality(1..n) = n
    BY <1>1, FS_Interval
  <2>6. R = 1..n
    <3> HIDE DEF R, f
    <3> QED BY <2>3, <2>4, <2>5, FS_Subset
  <2> QED BY <2>6
<1> QED BY <1>2, <1>3, <1>4

\* The list has every document once, in order, with its score.
ListsPostings(list, post) ==
  /\ Len(list) = Cardinality(DOMAIN post) /\ Len(list) \in Nat
  /\ \A j \in 1..Len(list) : /\ list[j].doc \in DOMAIN post
                             /\ list[j].score = post[list[j].doc]
  /\ \A i, j \in 1..Len(list) : i < j => list[i].doc < list[j].doc
  /\ \A d \in DOMAIN post : \E j \in 1..Len(list) : list[j].doc = d

\* So does a posting list.
LEMMA PostingListFacts ==
  ASSUME NEW post, DOMAIN post \in SUBSET Nat, IsFiniteSet(DOMAIN post),
         NEW list, list = PostingList(post)
  PROVE  ListsPostings(list, post)
<1> DEFINE D == DOMAIN post
           n == Cardinality(D)
           nth(j) == CHOOSE d \in D : RankIn(D, d) = j
<1>1. n \in Nat
  BY FS_CardinalityType
<1>2. list = [j \in 1..n |-> [doc |-> nth(j), score |-> post[nth(j)]]]
  BY DEF PostingList, RankIn
<1>3. Len(list) = n
  <2> HIDE DEF nth, n
  <2> QED BY <1>1, <1>2
<1>4. \A j \in 1..n : nth(j) \in D /\ RankIn(D, nth(j)) = j
  BY Ranks
<1>5. \A j \in 1..n : list[j].doc = nth(j) /\ list[j].score = post[nth(j)]
  <2> HIDE DEF nth, n
  <2> QED BY <1>2
<1>6. ASSUME NEW i \in 1..n, NEW j \in 1..n, i < j PROVE nth(i) < nth(j)
  <2>1. nth(i) \in Nat /\ nth(j) \in Nat /\ RankIn(D, nth(i)) = i /\ RankIn(D, nth(j)) = j
    BY <1>4
  <2>2. nth(j) < nth(i) => j < i
    <3>1. nth(i) \in D /\ nth(j) \in D
      BY <1>4
    <3>2. \A d, e \in D : d < e => RankIn(D, d) < RankIn(D, e)
      BY Ranks
    <3> HIDE DEF nth, D
    <3> QED BY <2>1, <3>1, <3>2
  <2>3. nth(i) # nth(j)
    <3>1. i # j
      BY <1>1, <1>6
    <3> HIDE DEF nth, D
    <3> QED BY <2>1, <3>1
  <2> HIDE DEF nth
  <2> QED BY <1>1, <1>6, <2>1, <2>2, <2>3
<1>7. ASSUME NEW d \in D PROVE \E j \in 1..n : nth(j) = d
  <2> DEFINE j == RankIn(D, d)
  <2>1. j \in 1..n
    BY Ranks
  <2>2. nth(j) \in D /\ RankIn(D, nth(j)) = j
    BY <1>4, <2>1
  <2>3. ~(nth(j) < d) /\ ~(d < nth(j))
    <3>1. \A e \in D : RankIn(D, e) \in Nat
      BY Ranks, <1>1
    <3> QED BY <2>2, <3>1, Ranks
  <2>4. nth(j) = d
    BY <2>2, <2>3
  <2> QED BY <2>1, <2>4
<1> HIDE DEF nth
<1> QED BY <1>1, <1>3, <1>4, <1>5, <1>6, <1>7 DEF ListsPostings

\* Every block but the last is full, and the last has a posting.
LEMMA BlockCount ==
  ASSUME NEW n \in Nat \ {0}, NEW size \in Nat \ {0}, NEW count, count = (n + size - 1) \div size
  PROVE  /\ count \in Nat \ {0}
         /\ \A b \in 0..(count - 1) : b * size \in Nat /\ b * size < n
<1>1. count \in Int /\ count * size <= n + size - 1 /\ n + size - 1 < count * size + size
  <2>1. n + size - 1 \in Nat
    OBVIOUS
  <2>2. PICK m \in Nat : m = n + size - 1
    BY <2>1
  <2>3. count = m \div size
    BY <2>2
  <2>4. count \in Int /\ count * size <= m /\ m < count * size + size
    BY <2>3, SMT
  <2> QED BY <2>2, <2>4
<1>2. count \in Nat \ {0}
  <2>1. ASSUME count <= 0 PROVE FALSE
    <3>1. count * size <= 0
      BY <1>1, <2>1
    <3>2. n < 1
      BY <1>1, <3>1
    <3> QED BY <3>2
  <2> QED BY <1>1, <2>1
<1>3. ASSUME NEW b \in 0..(count - 1) PROVE b * size \in Nat /\ b * size < n
  <2>1. b \in Nat /\ b * size \in Nat /\ b <= count - 1
    BY <1>2
  <2>2. b * size <= (count - 1) * size /\ (count - 1) * size = count * size - size
    BY <1>2, <2>1
  <2> QED BY <1>1, <2>1, <2>2
<1> QED BY <1>2, <1>3

\* next_geq goes to the first block from where it stands that reaches the
\* document, or to the last one.
LEMMA BlockGeqFacts ==
  ASSUME NEW blocks, Len(blocks) \in Nat, NEW pos \in 1..Len(blocks), NEW lower,
         NEW g, g = BlockGeq(blocks, pos, lower)
  PROVE  /\ g \in pos..Len(blocks)
         /\ g = Len(blocks) \/ blocks[g].docid >= lower
         /\ \A b \in pos..(g - 1) : ~(blocks[b].docid >= lower)
<1> DEFINE S == {b \in pos..Len(blocks) : b = Len(blocks) \/ blocks[b].docid >= lower}
<1>1. S \in SUBSET Nat /\ Len(blocks) \in S
  OBVIOUS
<1>2. g = Min(S)
  BY DEF BlockGeq
<1>3. g \in S /\ \A n \in S : g <= n
  <2> HIDE DEF S
  <2> QED BY <1>1, <1>2, MinOfNaturals
<1>4. ASSUME NEW b \in pos..(g - 1), blocks[b].docid >= lower PROVE FALSE
  <2>1. g \in Nat /\ g <= Len(blocks) /\ b \in Nat /\ b < g
    BY <1>3
  <2>2. b \in S
    BY <1>4, <2>1
  <2> HIDE DEF S
  <2> QED BY <1>3, <2>1, <2>2
<1> QED BY <1>3, <1>4

\* What the blocks of a list with increasing documents say: the last document of one
\* is before that of the next, and a posting is not scored above the block that
\* next_geq takes it to be in, the first that reaches its document.
LEMMA BlocksOfList ==
  ASSUME NEW list, NEW n \in Nat \ {0}, n = Len(list),
         \A j \in 1..n : list[j].doc \in Nat /\ list[j].score \in Nat,
         \A i, j \in 1..n : i < j => list[i].doc < list[j].doc,
         NEW size \in Nat \ {0}, NEW blocks, blocks = Blocks(list, size)
  PROVE  /\ Len(blocks) \in Nat \ {0}
         /\ \A b \in 1..Len(blocks) : blocks[b].docid \in Nat /\ blocks[b].score \in Nat
         /\ \A b \in 1..Len(blocks) : \A j \in 1..n :
              /\ b = Len(blocks) \/ blocks[b].docid >= list[j].doc
              /\ b = 1 \/ blocks[b - 1].docid < list[j].doc
              => list[j].score <= blocks[b].score
         /\ \A j \in 1..n : list[j].doc <= blocks[Len(blocks)].docid
         /\ \A b \in 2..Len(blocks) : blocks[b - 1].docid < blocks[b].docid
<1> DEFINE count == (n + size - 1) \div size
           last(b) == IF b = count THEN n ELSE b * size
<1>2. /\ n \in Nat \ {0}
      /\ \A j \in 1..n : list[j].doc \in Nat /\ list[j].score \in Nat
      /\ \A i, j \in 1..n : i < j => list[i].doc < list[j].doc
  OBVIOUS
<1>3. /\ count \in Nat \ {0}
      /\ \A b \in 0..(count - 1) : b * size \in Nat /\ b * size < n
  <2> QED BY <1>2, BlockCount
<1>4. blocks = [b \in 1..count |->
                  [docid |-> IF b = count THEN list[n].doc ELSE list[last(b) + 1].doc - 1,
                   score |-> Max(ScoresIn(list, (b - 1) * size + 1, last(b)))]]
  BY DEF Blocks
<1>5. Len(blocks) = count
  <2> HIDE DEF count, last
  <2> QED BY <1>3, <1>4
<1>6. ASSUME NEW b \in 1..count
      PROVE  /\ (b - 1) * size + 1 \in 1..n /\ last(b) \in 1..n
             /\ b # count => last(b) + 1 \in 1..n /\ last(b) = b * size
             /\ (b - 1) * size + 1 <= last(b)
  <2> HIDE DEF count
  <2>1. b - 1 \in 0..(count - 1) /\ b \in Nat
    BY <1>3
  <2>2. (b - 1) * size \in Nat /\ (b - 1) * size < n
    BY <1>3, <2>1
  <2>3. CASE b = count
    BY <1>2, <2>2, <2>3
  <2>4. CASE b # count
    <3>1. b \in 0..(count - 1)
      BY <1>3, <2>4
    <3>2. b * size \in Nat /\ b * size < n
      BY <1>3, <3>1
    <3>3. (b - 1) * size = b * size - size
      BY <2>1
    <3>4. last(b) = b * size
      BY <2>4
    <3> HIDE DEF last
    <3>5. b * size + 1 \in 1..n /\ b * size \in 1..n /\ (b - 1) * size + 1 <= b * size
      <4>1. PICK x \in Nat : x = b * size
        BY <3>2
      <4>2. (b - 1) * size = x - size /\ x - size \in Nat /\ x < n
        BY <2>2, <3>2, <3>3, <4>1
      <4>3. x + 1 \in 1..n /\ x \in 1..n /\ x - size + 1 <= x
        BY <4>2
      <4> QED BY <4>1, <4>2, <4>3
    <3> QED BY <2>2, <3>2, <3>3, <3>4, <3>5
  <2> QED BY <2>3, <2>4
<1>7. ASSUME NEW b \in 1..count
      PROVE  /\ blocks[b].docid = IF b = count THEN list[n].doc ELSE list[b * size + 1].doc - 1
             /\ blocks[b].docid \in Nat /\ blocks[b].score \in Nat
             /\ \A j \in ((b - 1) * size + 1)..last(b) : list[j].score <= blocks[b].score
  <2> DEFINE from == (b - 1) * size + 1
             S == ScoresIn(list, from, last(b))
  <2>1. /\ blocks[b].docid = IF b = count THEN list[n].doc ELSE list[last(b) + 1].doc - 1
        /\ blocks[b].score = Max(S)
    BY <1>4
  <2>2. from \in 1..n /\ last(b) \in 1..n /\ from <= last(b)
    BY <1>6
  <2>3. IsFiniteSet(S)
    <3> DEFINE f == [j \in from..last(b) |-> list[j].score]
    <3>1. f \in Surjection(from..last(b), S)
      <4> HIDE DEF from, last
      <4> QED BY DEF Surjection, ScoresIn
    <3>2. IsFiniteSet(from..last(b))
      <4>1. from \in Int /\ last(b) \in Int
        BY <1>2, <2>2
      <4> HIDE DEF from, last
      <4> QED BY <4>1, FS_Interval
    <3> HIDE DEF f, S, from, last
    <3> QED BY <3>1, <3>2, FS_Surjection
  <2>4. S \in SUBSET Int /\ S \in SUBSET Nat /\ S # {} /\ \A j \in from..last(b) : list[j].score \in S
    <3>1. \A j \in from..last(b) : j \in 1..n
      <4> HIDE DEF from, last
      <4> QED BY <1>2, <2>2
    <3>2. from \in from..last(b)
      <4> HIDE DEF from, last
      <4> QED BY <1>2, <2>2
    <3> HIDE DEF from, last
    <3> QED BY <1>2, <3>1, <3>2 DEF ScoresIn
  <2>5. Max(S) \in S /\ \A m \in S : m <= Max(S)
    <3> HIDE DEF S
    <3> QED BY <2>3, <2>4, MaxOfFinite
  <2>6. blocks[b].docid \in Nat
    <3>1. CASE b = count
      BY <1>2, <2>1, <3>1
    <3>2. CASE b # count
      <4>1. last(b) + 1 \in 1..n /\ last(b) \in 1..n
        BY <1>6, <3>2
      <4>2. 1 \in 1..n /\ 1 < last(b) + 1
        <5> HIDE DEF last
        <5> QED BY <1>2, <4>1
      <4>3. list[1].doc < list[last(b) + 1].doc
        <5> HIDE DEF last
        <5> QED BY <1>2, <4>1, <4>2
      <4>4. list[1].doc \in Nat /\ list[last(b) + 1].doc \in Nat
        <5> HIDE DEF last
        <5> QED BY <1>2, <4>1, <4>2
      <4>5. list[last(b) + 1].doc - 1 \in Nat
        <5> HIDE DEF last
        <5> QED BY <4>3, <4>4
      <4> QED BY <2>1, <3>2, <4>5
    <3> QED BY <3>1, <3>2
  <2>7. b # count => last(b) = b * size
    OBVIOUS
  <2> HIDE DEF S, from, last, count
  <2> QED BY <2>1, <2>4, <2>5, <2>6, <2>7 DEF from
<1>8. ASSUME NEW b \in 1..count, NEW j \in 1..n,
             b = count \/ blocks[b].docid >= list[j].doc,
             b = 1 \/ blocks[b - 1].docid < list[j].doc
      PROVE  list[j].score <= blocks[b].score
  <2>1. list[j].doc \in Nat
    BY <1>2
  <2>2. (b - 1) * size + 1 <= j
    <3>1. CASE b = 1
      BY <2>1, <3>1
    <3>2. CASE b # 1
      <4> DEFINE i == (b - 1) * size + 1
      <4>1. b - 1 \in 1..count /\ b - 1 # count
        BY <1>3, <3>2
      <4>2. blocks[b - 1].docid = list[i].doc - 1
        BY <1>7, <4>1
      <4>3. i \in 1..n
        BY <1>6
      <4>4. list[i].doc <= list[j].doc /\ list[i].doc \in Nat /\ list[j].doc \in Nat
        <5>1. list[i].doc \in Nat /\ list[j].doc \in Nat
          <6> HIDE DEF i
          <6> QED BY <1>2, <2>1, <4>3
        <5> HIDE DEF i
        <5> QED BY <1>8, <2>1, <3>2, <4>2, <5>1, SMTT(20)
      <4>5. ~(j < i)
        <5> HIDE DEF i
        <5> QED BY <1>2, <2>1, <4>3, <4>4
      <4> HIDE DEF i
      <4> QED BY <1>2, <2>1, <4>3, <4>5 DEF i
    <3> QED BY <3>1, <3>2
  <2>3. j <= last(b)
    <3>1. CASE b = count
      BY <2>1, <3>1
    <3>2. CASE b # count
      <4> DEFINE i == b * size + 1
      <4>1. blocks[b].docid = list[i].doc - 1 /\ i \in 1..n /\ last(b) = b * size
        BY <1>6, <1>7, <3>2
      <4>2. list[i].doc \in Nat /\ list[j].doc \in Nat
        <5> HIDE DEF i
        <5> QED BY <1>2, <2>1, <4>1
      <4>3. list[j].doc < list[i].doc
        <5> HIDE DEF i
        <5> QED BY <1>8, <2>1, <3>2, <4>1, <4>2
      <4>4. j < i
        <5> HIDE DEF i
        <5> QED BY <1>2, <2>1, <4>1, <4>2, <4>3
      <4>5. b * size \in Int
        BY <1>3
      <4> QED BY <1>2, <2>1, <4>1, <4>4, <4>5
    <3> QED BY <3>1, <3>2
  <2>4. j \in ((b - 1) * size + 1)..last(b)
    BY <1>2, <1>6, <2>1, <2>2, <2>3
  <2> HIDE DEF last, count
  <2> QED BY <1>2, <1>7, <2>1, <2>4
<1>9. ASSUME NEW j \in 1..n PROVE list[j].doc <= blocks[count].docid
  <2>1. j = n \/ list[j].doc < list[n].doc
    BY <1>2
  <2>2. count \in 1..count
    BY <1>3
  <2>3. blocks[count].docid = list[n].doc
    <3> HIDE DEF last
    <3> QED BY <1>7, <2>2
  <2>4. list[n].doc \in Nat /\ list[j].doc \in Nat
    BY <1>2
  <2> HIDE DEF count
  <2> QED BY <2>1, <2>3, <2>4
<1>10. ASSUME NEW b \in 2..count PROVE blocks[b - 1].docid < blocks[b].docid
  <2> DEFINE i == (b - 1) * size + 1
  <2>1. b \in 1..count /\ b - 1 \in 1..count /\ b - 1 # count
    BY <1>3
  <2>2. blocks[b - 1].docid = list[i].doc - 1 /\ i \in 1..n
    BY <1>6, <1>7, <2>1
  <2>3. CASE b = count
    <3>1. blocks[b].docid = list[n].doc
      BY <1>7, <2>1, <2>3
    <3> HIDE DEF i
    <3>2. i = n \/ list[i].doc < list[n].doc
      BY <1>2, <2>2
    <3>3. list[i].doc \in Nat /\ list[n].doc \in Nat
      BY <1>2, <2>2
    <3> QED BY <2>2, <3>1, <3>2, <3>3, SMTT(20)
  <2>4. CASE b # count
    <3> DEFINE k == b * size + 1
    <3>1. blocks[b].docid = list[k].doc - 1
      BY <1>7, <2>1, <2>4
    <3>2. k \in 1..n /\ i < k
      BY <1>6, <2>1, <2>4
    <3> HIDE DEF i, k
    <3>3. list[i].doc < list[k].doc
      BY <1>2, <2>2, <3>2
    <3>4. list[i].doc \in Nat /\ list[k].doc \in Nat
      BY <1>2, <2>2, <3>2
    <3> QED BY <2>2, <3>1, <3>3, <3>4, SMTT(20)
  <2> QED BY <2>3, <2>4
<1> HIDE DEF count, last
<1> QED BY <1>3, <1>5, <1>7, <1>8, <1>9, <1>10

\* A posting is not scored above the block that next_geq takes it to be in: the
\* first that reaches its document.  The last block reaches them all.
LEMMA BlockCovers ==
  ASSUME NEW post, DOMAIN post \in SUBSET Nat, IsFiniteSet(DOMAIN post), DOMAIN post # {},
         \A d \in DOMAIN post : post[d] \in Nat,
         NEW size \in Nat \ {0}, NEW blocks, blocks = Blocks(PostingList(post), size)
  PROVE  /\ Len(blocks) \in Nat \ {0}
         /\ \A b \in 1..Len(blocks) : blocks[b].docid \in Nat /\ blocks[b].score \in Nat
         /\ \A b \in 1..Len(blocks) : \A e \in DOMAIN post :
              /\ b = Len(blocks) \/ blocks[b].docid >= e
              /\ b = 1 \/ blocks[b - 1].docid < e
              => post[e] <= blocks[b].score
         /\ \A e \in DOMAIN post : e <= blocks[Len(blocks)].docid
<1>1. PICK list, n : list = PostingList(post) /\ n = Len(list)
  OBVIOUS
<1>2. /\ n \in Nat \ {0}
      /\ \A j \in 1..n : /\ list[j].doc \in DOMAIN post /\ list[j].doc \in Nat
                         /\ list[j].score = post[list[j].doc] /\ list[j].score \in Nat
      /\ \A i, j \in 1..n : i < j => list[i].doc < list[j].doc
      /\ \A d \in DOMAIN post : \E j \in 1..n : list[j].doc = d
  <2>1. ListsPostings(list, post)
    BY <1>1, PostingListFacts
  <2>2. Cardinality(DOMAIN post) # 0
    BY FS_EmptySet
  <2>3. n \in Nat \ {0}
    BY <1>1, <2>1, <2>2 DEF ListsPostings
  <2>4. \A j \in 1..n : list[j].doc \in DOMAIN post /\ list[j].score = post[list[j].doc]
    BY <1>1, <2>1 DEF ListsPostings
  <2>5. /\ \A i, j \in 1..n : i < j => list[i].doc < list[j].doc
        /\ \A d \in DOMAIN post : \E j \in 1..n : list[j].doc = d
    BY <1>1, <2>1 DEF ListsPostings
  <2> QED BY <2>3, <2>4, <2>5
<1>3. /\ Len(blocks) \in Nat \ {0}
      /\ \A b \in 1..Len(blocks) : blocks[b].docid \in Nat /\ blocks[b].score \in Nat
      /\ \A b \in 1..Len(blocks) : \A j \in 1..n :
           /\ b = Len(blocks) \/ blocks[b].docid >= list[j].doc
           /\ b = 1 \/ blocks[b - 1].docid < list[j].doc
           => list[j].score <= blocks[b].score
      /\ \A j \in 1..n : list[j].doc <= blocks[Len(blocks)].docid
  <2>1. /\ n \in Nat \ {0}
        /\ \A j \in 1..n : list[j].doc \in Nat /\ list[j].score \in Nat
        /\ \A i, j \in 1..n : i < j => list[i].doc < list[j].doc
    BY <1>2
  <2> DEFINE l == list
             m == n
             bs == blocks
  <2>2. /\ l = list /\ m = n /\ m = Len(l) /\ bs = blocks /\ bs = Blocks(l, size)
    BY <1>1
  <2> HIDE DEF l, m, bs
  <2>3. /\ m \in Nat \ {0}
        /\ \A j \in 1..m : l[j].doc \in Nat /\ l[j].score \in Nat
        /\ \A i, j \in 1..m : i < j => l[i].doc < l[j].doc
    BY <2>1, <2>2
  <2>4. /\ Len(bs) \in Nat \ {0}
        /\ \A b \in 1..Len(bs) : bs[b].docid \in Nat /\ bs[b].score \in Nat
        /\ \A b \in 1..Len(bs) : \A j \in 1..m :
             /\ b = Len(bs) \/ bs[b].docid >= l[j].doc
             /\ b = 1 \/ bs[b - 1].docid < l[j].doc
             => l[j].score <= bs[b].score
        /\ \A j \in 1..m : l[j].doc <= bs[Len(bs)].docid
    BY <2>2, <2>3, BlocksOfList
  <2> QED BY <2>2, <2>4
<1>4. \A e \in DOMAIN post : \E j \in 1..n : list[j].doc = e /\ list[j].score = post[e]
  BY <1>2
<1>5. ASSUME NEW b \in 1..Len(blocks), NEW e \in DOMAIN post,
             b = Len(blocks) \/ blocks[b].docid >= e, b = 1 \/ blocks[b - 1].docid < e
      PROVE  post[e] <= blocks[b].score
  BY <1>3, <1>4, <1>5, SMTT(20)
<1>6. ASSUME NEW e \in DOMAIN post PROVE e <= blocks[Len(blocks)].docid
  BY <1>3, <1>4
<1> QED BY <1>3, <1>5, <1>6

-----------------------------------------------------------------------------
(* Clusters.                                                                *)

\* A document has the number of the first cluster that ends after it, and only if
\* there is one.
LEMMA ClusterNumbers ==
  ASSUME NEW ends \in Seq(Nat), NEW map, map = DocToRange(ends)
  PROVE  /\ DOMAIN map \in SUBSET Nat
         /\ \A d \in Nat : \A c \in 1..Len(ends) : d < ends[c] => d \in DOMAIN map
         /\ \A d \in DOMAIN map : \E c \in 1..Len(ends) :
              /\ d < ends[c] /\ map[d] = c - 1
              /\ \A e \in 1..Len(ends) : d < ends[e] => c <= e
<1> DEFINE places == 1..Len(ends)
           T == {ends[c] : c \in places}
           top == IF places = {} THEN 0 ELSE Max(T)
           After(d) == {c \in places : d < ends[c]}
           M == {d \in 0..top : \E c \in places : d < ends[c]}
<1>1. Len(ends) \in Nat /\ \A c \in places : ends[c] \in Nat
  BY LenProperties, ElementOfSeq
<1>2. map = [d \in M |-> Min(After(d)) - 1]
  BY DEF DocToRange
<1>3. T \in SUBSET Int /\ IsFiniteSet(T)
  <2>1. [c \in places |-> ends[c]] \in Surjection(places, T)
    BY DEF Surjection
  <2>2. IsFiniteSet(places)
    BY <1>1, FS_Interval
  <2>3. T \in SUBSET Int
    BY <1>1
  <2> HIDE DEF places, T
  <2> QED BY <2>1, <2>2, <2>3, FS_Surjection
<1>4. \A c \in places : ends[c] <= top /\ top \in Int
  <2>1. ASSUME NEW c \in places PROVE ends[c] <= top /\ top \in Int
    <3>1. T # {} /\ ends[c] \in T /\ top = Max(T)
      OBVIOUS
    <3> HIDE DEF T, top
    <3> QED BY <1>3, <3>1, MaxOfFinite
  <2> QED BY <2>1
<1>5. top \in Int
  <2> HIDE DEF T
  <2> QED BY <1>3, <1>4
<1>6. M \in SUBSET Nat
  <2> HIDE DEF top
  <2> QED BY <1>5
<1>7. ASSUME NEW d \in Nat, NEW c \in places, d < ends[c] PROVE d \in M
  <2> HIDE DEF top
  <2> QED BY <1>1, <1>4, <1>7
<1>8. ASSUME NEW d \in M
      PROVE  \E c \in places : /\ d < ends[c] /\ map[d] = c - 1
                               /\ \A e \in places : d < ends[e] => c <= e
  <2>1. After(d) \in SUBSET Nat /\ After(d) # {}
    BY <1>1
  <2>2. Min(After(d)) \in After(d) /\ \A e \in After(d) : Min(After(d)) <= e
    <3> HIDE DEF After
    <3> QED BY <2>1, MinOfNaturals
  <2>3. map[d] = Min(After(d)) - 1
    <3> HIDE DEF M, After
    <3> QED BY <1>2
  <2> DEFINE c == Min(After(d))
  <2>4. c \in places /\ d < ends[c] /\ map[d] = c - 1
    BY <2>2, <2>3
  <2>5. \A e \in places : d < ends[e] => c <= e
    <3>1. \A e \in places : d < ends[e] => e \in After(d)
      OBVIOUS
    <3> HIDE DEF After
    <3> QED BY <2>2, <3>1
  <2> HIDE DEF c
  <2> QED BY <2>4, <2>5
<1>9. DOMAIN map = M
  <2> HIDE DEF M, After
  <2> QED BY <1>2
<1> HIDE DEF M, After, top, T
<1> QED BY <1>6, <1>7, <1>8, <1>9

\* Later documents are not in earlier clusters, and a document before one that is in
\* a cluster is in one, too.
LEMMA ClustersInOrder ==
  ASSUME NEW ends \in Seq(Nat), NEW map, map = DocToRange(ends)
  PROVE  /\ \A d \in DOMAIN map : d \in Nat /\ map[d] \in Nat
         /\ \A d \in DOMAIN map, e \in Nat : e < d => e \in DOMAIN map /\ map[e] <= map[d]
<1>1. /\ DOMAIN map \in SUBSET Nat
      /\ \A d \in Nat : \A c \in 1..Len(ends) : d < ends[c] => d \in DOMAIN map
      /\ \A d \in DOMAIN map : \E c \in 1..Len(ends) :
           /\ d < ends[c] /\ map[d] = c - 1
           /\ \A e \in 1..Len(ends) : d < ends[e] => c <= e
  BY ClusterNumbers
<1>2. Len(ends) \in Nat /\ \A c \in 1..Len(ends) : ends[c] \in Nat
  BY LenProperties, ElementOfSeq
<1>3. \A d \in DOMAIN map : d \in Nat /\ map[d] \in Nat
  BY <1>1, <1>2
<1>4. ASSUME NEW d \in DOMAIN map, NEW e \in Nat, e < d
      PROVE  e \in DOMAIN map /\ map[e] <= map[d]
  <2>1. PICK c \in 1..Len(ends) : d < ends[c] /\ map[d] = c - 1
    BY <1>1
  <2>2. e < ends[c] /\ e \in DOMAIN map
    BY <1>1, <1>2, <1>3, <1>4, <2>1
  <2>3. PICK b \in 1..Len(ends) : map[e] = b - 1 /\ b <= c
    BY <1>1, <2>2
  <2> QED BY <1>2, <2>1, <2>2, <2>3
<1> QED BY <1>3, <1>4

\* A query takes a document to be in a range only if the wand data has it in that
\* cluster: the range of the query starts after the end of the cluster before.
LEMMA RangesInClusters ==
  ASSUME NEW ends \in Seq(Nat), \A b, c \in DOMAIN ends : b < c => ends[b] <= ends[c],
         NEW c \in 1..Len(ends), NEW d \in Nat, InRange(AllRanges(ends)[c], d)
  PROVE  d \in DOMAIN DocToRange(ends) /\ DocToRange(ends)[d] = c - 1
<1> DEFINE map == DocToRange(ends)
<1>1. Len(ends) \in Nat /\ DOMAIN ends = 1..Len(ends) /\ \A b \in 1..Len(ends) : ends[b] \in Nat
  BY LenProperties, ElementOfSeq
<1>2. d < ends[c] /\ (c # 1 => ends[c - 1] + 1 <= d)
  BY <1>1 DEF InRange, AllRanges
<1>3. d \in DOMAIN map
  BY <1>2, ClusterNumbers
<1>4. PICK b \in 1..Len(ends) : /\ d < ends[b] /\ map[d] = b - 1
                               /\ \A e \in 1..Len(ends) : d < ends[e] => b <= e
  <2> HIDE DEF map
  <2> QED BY <1>3, ClusterNumbers DEF map
<1>5. b <= c
  BY <1>2, <1>4
<1>6. ASSUME b < c PROVE FALSE
  <2>1. c - 1 \in 1..Len(ends) /\ b <= c - 1 /\ c # 1
    BY <1>1, <1>6
  <2>2. b \in DOMAIN ends /\ c - 1 \in DOMAIN ends /\ ends[b] \in Nat
    BY <1>1, <2>1
  <2>3. b = c - 1 \/ b < c - 1
    BY <2>1
  <2>4. ends[b] <= ends[c - 1]
    BY <2>2, <2>3
  <2> QED BY <1>1, <1>2, <1>4, <2>1, <2>4
<1> QED BY <1>1, <1>3, <1>4, <1>5, <1>6

-----------------------------------------------------------------------------
(* Numbers in order, and sequences of sequences.                            *)

\* The elements of a set of numbers from the lowest on.
Ascending(S) == [i \in 1..Cardinality(S) |->
                 CHOOSE x \in S : Cardinality({y \in S : y < x}) = i - 1]

\* All elements come, each once, the lower before the higher.
LEMMA AscendingFacts ==
  ASSUME NEW D \in SUBSET Nat, IsFiniteSet(D)
  PROVE  /\ Cardinality(D) \in Nat
         /\ Ascending(D) \in Seq(D) /\ Len(Ascending(D)) = Cardinality(D)
         /\ \A i \in 1..Cardinality(D) :
              Ascending(D)[i] \in D /\ RankIn(D, Ascending(D)[i]) = i
         /\ \A i, j \in 1..Cardinality(D) : i < j => Ascending(D)[i] < Ascending(D)[j]
         /\ \A x \in D : \E i \in 1..Cardinality(D) : Ascending(D)[i] = x
<1> DEFINE n == Cardinality(D)
           Below(x) == {y \in D : y < x}
<1>1. n \in Nat
  BY FS_CardinalityType
<1>2. ASSUME NEW x \in D PROVE Cardinality(Below(x)) = RankIn(D, x) - 1
  <2> DEFINE upTo == {y \in D : y <= x}
  <2>1. x \in upTo /\ Below(x) = upTo \ {x}
    <3>1. x \in Nat /\ \A y \in D : y \in Nat
      BY <1>2
    <3>2. \A y \in D : y < x <=> y <= x /\ y # x
      BY <3>1
    <3>3. \A y : y \in Below(x) <=> y \in upTo \ {x}
      BY <3>2
    <3>4. x \in upTo
      BY <1>2, <3>1
    <3> HIDE DEF Below, upTo
    <3> QED BY <3>3, <3>4
  <2>2. IsFiniteSet(upTo)
    BY FS_Subset
  <2>3. Cardinality(upTo \ {x}) = Cardinality(upTo) - 1
    <3> HIDE DEF upTo
    <3> QED BY <2>1, <2>2, FS_RemoveElement
  <2> QED BY <2>1, <2>3 DEF RankIn
<1>3. /\ \A d \in D : RankIn(D, d) \in 1..n
      /\ \A d, e \in D : d < e => RankIn(D, d) < RankIn(D, e)
      /\ \A j \in 1..n : \E d \in D : RankIn(D, d) = j
  BY Ranks
<1>4. ASSUME NEW i \in 1..n
      PROVE  Ascending(D)[i] \in D /\ RankIn(D, Ascending(D)[i]) = i
  <2>1. \A x \in D : Cardinality(Below(x)) = i - 1 <=> RankIn(D, x) = i
    <3> SUFFICES ASSUME NEW x \in D
                 PROVE  Cardinality(Below(x)) = i - 1 <=> RankIn(D, x) = i
      OBVIOUS
    <3>1. RankIn(D, x) \in Int /\ i \in Int
      <4> HIDE DEF n
      <4> QED BY <1>1, <1>3, <1>4
    <3>2. Cardinality(Below(x)) = RankIn(D, x) - 1
      BY <1>2
    <3> HIDE DEF Below
    <3> QED BY <3>1, <3>2
  <2>2. \E x \in D : Cardinality(Below(x)) = i - 1
    <3> HIDE DEF Below, n
    <3> QED BY <1>3, <1>4, <2>1
  <2>3. Ascending(D)[i] = CHOOSE x \in D : Cardinality(Below(x)) = i - 1
    BY <1>4 DEF Ascending
  <2> HIDE DEF Below
  <2> QED BY <2>1, <2>2, <2>3
<1>5. ASSUME NEW i \in 1..n, NEW j \in 1..n, i < j PROVE Ascending(D)[i] < Ascending(D)[j]
  <2>1. /\ Ascending(D)[i] \in D /\ RankIn(D, Ascending(D)[i]) = i
        /\ Ascending(D)[j] \in D /\ RankIn(D, Ascending(D)[j]) = j
    BY <1>4
  <2>2. PICK x \in D : x = Ascending(D)[i]
    BY <2>1
  <2>3. PICK y \in D : y = Ascending(D)[j]
    BY <2>1
  <2>4. RankIn(D, x) = i /\ RankIn(D, y) = j /\ i \in Int /\ j \in Int
    <3> HIDE DEF n
    <3> QED BY <1>1, <1>5, <2>1, <2>2, <2>3
  <2>5. ~(y < x) /\ x # y
    <3> HIDE DEF n
    <3> QED BY <1>3, <1>5, <2>4
  <2>6. x < y
    BY <2>5
  <2> QED BY <2>2, <2>3, <2>6
<1>6. ASSUME NEW x \in D PROVE \E i \in 1..n : Ascending(D)[i] = x
  <2>1. PICK i \in 1..n : i = RankIn(D, x)
    BY <1>3
  <2>2. Ascending(D)[i] \in D /\ RankIn(D, Ascending(D)[i]) = i
    BY <1>4
  <2>3. PICK y \in D : y = Ascending(D)[i]
    BY <2>2
  <2>4. RankIn(D, y) = RankIn(D, x) /\ i \in Int
    BY <1>1, <2>1, <2>2, <2>3
  <2>5. ~(y < x) /\ ~(x < y)
    <3> HIDE DEF n
    <3> QED BY <1>3, <2>1, <2>4
  <2>6. x = y
    BY <2>5
  <2> QED BY <2>3, <2>6
<1>7. Ascending(D) \in Seq(D) /\ Len(Ascending(D)) = n
  <2>1. Ascending(D) \in [1..n -> D]
    BY <1>4 DEF Ascending
  <2> HIDE DEF n
  <2>2. Ascending(D) \in Seq(D)
    BY <1>1, <2>1
  <2> QED BY <1>1, <2>1, <2>2
<1> QED BY <1>1, <1>4, <1>5, <1>6, <1>7

\* starts[k] elements of flat come before those of seqs[k].
Starts(seqs, flat, starts) ==
  /\ starts \in [1..(Len(seqs) + 1) -> Nat]
  /\ starts[1] = 0 /\ starts[Len(seqs) + 1] = Len(flat)
  /\ \A k \in 1..Len(seqs) :
       /\ starts[k + 1] = starts[k] + Len(seqs[k]) /\ starts[k + 1] <= Len(flat)
       /\ \A j \in 1..Len(seqs[k]) : flat[starts[k] + j] = seqs[k][j]
  /\ \A p \in 1..Len(flat) :
       \E k \in 1..Len(seqs) : \E j \in 1..Len(seqs[k]) : p = starts[k] + j

\* FlattenSeq by what it appends.
LEMMA FlattenUnfolds ==
  ASSUME NEW seqs, Len(seqs) \in Nat \ {0}
  PROVE  \E f : /\ f = [i \in 1..Len(seqs) |-> IF i = 1 THEN seqs[i] ELSE f[i - 1] \o seqs[i]]
                /\ FlattenSeq(seqs) = f[Len(seqs)]
<1> DEFINE n == Len(seqs)
           Rec(m, f) == f = [i \in 1..m |-> IF i = 1 THEN seqs[i] ELSE f[i - 1] \o seqs[i]]
           S == {m \in Nat : \E f : Rec(m, f)}
<1>1. 0 \in S
  <2>1. Rec(0, [i \in 1..0 |-> 0])
    OBVIOUS
  <2> QED BY <2>1
<1>2. ASSUME NEW m \in Nat, m \in S PROVE m + 1 \in S
  <2>1. PICK f : Rec(m, f)
    BY <1>2
  <2> DEFINE g == [i \in 1..(m + 1) |-> IF i = 1 THEN seqs[i] ELSE f[i - 1] \o seqs[i]]
  <2>2. \A i \in 1..m : g[i] = f[i]
    <3>1. ASSUME NEW i \in 1..m PROVE g[i] = f[i]
      <4>1. f[i] = IF i = 1 THEN seqs[i] ELSE f[i - 1] \o seqs[i]
        BY <2>1, <3>1, Zenon
      <4>2. i \in 1..(m + 1)
        BY <1>2, <3>1
      <4>3. g[i] = IF i = 1 THEN seqs[i] ELSE f[i - 1] \o seqs[i]
        BY <4>2, Zenon
      <4> QED BY <4>1, <4>3
    <3> QED BY <3>1
  <2>3. Rec(m + 1, g)
    <3>1. \A i \in 1..(m + 1) : i # 1 => i - 1 \in 1..m
      OBVIOUS
    <3>2. \A i \in 1..(m + 1) : i # 1 => g[i - 1] = f[i - 1]
      <4> HIDE DEF g
      <4> QED BY <2>2, <3>1
    <3>3. g = [i \in 1..(m + 1) |-> IF i = 1 THEN seqs[i] ELSE g[i - 1] \o seqs[i]]
      <4>1. ASSUME NEW i \in 1..(m + 1)
            PROVE  (IF i = 1 THEN seqs[i] ELSE f[i - 1] \o seqs[i])
                     = (IF i = 1 THEN seqs[i] ELSE g[i - 1] \o seqs[i])
        <5> HIDE DEF g
        <5> QED BY <3>2
      <4> QED BY <4>1, Zenon
    <3> HIDE DEF g
    <3> QED BY <3>3
  <2> HIDE DEF g, Rec
  <2> QED BY <2>3
<1>3. \A m \in Nat : m \in S
  <2> HIDE DEF S
  <2> QED BY <1>1, <1>2, SetOfNaturals
<1>4. \E f : Rec(n, f)
  <2>1. n \in S
    BY <1>3
  <2> QED BY <2>1
<1> DEFINE flatten == CHOOSE f : Rec(n, f)
<1>5. Rec(n, flatten)
  <2> HIDE DEF Rec
  <2> QED BY <1>4
<1>6. FlattenSeq(seqs) = flatten[n]
  BY Zenon DEF FlattenSeq
<1> HIDE DEF flatten
<1> QED BY <1>5, <1>6

\* Every element of a sequence of sequences comes, in its place.
LEMMA FlattenFacts ==
  ASSUME NEW S, NEW seqs \in Seq(Seq(S))
  PROVE  /\ FlattenSeq(seqs) \in Seq(S)
         /\ \E starts : Starts(seqs, FlattenSeq(seqs), starts)
<1> DEFINE n == Len(seqs)
<1>1. n \in Nat /\ \A k \in 1..n : seqs[k] \in Seq(S) /\ Len(seqs[k]) \in Nat
  OBVIOUS
<1>2. CASE n = 0
  <2>1. FlattenSeq(seqs) = << >>
    BY <1>2 DEF FlattenSeq
  <2>2. Starts(seqs, << >>, [k \in 1..1 |-> 0])
    BY <1>2 DEF Starts
  <2> QED BY <2>1, <2>2
<1>3. CASE n # 0
  <2>1. PICK f : /\ f = [i \in 1..n |-> IF i = 1 THEN seqs[i] ELSE f[i - 1] \o seqs[i]]
                 /\ FlattenSeq(seqs) = f[n]
    <3>1. Len(seqs) \in Nat \ {0}
      BY <1>1, <1>3
    <3> QED BY <3>1, FlattenUnfolds
  <2>2. f[1] = seqs[1] /\ \A i \in 1..(n - 1) : f[i + 1] = f[i] \o seqs[i + 1]
    <3>1. f[1] = seqs[1]
      BY <1>1, <1>3, <2>1
    <3>2. ASSUME NEW i \in 1..(n - 1) PROVE f[i + 1] = f[i] \o seqs[i + 1]
      <4>1. i + 1 \in 1..n /\ i + 1 # 1 /\ (i + 1) - 1 = i
        BY <1>1, <3>2
      <4> QED BY <2>1, <4>1
    <3> QED BY <3>1, <3>2
  <2> DEFINE Before(k) == IF k = 1 THEN 0 ELSE Len(f[k - 1])
             Holds(m) == /\ f[m] \in Seq(S)
                         /\ \A k \in 1..m : \A j \in 1..Len(seqs[k]) :
                              /\ Before(k) + j \in 1..Len(f[m])
                              /\ f[m][Before(k) + j] = seqs[k][j]
                         /\ \A p \in 1..Len(f[m]) :
                              \E k \in 1..m : \E j \in 1..Len(seqs[k]) : p = Before(k) + j
                         /\ \A k \in 1..m : /\ Before(k) \in Nat
                                             /\ Len(f[k]) = Before(k) + Len(seqs[k])
                                             /\ Len(f[k]) <= Len(f[m])
             T == {m \in Nat : m + 1 \in 1..n => Holds(m + 1)}
  <2> HIDE DEF n
  <2>3. 0 \in T
    <3>1. Holds(1)
      <4>1. 1 \in 1..n
        BY <1>1, <1>3
      <4>2. f[1] \in Seq(S) /\ f[1] = seqs[1] /\ Len(seqs[1]) \in Nat
        BY <1>1, <2>2, <4>1
      <4>3. Before(1) = 0
        OBVIOUS
      <4> HIDE DEF Before
      <4> QED BY <4>2, <4>3
    <3>2. 0 + 1 = 1
      OBVIOUS
    <3> HIDE DEF Holds
    <3> QED BY <3>1, <3>2
  <2>4. ASSUME NEW m \in Nat, m \in T PROVE m + 1 \in T
    <3> SUFFICES ASSUME (m + 1) + 1 \in 1..n PROVE Holds((m + 1) + 1)
      <4> HIDE DEF Holds
      <4> QED OBVIOUS
    <3> DEFINE c == m + 1
    <3>1. c \in 1..n /\ c \in 1..(n - 1) /\ c + 1 \in 1..n /\ c + 1 # 1 /\ (c + 1) - 1 = c
      BY <1>1
    <3>2. Holds(c)
      BY <2>4, <3>1
    <3>3. f[c + 1] = f[c] \o seqs[c + 1] /\ f[c] \in Seq(S) /\ seqs[c + 1] \in Seq(S)
      BY <1>1, <2>2, <3>1, <3>2
    <3>4. Before(c + 1) = Len(f[c])
      BY <3>1
    <3> HIDE DEF Before, c
    <3> USE DEF Holds
    <3>5. PICK a \in Seq(S) : a = f[c]
      BY <3>3
    <3>6. PICK b \in Seq(S) : b = seqs[c + 1]
      BY <3>3
    <3>7. /\ f[c + 1] = a \o b
          /\ a \o b \in Seq(S)
          /\ Len(a \o b) = Len(a) + Len(b)
          /\ \A j \in 1..Len(a) : (a \o b)[j] = a[j]
          /\ \A j \in 1..Len(b) : (a \o b)[Len(a) + j] = b[j]
          /\ Len(a) \in Nat /\ Len(b) \in Nat
      <4>1. f[c + 1] = a \o b
        BY <3>3, <3>5, <3>6
      <4>2. Len(a) \in Nat /\ Len(b) \in Nat
        BY LenProperties
      <4>3. /\ a \o b \in Seq(S)
            /\ Len(a \o b) = Len(a) + Len(b)
            /\ \A i \in 1..(Len(a) + Len(b)) :
                 (a \o b)[i] = IF i <= Len(a) THEN a[i] ELSE b[i - Len(a)]
        BY ConcatProperties
      <4>4. \A j \in 1..Len(a) : j \in 1..(Len(a) + Len(b)) /\ j <= Len(a)
        BY <4>2
      <4>5. \A j \in 1..Len(b) : /\ Len(a) + j \in 1..(Len(a) + Len(b)) /\ ~(Len(a) + j <= Len(a))
                                 /\ (Len(a) + j) - Len(a) = j
        BY <4>2
      <4>6. \A j \in 1..Len(b) : (a \o b)[Len(a) + j] = b[j]
        BY <4>3, <4>5
      <4> QED BY <4>1, <4>2, <4>3, <4>4, <4>6
    <3>8. c \in Nat /\ \A k \in 1..(c + 1) : k \in 1..c \/ k = c + 1
      BY <3>1
    <3>9. ASSUME NEW k \in 1..(c + 1), NEW j \in 1..Len(seqs[k])
          PROVE  Before(k) + j \in 1..Len(f[c + 1]) /\ f[c + 1][Before(k) + j] = seqs[k][j]
      <4>1. CASE k \in 1..c
        <5>1. Before(k) + j \in 1..Len(a) /\ a[Before(k) + j] = seqs[k][j]
          BY <3>2, <3>5, <3>9, <4>1
        <5> QED BY <3>7, <5>1
      <4>2. CASE k = c + 1
        <5>1. Before(k) = Len(a) /\ seqs[k] = b
          BY <3>4, <3>5, <3>6, <4>2
        <5> QED BY <3>7, <3>9, <5>1
      <4> QED BY <3>8, <3>9, <4>1, <4>2
    <3>10. ASSUME NEW p \in 1..Len(f[c + 1])
           PROVE  \E k \in 1..(c + 1) : \E j \in 1..Len(seqs[k]) : p = Before(k) + j
      <4>1. p \in 1..Len(a) \/ p - Len(a) \in 1..Len(b)
        BY <3>7, <3>10
      <4>2. CASE p \in 1..Len(a)
        <5>1. PICK k \in 1..c : \E j \in 1..Len(seqs[k]) : p = Before(k) + j
          BY <3>2, <3>5, <4>2
        <5>2. k \in 1..(c + 1)
          BY <3>8
        <5> QED BY <5>1, <5>2
      <4>3. CASE p - Len(a) \in 1..Len(b)
        <5>1. p = Len(a) + (p - Len(a))
          BY <3>7, <3>10
        <5>2. Before(c + 1) = Len(a) /\ seqs[c + 1] = b /\ c + 1 \in 1..(c + 1)
          BY <3>4, <3>5, <3>6, <3>8
        <5> QED BY <4>3, <5>1, <5>2
      <4> QED BY <4>1, <4>2, <4>3
    <3>11. ASSUME NEW k \in 1..(c + 1)
           PROVE  /\ Before(k) \in Nat /\ Len(f[k]) = Before(k) + Len(seqs[k])
                  /\ Len(f[k]) <= Len(f[c + 1])
      <4>1. CASE k \in 1..c
        <5>1. Before(k) \in Nat /\ Len(f[k]) = Before(k) + Len(seqs[k]) /\ Len(f[k]) <= Len(a)
          BY <3>2, <3>5, <4>1
        <5>2. Len(seqs[k]) \in Nat
          BY <1>1, <3>1, <4>1
        <5> QED BY <3>7, <5>1, <5>2
      <4>2. CASE k = c + 1
        <5>1. Len(f[k]) = Len(a) + Len(b) /\ f[k] = f[c + 1]
          BY <3>7, <4>2
        <5>2. Before(k) = Len(a) /\ seqs[k] = b
          BY <3>4, <3>5, <3>6, <4>2
        <5>3. Len(a) + Len(b) <= Len(a) + Len(b)
          BY <3>7
        <5> QED BY <3>7, <5>1, <5>2, <5>3
      <4> QED BY <3>8, <4>1, <4>2
    <3>12. f[c + 1] \in Seq(S)
      BY <3>7
    <3> USE DEF c
    <3> QED BY <3>9, <3>10, <3>11, <3>12
  <2>5. \A m \in Nat : m \in T
    <3> HIDE DEF T
    <3> QED BY <2>3, <2>4, SetOfNaturals
  <2>6. Holds(n)
    <3>1. n - 1 \in Nat /\ (n - 1) + 1 = n /\ n \in 1..n
      BY <1>1, <1>3
    <3>2. n - 1 \in T
      BY <2>5, <3>1
    <3> HIDE DEF Holds
    <3> QED BY <3>1, <3>2
  <2> DEFINE starts == [k \in 1..(n + 1) |-> Before(k)]
  <2>7. /\ starts \in [1..(n + 1) -> Nat]
        /\ \A k \in 1..n : /\ starts[k] = Before(k) /\ starts[k + 1] = starts[k] + Len(seqs[k])
                           /\ starts[k + 1] <= Len(f[n])
        /\ starts[1] = 0 /\ starts[n + 1] = Len(f[n])
    <3>1. Before(1) = 0 /\ \A k \in 1..n : Before(k + 1) = Len(f[k])
      BY <1>1
    <3>2. \A k \in 1..n : /\ Before(k) \in Nat /\ Len(f[k]) = Before(k) + Len(seqs[k])
                          /\ Len(f[k]) <= Len(f[n])
      BY <2>6
    <3> HIDE DEF Before
    <3>3. Before(n + 1) \in Nat
      <4>1. n \in 1..n
        BY <1>1, <1>3
      <4>2. Len(f[n]) \in Nat
        BY <1>1, <3>2, <4>1
      <4> QED BY <3>1, <4>1, <4>2
    <3>4. \A k \in 1..(n + 1) : k \in 1..n \/ k = n + 1
      BY <1>1
    <3>5. \A k \in 1..(n + 1) : Before(k) \in Nat
      BY <3>2, <3>3, <3>4
    <3>6. n \in 1..n /\ 1 \in 1..(n + 1) /\ n + 1 \in 1..(n + 1)
          /\ \A k \in 1..n : k \in 1..(n + 1) /\ k + 1 \in 1..(n + 1)
      BY <1>1, <1>3
    <3> QED BY <3>1, <3>2, <3>5, <3>6
  <2>8. Starts(seqs, f[n], starts)
    <3>1. \A k \in 1..n : \A j \in 1..Len(seqs[k]) : f[n][starts[k] + j] = seqs[k][j]
      <4> SUFFICES ASSUME NEW k \in 1..n, NEW j \in 1..Len(seqs[k])
                   PROVE  f[n][starts[k] + j] = seqs[k][j]
        OBVIOUS
      <4> HIDE DEF Before, starts
      <4>1. starts[k] = Before(k)
        BY <2>7
      <4>2. f[n][Before(k) + j] = seqs[k][j]
        BY <2>6
      <4> QED BY <4>1, <4>2
    <3>2. ASSUME NEW p \in 1..Len(f[n])
          PROVE  \E k \in 1..n : \E j \in 1..Len(seqs[k]) : p = starts[k] + j
      <4> HIDE DEF Before, starts
      <4>1. PICK k \in 1..n : \E j \in 1..Len(seqs[k]) : p = Before(k) + j
        BY <2>6, <3>2
      <4>2. starts[k] = Before(k)
        BY <2>7, <4>1
      <4> QED BY <4>1, <4>2
    <3> HIDE DEF starts, Holds
    <3> QED BY <2>7, <3>1, <3>2 DEF Starts, n
  <2> QED BY <2>1, <2>6, <2>8
<1> QED BY <1>2, <1>3

-----------------------------------------------------------------------------
(* Counting and sorting.                                                    *)

\* How many elements of a sequence are x.
CountIn(s, x) == Cardinality({p \in DOMAIN s : s[p] = x})

\* f pairs the elements of S with those of T.
Pairs(f, S, T) ==
  /\ DOMAIN f = S
  /\ \A x \in S : f[x] \in T
  /\ \A x, y \in S : f[x] = f[y] => x = y
  /\ \A t \in T : \E x \in S : f[x] = t

\* Sets with as many elements, by a function from one to the other.
LEMMA SameCount ==
  ASSUME NEW S, IsFiniteSet(S), NEW T, NEW f, Pairs(f, S, T)
  PROVE  IsFiniteSet(T) /\ Cardinality(T) = Cardinality(S)
<1> DEFINE g == [x \in S |-> f[x]]
<1>1. g \in Surjection(S, T) /\ g \in Injection(S, T)
  BY DEF Pairs, Surjection, Injection, IsInjective
<1> HIDE DEF g
<1> QED BY <1>1, FS_Surjection

\* The place of i among I in an order: how many do not come after it.
PlaceIn(I, order, i) == Cardinality({j \in I : <<j, i>> \in order \/ j = i})

\* In a strict order of n things the places are 1 to n.
LEMMA OrderedPlaces ==
  ASSUME NEW I, IsFiniteSet(I), NEW order,
         \A i \in I : <<i, i>> \notin order,
         \A i, j \in I : i = j \/ <<i, j>> \in order \/ <<j, i>> \in order,
         \A i, j, k \in I : <<i, j>> \in order /\ <<j, k>> \in order => <<i, k>> \in order
  PROVE  /\ Cardinality(I) \in Nat
         /\ \A i \in I : PlaceIn(I, order, i) \in 1..Cardinality(I)
         /\ \A i, j \in I : <<i, j>> \in order => PlaceIn(I, order, i) < PlaceIn(I, order, j)
         /\ \A k \in 1..Cardinality(I) : \E i \in I : PlaceIn(I, order, i) = k
<1> DEFINE n == Cardinality(I)
           UpTo(i) == {j \in I : <<j, i>> \in order \/ j = i}
           place(i) == PlaceIn(I, order, i)
<1>1. n \in Nat
  BY FS_CardinalityType
<1>2. ASSUME NEW i \in I PROVE IsFiniteSet(UpTo(i)) /\ place(i) \in 1..n
  <2>1. UpTo(i) \in SUBSET I /\ i \in UpTo(i)
    BY <1>2
  <2>2. IsFiniteSet(UpTo(i)) /\ Cardinality(UpTo(i)) <= n
    <3> HIDE DEF UpTo
    <3> QED BY <2>1, FS_Subset
  <2>3. Cardinality(UpTo(i)) \in Nat /\ Cardinality(UpTo(i)) # 0
    <3> HIDE DEF UpTo
    <3> QED BY <2>1, <2>2, FS_CardinalityType, FS_EmptySet
  <2> QED BY <1>1, <2>2, <2>3 DEF PlaceIn
<1>3. ASSUME NEW i \in I, NEW j \in I, <<i, j>> \in order PROVE place(i) < place(j)
  <2>1. UpTo(i) \in SUBSET UpTo(j) /\ j \in UpTo(j) /\ j \notin UpTo(i)
    <3>1. j \in UpTo(j)
      BY <1>3
    <3>2. j \notin UpTo(i)
      BY <1>3
    <3>3. ASSUME NEW x \in UpTo(i) PROVE x \in UpTo(j)
      BY <1>3, <3>3
    <3> HIDE DEF UpTo
    <3> QED BY <3>1, <3>2, <3>3
  <2>2. Cardinality(UpTo(i)) <= Cardinality(UpTo(j)) /\ UpTo(i) # UpTo(j)
    <3> HIDE DEF UpTo
    <3> QED BY <1>2, <1>3, <2>1, FS_Subset
  <2>3. Cardinality(UpTo(i)) # Cardinality(UpTo(j))
    <3> HIDE DEF UpTo
    <3> QED BY <1>2, <1>3, <2>1, <2>2, FS_Subset
  <2>4. place(i) \in Nat /\ place(j) \in Nat
    <3> HIDE DEF n, UpTo, place
    <3> QED BY <1>1, <1>2, <1>3
  <2> QED BY <2>2, <2>3, <2>4 DEF PlaceIn
<1>4. \A k \in 1..n : \E i \in I : place(i) = k
  <2> DEFINE f == [i \in I |-> place(i)]
             R == {f[i] : i \in I}
  <2>1. \A i, j \in I : f[i] = f[j] => i = j
    <3> SUFFICES ASSUME NEW i \in I, NEW j \in I, place(i) = place(j) PROVE i = j
      OBVIOUS
    <3>1. place(i) \in Nat /\ place(j) \in Nat
      <4> HIDE DEF n, UpTo, place
      <4> QED BY <1>1, <1>2
    <3>2. <<i, j>> \notin order /\ <<j, i>> \notin order
      <4> HIDE DEF place
      <4> QED BY <1>3, <3>1
    <3> QED BY <3>2
  <2>2. f \in Surjection(I, R) /\ f \in Injection(I, R)
    BY <2>1 DEF Surjection, Injection, IsInjective
  <2>3. Cardinality(R) = n
    <3> HIDE DEF f, R
    <3> QED BY <2>2, FS_Surjection
  <2>4. R \in SUBSET (1..n)
    <3> SUFFICES ASSUME NEW i \in I PROVE place(i) \in 1..n
      OBVIOUS
    <3> HIDE DEF n, place
    <3> QED BY <1>2
  <2>5. IsFiniteSet(1..n) /\ Cardinality(1..n) = n
    BY <1>1, FS_Interval
  <2>6. R = 1..n
    <3> HIDE DEF R, f
    <3> QED BY <2>3, <2>4, <2>5, FS_Subset
  <2> HIDE DEF n, place
  <2> QED BY <2>6
<1> QED BY <1>1, <1>2, <1>3, <1>4

\* What comes in one of the sequences only comes as often in all of them together.
LEMMA FlattenCount ==
  ASSUME NEW S, NEW seqs \in Seq(Seq(S)), NEW x, NEW k \in 1..Len(seqs),
         \A l \in 1..Len(seqs) : \A j \in 1..Len(seqs[l]) : seqs[l][j] = x => l = k
  PROVE  CountIn(FlattenSeq(seqs), x) = CountIn(seqs[k], x)
<1> DEFINE F == FlattenSeq(seqs)
           A == {j \in DOMAIN seqs[k] : seqs[k][j] = x}
           B == {p \in DOMAIN F : F[p] = x}
<1>1. PICK starts : Starts(seqs, F, starts)
  BY FlattenFacts
<1>2. /\ F \in Seq(S) /\ Len(F) \in Nat /\ DOMAIN F = 1..Len(F)
      /\ seqs[k] \in Seq(S) /\ Len(seqs[k]) \in Nat /\ DOMAIN seqs[k] = 1..Len(seqs[k])
  <2>1. F \in Seq(S)
    BY FlattenFacts
  <2>2. seqs[k] \in Seq(S)
    OBVIOUS
  <2> HIDE DEF F
  <2> QED BY <2>1, <2>2, LenProperties
<1> HIDE DEF F
<1>3. /\ starts[k] \in Nat
      /\ \A j \in 1..Len(seqs[k]) : F[starts[k] + j] = seqs[k][j]
      /\ starts[k] + Len(seqs[k]) <= Len(F)
  <2>1. Len(seqs) \in Nat /\ k \in 1..(Len(seqs) + 1)
    OBVIOUS
  <2> QED BY <1>1, <2>1 DEF Starts
<1>4. ASSUME NEW p \in 1..Len(F), F[p] = x
      PROVE  \E j \in 1..Len(seqs[k]) : p = starts[k] + j /\ seqs[k][j] = x
  <2>1. PICK l \in 1..Len(seqs) : \E j \in 1..Len(seqs[l]) : p = starts[l] + j
    BY <1>1 DEF Starts
  <2>2. PICK j \in 1..Len(seqs[l]) : p = starts[l] + j
    BY <2>1
  <2>3. F[starts[l] + j] = seqs[l][j]
    BY <1>1, <2>1, <2>2 DEF Starts
  <2>4. l = k
    BY <1>4, <2>1, <2>2, <2>3
  <2> QED BY <1>4, <2>2, <2>3, <2>4
<1> DEFINE f == [j \in A |-> starts[k] + j]
<1>5. IsFiniteSet(A) /\ \A j \in A : j \in 1..Len(seqs[k]) /\ seqs[k][j] = x
  <2>1. A \in SUBSET (1..Len(seqs[k])) /\ \A j \in A : seqs[k][j] = x
    BY <1>2
  <2>2. IsFiniteSet(1..Len(seqs[k]))
    <3>1. \A n \in Nat : IsFiniteSet(1..n)
      BY FS_Interval
    <3> QED BY <1>2, <3>1
  <2> HIDE DEF A
  <2> QED BY <2>1, <2>2, FS_Subset
<1>6. \A j \in A : f[j] \in B
  <2> SUFFICES ASSUME NEW j \in A PROVE starts[k] + j \in B
    OBVIOUS
  <2>1. j \in 1..Len(seqs[k]) /\ seqs[k][j] = x
    BY <1>5
  <2>2. starts[k] + j \in 1..Len(F) /\ F[starts[k] + j] = x
    <3>1. F[starts[k] + j] = x
      BY <1>3, <2>1
    <3>2. starts[k] \in Nat /\ starts[k] + Len(seqs[k]) <= Len(F)
      BY <1>3
    <3>3. Len(F) \in Nat /\ Len(seqs[k]) \in Nat
      BY <1>2
    <3> QED BY <2>1, <3>1, <3>2, <3>3
  <2> QED BY <1>2, <2>2
<1>7. \A i, j \in A : f[i] = f[j] => i = j
  <2> SUFFICES ASSUME NEW i \in A, NEW j \in A, starts[k] + i = starts[k] + j PROVE i = j
    OBVIOUS
  <2>1. i \in Nat /\ j \in Nat
    BY <1>2, <1>5
  <2>2. starts[k] \in Nat
    BY <1>3
  <2> QED BY <2>1, <2>2
<1>8. \A p \in B : \E j \in A : f[j] = p
  <2> SUFFICES ASSUME NEW p \in B PROVE \E j \in A : starts[k] + j = p
    OBVIOUS
  <2>1. p \in 1..Len(F) /\ F[p] = x
    BY <1>2
  <2>2. PICK j \in 1..Len(seqs[k]) : p = starts[k] + j /\ seqs[k][j] = x
    BY <1>4, <2>1
  <2> QED BY <1>2, <2>2
<1>9. Cardinality(B) = Cardinality(A)
  <2>1. DOMAIN f = A
    OBVIOUS
  <2> HIDE DEF A, B, f
  <2>2. Pairs(f, A, B)
    BY <1>6, <1>7, <1>8, <2>1 DEF Pairs
  <2> QED BY <1>5, <2>2, SameCount
<1> QED BY <1>9 DEF CountIn, F

-----------------------------------------------------------------------------
(* A piece of a sequence replaced.                                          *)

\* Three sequences, one after the other.
InARow(a, b, c) == a \o b \o c

\* Their elements.
Row(r, a, b, c) ==
  /\ Len(r) = Len(a) + Len(b) + Len(c)
  /\ \A i \in 1..Len(a) : r[i] = a[i]
  /\ \A i \in 1..Len(b) : r[Len(a) + i] = b[i]
  /\ \A i \in 1..Len(c) : r[Len(a) + Len(b) + i] = c[i]

\* They come one after the other.
LEMMA ThreeInARow ==
  ASSUME NEW S, NEW a \in Seq(S), NEW b \in Seq(S), NEW c \in Seq(S)
  PROVE  InARow(a, b, c) \in Seq(S) /\ Row(InARow(a, b, c), a, b, c)
<1> DEFINE r == InARow(a, b, c)
<1> HIDE DEF r
<1>1. Len(a) \in Nat /\ Len(b) \in Nat /\ Len(c) \in Nat
  OBVIOUS
<1>2. PICK ab : ab = a \o b
  OBVIOUS
<1>3. /\ ab \in Seq(S) /\ Len(ab) = Len(a) + Len(b)
      /\ \A i \in 1..Len(ab) : ab[i] = IF i <= Len(a) THEN a[i] ELSE b[i - Len(a)]
  BY <1>2, ConcatProperties
<1>4. PICK abc : abc = ab \o c
  OBVIOUS
<1>5. /\ r \in Seq(S) /\ Len(r) = Len(ab) + Len(c)
      /\ \A i \in 1..Len(r) : r[i] = IF i <= Len(ab) THEN ab[i] ELSE c[i - Len(ab)]
  <2>1. /\ abc \in Seq(S) /\ Len(abc) = Len(ab) + Len(c)
        /\ \A i \in 1..Len(abc) : abc[i] = IF i <= Len(ab) THEN ab[i] ELSE c[i - Len(ab)]
    <3>1. ab \in Seq(S)
      BY <1>3
    <3> QED BY <1>4, <3>1, ConcatProperties
  <2>2. r = abc
    BY <1>2, <1>4 DEF InARow, r
  <2> QED BY <2>1, <2>2
<1>6. ASSUME NEW i \in 1..Len(a) PROVE r[i] = a[i]
  <2>1. i \in 1..Len(ab) /\ i \in 1..Len(r) /\ i <= Len(a) /\ i <= Len(ab)
    BY <1>1, <1>3, <1>5
  <2> QED BY <1>3, <1>5, <2>1
<1>7. ASSUME NEW i \in 1..Len(b) PROVE r[Len(a) + i] = b[i]
  <2>1. /\ Len(a) + i \in 1..Len(ab) /\ Len(a) + i \in 1..Len(r)
        /\ ~(Len(a) + i <= Len(a)) /\ Len(a) + i <= Len(ab) /\ Len(a) + i - Len(a) = i
    BY <1>1, <1>3, <1>5
  <2>2. r[Len(a) + i] = ab[Len(a) + i]
    BY <1>5, <2>1
  <2>3. ab[Len(a) + i] = b[Len(a) + i - Len(a)]
    BY <1>3, <2>1
  <2> QED BY <2>1, <2>2, <2>3
<1>8. ASSUME NEW i \in 1..Len(c) PROVE r[Len(a) + Len(b) + i] = c[i]
  <2>1. /\ Len(ab) + i \in 1..Len(r) /\ ~(Len(ab) + i <= Len(ab)) /\ Len(ab) + i - Len(ab) = i
        /\ Len(a) + Len(b) + i = Len(ab) + i
    BY <1>1, <1>3, <1>5
  <2>2. r[Len(ab) + i] = c[Len(ab) + i - Len(ab)]
    BY <1>5, <2>1
  <2> QED BY <2>1, <2>2
<1> QED BY <1>1, <1>3, <1>5, <1>6, <1>7, <1>8 DEF Row, r

\* Element i is replaced by two.
LEMMA ReplacedByTwo ==
  ASSUME NEW S, NEW s \in Seq(S), NEW i \in 1..Len(s), NEW x \in S, NEW y \in S,
         NEW r, r = InARow(SubSeq(s, 1, i - 1), <<x, y>>, SubSeq(s, i + 1, Len(s)))
  PROVE  /\ r \in Seq(S) /\ Len(r) = Len(s) + 1
         /\ \A k \in 1..(i - 1) : r[k] = s[k]
         /\ r[i] = x /\ r[i + 1] = y
         /\ \A k \in (i + 1)..Len(s) : r[k + 1] = s[k]
<1>1. PICK a : a = SubSeq(s, 1, i - 1)
  OBVIOUS
<1>2. PICK c : c = SubSeq(s, i + 1, Len(s))
  OBVIOUS
<1>3. PICK b : b = <<x, y>>
  OBVIOUS
<1>4. /\ Len(s) \in Nat /\ i \in Nat
      /\ a \in Seq(S) /\ Len(a) = i - 1 /\ \A k \in 1..(i - 1) : a[k] = s[k]
  BY <1>1
<1>5. c \in Seq(S) /\ Len(c) = Len(s) - i /\ \A k \in 1..(Len(s) - i) : c[k] = s[i + k]
  BY <1>2
<1>6. b \in Seq(S) /\ Len(b) = 2 /\ b[1] = x /\ b[2] = y
  BY <1>3
<1>7. /\ r \in Seq(S) /\ Len(r) = Len(a) + Len(b) + Len(c)
      /\ \A k \in 1..Len(a) : r[k] = a[k]
      /\ \A k \in 1..Len(b) : r[Len(a) + k] = b[k]
      /\ \A k \in 1..Len(c) : r[Len(a) + Len(b) + k] = c[k]
  <2>1. a \in Seq(S) /\ b \in Seq(S) /\ c \in Seq(S)
    BY <1>4, <1>5, <1>6
  <2>2. PICK w : w = InARow(a, b, c)
    OBVIOUS
  <2>3. w \in Seq(S) /\ Row(w, a, b, c)
    BY <2>1, <2>2, ThreeInARow
  <2>4. r = w
    BY <1>1, <1>2, <1>3, <2>2
  <2>5. r \in Seq(S) /\ Row(r, a, b, c)
    BY <2>3, <2>4
  <2> QED BY <2>5 DEF Row
<1>8. r[i] = x /\ r[i + 1] = y
  <2>1. Len(a) + 1 = i /\ Len(a) + 2 = i + 1 /\ 1 \in 1..Len(b) /\ 2 \in 1..Len(b)
    BY <1>4, <1>6
  <2>2. r[Len(a) + 1] = b[1] /\ r[Len(a) + 2] = b[2]
    BY <1>7, <2>1
  <2> QED BY <1>6, <2>1, <2>2
<1>9. ASSUME NEW k \in (i + 1)..Len(s) PROVE r[k + 1] = s[k]
  <2>1. /\ k - i \in 1..Len(c) /\ Len(a) + Len(b) + (k - i) = k + 1 /\ i + (k - i) = k
        /\ k - i \in 1..(Len(s) - i)
    BY <1>4, <1>5, <1>6
  <2>2. r[Len(a) + Len(b) + (k - i)] = c[k - i]
    BY <1>7, <2>1
  <2>3. c[k - i] = s[i + (k - i)]
    BY <1>5, <2>1
  <2> QED BY <2>1, <2>2, <2>3
<1>10. ASSUME NEW k \in 1..(i - 1) PROVE r[k] = s[k]
  BY <1>4, <1>7
<1>11. r \in Seq(S) /\ Len(r) = Len(s) + 1
  <2>1. Len(a) = i - 1 /\ Len(s) \in Nat /\ i \in Nat
    BY <1>4
  <2>2. Len(c) = Len(s) - i
    BY <1>5
  <2>3. r \in Seq(S) /\ Len(r) = Len(a) + Len(b) + Len(c) /\ Len(b) = 2
    BY <1>6, <1>7
  <2> QED BY <2>1, <2>2, <2>3
<1> QED BY <1>8, <1>9, <1>10, <1>11

\* Elements i and i + 1 are replaced by one.
LEMMA TwoReplaced ==
  ASSUME NEW S, NEW s \in Seq(S), NEW i \in 1..(Len(s) - 1), NEW x \in S,
         NEW r, r = InARow(SubSeq(s, 1, i - 1), <<x>>, SubSeq(s, i + 2, Len(s)))
  PROVE  /\ r \in Seq(S) /\ Len(r) = Len(s) - 1
         /\ \A k \in 1..(i - 1) : r[k] = s[k]
         /\ r[i] = x
         /\ \A k \in (i + 2)..Len(s) : r[k - 1] = s[k]
<1>1. PICK a : a = SubSeq(s, 1, i - 1)
  OBVIOUS
<1>2. PICK c : c = SubSeq(s, i + 2, Len(s))
  OBVIOUS
<1>3. PICK b : b = <<x>>
  OBVIOUS
<1>4. /\ Len(s) \in Nat /\ i \in Nat
      /\ a \in Seq(S) /\ Len(a) = i - 1 /\ \A k \in 1..(i - 1) : a[k] = s[k]
  BY <1>1
<1>5. c \in Seq(S) /\ Len(c) = Len(s) - i - 1 /\ \A k \in 1..(Len(s) - i - 1) : c[k] = s[i + 1 + k]
  BY <1>2
<1>6. b \in Seq(S) /\ Len(b) = 1 /\ b[1] = x
  BY <1>3
<1>7. /\ r \in Seq(S) /\ Len(r) = Len(a) + Len(b) + Len(c)
      /\ \A k \in 1..Len(a) : r[k] = a[k]
      /\ \A k \in 1..Len(b) : r[Len(a) + k] = b[k]
      /\ \A k \in 1..Len(c) : r[Len(a) + Len(b) + k] = c[k]
  <2>1. a \in Seq(S) /\ b \in Seq(S) /\ c \in Seq(S)
    BY <1>4, <1>5, <1>6
  <2>2. PICK w : w = InARow(a, b, c)
    OBVIOUS
  <2>3. w \in Seq(S) /\ Row(w, a, b, c)
    BY <2>1, <2>2, ThreeInARow
  <2>4. r = w
    BY <1>1, <1>2, <1>3, <2>2
  <2>5. r \in Seq(S) /\ Row(r, a, b, c)
    BY <2>3, <2>4
  <2> QED BY <2>5 DEF Row
<1>8. r[i] = x
  <2>1. Len(a) + 1 = i /\ 1 \in 1..Len(b)
    BY <1>4, <1>6
  <2>2. r[Len(a) + 1] = b[1]
    BY <1>7, <2>1
  <2> QED BY <1>6, <2>1, <2>2
<1>9. ASSUME NEW k \in (i + 2)..Len(s) PROVE r[k - 1] = s[k]
  <2>1. /\ k - i - 1 \in 1..Len(c) /\ Len(a) + Len(b) + (k - i - 1) = k - 1
        /\ i + 1 + (k - i - 1) = k /\ k - i - 1 \in 1..(Len(s) - i - 1)
    BY <1>4, <1>5, <1>6
  <2>2. r[Len(a) + Len(b) + (k - i - 1)] = c[k - i - 1]
    BY <1>7, <2>1
  <2>3. c[k - i - 1] = s[i + 1 + (k - i - 1)]
    BY <1>5, <2>1
  <2> QED BY <2>1, <2>2, <2>3
<1>10. ASSUME NEW k \in 1..(i - 1) PROVE r[k] = s[k]
  BY <1>4, <1>7
<1>11. r \in Seq(S) /\ Len(r) = Len(s) - 1
  <2>1. Len(a) = i - 1 /\ Len(s) \in Nat /\ i \in Nat
    BY <1>4
  <2>2. Len(c) = Len(s) - i - 1
    BY <1>5
  <2>3. r \in Seq(S) /\ Len(r) = Len(a) + Len(b) + Len(c) /\ Len(b) = 1
    BY <1>6, <1>7
  <2> QED BY <2>1, <2>2, <2>3, SMTT(20)
<1> QED BY <1>8, <1>9, <1>10, <1>11

-----------------------------------------------------------------------------
(* The queue of results.                                                    *)

\* score is that of the front of the heap made of the entries S.
FrontScore(score, S) == \E e \in S : (\A f \in S : e.score <= f.score) /\ e.score = score

\* At most k entries S above floor, and the threshold t that goes with them.
QueueFrom(floor, k, S, t) ==
  /\ IsFiniteSet(S) /\ Cardinality(S) <= k
  /\ IF Cardinality(S) = k THEN FrontScore(t, S) ELSE t = floor
  /\ \A e \in S : e.score > floor

\* An entry that may enter makes T and u of them.
Enters(k, S, t, entry, T, u) ==
  /\ entry.score > t
  /\ \/ /\ Cardinality(S) < k
        /\ T = S \cup {entry}
        /\ IF Cardinality(S) + 1 = k THEN FrontScore(u, T) ELSE u = t
     \/ /\ Cardinality(S) >= k
        /\ \E low \in S \cup {entry} :
             /\ \A f \in S \cup {entry} : low.score <= f.score
             /\ T = (S \cup {entry}) \ {low}
        /\ FrontScore(u, T)

\* The queue stays as it should be, the threshold does not fall, and an entry is
\* dropped only when nothing of its score can enter.
LEMMA InsertFacts ==
  ASSUME NEW k \in Nat \ {0}, NEW floor \in Nat,
         NEW E, \A e \in E : e.score \in Nat,
         NEW S \in SUBSET E, NEW t \in Nat, QueueFrom(floor, k, S, t),
         NEW entry \in E, entry \notin S,
         NEW T, NEW u, Enters(k, S, t, entry, T, u)
  PROVE  /\ T \in SUBSET E /\ u \in Nat /\ QueueFrom(floor, k, T, u)
         /\ u >= t
         /\ T \subseteq S \cup {entry}
         /\ \A e \in (S \cup {entry}) \ T : e.score <= u
<1> USE DEF QueueFrom, Enters
<1> DEFINE pushed == S \cup {entry}
<1>1. /\ pushed \in SUBSET E /\ IsFiniteSet(pushed)
      /\ Cardinality(pushed) = Cardinality(S) + 1 /\ Cardinality(S) \in Nat
  BY FS_AddElement, FS_CardinalityType
<1>2. \A e \in S : e.score >= t
  BY DEF FrontScore
<1>3. t >= floor
  BY FS_EmptySet DEF FrontScore
<1>4. \A e \in pushed : e.score >= t /\ e.score > floor
  BY <1>2, <1>3
<1>5. CASE /\ Cardinality(S) < k
           /\ T = pushed
           /\ IF Cardinality(S) + 1 = k THEN FrontScore(u, T) ELSE u = t
  <2>1. u \in Nat /\ u >= t
    BY <1>1, <1>4, <1>5 DEF FrontScore
  <2>2. t = floor
    BY <1>1, <1>5
  <2> QED BY <1>1, <1>4, <1>5, <2>1, <2>2
<1>6. CASE /\ Cardinality(S) >= k
           /\ \E low \in pushed :
                /\ \A f \in pushed : low.score <= f.score
                /\ T = pushed \ {low}
           /\ FrontScore(u, T)
  <2>1. PICK low \in pushed : (\A f \in pushed : low.score <= f.score) /\ T = pushed \ {low}
    BY <1>6
  <2>2. IsFiniteSet(T) /\ Cardinality(T) = Cardinality(pushed) - 1
    BY <1>1, <2>1, FS_RemoveElement
  <2>3. Cardinality(T) = k
    BY <1>1, <1>6, <2>2
  <2>4. PICK f \in T : f.score = u
    BY <1>6 DEF FrontScore
  <2>5. f \in pushed /\ low.score <= u
    BY <2>1, <2>4
  <2>6. u \in Nat /\ u >= t
    BY <1>1, <1>4, <2>4, <2>5
  <2>7. \A e \in pushed \ T : e.score <= u
    BY <2>1, <2>5
  <2> QED BY <1>1, <1>4, <1>6, <2>1, <2>2, <2>3, <2>6, <2>7
<1> QED BY <1>5, <1>6
=============================================================================
