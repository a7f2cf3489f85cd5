----------------------------- MODULE Sums_proofs -----------------------------
(***************************************************************************)
(* What Total does, for any finite set and any integers; and what is known *)
(* of products and quotients of integers.                                  *)
(***************************************************************************)
EXTENDS Sums, FiniteSetTheorems, WellFoundedInduction, TLAPS

\* Induction over a finite set: what holds of a set when it holds of its proper subsets
\* holds of all of them.  G is the set of the sets it holds of.
LEMMA SubsetInduction ==
    ASSUME NEW S, IsFiniteSet(S), NEW G,
           \A T \in SUBSET S : (\A U \in SUBSET T : U # T => U \in G) => T \in G
    PROVE  SUBSET S \subseteq G
<1> DEFINE B == (SUBSET S) \ G
<1> SUFFICES ASSUME B # {} PROVE FALSE
    OBVIOUS
<1>1. B \subseteq FiniteSubsetsOf(S)
    BY FS_Subset DEF FiniteSubsetsOf
<1>2. PICK T \in B : \A U \in B : ~(<<U, T>> \in StrictSubsetOrdering(S))
    <2> HIDE DEF B
    <2> QED
        BY <1>1, FS_StrictSubsetOrderingWellFounded, WFMin
<1>3. \A U \in SUBSET T : U # T => U \in G
    BY <1>2 DEF StrictSubsetOrdering
<1> QED
    BY <1>3

\* Induction over the naturals, from the sizes of sets.
LEMMA NaturalInduction ==
    ASSUME NEW G, 0 \in G, \A n \in Nat : n \in G => n + 1 \in G
    PROVE  Nat \subseteq G
<1> SUFFICES ASSUME NEW n \in Nat PROVE n \in G
    OBVIOUS
<1> DEFINE I == 1..n
           Sized == {T \in SUBSET I : Cardinality(T) \in G}
<1>1. IsFiniteSet(I) /\ Cardinality(I) = n
    BY FS_Interval
<1> HIDE DEF I
<1>2. ASSUME NEW T \in SUBSET I, \A U \in SUBSET T : U # T => U \in Sized
      PROVE  T \in Sized
    <2>1. CASE T = {}
        BY <2>1, FS_EmptySet
    <2>2. ASSUME NEW x \in T PROVE Cardinality(T) \in G
        <3>1. IsFiniteSet(T)
            BY <1>1, FS_Subset
        <3>2. Cardinality(T \ {x}) = Cardinality(T) - 1 /\ Cardinality(T) \in Nat
            BY <3>1, FS_RemoveElement, FS_CardinalityType
        <3>3. Cardinality(T \ {x}) \in G
            BY <1>2
        <3>4. Cardinality(T \ {x}) \in Nat
            BY <3>1, FS_RemoveElement, FS_CardinalityType
        <3> DEFINE k == Cardinality(T \ {x})
        <3>5. k \in G /\ k \in Nat /\ Cardinality(T) = k + 1
            BY <3>2, <3>3, <3>4
        <3> HIDE DEF k
        <3> QED
            BY <3>5
    <2> QED
        BY <2>1, <2>2
<1>3. SUBSET I \subseteq Sized
    <2> HIDE DEF Sized
    <2> QED BY <1>1, <1>2, SubsetInduction
<1> QED
    BY <1>1, <1>3

-----------------------------------------------------------------------------
\* The element a fold takes first, and what it recurs to.
First(T) == CHOOSE x \in T : TRUE
Rest(T) == T \ {First(T)}

\* First chooses an element, and Rest is what it leaves.
LEMMA FirstRest ==
    ASSUME NEW T, T # {}
    PROVE  /\ First(T) \in T
           /\ Rest(T) \in SUBSET T /\ Rest(T) # T
BY DEF First, Rest

\* g is the function the fold over S defines.
IsSum(f, S, g) ==
    g = [T \in SUBSET S |-> IF T = {} THEN 0 ELSE f[First(T)] + g[Rest(T)]]

\* The fold behind Total is the value of a function that satisfies the recursion.
LEMMA TotalChooses ==
    ASSUME NEW f, NEW S
    PROVE  Total(f, S) = (CHOOSE g : IsSum(f, S, g))[S]
BY DEF Total, MapThenSumSet, MapThenFoldSet, IsSum, First, Rest

\* Two such functions agree on what both define.
LEMMA SumUnique ==
    ASSUME NEW f, NEW S, IsFiniteSet(S), NEW R, NEW g, NEW h,
           IsSum(f, S, g), IsSum(f, R, h), S \subseteq R
    PROVE  \A T \in SUBSET S : g[T] = h[T]
<1> DEFINE G == {T \in SUBSET S : g[T] = h[T]}
<1>1. ASSUME NEW T \in SUBSET S, \A U \in SUBSET T : U # T => U \in G
      PROVE  T \in G
    <2>1. T # {} => g[Rest(T)] = h[Rest(T)]
        BY <1>1, FirstRest
    <2>2. g[T] = (IF T = {} THEN 0 ELSE f[First(T)] + g[Rest(T)])
        BY DEF IsSum
    <2>3. h[T] = (IF T = {} THEN 0 ELSE f[First(T)] + h[Rest(T)])
        BY DEF IsSum
    <2> QED
        BY <2>1, <2>2, <2>3
<1>2. SUBSET S \subseteq G
    <2> HIDE DEF G
    <2> QED BY <1>1, SubsetInduction
<1> QED
    BY <1>2

\* Where there are such functions, Total satisfies their equation.
LEMMA TotalFollows ==
    ASSUME NEW f, NEW S, IsFiniteSet(S),
           \A T \in SUBSET S : \E g : IsSum(f, T, g)
    PROVE  Total(f, S) = IF S = {} THEN 0 ELSE f[First(S)] + Total(f, Rest(S))
<1> DEFINE g == CHOOSE g : IsSum(f, S, g)
           h == CHOOSE h : IsSum(f, Rest(S), h)
<1>1. IsSum(f, S, g) /\ Total(f, S) = g[S]
    BY TotalChooses
<1>2. g[S] = IF S = {} THEN 0 ELSE f[First(S)] + g[Rest(S)]
    BY <1>1 DEF IsSum
<1>3. ASSUME S # {} PROVE g[Rest(S)] = Total(f, Rest(S))
    <2>1. Rest(S) \in SUBSET S /\ IsFiniteSet(Rest(S))
        BY <1>3, FirstRest, FS_Subset
    <2>2. IsSum(f, Rest(S), h) /\ Total(f, Rest(S)) = h[Rest(S)]
        BY <2>1, TotalChooses
    <2> QED
        BY <1>1, <2>1, <2>2, SumUnique
<1> QED
    BY <1>1, <1>2, <1>3

\* On the subsets of a finite set such a function exists.
LEMMA SumExists ==
    ASSUME NEW f, NEW S, IsFiniteSet(S)
    PROVE  \A T \in SUBSET S : \E g : IsSum(f, T, g)
<1> DEFINE G == {T \in SUBSET S : \E g : IsSum(f, T, g)}
<1>1. ASSUME NEW T \in SUBSET S, \A U \in SUBSET T : U # T => U \in G
      PROVE  T \in G
    <2>1. ASSUME NEW U \in SUBSET T, U # T
          PROVE  Total(f, U) = IF U = {} THEN 0 ELSE f[First(U)] + Total(f, Rest(U))
        <3>1. \A V \in SUBSET U : \E g : IsSum(f, V, g)
            BY <1>1, <2>1
        <3> QED
            BY <3>1, TotalFollows, FS_Subset
    <2> DEFINE g == [U \in SUBSET T |->
                        IF U = {} THEN 0 ELSE f[First(U)] + Total(f, Rest(U))]
    <2>2. ASSUME NEW U \in SUBSET T, U # {} PROVE g[Rest(U)] = Total(f, Rest(U))
        <3>1. Rest(U) \in SUBSET T /\ Rest(U) # T
            BY <2>2, FirstRest
        <3> QED
            BY <2>1, <3>1
    <2>3. IsSum(f, T, g)
        BY <2>2 DEF IsSum
    <2> QED
        BY <2>3
<1>2. SUBSET S \subseteq G
    <2> HIDE DEF G
    <2> QED BY <1>1, SubsetInduction
<1> QED
    BY <1>2

-----------------------------------------------------------------------------
\* A sum is the first value and the sum of the others.
THEOREM TotalUnfolds ==
    ASSUME NEW f, NEW S, IsFiniteSet(S)
    PROVE  Total(f, S) = IF S = {} THEN 0 ELSE f[First(S)] + Total(f, Rest(S))
BY SumExists, TotalFollows

\* The sum over no elements is zero.
LEMMA TotalOfNone ==
    ASSUME NEW f
    PROVE  Total(f, {}) = 0
BY TotalUnfolds, FS_EmptySet

\* A sum of integers is an integer.
LEMMA TotalType ==
    ASSUME NEW S, IsFiniteSet(S), NEW f, \A x \in S : f[x] \in Int
    PROVE  Total(f, S) \in Int
<1> DEFINE G == {T \in SUBSET S : Total(f, T) \in Int}
<1>1. ASSUME NEW T \in SUBSET S, \A U \in SUBSET T : U # T => U \in G
      PROVE  T \in G
    <2>1. IsFiniteSet(T)
        BY FS_Subset
    <2>2. Total(f, T) = IF T = {} THEN 0 ELSE f[First(T)] + Total(f, Rest(T))
        BY <2>1, TotalUnfolds
    <2>3. T # {} => f[First(T)] \in Int /\ Total(f, Rest(T)) \in Int
        BY <1>1, FirstRest
    <2> QED
        BY <2>2, <2>3
<1>2. SUBSET S \subseteq G
    <2> HIDE DEF G
    <2> QED BY <1>1, SubsetInduction
<1> QED
    BY <1>2

\* Any element may be taken first.
LEMMA TotalSplits ==
    ASSUME NEW S, IsFiniteSet(S), NEW f, \A x \in S : f[x] \in Int
    PROVE  \A x \in S : Total(f, S) = f[x] + Total(f, S \ {x})
<1> DEFINE G == {T \in SUBSET S : \A x \in T : Total(f, T) = f[x] + Total(f, T \ {x})}
<1>1. ASSUME NEW T \in SUBSET S, \A U \in SUBSET T : U # T => U \in G
      PROVE  T \in G
    <2> SUFFICES ASSUME NEW x \in T
                 PROVE  Total(f, T) = f[x] + Total(f, T \ {x})
        OBVIOUS
    <2> DEFINE p == First(T)
               both == (T \ {p}) \ {x}
    <2>1. p \in T /\ IsFiniteSet(T)
        BY FirstRest, FS_Subset
    <2>2. Total(f, T) = f[p] + Total(f, T \ {p})
        BY <2>1, TotalUnfolds DEF Rest
    <2>3. CASE p = x
        BY <2>2, <2>3
    <2>4. CASE p # x
        <3>1. Total(f, T \ {p}) = f[x] + Total(f, both)
            BY <1>1, <2>1, <2>4
        <3>2. Total(f, T \ {x}) = f[p] + Total(f, both)
            <4>1. both = (T \ {x}) \ {p}
                OBVIOUS
            <4>2. T \ {x} \in G /\ p \in T \ {x}
                BY <1>1, <2>1, <2>4
            <4> QED
                BY <4>1, <4>2
        <3>3. f[p] \in Int /\ f[x] \in Int /\ Total(f, both) \in Int
            BY <2>1, TotalType, FS_Subset
        <3> HIDE DEF both, p
        <3> QED
            BY <2>2, <3>1, <3>2, <3>3
    <2> QED
        BY <2>3, <2>4
<1>2. SUBSET S \subseteq G
    <2> HIDE DEF G
    <2> QED BY <1>1, SubsetInduction
<1> QED
    BY <1>2

\* Summands that nowhere exceed others have no larger total.
LEMMA TotalMonotonic ==
    ASSUME NEW S, IsFiniteSet(S), NEW f, NEW g,
           \A x \in S : f[x] \in Int /\ g[x] \in Int /\ f[x] <= g[x]
    PROVE  Total(f, S) <= Total(g, S)
<1> DEFINE G == {T \in SUBSET S : Total(f, T) <= Total(g, T)}
<1>1. ASSUME NEW T \in SUBSET S, \A U \in SUBSET T : U # T => U \in G
      PROVE  T \in G
    <2>1. CASE T = {}
        BY <2>1, TotalOfNone
    <2>2. ASSUME NEW x \in T PROVE Total(f, T) <= Total(g, T)
        <3>1. IsFiniteSet(T) /\ IsFiniteSet(T \ {x})
            BY FS_Subset
        <3>2. /\ Total(f, T) = f[x] + Total(f, T \ {x})
              /\ Total(g, T) = g[x] + Total(g, T \ {x})
            BY <3>1, TotalSplits
        <3>3. Total(f, T \ {x}) <= Total(g, T \ {x})
            BY <1>1
        <3>4. Total(f, T \ {x}) \in Int /\ Total(g, T \ {x}) \in Int
            BY <3>1, TotalType
        <3> QED
            BY <3>2, <3>3, <3>4
    <2> QED
        BY <2>1, <2>2
<1>2. SUBSET S \subseteq G
    <2> HIDE DEF G
    <2> QED BY <1>1, SubsetInduction
<1> QED
    BY <1>2

\* A total depends on the summands alone.
LEMMA TotalSame ==
    ASSUME NEW S, IsFiniteSet(S), NEW f, NEW g,
           \A x \in S : f[x] \in Int /\ f[x] = g[x]
    PROVE  Total(f, S) = Total(g, S)
<1>1. Total(f, S) <= Total(g, S) /\ Total(g, S) <= Total(f, S)
    BY TotalMonotonic
<1>2. Total(f, S) \in Int /\ Total(g, S) \in Int
    BY TotalType
<1> QED
    BY <1>1, <1>2

\* What one summand gains, the total gains.
LEMMA TotalChanges ==
    ASSUME NEW S, IsFiniteSet(S), NEW f, NEW g, NEW x \in S,
           \A y \in S : f[y] \in Int /\ g[y] \in Int,
           \A y \in S \ {x} : g[y] = f[y]
    PROVE  Total(g, S) = Total(f, S) + (g[x] - f[x])
<1>1. IsFiniteSet(S \ {x})
    BY FS_Subset
<1>2. Total(g, S \ {x}) = Total(f, S \ {x})
    BY <1>1, TotalSame
<1>3. Total(f, S) = f[x] + Total(f, S \ {x}) /\ Total(g, S) = g[x] + Total(g, S \ {x})
    BY TotalSplits
<1>4. Total(f, S \ {x}) \in Int
    BY <1>1, TotalType
<1> QED
    BY <1>2, <1>3, <1>4

\* The total of pointwise sums is the sum of the totals.
LEMMA TotalAdds ==
    ASSUME NEW S, IsFiniteSet(S), NEW f, NEW g, NEW h,
           \A x \in S : f[x] \in Int /\ g[x] \in Int /\ h[x] = f[x] + g[x]
    PROVE  Total(h, S) = Total(f, S) + Total(g, S)
<1> DEFINE G == {T \in SUBSET S : Total(h, T) = Total(f, T) + Total(g, T)}
<1>1. ASSUME NEW T \in SUBSET S, \A U \in SUBSET T : U # T => U \in G
      PROVE  T \in G
    <2>1. CASE T = {}
        BY <2>1, TotalOfNone
    <2>2. ASSUME NEW x \in T PROVE Total(h, T) = Total(f, T) + Total(g, T)
        <3>1. IsFiniteSet(T) /\ IsFiniteSet(T \ {x})
            BY FS_Subset
        <3>2. /\ Total(f, T) = f[x] + Total(f, T \ {x})
              /\ Total(g, T) = g[x] + Total(g, T \ {x})
              /\ Total(h, T) = h[x] + Total(h, T \ {x})
            BY <3>1, TotalSplits
        <3>3. Total(h, T \ {x}) = Total(f, T \ {x}) + Total(g, T \ {x})
            BY <1>1
        <3>4. Total(f, T \ {x}) \in Int /\ Total(g, T \ {x}) \in Int
            BY <3>1, TotalType
        <3> QED
            BY <3>2, <3>3, <3>4
    <2> QED
        BY <2>1, <2>2
<1>2. SUBSET S \subseteq G
    <2> HIDE DEF G
    <2> QED BY <1>1, SubsetInduction
<1> QED
    BY <1>2

\* A factor common to all summands.
LEMMA TotalScales ==
    ASSUME NEW S, IsFiniteSet(S), NEW c \in Int, NEW f, NEW h,
           \A x \in S : f[x] \in Int /\ h[x] = c * f[x]
    PROVE  Total(h, S) = c * Total(f, S)
<1> DEFINE G == {T \in SUBSET S : Total(h, T) = c * Total(f, T)}
<1>1. ASSUME NEW T \in SUBSET S, \A U \in SUBSET T : U # T => U \in G
      PROVE  T \in G
    <2>1. CASE T = {}
        BY <2>1, TotalOfNone
    <2>2. ASSUME NEW x \in T PROVE Total(h, T) = c * Total(f, T)
        <3>1. IsFiniteSet(T) /\ IsFiniteSet(T \ {x})
            BY FS_Subset
        <3>2. \A y \in S : c * f[y] \in Int
            OBVIOUS
        <3>3. \A y \in T : f[y] \in Int /\ h[y] \in Int
            BY <3>2
        <3>4. /\ Total(f, T) = f[x] + Total(f, T \ {x})
              /\ Total(h, T) = h[x] + Total(h, T \ {x})
            BY <3>1, <3>3, TotalSplits
        <3>5. Total(h, T \ {x}) = c * Total(f, T \ {x})
            BY <1>1
        <3>6. Total(f, T \ {x}) \in Int /\ f[x] \in Int /\ h[x] = c * f[x]
            BY <3>1, <3>3, TotalType
        <3>7. c * (f[x] + Total(f, T \ {x})) = c * f[x] + c * Total(f, T \ {x})
            BY <3>6
        <3> QED
            BY <3>4, <3>5, <3>6, <3>7
    <2> QED
        BY <2>1, <2>2
<1>2. SUBSET S \subseteq G
    <2> HIDE DEF G
    <2> QED BY <1>1, SubsetInduction
<1> QED
    BY <1>2

\* A sum of ones counts.
LEMMA TotalOfOnes ==
    ASSUME NEW S, IsFiniteSet(S), NEW f, \A x \in S : f[x] = 1
    PROVE  Total(f, S) = Cardinality(S)
<1> DEFINE G == {T \in SUBSET S : Total(f, T) = Cardinality(T)}
<1>1. ASSUME NEW T \in SUBSET S, \A U \in SUBSET T : U # T => U \in G
      PROVE  T \in G
    <2>1. CASE T = {}
        BY <2>1, TotalOfNone, FS_EmptySet
    <2>2. ASSUME NEW x \in T PROVE Total(f, T) = Cardinality(T)
        <3>1. IsFiniteSet(T)
            BY FS_Subset
        <3>2. Total(f, T) = f[x] + Total(f, T \ {x})
            BY <3>1, TotalSplits
        <3>3. Total(f, T \ {x}) = Cardinality(T \ {x})
            BY <1>1
        <3>4. Cardinality(T \ {x}) = Cardinality(T) - 1 /\ Cardinality(T) \in Nat
            BY <3>1, FS_RemoveElement, FS_CardinalityType
        <3> QED
            BY <3>2, <3>3, <3>4
    <2> QED
        BY <2>1, <2>2
<1>2. SUBSET S \subseteq G
    <2> HIDE DEF G
    <2> QED BY <1>1, SubsetInduction
<1> QED
    BY <1>2

\* A total of zeros is zero.
LEMMA TotalOfZeros ==
    ASSUME NEW S, IsFiniteSet(S), NEW f, \A x \in S : f[x] = 0
    PROVE  Total(f, S) = 0
<1> DEFINE G == {T \in SUBSET S : Total(f, T) = 0}
<1>1. ASSUME NEW T \in SUBSET S, \A U \in SUBSET T : U # T => U \in G
      PROVE  T \in G
    <2>1. T # {} => f[First(T)] = 0 /\ Total(f, Rest(T)) = 0
        BY <1>1, FirstRest
    <2>2. Total(f, T) = IF T = {} THEN 0 ELSE f[First(T)] + Total(f, Rest(T))
        BY TotalUnfolds, FS_Subset
    <2> QED
        BY <2>1, <2>2
<1>2. SUBSET S \subseteq G
    <2> HIDE DEF G
    <2> QED BY <1>1, SubsetInduction
<1> QED
    BY <1>2

\* A total of naturals is one, and no summand exceeds it.
LEMMA TotalOfNaturals ==
    ASSUME NEW S, IsFiniteSet(S), NEW f, \A x \in S : f[x] \in Nat
    PROVE  /\ Total(f, S) \in Nat
           /\ \A x \in S : f[x] <= Total(f, S)
<1> DEFINE zero == [x \in S |-> 0]
<1>1. ASSUME NEW T \in SUBSET S PROVE Total(f, T) \in Int /\ 0 <= Total(f, T)
    <2>1. IsFiniteSet(T)
        BY FS_Subset
    <2>2. Total(zero, T) = 0
        BY <2>1, TotalOfZeros
    <2>3. Total(zero, T) <= Total(f, T)
        BY <2>1, TotalMonotonic
    <2> QED
        BY <2>1, <2>2, <2>3, TotalType
<1>2. ASSUME NEW x \in S PROVE f[x] <= Total(f, S)
    <2>1. Total(f, S) = f[x] + Total(f, S \ {x})
        BY TotalSplits
    <2> QED
        BY <1>1, <2>1
<1> QED
    BY <1>1, <1>2

\* Fewer naturals add up to no more.
LEMMA TotalOfSubset ==
    ASSUME NEW S, IsFiniteSet(S), NEW f, \A x \in S : f[x] \in Nat, NEW R \in SUBSET S
    PROVE  Total(f, R) <= Total(f, S)
<1> DEFINE G == {T \in SUBSET S : \A U \in SUBSET T : Total(f, U) <= Total(f, T)}
<1>1. ASSUME NEW T \in SUBSET S, \A U \in SUBSET T : U # T => U \in G
      PROVE  T \in G
    <2> SUFFICES ASSUME NEW U \in SUBSET T PROVE Total(f, U) <= Total(f, T)
        OBVIOUS
    <2>1. IsFiniteSet(T) /\ Total(f, T) \in Nat
        <3>1. IsFiniteSet(T)
            BY FS_Subset
        <3> QED
            BY <3>1, TotalOfNaturals
    <2>2. CASE U = T
        BY <2>1, <2>2
    <2>3. ASSUME NEW x \in T, x \notin U PROVE Total(f, U) <= Total(f, T)
        <3> DEFINE R1 == T \ {x}
        <3>1. R1 \in SUBSET T /\ R1 # T /\ U \in SUBSET R1 /\ IsFiniteSet(R1) /\ IsFiniteSet(U)
            BY <2>1, <2>3, FS_Subset
        <3>2. Total(f, U) <= Total(f, R1)
            BY <1>1, <3>1
        <3>3. Total(f, T) = f[x] + Total(f, R1)
            BY <2>1, TotalSplits
        <3> HIDE DEF R1
        <3>4. Total(f, U) \in Nat /\ Total(f, R1) \in Nat /\ f[x] \in Nat
            BY <3>1, TotalOfNaturals
        <3> QED
            BY <3>2, <3>3, <3>4
    <2> QED
        BY <2>2, <2>3
<1>2. SUBSET S \subseteq G
    <2> HIDE DEF G
    <2> QED
        BY <1>1, SubsetInduction
<1> QED
    BY <1>2

\* A sum grows when one summand does and no other falls.
LEMMA TotalRises ==
    ASSUME NEW S, IsFiniteSet(S), NEW f, NEW g, NEW x \in S,
           \A y \in S : f[y] \in Nat /\ g[y] \in Nat /\ f[y] <= g[y],
           f[x] < g[x]
    PROVE  Total(f, S) < Total(g, S)
<1> DEFINE R == S \ {x}
<1>1. IsFiniteSet(R)
    BY FS_Subset
<1>2. Total(f, S) = f[x] + Total(f, R) /\ Total(g, S) = g[x] + Total(g, R)
    BY TotalSplits
<1>3. Total(f, R) <= Total(g, R)
    BY <1>1, TotalMonotonic
<1>4. Total(f, R) \in Int /\ Total(g, R) \in Int
    BY <1>1, TotalType
<1> QED
    BY <1>2, <1>3, <1>4

\* What is zero outside a set adds nothing there.
LEMMA TotalOfRest ==
    ASSUME NEW S, IsFiniteSet(S), NEW f, \A x \in S : f[x] \in Int,
           NEW R \in SUBSET S, \A x \in S \ R : f[x] = 0
    PROVE  Total(f, S) = Total(f, R)
<1> DEFINE G == {T \in SUBSET S : Total(f, T) = Total(f, T \cap R)}
<1>1. ASSUME NEW T \in SUBSET S, \A U \in SUBSET T : U # T => U \in G
      PROVE  T \in G
    <2>1. CASE T \subseteq R
        <3>1. T \cap R = T
            BY <2>1
        <3> QED
            BY <3>1
    <2>2. CASE ~(T \subseteq R)
        <3>1. PICK x \in T : x \notin R
            BY <2>2
        <3>2. T \ {x} \in G
            BY <1>1, <3>1
        <3>3. (T \ {x}) \cap R = T \cap R
            BY <3>1
        <3>4. IsFiniteSet(T) /\ \A y \in T : f[y] \in Int
            BY FS_Subset
        <3>5. Total(f, T) = f[x] + Total(f, T \ {x}) /\ f[x] = 0
            BY <3>1, <3>4, TotalSplits
        <3>6. Total(f, T \ {x}) \in Int
            <4>1. IsFiniteSet(T \ {x}) /\ \A y \in T \ {x} : f[y] \in Int
                BY <3>4, FS_Subset
            <4> QED
                BY <4>1, TotalType
        <3>7. Total(f, T \ {x}) = Total(f, T \cap R)
            BY <3>2, <3>3
        <3> QED
            BY <3>5, <3>6, <3>7
    <2> QED
        BY <2>1, <2>2
<1>2. SUBSET S \subseteq G
    <2> HIDE DEF G
    <2> QED BY <1>1, SubsetInduction
<1>3. S \in G /\ S \cap R = R
    BY <1>2
<1> QED
    BY <1>3

\* A sum of roundings is between none and one for each that is rounded.
LEMMA RoundingsAddUp ==
    ASSUME NEW S, IsFiniteSet(S), NEW M \in SUBSET S, NEW c \in Nat, NEW h,
           \A x \in S : h[x] \in Int, \A x \in S \ M : h[x] = 0,
           \A x \in M : 0 <= h[x] /\ h[x] <= c
    PROVE  /\ Total(h, S) \in Int /\ Cardinality(M) \in Nat
           /\ 0 <= Total(h, S) /\ Total(h, S) <= c * Cardinality(M)
<1> DEFINE ones == [x \in M |-> 1]
           most == [x \in M |-> c * ones[x]]
<1>1. IsFiniteSet(M)
    BY FS_Subset
<1>2. Total(h, S) = Total(h, M)
    BY TotalOfRest
<1>3. Total(ones, M) = Cardinality(M) /\ Cardinality(M) \in Nat
    BY <1>1, TotalOfOnes, FS_CardinalityType
<1>4. \A x \in M : ones[x] \in Int /\ most[x] = c * ones[x] /\ most[x] = c
    OBVIOUS
<1> HIDE DEF ones, most
<1>5. Total(most, M) = c * Total(ones, M)
    BY <1>1, <1>4, TotalScales
<1>6. \A x \in M : h[x] \in Int /\ most[x] \in Int /\ h[x] <= most[x] /\ h[x] \in Nat
    BY <1>4
<1>7. Total(h, M) <= Total(most, M)
    BY <1>1, <1>6, TotalMonotonic
<1>8. Total(h, M) \in Nat
    BY <1>1, <1>6, TotalOfNaturals
<1> QED
    BY <1>2, <1>3, <1>5, <1>7, <1>8

\* What roundings of a kind leave, added up: J of ReportedValue.
LEMMA MissesAddUp ==
    ASSUME NEW P, IsFiniteSet(P), NEW M \in SUBSET P, NEW s \in Int, NEW t \in Int,
           NEW c \in Nat, NEW f, NEW g, \A x \in P : f[x] \in Int /\ g[x] \in Int,
           \A x \in P \ M : f[x] = 0 /\ g[x] = 0,
           \A x \in P : 0 <= s * f[x] - t * g[x] /\ s * f[x] - t * g[x] <= c
    PROVE  /\ Total(f, P) \in Int /\ Total(g, P) \in Int /\ Cardinality(M) \in Nat
           /\ 0 <= s * Total(f, P) - t * Total(g, P)
           /\ s * Total(f, P) - t * Total(g, P) <= c * Cardinality(M)
<1> DEFINE sf == [x \in P |-> s * f[x]]
           tg == [x \in P |-> (-t) * g[x]]
           h == [x \in P |-> s * f[x] - t * g[x]]
<1>1. \A x \in P : s * f[x] \in Int /\ t * g[x] \in Int /\ (-t) * g[x] = -(t * g[x])
    OBVIOUS
<1>2. \A x \in P : /\ sf[x] = s * f[x] /\ tg[x] = (-t) * g[x]
                   /\ sf[x] \in Int /\ tg[x] \in Int /\ h[x] = sf[x] + tg[x]
                   /\ h[x] = s * f[x] - t * g[x] /\ h[x] \in Int
    BY <1>1
<1> HIDE DEF sf, tg, h
<1>3. Total(sf, P) = s * Total(f, P)
    BY <1>2, TotalScales
<1>4. -t \in Int
    OBVIOUS
<1>5. Total(tg, P) = (-t) * Total(g, P)
    BY <1>2, <1>4, TotalScales
<1>6. Total(h, P) = Total(sf, P) + Total(tg, P)
    BY <1>2, TotalAdds
<1>7. \A x \in P \ M : h[x] = 0
    <2>1. s * 0 = 0 /\ t * 0 = 0
        OBVIOUS
    <2>2. \A x \in P \ M : h[x] = s * 0 - t * 0
        BY <1>2
    <2> QED
        BY <2>1, <2>2
<1>8. Total(f, P) \in Int /\ Total(g, P) \in Int
    BY TotalType
<1>9. \A x \in M : 0 <= h[x] /\ h[x] <= c
    BY <1>2
<1>10. /\ Total(h, P) \in Int /\ Cardinality(M) \in Nat
       /\ 0 <= Total(h, P) /\ Total(h, P) <= c * Cardinality(M)
    BY <1>2, <1>7, <1>9, RoundingsAddUp
<1>11. Total(h, P) = s * Total(f, P) - t * Total(g, P)
    <2>1. s * Total(f, P) \in Int /\ t * Total(g, P) \in Int
          /\ (-t) * Total(g, P) = -(t * Total(g, P))
        BY <1>8
    <2> QED
        BY <1>3, <1>5, <1>6, <2>1
<1> QED
    BY <1>8, <1>10, <1>11

\* A sum over more, of more: what is new to it was zero, and what changes is in it.
LEMMA TotalExtends ==
    ASSUME NEW E, NEW A, IsFiniteSet(A), E \subseteq A, NEW P, IsFiniteSet(P),
           NEW f, NEW g, NEW d, \A x \in A : f[x] \in Int, \A x \in P : d[x] \in Int,
           \A x \in A : g[x] = f[x] + (IF x \in P THEN d[x] ELSE 0),
           \A x \in A \ E : f[x] = 0, \A x \in P \ A : d[x] = 0
    PROVE  Total(g, A) = Total(f, E) + Total(d, P)
<1> DEFINE h == [x \in A |-> IF x \in P THEN d[x] ELSE 0]
           both == A \cap P
<1>1. \A x \in A : f[x] \in Int /\ h[x] \in Int /\ g[x] = f[x] + h[x]
                   /\ h[x] = IF x \in P THEN d[x] ELSE 0
    OBVIOUS
<1>2. both \in SUBSET A /\ both \in SUBSET P /\ IsFiniteSet(both)
    BY FS_Subset
<1>3. \A x \in both : h[x] \in Int /\ h[x] = d[x]
    OBVIOUS
<1>4. (\A x \in A \ both : h[x] = 0) /\ (\A x \in P \ both : d[x] = 0)
    OBVIOUS
<1> HIDE DEF h, both
<1>5. Total(g, A) = Total(f, A) + Total(h, A)
    BY <1>1, TotalAdds
<1>6. Total(f, A) = Total(f, E)
    BY TotalOfRest
<1>7. Total(h, A) = Total(h, both)
    BY <1>1, <1>2, <1>4, TotalOfRest
<1>8. Total(d, P) = Total(d, both)
    BY <1>2, <1>4, TotalOfRest
<1>9. Total(h, both) = Total(d, both)
    BY <1>2, <1>3, TotalSame
<1> QED
    BY <1>5, <1>6, <1>7, <1>8, <1>9

-----------------------------------------------------------------------------
\* Products and quotients of naturals.
LEMMA ProductAndQuotient ==
    ASSUME NEW a \in Nat, NEW b \in Nat
    PROVE  a * b \in Nat /\ (b > 0 => a \div b \in Nat)
<1>1. a * b \in Nat
    OBVIOUS
<1>2. b > 0 => a \div b \in Nat
    OBVIOUS
<1> QED
    BY <1>1, <1>2

\* A quotient is known by the two products it lies between.
LEMMA Quotient ==
    ASSUME NEW a \in Int, NEW b \in Nat, b > 0
    PROVE  /\ a \div b \in Int
           /\ b * (a \div b) <= a /\ a < b * (a \div b) + b
OBVIOUS

\* A factor that is not zero keeps the order, both ways.
LEMMA Cancel ==
    ASSUME NEW c \in Nat, c > 0, NEW x \in Int, NEW y \in Int
    PROVE  /\ c * x <= c * y => x <= y
           /\ c * x < c * y => x < y
           /\ x <= y => c * x <= c * y
           /\ x < y => c * x < c * y
OBVIOUS

LEMMA ProductsOrder ==
    ASSUME NEW c \in Nat, NEW x \in Int, NEW y \in Int, x <= y
    PROVE  c * x <= c * y
OBVIOUS

\* Quotients and products are ordered alike.
LEMMA QuotientBounds ==
    ASSUME NEW a \in Int, NEW b \in Nat, b > 0, NEW q \in Int
    PROVE  /\ b * q <= a => q <= a \div b
           /\ a < b * q => a \div b < q
<1>1. a \div b \in Int /\ b * (a \div b) <= a /\ a < b * (a \div b) + b
    BY Quotient
<1> DEFINE d == a \div b
<1> HIDE DEF d
<1>2. d \in Int /\ b * d <= a /\ a < b * d + b /\ b * d \in Int /\ b * q \in Int
    BY <1>1 DEF d
<1>3. b * (d + 1) = b * d + b
    BY <1>2
<1>4. b * q <= a => q < d + 1
    BY <1>2, <1>3, Cancel
<1>5. a < b * q => d < q
    BY <1>2, Cancel
<1> QED
    BY <1>2, <1>4, <1>5 DEF d

\* getValueFromUnderlyerAmount of two amounts, together and apart.
LEMMA QuotientOfSum ==
    ASSUME NEW a \in Int, NEW c \in Int, NEW b \in Nat, b > 0
    PROVE  /\ a \div b + c \div b <= (a + c) \div b
           /\ (a + c) \div b <= a \div b + c \div b + 1
<1> DEFINE x == a \div b
           y == c \div b
<1>1. /\ x \in Int /\ b * x <= a /\ a < b * x + b
      /\ y \in Int /\ b * y <= c /\ c < b * y + b
    BY Quotient
<1> HIDE DEF x, y
<1>2. b * (x + y) = b * x + b * y /\ b * (x + y + 2) = b * x + b * y + b + b
    BY <1>1
<1>3. b * x \in Int /\ b * y \in Int
    BY <1>1
<1>4. b * (x + y) <= a + c /\ a + c < b * (x + y + 2)
    BY <1>1, <1>2, <1>3
<1>5. x + y <= (a + c) \div b /\ (a + c) \div b < x + y + 2 /\ (a + c) \div b \in Int
    BY <1>1, <1>4, QuotientBounds, Quotient
<1> QED
    BY <1>1, <1>5 DEF x, y

\* A set of naturals has a least element.
LEMMA LeastOfNaturals ==
    ASSUME NEW S, S \subseteq Nat, S # {}
    PROVE  Min(S) \in S
<1> DEFINE H == {n \in Nat : \A k \in 0..n : k \in S => \E m \in S : \A x \in S : m <= x}
<1>1. 0 \in H
    <2> SUFFICES ASSUME 0 \in S PROVE \E m \in S : \A x \in S : m <= x
        OBVIOUS
    <2>1. \A x \in S : 0 <= x
        OBVIOUS
    <2> QED
        BY <2>1
<1>2. ASSUME NEW n \in Nat, n \in H
      PROVE  n + 1 \in H
    <2> SUFFICES ASSUME n + 1 \in S PROVE \E m \in S : \A x \in S : m <= x
        BY <1>2
    <2>1. CASE \E k \in 0..n : k \in S
        BY <1>2, <2>1
    <2>2. CASE ~\E k \in 0..n : k \in S
        <3>1. \A x \in S : n + 1 <= x
            BY <2>2
        <3> QED
            BY <3>1
    <2> QED
        BY <2>1, <2>2
<1>3. Nat \subseteq H
    <2> HIDE DEF H
    <2> QED
        BY <1>1, <1>2, NaturalInduction
<1>4. \E m \in S : \A x \in S : m <= x
    <2> PICK n \in S : TRUE
        OBVIOUS
    <2>1. n \in Nat /\ n \in 0..n /\ n \in H
        BY <1>3
    <2> QED
        BY <2>1
<1> QED
    BY <1>4 DEF Min
=============================================================================
