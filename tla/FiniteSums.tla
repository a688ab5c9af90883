------------------------------ MODULE FiniteSums ------------------------------
(***************************************************************************)
(* Facts about the sums of integers over finite sets that the balances are *)
(* stated with (MapThenSumSet): the sum of nothing is 0, an element adds   *)
(* its value whichever is chosen first, and values that agree have one     *)
(* sum.  Each is proved for a least set that could contradict it.          *)
(***************************************************************************)
EXTENDS Integers, FiniteSets, FiniteSetsExt, FiniteSetTheorems, WellFoundedInduction, TLAPS

\* The element MapThenSumSet takes from a set first.
Some(s) == CHOOSE x \in s : TRUE

SumOver(h, S) == MapThenSumSet(LAMBDA x : h[x], S)

\* f has the sum of every subset of S.
IsSum(f, h, S) ==
    f = [s \in SUBSET S |-> IF s = {} THEN 0 ELSE h[Some(s)] + f[s \ {Some(s)}]]

\* Among the subsets of a finite set with some property there is a least one.
LEMMA LeastSubset ==
    ASSUME NEW S, IsFiniteSet(S), NEW Bad, Bad \subseteq SUBSET S, Bad # {}
    PROVE  \E T \in Bad : \A U \in SUBSET T : U # T => U \notin Bad
<1>1. IsWellFoundedOn(StrictSubsetOrdering(S), SUBSET S)
  BY FS_StrictSubsetOrderingWellFounded, FS_FiniteSubsetsOfFinite
<1>2. PICK T \in Bad : \A U \in Bad : ~(<<U, T>> \in StrictSubsetOrdering(S))
  BY <1>1, WFMin
<1>3. ASSUME NEW U \in SUBSET T, U # T, U \in Bad PROVE FALSE
  <2>1. <<U, T>> \in (SUBSET S) \X (SUBSET S)
    BY <1>2, <1>3
  <2>2. <<U, T>> \in StrictSubsetOrdering(S)
    BY <2>1, <1>3 DEF StrictSubsetOrdering
  <2> QED
    BY <1>2, <1>3, <2>2
<1> QED
  BY <1>2, <1>3

LEMMA SomeIsIn == ASSUME NEW S, S # {} PROVE Some(S) \in S
BY DEF Some

\* The sums of a set's subsets are determined by the values of its elements.
LEMMA SumIsUnique ==
    ASSUME NEW S, IsFiniteSet(S), NEW A, NEW B, S \subseteq A, S \subseteq B,
           NEW g, NEW h, \A x \in S : g[x] = h[x],
           NEW e, NEW f, IsSum(e, g, A), IsSum(f, h, B)
    PROVE  e[S] = f[S]
<1> DEFINE Bad == {T \in SUBSET S : e[T] # f[T]}
<1> SUFFICES ASSUME Bad # {} PROVE FALSE
  OBVIOUS
<1>0. Bad \subseteq SUBSET S
  OBVIOUS
<1> HIDE DEF Bad
<1>1. PICK T \in Bad : \A U \in SUBSET T : U # T => U \notin Bad
  BY <1>0, LeastSubset
<1>2. T \in SUBSET S /\ e[T] # f[T]
  BY DEF Bad
<1>3. /\ e[T] = IF T = {} THEN 0 ELSE g[Some(T)] + e[T \ {Some(T)}]
      /\ f[T] = IF T = {} THEN 0 ELSE h[Some(T)] + f[T \ {Some(T)}]
  <2>1. T \in SUBSET A /\ T \in SUBSET B
    BY <1>2
  <2> QED
    BY <2>1 DEF IsSum
<1>4. T # {}
  BY <1>2, <1>3
<1> DEFINE x == Some(T)
<1>5. x \in T
  BY <1>4, SomeIsIn
<1>6. T \ {x} \in SUBSET T /\ T \ {x} # T /\ T \ {x} \in SUBSET S
  BY <1>2, <1>5
<1>7. e[T \ {x}] = f[T \ {x}]
  BY <1>1, <1>6 DEF Bad
<1>8. g[x] = h[x]
  BY <1>2, <1>5
<1> QED
  BY <1>2, <1>3, <1>4, <1>7, <1>8

\* A set whose proper subsets have sums has them itself.
LEMMA SumExists ==
    ASSUME NEW S, IsFiniteSet(S), NEW h
    PROVE  \E f : IsSum(f, h, S)
<1> DEFINE Bad == {T \in SUBSET S : ~\E f : IsSum(f, h, T)}
<1> SUFFICES ASSUME Bad # {} PROVE FALSE
  OBVIOUS
<1>0. Bad \subseteq SUBSET S
  OBVIOUS
<1> HIDE DEF Bad
<1>1. PICK T \in Bad : \A U \in SUBSET T : U # T => U \notin Bad
  BY <1>0, LeastSubset
<1>2. T \in SUBSET S /\ ~\E f : IsSum(f, h, T)
  BY DEF Bad
<1>3. IsFiniteSet(T)
  BY <1>2, FS_Subset
<1> DEFINE Of(U) == CHOOSE f : IsSum(f, h, U)
<1>4. ASSUME NEW U \in SUBSET T, U # T
      PROVE  IsSum(Of(U), h, U) /\ IsFiniteSet(U)
  <2>1. U \in SUBSET S
    BY <1>2
  <2>2. \E f : IsSum(f, h, U)
    BY <1>1, <1>4, <2>1 DEF Bad
  <2> QED
    BY <2>2, <1>3, FS_Subset
<1> HIDE DEF Of
<1> DEFINE F == [s \in SUBSET T |->
                    IF s = {} THEN 0 ELSE h[Some(s)] + Of(s \ {Some(s)})[s \ {Some(s)}]]
<1>5. ASSUME NEW s \in SUBSET T, s # {}
      PROVE  F[s \ {Some(s)}] = Of(s \ {Some(s)})[s \ {Some(s)}]
  <2> DEFINE U == s \ {Some(s)}
  <2>1. U \in SUBSET T /\ U # T
    BY <1>5, SomeIsIn
  <2>2. IsSum(Of(U), h, U)
    BY <2>1, <1>4
  <2>3. Of(U)[U] = IF U = {} THEN 0 ELSE h[Some(U)] + Of(U)[U \ {Some(U)}]
    <3>1. U \in SUBSET U
      OBVIOUS
    <3> QED
      BY <2>2, <3>1 DEF IsSum
  <2>4. CASE U = {}
    BY <2>1, <2>3, <2>4
  <2>5. CASE U # {}
    <3> DEFINE V == U \ {Some(U)}
    <3>1. V \subseteq U /\ V \in SUBSET T /\ V # T
      BY <2>1
    <3>2. IsSum(Of(V), h, V) /\ IsFiniteSet(V)
      BY <3>1, <1>4
    <3> HIDE DEF U, V
    <3>3. Of(V)[V] = Of(U)[V]
      BY <2>2, <3>1, <3>2, SumIsUnique
    <3>4. F[U] = h[Some(U)] + Of(V)[V]
      BY <2>1, <2>5 DEF V
    <3> QED
      BY <2>3, <2>5, <3>3, <3>4 DEF U, V
  <2> QED
    BY <2>4, <2>5
<1>6. IsSum(F, h, T)
  <2>1. F = [s \in SUBSET T |-> IF s = {} THEN 0 ELSE h[Some(s)] + F[s \ {Some(s)}]]
    BY <1>5
  <2> QED
    BY <2>1 DEF IsSum
<1> QED
  BY <1>2, <1>6

LEMMA SumIsDefined ==
    ASSUME NEW S, IsFiniteSet(S), NEW h
    PROVE  \E f : IsSum(f, h, S) /\ SumOver(h, S) = f[S]
<1> DEFINE f == CHOOSE f : IsSum(f, h, S)
<1>1. IsSum(f, h, S)
  BY SumExists
<1>2. SumOver(h, S) = f[S]
  BY DEF SumOver, MapThenSumSet, MapThenFoldSet, IsSum, Some
<1> QED
  BY <1>1, <1>2

\* Values that agree on a set have one sum over it.
LEMMA SumOfEquals ==
    ASSUME NEW S, IsFiniteSet(S), NEW g, NEW h, \A x \in S : g[x] = h[x]
    PROVE  SumOver(g, S) = SumOver(h, S)
<1>1. PICK e : IsSum(e, g, S) /\ SumOver(g, S) = e[S]
  BY SumIsDefined
<1>2. PICK f : IsSum(f, h, S) /\ SumOver(h, S) = f[S]
  BY SumIsDefined
<1> QED
  BY <1>1, <1>2, SumIsUnique

LEMMA SumOfNone == ASSUME NEW h PROVE SumOver(h, {}) = 0
<1>1. PICK f : IsSum(f, h, {}) /\ SumOver(h, {}) = f[{}]
  BY SumIsDefined, FS_EmptySet
<1>2. {} \in SUBSET {}
  OBVIOUS
<1> QED
  BY <1>1, <1>2 DEF IsSum

\* MapThenSumSet adds the element it takes first to the sum of the others.
LEMMA SumTakesSome ==
    ASSUME NEW S, IsFiniteSet(S), NEW h, S # {}
    PROVE  SumOver(h, S) = h[Some(S)] + SumOver(h, S \ {Some(S)})
<1> DEFINE R == S \ {Some(S)}
<1>1. PICK f : IsSum(f, h, S) /\ SumOver(h, S) = f[S]
  BY SumIsDefined
<1>2. IsFiniteSet(R) /\ R \subseteq S
  BY FS_Subset
<1>3. PICK e : IsSum(e, h, R) /\ SumOver(h, R) = e[R]
  BY <1>2, SumIsDefined
<1>4. e[R] = f[R]
  <2> HIDE DEF R
  <2> QED
    BY <1>1, <1>2, <1>3, SumIsUnique
<1>5. f[S] = h[Some(S)] + f[R]
  <2>1. S \in SUBSET S
    OBVIOUS
  <2> QED
    BY <1>1, <2>1 DEF IsSum
<1> QED
  BY <1>1, <1>3, <1>4, <1>5

LEMMA SumIsInteger ==
    ASSUME NEW S, IsFiniteSet(S), NEW h, \A x \in S : h[x] \in Int
    PROVE  SumOver(h, S) \in Int
<1> DEFINE Bad == {T \in SUBSET S : SumOver(h, T) \notin Int}
<1> SUFFICES ASSUME Bad # {} PROVE FALSE
  OBVIOUS
<1>0. Bad \subseteq SUBSET S
  OBVIOUS
<1> HIDE DEF Bad
<1>1. PICK T \in Bad : \A U \in SUBSET T : U # T => U \notin Bad
  BY <1>0, LeastSubset
<1>2. T \in SUBSET S /\ SumOver(h, T) \notin Int
  BY DEF Bad
<1>3. T # {}
  BY <1>2, SumOfNone
<1> DEFINE x == Some(T)
<1>4. x \in T
  BY <1>3, SomeIsIn
<1>5. T \ {x} \in SUBSET T /\ T \ {x} # T /\ T \ {x} \in SUBSET S
  BY <1>2, <1>4
<1>6. SumOver(h, T \ {x}) \in Int
  BY <1>1, <1>5 DEF Bad
<1>7. h[x] \in Int
  BY <1>2, <1>4
<1>8. SumOver(h, T) = h[x] + SumOver(h, T \ {x})
  BY <1>2, <1>3, FS_Subset, SumTakesSome
<1> QED
  BY <1>2, <1>6, <1>7, <1>8

\* Any element may be taken first.
LEMMA SumTakesAny ==
    ASSUME NEW S, IsFiniteSet(S), NEW h, \A x \in S : h[x] \in Int, NEW x \in S
    PROVE  SumOver(h, S) = h[x] + SumOver(h, S \ {x})
<1> DEFINE Bad == {T \in SUBSET S : \E y \in T : SumOver(h, T) # h[y] + SumOver(h, T \ {y})}
<1> SUFFICES ASSUME Bad # {} PROVE FALSE
  OBVIOUS
<1>0. Bad \subseteq SUBSET S
  OBVIOUS
<1> HIDE DEF Bad
<1>1. PICK T \in Bad : \A U \in SUBSET T : U # T => U \notin Bad
  BY <1>0, LeastSubset
<1>2. T \in SUBSET S
  BY DEF Bad
<1>3. PICK y \in T : SumOver(h, T) # h[y] + SumOver(h, T \ {y})
  BY DEF Bad
<1> DEFINE z == Some(T)
<1>4. z \in T
  BY <1>3, SomeIsIn
<1> HIDE DEF z
<1>5. SumOver(h, T) = h[z] + SumOver(h, T \ {z})
  BY <1>2, <1>3, FS_Subset, SumTakesSome DEF z
<1>6. y # z
  BY <1>3, <1>5
<1>7. SumOver(h, T \ {z}) = h[y] + SumOver(h, (T \ {z}) \ {y})
  <2>1. T \ {z} \in SUBSET T /\ T \ {z} # T /\ T \ {z} \in SUBSET S /\ y \in T \ {z}
    BY <1>2, <1>3, <1>4, <1>6
  <2> QED
    BY <1>1, <2>1 DEF Bad
<1>8. SumOver(h, T \ {y}) = h[z] + SumOver(h, (T \ {y}) \ {z})
  <2>1. T \ {y} \in SUBSET T /\ T \ {y} # T /\ T \ {y} \in SUBSET S /\ z \in T \ {y}
    BY <1>2, <1>3, <1>4, <1>6
  <2> QED
    BY <1>1, <2>1 DEF Bad
<1> DEFINE R == (T \ {y}) \ {z}
<1>9. (T \ {z}) \ {y} = R
  OBVIOUS
<1>10. h[y] \in Int /\ h[z] \in Int /\ SumOver(h, R) \in Int
  <2>1. R \subseteq S
    BY <1>2
  <2>2. IsFiniteSet(R) /\ \A w \in R : h[w] \in Int
    BY <2>1, FS_Subset
  <2>3. SumOver(h, R) \in Int
    <3> HIDE DEF R
    <3> QED
      BY <2>2, SumIsInteger
  <2> QED
    BY <1>2, <1>3, <1>4, <2>3
<1>11. SumOver(h, T \ {z}) = h[y] + SumOver(h, R) /\ SumOver(h, T \ {y}) = h[z] + SumOver(h, R)
  BY <1>7, <1>8, <1>9
<1> HIDE DEF R
<1> QED
  BY <1>3, <1>5, <1>10, <1>11

\* One value changes.
LEMMA SumOfChange ==
    ASSUME NEW S, IsFiniteSet(S), NEW g, NEW h, NEW x \in S,
           \A y \in S : g[y] \in Int /\ h[y] \in Int,
           \A y \in S \ {x} : h[y] = g[y]
    PROVE  SumOver(h, S) = SumOver(g, S) + (h[x] - g[x])
<1>1. SumOver(g, S) = g[x] + SumOver(g, S \ {x})
  BY SumTakesAny
<1>2. SumOver(h, S) = h[x] + SumOver(h, S \ {x})
  BY SumTakesAny
<1>3. IsFiniteSet(S \ {x})
  BY FS_Subset
<1>4. SumOver(h, S \ {x}) = SumOver(g, S \ {x})
  BY <1>3, SumOfEquals
<1>5. SumOver(g, S \ {x}) \in Int
  BY <1>3, SumIsInteger
<1> QED
  BY <1>1, <1>2, <1>4, <1>5

LEMMA SumOfZeros ==
    ASSUME NEW S, IsFiniteSet(S), NEW h, \A x \in S : h[x] = 0
    PROVE  SumOver(h, S) = 0
<1> DEFINE Bad == {T \in SUBSET S : SumOver(h, T) # 0}
<1> SUFFICES ASSUME Bad # {} PROVE FALSE
  OBVIOUS
<1>0. Bad \subseteq SUBSET S
  OBVIOUS
<1> HIDE DEF Bad
<1>1. PICK T \in Bad : \A U \in SUBSET T : U # T => U \notin Bad
  BY <1>0, LeastSubset
<1>2. T \subseteq S /\ IsFiniteSet(T) /\ SumOver(h, T) # 0
  BY <1>0, <1>1, FS_Subset DEF Bad
<1>3. T # {}
  BY <1>2, SumOfNone
<1>4. SumOver(h, T \ {Some(T)}) = 0 /\ Some(T) \in T
  <2>1. Some(T) \in T
    BY <1>3, SomeIsIn
  <2>2. T \ {Some(T)} \in SUBSET T /\ T \ {Some(T)} # T
    BY <2>1
  <2> QED
    BY <1>1, <1>2, <2>1, <2>2 DEF Bad
<1> QED
  BY <1>2, <1>3, <1>4, SumTakesSome
===============================================================================
