-------------------------------- MODULE Sums --------------------------------
(***************************************************************************)
(* Sums over finite sets, as the community module Functions defines them:  *)
(* SumFunctionOnSet(f, S) adds f[x] for the elements x of S, taking them   *)
(* one by one in the order CHOOSE gives them. Here is proved what does not *)
(* depend on that order.                                                   *)
(*                                                                         *)
(* Induction over finite sets is needed as a statement about a set G, the  *)
(* subsets a property holds of: the theorems of the library are about an   *)
(* operator, which the provers cannot instantiate.                         *)
(***************************************************************************)
EXTENDS Integers, FiniteSets, Functions, FiniteSetTheorems, WellFoundedInduction,
        TLAPS

-----------------------------------------------------------------------------
(***************************************************************************)
(* Induction over the subsets of a finite set                              *)
(***************************************************************************)

\* What holds of a set as soon as it holds of the set without any one of its
\* elements holds of every finite set.
LEMMA FiniteDescent ==
    ASSUME NEW S, IsFiniteSet(S), NEW G,
           \A T \in SUBSET S : (\A x \in T : T \ {x} \in G) => T \in G
    PROVE  \A T \in SUBSET S : T \in G
<1> DEFINE D == {T \in SUBSET S : T \notin G}
<1> SUFFICES ASSUME D # {} PROVE FALSE
  OBVIOUS
<1>1. D \subseteq FiniteSubsetsOf(S)
  BY FS_Subset DEF FiniteSubsetsOf
<1>2. IsWellFoundedOn(StrictSubsetOrdering(S), FiniteSubsetsOf(S))
  BY FS_StrictSubsetOrderingWellFounded
<1> HIDE DEF D
<1>3. PICK T \in D : \A U \in D : <<U, T>> \notin StrictSubsetOrdering(S)
  BY <1>1, <1>2, WFMin
<1>4. T \in SUBSET S /\ T \notin G
  BY <1>3 DEF D
<1>5. \A x \in T : T \ {x} \in G
  <2> SUFFICES ASSUME NEW x \in T PROVE T \ {x} \in G
    OBVIOUS
  <2>1. T \ {x} \in SUBSET S /\ T \ {x} \subseteq T /\ T \ {x} # T
    BY <1>4
  <2>2. <<T \ {x}, T>> \in StrictSubsetOrdering(S)
    BY <1>4, <2>1 DEF StrictSubsetOrdering
  <2>3. T \ {x} \notin D
    BY <1>3, <2>2
  <2>4. QED
    BY <2>1, <2>3 DEF D
<1>6. QED
  BY <1>4, <1>5

\* What holds of the empty set, and of a set with one element more, holds of
\* every finite set.
LEMMA FiniteGrowth ==
    ASSUME NEW S, IsFiniteSet(S), NEW G, {} \in G,
           \A T \in SUBSET S : \A x \in S \ T : T \in G => T \union {x} \in G
    PROVE  S \in G
<1>1. ASSUME NEW T \in SUBSET S, \A x \in T : T \ {x} \in G PROVE T \in G
  <2>1. CASE T = {}
    BY <2>1
  <2>2. CASE T # {}
    <3>1. PICK x \in T : TRUE
      BY <2>2
    <3>2. T \ {x} \in SUBSET S /\ x \in S \ (T \ {x}) /\ (T \ {x}) \union {x} = T
      BY <3>1
    <3>3. QED
      BY <1>1, <3>1, <3>2
  <2>3. QED
    BY <2>1, <2>2
<1>2. \A T \in SUBSET S : (\A x \in T : T \ {x} \in G) => T \in G
  BY <1>1
<1>3. \A T \in SUBSET S : T \in G
  BY <1>2, FiniteDescent
<1>4. QED
  BY <1>3

-----------------------------------------------------------------------------
(***************************************************************************)
(* The definition, unfolded                                                *)
(***************************************************************************)

Pick(T) == CHOOSE x \in T : TRUE

\* g gives the sum of each subset of S.
IsSumTable(f, S, g) ==
    g = [T \in SUBSET S |-> IF T = {} THEN 0 ELSE f[Pick(T)] + g[T \ {Pick(T)}]]

LEMMA PickIsElement == \A T : T # {} => Pick(T) \in T
BY DEF Pick

\* Two tables give the same sum to a set both have.
LEMMA TablesAgree ==
    ASSUME NEW S, IsFiniteSet(S), NEW f, NEW A, NEW B, NEW g, NEW h,
           S \subseteq A, S \subseteq B, IsSumTable(f, A, g), IsSumTable(f, B, h)
    PROVE  g[S] = h[S]
<1> DEFINE G == {T \in SUBSET S : g[T] = h[T]}
<1>1. ASSUME NEW T \in SUBSET S, \A x \in T : T \ {x} \in G PROVE T \in G
  <2>1. CASE T = {}
    BY <2>1 DEF IsSumTable
  <2>2. CASE T # {}
    <3>1. Pick(T) \in T /\ g[T \ {Pick(T)}] = h[T \ {Pick(T)}]
      BY <1>1, <2>2, PickIsElement
    <3>2. /\ g[T] = f[Pick(T)] + g[T \ {Pick(T)}]
          /\ h[T] = f[Pick(T)] + h[T \ {Pick(T)}]
      BY <2>2 DEF IsSumTable
    <3>3. QED
      BY <3>1, <3>2
  <2>3. QED
    BY <2>1, <2>2
<1> HIDE DEF G
<1>2. \A T \in SUBSET S : (\A x \in T : T \ {x} \in G) => T \in G
  BY <1>1
<1>3. S \in G
  BY <1>2, FiniteDescent
<1>4. QED
  BY <1>3 DEF G

\* Every finite set has a table, of integers when the function has.
LEMMA TableExists ==
    ASSUME NEW S, IsFiniteSet(S), NEW f, \A x \in S : f[x] \in Int
    PROVE  \E g : IsSumTable(f, S, g) /\ \A T \in SUBSET S : g[T] \in Int
<1> DEFINE Good(T, g) == IsSumTable(f, T, g) /\ \A U \in SUBSET T : g[U] \in Int
           G == {T \in SUBSET S : \E g : Good(T, g)}
<1>1. ASSUME NEW T \in SUBSET S, \A x \in T : T \ {x} \in G PROVE T \in G
  <2> DEFINE tab(x) == CHOOSE g : Good(T \ {x}, g)
  <2>1. \A x \in T : Good(T \ {x}, tab(x))
    BY <1>1
  <2> HIDE DEF tab
  <2> DEFINE sum(U) == IF U = {} THEN 0
                       ELSE IF U = T THEN f[Pick(T)] + tab(Pick(T))[T \ {Pick(T)}]
                       ELSE tab(Pick(T \ U))[U]
             g == [U \in SUBSET T |-> sum(U)]
  <2>2. \A x \in T : \A U \in SUBSET (T \ {x}) :
            /\ tab(x)[U] \in Int
            /\ tab(x)[U] = IF U = {} THEN 0
                           ELSE f[Pick(U)] + tab(x)[U \ {Pick(U)}]
    <3> SUFFICES ASSUME NEW x \in T, NEW U \in SUBSET (T \ {x})
                 PROVE  /\ tab(x)[U] \in Int
                        /\ tab(x)[U] = IF U = {} THEN 0
                                       ELSE f[Pick(U)] + tab(x)[U \ {Pick(U)}]
      OBVIOUS
    <3>1. Good(T \ {x}, tab(x))
      BY <2>1
    <3>2. QED
      BY <3>1 DEF IsSumTable
  <2>3. \A x, y \in T : \A U \in SUBSET T : x \notin U /\ y \notin U => tab(x)[U] = tab(y)[U]
    <3> SUFFICES ASSUME NEW x \in T, NEW y \in T, NEW U \in SUBSET T,
                        x \notin U, y \notin U
                 PROVE  tab(x)[U] = tab(y)[U]
      OBVIOUS
    <3>1. IsSumTable(f, T \ {x}, tab(x)) /\ IsSumTable(f, T \ {y}, tab(y))
      BY <2>1
    <3>2. IsFiniteSet(U) /\ U \subseteq T \ {x} /\ U \subseteq T \ {y}
      BY FS_Subset
    <3>3. QED
      BY <3>1, <3>2, TablesAgree
  <2>4. ASSUME NEW U \in SUBSET T, U # {}, U # T
        PROVE  /\ g[U] \in Int /\ \A x \in T \ U : g[U] = tab(x)[U]
    <3>1. Pick(T \ U) \in T \ U
      BY <2>4, PickIsElement
    <3>2. g[U] = tab(Pick(T \ U))[U]
      BY <2>4
    <3> HIDE DEF g
    <3>3. QED
      BY <3>1, <3>2, <2>2, <2>3
  <2>5. g[{}] = 0
    BY Zenon
  <2>6. \A x \in T : tab(x)[{}] = 0
    BY <2>2
  <2>7. ASSUME NEW U \in SUBSET T, U # {}
        PROVE  g[U] = f[Pick(U)] + g[U \ {Pick(U)}] /\ g[U] \in Int
    <3>1. Pick(U) \in U
      BY <2>7, PickIsElement
    <3> DEFINE R == U \ {Pick(U)}
    <3>2. R \in SUBSET T /\ R # T /\ Pick(U) \in T \ R
      BY <3>1
    <3>3. f[Pick(U)] \in Int
      BY <3>1
    <3>4. CASE U = T
      <4>1. g[U] = f[Pick(T)] + tab(Pick(T))[R]
        BY <3>4, <2>7
      <4>2. g[R] = tab(Pick(T))[R]
        <5> HIDE DEF g, R
        <5>1. CASE R = {}
          BY <5>1, <2>5, <2>6, <3>2, <3>4
        <5>2. CASE R # {}
          BY <5>2, <2>4, <3>2, <3>4
        <5>3. QED
          BY <5>1, <5>2
      <4>3. tab(Pick(T))[R] \in Int
        BY <2>2, <3>1, <3>4
      <4> HIDE DEF g, R
      <4>4. QED
        BY <4>1, <4>2, <4>3, <3>3, <3>4 DEF R
    <3>5. CASE U # T
      <4>1. PICK x \in T \ U : TRUE
        BY <3>5
      <4>2. g[U] = tab(x)[U] /\ g[U] \in Int
        <5> HIDE DEF g
        <5>1. QED
          BY <4>1, <2>4, <2>7, <3>5
      <4>3. tab(x)[U] = f[Pick(U)] + tab(x)[R]
        BY <2>2, <2>7, <4>1
      <4>4. g[R] = tab(x)[R]
        <5> HIDE DEF g
        <5>1. x \in T \ R
          BY <4>1
        <5> HIDE DEF R
        <5>2. CASE R = {}
          BY <5>1, <5>2, <2>5, <2>6
        <5>3. CASE R # {}
          BY <5>1, <5>3, <2>4, <3>2
        <5>4. QED
          BY <5>2, <5>3
      <4> HIDE DEF g
      <4>5. QED
        BY <4>2, <4>3, <4>4
    <3>6. QED
      BY <3>4, <3>5
  <2>8. IsSumTable(f, T, g)
    <3>1. g = [U \in SUBSET T |-> g[U]]
      BY Zenon
    <3> HIDE DEF g
    <3>2. \A U \in SUBSET T : g[U] = IF U = {} THEN 0 ELSE f[Pick(U)] + g[U \ {Pick(U)}]
      BY <2>5, <2>7
    <3>3. QED
      BY <3>1, <3>2 DEF IsSumTable
  <2>9. \A U \in SUBSET T : g[U] \in Int
    <3> HIDE DEF g
    <3> SUFFICES ASSUME NEW U \in SUBSET T PROVE g[U] \in Int
      OBVIOUS
    <3>1. CASE U = {}
      BY <3>1, <2>5
    <3>2. CASE U # {}
      BY <3>2, <2>7
    <3>3. QED
      BY <3>1, <3>2
  <2> HIDE DEF g
  <2>10. Good(T, g)
    BY <2>8, <2>9
  <2>11. QED
    BY <2>10
<1> HIDE DEF G
<1>2. \A T \in SUBSET S : (\A x \in T : T \ {x} \in G) => T \in G
  BY <1>1
<1>3. \A T \in SUBSET S : T \in G
  BY ONLY IsFiniteSet(S), <1>2, FiniteDescent
<1>4. S \in G
  BY <1>3
<1>5. QED
  BY <1>4 DEF G

-----------------------------------------------------------------------------
(***************************************************************************)
(* Sums                                                                    *)
(***************************************************************************)

\* What SumFunctionOnSet chooses is the table.
LEMMA SumIsTabled ==
    ASSUME NEW S, IsFiniteSet(S), NEW f, \A x \in S : f[x] \in Int
    PROVE  \E g : /\ IsSumTable(f, S, g) /\ \A T \in SUBSET S : g[T] \in Int
                  /\ SumFunctionOnSet(f, S) = g[S]
<1> DEFINE g == CHOOSE iter : iter = [s \in SUBSET S |->
                    IF s = {} THEN 0
                    ELSE f[CHOOSE x \in s : TRUE] + iter[s \ {CHOOSE x \in s : TRUE}]]
<1>1. SumFunctionOnSet(f, S) = g[S]
  BY DEF SumFunctionOnSet, FoldFunctionOnSet, MapThenFoldSet
<1>2. PICK h : IsSumTable(f, S, h) /\ \A T \in SUBSET S : h[T] \in Int
  BY TableExists
<1>3. h = [s \in SUBSET S |->
             IF s = {} THEN 0
             ELSE f[CHOOSE x \in s : TRUE] + h[s \ {CHOOSE x \in s : TRUE}]]
  BY <1>2, Zenon DEF IsSumTable, Pick
<1>4. g = [s \in SUBSET S |->
             IF s = {} THEN 0
             ELSE f[CHOOSE x \in s : TRUE] + g[s \ {CHOOSE x \in s : TRUE}]]
  BY <1>3, Zenon
<1> HIDE DEF g
<1>5. IsSumTable(f, S, g)
  BY <1>4, Zenon DEF IsSumTable, Pick
<1>6. \A T \in SUBSET S : g[T] = h[T]
  <2> SUFFICES ASSUME NEW T \in SUBSET S PROVE g[T] = h[T]
    OBVIOUS
  <2>1. IsFiniteSet(T)
    BY FS_Subset
  <2>2. QED
    BY <1>2, <1>5, <2>1, TablesAgree
<1>7. QED
  BY <1>1, <1>2, <1>5, <1>6

\* A subset's sum stands in the table of the set.
LEMMA SumInTable ==
    ASSUME NEW S, IsFiniteSet(S), NEW f, \A x \in S : f[x] \in Int,
           NEW g, IsSumTable(f, S, g), NEW T \in SUBSET S
    PROVE  SumFunctionOnSet(f, T) = g[T]
<1>1. IsFiniteSet(T) /\ \A x \in T : f[x] \in Int
  BY FS_Subset
<1>2. PICK h : IsSumTable(f, T, h) /\ SumFunctionOnSet(f, T) = h[T]
  BY <1>1, SumIsTabled
<1>3. QED
  BY <1>1, <1>2, TablesAgree

\* A sum of integers is one.
LEMMA SumIsInt ==
    ASSUME NEW S, IsFiniteSet(S), NEW f, \A x \in S : f[x] \in Int
    PROVE  SumFunctionOnSet(f, S) \in Int
BY SumIsTabled

LEMMA SumOfNothing == \A f : SumFunctionOnSet(f, {}) = 0
<1> SUFFICES ASSUME NEW f PROVE SumFunctionOnSet(f, {}) = 0
  OBVIOUS
<1>1. IsFiniteSet({}) /\ \A x \in {} : f[x] \in Int
  BY FS_EmptySet
<1>2. PICK g : IsSumTable(f, {}, g) /\ SumFunctionOnSet(f, {}) = g[{}]
  BY <1>1, SumIsTabled
<1>3. QED
  BY <1>2 DEF IsSumTable

\* Any element may be taken first.
LEMMA SumTakesAny ==
    ASSUME NEW S, IsFiniteSet(S), NEW f, \A x \in S : f[x] \in Int, NEW x \in S
    PROVE  SumFunctionOnSet(f, S) = f[x] + SumFunctionOnSet(f, S \ {x})
<1>1. PICK g : IsSumTable(f, S, g) /\ \A T \in SUBSET S : g[T] \in Int
  BY SumIsTabled
<1> DEFINE G == {T \in SUBSET S : \A y \in T : g[T] = f[y] + g[T \ {y}]}
<1>2. ASSUME NEW T \in SUBSET S, \A y \in T : T \ {y} \in G PROVE T \in G
  <2> SUFFICES ASSUME NEW y \in T PROVE g[T] = f[y] + g[T \ {y}]
    OBVIOUS
  <2> DEFINE p == Pick(T)
  <2>1. p \in T
    BY PickIsElement
  <2>2. g[T] = f[p] + g[T \ {p}]
    BY <1>1 DEF IsSumTable
  <2> HIDE DEF p
  <2>3. CASE y = p
    BY <2>2, <2>3
  <2>4. CASE y # p
    <3>1. /\ y \in T \ {p} /\ p \in T \ {y}
          /\ T \ {p} \in G /\ T \ {y} \in G
      BY <1>2, <2>1, <2>4
    <3> DEFINE R == (T \ {p}) \ {y}
    <3>2. R = (T \ {y}) \ {p} /\ R \in SUBSET S
      OBVIOUS
    <3>3. g[T \ {p}] = f[y] + g[R]
      BY <3>1
    <3> HIDE DEF R
    <3>4. g[T \ {y}] = f[p] + g[R]
      BY <3>1, <3>2
    <3>5. f[y] \in Int /\ f[p] \in Int /\ g[R] \in Int
      BY <1>1, <2>1, <3>2
    <3> HIDE DEF G
    <3>6. QED
      BY <2>2, <3>3, <3>4, <3>5
  <2>5. QED
    BY <2>3, <2>4
<1> HIDE DEF G
<1>3. \A T \in SUBSET S : (\A y \in T : T \ {y} \in G) => T \in G
  BY <1>2
<1>4. \A T \in SUBSET S : T \in G
  BY ONLY IsFiniteSet(S), <1>3, FiniteDescent
<1>5. S \in G
  BY <1>4
<1>6. g[S] = f[x] + g[S \ {x}]
  BY <1>5 DEF G
<1>7. SumFunctionOnSet(f, S) = g[S] /\ SumFunctionOnSet(f, S \ {x}) = g[S \ {x}]
  BY <1>1, SumInTable
<1>8. QED
  BY <1>6, <1>7

\* A set grows by an element, its sum by what f says of it.
LEMMA SumGrows ==
    ASSUME NEW S, IsFiniteSet(S), NEW f, \A y \in S : f[y] \in Int,
           NEW x, x \notin S, f[x] \in Int
    PROVE  SumFunctionOnSet(f, S \union {x}) = SumFunctionOnSet(f, S) + f[x]
<1>1. IsFiniteSet(S \union {x}) /\ \A y \in S \union {x} : f[y] \in Int
  BY FS_AddElement
<1> DEFINE T == S \union {x}
<1>2. T \ {x} = S /\ x \in T
  OBVIOUS
<1> HIDE DEF T
<1>3. SumFunctionOnSet(f, T) = f[x] + SumFunctionOnSet(f, S)
  <2>1. SumFunctionOnSet(f, T) = f[x] + SumFunctionOnSet(f, T \ {x})
    BY <1>1, <1>2, SumTakesAny DEF T
  <2>2. QED
    BY <1>2, <2>1
<1>4. SumFunctionOnSet(f, S) \in Int
  BY SumIsInt
<1>5. QED
  BY <1>3, <1>4 DEF T

\* Functions that agree on a set have the same sum there.
LEMMA SumsAgree ==
    ASSUME NEW S, IsFiniteSet(S), NEW f, NEW g, \A x \in S : f[x] \in Int /\ g[x] = f[x]
    PROVE  SumFunctionOnSet(g, S) = SumFunctionOnSet(f, S)
<1> DEFINE G == {T \in SUBSET S : SumFunctionOnSet(g, T) = SumFunctionOnSet(f, T)}
<1>1. {} \in G
  BY SumOfNothing
<1>2. ASSUME NEW T \in SUBSET S, NEW x \in S \ T, T \in G PROVE T \union {x} \in G
  <2>1. IsFiniteSet(T) /\ x \notin T /\ \A y \in T \union {x} : f[y] \in Int /\ g[y] \in Int
    BY FS_Subset
  <2>2. /\ SumFunctionOnSet(f, T \union {x}) = SumFunctionOnSet(f, T) + f[x]
        /\ SumFunctionOnSet(g, T \union {x}) = SumFunctionOnSet(g, T) + g[x]
    BY <2>1, SumGrows
  <2>3. g[x] = f[x] /\ SumFunctionOnSet(g, T) = SumFunctionOnSet(f, T)
    BY <1>2
  <2>4. QED
    BY <2>2, <2>3
<1> HIDE DEF G
<1>3. S \in G
  BY <1>1, <1>2, FiniteGrowth
<1>4. QED
  BY <1>3 DEF G

\* The greater function has the greater sum.
LEMMA SumIsMonotone ==
    ASSUME NEW S, IsFiniteSet(S), NEW f, NEW g,
           \A x \in S : f[x] \in Int /\ g[x] \in Int /\ f[x] <= g[x]
    PROVE  SumFunctionOnSet(f, S) <= SumFunctionOnSet(g, S)
<1> DEFINE G == {T \in SUBSET S : SumFunctionOnSet(f, T) <= SumFunctionOnSet(g, T)}
<1>1. {} \in G
  <2>1. SumFunctionOnSet(f, {}) = 0 /\ SumFunctionOnSet(g, {}) = 0
    BY SumOfNothing
  <2>2. QED
    BY <2>1
<1>2. ASSUME NEW T \in SUBSET S, NEW x \in S \ T, T \in G PROVE T \union {x} \in G
  <2>1. IsFiniteSet(T) /\ x \notin T /\ \A y \in T \union {x} : f[y] \in Int /\ g[y] \in Int
    BY FS_Subset
  <2>2. /\ SumFunctionOnSet(f, T \union {x}) = SumFunctionOnSet(f, T) + f[x]
        /\ SumFunctionOnSet(g, T \union {x}) = SumFunctionOnSet(g, T) + g[x]
        /\ SumFunctionOnSet(f, T) \in Int /\ SumFunctionOnSet(g, T) \in Int
    BY <2>1, SumGrows, SumIsInt
  <2>3. f[x] <= g[x] /\ SumFunctionOnSet(f, T) <= SumFunctionOnSet(g, T)
    BY <1>2
  <2>4. SumFunctionOnSet(f, T \union {x}) <= SumFunctionOnSet(g, T \union {x})
    BY <2>1, <2>2, <2>3
  <2>5. QED
    BY <2>4
<1> HIDE DEF G
<1>3. S \in G
  BY <1>1, <1>2, FiniteGrowth
<1>4. QED
  BY <1>3 DEF G

\* The sum of two functions is that of their sums.
LEMMA SumsAdd ==
    ASSUME NEW S, IsFiniteSet(S), NEW f, NEW g, NEW h,
           \A x \in S : f[x] \in Int /\ g[x] \in Int /\ h[x] = f[x] + g[x]
    PROVE  SumFunctionOnSet(h, S) = SumFunctionOnSet(f, S) + SumFunctionOnSet(g, S)
<1> DEFINE G == {T \in SUBSET S : SumFunctionOnSet(h, T)
                                    = SumFunctionOnSet(f, T) + SumFunctionOnSet(g, T)}
<1>1. {} \in G
  <2>1. /\ SumFunctionOnSet(f, {}) = 0 /\ SumFunctionOnSet(g, {}) = 0
        /\ SumFunctionOnSet(h, {}) = 0
    BY SumOfNothing
  <2>2. QED
    BY <2>1
<1>2. ASSUME NEW T \in SUBSET S, NEW x \in S \ T, T \in G PROVE T \union {x} \in G
  <2>1. /\ IsFiniteSet(T) /\ x \notin T
        /\ \A y \in T \union {x} : f[y] \in Int /\ g[y] \in Int /\ h[y] \in Int
    BY FS_Subset
  <2>2. /\ SumFunctionOnSet(f, T \union {x}) = SumFunctionOnSet(f, T) + f[x]
        /\ SumFunctionOnSet(g, T \union {x}) = SumFunctionOnSet(g, T) + g[x]
        /\ SumFunctionOnSet(h, T \union {x}) = SumFunctionOnSet(h, T) + h[x]
        /\ SumFunctionOnSet(f, T) \in Int /\ SumFunctionOnSet(g, T) \in Int
    BY <2>1, SumGrows, SumIsInt
  <2>3. /\ h[x] = f[x] + g[x]
        /\ SumFunctionOnSet(h, T) = SumFunctionOnSet(f, T) + SumFunctionOnSet(g, T)
    BY <1>2
  <2>4. SumFunctionOnSet(h, T \union {x})
          = SumFunctionOnSet(f, T \union {x}) + SumFunctionOnSet(g, T \union {x})
    BY <2>1, <2>2, <2>3
  <2>5. QED
    BY <2>4
<1> HIDE DEF G
<1>3. S \in G
  BY <1>1, <1>2, FiniteGrowth
<1>4. QED
  BY <1>3 DEF G

\* Nothing adds up to nothing.
LEMMA SumOfZeroes ==
    ASSUME NEW S, IsFiniteSet(S), NEW f, \A x \in S : f[x] = 0
    PROVE  SumFunctionOnSet(f, S) = 0
<1>1. \A x \in S : f[x] \in Int /\ f[x] = f[x] + f[x]
  OBVIOUS
<1>2. SumFunctionOnSet(f, S) = SumFunctionOnSet(f, S) + SumFunctionOnSet(f, S)
  BY <1>1, SumsAdd
<1>3. SumFunctionOnSet(f, S) \in Int
  BY <1>1, SumIsInt
<1>4. \A n \in Int : n = n + n => n = 0
  OBVIOUS
<1>5. QED
  BY <1>2, <1>3, <1>4, Zenon

\* A sum of numbers is a number.
LEMMA SumIsNat ==
    ASSUME NEW S, IsFiniteSet(S), NEW f, \A x \in S : f[x] \in Nat
    PROVE  SumFunctionOnSet(f, S) \in Nat
<1> DEFINE zero == [x \in S |-> 0]
<1>1. \A x \in S : zero[x] = 0 /\ f[x] \in Int
  OBVIOUS
<1> HIDE DEF zero
<1>2. SumFunctionOnSet(zero, S) = 0
  BY <1>1, SumOfZeroes
<1>3. SumFunctionOnSet(zero, S) <= SumFunctionOnSet(f, S)
  <2>1. \A x \in S : zero[x] \in Int /\ f[x] \in Int /\ zero[x] <= f[x]
    BY <1>1
  <2>2. QED
    BY <2>1, SumIsMonotone
<1>4. SumFunctionOnSet(f, S) \in Int
  BY <1>1, SumIsInt
<1>5. QED
  BY <1>2, <1>3, <1>4

\* The sum over two sets with nothing in common is the sum of both.
LEMMA SumOfUnion ==
    ASSUME NEW R, IsFiniteSet(R), NEW S, IsFiniteSet(S), R \intersect S = {},
           NEW f, \A x \in R \union S : f[x] \in Int
    PROVE  SumFunctionOnSet(f, R \union S)
             = SumFunctionOnSet(f, R) + SumFunctionOnSet(f, S)
<1> DEFINE G == {T \in SUBSET S : SumFunctionOnSet(f, R \union T)
                                    = SumFunctionOnSet(f, R) + SumFunctionOnSet(f, T)}
<1>0. SumFunctionOnSet(f, R) \in Int
  BY SumIsInt
<1>1. {} \in G
  <2>1. SumFunctionOnSet(f, {}) = 0 /\ R \union {} = R
    BY SumOfNothing
  <2>2. SumFunctionOnSet(f, R \union {}) = SumFunctionOnSet(f, R)
    BY <2>1
  <2>3. QED
    BY <1>0, <2>1, <2>2
<1>2. ASSUME NEW T \in SUBSET S, NEW x \in S \ T, T \in G PROVE T \union {x} \in G
  <2> DEFINE U == R \union T
  <2>1. /\ IsFiniteSet(T) /\ x \notin T /\ \A y \in T \union {x} : f[y] \in Int
        /\ IsFiniteSet(U) /\ x \notin U /\ \A y \in U \union {x} : f[y] \in Int
    BY FS_Subset, FS_Union
  <2>2. U \union {x} = R \union (T \union {x})
    OBVIOUS
  <2>3. SumFunctionOnSet(f, U) = SumFunctionOnSet(f, R) + SumFunctionOnSet(f, T)
    BY <1>2
  <2> HIDE DEF U, G
  <2>4. /\ SumFunctionOnSet(f, T \union {x}) = SumFunctionOnSet(f, T) + f[x]
        /\ SumFunctionOnSet(f, T) \in Int
    BY <2>1, SumGrows, SumIsInt
  <2>5. SumFunctionOnSet(f, U \union {x}) = SumFunctionOnSet(f, U) + f[x]
    BY <2>1, SumGrows
  <2>6. SumFunctionOnSet(f, U \union {x})
          = SumFunctionOnSet(f, R) + SumFunctionOnSet(f, T \union {x})
    BY <1>0, <2>1, <2>3, <2>4, <2>5
  <2>7. SumFunctionOnSet(f, R \union (T \union {x}))
          = SumFunctionOnSet(f, R) + SumFunctionOnSet(f, T \union {x})
    BY <2>2, <2>6
  <2>8. QED
    BY <2>7 DEF G
<1> HIDE DEF G
<1>3. S \in G
  BY <1>1, <1>2, FiniteGrowth
<1>4. QED
  BY <1>3 DEF G

\* Of numbers, a part adds up to no more than the whole.
LEMMA SumOfPart ==
    ASSUME NEW S, IsFiniteSet(S), NEW f, \A x \in S : f[x] \in Nat, NEW T \in SUBSET S
    PROVE  SumFunctionOnSet(f, T) <= SumFunctionOnSet(f, S)
<1> DEFINE R == S \ T
<1>1. /\ IsFiniteSet(T) /\ IsFiniteSet(R) /\ T \intersect R = {} /\ T \union R = S
      /\ \A x \in T : f[x] \in Nat
      /\ \A x \in R : f[x] \in Nat
      /\ \A x \in T \union R : f[x] \in Int
  BY FS_Subset
<1> HIDE DEF R
<1>2. SumFunctionOnSet(f, T \union R)
         = SumFunctionOnSet(f, T) + SumFunctionOnSet(f, R)
  BY <1>1, SumOfUnion
<1>3. SumFunctionOnSet(f, T) \in Nat /\ SumFunctionOnSet(f, R) \in Nat
  BY <1>1, SumIsNat
<1>4. SumFunctionOnSet(f, S) = SumFunctionOnSet(f, T) + SumFunctionOnSet(f, R)
  BY <1>1, <1>2
<1>5. QED
  BY <1>3, <1>4

\* A function that changes in one place changes its sum by as much.
LEMMA SumChanges ==
    ASSUME NEW S, IsFiniteSet(S), NEW f, NEW g, NEW x \in S,
           \A y \in S : f[y] \in Int /\ g[y] \in Int,
           \A y \in S \ {x} : g[y] = f[y]
    PROVE  SumFunctionOnSet(g, S) = SumFunctionOnSet(f, S) - f[x] + g[x]
<1> DEFINE T == S \ {x}
<1>1. IsFiniteSet(T) /\ \A y \in T : f[y] \in Int /\ g[y] = f[y]
  BY FS_Subset
<1>2. /\ SumFunctionOnSet(f, S) = f[x] + SumFunctionOnSet(f, T)
      /\ SumFunctionOnSet(g, S) = g[x] + SumFunctionOnSet(g, T)
  BY SumTakesAny
<1> HIDE DEF T
<1>3. SumFunctionOnSet(g, T) = SumFunctionOnSet(f, T) /\ SumFunctionOnSet(f, T) \in Int
  BY <1>1, SumsAgree, SumIsInt
<1>4. QED
  BY <1>2, <1>3

\* The same, as a formula.
LEMMA SumChangesThere ==
    \A S, f, g, x :
        /\ IsFiniteSet(S) /\ x \in S
        /\ \A y \in S : f[y] \in Int /\ g[y] \in Int
        /\ \A y \in S \ {x} : g[y] = f[y]
        => SumFunctionOnSet(g, S) = SumFunctionOnSet(f, S) - f[x] + g[x]
BY SumChanges

\* Numbers that go each to another one, no smaller, add up to no more.
LEMMA SumInjected ==
    ASSUME NEW S, IsFiniteSet(S), NEW T, IsFiniteSet(T), NEW m \in [S -> T],
           \A x, y \in S : m[x] = m[y] => x = y,
           NEW f, NEW g, \A x \in S : f[x] \in Int /\ f[x] <= g[m[x]],
           \A y \in T : g[y] \in Nat
    PROVE  SumFunctionOnSet(f, S) <= SumFunctionOnSet(g, T)
<1> DEFINE Image(U) == {m[x] : x \in U}
           G == {U \in SUBSET S : SumFunctionOnSet(f, U) <= SumFunctionOnSet(g, Image(U))}
<1>1. {} \in G
  <2>1. Image({}) = {}
    OBVIOUS
  <2> HIDE DEF Image
  <2>2. SumFunctionOnSet(f, {}) = 0 /\ SumFunctionOnSet(g, Image({})) = 0
    BY <2>1, SumOfNothing
  <2>3. QED
    BY <2>2
<1>2. ASSUME NEW U \in SUBSET S, NEW x \in S \ U, U \in G PROVE U \union {x} \in G
  <2> DEFINE V == Image(U)
  <2>1. Image(U \union {x}) = V \union {m[x]} /\ m[x] \notin V /\ V \in SUBSET T
        /\ m[x] \in T
    OBVIOUS
  <2>2. IsFiniteSet(U) /\ x \notin U /\ \A y \in U \union {x} : f[y] \in Int
    BY FS_Subset
  <2>3. SumFunctionOnSet(f, U) <= SumFunctionOnSet(g, V)
    BY <1>2
  <2> HIDE DEF V, Image
  <2>4. IsFiniteSet(V) /\ g[m[x]] \in Int /\ \A y \in V : g[y] \in Int
    BY <2>1, FS_Subset
  <2>5. SumFunctionOnSet(f, U \union {x}) = SumFunctionOnSet(f, U) + f[x]
        /\ SumFunctionOnSet(f, U) \in Int
    BY <2>2, SumGrows, SumIsInt
  <2>6. SumFunctionOnSet(g, V \union {m[x]}) = SumFunctionOnSet(g, V) + g[m[x]]
        /\ SumFunctionOnSet(g, V) \in Int
    BY <2>1, <2>4, SumGrows, SumIsInt
  <2>7. f[x] \in Int /\ f[x] <= g[m[x]]
    OBVIOUS
  <2>8. SumFunctionOnSet(f, U \union {x}) <= SumFunctionOnSet(g, V \union {m[x]})
    BY <2>3, <2>4, <2>5, <2>6, <2>7
  <2>9. SumFunctionOnSet(f, U \union {x}) <= SumFunctionOnSet(g, Image(U \union {x}))
    BY <2>1, <2>8
  <2>10. QED
    BY <2>9
<1> HIDE DEF G
<1>3. S \in G
  BY <1>1, <1>2, FiniteGrowth
<1>4. Image(S) \in SUBSET T
  OBVIOUS
<1> HIDE DEF Image
<1>5. SumFunctionOnSet(g, Image(S)) <= SumFunctionOnSet(g, T)
  BY <1>4, SumOfPart
<1>6. SumFunctionOnSet(f, S) <= SumFunctionOnSet(g, Image(S))
  BY <1>3 DEF G
<1>7. /\ SumFunctionOnSet(f, S) \in Int /\ SumFunctionOnSet(g, T) \in Int
      /\ SumFunctionOnSet(g, Image(S)) \in Int
  <2>1. IsFiniteSet(Image(S)) /\ \A y \in Image(S) : g[y] \in Int
    BY <1>4, FS_Subset
  <2>2. \A y \in T : g[y] \in Int
    OBVIOUS
  <2>3. QED
    BY <2>1, <2>2, SumIsInt
<1>8. QED
  BY <1>5, <1>6, <1>7

\* A sum may be taken part by part: what goes to each place adds up to all.
LEMMA SumByParts ==
    ASSUME NEW S, IsFiniteSet(S), NEW P, IsFiniteSet(P), NEW m \in [S -> P],
           NEW f, \A x \in S : f[x] \in Int, NEW h,
           \A p \in P : h[p] = SumFunctionOnSet(f, {x \in S : m[x] = p})
    PROVE  SumFunctionOnSet(h, P) = SumFunctionOnSet(f, S)
<1> DEFINE Part(T, p) == {x \in T : m[x] = p}
           H(T) == [p \in P |-> SumFunctionOnSet(f, Part(T, p))]
           G == {T \in SUBSET S : SumFunctionOnSet(H(T), P) = SumFunctionOnSet(f, T)}
<1>1. {} \in G
  <2>1. \A p \in P : H({})[p] = 0
    <3>1. \A p \in P : Part({}, p) = {}
      OBVIOUS
    <3>2. QED
      BY <3>1, SumOfNothing
  <2> DEFINE none == H({})
  <2> HIDE DEF H
  <2>2. SumFunctionOnSet(none, P) = 0
    BY <2>1, SumOfZeroes
  <2>3. SumFunctionOnSet(f, {}) = 0
    BY SumOfNothing
  <2>4. QED
    BY <2>2, <2>3
<1>2. ASSUME NEW T \in SUBSET S, NEW x \in S \ T, T \in G PROVE T \union {x} \in G
  <2> DEFINE p == m[x]
             old == H(T)
             new == H(T \union {x})
  <2>1. /\ IsFiniteSet(T) /\ x \notin T /\ f[x] \in Int /\ p \in P
        /\ \A y \in T : f[y] \in Int
    BY FS_Subset
  <2>2. \A q \in P : IsFiniteSet(Part(T, q)) /\ \A y \in Part(T, q) : f[y] \in Int
    BY <2>1, FS_Subset
  <2>3. \A q \in P : old[q] = SumFunctionOnSet(f, Part(T, q)) /\ old[q] \in Int
    BY <2>2, SumIsInt
  <2>4. \A q \in P \ {p} : new[q] = old[q]
    <3> SUFFICES ASSUME NEW q \in P \ {p} PROVE new[q] = old[q]
      OBVIOUS
    <3>1. Part(T \union {x}, q) = Part(T, q)
      OBVIOUS
    <3> HIDE DEF Part
    <3>2. QED
      BY <3>1
  <2>5. new[p] = old[p] + f[x]
    <3>1. Part(T \union {x}, p) = Part(T, p) \union {x} /\ x \notin Part(T, p)
      BY <2>1
    <3>2. new[p] = SumFunctionOnSet(f, Part(T \union {x}, p))
      BY <2>1
    <3> HIDE DEF Part, old, new
    <3>3. SumFunctionOnSet(f, Part(T, p) \union {x})
             = SumFunctionOnSet(f, Part(T, p)) + f[x]
      BY <2>1, <2>2, <3>1, SumGrows
    <3>4. QED
      BY <2>1, <2>3, <3>1, <3>2, <3>3
  <2>6. SumFunctionOnSet(old, P) = SumFunctionOnSet(f, T)
    BY <1>2
  <2> HIDE DEF old, new, p
  <2> HIDE DEF Part
  <2>7. \A q \in P : old[q] \in Int /\ new[q] \in Int
    <3>1. \A q \in P : old[q] \in Int
      BY <2>3
    <3>2. new[p] \in Int
      BY <3>1, <2>1, <2>5
    <3>3. QED
      BY <3>1, <3>2, <2>4
  <2>8. SumFunctionOnSet(new, P) = SumFunctionOnSet(old, P) - old[p] + new[p]
    BY <2>1, <2>4, <2>7, SumChangesThere
  <2>9. SumFunctionOnSet(old, P) \in Int
    BY <2>7, SumIsInt
  <2>10. SumFunctionOnSet(new, P) = SumFunctionOnSet(f, T) + f[x]
    BY <2>1, <2>3, <2>5, <2>6, <2>8, <2>9
  <2>11. SumFunctionOnSet(f, T \union {x}) = SumFunctionOnSet(f, T) + f[x]
    BY <2>1, SumGrows
  <2>12. SumFunctionOnSet(H(T \union {x}), P) = SumFunctionOnSet(f, T \union {x})
    BY <2>10, <2>11 DEF new
  <2>13. QED
    BY <2>12
<1>3. S \in G
  <2> HIDE DEF G
  <2>1. QED
    BY <1>1, <1>2, FiniteGrowth
<1>4. SumFunctionOnSet(H(S), P) = SumFunctionOnSet(f, S)
  BY <1>3
<1> DEFINE all == H(S)
<1>5. \A p \in P : all[p] \in Int /\ h[p] = all[p]
  <2>1. \A p \in P : IsFiniteSet(Part(S, p)) /\ \A y \in Part(S, p) : f[y] \in Int
    BY FS_Subset
  <2>2. \A p \in P : SumFunctionOnSet(f, Part(S, p)) \in Int
    BY <2>1, SumIsInt
  <2>3. QED
    BY <2>2
<1> HIDE DEF all
<1>6. SumFunctionOnSet(h, P) = SumFunctionOnSet(all, P)
  BY <1>5, SumsAgree
<1>7. QED
  BY <1>4, <1>6 DEF all

-----------------------------------------------------------------------------
(***************************************************************************)
(* The ends of a finite set                                                *)
(***************************************************************************)

\* Some element of a finite set has the least value.
LEMMA LeastExists ==
    ASSUME NEW S, IsFiniteSet(S), S # {}, NEW f, \A x \in S : f[x] \in Int
    PROVE  \E x \in S : \A y \in S : f[x] <= f[y]
<1> DEFINE G == {T \in SUBSET S : T # {} => \E x \in T : \A y \in T : f[x] <= f[y]}
<1>1. {} \in G
  OBVIOUS
<1>2. ASSUME NEW T \in SUBSET S, NEW x \in S \ T, T \in G PROVE T \union {x} \in G
  <2>1. CASE T = {}
    BY <2>1
  <2>2. CASE T # {}
    <3>1. PICK y \in T : \A z \in T : f[y] <= f[z]
      BY <1>2, <2>2
    <3>2. CASE f[x] <= f[y]
      <4>1. \A z \in T \union {x} : f[x] <= f[z]
        <5>1. \A z \in T : f[z] \in Int
          OBVIOUS
        <5>2. f[x] \in Int /\ f[y] \in Int
          OBVIOUS
        <5>3. QED
          BY <5>1, <5>2, <3>1, <3>2
      <4>2. QED
        BY <4>1
    <3>3. CASE f[y] <= f[x]
      BY <3>1, <3>3
    <3>4. QED
      BY <3>2, <3>3
  <2>3. QED
    BY <2>1, <2>2
<1> HIDE DEF G
<1>3. S \in G
  BY <1>1, <1>2, FiniteGrowth
<1>4. QED
  BY <1>3 DEF G

-----------------------------------------------------------------------------
(***************************************************************************)
(* SumFunction, of functions to numbers                                    *)
(***************************************************************************)

LEMMA TotalIsSum == \A f : SumFunction(f) = SumFunctionOnSet(f, DOMAIN f)
BY DEF SumFunction

LEMMA TotalIsNat ==
    \A S, f : IsFiniteSet(S) /\ f \in [S -> Nat] => SumFunction(f) \in Nat
<1> SUFFICES ASSUME NEW S, NEW f, IsFiniteSet(S), f \in [S -> Nat]
             PROVE  SumFunction(f) \in Nat
  OBVIOUS
<1>1. SumFunctionOnSet(f, S) \in Nat
  BY SumIsNat
<1>2. QED
  BY <1>1, TotalIsSum

LEMMA TotalOfNothing == \A f : DOMAIN f = {} => SumFunction(f) = 0
BY TotalIsSum, SumOfNothing

\* Numbers that go each to another one, no smaller, add up to no more.
LEMMA TotalInjected ==
    ASSUME NEW S, IsFiniteSet(S), NEW T, IsFiniteSet(T),
           NEW f \in [S -> Nat], NEW g \in [T -> Nat], NEW m \in [S -> T],
           \A x, y \in S : m[x] = m[y] => x = y,
           \A x \in S : f[x] <= g[m[x]]
    PROVE  SumFunction(f) <= SumFunction(g)
<1>1. /\ \A x \in S : f[x] \in Int /\ f[x] <= g[m[x]]
      /\ \A y \in T : g[y] \in Nat
  OBVIOUS
<1>2. SumFunctionOnSet(f, S) <= SumFunctionOnSet(g, T)
  BY <1>1, SumInjected
<1>3. QED
  BY <1>2, TotalIsSum

\* Over more, and of no less, the sum is no less.
LEMMA TotalIsMonotone ==
    ASSUME NEW T, IsFiniteSet(T), NEW S \in SUBSET T,
           NEW f \in [S -> Nat], NEW g \in [T -> Nat], \A x \in S : f[x] <= g[x]
    PROVE  SumFunction(f) <= SumFunction(g)
<1> DEFINE m == [x \in S |-> x]
<1>1. /\ IsFiniteSet(S) /\ m \in [S -> T]
      /\ \A x, y \in S : m[x] = m[y] => x = y
      /\ \A x \in S : f[x] <= g[m[x]]
  BY FS_Subset
<1> HIDE DEF m
<1>2. QED
  BY <1>1, TotalInjected

\* The sum of two functions is that of their sums.
LEMMA TotalsAdd ==
    ASSUME NEW S, IsFiniteSet(S), NEW f \in [S -> Nat], NEW g \in [S -> Nat]
    PROVE  SumFunction([x \in S |-> f[x] + g[x]]) = SumFunction(f) + SumFunction(g)
<1> DEFINE h == [x \in S |-> f[x] + g[x]]
<1>1. \A x \in S : f[x] \in Int /\ g[x] \in Int /\ h[x] = f[x] + g[x]
  OBVIOUS
<1>2. DOMAIN h = S
  OBVIOUS
<1> HIDE DEF h
<1>3. SumFunctionOnSet(h, S) = SumFunctionOnSet(f, S) + SumFunctionOnSet(g, S)
  BY <1>1, SumsAdd
<1>4. SumFunction(h) = SumFunction(f) + SumFunction(g)
  BY <1>2, <1>3, TotalIsSum
<1>5. QED
  BY <1>4 DEF h

-----------------------------------------------------------------------------
(***************************************************************************)
(* Books kept in two ways                                                  *)
(***************************************************************************)

\* The difference of two functions has the difference of their sums.
LEMMA SumsSubtract ==
    ASSUME NEW S, IsFiniteSet(S), NEW f, NEW g, NEW h,
           \A x \in S : f[x] \in Int /\ g[x] \in Int /\ h[x] = f[x] - g[x]
    PROVE  SumFunctionOnSet(h, S) = SumFunctionOnSet(f, S) - SumFunctionOnSet(g, S)
<1>1. \A x \in S : h[x] \in Int /\ g[x] \in Int /\ f[x] = h[x] + g[x]
  OBVIOUS
<1>2. SumFunctionOnSet(f, S) = SumFunctionOnSet(h, S) + SumFunctionOnSet(g, S)
  BY <1>1, SumsAdd
<1>3. SumFunctionOnSet(h, S) \in Int /\ SumFunctionOnSet(g, S) \in Int
  BY <1>1, SumIsInt
<1>4. QED
  BY <1>2, <1>3

\* A balance at each place: what is there, comes and goes, in two ways each.
LEMMA SumOfBalances ==
    ASSUME NEW S, IsFiniteSet(S), NEW f, NEW a, NEW b, NEW c, NEW d, NEW h,
           \A x \in S : /\ f[x] \in Int /\ a[x] \in Int /\ b[x] \in Int
                        /\ c[x] \in Int /\ d[x] \in Int
                        /\ h[x] = f[x] + a[x] - b[x] + c[x] - d[x]
    PROVE  SumFunctionOnSet(h, S)
             = SumFunctionOnSet(f, S) + SumFunctionOnSet(a, S) - SumFunctionOnSet(b, S)
               + SumFunctionOnSet(c, S) - SumFunctionOnSet(d, S)
<1> DEFINE u == [x \in S |-> f[x] + a[x]]
           v == [x \in S |-> u[x] - b[x]]
           w == [x \in S |-> v[x] + c[x]]
<1>1. \A x \in S : u[x] \in Int /\ v[x] \in Int /\ w[x] \in Int
  OBVIOUS
<1>2. /\ \A x \in S : u[x] = f[x] + a[x]
      /\ \A x \in S : v[x] = u[x] - b[x]
      /\ \A x \in S : w[x] = v[x] + c[x]
      /\ \A x \in S : h[x] = w[x] - d[x]
  OBVIOUS
<1> HIDE DEF u, v, w
<1>3. SumFunctionOnSet(u, S) = SumFunctionOnSet(f, S) + SumFunctionOnSet(a, S)
  BY <1>2, SumsAdd
<1>4. SumFunctionOnSet(v, S) = SumFunctionOnSet(u, S) - SumFunctionOnSet(b, S)
  BY <1>1, <1>2, SumsSubtract
<1>5. SumFunctionOnSet(w, S) = SumFunctionOnSet(v, S) + SumFunctionOnSet(c, S)
  BY <1>1, <1>2, SumsAdd
<1>6. SumFunctionOnSet(h, S) = SumFunctionOnSet(w, S) - SumFunctionOnSet(d, S)
  BY <1>1, <1>2, SumsSubtract
<1>7. /\ SumFunctionOnSet(f, S) \in Int /\ SumFunctionOnSet(a, S) \in Int
      /\ SumFunctionOnSet(b, S) \in Int /\ SumFunctionOnSet(c, S) \in Int
      /\ SumFunctionOnSet(d, S) \in Int
  BY SumIsInt
<1>8. QED
  BY <1>3, <1>4, <1>5, <1>6, <1>7

\* A factor of all is a factor of the sum.
LEMMA SumScaled ==
    ASSUME NEW S, IsFiniteSet(S), NEW f, NEW h, NEW n \in Int,
           \A x \in S : f[x] \in Int /\ h[x] = n * f[x]
    PROVE  SumFunctionOnSet(h, S) = n * SumFunctionOnSet(f, S)
<1> DEFINE G == {T \in SUBSET S : SumFunctionOnSet(h, T) = n * SumFunctionOnSet(f, T)}
<1>1. {} \in G
  <2>1. SumFunctionOnSet(f, {}) = 0 /\ SumFunctionOnSet(h, {}) = 0
    BY SumOfNothing
  <2>2. QED
    BY <2>1
<1>2. ASSUME NEW T \in SUBSET S, NEW x \in S \ T, T \in G PROVE T \union {x} \in G
  <2>1. \A y \in S : f[y] \in Int /\ h[y] \in Int
    OBVIOUS
  <2>2. IsFiniteSet(T) /\ x \notin T /\ \A y \in T \union {x} : f[y] \in Int /\ h[y] \in Int
    BY <2>1, FS_Subset
  <2>3. /\ SumFunctionOnSet(f, T \union {x}) = SumFunctionOnSet(f, T) + f[x]
        /\ SumFunctionOnSet(h, T \union {x}) = SumFunctionOnSet(h, T) + h[x]
        /\ SumFunctionOnSet(f, T) \in Int
    BY <2>2, SumGrows, SumIsInt
  <2>4. h[x] = n * f[x] /\ SumFunctionOnSet(h, T) = n * SumFunctionOnSet(f, T)
    BY <1>2
  <2>5. \A i, j \in Int : n * i + n * j = n * (i + j)
    OBVIOUS
  <2>6. SumFunctionOnSet(h, T \union {x}) = n * SumFunctionOnSet(f, T \union {x})
    BY <2>2, <2>3, <2>4, <2>5
  <2>7. QED
    BY <2>6
<1> HIDE DEF G
<1>3. S \in G
  BY <1>1, <1>2, FiniteGrowth
<1>4. QED
  BY <1>3 DEF G

\* The rows and the columns of a table have the same sum.
LEMMA SumsSwap ==
    ASSUME NEW S, IsFiniteSet(S), NEW T, IsFiniteSet(T), NEW f,
           \A x \in S, y \in T : f[x][y] \in Int,
           NEW row, \A x \in S : row[x] = SumFunctionOnSet(f[x], T),
           NEW g, \A y \in T, x \in S : g[y][x] = f[x][y],
           NEW column, \A y \in T : column[y] = SumFunctionOnSet(g[y], S)
    PROVE  SumFunctionOnSet(row, S) = SumFunctionOnSet(column, T)
<1> DEFINE part(R) == [y \in T |-> SumFunctionOnSet(g[y], R)]
           G == {R \in SUBSET S : SumFunctionOnSet(row, R) = SumFunctionOnSet(part(R), T)}
<1>0. \A x \in S : row[x] \in Int
  BY SumIsInt
<1>1. {} \in G
  <2> DEFINE none == part({})
  <2>1. \A y \in T : none[y] = 0
    BY SumOfNothing
  <2> HIDE DEF none
  <2>2. SumFunctionOnSet(none, T) = 0 /\ SumFunctionOnSet(row, {}) = 0
    BY <2>1, SumOfZeroes, SumOfNothing
  <2>3. QED
    BY <2>2 DEF none
<1>2. ASSUME NEW R \in SUBSET S, NEW x \in S \ R, R \in G PROVE R \union {x} \in G
  <2> DEFINE old == part(R)
             new == part(R \union {x})
  <2>1. /\ IsFiniteSet(R) /\ x \notin R
        /\ \A z \in R \union {x} : row[z] \in Int
        /\ \A y \in T : \A z \in R \union {x} : g[y][z] \in Int
    BY <1>0, FS_Subset
  <2>2. \A y \in T : old[y] \in Int /\ f[x][y] \in Int /\ new[y] = old[y] + f[x][y]
    <3> SUFFICES ASSUME NEW y \in T
                 PROVE old[y] \in Int /\ f[x][y] \in Int /\ new[y] = old[y] + f[x][y]
      OBVIOUS
    <3> DEFINE c == g[y]
    <3>1. \A z \in R \union {x} : c[z] \in Int
      BY <2>1
    <3>2. c[x] = f[x][y]
      OBVIOUS
    <3>3. old[y] = SumFunctionOnSet(c, R) /\ new[y] = SumFunctionOnSet(c, R \union {x})
      OBVIOUS
    <3> HIDE DEF c, old, new
    <3>4. /\ SumFunctionOnSet(c, R \union {x}) = SumFunctionOnSet(c, R) + c[x]
          /\ SumFunctionOnSet(c, R) \in Int
      BY <2>1, <3>1, SumGrows, SumIsInt
    <3>5. QED
      BY <3>2, <3>3, <3>4
  <2>3. SumFunctionOnSet(row, R) = SumFunctionOnSet(old, T)
    BY <1>2
  <2> DEFINE r == f[x]
  <2>4. row[x] = SumFunctionOnSet(r, T)
    OBVIOUS
  <2>5. \A y \in T : old[y] \in Int /\ r[y] \in Int /\ new[y] = old[y] + r[y]
    BY <2>2
  <2> HIDE DEF old, new, r
  <2>6. SumFunctionOnSet(new, T) = SumFunctionOnSet(old, T) + SumFunctionOnSet(r, T)
    BY <2>5, SumsAdd
  <2>7. SumFunctionOnSet(row, R \union {x}) = SumFunctionOnSet(row, R) + row[x]
    BY <2>1, SumGrows
  <2>8. SumFunctionOnSet(row, R \union {x}) = SumFunctionOnSet(new, T)
    BY <2>3, <2>4, <2>6, <2>7
  <2>9. QED
    BY <2>8 DEF new
<1>3. S \in G
  <2> HIDE DEF G
  <2>1. QED
    BY <1>1, <1>2, FiniteGrowth
<1>4. SumFunctionOnSet(row, S) = SumFunctionOnSet(part(S), T)
  BY <1>3
<1> DEFINE all == part(S)
<1>5. \A y \in T : all[y] \in Int /\ column[y] = all[y]
  <2> SUFFICES ASSUME NEW y \in T PROVE SumFunctionOnSet(g[y], S) \in Int
    OBVIOUS
  <2>1. \A x \in S : g[y][x] \in Int
    OBVIOUS
  <2>2. QED
    BY <2>1, SumIsInt
<1> HIDE DEF all
<1>6. SumFunctionOnSet(column, T) = SumFunctionOnSet(all, T)
  BY <1>5, SumsAgree
<1>7. QED
  BY <1>4, <1>6 DEF all

\* The sum over a set some leave and others join.
LEMMA SumMoves ==
    ASSUME NEW S, IsFiniteSet(S), NEW Out \in SUBSET S, NEW In, IsFiniteSet(In),
           S \intersect In = {}, NEW f, \A x \in S \union In : f[x] \in Int
    PROVE  SumFunctionOnSet(f, (S \ Out) \union In)
             = SumFunctionOnSet(f, S) - SumFunctionOnSet(f, Out) + SumFunctionOnSet(f, In)
<1> DEFINE R == S \ Out
<1>1. /\ IsFiniteSet(R) /\ IsFiniteSet(Out)
      /\ R \intersect In = {} /\ R \intersect Out = {} /\ R \union Out = S
      /\ \A x \in R \union In : f[x] \in Int
      /\ \A x \in R \union Out : f[x] \in Int
      /\ \A x \in R : f[x] \in Int
      /\ \A x \in Out : f[x] \in Int
      /\ \A x \in In : f[x] \in Int
  BY FS_Subset
<1> HIDE DEF R
<1>2. SumFunctionOnSet(f, R \union In) = SumFunctionOnSet(f, R) + SumFunctionOnSet(f, In)
  BY <1>1, SumOfUnion
<1>3. SumFunctionOnSet(f, R \union Out) = SumFunctionOnSet(f, R) + SumFunctionOnSet(f, Out)
  BY <1>1, SumOfUnion
<1>4. SumFunctionOnSet(f, S) = SumFunctionOnSet(f, R) + SumFunctionOnSet(f, Out)
  BY <1>1, <1>3
<1>5. /\ SumFunctionOnSet(f, R) \in Int /\ SumFunctionOnSet(f, Out) \in Int
      /\ SumFunctionOnSet(f, In) \in Int
  BY <1>1, SumIsInt
<1>6. SumFunctionOnSet(f, R \union In)
        = SumFunctionOnSet(f, S) - SumFunctionOnSet(f, Out) + SumFunctionOnSet(f, In)
  BY <1>2, <1>4, <1>5
<1>7. QED
  BY <1>6 DEF R

\* Of a set of one
LEMMA SumOfOne == \A f, x : f[x] \in Int => SumFunctionOnSet(f, {x}) = f[x]
<1> SUFFICES ASSUME NEW f, NEW x, f[x] \in Int PROVE SumFunctionOnSet(f, {x}) = f[x]
  OBVIOUS
<1> DEFINE S == {}
<1>1. IsFiniteSet(S) /\ (\A y \in S : f[y] \in Int) /\ x \notin S /\ S \union {x} = {x}
  BY FS_EmptySet
<1>2. SumFunctionOnSet(f, S) = 0
  BY SumOfNothing
<1> HIDE DEF S
<1>3. SumFunctionOnSet(f, S \union {x}) = SumFunctionOnSet(f, S) + f[x]
  BY <1>1, SumGrows
<1>4. SumFunctionOnSet(f, S \union {x}) = f[x]
  BY <1>2, <1>3
<1>5. QED
  BY <1>1, <1>4

\* The same numbers under other names, and nothing besides, add up to the same.
LEMMA SumRenamed ==
    ASSUME NEW S, IsFiniteSet(S), NEW T, IsFiniteSet(T), NEW m \in [S -> T],
           \A x, y \in S : m[x] = m[y] => x = y,
           NEW f, NEW g, \A x \in S : f[x] \in Int /\ g[m[x]] = f[x],
           \A y \in T : (\A x \in S : m[x] # y) => g[y] = 0
    PROVE  SumFunctionOnSet(f, S) = SumFunctionOnSet(g, T)
<1>1. \A y \in T : g[y] = SumFunctionOnSet(f, {x \in S : m[x] = y})
  <2> SUFFICES ASSUME NEW y \in T PROVE g[y] = SumFunctionOnSet(f, {x \in S : m[x] = y})
    OBVIOUS
  <2>1. CASE \E x \in S : m[x] = y
    <3>1. PICK x \in S : m[x] = y
      BY <2>1
    <3>2. {z \in S : m[z] = y} = {x}
      BY <3>1
    <3>3. SumFunctionOnSet(f, {x}) = f[x]
      BY SumOfOne
    <3>4. QED
      BY <3>1, <3>2, <3>3
  <2>2. CASE \A x \in S : m[x] # y
    <3>1. {z \in S : m[z] = y} = {}
      BY <2>2
    <3>2. QED
      BY <2>2, <3>1, SumOfNothing
  <2>3. QED
    BY <2>1, <2>2
<1>2. QED
  BY <1>1, SumByParts

\* A function's sum over a set is that of the function restricted to it.
LEMMA TotalIsSumOn ==
    ASSUME NEW S, IsFiniteSet(S), NEW f, \A x \in S : f[x] \in Int,
           NEW g, DOMAIN g = S, \A x \in S : g[x] = f[x]
    PROVE  SumFunction(g) = SumFunctionOnSet(f, S) /\ SumFunction(g) \in Int
<1>1. SumFunctionOnSet(g, S) = SumFunctionOnSet(f, S)
  BY SumsAgree
<1>2. QED
  BY <1>1, TotalIsSum, SumIsInt
=============================================================================
