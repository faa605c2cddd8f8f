-------------------------------- MODULE Sums --------------------------------
(***************************************************************************)
(* Facts about SumFunctionOnSet of the community module Functions, which   *)
(* the books are totalled with: what it comes to when an element is added, *)
(* removed or changed.  It is defined by choosing a recursive function on  *)
(* the subsets of a set; that one exists and is unique follows from the    *)
(* strict subset ordering of a finite set being well founded.              *)
(***************************************************************************)
EXTENDS Integers, FiniteSets, Functions, FiniteSetTheorems, WellFoundedInduction, TLAPS

SumStep(f, g, s) ==
  LET x == CHOOSE x \in s : TRUE
  IN  IF s = {} THEN 0 ELSE f[x] + g[s \ {x}]

IsSumOf(f, g, S) == g = [s \in SUBSET S |-> SumStep(f, g, s)]

(* A set that holds every subset of S whose proper subsets it holds,
   holds all of them, S being finite. *)
LEMMA SubsetInduction ==
  ASSUME NEW S, IsFiniteSet(S), NEW Good,
         \A T \in SUBSET S :
            (\A U \in SUBSET T : U # T => U \in Good) => T \in Good
  PROVE  SUBSET S \subseteq Good
<1> DEFINE Bad == {T \in SUBSET S : T \notin Good}
<1>1. SUFFICES ASSUME Bad # {} PROVE FALSE
  OBVIOUS
<1>2. Bad \subseteq FiniteSubsetsOf(S)
  BY FS_Subset DEF FiniteSubsetsOf
<1>3. PICK T \in Bad : \A U \in Bad : <<U, T>> \notin StrictSubsetOrdering(S)
  <2>1. IsWellFoundedOn(StrictSubsetOrdering(S), FiniteSubsetsOf(S))
    BY FS_StrictSubsetOrderingWellFounded
  <2> HIDE DEF Bad
  <2> QED BY <1>1, <1>2, <2>1, WFMin
<1>4. \A U \in SUBSET T : U # T => U \in Good
  BY <1>3 DEF StrictSubsetOrdering
<1> QED BY <1>3, <1>4

(* The sums over the subsets of T are those over the subsets of S, T
   being one. *)
LEMMA SumOfRestricts ==
  ASSUME NEW f, NEW g, NEW S, NEW T \in SUBSET S, IsSumOf(f, g, S)
  PROVE  IsSumOf(f, [s \in SUBSET T |-> g[s]], T)
<1> DEFINE h == [s \in SUBSET T |-> g[s]]
<1>1. ASSUME NEW s \in SUBSET T PROVE g[s] = SumStep(f, h, s)
  <2>1. g[s] = SumStep(f, g, s)
    BY DEF IsSumOf
  <2>2. s # {} => s \ {CHOOSE x \in s : TRUE} \in SUBSET T
    OBVIOUS
  <2> QED BY <2>1, <2>2 DEF SumStep
<1> QED BY <1>1 DEF IsSumOf

(* Two functions that sum f over the subsets of S are the same. *)
LEMMA SumOfIsUnique ==
  ASSUME NEW S, IsFiniteSet(S), NEW f, NEW g, NEW h,
         IsSumOf(f, g, S), IsSumOf(f, h, S)
  PROVE  g = h
<1> DEFINE Good == {T \in SUBSET S : g[T] = h[T]}
<1>1. ASSUME NEW T \in SUBSET S, \A U \in SUBSET T : U # T => U \in Good
      PROVE  T \in Good
  <2>1. g[T] = SumStep(f, g, T) /\ h[T] = SumStep(f, h, T)
    BY DEF IsSumOf
  <2>2. T # {} => g[T \ {CHOOSE x \in T : TRUE}] = h[T \ {CHOOSE x \in T : TRUE}]
    BY <1>1
  <2> QED BY <2>1, <2>2 DEF SumStep
<1>2. SUBSET S \subseteq Good
  <2> HIDE DEF Good
  <2> QED BY <1>1, SubsetInduction
<1>3. \A T \in SUBSET S : g[T] = h[T]
  BY <1>2
<1>4. g = [T \in SUBSET S |-> g[T]] /\ h = [T \in SUBSET S |-> h[T]]
  BY DEF IsSumOf
<1> QED BY <1>3, <1>4

(* Some function sums f over the subsets of a finite set. *)
LEMMA SumOfExists ==
  ASSUME NEW S, IsFiniteSet(S), NEW f
  PROVE  \E g : IsSumOf(f, g, S)
<1> DEFINE Sol(s) == CHOOSE g : IsSumOf(f, g, s)
           Good == {T \in SUBSET S : IsSumOf(f, Sol(T), T)}
<1>1. ASSUME NEW T \in SUBSET S, \A U \in SUBSET T : U # T => U \in Good
      PROVE  T \in Good
  <2> DEFINE x == CHOOSE y \in T : TRUE
             g == [s \in SUBSET T |->
                     IF s # T THEN Sol(s)[s]
                     ELSE IF T = {} THEN 0 ELSE f[x] + Sol(T \ {x})[T \ {x}]]
  <2>1. ASSUME NEW s \in SUBSET T PROVE g[s] = SumStep(f, g, s)
    <3>1. CASE s = T
      <4>1. T # {} => T \ {x} \in SUBSET T /\ T \ {x} # T
        OBVIOUS
      <4>2. T # {} => g[T \ {x}] = Sol(T \ {x})[T \ {x}]
        BY <4>1
      <4>3. g[T] = IF T = {} THEN 0 ELSE f[x] + Sol(T \ {x})[T \ {x}]
        OBVIOUS
      <4> HIDE DEF g, Sol
      <4> QED BY <3>1, <4>2, <4>3 DEF SumStep
    <3>2. CASE s # T
      <4> DEFINE y == CHOOSE z \in s : TRUE
                 u == s \ {y}
      <4>1. IsSumOf(f, Sol(s), s)
        BY <1>1, <3>2
      <4>2. g[s] = SumStep(f, Sol(s), s)
        <5>1. g[s] = Sol(s)[s]
          BY <3>2
        <5> HIDE DEF Sol, g
        <5> QED BY <4>1, <5>1 DEF IsSumOf
      <4>3. CASE s = {}
        BY <4>2, <4>3 DEF SumStep
      <4>4. CASE s # {}
        <5>1. u \in SUBSET s /\ u \in SUBSET T /\ u # T /\ u \in SUBSET S
          BY <4>4, <3>2
        <5>2. IsFiniteSet(u)
          BY <5>1, FS_Subset
        <5>3. IsSumOf(f, [v \in SUBSET u |-> Sol(s)[v]], u)
          <6> HIDE DEF Sol, u
          <6> QED BY <4>1, <5>1, SumOfRestricts
        <5>4. IsSumOf(f, Sol(u), u)
          BY <1>1, <5>1
        <5>5. Sol(u) = [v \in SUBSET u |-> Sol(s)[v]]
          <6> HIDE DEF Sol, u
          <6> QED BY <5>2, <5>3, <5>4, SumOfIsUnique
        <5>6. g[u] = Sol(s)[u]
          <6>1. g[u] = Sol(u)[u]
            BY <5>1
          <6> HIDE DEF Sol, u, g
          <6> QED BY <5>5, <6>1
        <5> HIDE DEF Sol, g
        <5> QED BY <4>2, <4>4, <5>6 DEF SumStep
      <4> QED BY <4>3, <4>4
    <3> QED BY <3>1, <3>2
  <2>2. IsSumOf(f, g, T)
    <3>1. g = [s \in SUBSET T |-> g[s]]
      OBVIOUS
    <3> HIDE DEF g
    <3> QED BY <2>1, <3>1 DEF IsSumOf
  <2>3. IsSumOf(f, Sol(T), T)
    <3> HIDE DEF g
    <3> QED BY <2>2
  <2> QED BY <2>3
<1>2. SUBSET S \subseteq Good
  <2> HIDE DEF Good
  <2> QED BY <1>1, SubsetInduction
<1> QED BY <1>2

(* SumFunctionOnSet satisfies the recursion it is defined by. *)
LEMMA SumUnfolds ==
  ASSUME NEW S, IsFiniteSet(S), NEW f
  PROVE  /\ SumFunctionOnSet(f, {}) = 0
         /\ S # {} => LET x == CHOOSE x \in S : TRUE
                      IN  SumFunctionOnSet(f, S) = f[x] + SumFunctionOnSet(f, S \ {x})
<1> DEFINE Sol(s) == CHOOSE g : IsSumOf(f, g, s)
<1>1. \A T : SumFunctionOnSet(f, T) = Sol(T)[T]
  BY DEF SumFunctionOnSet, FoldFunctionOnSet, MapThenFoldSet, IsSumOf, SumStep
<1>2. \A T \in SUBSET S : IsSumOf(f, Sol(T), T)
  BY SumOfExists, FS_Subset
<1>3. \A T \in SUBSET S : Sol(T)[T] = SumStep(f, Sol(T), T)
  <2> HIDE DEF Sol
  <2> QED BY <1>2 DEF IsSumOf
<1>4. ASSUME S # {}
      PROVE  LET x == CHOOSE x \in S : TRUE
             IN  Sol(S)[S \ {x}] = Sol(S \ {x})[S \ {x}]
  <2> DEFINE u == S \ {CHOOSE x \in S : TRUE}
  <2>1. IsFiniteSet(u) /\ u \in SUBSET S
    BY FS_Subset
  <2> HIDE DEF Sol, u
  <2>2. IsSumOf(f, [v \in SUBSET u |-> Sol(S)[v]], u)
    BY <1>2, <2>1, SumOfRestricts
  <2>3. Sol(u) = [v \in SUBSET u |-> Sol(S)[v]]
    BY <1>2, <2>1, <2>2, SumOfIsUnique
  <2>4. Sol(u)[u] = Sol(S)[u]
    BY <2>3
  <2> QED BY <2>4 DEF u
<1>5. {} \in SUBSET S /\ S \in SUBSET S
  OBVIOUS
<1> HIDE DEF Sol
<1> QED BY <1>1, <1>3, <1>4, <1>5 DEF SumStep
(* A sum of integers is an integer. *)
THEOREM SumIsInt ==
  ASSUME NEW S, IsFiniteSet(S), NEW f, \A x \in S : f[x] \in Int
  PROVE  SumFunctionOnSet(f, S) \in Int
<1> DEFINE Good == {T \in SUBSET S : SumFunctionOnSet(f, T) \in Int}
<1>1. ASSUME NEW T \in SUBSET S, \A U \in SUBSET T : U # T => U \in Good
      PROVE  T \in Good
  <2>1. IsFiniteSet(T)
    BY FS_Subset
  <2>2. CASE T = {}
    BY <2>1, <2>2, SumUnfolds
  <2>3. CASE T # {}
    <3> DEFINE x == CHOOSE y \in T : TRUE
    <3>1. x \in T /\ T \ {x} \in Good
      BY <1>1, <2>3
    <3>2. SumFunctionOnSet(f, T) = f[x] + SumFunctionOnSet(f, T \ {x})
      BY <2>1, <2>3, SumUnfolds
    <3> HIDE DEF x
    <3> QED BY <3>1, <3>2
  <2> QED BY <2>2, <2>3
<1>2. SUBSET S \subseteq Good
  <2> HIDE DEF Good
  <2> QED BY <1>1, SubsetInduction
<1> QED BY <1>2

(* Any element can be taken out of a sum, whatever the order it was
   computed in. *)
THEOREM SumRemoves ==
  ASSUME NEW S, IsFiniteSet(S), NEW f, \A x \in S : f[x] \in Int, NEW a \in S
  PROVE  SumFunctionOnSet(f, S) = f[a] + SumFunctionOnSet(f, S \ {a})
<1> DEFINE Sum(T) == SumFunctionOnSet(f, T)
           Good == {T \in SUBSET S : \A x \in T : Sum(T) = f[x] + Sum(T \ {x})}
<1>0. \A T \in SUBSET S : Sum(T) \in Int
  BY FS_Subset, SumIsInt
<1>1. ASSUME NEW T \in SUBSET S, \A U \in SUBSET T : U # T => U \in Good
      PROVE  T \in Good
  <2>1. IsFiniteSet(T)
    BY FS_Subset
  <2> SUFFICES ASSUME NEW x \in T PROVE Sum(T) = f[x] + Sum(T \ {x})
    OBVIOUS
  <2> DEFINE y == CHOOSE z \in T : TRUE
  <2>2. y \in T
    OBVIOUS
  <2>3. Sum(T) = f[y] + Sum(T \ {y})
    BY <2>1, SumUnfolds
  <2>4. CASE x # y
    <3>1. T \ {x} \in Good /\ T \ {y} \in Good
      BY <1>1, <2>2
    <3>2. Sum(T \ {y}) = f[x] + Sum((T \ {y}) \ {x})
      BY <3>1, <2>4
    <3>3. Sum(T \ {x}) = f[y] + Sum((T \ {x}) \ {y})
      BY <3>1, <2>2, <2>4
    <3>4. (T \ {x}) \ {y} = (T \ {y}) \ {x}
      OBVIOUS
    <3>5. Sum((T \ {y}) \ {x}) \in Int
      BY <1>0
    <3>6. f[x] \in Int /\ f[y] \in Int
      BY <2>2
    <3>7. ASSUME NEW p \in Int, NEW q \in Int, NEW r \in Int PROVE p + (q + r) = q + (p + r)
      OBVIOUS
    <3>8. f[y] + (f[x] + Sum((T \ {y}) \ {x})) = f[x] + (f[y] + Sum((T \ {y}) \ {x}))
      <4> HIDE DEF Sum, y
      <4> QED BY <3>5, <3>6, <3>7
    <3> HIDE DEF Sum, y
    <3> QED BY <2>3, <3>2, <3>3, <3>4, <3>8, Zenon
  <2> QED BY <2>3, <2>4
<1>2. SUBSET S \subseteq Good
  <2> HIDE DEF Good
  <2> QED BY <1>1, SubsetInduction
<1> QED BY <1>2

(* Adding an element to a set adds its value to the sum. *)
THEOREM SumAdds ==
  ASSUME NEW S, IsFiniteSet(S), NEW a, a \notin S, NEW f,
         \A x \in S \cup {a} : f[x] \in Int
  PROVE  SumFunctionOnSet(f, S \cup {a}) = f[a] + SumFunctionOnSet(f, S)
<1>1. IsFiniteSet(S \cup {a}) /\ (S \cup {a}) \ {a} = S
  BY FS_AddElement
<1> QED BY <1>1, SumRemoves

(* A sum depends only on the values on the set. *)
THEOREM SumAgrees ==
  ASSUME NEW S, IsFiniteSet(S), NEW f, NEW g, \A x \in S : f[x] = g[x]
  PROVE  SumFunctionOnSet(f, S) = SumFunctionOnSet(g, S)
<1> DEFINE Good == {T \in SUBSET S : SumFunctionOnSet(f, T) = SumFunctionOnSet(g, T)}
<1>1. ASSUME NEW T \in SUBSET S, \A U \in SUBSET T : U # T => U \in Good
      PROVE  T \in Good
  <2>1. IsFiniteSet(T)
    BY FS_Subset
  <2>2. CASE T = {}
    BY <2>1, <2>2, SumUnfolds
  <2>3. CASE T # {}
    <3> DEFINE x == CHOOSE y \in T : TRUE
    <3>1. x \in T /\ T \ {x} \in Good /\ f[x] = g[x]
      BY <1>1, <2>3
    <3>2. SumFunctionOnSet(f, T) = f[x] + SumFunctionOnSet(f, T \ {x})
      BY <2>1, <2>3, SumUnfolds
    <3>3. SumFunctionOnSet(g, T) = g[x] + SumFunctionOnSet(g, T \ {x})
      BY <2>1, <2>3, SumUnfolds
    <3> HIDE DEF x
    <3> QED BY <3>1, <3>2, <3>3
  <2> QED BY <2>2, <2>3
<1>2. SUBSET S \subseteq Good
  <2> HIDE DEF Good
  <2> QED BY <1>1, SubsetInduction
<1> QED BY <1>2

(* A sum of natural numbers is a natural number. *)
THEOREM SumIsNat ==
  ASSUME NEW S, IsFiniteSet(S), NEW f, \A x \in S : f[x] \in Nat
  PROVE  SumFunctionOnSet(f, S) \in Nat
<1> DEFINE Good == {T \in SUBSET S : SumFunctionOnSet(f, T) \in Nat}
<1>1. ASSUME NEW T \in SUBSET S, \A U \in SUBSET T : U # T => U \in Good
      PROVE  T \in Good
  <2>1. IsFiniteSet(T)
    BY FS_Subset
  <2>2. CASE T = {}
    BY <2>1, <2>2, SumUnfolds
  <2>3. CASE T # {}
    <3> DEFINE x == CHOOSE y \in T : TRUE
    <3>1. x \in T /\ T \ {x} \in Good
      BY <1>1, <2>3
    <3>2. SumFunctionOnSet(f, T) = f[x] + SumFunctionOnSet(f, T \ {x})
      BY <2>1, <2>3, SumUnfolds
    <3> HIDE DEF x
    <3> QED BY <3>1, <3>2
  <2> QED BY <2>2, <2>3
<1>2. SUBSET S \subseteq Good
  <2> HIDE DEF Good
  <2> QED BY <1>1, SubsetInduction
<1> QED BY <1>2

(* Changing the value of one element changes the sum by as much. *)
THEOREM SumChanges ==
  ASSUME NEW S, IsFiniteSet(S), NEW a \in S, NEW f, NEW g,
         \A x \in S : f[x] \in Int /\ g[x] \in Int,
         \A x \in S \ {a} : f[x] = g[x]
  PROVE  SumFunctionOnSet(g, S) = SumFunctionOnSet(f, S) + (g[a] - f[a])
<1>1. IsFiniteSet(S \ {a})
  BY FS_Subset
<1>2. SumFunctionOnSet(f, S \ {a}) = SumFunctionOnSet(g, S \ {a})
  BY <1>1, SumAgrees
<1>3. SumFunctionOnSet(f, S \ {a}) \in Int
  BY <1>1, SumIsInt
<1>4. /\ SumFunctionOnSet(f, S) = f[a] + SumFunctionOnSet(f, S \ {a})
      /\ SumFunctionOnSet(g, S) = g[a] + SumFunctionOnSet(g, S \ {a})
  BY SumRemoves
<1> QED BY <1>2, <1>3, <1>4

(* A sum of zeros is zero. *)
THEOREM SumOfZeros ==
  ASSUME NEW S, IsFiniteSet(S), NEW f, \A x \in S : f[x] = 0
  PROVE  SumFunctionOnSet(f, S) = 0
<1> DEFINE Good == {T \in SUBSET S : SumFunctionOnSet(f, T) = 0}
<1>1. ASSUME NEW T \in SUBSET S, \A U \in SUBSET T : U # T => U \in Good
      PROVE  T \in Good
  <2>1. IsFiniteSet(T)
    BY FS_Subset
  <2>2. CASE T = {}
    BY <2>1, <2>2, SumUnfolds
  <2>3. CASE T # {}
    <3> DEFINE x == CHOOSE y \in T : TRUE
    <3>1. f[x] = 0 /\ T \ {x} \in Good
      BY <1>1, <2>3
    <3>2. SumFunctionOnSet(f, T) = f[x] + SumFunctionOnSet(f, T \ {x})
      BY <2>1, <2>3, SumUnfolds
    <3> HIDE DEF x
    <3> QED BY <3>1, <3>2
  <2> QED BY <2>2, <2>3
<1>2. SUBSET S \subseteq Good
  <2> HIDE DEF Good
  <2> QED BY <1>1, SubsetInduction
<1> QED BY <1>2

(* A sum to which one element contributes comes to what it does. *)
THEOREM SumOfOne ==
  ASSUME NEW S, IsFiniteSet(S), NEW a \in S, NEW f, f[a] \in Int,
         \A x \in S \ {a} : f[x] = 0
  PROVE  SumFunctionOnSet(f, S) = f[a]
<1>1. IsFiniteSet(S \ {a})
  BY FS_Subset
<1>2. SumFunctionOnSet(f, S \ {a}) = 0
  BY <1>1, SumOfZeros
<1>3. SumFunctionOnSet(f, S) = f[a] + SumFunctionOnSet(f, S \ {a})
  <2>1. \A x \in S : f[x] \in Int
    OBVIOUS
  <2> QED BY <2>1, SumRemoves
<1> QED BY <1>2, <1>3

(* A sum of sums is taken term by term. *)
THEOREM SumOfSums ==
  ASSUME NEW S, IsFiniteSet(S), NEW f, NEW g, NEW h,
         \A x \in S : f[x] \in Int /\ g[x] \in Int /\ h[x] = f[x] + g[x]
  PROVE  SumFunctionOnSet(h, S) = SumFunctionOnSet(f, S) + SumFunctionOnSet(g, S)
<1> DEFINE Good == {T \in SUBSET S :
              SumFunctionOnSet(h, T) = SumFunctionOnSet(f, T) + SumFunctionOnSet(g, T)}
<1>1. ASSUME NEW T \in SUBSET S, \A U \in SUBSET T : U # T => U \in Good
      PROVE  T \in Good
  <2>1. IsFiniteSet(T)
    BY FS_Subset
  <2>2. CASE T = {}
    BY <2>1, <2>2, SumUnfolds
  <2>3. CASE T # {}
    <3> DEFINE x == CHOOSE y \in T : TRUE
               U == T \ {x}
    <3>1. x \in T /\ U \in Good /\ U \in SUBSET S
      BY <1>1, <2>3
    <3>2. /\ SumFunctionOnSet(f, T) = f[x] + SumFunctionOnSet(f, U)
          /\ SumFunctionOnSet(g, T) = g[x] + SumFunctionOnSet(g, U)
          /\ SumFunctionOnSet(h, T) = h[x] + SumFunctionOnSet(h, U)
      BY <2>1, <2>3, SumUnfolds
    <3>3. SumFunctionOnSet(f, U) \in Int /\ SumFunctionOnSet(g, U) \in Int
      <4>1. IsFiniteSet(U)
        BY <3>1, FS_Subset
      <4>2. \A y \in U : f[y] \in Int /\ g[y] \in Int
        BY <3>1
      <4> HIDE DEF U
      <4> QED BY <4>1, <4>2, SumIsInt
    <3>4. f[x] \in Int /\ g[x] \in Int /\ h[x] = f[x] + g[x]
      BY <3>1
    <3> HIDE DEF x, U
    <3> QED BY <3>1, <3>2, <3>3, <3>4
  <2> QED BY <2>2, <2>3
<1>2. SUBSET S \subseteq Good
  <2> HIDE DEF Good
  <2> QED BY <1>1, SubsetInduction
<1> QED BY <1>2

(* A common factor comes out of a sum. *)
THEOREM SumOfMultiples ==
  ASSUME NEW S, IsFiniteSet(S), NEW c \in Int, NEW f, NEW g,
         \A x \in S : f[x] \in Int /\ g[x] = c * f[x]
  PROVE  SumFunctionOnSet(g, S) = c * SumFunctionOnSet(f, S)
<1> DEFINE Good == {T \in SUBSET S :
              SumFunctionOnSet(g, T) = c * SumFunctionOnSet(f, T)}
<1>1. ASSUME NEW T \in SUBSET S, \A U \in SUBSET T : U # T => U \in Good
      PROVE  T \in Good
  <2>1. IsFiniteSet(T)
    BY FS_Subset
  <2>2. CASE T = {}
    <3>1. SumFunctionOnSet(g, T) = 0 /\ SumFunctionOnSet(f, T) = 0
      BY <2>1, <2>2, SumUnfolds
    <3>2. c * 0 = 0
      OBVIOUS
    <3> QED BY <3>1, <3>2
  <2>3. CASE T # {}
    <3> DEFINE x == CHOOSE y \in T : TRUE
               U == T \ {x}
    <3>1. x \in T /\ U \in Good /\ U \in SUBSET S
      BY <1>1, <2>3
    <3>2. /\ SumFunctionOnSet(f, T) = f[x] + SumFunctionOnSet(f, U)
          /\ SumFunctionOnSet(g, T) = g[x] + SumFunctionOnSet(g, U)
      BY <2>1, <2>3, SumUnfolds
    <3>3. SumFunctionOnSet(f, U) \in Int
      <4>1. IsFiniteSet(U)
        BY <3>1, FS_Subset
      <4>2. \A y \in U : f[y] \in Int
        BY <3>1
      <4> HIDE DEF U
      <4> QED BY <4>1, <4>2, SumIsInt
    <3>4. f[x] \in Int /\ g[x] = c * f[x]
      BY <3>1
    <3>5. ASSUME NEW p \in Int, NEW q \in Int PROVE c * p + c * q = c * (p + q)
      OBVIOUS
    <3> HIDE DEF x, U
    <3>6. SumFunctionOnSet(g, U) = c * SumFunctionOnSet(f, U)
      BY <3>1
    <3>7. c * f[x] + c * SumFunctionOnSet(f, U) = c * (f[x] + SumFunctionOnSet(f, U))
      BY <3>3, <3>4, <3>5
    <3>8. SumFunctionOnSet(g, T) = c * SumFunctionOnSet(f, T)
      BY <3>2, <3>4, <3>6, <3>7, Zenon
    <3> QED BY <3>8
  <2> QED BY <2>2, <2>3
<1>2. SUBSET S \subseteq Good
  <2> HIDE DEF Good
  <2> QED BY <1>1, SubsetInduction
<1> QED BY <1>2

(* Elements that contribute nothing can be left out. *)
THEOREM SumOfSupport ==
  ASSUME NEW S, IsFiniteSet(S), NEW T \in SUBSET S, NEW f, \A x \in S : f[x] \in Int,
         \A x \in S \ T : f[x] = 0
  PROVE  SumFunctionOnSet(f, S) = SumFunctionOnSet(f, T)
<1> DEFINE Good == {U \in SUBSET S :
              SumFunctionOnSet(f, U) = SumFunctionOnSet(f, U \cap T)}
<1>1. ASSUME NEW U \in SUBSET S, \A V \in SUBSET U : V # U => V \in Good
      PROVE  U \in Good
  <2>1. IsFiniteSet(U) /\ IsFiniteSet(U \cap T)
    BY FS_Subset
  <2>2. CASE U = {}
    <3>1. U \cap T = U
      BY <2>2
    <3> QED BY <3>1
  <2>3. CASE U # {}
    <3> DEFINE x == CHOOSE y \in U : TRUE
               V == U \ {x}
    <3>1. x \in U /\ V \in Good
      BY <1>1, <2>3
    <3>2. SumFunctionOnSet(f, U) = f[x] + SumFunctionOnSet(f, V)
      BY <2>1, <2>3, SumUnfolds
    <3>3. SumFunctionOnSet(f, V \cap T) \in Int
      <4>1. IsFiniteSet(V \cap T) /\ \A y \in V \cap T : f[y] \in Int
        BY <2>1, FS_Subset
      <4> HIDE DEF V
      <4> QED BY <4>1, SumIsInt
    <3>4. CASE x \in T
      <4>1. (U \cap T) \ {x} = V \cap T /\ x \in U \cap T
        BY <3>1, <3>4
      <4>2. SumFunctionOnSet(f, U \cap T) = f[x] + SumFunctionOnSet(f, (U \cap T) \ {x})
        <5>1. \A y \in U \cap T : f[y] \in Int
          OBVIOUS
        <5> HIDE DEF x
        <5> QED BY <2>1, <4>1, <5>1, SumRemoves
      <4> HIDE DEF x, V
      <4> QED BY <3>1, <3>2, <4>1, <4>2
    <3>5. CASE x \notin T
      <4>1. U \cap T = V \cap T /\ f[x] = 0
        BY <3>1, <3>5
      <4>2. SumFunctionOnSet(f, V) = SumFunctionOnSet(f, U \cap T)
        <5>1. SumFunctionOnSet(f, V) = SumFunctionOnSet(f, V \cap T)
          BY <3>1
        <5> HIDE DEF V
        <5> QED BY <4>1, <5>1
      <4>3. SumFunctionOnSet(f, U) = 0 + SumFunctionOnSet(f, U \cap T)
        <5> HIDE DEF x, V
        <5> QED BY <3>2, <4>1, <4>2
      <4>4. SumFunctionOnSet(f, U \cap T) \in Int
        <5> HIDE DEF V
        <5> QED BY <3>3, <4>1
      <4> QED BY <4>3, <4>4
    <3> QED BY <3>4, <3>5
  <2> QED BY <2>2, <2>3
<1>2. SUBSET S \subseteq Good
  <2> HIDE DEF Good
  <2> QED BY <1>1, SubsetInduction
<1>3. SumFunctionOnSet(f, S) = SumFunctionOnSet(f, S \cap T) /\ S \cap T = T
  BY <1>2
<1> QED BY <1>3

(* The sum over two sets without a common element is the sum of both.      *)
THEOREM SumOfUnion ==
  ASSUME NEW S, IsFiniteSet(S), NEW A \in SUBSET S, NEW B \in SUBSET S, A \cap B = {},
         NEW f, \A x \in S : f[x] \in Int
  PROVE  SumFunctionOnSet(f, A \cup B) = SumFunctionOnSet(f, A) + SumFunctionOnSet(f, B)
<1> DEFINE In(T) == [x \in S |-> IF x \in T THEN f[x] ELSE 0]
<1>1. ASSUME NEW T \in SUBSET S PROVE SumFunctionOnSet(In(T), S) = SumFunctionOnSet(f, T)
  <2>1. IsFiniteSet(T)
    BY FS_Subset
  <2>2. SumFunctionOnSet(In(T), S) = SumFunctionOnSet(In(T), T)
    BY SumOfSupport
  <2>3. SumFunctionOnSet(In(T), T) = SumFunctionOnSet(f, T)
    BY <2>1, SumAgrees
  <2> QED BY <2>2, <2>3
<1>2. \A x \in S : In(A)[x] \in Int /\ In(B)[x] \in Int /\ In(A \cup B)[x] = In(A)[x] + In(B)[x]
  OBVIOUS
<1>3. A \cup B \in SUBSET S
  OBVIOUS
<1> HIDE DEF In
<1>4. SumFunctionOnSet(In(A \cup B), S) = SumFunctionOnSet(In(A), S) + SumFunctionOnSet(In(B), S)
  BY <1>2, SumOfSums
<1> QED BY <1>1, <1>3, <1>4

(* What is summed by key, and then over the keys, is summed over all. *)
THEOREM SumByKey ==
  ASSUME NEW S, IsFiniteSet(S), NEW K, IsFiniteSet(K), NEW key, NEW f,
         \A x \in S : f[x] \in Int,
         \A x \in S : key[x] \notin K => f[x] = 0
  PROVE  SumFunctionOnSet(f, S) =
           SumFunctionOnSet([k \in K |-> SumFunctionOnSet(f, {x \in S : key[x] = k})], K)
<1> DEFINE by == [k \in K |-> SumFunctionOnSet(f, {x \in S : key[x] = k})]
           In(L) == [x \in S |-> IF key[x] \in L THEN f[x] ELSE 0]
           Good == {L \in SUBSET K : SumFunctionOnSet(In(L), S) = SumFunctionOnSet(by, L)}
<1>1. \A k \in K : by[k] \in Int
  <2> SUFFICES ASSUME NEW k \in K PROVE SumFunctionOnSet(f, {x \in S : key[x] = k}) \in Int
    OBVIOUS
  <2> DEFINE T == {x \in S : key[x] = k}
  <2>1. IsFiniteSet(T) /\ \A x \in T : f[x] \in Int
    BY FS_Subset
  <2> HIDE DEF T
  <2>2. SumFunctionOnSet(f, T) \in Int
    BY <2>1, SumIsInt
  <2> QED BY <2>2 DEF T
<1>2. ASSUME NEW k \in K PROVE SumFunctionOnSet(In({k}), S) = by[k]
  <2> DEFINE T == {x \in S : key[x] = k}
             g == In({k})
  <2>1. /\ T \in SUBSET S /\ IsFiniteSet(T) /\ \A x \in S : g[x] \in Int
        /\ \A x \in S \ T : g[x] = 0
        /\ \A x \in T : g[x] = f[x]
    BY FS_Subset
  <2>2. by[k] = SumFunctionOnSet(f, T)
    OBVIOUS
  <2> HIDE DEF T, g, by
  <2>3. SumFunctionOnSet(g, S) = SumFunctionOnSet(g, T)
    BY <2>1, SumOfSupport
  <2>4. SumFunctionOnSet(g, T) = SumFunctionOnSet(f, T)
    BY <2>1, SumAgrees
  <2>5. SumFunctionOnSet(g, S) = by[k]
    BY <2>2, <2>3, <2>4
  <2> QED BY <2>5 DEF g
<1>3. ASSUME NEW L \in SUBSET K, \A M \in SUBSET L : M # L => M \in Good
      PROVE  L \in Good
  <2>1. IsFiniteSet(L)
    BY FS_Subset
  <2>2. CASE L = {}
    <3> DEFINE g == In(L)
    <3>1. \A x \in S : g[x] = 0
      BY <2>2
    <3> HIDE DEF g
    <3>2. SumFunctionOnSet(g, S) = 0
      BY <3>1, SumOfZeros
    <3>3. SumFunctionOnSet(by, L) = 0
      <4> HIDE DEF by
      <4> QED BY <2>1, <2>2, SumUnfolds
    <3>4. SumFunctionOnSet(In(L), S) = SumFunctionOnSet(by, L)
      <4> HIDE DEF by
      <4> QED BY <3>2, <3>3 DEF g
    <3> QED BY <3>4
  <2>3. CASE L # {}
    <3> DEFINE k == CHOOSE y \in L : TRUE
               M == L \ {k}
               g == In(M)
               h == In({k})
               both == In(L)
    <3>1. k \in L /\ M \in Good /\ k \in K
      BY <1>3, <2>3
    <3>2. SumFunctionOnSet(by, L) = by[k] + SumFunctionOnSet(by, M)
      <4> HIDE DEF by
      <4> QED BY <2>1, <2>3, SumUnfolds
    <3>3. \A x \in S : h[x] \in Int /\ g[x] \in Int /\ both[x] = h[x] + g[x]
      <4> SUFFICES ASSUME NEW x \in S
                   PROVE  h[x] \in Int /\ g[x] \in Int /\ both[x] = h[x] + g[x]
        OBVIOUS
      <4>0. f[x] \in Int
        OBVIOUS
      <4> HIDE DEF k
      <4>1. CASE key[x] = k
        <5>1. both[x] = f[x] /\ h[x] = f[x] /\ g[x] = 0
          BY <3>1, <4>1
        <5> QED BY <4>0, <5>1
      <4>2. CASE key[x] # k
        <5>1. h[x] = 0 /\ both[x] = g[x] /\ (g[x] = f[x] \/ g[x] = 0)
          BY <3>1, <4>2
        <5> QED BY <4>0, <5>1
      <4> QED BY <4>1, <4>2
    <3>4. SumFunctionOnSet(both, S) = SumFunctionOnSet(h, S) + SumFunctionOnSet(g, S)
      <4> HIDE DEF both, g, h
      <4> QED BY <3>3, SumOfSums
    <3>5. SumFunctionOnSet(h, S) = by[k]
      <4> HIDE DEF by, k
      <4> QED BY <1>2, <3>1
    <3>6. SumFunctionOnSet(g, S) = SumFunctionOnSet(by, M)
      BY <3>1
    <3>7. SumFunctionOnSet(both, S) = SumFunctionOnSet(by, L)
      <4> HIDE DEF both, g, h, by, k, M
      <4> QED BY <3>2, <3>4, <3>5, <3>6
    <3> QED BY <3>7
  <2> QED BY <2>2, <2>3
<1>4. SUBSET K \subseteq Good
  <2> HIDE DEF Good
  <2> QED BY <1>3, SubsetInduction
<1>5. SumFunctionOnSet(In(K), S) = SumFunctionOnSet(by, K)
  <2> HIDE DEF In, by
  <2> QED BY <1>4
<1>6. SumFunctionOnSet(In(K), S) = SumFunctionOnSet(f, S)
  <2> DEFINE g == In(K)
  <2>1. \A x \in S : g[x] = f[x]
    OBVIOUS
  <2> HIDE DEF g
  <2>2. SumFunctionOnSet(g, S) = SumFunctionOnSet(f, S)
    BY <2>1, SumAgrees
  <2> QED BY <2>2 DEF g
<1> QED BY <1>5, <1>6

(* A sum of one value is that value as many times as there are elements. *)
THEOREM SumOfConstants ==
  ASSUME NEW S, IsFiniteSet(S), NEW c \in Int, NEW f, \A x \in S : f[x] = c
  PROVE  SumFunctionOnSet(f, S) = c * Cardinality(S)
<1> DEFINE one == [x \in S |-> 1]
           Good == {T \in SUBSET S : SumFunctionOnSet(one, T) = Cardinality(T)}
<1>1. ASSUME NEW T \in SUBSET S, \A U \in SUBSET T : U # T => U \in Good
      PROVE  T \in Good
  <2>1. IsFiniteSet(T)
    BY FS_Subset
  <2>2. CASE T = {}
    BY <2>1, <2>2, SumUnfolds, FS_EmptySet
  <2>3. CASE T # {}
    <3> DEFINE x == CHOOSE y \in T : TRUE
    <3>1. x \in T /\ T \ {x} \in Good /\ one[x] = 1
      BY <1>1, <2>3
    <3> HIDE DEF one
    <3>2. SumFunctionOnSet(one, T) = one[x] + SumFunctionOnSet(one, T \ {x})
      BY <2>1, <2>3, SumUnfolds
    <3> HIDE DEF x
    <3>3. Cardinality(T) \in Nat /\ Cardinality(T \ {x}) = Cardinality(T) - 1
      BY <2>1, <3>1, FS_RemoveElement, FS_CardinalityType
    <3> QED BY <3>1, <3>2, <3>3
  <2> QED BY <2>2, <2>3
<1>2. SUBSET S \subseteq Good
  <2> HIDE DEF Good
  <2> QED BY <1>1, SubsetInduction
<1>3. SumFunctionOnSet(one, S) = Cardinality(S)
  BY <1>2
<1>4. \A x \in S : one[x] \in Int /\ f[x] = c * one[x]
  OBVIOUS
<1> HIDE DEF one
<1>5. SumFunctionOnSet(f, S) = c * SumFunctionOnSet(one, S)
  BY <1>4, SumOfMultiples
<1> QED BY <1>3, <1>5

(* A sum of smaller values is smaller. *)
THEOREM SumIsMonotone ==
  ASSUME NEW S, IsFiniteSet(S), NEW f, NEW g,
         \A x \in S : f[x] \in Int /\ g[x] \in Int /\ f[x] <= g[x]
  PROVE  SumFunctionOnSet(f, S) <= SumFunctionOnSet(g, S)
<1> DEFINE h == [x \in S |-> g[x] - f[x]]
<1>1. \A x \in S : h[x] \in Nat /\ f[x] \in Int /\ h[x] \in Int /\ g[x] \in Int /\ g[x] = f[x] + h[x]
  OBVIOUS
<1> HIDE DEF h
<1>2. SumFunctionOnSet(g, S) = SumFunctionOnSet(f, S) + SumFunctionOnSet(h, S)
  BY <1>1, SumOfSums
<1>3. SumFunctionOnSet(h, S) \in Nat
  BY <1>1, SumIsNat
<1>4. SumFunctionOnSet(f, S) \in Int
  BY SumIsInt
<1> QED BY <1>2, <1>3, <1>4

(* The sum of what is within bounds is within the sums of the bounds. *)
THEOREM SumIsWithin ==
  ASSUME NEW S, IsFiniteSet(S), NEW f, NEW g,
         \A x \in S : f[x] \in Int /\ g[x] \in Int /\ f[x] <= g[x] /\ -g[x] <= f[x]
  PROVE  /\ SumFunctionOnSet(f, S) \in Int /\ SumFunctionOnSet(g, S) \in Int
         /\ SumFunctionOnSet(f, S) <= SumFunctionOnSet(g, S) /\ -SumFunctionOnSet(g, S) <= SumFunctionOnSet(f, S)
<1> DEFINE n == [x \in S |-> (-1) * g[x]]
<1>1. \A x \in S : n[x] \in Int /\ n[x] = (-1) * g[x] /\ n[x] <= f[x]
  OBVIOUS
<1> HIDE DEF n
<1>2. SumFunctionOnSet(n, S) = (-1) * SumFunctionOnSet(g, S)
  BY <1>1, SumOfMultiples
<1>3. SumFunctionOnSet(n, S) <= SumFunctionOnSet(f, S)
  BY <1>1, SumIsMonotone
<1>4. SumFunctionOnSet(f, S) <= SumFunctionOnSet(g, S)
  BY SumIsMonotone
<1>5. SumFunctionOnSet(f, S) \in Int /\ SumFunctionOnSet(g, S) \in Int
  BY SumIsInt
<1> QED BY <1>2, <1>3, <1>4, <1>5
=============================================================================
