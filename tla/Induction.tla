------------------------------ MODULE Induction ------------------------------
(***************************************************************************)
(* Induction and recursion, for the proofs about folds and recursive       *)
(* functions.  The induction theorems of the library take a predicate as a *)
(* parameter; those below take a set, the set of what has the property.    *)
(***************************************************************************)
EXTENDS Integers, FiniteSets, FiniteSetsExt, FiniteSetTheorems, NaturalsInduction,
        WellFoundedInduction, TLAPS

-----------------------------------------------------------------------------
(* A set of natural numbers that is not empty has a least element.         *)
LEMMA LeastNumber ==
  ASSUME NEW T \in SUBSET Nat, T # {}
  PROVE  \E x \in T : \A y \in T : x <= y
<1> DEFINE R == OpToRel(<, Nat)
<1>1. IsWellFoundedOn(R, Nat)
  BY NatLessThanWellFounded
<1>2. \A x, y \in Nat : <<y, x>> \in R <=> y < x
  BY DEF OpToRel
<1> HIDE DEF R
<1>3. PICK x \in T : \A y \in T : ~ (<<y, x>> \in R)
  BY <1>1, WFMin
<1>4. \A y \in T : ~ (y < x)
  BY <1>2, <1>3
<1> QED BY <1>4

(* A set that holds 0, and n + 1 whenever it holds n, holds every number.  *)
LEMMA SetInduction ==
  ASSUME NEW S, 0 \in S,
         \A n \in Nat : n \in S => n + 1 \in S
  PROVE  \A n \in Nat : n \in S
<1> DEFINE T == Nat \ S
<1> SUFFICES ASSUME T # {} PROVE FALSE
  OBVIOUS
<1>1. PICK x \in T : \A y \in T : x <= y
  BY LeastNumber
<1>2. x - 1 \in Nat /\ x - 1 \notin T
  BY <1>1
<1> QED BY <1>1, <1>2

-----------------------------------------------------------------------------
(* f[i] is made of f[i - 1], from a first value on.                        *)
Chain(f, n, base, step) ==
  /\ f[0] = base
  /\ \A i \in 1..n : f[i] = step[i][f[i - 1]]

(* There is such a function, for every base and step.                      *)
LEMMA ChainExists ==
  ASSUME NEW n \in Nat, NEW V, NEW base \in V,
         NEW step \in [1..n -> [V -> V]]
  PROVE  \E f \in [0..n -> V] : Chain(f, n, base, step)
<1> DEFINE S == {m \in Nat : m <= n =>
                   \E f \in [0..m -> V] : Chain(f, m, base, step)}
<1>1. 0 \in S
  <2> DEFINE f == [i \in 0..0 |-> base]
  <2>1. f \in [0..0 -> V] /\ Chain(f, 0, base, step)
    BY DEF Chain
  <2> QED BY <2>1
<1>2. ASSUME NEW m \in Nat, m \in S
      PROVE  m + 1 \in S
  <2> SUFFICES ASSUME m + 1 <= n
               PROVE  \E g \in [0..(m + 1) -> V] : Chain(g, m + 1, base, step)
    OBVIOUS
  <2>1. PICK f \in [0..m -> V] : Chain(f, m, base, step)
    BY <1>2
  <2>2. step[m + 1][f[m]] \in V
    <3>1. f[m] \in V /\ m + 1 \in 1..n
      OBVIOUS
    <3> QED BY <3>1
  <2> DEFINE g == [i \in 0..(m + 1) |-> IF i <= m THEN f[i]
                                       ELSE step[m + 1][f[m]]]
  <2>3. g \in [0..(m + 1) -> V]
    BY <2>2
  <2>4. g[0] = base
    BY <2>1 DEF Chain
  <2>5. ASSUME NEW i \in 1..(m + 1)
        PROVE  g[i] = step[i][g[i - 1]]
    <3>1. CASE i <= m
      <4>1. f[i] = step[i][f[i - 1]]
        BY <2>1, <3>1 DEF Chain
      <4>2. g[i] = f[i] /\ g[i - 1] = f[i - 1]
        BY <3>1
      <4> QED BY <4>1, <4>2
    <3>2. CASE i = m + 1
      <4>1. g[i] = step[m + 1][f[m]] /\ g[i - 1] = f[m]
        BY <3>2
      <4> QED BY <3>2, <4>1
    <3> QED BY <3>1, <3>2
  <2> HIDE DEF g
  <2> QED BY <2>3, <2>4, <2>5 DEF Chain
<1>3. n \in S
  <2> HIDE DEF S
  <2> QED BY <1>1, <1>2, SetInduction
<1> QED BY <1>3

(* And only one: two chains agree as long as their steps do.               *)
LEMMA ChainUnique ==
  ASSUME NEW n \in Nat, NEW base, NEW f, NEW g, NEW step, NEW other,
         Chain(f, n, base, step), Chain(g, n, base, other),
         \A i \in 1..n : step[i] = other[i]
  PROVE  \A i \in 0..n : f[i] = g[i]
<1> DEFINE S == {i \in Nat : i <= n => f[i] = g[i]}
<1>1. 0 \in S
  BY DEF Chain
<1>2. ASSUME NEW i \in Nat, i \in S
      PROVE  i + 1 \in S
  <2> SUFFICES ASSUME i + 1 <= n PROVE f[i + 1] = g[i + 1]
    OBVIOUS
  <2> DEFINE j == i + 1
  <2>1. j \in 1..n /\ j - 1 = i
    OBVIOUS
  <2>2. f[j] = step[j][f[j - 1]] /\ g[j] = other[j][g[j - 1]]
    <3> HIDE DEF j
    <3> QED BY <2>1 DEF Chain
  <2>3. f[i] = g[i]
    BY <1>2
  <2> HIDE DEF j
  <2>4. f[j] = g[j]
    BY <2>1, <2>2, <2>3
  <2> QED BY <2>4 DEF j
<1>3. \A i \in Nat : i \in S
  <2> HIDE DEF S
  <2> QED BY <1>1, <1>2, SetInduction
<1> QED BY <1>3

-----------------------------------------------------------------------------
(* f[T] is made of f[T \ {x}], where x is picked from T.                   *)
Descent(f, D, pick, base, step) ==
  /\ f[{}] = base
  /\ \A T \in SUBSET D :
       T # {} => f[T] = step[pick[T]][f[T \ {pick[T]}]]

Picks(pick, D) == \A T \in SUBSET D : T # {} => pick[T] \in T

(* There is such a function on the subsets of a finite set.                *)
LEMMA DescentExists ==
  ASSUME NEW D, IsFiniteSet(D), NEW V, NEW base \in V,
         NEW step \in [D -> [V -> V]],
         NEW pick, Picks(pick, D)
  PROVE  \E f \in [SUBSET D -> V] : Descent(f, D, pick, base, step)
<1> DEFINE Small(m) == {T \in SUBSET D : Cardinality(T) <= m}
           Right(f, m) ==
             /\ f[{}] = base
             /\ \A T \in Small(m) :
                  T # {} => f[T] = step[pick[T]][f[T \ {pick[T]}]]
           S == {m \in Nat : \E f \in [Small(m) -> V] : Right(f, m)}
<1>1. \A T \in SUBSET D : IsFiniteSet(T) /\ Cardinality(T) \in Nat
  BY FS_Subset, FS_CardinalityType
<1>2. \A T \in SUBSET D : Cardinality(T) = 0 <=> T = {}
  BY <1>1, FS_EmptySet
<1>3. ASSUME NEW T \in SUBSET D, T # {}
      PROVE  /\ pick[T] \in T /\ T \ {pick[T]} \in SUBSET D
             /\ Cardinality(T \ {pick[T]}) = Cardinality(T) - 1
  BY <1>1, <1>3, FS_RemoveElement DEF Picks
<1>4. 0 \in S
  <2>1. \A T \in Small(0) : T = {}
    BY <1>1, <1>2
  <2> DEFINE f == [T \in Small(0) |-> base]
  <2>2. {} \in Small(0)
    BY <1>2
  <2>3. f \in [Small(0) -> V] /\ f[{}] = base
    BY <2>2
  <2>4. Right(f, 0)
    BY <2>1, <2>3
  <2> QED BY <2>3, <2>4
<1>5. ASSUME NEW m \in Nat, m \in S
      PROVE  m + 1 \in S
  <2>1. PICK f \in [Small(m) -> V] : Right(f, m)
    BY <1>5
  <2> DEFINE g == [T \in Small(m + 1) |->
                     IF T \in Small(m) THEN f[T]
                     ELSE step[pick[T]][f[T \ {pick[T]}]]]
  <2>2. \A T \in Small(m) : T \in Small(m + 1)
    BY <1>1
  <2>3. ASSUME NEW T \in Small(m + 1), T # {}
        PROVE  /\ pick[T] \in D
               /\ T \ {pick[T]} \in Small(m)
               /\ T \ {pick[T]} \in Small(m + 1)
    <3>1. /\ pick[T] \in T /\ T \ {pick[T]} \in SUBSET D
          /\ Cardinality(T \ {pick[T]}) = Cardinality(T) - 1
      BY <1>3, <2>3
    <3>2. Cardinality(T) <= m + 1 /\ Cardinality(T) \in Nat
      BY <1>1
    <3> QED BY <2>2, <3>1, <3>2
  <2>4. {} \in Small(m) /\ {} \in Small(m + 1)
    BY <1>2
  <2> HIDE DEF Small
  <2>5. g \in [Small(m + 1) -> V]
    <3> SUFFICES ASSUME NEW T \in Small(m + 1), T \notin Small(m)
                 PROVE  step[pick[T]][f[T \ {pick[T]}]] \in V
      OBVIOUS
    <3>1. T # {}
      BY <2>4
    <3>2. pick[T] \in D /\ f[T \ {pick[T]}] \in V
      BY <2>3, <3>1
    <3>3. step[pick[T]] \in [V -> V]
      BY <3>2
    <3> QED BY <3>2, <3>3
  <2>6. g[{}] = base
    BY <2>1, <2>4
  <2>7. ASSUME NEW T \in Small(m + 1), T # {}
        PROVE  g[T] = step[pick[T]][g[T \ {pick[T]}]]
    <3>1. g[T \ {pick[T]}] = f[T \ {pick[T]}]
      BY <2>3, <2>7
    <3>2. g[T] = step[pick[T]][f[T \ {pick[T]}]]
      <4>1. CASE T \in Small(m)
        BY <2>1, <2>7, <4>1
      <4>2. CASE T \notin Small(m)
        BY <4>2
      <4> QED BY <4>1, <4>2
    <3> QED BY <3>1, <3>2
  <2>8. Right(g, m + 1)
    <3> HIDE DEF g
    <3> QED BY <2>6, <2>7
  <2>9. \E h \in [Small(m + 1) -> V] : Right(h, m + 1)
    <3> HIDE DEF g, Right
    <3> QED BY <2>5, <2>8
  <2> HIDE DEF Right
  <2> QED BY <2>9
<1>6. Cardinality(D) \in S
  <2>1. Cardinality(D) \in Nat
    BY <1>1
  <2> HIDE DEF S
  <2> QED BY <1>4, <1>5, <2>1, SetInduction
<1>7. PICK f \in [Small(Cardinality(D)) -> V] : Right(f, Cardinality(D))
  BY <1>6
<1>8. Small(Cardinality(D)) = SUBSET D
  BY FS_Subset
<1> QED BY <1>7, <1>8 DEF Descent

(* What holds of the empty set, and of a set when it holds without the     *)
(* element picked, holds of every subset.                                  *)
Inherited(S, D, pick) ==
  /\ {} \in S
  /\ \A T \in SUBSET D : T # {} /\ T \ {pick[T]} \in S => T \in S

LEMMA SubsetInduction ==
  ASSUME NEW D, IsFiniteSet(D), NEW pick, Picks(pick, D),
         NEW S, Inherited(S, D, pick)
  PROVE  \A T \in SUBSET D : T \in S
<1> DEFINE N == {m \in Nat : \A T \in SUBSET D : Cardinality(T) = m => T \in S}
<1>1. \A T \in SUBSET D : IsFiniteSet(T) /\ Cardinality(T) \in Nat
  BY FS_Subset, FS_CardinalityType
<1>2. 0 \in N
  BY <1>1, FS_EmptySet DEF Inherited
<1>3. ASSUME NEW m \in Nat, m \in N
      PROVE  m + 1 \in N
  <2> SUFFICES ASSUME NEW T \in SUBSET D, Cardinality(T) = m + 1
               PROVE  T \in S
    OBVIOUS
  <2>1. T # {}
    <3>1. Cardinality({}) = 0 /\ m + 1 # 0
      BY FS_EmptySet
    <3> QED BY <3>1
  <2>2. /\ pick[T] \in T /\ T \ {pick[T]} \in SUBSET D
        /\ Cardinality(T \ {pick[T]}) = m
    <3>1. pick[T] \in T /\ IsFiniteSet(T)
      BY <1>1, <2>1 DEF Picks
    <3>2. Cardinality(T \ {pick[T]}) = Cardinality(T) - 1
      BY <3>1, FS_RemoveElement
    <3> QED BY <3>1, <3>2
  <2>3. T \ {pick[T]} \in S
    BY <1>3, <2>2
  <2> QED BY <2>1, <2>3 DEF Inherited
<1>4. \A m \in Nat : m \in N
  <2> HIDE DEF N
  <2> QED BY <1>2, <1>3, SetInduction
<1> QED BY <1>1, <1>4

-----------------------------------------------------------------------------
(* The element that FoldLeft picks from a set of indices.                  *)
LEMMA MaxOfInterval ==
  ASSUME NEW n \in Nat, NEW T \in SUBSET (1..n), T # {}
  PROVE  Max(T) \in T /\ \A y \in T : Max(T) >= y
<1> DEFINE Below == {n - x : x \in T}
<1>1. Below \in SUBSET Nat /\ Below # {}
  <2>1. \A x \in T : x \in Int /\ n - x \in Nat
    OBVIOUS
  <2> QED BY <2>1
<1>2. PICK b \in Below : \A y \in Below : b <= y
  <2> HIDE DEF Below
  <2> QED BY <1>1, LeastNumber
<1>3. PICK x \in T : b = n - x
  BY <1>2
<1>4. \A y \in T : x >= y
  <2> SUFFICES ASSUME NEW y \in T PROVE x >= y
    OBVIOUS
  <2>1. n - y \in Below
    OBVIOUS
  <2>2. b <= n - y
    BY <1>2, <2>1
  <2>3. x \in Int /\ y \in Int
    OBVIOUS
  <2> QED BY <1>3, <2>2, <2>3
<1>5. \E m \in T : \A y \in T : m >= y
  BY <1>4
<1> QED BY <1>5 DEF Max

(* A function on sets of indices that takes them from the last one down,   *)
(* as FoldLeft does; there is one for every base and step.                 *)
Folds(f, n, V, base, step) ==
  /\ f[{}] = base
  /\ \A T \in SUBSET (1..n) :
       T # {} /\ f[T \ {Max(T)}] \in V =>
         f[T] = step[Max(T)][f[T \ {Max(T)}]]

LEMMA FoldExists ==
  ASSUME NEW n \in Nat, NEW V, NEW base \in V,
         NEW step \in [1..n -> [V -> V]]
  PROVE  \E f \in [SUBSET (1..n) -> V] : Folds(f, n, V, base, step)
<1> DEFINE D == 1..n
           pick == [T \in SUBSET D |-> Max(T)]
<1>1. Picks(pick, D)
  BY MaxOfInterval DEF Picks
<1>2. IsFiniteSet(D) /\ step \in [D -> [V -> V]]
  BY FS_Interval
<1>3. \A T \in SUBSET D : pick[T] = Max(T)
  OBVIOUS
<1> HIDE DEF D, pick
<1>4. PICK f \in [SUBSET D -> V] : Descent(f, D, pick, base, step)
  BY <1>1, <1>2, DescentExists
<1>5. Folds(f, n, V, base, step)
  BY <1>3, <1>4 DEF Descent, Folds, D
<1> QED BY <1>4, <1>5 DEF D

(* On the first indices it is a chain.                                     *)
FoldedUp(g, n, V, base, step, last) ==
  /\ g \in [0..n -> V]
  /\ Chain(g, n, base, step)
  /\ g[n] = last

LEMMA FoldIsChain ==
  ASSUME NEW n \in Nat, NEW V, NEW base \in V,
         NEW step \in [1..n -> [V -> V]],
         NEW f, Folds(f, n, V, base, step)
  PROVE  \E g : FoldedUp(g, n, V, base, step, f[1..n])
<1> DEFINE g == [i \in 0..n |-> f[1..i]]
<1>1. ASSUME NEW i \in 1..n, f[1..(i - 1)] \in V
      PROVE  f[1..i] = step[i][f[1..(i - 1)]] /\ f[1..i] \in V
  <2>1. 1..i \in SUBSET (1..n) /\ 1..i # {} /\ i \in 1..i
    OBVIOUS
  <2>2. Max(1..i) = i
    <3>1. Max(1..i) \in 1..i /\ \A y \in 1..i : Max(1..i) >= y
      BY <2>1, MaxOfInterval
    <3> QED BY <2>1, <3>1
  <2>3. (1..i) \ {i} = 1..(i - 1)
    OBVIOUS
  <2>4. (1..i) # {} /\ f[(1..i) \ {Max(1..i)}] \in V =>
          f[1..i] = step[Max(1..i)][f[(1..i) \ {Max(1..i)}]]
    BY <2>1 DEF Folds
  <2>5. f[1..i] = step[i][f[1..(i - 1)]]
    BY <1>1, <2>1, <2>2, <2>3, <2>4
  <2> QED BY <1>1, <2>5
<1> DEFINE S == {i \in Nat : i <= n => f[1..i] \in V}
<1>2. 1..0 = {}
  OBVIOUS
<1>3. \A i \in Nat : i \in S
  <2>1. 0 \in S
    BY <1>2 DEF Folds
  <2>2. ASSUME NEW i \in Nat, i \in S
        PROVE  i + 1 \in S
    <3> SUFFICES ASSUME i + 1 <= n PROVE f[1..(i + 1)] \in V
      OBVIOUS
    <3>1. i + 1 \in 1..n /\ (i + 1) - 1 = i /\ f[1..i] \in V
      BY <2>2
    <3> QED BY <1>1, <3>1
  <2> HIDE DEF S
  <2> QED BY <2>1, <2>2, SetInduction
<1>4. g \in [0..n -> V] /\ g[n] = f[1..n]
  BY <1>3
<1>5. g[0] = base
  BY <1>2 DEF Folds
<1>6. \A i \in 1..n : g[i] = step[i][g[i - 1]]
  <2> SUFFICES ASSUME NEW i \in 1..n PROVE f[1..i] = step[i][f[1..(i - 1)]]
    OBVIOUS
  <2>1. i - 1 \in Nat /\ i - 1 <= n
    OBVIOUS
  <2> QED BY <1>1, <1>3, <2>1
<1>7. FoldedUp(g, n, V, base, step, f[1..n])
  BY <1>4, <1>5, <1>6 DEF Chain, FoldedUp
<1> QED BY <1>7
=============================================================================
