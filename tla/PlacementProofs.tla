---------------------------- MODULE PlacementProofs ----------------------------
(***************************************************************************)
(* The placement of cycles keeps the limits and the soak times, gives each *)
(* station no more than its time, places only what is worth it, and ends.  *)
(*                                                                         *)
(* The first part is about what the model counts with: the sum over a      *)
(* function and the extremes of a finite set.  None of these can be had    *)
(* from an induction theorem, which the provers cannot instantiate; they   *)
(* come from the smallest of the sets for which they would not hold.       *)
(***************************************************************************)
EXTENDS Placement, FiniteSetTheorems, WellFoundedInduction, TLAPS

LEMMA LeastNumber ==
  ASSUME NEW N \in SUBSET Nat, N # {}
  PROVE  \E n \in N : \A m \in N : n <= m
<1> DEFINE less == OpToRel(<, Nat)
<1>1. PICK x \in N : \A y \in N : ~ (<<y, x>> \in less)
  <2> HIDE DEF less
  <2>1. IsWellFoundedOn(less, Nat)
    BY NatLessThanWellFounded DEF less
  <2> QED
    BY <2>1, WFMin
<1>2. \A y \in N : x <= y
  <2> SUFFICES ASSUME NEW y \in N PROVE x <= y
    OBVIOUS
  <2>1. ~ (y < x)
    BY <1>1 DEF OpToRel
  <2> QED
    BY <2>1
<1> QED
  BY <1>2

(* Among sets of elements of a finite one there is a smallest. *)
LEMMA SmallestSet ==
  ASSUME NEW S, IsFiniteSet(S), NEW B \in SUBSET (SUBSET S), B # {}
  PROVE  \E T \in B : \A U \in SUBSET T : U # T => U \notin B
<1>1. IsWellFoundedOn(StrictSubsetOrdering(S), SUBSET S)
  BY FS_StrictSubsetOrderingWellFounded, FS_FiniteSubsetsOfFinite
<1>2. PICK T \in B : \A U \in B : ~ (<<U, T>> \in StrictSubsetOrdering(S))
  BY <1>1, WFMin
<1>3. \A U \in SUBSET T : U # T => U \notin B
  BY <1>2 DEF StrictSubsetOrdering
<1> QED
  BY <1>3

Some(s) == CHOOSE x \in s : TRUE
Adds(g, f, S) ==
  g = [s \in SUBSET S |-> IF s = {} THEN 0 ELSE f[Some(s)] + g[s \ {Some(s)}]]

LEMMA SumIsChosen ==
  ASSUME NEW f, NEW S
  PROVE  SumFunctionOnSet(f, S) = (CHOOSE g : Adds(g, f, S))[S]
BY DEF SumFunctionOnSet, FoldFunctionOnSet, MapThenFoldSet, Adds, Some

LEMMA SomeIsOne == ASSUME NEW s, s # {} PROVE Some(s) \in s
BY DEF Some

(* The recursion holds as far as a set has n elements. *)
AddsUpTo(g, f, S, n) ==
  \A s \in SUBSET S : Cardinality(s) <= n =>
     g[s] = IF s = {} THEN 0 ELSE f[Some(s)] + g[s \ {Some(s)}]

LEMMA SumExists ==
  ASSUME NEW S, IsFiniteSet(S), NEW f
  PROVE  \E g : Adds(g, f, S)
<1> DEFINE Step(g) == [s \in SUBSET S |-> IF s = {} THEN 0 ELSE f[Some(s)] + g[s \ {Some(s)}]]
<1> DEFINE Bad == {n \in Nat : ~ \E g : AddsUpTo(g, f, S, n)}
<1>1. \A s \in SUBSET S : IsFiniteSet(s) /\ Cardinality(s) \in Nat
  BY FS_Subset, FS_CardinalityType
<1>2. ASSUME NEW n \in Nat, NEW g, n # 0 => AddsUpTo(g, f, S, n - 1)
      PROVE  AddsUpTo(Step(g), f, S, n)
  <2> SUFFICES ASSUME NEW s \in SUBSET S, Cardinality(s) <= n, s # {}
               PROVE  Step(g)[s \ {Some(s)}] = g[s \ {Some(s)}]
    BY DEF AddsUpTo
  <2>1. PICK u : u = s \ {Some(s)}
    OBVIOUS
  <2>2. Cardinality(u) = Cardinality(s) - 1 /\ u \in SUBSET S
    BY <1>1, <2>1, SomeIsOne, FS_RemoveElement
  <2>3. Cardinality(s) # 0
    BY <1>1, FS_EmptySet
  <2>4. n # 0 /\ Cardinality(u) <= n - 1
    BY <1>1, <2>2, <2>3
  <2> HIDE DEF Step
  <2>5. g[u] = IF u = {} THEN 0 ELSE f[Some(u)] + g[u \ {Some(u)}]
    BY <1>2, <2>2, <2>4 DEF AddsUpTo
  <2>6. Step(g)[u] = IF u = {} THEN 0 ELSE f[Some(u)] + g[u \ {Some(u)}]
    BY <2>2 DEF Step
  <2> QED
    BY <2>1, <2>5, <2>6
<1>3. Bad = {}
  <2> SUFFICES ASSUME Bad # {} PROVE FALSE
    OBVIOUS
  <2>1. PICK n \in Bad : \A m \in Bad : n <= m
    BY LeastNumber
  <2>2. n \in Nat /\ ~ \E g : AddsUpTo(g, f, S, n)
    BY <2>1
  <2>3. \E g : n # 0 => AddsUpTo(g, f, S, n - 1)
    <3>1. CASE n = 0
      BY <3>1
    <3>2. CASE n # 0
      <4>1. n - 1 \in Nat /\ n - 1 \notin Bad
        BY <2>1, <2>2, <3>2
      <4> QED
        BY <4>1
    <3> QED
      BY <3>1, <3>2
  <2> QED
    BY <1>2, <2>2, <2>3
<1>4. PICK g : AddsUpTo(g, f, S, Cardinality(S))
  BY <1>1, <1>3
<1>5. \A s \in SUBSET S : Cardinality(s) <= Cardinality(S)
  BY FS_Subset
<1>6. \A s \in SUBSET S : g[s] = IF s = {} THEN 0 ELSE f[Some(s)] + g[s \ {Some(s)}]
  BY <1>4, <1>5 DEF AddsUpTo
<1>7. \A s \in SUBSET S : s # {} => s \ {Some(s)} \in SUBSET S
  OBVIOUS
<1> DEFINE h == [s \in SUBSET S |-> g[s]]
<1>8. h = [s \in SUBSET S |-> IF s = {} THEN 0 ELSE f[Some(s)] + h[s \ {Some(s)}]]
  BY <1>6, <1>7
<1> HIDE DEF h
<1>9. Adds(h, f, S)
  BY <1>8 DEF Adds
<1> QED
  BY <1>9

(* Where two functions agree, so do what is added up to them. *)
LEMMA SameSum ==
  ASSUME NEW T, IsFiniteSet(T),
         NEW S, NEW f, NEW g, Adds(g, f, S), T \subseteq S,
         NEW D, NEW e, NEW h, Adds(h, e, D), T \subseteq D,
         \A x \in T : f[x] = e[x]
  PROVE  g[T] = h[T]
<1> DEFINE Bad == {s \in SUBSET T : g[s] # h[s]}
<1>1. /\ \A s \in SUBSET T : g[s] = IF s = {} THEN 0 ELSE f[Some(s)] + g[s \ {Some(s)}]
      /\ \A s \in SUBSET T : h[s] = IF s = {} THEN 0 ELSE e[Some(s)] + h[s \ {Some(s)}]
  BY DEF Adds
<1>2. Bad = {}
  <2> SUFFICES ASSUME Bad # {} PROVE FALSE
    OBVIOUS
  <2>0. Bad \in SUBSET (SUBSET T)
    OBVIOUS
  <2>1. PICK s \in Bad : \A u \in SUBSET s : u # s => u \notin Bad
    <3> HIDE DEF Bad
    <3> QED
      BY <2>0, SmallestSet
  <2>2. CASE s = {}
    BY <1>1, <2>1, <2>2
  <2>3. CASE s # {}
    <3>1. Some(s) \in s /\ s \in SUBSET T
      BY <2>3, SomeIsOne
    <3>2. g[s \ {Some(s)}] = h[s \ {Some(s)}]
      BY <2>1, <3>1
    <3> QED
      BY <1>1, <2>3, <3>1, <3>2
  <2> QED
    BY <2>2, <2>3
<1> QED
  BY <1>2

(* The order does not matter. *)
LEMMA AnyOrder ==
  ASSUME NEW S, IsFiniteSet(S), NEW f, NEW g, Adds(g, f, S), \A x \in S : f[x] \in Int
  PROVE  \A s \in SUBSET S : g[s] \in Int /\ \A x \in s : g[s] = f[x] + g[s \ {x}]
<1> DEFINE Good(s) == g[s] \in Int /\ \A x \in s : g[s] = f[x] + g[s \ {x}]
<1> DEFINE Bad == {s \in SUBSET S : ~Good(s)}
<1>1. \A s \in SUBSET S : g[s] = IF s = {} THEN 0 ELSE f[Some(s)] + g[s \ {Some(s)}]
  BY DEF Adds
<1>2. Bad = {}
  <2> SUFFICES ASSUME Bad # {} PROVE FALSE
    OBVIOUS
  <2>0. Bad \in SUBSET (SUBSET S)
    OBVIOUS
  <2>1. PICK s \in Bad : \A u \in SUBSET s : u # s => u \notin Bad
    <3> HIDE DEF Bad
    <3> QED
      BY <2>0, SmallestSet
  <2>2. CASE s = {}
    <3>1. g[s] = 0
      BY <1>1, <2>1, <2>2
    <3> QED
      BY <2>1, <2>2, <3>1
  <2>3. CASE s # {}
    <3> DEFINE y == Some(s)
    <3>1. y \in s /\ s \in SUBSET S
      BY <2>3, SomeIsOne
    <3>2. \A u \in SUBSET s : u # s => Good(u)
      BY <2>1
    <3> HIDE DEF Good, y
    <3>3. g[s] = f[y] + g[s \ {y}] /\ f[y] \in Int
      BY <1>1, <2>3, <3>1 DEF y
    <3>4. g[s \ {y}] \in Int
      BY <3>1, <3>2 DEF Good
    <3>5. ASSUME NEW x \in s, x # y PROVE g[s] = f[x] + g[s \ {x}]
      <4>1. x \in s \ {y} /\ y \in s \ {x} /\ f[x] \in Int
        BY <3>1, <3>5
      <4>2. g[s \ {y}] = f[x] + g[(s \ {y}) \ {x}]
        BY <3>1, <3>2, <4>1 DEF Good
      <4>3. g[s \ {x}] = f[y] + g[(s \ {x}) \ {y}] /\ g[s \ {x}] \in Int
        BY <3>2, <4>1 DEF Good
      <4>4. (s \ {y}) \ {x} = (s \ {x}) \ {y}
        OBVIOUS
      <4>5. PICK c : c = g[(s \ {x}) \ {y}]
        OBVIOUS
      <4>6. (s \ {x}) \ {y} \in SUBSET s /\ (s \ {x}) \ {y} # s
        BY <3>1
      <4>7. c \in Int
        BY <3>2, <4>5, <4>6 DEF Good
      <4>8. g[s] = f[y] + (f[x] + c) /\ f[x] + g[s \ {x}] = f[x] + (f[y] + c)
        BY <3>3, <4>2, <4>3, <4>4, <4>5
      <4> QED
        BY <3>3, <4>1, <4>7, <4>8
    <3>6. g[s] \in Int
      BY <3>3, <3>4
    <3>7. Good(s)
      BY <3>3, <3>5, <3>6 DEF Good
    <3> QED
      BY <2>1, <3>7
  <2> QED
    BY <2>2, <2>3
<1> QED
  BY <1>2

(* A sum over a function of a finite set is one over each element and the  *)
(* rest.                                                                   *)
Without(f, x) == [y \in DOMAIN f \ {x} |-> f[y]]

LEMMA SumIsAdded ==
  ASSUME NEW f, IsFiniteSet(DOMAIN f)
  PROVE  \E g : Adds(g, f, DOMAIN f) /\ SumFunction(f) = g[DOMAIN f]
<1> DEFINE g == CHOOSE g : Adds(g, f, DOMAIN f)
<1>1. Adds(g, f, DOMAIN f)
  BY SumExists
<1>2. SumFunction(f) = g[DOMAIN f]
  BY SumIsChosen DEF SumFunction
<1> QED
  BY <1>1, <1>2

LEMMA SumOfNone == \A f : DOMAIN f = {} => SumFunction(f) = 0
<1> SUFFICES ASSUME NEW f, DOMAIN f = {} PROVE SumFunction(f) = 0
  OBVIOUS
<1>1. PICK g : Adds(g, f, {}) /\ SumFunction(f) = g[{}]
  BY SumIsAdded, FS_EmptySet
<1> QED
  BY <1>1 DEF Adds

LEMMA SumAddsUp ==
  ASSUME NEW f, IsFiniteSet(DOMAIN f), \A x \in DOMAIN f : f[x] \in Int
  PROVE  /\ SumFunction(f) \in Int
         /\ \A x \in DOMAIN f : SumFunction(f) = f[x] + SumFunction(Without(f, x))
<1> DEFINE S == DOMAIN f
<1>1. PICK g : Adds(g, f, S) /\ SumFunction(f) = g[S]
  BY SumIsAdded
<1>2. SumFunction(f) \in Int /\ \A x \in S : SumFunction(f) = f[x] + g[S \ {x}]
  <2>1. \A s \in SUBSET S : g[s] \in Int /\ \A x \in s : g[s] = f[x] + g[s \ {x}]
    <3> HIDE DEF S
    <3>1. IsFiniteSet(S) /\ \A x \in S : f[x] \in Int
      BY DEF S
    <3> QED
      BY <1>1, <3>1, AnyOrder
  <2> QED
    BY <1>1, <2>1
<1>3. ASSUME NEW x \in S PROVE g[S \ {x}] = SumFunction(Without(f, x))
  <2>1. DOMAIN Without(f, x) = S \ {x} /\ \A y \in S \ {x} : f[y] = Without(f, x)[y]
    BY DEF Without
  <2>2. IsFiniteSet(S \ {x})
    BY FS_RemoveElement
  <2>3. PICK h : Adds(h, Without(f, x), S \ {x}) /\ SumFunction(Without(f, x)) = h[S \ {x}]
    BY <2>1, <2>2, SumIsAdded
  <2> HIDE DEF S
  <2>4. g[S \ {x}] = h[S \ {x}]
    BY <1>1, <2>1, <2>2, <2>3, SameSum
  <2> QED
    BY <2>3, <2>4
<1> QED
  BY <1>2, <1>3

(* What a sum is of, part by part. *)
LEMMA SumByParts ==
  ASSUME NEW f, IsFiniteSet(DOMAIN f), \A x \in DOMAIN f : f[x] \in Int
  PROVE  \E g : /\ SumFunction(f) = g[DOMAIN f] /\ g[{}] = 0
                /\ \A s \in SUBSET (DOMAIN f) :
                     g[s] \in Int /\ \A x \in s : g[s] = f[x] + g[s \ {x}]
<1> DEFINE S == DOMAIN f
<1>1. PICK g : Adds(g, f, S) /\ SumFunction(f) = g[S]
  BY SumIsAdded
<1>2. \A s \in SUBSET S : g[s] \in Int /\ \A x \in s : g[s] = f[x] + g[s \ {x}]
  <2> HIDE DEF S
  <2>1. IsFiniteSet(S) /\ \A x \in S : f[x] \in Int
    BY DEF S
  <2> QED
    BY <1>1, <2>1, AnyOrder
<1>3. g[{}] = 0
  BY <1>1 DEF Adds
<1> QED
  BY <1>1, <1>2, <1>3

(* A sum of naturals is one, and no less than any of them. *)
LEMMA SumIsNat ==
  ASSUME NEW f, IsFiniteSet(DOMAIN f), \A x \in DOMAIN f : f[x] \in Nat
  PROVE  /\ SumFunction(f) \in Nat
         /\ \A x \in DOMAIN f : f[x] <= SumFunction(f)
<1> DEFINE S == DOMAIN f
<1>0. \A x \in DOMAIN f : f[x] \in Int
  OBVIOUS
<1>1. PICK g : /\ SumFunction(f) = g[S] /\ g[{}] = 0
               /\ \A s \in SUBSET S : g[s] \in Int /\ \A x \in s : g[s] = f[x] + g[s \ {x}]
  BY <1>0, SumByParts
<1> DEFINE Bad == {s \in SUBSET S : g[s] \notin Nat}
<1>4. Bad = {}
  <2> SUFFICES ASSUME Bad # {} PROVE FALSE
    OBVIOUS
  <2>0. Bad \in SUBSET (SUBSET S)
    OBVIOUS
  <2>1. PICK s \in Bad : \A u \in SUBSET s : u # s => u \notin Bad
    <3> HIDE DEF Bad
    <3> QED
      BY <2>0, SmallestSet
  <2>2. s \in SUBSET S /\ g[s] \notin Nat /\ s # {}
    <3>1. s \in SUBSET S /\ g[s] \notin Nat
      BY <2>1
    <3>2. g[{}] \in Nat
      BY <1>1
    <3> QED
      BY <3>1, <3>2
  <2>3. PICK x \in s : TRUE
    BY <2>2
  <2>4. g[s \ {x}] \in Nat
    BY <2>1, <2>2, <2>3
  <2>5. g[s] = f[x] + g[s \ {x}] /\ f[x] \in Nat
    BY <1>1, <2>2, <2>3
  <2> QED
    BY <2>2, <2>4, <2>5
<1>5. ASSUME NEW x \in S PROVE f[x] <= g[S]
  <2>1. g[S \ {x}] \in Nat /\ g[S] = f[x] + g[S \ {x}] /\ f[x] \in Nat
    BY <1>1, <1>4
  <2> QED
    BY <2>1
<1> QED
  BY <1>1, <1>4, <1>5

(* A sum does not grow when each of what it is over is no more than one of *)
(* what it was over, each another.                                         *)
LEMMA SumShrinks ==
  ASSUME NEW f, IsFiniteSet(DOMAIN f), \A x \in DOMAIN f : f[x] \in Nat,
         NEW h, IsFiniteSet(DOMAIN h), \A y \in DOMAIN h : h[y] \in Nat,
         NEW p \in [DOMAIN h -> DOMAIN f], IsInjective(p),
         \A y \in DOMAIN h : h[y] <= f[p[y]]
  PROVE  SumFunction(h) <= SumFunction(f)
<1> DEFINE S == DOMAIN f
<1> DEFINE T == DOMAIN h
<1>0. (\A x \in S : f[x] \in Int) /\ (\A x \in T : h[x] \in Int)
  OBVIOUS
<1>1. PICK g : /\ SumFunction(f) = g[S] /\ g[{}] = 0
               /\ \A s \in SUBSET S : g[s] \in Int /\ \A x \in s : g[s] = f[x] + g[s \ {x}]
  BY <1>0, SumByParts
<1>2. PICK e : /\ SumFunction(h) = e[T] /\ e[{}] = 0
               /\ \A s \in SUBSET T : e[s] \in Int /\ \A x \in s : e[s] = h[x] + e[s \ {x}]
  BY <1>0, SumByParts
<1> DEFINE Of(s) == {y \in T : p[y] \in s}
<1> DEFINE Bad == {s \in SUBSET S : ~ (e[Of(s)] <= g[s])}
<1>6. Bad = {}
  <2> SUFFICES ASSUME Bad # {} PROVE FALSE
    OBVIOUS
  <2>0. Bad \in SUBSET (SUBSET S)
    OBVIOUS
  <2>1. PICK s \in Bad : \A u \in SUBSET s : u # s => u \notin Bad
    <3> HIDE DEF Bad
    <3> QED
      BY <2>0, SmallestSet
  <2>2. s # {}
    <3> SUFFICES ASSUME s = {} PROVE FALSE
      OBVIOUS
    <3>1. Of(s) = {}
      OBVIOUS
    <3>2. ~ (e[Of(s)] <= g[s])
      BY <2>1
    <3>3. ~ (0 <= 0)
      BY <1>1, <1>2, <3>1, <3>2
    <3> QED
      BY <3>3
  <2>3. PICK x \in s : TRUE
    BY <2>2
  <2>4. e[Of(s \ {x})] <= g[s \ {x}]
    BY <2>1, <2>3
  <2>5. g[s] = f[x] + g[s \ {x}] /\ f[x] \in Nat /\ g[s \ {x}] \in Int
    BY <1>1, <2>1, <2>3
  <2>6. e[Of(s)] <= f[x] + e[Of(s \ {x})]
    <3>0. Of(s) \in SUBSET T /\ Of(s \ {x}) \in SUBSET T
      OBVIOUS
    <3>1. CASE \E y \in Of(s) : p[y] = x
      <4>1. PICK y \in Of(s) : p[y] = x
        BY <3>1
      <4>2. Of(s \ {x}) = Of(s) \ {y}
        BY <4>1 DEF IsInjective
      <4>3. e[Of(s)] = h[y] + e[Of(s) \ {y}] /\ h[y] <= f[x] /\ h[y] \in Nat
        BY <1>2, <3>0, <4>1
      <4>4. e[Of(s) \ {y}] \in Int
        BY <1>2, <3>0, <4>2
      <4> HIDE DEF Of
      <4> QED
        BY <2>5, <4>2, <4>3, <4>4, SMTT(20)
    <3>2. CASE ~ \E y \in Of(s) : p[y] = x
      <4>1. Of(s \ {x}) = Of(s)
        BY <3>2
      <4>2. e[Of(s)] \in Int
        BY <1>2, <3>0
      <4> HIDE DEF Of
      <4> QED
        BY <2>5, <4>1, <4>2
    <3> QED
      BY <3>1, <3>2
  <2>7. e[Of(s)] \in Int /\ e[Of(s \ {x})] \in Int
    BY <1>2
  <2>8. e[Of(s)] <= g[s]
    <3> HIDE DEF Of
    <3> QED
      BY <2>4, <2>5, <2>6, <2>7
  <2> QED
    BY <2>1, <2>8
<1>7. Of(S) = T
  OBVIOUS
<1>8. e[Of(S)] <= g[S]
  BY <1>6
<1> QED
  BY <1>1, <1>2, <1>7, <1>8

(* One more adds no more than itself. *)
LEMMA SumOfOneMore ==
  ASSUME NEW f, IsFiniteSet(DOMAIN f), \A x \in DOMAIN f : f[x] \in Nat,
         NEW z, NEW h, DOMAIN h = DOMAIN f \cup {z}, h[z] \in Nat,
         \A x \in DOMAIN f : h[x] = f[x]
  PROVE  /\ SumFunction(h) <= SumFunction(f) + h[z]
         /\ IsFiniteSet(DOMAIN h) /\ SumFunction(h) \in Nat /\ SumFunction(f) \in Nat
<1>1. IsFiniteSet(DOMAIN h) /\ \A x \in DOMAIN h : h[x] \in Nat
  BY FS_AddElement
<1>2. SumFunction(h) \in Nat /\ SumFunction(f) \in Nat
  BY <1>1, SumIsNat
<1>3. SumFunction(h) = h[z] + SumFunction(Without(h, z))
  <2>1. \A x \in DOMAIN h : h[x] \in Int
    BY <1>1
  <2> QED
    BY <1>1, <2>1, SumAddsUp
<1> DEFINE w == Without(h, z)
<1>4. DOMAIN w \subseteq DOMAIN f /\ \A x \in DOMAIN w : w[x] = f[x]
  BY DEF Without
<1> HIDE DEF w
<1>5. IsFiniteSet(DOMAIN w) /\ \A x \in DOMAIN w : w[x] \in Nat
  BY <1>4, FS_Subset
<1> DEFINE p == [x \in DOMAIN w |-> x]
<1>6. p \in [DOMAIN w -> DOMAIN f] /\ IsInjective(p) /\ \A x \in DOMAIN w : w[x] <= f[p[x]]
  BY <1>4, <1>5 DEF IsInjective
<1>7. SumFunction(w) <= SumFunction(f) /\ SumFunction(w) \in Nat
  <2> HIDE DEF p
  <2> QED
    BY <1>5, <1>6, SumShrinks, SumIsNat
<1> QED
  BY <1>1, <1>2, <1>3, <1>7 DEF w
------------------------------------------------------------------------------
(* A finite set of integers has a greatest and a least. *)
LEMMA GreatestIsOne ==
  ASSUME NEW S \in SUBSET Int, IsFiniteSet(S), S # {}
  PROVE  Max(S) \in S /\ \A y \in S : y <= Max(S)
<1> DEFINE Bad == {s \in SUBSET S : s # {} /\ ~ \E x \in s : \A y \in s : x >= y}
<1>1. Bad = {}
  <2> SUFFICES ASSUME Bad # {} PROVE FALSE
    OBVIOUS
  <2>0. Bad \in SUBSET (SUBSET S)
    OBVIOUS
  <2>1. PICK s \in Bad : \A u \in SUBSET s : u # s => u \notin Bad
    <3> HIDE DEF Bad
    <3> QED
      BY <2>0, SmallestSet
  <2>2. PICK x \in s : TRUE
    BY <2>1
  <2>3. s \ {x} # {}
    BY <2>1, <2>2
  <2>4. PICK z \in s \ {x} : \A y \in s \ {x} : z >= y
    BY <2>1, <2>2, <2>3
  <2>5. x \in Int /\ z \in Int /\ s \subseteq Int
    BY <2>1, <2>2, <2>4
  <2>6. CASE x >= z
    <3>1. \A y \in s : x >= y
      BY <2>4, <2>5, <2>6
    <3> QED
      BY <2>1, <2>2, <3>1
  <2>7. CASE z >= x
    <3>1. \A y \in s : z >= y
      BY <2>4, <2>5, <2>7
    <3> QED
      BY <2>1, <2>4, <3>1
  <2> QED
    BY <2>5, <2>6, <2>7
<1>2. PICK x \in S : \A y \in S : x >= y
  BY <1>1
<1>3. Max(S) \in S /\ \A y \in S : Max(S) >= y
  BY <1>2 DEF Max
<1> QED
  BY <1>3

LEMMA LeastIsOne ==
  ASSUME NEW S \in SUBSET Int, IsFiniteSet(S), S # {}
  PROVE  Min(S) \in S /\ \A y \in S : Min(S) <= y
<1> DEFINE Bad == {s \in SUBSET S : s # {} /\ ~ \E x \in s : \A y \in s : x <= y}
<1>1. Bad = {}
  <2> SUFFICES ASSUME Bad # {} PROVE FALSE
    OBVIOUS
  <2>0. Bad \in SUBSET (SUBSET S)
    OBVIOUS
  <2>1. PICK s \in Bad : \A u \in SUBSET s : u # s => u \notin Bad
    <3> HIDE DEF Bad
    <3> QED
      BY <2>0, SmallestSet
  <2>2. PICK x \in s : TRUE
    BY <2>1
  <2>3. s \ {x} # {}
    BY <2>1, <2>2
  <2>4. PICK z \in s \ {x} : \A y \in s \ {x} : z <= y
    BY <2>1, <2>2, <2>3
  <2>5. x \in Int /\ z \in Int /\ s \subseteq Int
    BY <2>1, <2>2, <2>4
  <2>6. CASE x <= z
    <3>1. \A y \in s : x <= y
      BY <2>4, <2>5, <2>6
    <3> QED
      BY <2>1, <2>2, <3>1
  <2>7. CASE z <= x
    <3>1. \A y \in s : z <= y
      BY <2>4, <2>5, <2>7
    <3> QED
      BY <2>1, <2>4, <3>1
  <2> QED
    BY <2>5, <2>6, <2>7
<1>2. PICK x \in S : \A y \in S : x <= y
  BY <1>1
<1> QED
  BY <1>2 DEF Min

LEMMA GreatestOf ==
  ASSUME NEW S \in SUBSET Int, IsFiniteSet(S)
  PROVE  /\ Greatest(S) \in Nat /\ Greatest(S) \in S \cup {0}
         /\ \A y \in S : y <= Greatest(S)
<1>1. S \cup {0} \in SUBSET Int /\ IsFiniteSet(S \cup {0})
  BY FS_AddElement
<1> DEFINE Z == S \cup {0}
<1>2. PICK m : m = Max(Z)
  OBVIOUS
<1>3. m \in Z /\ \A y \in Z : y <= m
  <2> HIDE DEF Z
  <2>1. Z \in SUBSET Int /\ IsFiniteSet(Z) /\ Z # {}
    BY <1>1 DEF Z
  <2> QED
    BY <1>2, <2>1, GreatestIsOne
<1>4. Greatest(S) = m
  BY <1>2 DEF Greatest
<1>5. m \in Int /\ 0 <= m
  BY <1>1, <1>3
<1> QED
  BY <1>3, <1>4, <1>5

LEMMA FewAreFinite ==
  \A a, b, c : IsFiniteSet({a}) /\ IsFiniteSet({a, b}) /\ IsFiniteSet({a, b, c})
<1> SUFFICES ASSUME NEW a, NEW b, NEW c
             PROVE  IsFiniteSet({a}) /\ IsFiniteSet({a, b}) /\ IsFiniteSet({a, b, c})
  OBVIOUS
<1>1. IsFiniteSet({a})
  BY FS_Singleton
<1>2. PICK P : P = {a} /\ IsFiniteSet(P)
  BY <1>1
<1>3. IsFiniteSet(P \cup {b}) /\ P \cup {b} = {a, b}
  BY <1>2, FS_AddElement
<1>4. PICK Q : Q = {a, b} /\ IsFiniteSet(Q)
  BY <1>3
<1>5. IsFiniteSet(Q \cup {c}) /\ Q \cup {c} = {a, b, c}
  BY <1>4, FS_AddElement
<1> QED
  BY <1>1, <1>3, <1>5

LEMMA ImageIsFinite ==
  ASSUME NEW S, IsFiniteSet(S), NEW f, DOMAIN f = S
  PROVE  IsFiniteSet({f[x] : x \in S})
<1> DEFINE T == {f[x] : x \in S}
<1> DEFINE h == [x \in S |-> f[x]]
<1>1. h \in Surjection(S, T)
  BY DEF Surjection
<1> HIDE DEF h, T
<1>2. IsFiniteSet(T)
  BY <1>1, FS_Surjection
<1> QED
  BY <1>2 DEF T
------------------------------------------------------------------------------
(* What is always so, apart from what is placed where.                     *)
Everyone == Stn \cup {Master}
Usages == uses = [x \in Everyone |-> UsesOf(x, cfg[x])]
MasterHasBegun == \A r \in rows : r.stn = Master => r.on <= now
WindowAhead == (Placing /\ window[1] < window[2]) => now + CleanTime <= window[1]

IInv == TypeOK /\ IsFiniteSet(rows) /\ Usages /\ MasterHasBegun /\ WindowAhead

(* What a valve with the settings c takes of its trackers. *)
TakesOf(x, c, u) ==
  /\ \A k \in DOMAIN u : /\ u[k].amount \in Nat /\ u[k].limit \in Int
                         /\ u[k].delay = "sensor" => k[1] = "sensor"
                         /\ k[1] = "sensor" => x \in Stn /\ u[k] = Use(1, 1, "sensor")
  /\ x \in Stn => <<"sensor", c.sensor>> \in DOMAIN u
  /\ <<"pocStations", c.poc>> \in DOMAIN u
  /\ u[<<"pocStations", c.poc>>] = IF x = Master THEN Use(0, 0, "poc") ELSE Use(1, c.pocMaxStations, "poc")

LEMMA UsesAre ==
  ASSUME PlacementAssumption, NEW c \in Settings, NEW x \in Everyone,
         NEW u, u = UsesOf(x, c[x])
  PROVE  TakesOf(x, c[x], u)
<1> DEFINE C == c[x]
<1>0. SettingOK(C) /\ (x # Master => StationOK(C) /\ x \in Stn)
  BY DEF PlacementAssumption, Everyone, StationOK
<1> HIDE DEF C
<1>1. u = UsesOf(x, C)
  BY DEF C
<1>2. ASSUME NEW k \in DOMAIN u
      PROVE  /\ k[1] \in {"ctlStations", "ctlCurrent", "pocStations", "pocFlow", "pgmStations", "pgmFlow", "sensor"}
             /\ k[1] \in {"pocFlow", "pgmStations", "pgmFlow", "sensor"} => x # Master
  BY <1>1, <1>2 DEF UsesOf
<1>3. ASSUME NEW k \in DOMAIN u, k[1] = "ctlStations"
      PROVE  u[k] = Use(1, C.ctlMaxStations, "ctl")
  BY <1>1, <1>3 DEF UsesOf
<1>4. ASSUME NEW k \in DOMAIN u, k[1] = "ctlCurrent"
      PROVE  u[k] = Use(C.current, C.maxCurrent - C.baseCurrent, "ctl")
  BY <1>1, <1>4 DEF UsesOf
<1>5. ASSUME NEW k \in DOMAIN u, k[1] = "pocStations"
      PROVE  u[k] = IF x = Master THEN Use(0, 0, "poc") ELSE Use(1, C.pocMaxStations, "poc")
  BY <1>1, <1>5 DEF UsesOf
<1>6. ASSUME NEW k \in DOMAIN u, k[1] = "pocFlow"
      PROVE  u[k] = Use(C.flow, C.pocMaxFlow, "poc")
  BY <1>1, <1>6 DEF UsesOf
<1>7. ASSUME NEW k \in DOMAIN u, k[1] = "pgmStations"
      PROVE  u[k] = Use(1, C.pgmMaxStations, "none")
  BY <1>1, <1>7 DEF UsesOf
<1>8. ASSUME NEW k \in DOMAIN u, k[1] = "pgmFlow"
      PROVE  u[k] = Use(C.flow, C.pgmMaxFlow, "none")
  BY <1>1, <1>8 DEF UsesOf
<1>9. ASSUME NEW k \in DOMAIN u, k[1] = "sensor"
      PROVE  u[k] = Use(1, 1, "sensor")
  BY <1>1, <1>9 DEF UsesOf
<1>10. (x \in Stn => <<"sensor", C.sensor>> \in DOMAIN u) /\ <<"pocStations", C.poc>> \in DOMAIN u
  BY <1>1 DEF UsesOf, PlacementAssumption
<1>11. ASSUME NEW k \in DOMAIN u
       PROVE  /\ u[k].amount \in Nat /\ u[k].limit \in Int
              /\ u[k].delay = "sensor" => k[1] = "sensor"
              /\ k[1] = "sensor" => x \in Stn /\ u[k] = Use(1, 1, "sensor")
  <2>1. CASE k[1] = "ctlStations"
    BY <1>0, <1>3, <2>1 DEF Use, SettingOK
  <2>2. CASE k[1] = "ctlCurrent"
    BY <1>0, <1>4, <2>2 DEF Use, SettingOK
  <2>3. CASE k[1] = "pocStations"
    BY <1>0, <1>5, <2>3 DEF Use, StationOK
  <2>4. CASE k[1] = "pocFlow"
    BY <1>0, <1>2, <1>6, <2>4 DEF Use, StationOK
  <2>5. CASE k[1] = "pgmStations"
    BY <1>0, <1>2, <1>7, <2>5 DEF Use, StationOK
  <2>6. CASE k[1] = "pgmFlow"
    BY <1>0, <1>2, <1>8, <2>6 DEF Use, StationOK
  <2>7. CASE k[1] = "sensor"
    BY <1>0, <1>2, <1>9, <2>7 DEF Use
  <2> QED
    BY <1>2, <2>1, <2>2, <2>3, <2>4, <2>5, <2>6, <2>7
<1>12. u[<<"pocStations", C.poc>>] = IF x = Master THEN Use(0, 0, "poc") ELSE Use(1, C.pocMaxStations, "poc")
  BY <1>5, <1>10
<1> QED
  BY <1>10, <1>11, <1>12 DEF C, TakesOf

LEMMA SettingsAre ==
  ASSUME PlacementAssumption, TypeOK
  PROVE  /\ \A y \in Everyone : /\ cfg[y].ctlDelay \in Nat
                                /\ cfg[y].delayOn \in Nat /\ cfg[y].delayOff \in Nat
         /\ \A s \in Stn : StationOK(cfg[s]) /\ Gap(s) \in Nat
<1>1. \A y \in Everyone : SettingOK(cfg[y])
  BY DEF PlacementAssumption, TypeOK, Everyone, StationOK
<1>2. ASSUME NEW s \in Stn PROVE StationOK(cfg[s]) /\ Gap(s) \in Nat
  <2>1. StationOK(cfg[s])
    BY DEF PlacementAssumption, TypeOK
  <2> DEFINE D == {cfg[s].soakTime, cfg[s].delayOn, cfg[s].delayOff}
  <2>2. D \in SUBSET Int
    BY <2>1 DEF StationOK, SettingOK
  <2>3. IsFiniteSet(D)
    BY FewAreFinite
  <2>4. Gap(s) = Greatest(D)
    BY DEF Gap
  <2> QED
    BY <2>1, <2>2, <2>3, <2>4, GreatestOf
<1> QED
  BY <1>1, <1>2 DEF SettingOK

(* The delays of S are numbers, and few. *)
DelaysOf(S, delay) ==
  UNION {IF delay = "ctl" THEN {cfg[y].ctlDelay}
         ELSE IF delay = "poc" THEN {cfg[y].delayOn, cfg[y].delayOff}
         ELSE IF delay = "sensor" THEN {Gap(y)}
         ELSE {} : y \in S}

LEMMA DelaysAre ==
  ASSUME PlacementAssumption, TypeOK,
         NEW S \in SUBSET Everyone, IsFiniteSet(S), NEW delay, delay = "sensor" => S \subseteq Stn
  PROVE  IsFiniteSet(DelaysOf(S, delay)) /\ DelaysOf(S, delay) \in SUBSET Int
<1> DEFINE of(y) == IF delay = "ctl" THEN {cfg[y].ctlDelay}
                    ELSE IF delay = "poc" THEN {cfg[y].delayOn, cfg[y].delayOff}
                    ELSE IF delay = "sensor" THEN {Gap(y)}
                    ELSE {}
<1> DEFINE all == {of(y) : y \in S}
<1>1. \A y \in S : of(y) \subseteq Int /\ IsFiniteSet(of(y))
  <2> SUFFICES ASSUME NEW y \in S PROVE of(y) \subseteq Int /\ IsFiniteSet(of(y))
    OBVIOUS
  <2>1. of(y) \subseteq Int
    BY SettingsAre
  <2>2. IsFiniteSet({}) /\ IsFiniteSet({cfg[y].ctlDelay}) /\ IsFiniteSet({Gap(y)})
    BY FS_EmptySet, FS_Singleton
  <2>3. IsFiniteSet({cfg[y].delayOn, cfg[y].delayOff})
    BY FewAreFinite
  <2> QED
    BY <2>1, <2>2, <2>3
<1>2. IsFiniteSet(all)
  <2> DEFINE h == [y \in S |-> of(y)]
  <2>1. {h[y] : y \in S} = all /\ DOMAIN h = S
    OBVIOUS
  <2> HIDE DEF h, all
  <2> QED
    BY <2>1, ImageIsFinite
<1>3. IsFiniteSet(UNION all) /\ UNION all \in SUBSET Int
  <2>1. \A T \in all : IsFiniteSet(T) /\ T \subseteq Int
    <3> HIDE DEF of
    <3> QED
      BY <1>1
  <2> HIDE DEF all, of
  <2> QED
    BY <1>2, <2>1, FS_UNION
<1>4. DelaysOf(S, delay) = UNION all
  BY DEF DelaysOf
<1> HIDE DEF all
<1> QED
  BY <1>3, <1>4

(* The margin for a tracker is no less than any which counts there. *)
LEMMA MarginIs ==
  ASSUME PlacementAssumption, TypeOK,
         NEW S \in SUBSET Everyone, IsFiniteSet(S), NEW delay, delay = "sensor" => S \subseteq Stn
  PROVE  Margin(S, delay) \in Nat /\ (delay = "sensor" => \A y \in S : Gap(y) <= Margin(S, delay))
<1> DEFINE all == DelaysOf(S, delay)
<1>1. all \in SUBSET Int /\ IsFiniteSet(all)
  BY DelaysAre
<1>2. Margin(S, delay) = Greatest(all)
  BY DEF Margin, DelaysOf
<1>3. delay = "sensor" => \A y \in S : Gap(y) \in all
  BY DEF DelaysOf
<1> HIDE DEF all
<1> QED
  BY <1>1, <1>2, <1>3, GreatestOf

LEMMA AroundIs ==
  ASSUME PlacementAssumption, TypeOK, NEW x \in Stn,
         NEW S \in SUBSET Everyone, IsFiniteSet(S), NEW delay, delay = "sensor" => S \subseteq Stn
  PROVE  /\ Before(x, S, delay) \in Nat /\ After(x, S, delay) \in Nat
         /\ delay = "sensor" => \A y \in S \cup {x} : Gap(y) <= Before(x, S, delay) /\ Gap(y) <= After(x, S, delay)
<1>1. Margin(S \cup {x}, delay) \in Nat
      /\ (delay = "sensor" => \A y \in S \cup {x} : Gap(y) <= Margin(S \cup {x}, delay))
  <2>1. S \cup {x} \in SUBSET Everyone /\ IsFiniteSet(S \cup {x}) /\ (delay = "sensor" => S \cup {x} \subseteq Stn)
    BY FS_AddElement DEF Everyone
  <2> QED
    BY <2>1, MarginIs
<1>2. CASE delay # "poc"
  BY <1>1, <1>2 DEF Before, After
<1>3. CASE delay = "poc"
  <2> DEFINE ons == {cfg[y].delayOn : y \in S}
  <2> DEFINE offs == {cfg[y].delayOff : y \in S}
  <2>1. IsFiniteSet(ons) /\ IsFiniteSet(offs)
    <3> DEFINE g == [y \in S |-> cfg[y].delayOn]
    <3> DEFINE h == [y \in S |-> cfg[y].delayOff]
    <3>1. {g[y] : y \in S} = ons /\ {h[y] : y \in S} = offs /\ DOMAIN g = S /\ DOMAIN h = S
      OBVIOUS
    <3> HIDE DEF g, h, ons, offs
    <3> QED
      BY <3>1, ImageIsFinite
  <2>2. x \in Everyone /\ ons \subseteq Int /\ offs \subseteq Int /\ cfg[x].delayOff \in Int /\ cfg[x].delayOn \in Int
    BY SettingsAre DEF Everyone
  <2>3. Before(x, S, delay) = Greatest({cfg[x].delayOff} \cup ons)
        /\ After(x, S, delay) = Greatest({cfg[x].delayOn} \cup offs)
    BY <1>3 DEF Before, After
  <2> HIDE DEF ons, offs
  <2>4. IsFiniteSet({cfg[x].delayOff} \cup ons) /\ IsFiniteSet({cfg[x].delayOn} \cup offs)
    BY <2>1, FS_AddElement, FS_Singleton, FS_Union
  <2>5. {cfg[x].delayOff} \cup ons \in SUBSET Int /\ {cfg[x].delayOn} \cup offs \in SUBSET Int
    BY <2>2
  <2>6. Greatest({cfg[x].delayOff} \cup ons) \in Nat /\ Greatest({cfg[x].delayOn} \cup offs) \in Nat
    BY <2>4, <2>5, GreatestOf
  <2> QED
    BY <1>3, <2>3, <2>6
<1> QED
  BY <1>2, <1>3
------------------------------------------------------------------------------
LEMMA UsesNow ==
  ASSUME PlacementAssumption, IInv, NEW x \in Everyone
  PROVE  TakesOf(x, cfg[x], uses[x])
<1>1. uses[x] = UsesOf(x, cfg[x]) /\ cfg \in Settings
  BY DEF IInv, TypeOK, Usages
<1> QED
  BY <1>1, UsesAre

(* Who has reserved what x takes. *)
LEMMA OthersAre ==
  ASSUME PlacementAssumption, IInv, NEW x \in Everyone, NEW k \in Trackers(x), NEW S \in SUBSET Reserved(k)
  PROVE  /\ Others(S) \in SUBSET Everyone /\ IsFiniteSet(Others(S)) /\ IsFiniteSet(S)
         /\ uses[x][k].delay = "sensor" => Others(S) \subseteq Stn
         /\ \A r \in S : r.stn \in Everyone /\ uses[r.stn][k].amount \in Nat
                         /\ uses[r.stn][k].limit \in Int
<1>1. S \in SUBSET rows /\ IsFiniteSet(rows) /\ \A r \in rows : r.stn \in Everyone
  BY DEF Reserved, IInv, TypeOK, Row, Everyone
<1>2. IsFiniteSet(S)
  BY <1>1, FS_Subset
<1>3. IsFiniteSet(Others(S)) /\ Others(S) \in SUBSET Everyone
  <2> DEFINE g == [r \in S |-> r.stn]
  <2>1. Others(S) = {g[r] : r \in S} /\ DOMAIN g = S
    BY DEF Others
  <2>2. Others(S) \in SUBSET Everyone
    BY <1>1 DEF Others
  <2> HIDE DEF g
  <2> QED
    BY <1>2, <2>1, <2>2, ImageIsFinite
<1>4. ASSUME NEW y \in Everyone, k \in Trackers(y)
      PROVE  /\ uses[y][k].amount \in Nat /\ uses[y][k].limit \in Int
             /\ uses[y][k].delay = "sensor" => k[1] = "sensor"
             /\ k[1] = "sensor" => y \in Stn
  <2>1. TakesOf(y, cfg[y], uses[y])
    BY UsesNow
  <2> QED
    BY <1>4, <2>1 DEF TakesOf, Trackers
<1>5. \A r \in S : k \in Trackers(r.stn) /\ r.stn \in Everyone
  BY <1>1 DEF Reserved, Binding
<1>6. uses[x][k].delay = "sensor" => k[1] = "sensor"
  BY <1>4
<1> QED
  BY <1>2, <1>3, <1>4, <1>5, <1>6 DEF Others

LEMMA ActiveAre == \A k, t : Active(k, t) \in SUBSET Reserved(k)
BY DEF Active

(* Where x is free it fits beside those who are on. *)
LEMMA FreeFits ==
  ASSUME PlacementAssumption, IInv, NEW x \in Stn, NEW k \in Trackers(x), Reserved(k) # {},
         NEW lo \in Int, NEW hi \in Int, NEW t \in Free(x, lo, hi)
  PROVE  Fits(x, k, Active(k, t))
<1>1. x \in Everyone /\ TypeOK
  BY DEF Everyone, IInv
<1>2. t \in lo .. (hi - 1) /\ t \notin Blocked(x, k, lo, hi)
  BY DEF Free
<1> DEFINE d == uses[x][k].delay
<1>3. Padding(x, k) \in Nat
  <2>1. Others(Reserved(k)) \in SUBSET Everyone /\ IsFiniteSet(Others(Reserved(k)))
        /\ (d = "sensor" => Others(Reserved(k)) \subseteq Stn)
    BY <1>1, OthersAre
  <2>2. {x} \cup Others(Reserved(k)) \in SUBSET Everyone /\ (d = "sensor" => {x} \cup Others(Reserved(k)) \subseteq Stn)
    BY <1>1, <2>1
  <2>3. IsFiniteSet({x} \cup Others(Reserved(k)))
    BY <2>1, FS_Singleton, FS_Union
  <2> QED
    BY <1>1, <2>2, <2>3, MarginIs DEF Padding
<1> DEFINE S == Active(k, t)
<1>4. Before(x, Others(S), d) \in Nat /\ After(x, Others(S), d) \in Nat
  <2>1. Others(S) \in SUBSET Everyone /\ IsFiniteSet(Others(S)) /\ (d = "sensor" => Others(S) \subseteq Stn)
    BY <1>1, ActiveAre, OthersAre
  <2> HIDE DEF S, d
  <2> QED
    BY <1>1, <2>1, AroundIs
<1>5. t \in Around(x, k, S, t)
  BY <1>2, <1>4 DEF Around
<1>6. t \in (lo - Padding(x, k)) .. (hi + Padding(x, k) - 1)
  BY <1>2, <1>3
<1>7. SUFFICES ASSUME ~ Fits(x, k, S) PROVE t \in Blocked(x, k, lo, hi)
  BY <1>2
<1> QED
  BY <1>5, <1>6, <1>7 DEF Blocked

(* A cycle in what is free to its station leaves time to soak before and   *)
(* after each of the same valve.                                           *)
LEMMA FreeSoaks ==
  ASSUME PlacementAssumption, IInv, NEW x \in Stn, NEW lo \in Int, NEW hi \in Int,
         NEW on \in Int, NEW off \in Int, lo <= on, on < off, off <= hi,
         \A t \in on .. (off - 1) : t \in Free(x, lo, hi),
         NEW q \in rows, q.stn \in Stn, cfg[q.stn].sensor = cfg[x].sensor, Read(q)
  PROVE  q.off + Gap(q.stn) <= on \/ off + Gap(x) <= q.on
<1> DEFINE k == <<"sensor", cfg[x].sensor>>
<1> DEFINE M(u) == Before(x, Others(Active(k, u)), "sensor")
<1> DEFINE N(u) == After(x, Others(Active(k, u)), "sensor")
<1>1. /\ TypeOK /\ x \in Everyone /\ q.stn \in Everyone
      /\ q.on \in Int /\ q.off \in Int /\ q.on < q.off /\ Gap(x) \in Nat /\ Gap(q.stn) \in Nat
  <2>1. TypeOK /\ q \in Row /\ q.on < q.off
    BY DEF IInv, TypeOK
  <2>2. Gap(x) \in Nat /\ Gap(q.stn) \in Nat
    BY <2>1, SettingsAre
  <2> QED
    BY <2>1, <2>2 DEF Row, Everyone
<1>2. /\ k \in Trackers(x) /\ uses[x][k] = Use(1, 1, "sensor")
      /\ k \in Trackers(q.stn) /\ uses[q.stn][k] = Use(1, 1, "sensor") /\ k[1] = "sensor"
  <2>1. k[1] = "sensor" /\ k = <<"sensor", cfg[q.stn].sensor>>
    OBVIOUS
  <2>2. k \in Trackers(x) /\ k \in Trackers(q.stn)
    BY <1>1, <2>1, UsesNow DEF TakesOf, Trackers
  <2>3. TakesOf(x, cfg[x], uses[x]) /\ TakesOf(q.stn, cfg[q.stn], uses[q.stn])
    BY <1>1, UsesNow
  <2> HIDE DEF k
  <2> QED
    BY <2>1, <2>2, <2>3 DEF TakesOf, Trackers
<1> HIDE DEF k
<1>3. q \in Reserved(k)
  BY <1>2 DEF Reserved, Binding
<1>4. ASSUME NEW u \in q.on .. (q.off - 1)
      PROVE  /\ ~ Fits(x, k, Active(k, u))
             /\ M(u) \in Nat /\ Gap(x) <= M(u) /\ Gap(q.stn) <= M(u)
             /\ N(u) \in Nat /\ Gap(x) <= N(u) /\ Gap(q.stn) <= N(u)
  <2> DEFINE S == Active(k, u)
  <2>1. q \in S /\ S \in SUBSET Reserved(k)
    <3>1. q.on <= u /\ u < q.off
      BY <1>1
    <3>2. q \in S
      BY <1>3, <3>1 DEF Active
    <3>3. S \in SUBSET Reserved(k)
      BY ActiveAre
    <3> QED
      BY <3>2, <3>3
  <2>2. /\ Others(S) \in SUBSET Everyone /\ IsFiniteSet(Others(S)) /\ IsFiniteSet(S)
        /\ Others(S) \subseteq Stn
        /\ \A r \in S : uses[r.stn][k].amount \in Nat
    <3>1. uses[x][k].delay = "sensor"
      BY <1>2 DEF Use
    <3> QED
      BY <1>1, <1>2, <2>1, <3>1, OthersAre
  <2> HIDE DEF S
  <2>3. Usage(k, S) \in Nat /\ 1 <= Usage(k, S)
    <3> DEFINE f == [r \in S |-> uses[r.stn][k].amount]
    <3>1. IsFiniteSet(DOMAIN f) /\ (\A r \in DOMAIN f : f[r] \in Nat) /\ q \in DOMAIN f /\ f[q] = 1
      BY <1>2, <2>1, <2>2 DEF Use
    <3>2. Usage(k, S) = SumFunction(f)
      BY DEF Usage
    <3> HIDE DEF f
    <3> QED
      BY <3>1, <3>2, SumIsNat
  <2>4. ~ Fits(x, k, S)
    <3>1. uses[x][k].amount = 1 /\ uses[x][k].limit = 1
      BY <1>2 DEF Use
    <3>2. ~ (Usage(k, S) + 1 <= 1)
      BY <2>3
    <3> QED
      BY <3>1, <3>2 DEF Fits
  <2>5. q.stn \in Others(S) \cup {x} /\ x \in Others(S) \cup {x}
    BY <2>1 DEF Others
  <2>6. /\ M(u) \in Nat /\ Gap(x) <= M(u) /\ Gap(q.stn) <= M(u)
        /\ N(u) \in Nat /\ Gap(x) <= N(u) /\ Gap(q.stn) <= N(u)
    BY <1>1, <2>2, <2>5, AroundIs DEF S
  <2> QED
    BY <2>4, <2>6 DEF S
<1>5. Padding(x, k) \in Nat /\ Gap(x) <= Padding(x, k) /\ Gap(q.stn) <= Padding(x, k)
  <2> DEFINE Z == {x} \cup Others(Reserved(k))
  <2>1. /\ Others(Reserved(k)) \in SUBSET Everyone /\ IsFiniteSet(Others(Reserved(k)))
        /\ Others(Reserved(k)) \subseteq Stn
    <3>1. uses[x][k].delay = "sensor"
      BY <1>2 DEF Use
    <3> QED
      BY <1>1, <1>2, <3>1, OthersAre
  <2>2. Z \in SUBSET Everyone /\ Z \subseteq Stn /\ IsFiniteSet(Z) /\ x \in Z /\ q.stn \in Z
    BY <1>1, <1>3, <2>1, FS_Singleton, FS_Union DEF Others
  <2>3. Padding(x, k) = Margin(Z, "sensor")
    BY <1>2 DEF Padding, Use
  <2> HIDE DEF Z
  <2> QED
    BY <1>1, <2>2, <2>3, MarginIs
<1>6. ASSUME NEW u \in q.on .. (q.off - 1), NEW t \in on .. (off - 1),
             lo - Padding(x, k) <= u, u < hi + Padding(x, k), u - M(u) <= t, t <= u + N(u)
      PROVE  FALSE
  <2>1. t \in Free(x, lo, hi) /\ t \notin Blocked(x, k, lo, hi)
    BY <1>2, <1>3 DEF Free
  <2>2. t \in Around(x, k, Active(k, u), u)
    BY <1>1, <1>2, <1>4, <1>6 DEF Around, Use
  <2>3. u \in (lo - Padding(x, k)) .. (hi + Padding(x, k) - 1)
    BY <1>1, <1>5, <1>6
  <2>4. ~ Fits(x, k, Active(k, u))
    BY <1>4
  <2> QED
    BY <2>1, <2>2, <2>3, <2>4 DEF Blocked
<1> HIDE DEF M, N
<1>7. SUFFICES ASSUME on < q.off + Gap(q.stn), q.on < off + Gap(x) PROVE FALSE
  BY <1>1
<1>8. CASE q.off <= on
  <2>1. q.off - 1 \in q.on .. (q.off - 1) /\ on \in on .. (off - 1)
    BY <1>1
  <2>2. M(q.off - 1) \in Nat /\ Gap(q.stn) <= N(q.off - 1) /\ N(q.off - 1) \in Nat
    BY <1>4, <2>1
  <2>3. PICK m, n : m = M(q.off - 1) /\ n = N(q.off - 1)
    OBVIOUS
  <2>4. /\ lo - Padding(x, k) <= q.off - 1 /\ q.off - 1 < hi + Padding(x, k)
        /\ (q.off - 1) - m <= on /\ on <= (q.off - 1) + n
    BY <1>1, <1>5, <1>7, <1>8, <2>2, <2>3
  <2> QED
    BY <1>6, <2>1, <2>3, <2>4
<1>9. CASE off <= q.on
  <2>1. q.on \in q.on .. (q.off - 1) /\ off - 1 \in on .. (off - 1)
    BY <1>1
  <2>2. Gap(x) <= M(q.on) /\ M(q.on) \in Nat /\ N(q.on) \in Nat
    BY <1>4, <2>1
  <2>3. PICK m, n : m = M(q.on) /\ n = N(q.on)
    OBVIOUS
  <2>4. /\ lo - Padding(x, k) <= q.on /\ q.on < hi + Padding(x, k)
        /\ q.on - m <= off - 1 /\ off - 1 <= q.on + n
    BY <1>1, <1>5, <1>7, <1>9, <2>2, <2>3
  <2> QED
    BY <1>6, <2>1, <2>3, <2>4
<1>10. CASE on < q.off /\ q.on < off
  <2>1. PICK t \in Int : t = IF on <= q.on THEN q.on ELSE on
    BY <1>1
  <2>2. t \in q.on .. (q.off - 1) /\ t \in on .. (off - 1)
    BY <1>1, <1>10, <2>1
  <2>3. M(t) \in Nat /\ N(t) \in Nat
    BY <1>4, <2>2
  <2>4. PICK m, n : m = M(t) /\ n = N(t)
    OBVIOUS
  <2>5. lo - Padding(x, k) <= t /\ t < hi + Padding(x, k) /\ t - m <= t /\ t <= t + n
    BY <1>5, <2>1, <2>2, <2>3, <2>4
  <2> QED
    BY <1>6, <2>2, <2>4, <2>5
<1> QED
  BY <1>1, <1>8, <1>9, <1>10
------------------------------------------------------------------------------
(* A slot is a free part of the window, as long as was asked for. *)
SlotOf(x, lo, hi, least, w) ==
  /\ w[1] \in Nat /\ w[2] \in Nat /\ w = <<w[1], w[2]>>
  /\ lo <= w[1] /\ w[1] < w[2] /\ w[2] <= hi /\ w[2] - w[1] >= least
  /\ \A t \in w[1] .. (w[2] - 1) : t \in Free(x, lo, hi)

LEMMA SlotIs ==
  ASSUME NEW x, NEW lo \in Nat, NEW hi \in Nat, NEW least, NEW w \in Slots(x, lo, hi, least)
  PROVE  SlotOf(x, lo, hi, least, w)
<1> DEFINE free == Free(x, lo, hi)
<1>1. free \subseteq lo .. (hi - 1)
  BY DEF Free
<1>2. PICK a \in free : w = <<a, Min({b \in a .. hi : b \notin free})>> /\ w[2] - w[1] >= least
  BY DEF Slots
<1> DEFINE stops == {b \in a .. hi : b \notin free}
<1> HIDE DEF free
<1>3. a \in Nat /\ lo <= a /\ a < hi /\ hi \notin free /\ a \in free
  BY <1>1, <1>2
<1>4. stops \in SUBSET Nat /\ hi \in stops
  BY <1>3
<1>5. PICK b \in stops : \A n \in stops : b <= n
  <2> HIDE DEF stops
  <2> QED
    BY <1>4, LeastNumber
<1>6. Min(stops) \in stops /\ \A n \in stops : Min(stops) <= n
  <2> HIDE DEF stops
  <2> QED
    BY <1>5 DEF Min
<1>7. PICK e : e = Min(stops)
  OBVIOUS
<1>8. e \in Nat /\ a <= e /\ e <= hi /\ e \notin free /\ \A n \in stops : e <= n
  BY <1>3, <1>6, <1>7
<1>9. a < e
  BY <1>3, <1>8
<1>10. ASSUME NEW t \in a .. (e - 1) PROVE t \in free
  BY <1>3, <1>8, <1>10
<1>11. w[1] = a /\ w[2] = e /\ w = <<a, e>>
  BY <1>2, <1>7
<1> QED
  BY <1>2, <1>3, <1>8, <1>9, <1>10, <1>11 DEF SlotOf, free

LEMMA NextSlotIs ==
  ASSUME NEW x, NEW lo \in Nat, NEW hi \in Nat, NEW least, NEW j,
         NEW slots, slots = Slots(x, lo, hi, least), slots # {}
  PROVE  SlotOf(x, lo, hi, least, NextSlot(j, slots))
<1> DEFINE begins == {w[1] : w \in slots}
<1>1. \A w \in slots : SlotOf(x, lo, hi, least, w)
  BY SlotIs
<1>2. begins \in SUBSET Int /\ begins \subseteq lo .. hi /\ begins # {}
  BY <1>1 DEF SlotOf
<1>3. IsFiniteSet(begins)
  <2>1. IsFiniteSet(lo .. hi)
    BY FS_Interval
  <2> HIDE DEF begins
  <2> QED
    BY <1>2, <2>1, FS_Subset
<1>4. Max(begins) \in begins /\ Min(begins) \in begins
  <2> HIDE DEF begins
  <2> QED
    BY <1>2, <1>3, GreatestIsOne, LeastIsOne
<1>5. NextSlot(j, slots) \in slots
  <2>1. \E w \in slots : w[1] = IF Backward(j) THEN Max(begins) ELSE Min(begins)
    BY <1>4
  <2> QED
    BY <2>1 DEF NextSlot
<1> QED
  BY <1>1, <1>5
------------------------------------------------------------------------------
(* There is a first of what is to be placed, as Order tells stations apart. *)
LEMMA FirstIs ==
  ASSUME PlacementAssumption, NEW jobs \in SUBSET [stn : Stn, date : Nat], jobs # {}
  PROVE  First(jobs) \in jobs /\ First(jobs).stn \in Stn /\ First(jobs).date \in Nat
<1> DEFINE dates == {j.date : j \in jobs}
<1>1. PICK d \in dates : \A e \in dates : d <= e
  <2>1. dates \in SUBSET Nat /\ dates # {}
    OBVIOUS
  <2> HIDE DEF dates
  <2> QED
    BY <2>1, LeastNumber
<1> DEFINE places == {Order[j.stn] : j \in {i \in jobs : i.date = d}}
<1>2. PICK n \in places : \A m \in places : n <= m
  <2>1. places \in SUBSET Nat /\ places # {}
    BY <1>1 DEF PlacementAssumption
  <2> HIDE DEF places
  <2> QED
    BY <2>1, LeastNumber
<1>3. PICK j \in jobs : j.date = d /\ Order[j.stn] = n
  BY <1>2
<1>4. \A i \in jobs : j.date < i.date \/ (j.date = i.date /\ Order[j.stn] <= Order[i.stn])
  <2> SUFFICES ASSUME NEW i \in jobs
               PROVE  j.date < i.date \/ (j.date = i.date /\ Order[j.stn] <= Order[i.stn])
    OBVIOUS
  <2>1. d <= i.date /\ d \in Nat /\ i.date \in Nat
    BY <1>1
  <2>2. i.date = d => n <= Order[i.stn]
    BY <1>2
  <2> QED
    BY <1>3, <2>1, <2>2
<1>5. First(jobs) \in jobs
  BY <1>4 DEF First
<1> QED
  BY <1>5

(* The time of rows is a natural number. *)
LEMMA TimeIs ==
  ASSUME NEW S, IsFiniteSet(S), \A r \in S : r.on \in Nat /\ r.off \in Nat /\ r.on < r.off
  PROVE  TimeOf(S) \in Nat
<1> DEFINE f == [r \in S |-> r.off - r.on]
<1>1. IsFiniteSet(DOMAIN f) /\ \A r \in DOMAIN f : f[r] \in Nat
  OBVIOUS
<1>2. TimeOf(S) = SumFunction(f)
  BY DEF TimeOf
<1> HIDE DEF f
<1> QED
  BY <1>1, <1>2, SumIsNat

LEMMA RowsAre ==
  ASSUME IInv
  PROVE  /\ \A r \in rows : /\ r.stn \in Everyone /\ r.date \in Int
                            /\ r.on \in Nat /\ r.off \in Nat /\ r.on < r.off
         /\ \A S \in SUBSET rows : IsFiniteSet(S) /\ TimeOf(S) \in Nat
<1>1. \A r \in rows : /\ r.stn \in Everyone /\ r.date \in Int
                      /\ r.on \in Nat /\ r.off \in Nat /\ r.on < r.off
  BY DEF IInv, TypeOK, Row, Everyone
<1>2. ASSUME NEW S \in SUBSET rows PROVE IsFiniteSet(S) /\ TimeOf(S) \in Nat
  <2>1. IsFiniteSet(S)
    BY FS_Subset DEF IInv
  <2>2. \A r \in S : r.on \in Nat /\ r.off \in Nat /\ r.on < r.off
    BY <1>1
  <2> QED
    BY <2>1, <2>2, TimeIs
<1> QED
  BY <1>1, <1>2

LEMMA CumTimeIs == ASSUME IInv, NEW s, NEW d PROVE CumTime(s, d) \in Nat
<1>1. {r \in rows : r.stn = s /\ (cfg[s].qSingle \/ r.date = d)} \in SUBSET rows
  OBVIOUS
<1> QED
  BY <1>1, RowsAre DEF CumTime

LEMMA PgmDateIs == ASSUME IInv, NEW j, j.date \in Int PROVE PgmDate(j) \in Int
<1> DEFINE mine == {q \in rows : q.stn = j.stn}
<1> DEFINE dates == {r.date : r \in mine}
<1>1. IsFiniteSet(mine) /\ dates \in SUBSET Int
  <2>1. mine \in SUBSET rows
    OBVIOUS
  <2> QED
    BY <2>1, RowsAre
<1>2. IsFiniteSet(dates)
  <2> DEFINE g == [r \in mine |-> r.date]
  <2>1. dates = {g[r] : r \in mine} /\ DOMAIN g = mine
    OBVIOUS
  <2> HIDE DEF g, mine
  <2> QED
    BY <1>1, <2>1, ImageIsFinite
<1>3. dates # {} => Min(dates) \in Int
  <2> HIDE DEF dates
  <2> QED
    BY <1>1, <1>2, LeastIsOne
<1>4. PgmDate(j) = IF cfg[j.stn].qSingle /\ dates # {} THEN Min(dates) ELSE j.date
  BY DEF PgmDate
<1> HIDE DEF dates
<1> QED
  BY <1>3, <1>4
------------------------------------------------------------------------------
LEMMA LeastOfTwo ==
  ASSUME NEW a \in Int, NEW b \in Int
  PROVE  Min({a, b}) \in {a, b} /\ Min({a, b}) <= a /\ Min({a, b}) <= b
<1> DEFINE S == {a, b}
<1>1. S \in SUBSET Int /\ IsFiniteSet(S) /\ a \in S /\ b \in S
  BY FewAreFinite
<1>2. Min(S) \in S /\ \A y \in S : Min(S) <= y
  <2> HIDE DEF S
  <2> QED
    BY <1>1, LeastIsOne
<1> QED
  BY <1>2

LEMMA ShortestIs ==
  ASSUME PlacementAssumption, TypeOK, NEW s \in Stn
  PROVE  /\ Shortest(s) \in Nat /\ cfg[s].maxCycleTime \in Nat /\ cfg[s].minCycleTime \in Nat
         /\ cfg[s].maxCycleTime > 0 => Shortest(s) > 0
         /\ cfg[s].maxCycleTime < Shortest(s) => cfg[s].maxCycleTime < cfg[s].minCycleTime
<1> DEFINE a == cfg[s].minCycleTime
<1> DEFINE b == cfg[s].maxCycleTime
<1> DEFINE m == Min({MinCycle, b})
<1>1. a \in Nat /\ b \in Nat /\ MinCycle \in Nat /\ MinCycle > 0
  <2>1. StationOK(cfg[s])
    BY SettingsAre
  <2>2. MinCycle \in Nat \ {0}
    BY DEF PlacementAssumption
  <2> QED
    BY <2>1, <2>2 DEF StationOK
<1> HIDE DEF a, b
<1>2. m \in {MinCycle, b} /\ m <= MinCycle /\ m <= b
  <2>1. MinCycle \in Int /\ b \in Int
    BY <1>1
  <2> QED
    BY <2>1, LeastOfTwo
<1>3. {a, m} \in SUBSET Int /\ IsFiniteSet({a, m})
  <2>1. a \in Int /\ m \in Int
    BY <1>1, <1>2
  <2> HIDE DEF m
  <2> QED
    BY <2>1, FewAreFinite
<1>4. /\ Greatest({a, m}) \in Nat /\ Greatest({a, m}) \in {a, m} \cup {0}
      /\ a <= Greatest({a, m}) /\ m <= Greatest({a, m})
  <2> HIDE DEF m
  <2> QED
    BY <1>3, GreatestOf
<1>5. Shortest(s) = Greatest({a, m})
  BY DEF Shortest, a, b
<1> HIDE DEF m
<1>6. PICK n : n = Greatest({a, m})
  OBVIOUS
<1>7. n \in Nat /\ n \in {a, m, 0} /\ a <= n /\ m <= n
  BY <1>4, <1>6
<1>8. (b > 0 => n > 0) /\ (b < n => b < a)
  BY <1>1, <1>2, <1>7
<1> QED
  BY <1>1, <1>5, <1>6, <1>7, <1>8 DEF a, b

LEMMA TimeNeededIs ==
  ASSUME PlacementAssumption, IInv, NEW j, j.stn \in Stn
  PROVE  TimeNeeded(j) \in Int /\ TimeNeeded(j) <= cfg[j.stn].runTime /\ cfg[j.stn].runTime \in Nat
<1>1. cfg[j.stn].runTime \in Nat /\ CumTime(j.stn, PgmDate(j)) \in Nat
  BY CumTimeIs, SettingsAre DEF StationOK, IInv
<1> QED
  BY <1>1 DEF TimeNeeded

LEMMA LongestIs ==
  ASSUME PlacementAssumption, IInv, NEW j, j.stn \in Stn, NEW slot, slot[1] \in Nat, slot[2] \in Nat
  PROVE  /\ Longest(j, slot) \in {TimeNeeded(j), cfg[j.stn].maxCycleTime, slot[2] - slot[1]}
         /\ Longest(j, slot) \in Int /\ Longest(j, slot) <= TimeNeeded(j)
         /\ Longest(j, slot) <= cfg[j.stn].maxCycleTime /\ Longest(j, slot) <= slot[2] - slot[1]
<1> DEFINE S == {TimeNeeded(j), cfg[j.stn].maxCycleTime, slot[2] - slot[1]}
<1>1. TimeNeeded(j) \in Int /\ cfg[j.stn].maxCycleTime \in Int /\ slot[2] - slot[1] \in Int
  <2>1. StationOK(cfg[j.stn])
    BY SettingsAre DEF IInv
  <2>2. cfg[j.stn].maxCycleTime \in Nat
    BY <2>1 DEF StationOK
  <2>3. TimeNeeded(j) \in Int
    BY TimeNeededIs
  <2> QED
    BY <2>2, <2>3
<1>2. S \in SUBSET Int /\ IsFiniteSet(S) /\ S # {}
  BY <1>1, FewAreFinite
<1>3. Min(S) \in S /\ \A y \in S : Min(S) <= y
  <2> HIDE DEF S
  <2> QED
    BY <1>2, LeastIsOne
<1>4. Longest(j, slot) = Min(S)
  BY DEF Longest
<1>5. PICK m : m = Longest(j, slot)
  OBVIOUS
<1>6. m \in S /\ \A y \in S : m <= y
  BY <1>3, <1>4, <1>5
<1> HIDE DEF S
<1>7. m \in Int
  BY <1>2, <1>6
<1> QED
  BY <1>5, <1>6, <1>7 DEF S

(* A cycle is a part of the longest one, and not a short one, if not all of it. *)
LEMMA CycleIs ==
  ASSUME PlacementAssumption, IInv, NEW j, j.stn \in Stn, NEW slot, slot[1] \in Nat, slot[2] \in Nat,
         Longest(j, slot) > 0
  PROVE  /\ Cycle(j, slot) \in Nat /\ 0 < Cycle(j, slot) /\ Cycle(j, slot) <= Longest(j, slot)
         /\ Cycle(j, slot) = Longest(j, slot) \/ Cycle(j, slot) >= Shortest(j.stn)
<1>1. PICK least, need, longest, most :
        /\ least = Shortest(j.stn) /\ need = TimeNeeded(j) /\ longest = Longest(j, slot)
        /\ most = cfg[j.stn].maxCycleTime
  OBVIOUS
<1>2. /\ longest \in Int /\ longest > 0 /\ need \in Int /\ least \in Nat
      /\ longest <= most /\ most \in Nat /\ (most > 0 => least > 0)
  BY <1>1, LongestIs, TimeNeededIs, ShortestIs DEF IInv
<1>3. Cycle(j, slot) = IF 0 < need - longest /\ least - (need - longest) > 0
                          /\ longest - (least - (need - longest)) >= least
                       THEN longest - (least - (need - longest)) ELSE longest
  BY <1>1 DEF Cycle
<1>4. PICK c : c = Cycle(j, slot)
  OBVIOUS
<1>5. c \in Nat /\ 0 < c /\ c <= longest /\ (c = longest \/ c >= least)
  BY <1>2, <1>3, <1>4
<1> QED
  BY <1>1, <1>4, <1>5
------------------------------------------------------------------------------
(* What place_station does: either it drops the slot, or it adds a cycle    *)
(* within the slot; the window shrinks.                                    *)
Placed(j, on, off) ==
  /\ on \in Nat /\ off \in Nat /\ on < off /\ window[1] <= on /\ off <= window[2]
  /\ \A t \in on .. (off - 1) : t \in Free(j.stn, window[1], window[2])
  /\ off - on <= TimeNeeded(j) /\ off - on <= cfg[j.stn].maxCycleTime
  /\ \/ off - on >= Shortest(j.stn)
     \/ off - on = cfg[j.stn].runTime
     \/ cfg[j.stn].maxCycleTime < cfg[j.stn].minCycleTime

Shrinks(w, v) ==
  v \in Nat \X Nat /\ w[1] <= v[1] /\ v[2] - v[1] < w[2] - w[1]

(* The best cycle which there is is short only if it has to be.            *)
LEMMA ShortForAReason ==
  ASSUME PlacementAssumption, IInv, NEW j, j.stn \in Stn, ~ Over(j),
         NEW slot, SlotOf(j.stn, window[1], window[2], Min({Shortest(j.stn), TimeNeeded(j)}), slot),
         ~ TooSmall(j, slot), Longest(j, slot) < Shortest(j.stn)
  PROVE  \/ Longest(j, slot) = cfg[j.stn].runTime
         \/ cfg[j.stn].maxCycleTime < cfg[j.stn].minCycleTime
<1>1. PICK least, need, longest, most, run, len, atLeast :
        /\ least = Shortest(j.stn) /\ need = TimeNeeded(j) /\ longest = Longest(j, slot)
        /\ most = cfg[j.stn].maxCycleTime /\ run = cfg[j.stn].runTime
        /\ len = slot[2] - slot[1] /\ atLeast = Min({Shortest(j.stn), TimeNeeded(j)})
  OBVIOUS
<1>2. least \in Nat /\ most \in Nat /\ (most < least => most < cfg[j.stn].minCycleTime)
  BY <1>1, ShortestIs DEF IInv
<1>3. need \in Int /\ need <= run /\ run \in Nat
  BY <1>1, TimeNeededIs
<1>4. slot[1] \in Nat /\ slot[2] \in Nat /\ len >= atLeast
  BY <1>1 DEF SlotOf
<1>5. longest \in {need, most, len} /\ longest <= need /\ longest <= most /\ longest <= len /\ longest \in Int
  BY <1>1, <1>4, LongestIs
<1>6. atLeast \in {least, need}
  <2>1. least \in Int /\ need \in Int
    BY <1>2, <1>3
  <2> QED
    BY <1>1, <2>1, LeastOfTwo
<1>7. need <= least /\ need > 0 /\ (need < least => need >= run)
  BY <1>1, <1>2, <1>3 DEF Over, TooSmall, Whole
<1>8. longest = run \/ most < cfg[j.stn].minCycleTime
  <2>1. len \in Int
    BY <1>1, <1>4
  <2>2. CASE most < least
    BY <1>2, <2>2
  <2>3. CASE most >= least
    <3>1. longest = need
      BY <1>1, <1>2, <1>3, <1>4, <1>5, <1>6, <1>7, <2>1, <2>3
    <3>2. need < least
      BY <1>1, <3>1
    <3> QED
      BY <1>3, <1>7, <3>1, <3>2
  <2> QED
    BY <1>2, <2>2, <2>3
<1> QED
  BY <1>1, <1>8

LEMMA PlaceIs ==
  ASSUME PlacementAssumption, IInv, PlaceStation
  PROVE  /\ First(todo) \in todo /\ First(todo).stn \in Stn /\ First(todo).date \in Nat
         /\ window[1] < window[2] /\ Shrinks(window, window')
         /\ \/ rows' = rows
            \/ \E on, off : /\ Placed(First(todo), on, off)
                            /\ rows' = rows \cup {[stn |-> First(todo).stn, date |-> PgmDate(First(todo)),
                                                   on |-> on, off |-> off]}
<1>1. PICK j : j = First(todo)
  OBVIOUS
<1>2. j \in todo /\ j.stn \in Stn /\ j.date \in Nat
  <2>1. todo \in SUBSET [stn : Stn, date : Nat] /\ todo # {}
    BY DEF IInv, TypeOK, PlaceStation, Placing
  <2> QED
    BY <1>1, <2>1, FirstIs
<1>3. PICK slots : slots = SlotsLeft(j)
  OBVIOUS
<1>4. PICK slot : slot = NextSlot(j, slots)
  OBVIOUS
<1>5. /\ ~ Over(j) /\ ~ Stuck(j, slots)
      /\ \/ TooSmall(j, slot) /\ window' = Beyond(j, slot) /\ UNCHANGED rows
         \/ ~ TooSmall(j, slot) /\ Place(j, slot)
  BY <1>1, <1>3, <1>4 DEF PlaceStation
<1>6. window \in Nat \X Nat /\ window[1] \in Nat /\ window[2] \in Nat /\ window = <<window[1], window[2]>>
  BY DEF IInv, TypeOK
<1>7. window[1] < window[2]
  BY <1>5, <1>6 DEF Over
<1>8. slots # {}
  BY <1>5 DEF Stuck
<1> DEFINE least == Min({Shortest(j.stn), TimeNeeded(j)})
<1>9. SlotOf(j.stn, window[1], window[2], least, slot)
  <2>1. slots = Slots(j.stn, window[1], window[2], least)
    BY <1>3 DEF SlotsLeft
  <2> HIDE DEF least
  <2> QED
    BY <1>4, <1>6, <1>8, <2>1, NextSlotIs
<1>10. PICK a, b : a = slot[1] /\ b = slot[2]
  OBVIOUS
<1>11. /\ a \in Nat /\ b \in Nat /\ window[1] <= a /\ a < b /\ b <= window[2]
       /\ \A t \in a .. (b - 1) : t \in Free(j.stn, window[1], window[2])
  BY <1>9, <1>10 DEF SlotOf
<1>12. Longest(j, slot) \in Int /\ 0 < Longest(j, slot)
  <2>1. Longest(j, slot) \in Int
    BY <1>2, <1>10, <1>11, LongestIs
  <2>2. ~ (Longest(j, slot) <= 0)
    BY <1>4, <1>5 DEF Stuck
  <2> QED
    BY <2>1, <2>2
<1>13. CASE TooSmall(j, slot) /\ window' = Beyond(j, slot) /\ UNCHANGED rows
  <2>1. Shrinks(window, window')
    BY <1>6, <1>10, <1>11, <1>13 DEF Beyond, Shrinks
  <2> QED
    BY <1>1, <1>2, <1>7, <1>13, <2>1
<1>14. CASE ~ TooSmall(j, slot) /\ Place(j, slot)
  <2>1. PICK cycle, on, off :
          /\ cycle = Cycle(j, slot) /\ on = (IF Backward(j) THEN b - cycle ELSE a) /\ off = on + cycle
    OBVIOUS
  <2>2. /\ rows' = rows \cup {[stn |-> j.stn, date |-> PgmDate(j), on |-> on, off |-> off]}
        /\ window' = Rest(j, on, off)
    BY <1>10, <1>14, <2>1 DEF Place
  <2>3. PICK longest : longest = Longest(j, slot)
    OBVIOUS
  <2>4. /\ cycle \in Nat /\ 0 < cycle /\ cycle <= longest /\ longest \in Int
        /\ cycle = longest \/ cycle >= Shortest(j.stn)
    BY <1>2, <1>10, <1>11, <1>12, <2>1, <2>3, CycleIs
  <2>5. /\ longest <= TimeNeeded(j) /\ longest <= cfg[j.stn].maxCycleTime /\ longest <= b - a
        /\ TimeNeeded(j) \in Int /\ cfg[j.stn].maxCycleTime \in Nat /\ Shortest(j.stn) \in Nat
    <3>1. TimeNeeded(j) \in Int
      BY <1>2, TimeNeededIs
    <3>2. cfg[j.stn].maxCycleTime \in Nat /\ Shortest(j.stn) \in Nat
      BY <1>2, ShortestIs DEF IInv
    <3> QED
      BY <1>2, <1>10, <1>11, <2>3, <3>1, <3>2, LongestIs
  <2>6. on \in Nat /\ off \in Nat /\ off - on = cycle /\ a <= on /\ on < off /\ off <= b
    BY <1>11, <2>1, <2>4, <2>5
  <2>7. \/ cycle >= Shortest(j.stn)
        \/ cycle = cfg[j.stn].runTime
        \/ cfg[j.stn].maxCycleTime < cfg[j.stn].minCycleTime
    <3>1. CASE longest < Shortest(j.stn)
      <4>1. longest = cfg[j.stn].runTime \/ cfg[j.stn].maxCycleTime < cfg[j.stn].minCycleTime
        BY <1>2, <1>5, <1>9, <1>14, <2>3, <3>1, ShortForAReason
      <4> QED
        BY <2>4, <4>1
    <3>2. CASE ~ (longest < Shortest(j.stn))
      BY <2>4, <2>5, <3>2
    <3> QED
      BY <3>1, <3>2
  <2>8. Placed(j, on, off)
    <3>1. window[1] <= on /\ off <= window[2]
      BY <1>6, <1>11, <2>6
    <3>2. \A t \in on .. (off - 1) : t \in Free(j.stn, window[1], window[2])
      BY <1>11, <2>6
    <3>3. off - on <= TimeNeeded(j) /\ off - on <= cfg[j.stn].maxCycleTime
      BY <2>4, <2>5, <2>6
    <3> QED
      BY <2>6, <2>7, <3>1, <3>2, <3>3 DEF Placed
  <2>9. Shrinks(window, window')
    <3>1. PICK gap : gap = Gap(j.stn)
      OBVIOUS
    <3>2. gap \in Nat
      BY <1>2, <3>1, SettingsAre DEF IInv
    <3>3. CASE ~ Backward(j)
      <4>1. window' = <<off + gap, window[2]>>
        BY <2>2, <3>1, <3>3 DEF Rest
      <4> QED
        BY <1>6, <1>11, <2>6, <3>2, <4>1 DEF Shrinks
    <3>4. CASE Backward(j)
      <4>1. window' = <<window[1], Greatest({on - gap})>>
        BY <2>2, <3>1, <3>4 DEF Rest
      <4>2. on - gap \in Int
        BY <2>6, <3>2
      <4>3. Greatest({on - gap}) \in Nat /\ Greatest({on - gap}) \in {on - gap} \cup {0}
        <5> DEFINE Z == {on - gap}
        <5>1. Z \in SUBSET Int /\ IsFiniteSet(Z)
          BY <4>2, FS_Singleton
        <5> HIDE DEF Z
        <5>2. Greatest(Z) \in Nat /\ Greatest(Z) \in Z \cup {0}
          BY <5>1, GreatestOf
        <5> QED
          BY <5>2 DEF Z
      <4>4. PICK g : g = Greatest({on - gap})
        OBVIOUS
      <4>5. g \in Nat /\ g < window[2]
        BY <1>6, <1>11, <2>6, <3>2, <4>3, <4>4
      <4> QED
        BY <1>6, <4>1, <4>4, <4>5 DEF Shrinks
    <3> QED
      BY <3>3, <3>4
  <2> QED
    BY <1>1, <1>2, <1>7, <2>2, <2>8, <2>9
<1> QED
  BY <1>5, <1>13, <1>14
------------------------------------------------------------------------------
(* What becomes of rows when some are ended or dropped: each of T is one of *)
(* R, and another each, which lasts no longer.                             *)
From(p, R, T) ==
  /\ p \in [T -> R] /\ IsInjective(p)
  /\ \A y \in T : /\ y.stn = p[y].stn /\ y.date = p[y].date
                  /\ y.on = p[y].on /\ y.off <= p[y].off

RowsOK(R) == IsFiniteSet(R) /\ \A r \in R : r \in Row /\ r.on < r.off
Fewer(R, T) == RowsOK(T) /\ \E p : From(p, R, T)

LEMMA Dropped ==
  ASSUME NEW R, NEW T, Fewer(R, T), NEW U \in SUBSET T
  PROVE  Fewer(R, U)
<1>1. RowsOK(U)
  BY FS_Subset DEF Fewer, RowsOK
<1>2. PICK p : From(p, R, T)
  BY DEF Fewer
<1> DEFINE q == [y \in U |-> p[y]]
<1>3. From(q, R, U)
  BY <1>2 DEF From, IsInjective
<1> QED
  BY <1>1, <1>3 DEF Fewer

LEMMA AsTheyAre == ASSUME NEW R, RowsOK(R) PROVE Fewer(R, R)
<1> DEFINE p == [y \in R |-> y]
<1>1. From(p, R, R)
  BY DEF From, IsInjective, RowsOK, Row
<1> QED
  BY <1>1 DEF Fewer

LEMMA EndedAre ==
  ASSUME IInv, NEW S \in SUBSET On, NEW X \in SUBSET rows, X \cap S = {}
  PROVE  Fewer(rows \ X, Ended(S) \ X)
<1> DEFINE cut(q) == [q EXCEPT !.off = now]
<1> DEFINE T == Ended(S) \ X
<1> DEFINE origin(y) == CHOOSE q \in S : q.on < now /\ y = cut(q)
<1> DEFINE p == [y \in T |-> IF y \in rows \ S THEN y ELSE origin(y)]
<1>1. now \in Nat /\ IsFiniteSet(rows) /\ \A r \in rows : r \in Row /\ r.on < r.off
  BY DEF IInv, TypeOK
<1>2. S \in SUBSET rows /\ \A q \in S : q.on <= now /\ now < q.off
  BY DEF On
<1>3. \A q \in rows : /\ cut(q) \in Row /\ cut(q).stn = q.stn /\ cut(q).date = q.date
                      /\ cut(q).on = q.on /\ cut(q).off = now
  BY <1>1 DEF Row
<1> HIDE DEF cut
<1>4. Ended(S) = (rows \ S) \cup {cut(r) : r \in {q \in S : q.on < now}}
  BY DEF Ended, cut
<1>5. IsFiniteSet(T)
  <2> DEFINE late == {q \in S : q.on < now}
  <2> DEFINE g == [q \in late |-> cut(q)]
  <2>1. IsFiniteSet(rows \ S) /\ IsFiniteSet(late)
    BY <1>1, <1>2, FS_Subset
  <2>2. {cut(r) : r \in late} = {g[r] : r \in late} /\ DOMAIN g = late
    OBVIOUS
  <2>3. IsFiniteSet({cut(r) : r \in late})
    <3> HIDE DEF g, late
    <3> QED
      BY <2>1, <2>2, ImageIsFinite
  <2>4. IsFiniteSet(Ended(S))
    BY <1>4, <2>1, <2>3, FS_Union
  <2>5. T \subseteq Ended(S)
    OBVIOUS
  <2> HIDE DEF T
  <2> QED
    BY <2>4, <2>5, FS_Subset
<1>6. ASSUME NEW y \in T, y \notin rows \ S
      PROVE  origin(y) \in S /\ origin(y).on < now /\ y = cut(origin(y))
  <2>1. \E q \in S : q.on < now /\ y = cut(q)
    BY <1>4, <1>6
  <2> QED
    BY <2>1
<1> HIDE DEF origin
<1>7. ASSUME NEW y \in T
      PROVE  /\ y \in Row /\ y.on < y.off /\ p[y] \in rows \ X
             /\ y.stn = p[y].stn /\ y.date = p[y].date /\ y.on = p[y].on /\ y.off <= p[y].off
  <2>1. CASE y \in rows \ S
    <3>1. p[y] = y /\ y \notin X
      BY <2>1
    <3>2. y \in Row /\ y.on < y.off /\ y.off <= y.off
      BY <1>1, <2>1 DEF Row
    <3> QED
      BY <2>1, <3>1, <3>2
  <2>2. CASE y \notin rows \ S
    <3>1. PICK q \in S : q = p[y] /\ q.on < now /\ y = cut(q)
      BY <1>6, <2>2
    <3>2. /\ q \in rows /\ q \notin X /\ now < q.off /\ q \in Row
      BY <1>1, <1>2, <3>1
    <3>3. y \in Row /\ y.stn = q.stn /\ y.date = q.date /\ y.on = q.on /\ y.off = now
      BY <1>3, <3>1, <3>2
    <3>4. y.on < y.off /\ y.off <= q.off
      BY <1>1, <3>1, <3>2, <3>3 DEF Row
    <3> QED
      BY <3>1, <3>2, <3>3, <3>4
  <2> QED
    BY <2>1, <2>2
<1>8. IsInjective(p)
  <2>1. ASSUME NEW y \in T, NEW z \in T, p[y] = p[z] PROVE y = z
    <3>1. (y \in rows \ S => p[y] = y) /\ (y \notin rows \ S => p[y] \in S /\ y = cut(p[y]))
      BY <1>6
    <3>2. (z \in rows \ S => p[z] = z) /\ (z \notin rows \ S => p[z] \in S /\ z = cut(p[z]))
      BY <1>6
    <3> HIDE DEF p
    <3> QED
      BY <2>1, <3>1, <3>2
  <2> QED
    BY <2>1 DEF IsInjective
<1>9. From(p, rows \ X, T)
  <2>1. p \in [T -> rows \ X]
    BY <1>7
  <2> HIDE DEF p, T
  <2> QED
    BY <1>7, <1>8, <2>1 DEF From
<1>10. RowsOK(T)
  <2> HIDE DEF p, T
  <2> QED
    BY <1>5, <1>7 DEF RowsOK
<1> QED
  BY <1>9, <1>10 DEF Fewer

LEMMA DatesAreFinite == ASSUME NEW S, IsFiniteSet(S) PROVE IsFiniteSet({r.date : r \in S})
<1> DEFINE g == [r \in S |-> r.date]
<1>1. {r.date : r \in S} = {g[r] : r \in S} /\ DOMAIN g = S
  OBVIOUS
<1> HIDE DEF g
<1> QED
  BY <1>1, ImageIsFinite

(* The master valve is on from now, or from when it went on, until later;  *)
(* what its point of connection would have on meanwhile ends or is dropped.*)
ShutRows == {r \in On : r.stn = Master}
ShutsFor(time, rest, m) ==
  /\ Fewer(rows \ ShutRows, rest) /\ rows' = rest \cup {m}
  /\ m \in Row /\ m.stn = Master /\ m.on <= now /\ m.off = now + time
  /\ m.on < now => \E s \in ShutRows : s.on = m.on
  /\ \A q \in rest : (q.stn = Master \/ cfg[q.stn].poc = cfg[Master].poc) =>
       q.off <= now \/ now + time <= q.on

LEMMA PocOffIs ==
  ASSUME PlacementAssumption, IInv, PocOff
  PROVE  \E time \in Nat \ {0} : \E rest, m : ShutsFor(time, rest, m)
<1> DEFINE here == {r \in rows : r.stn # Master /\ cfg[r.stn].poc = cfg[Master].poc}
<1> DEFINE dropped(time) == {r \in here \cap Pending : r.on < now + time}
<1> DEFINE rest(time) == Ended(here \cap On) \ (dropped(time) \cup ShutRows)
<1> DEFINE m(time) == [stn |-> Master, date |-> Min({Today} \cup {r.date : r \in ShutRows}),
                       on |-> Min({now} \cup {r.on : r \in ShutRows}), off |-> now + time]
<1>1. PICK time \in ShutFor : rows' = rest(time) \cup {m(time)}
  BY DEF PocOff, ShutRows
<1>2. time \in Nat \ {0} /\ DayLen \in Nat \ {0} /\ now \in Nat
  BY DEF PlacementAssumption, IInv, TypeOK
<1>3. \A r \in rows : r \in Row /\ r.on < r.off /\ (r.stn = Master => r.on <= now)
  BY DEF IInv, TypeOK, MasterHasBegun
<1>4. ShutRows \in SUBSET rows /\ here \cap On \in SUBSET On /\ On \subseteq rows
  BY DEF ShutRows, On
<1>5. Fewer(rows \ ShutRows, rest(time))
  <2>1. ShutRows \cap (here \cap On) = {}
    BY DEF ShutRows
  <2> DEFINE H == here \cap On
  <2>2. Fewer(rows \ ShutRows, Ended(H) \ ShutRows)
    <3> HIDE DEF H
    <3>1. H \in SUBSET On /\ ShutRows \cap H = {}
      BY <1>4, <2>1 DEF H
    <3> QED
      BY <1>4, <3>1, EndedAre
  <2>3. rest(time) \in SUBSET (Ended(H) \ ShutRows)
    OBVIOUS
  <2> HIDE DEF rest, H
  <2> QED
    BY <2>2, <2>3, Dropped
<1>6. IsFiniteSet(ShutRows)
  BY <1>4, FS_Subset DEF IInv
<1>7. m(time).date \in Int
  <2> DEFINE Z == {Today} \cup {r.date : r \in ShutRows}
  <2>1. Today \in Int
    BY <1>2 DEF Today
  <2>2. IsFiniteSet({r.date : r \in ShutRows})
    BY <1>6, DatesAreFinite
  <2>3. IsFiniteSet(Z)
    <3>1. PICK D : D = {r.date : r \in ShutRows}
      OBVIOUS
    <3>2. IsFiniteSet({Today}) /\ IsFiniteSet(D)
      BY <2>2, <3>1, FS_Singleton
    <3>3. IsFiniteSet({Today} \cup D)
      BY <3>2, FS_Union
    <3> QED
      BY <3>1, <3>3
  <2>4. Z \in SUBSET Int /\ Z # {}
    BY <1>3, <1>4, <2>1 DEF Row
  <2> HIDE DEF Z
  <2>5. Min(Z) \in Int
    BY <2>3, <2>4, LeastIsOne
  <2> QED
    BY <2>5 DEF Z
<1>8. /\ m(time).on \in Nat /\ m(time).on <= now
      /\ m(time).on < now => \E s \in ShutRows : s.on = m(time).on
  <2> DEFINE Z == {now} \cup {r.on : r \in ShutRows}
  <2>1. Z \in SUBSET Nat /\ Z # {}
    BY <1>2, <1>3, <1>4 DEF Row
  <2>2. PICK n \in Z : \A e \in Z : n <= e
    <3> HIDE DEF Z
    <3> QED
      BY <2>1, LeastNumber
  <2>3. Min(Z) \in Z /\ \A e \in Z : Min(Z) <= e
    <3> HIDE DEF Z
    <3> QED
      BY <2>2 DEF Min
  <2>4. m(time).on = Min(Z)
    OBVIOUS
  <2>5. PICK a : a = Min(Z)
    OBVIOUS
  <2>6. a \in Nat /\ a <= now /\ (a < now => \E s \in ShutRows : s.on = a)
    BY <1>2, <2>1, <2>3, <2>5
  <2> HIDE DEF m
  <2> QED
    BY <2>4, <2>5, <2>6
<1>9. m(time) \in Row /\ m(time).stn = Master /\ m(time).off = now + time
  <2>1. m(time).stn = Master /\ m(time).off = now + time /\ now + time \in Nat
    BY <1>2
  <2>2. PICK d, a : d = m(time).date /\ a = m(time).on /\ m(time) = [stn |-> Master, date |-> d, on |-> a, off |-> now + time]
    OBVIOUS
  <2> HIDE DEF m
  <2> QED
    BY <1>7, <1>8, <2>1, <2>2 DEF Row
<1>10. ASSUME NEW q \in rest(time), q.stn = Master \/ cfg[q.stn].poc = cfg[Master].poc
       PROVE  q.off <= now \/ now + time <= q.on
  <2>1. CASE q \in rows /\ q \notin here \cap On
    <3>1. q.on \in Nat /\ q.off \in Nat /\ (q.stn = Master => q.on <= now)
      BY <1>3, <2>1 DEF Row
    <3>2. CASE q \in here
      BY <1>2, <1>10, <2>1, <3>1, <3>2 DEF On, Pending
    <3>3. CASE q.stn = Master
      BY <1>2, <1>10, <2>1, <3>1, <3>3 DEF On, ShutRows
    <3> QED
      BY <1>10, <2>1, <3>2, <3>3
  <2>2. CASE \E r \in here \cap On : q = [r EXCEPT !.off = now]
    <3>1. PICK r \in rows : q = [r EXCEPT !.off = now]
      BY <2>2
    <3>2. r \in Row
      BY <1>3
    <3>3. q.off = now
      BY <3>1, <3>2 DEF Row
    <3> QED
      BY <1>2, <3>3
  <2> QED
    BY <2>1, <2>2 DEF Ended
<1> HIDE DEF rest, m
<1>11. ShutsFor(time, rest(time), m(time))
  BY <1>1, <1>5, <1>8, <1>9, <1>10 DEF ShutsFor
<1> QED
  BY <1>2, <1>11
------------------------------------------------------------------------------
(* The window of what is first begins no earlier than the rebuild may. *)
LEMMA WindowIs ==
  ASSUME PlacementAssumption, TypeOK, NEW jobs \in SUBSET [stn : Stn, date : Nat]
  PROVE  /\ FirstWindow(jobs) \in Nat \X Nat
         /\ FirstWindow(jobs)[1] < FirstWindow(jobs)[2] => now + CleanTime <= FirstWindow(jobs)[1]
<1>1. CASE jobs = {}
  BY <1>1 DEF FirstWindow
<1>2. CASE jobs # {}
  <2>1. PICK j : j = First(jobs) /\ j.stn \in Stn /\ j.date \in Nat
    BY <1>2, FirstIs
  <2>2. /\ now \in Nat /\ CleanTime \in Nat /\ DayLen \in Nat
        /\ cfg[j.stn].startTime \in Nat /\ cfg[j.stn].endTime \in Nat
    <3>1. StationOK(cfg[j.stn])
      BY <2>1, SettingsAre
    <3> QED
      BY <3>1 DEF PlacementAssumption, TypeOK, StationOK
  <2>3. PICK at, end, from, add : /\ at = StartOf(j) /\ end = EndOf(j)
                                  /\ from = Greatest({StartOf(j), now + CleanTime})
                                  /\ add = IF cfg[j.stn].qSingle THEN DayLen ELSE 0
    OBVIOUS
  <2>4. j.date * DayLen \in Nat
    BY <2>1, <2>2
  <2>5. at \in Int /\ end \in Nat /\ add \in Nat
    BY <2>2, <2>3, <2>4 DEF StartOf, EndOf
  <2>6. from \in Nat /\ now + CleanTime <= from
    <3> DEFINE Z == {at, now + CleanTime}
    <3>1. now + CleanTime \in Int
      BY <2>2
    <3>2. Z \in SUBSET Int /\ IsFiniteSet(Z) /\ now + CleanTime \in Z
      BY <2>5, <3>1, FewAreFinite
    <3>3. Greatest(Z) \in Nat /\ \A y \in Z : y <= Greatest(Z)
      <4> HIDE DEF Z
      <4> QED
        BY <3>2, GreatestOf
    <3>4. from = Greatest(Z)
      BY <2>3
    <3> QED
      BY <3>2, <3>3, <3>4
  <2>7. FirstWindow(jobs) = IF from < end THEN <<from, end + add>> ELSE <<0, 0>>
    BY <1>2, <2>1, <2>3 DEF FirstWindow, WindowOf
  <2> QED
    BY <2>5, <2>6, <2>7
<1> QED
  BY <1>1, <1>2

LEMMA IInvRows == ASSUME IInv PROVE RowsOK(rows)
BY DEF IInv, TypeOK, RowsOK

(* What a step may do to the rows. *)
LEMMA RowsStep ==
  ASSUME PlacementAssumption, IInv, [Next]_vars
  PROVE  /\ cfg' = cfg /\ uses' = uses /\ now' \in now .. MaxTime[cfg] /\ gone \subseteq gone'
         /\ \/ Fewer(rows, rows')
            \/ PlaceStation
            \/ now' = now /\ \E time \in Nat \ {0} : \E rest, m : ShutsFor(time, rest, m)
<1>1. now \in Nat /\ MaxTime[cfg] \in Nat /\ now <= MaxTime[cfg]
  BY DEF IInv, TypeOK, PlacementAssumption
<1>2. Fewer(rows, rows)
  BY IInvRows, AsTheyAre
<1>3. CASE NextStation \/ Tick \/ UNCHANGED vars
  BY <1>1, <1>2, <1>3 DEF NextStation, Tick, vars
<1>4. CASE PlaceStation
  BY <1>1, <1>4 DEF PlaceStation
<1>5. CASE Rebuild
  <2>1. rows' \in SUBSET rows /\ UNCHANGED <<cfg, uses, now, gone>>
    BY <1>5 DEF Rebuild, Kept
  <2> QED
    BY <1>1, <1>2, <2>1, Dropped
<1>6. CASE ManualOff
  <2>1. PICK r \in On : rows' = Ended({r})
    BY <1>6 DEF ManualOff
  <2>2. Fewer(rows \ {}, Ended({r}) \ {})
    BY EndedAre
  <2>3. rows \ {} = rows /\ Ended({r}) \ {} = Ended({r})
    OBVIOUS
  <2>4. Fewer(rows, rows')
    BY <2>1, <2>2, <2>3
  <2> QED
    BY <1>1, <1>6, <2>4 DEF ManualOff, Change
<1>7. CASE RemovePending
  <2>1. rows' \in SUBSET rows /\ UNCHANGED <<cfg, uses, now, gone>>
    BY <1>7 DEF RemovePending, Change
  <2> QED
    BY <1>1, <1>2, <2>1, Dropped
<1>8. CASE PocOff
  <2>1. UNCHANGED <<cfg, uses, now, gone>>
    BY <1>8 DEF PocOff, Change
  <2> QED
    BY <1>1, <1>8, <2>1, PocOffIs
<1> QED
  BY <1>3, <1>4, <1>5, <1>6, <1>7, <1>8 DEF Next

(* The rows keep their types, and a master valve is not planned to go on. *)
LEMMA RowsStayOK ==
  ASSUME PlacementAssumption, IInv, [Next]_vars
  PROVE  RowsOK(rows') /\ MasterHasBegun'
<1>1. cfg' = cfg /\ now' \in Int /\ now <= now' /\ now \in Nat
  <2>1. cfg' = cfg /\ now' \in now .. MaxTime[cfg]
    BY RowsStep
  <2>2. now \in Nat
    BY DEF IInv, TypeOK
  <2> QED
    BY <2>1, <2>2
<1>2. \A r \in rows : r \in Row /\ r.on < r.off /\ (r.stn = Master => r.on <= now)
  BY DEF IInv, TypeOK, MasterHasBegun
<1>3. CASE Fewer(rows, rows')
  <2>1. RowsOK(rows')
    BY <1>3 DEF Fewer
  <2>2. PICK p : From(p, rows, rows')
    BY <1>3 DEF Fewer
  <2>3. ASSUME NEW r \in rows', r.stn = Master PROVE r.on <= now'
    <3>1. p[r] \in rows /\ p[r].stn = Master /\ r.on = p[r].on
      BY <2>2, <2>3 DEF From
    <3>2. p[r].on \in Nat /\ p[r].on <= now
      BY <1>2, <3>1 DEF Row
    <3> QED
      BY <1>1, <3>1, <3>2
  <2> QED
    BY <2>1, <2>3 DEF MasterHasBegun
<1>4. CASE PlaceStation
  <2>1. CASE rows' = rows
    BY <1>1, <1>2, <2>1, IInvRows DEF MasterHasBegun, Row
  <2>2. CASE rows' # rows
    <3>1. PICK on, off : /\ Placed(First(todo), on, off) /\ First(todo).stn \in Stn
                         /\ First(todo).date \in Nat
                         /\ rows' = rows \cup {[stn |-> First(todo).stn, date |-> PgmDate(First(todo)),
                                                on |-> on, off |-> off]}
      BY <1>4, <2>2, PlaceIs
    <3>2. PICK r : r = [stn |-> First(todo).stn, date |-> PgmDate(First(todo)), on |-> on, off |-> off]
      OBVIOUS
    <3>3. PgmDate(First(todo)) \in Int
      BY <3>1, PgmDateIs
    <3>4. r \in Row /\ r.on < r.off /\ r.stn \in Stn
      BY <3>1, <3>2, <3>3 DEF Row, Placed
    <3>5. IsFiniteSet(rows')
      BY <3>1, FS_AddElement DEF IInv
    <3>6. RowsOK(rows')
      BY <1>2, <3>1, <3>2, <3>4, <3>5 DEF RowsOK
    <3>7. r.stn # Master
      BY <3>4 DEF PlacementAssumption
    <3>8. \A q \in rows : q.stn = Master => q.on <= now'
      BY <1>1, <1>2 DEF Row
    <3> QED
      BY <3>1, <3>2, <3>6, <3>7, <3>8 DEF MasterHasBegun
  <2> QED
    BY <2>1, <2>2
<1>5. CASE now' = now /\ \E time \in Nat \ {0} : \E rest, m : ShutsFor(time, rest, m)
  <2>0. PICK time \in Nat \ {0} : \E rest, m : ShutsFor(time, rest, m)
    BY <1>5
  <2>1. PICK rest, m : ShutsFor(time, rest, m)
    BY <2>0
  <2>2. RowsOK(rest) /\ m \in Row /\ m.on <= now /\ m.off = now + time /\ rows' = rest \cup {m}
    BY <2>1 DEF ShutsFor, Fewer
  <2>3. m.on < m.off
    BY <1>1, <2>2 DEF Row
  <2>4. RowsOK(rows')
    BY <2>2, <2>3, FS_AddElement DEF RowsOK
  <2>5. PICK p : From(p, rows \ ShutRows, rest)
    BY <2>1 DEF ShutsFor, Fewer
  <2>6. ASSUME NEW r \in rest, r.stn = Master PROVE r.on <= now
    <3>1. p[r] \in rows /\ p[r].stn = Master /\ r.on = p[r].on
      BY <2>5, <2>6 DEF From
    <3> QED
      BY <1>2, <3>1
  <2> QED
    BY <1>5, <2>2, <2>4, <2>6 DEF MasterHasBegun
<1> QED
  BY <1>3, <1>4, <1>5, RowsStep

LEMMA IInvInit == PlacementAssumption /\ Init => IInv
<1> SUFFICES ASSUME PlacementAssumption, Init PROVE IInv
  OBVIOUS
<1>1. 0 \in 0 .. MaxTime[cfg] /\ 0 \in 0 .. MaxChanges
  BY DEF Init, PlacementAssumption
<1>2. TypeOK
  BY <1>1 DEF Init, TypeOK, NoPlan
<1>3. IsFiniteSet(rows)
  BY FS_EmptySet DEF Init
<1> QED
  BY <1>2, <1>3 DEF Init, IInv, Usages, Everyone, MasterHasBegun, WindowAhead, Placing

LEMMA IInvStep ==
  ASSUME PlacementAssumption, IInv, [Next]_vars
  PROVE  IInv'
<1>1. RowsOK(rows') /\ MasterHasBegun' /\ cfg' = cfg /\ uses' = uses /\ now' \in now .. MaxTime[cfg]
  BY RowsStep, RowsStayOK
<1>2. TypeOK /\ WindowAhead /\ now \in Nat
  BY DEF IInv, TypeOK
<1>3. Usages' /\ cfg' \in Settings /\ now' \in 0 .. MaxTime[cfg']
  BY <1>1, <1>2 DEF IInv, Usages, TypeOK
<1>4. (\A r \in rows' : r \in Row /\ r.on < r.off) /\ IsFiniteSet(rows')
  BY <1>1 DEF RowsOK
<1>5. changes' \in 0 .. MaxChanges /\ gone' \subseteq Stn
  <2>1. CASE NextStation \/ PlaceStation \/ Rebuild \/ Tick \/ UNCHANGED vars
    BY <1>2, <2>1 DEF TypeOK, NextStation, PlaceStation, Rebuild, Tick, vars
  <2>2. CASE Change
    BY <1>2, <2>2 DEF TypeOK, Change, PlacementAssumption
  <2> QED
    BY <2>1, <2>2 DEF Next, ManualOff, RemovePending, PocOff
<1>6. /\ todo' \subseteq [stn : Stn, date : Nat] /\ window' \in Nat \X Nat
      /\ WindowAhead'
  <2>1. CASE NextStation
    <3>1. /\ todo' \subseteq [stn : Stn, date : Nat] /\ window' = FirstWindow(todo') /\ now' = now
      BY <1>2, <2>1 DEF NextStation, TypeOK
    <3> QED
      BY <1>2, <3>1, WindowIs DEF WindowAhead
  <2>2. CASE PlaceStation
    <3>1. window[1] < window[2] /\ Shrinks(window, window') /\ todo' = todo /\ now' = now /\ Placing
      BY <2>2, PlaceIs DEF PlaceStation
    <3>2. now + CleanTime <= window[1] /\ CleanTime \in Nat /\ window \in Nat \X Nat
      BY <1>2, <3>1 DEF WindowAhead, PlacementAssumption, TypeOK
    <3>3. window' \in Nat \X Nat /\ window[1] <= window'[1]
      BY <3>1 DEF Shrinks
    <3>4. now + CleanTime <= window'[1]
      BY <1>2, <3>2, <3>3
    <3> QED
      BY <1>2, <3>1, <3>3, <3>4 DEF WindowAhead, TypeOK
  <2>3. CASE Rebuild
    <3>1. Today \in Nat /\ NDays \in Nat
      BY <1>2 DEF Today, PlacementAssumption
    <3>2. Jobs \subseteq [stn : Stn, date : Nat]
      BY <3>1 DEF Jobs
    <3>3. todo' = Jobs /\ window' = FirstWindow(Jobs) /\ now' = now
      BY <2>3 DEF Rebuild
    <3> QED
      BY <1>2, <3>2, <3>3, WindowIs DEF WindowAhead
  <2>4. CASE Tick \/ Change
    BY <1>2, <2>4 DEF Tick, Change, TypeOK, WindowAhead, Placing
  <2>5. CASE UNCHANGED vars
    BY <1>2, <2>5 DEF vars, TypeOK, WindowAhead, Placing
  <2> QED
    BY <2>1, <2>2, <2>3, <2>4, <2>5 DEF Next, ManualOff, RemovePending, PocOff
<1>7. \A p \in plan' : plan' = {p} /\ \A r \in p : r \in Row
  <2>1. CASE plan' = plan \/ plan' = NoPlan
    BY <1>2, <2>1 DEF TypeOK, NoPlan
  <2>2. CASE plan' = {rows} \/ plan' = {Kept}
    <3>1. (\A r \in rows : r \in Row) /\ (\A r \in Kept : r \in Row)
      BY <1>2 DEF TypeOK, Kept
    <3>2. PICK R : plan' = {R} /\ \A r \in R : r \in Row
      BY <2>2, <3>1
    <3> QED
      BY <3>2
  <2>3. CASE Change
    BY <2>1, <2>3 DEF Change
  <2>4. CASE NextStation \/ PlaceStation \/ Rebuild \/ Tick \/ UNCHANGED vars
    <3>1. plan' = plan \/ plan' = {rows} \/ plan' = {Kept}
      BY <2>4 DEF NextStation, PlaceStation, Rebuild, Tick, vars
    <3> QED
      BY <2>1, <2>2, <3>1
  <2> QED
    BY <2>3, <2>4 DEF Next, ManualOff, RemovePending, PocOff
<1>8. TypeOK'
  BY <1>3, <1>4, <1>5, <1>6, <1>7 DEF TypeOK
<1> QED
  BY <1>1, <1>3, <1>4, <1>6, <1>8 DEF IInv
------------------------------------------------------------------------------
LEMMA DivGrows ==
  ASSUME NEW d \in Nat \ {0}, NEW a \in Nat, NEW b \in Nat, a <= b
  PROVE  a \div d \in Int /\ b \div d \in Int /\ a \div d <= b \div d
<1>1. a \div d \in Int /\ b \div d \in Int
  OBVIOUS
<1>2. PICK m \in Int, n \in Int : m = a \div d /\ n = b \div d
  BY <1>1
<1>3. d * m <= a /\ b < d * n + d
  BY <1>2
<1>4. ASSUME n < m PROVE FALSE
  <2>1. PICK e \in Int : e = m - n - 1 /\ 0 <= e
    BY <1>4
  <2>2. d * m = d * n + d + d * e /\ 0 <= d * e
    BY <2>1
  <2> QED
    BY <1>3, <2>2
<1> QED
  BY <1>2, <1>4

(* Soak times, for given rows, at a given time. *)
ReadIn(c, G, n, r) ==
  r.off > n \/ r.date >= (n \div DayLen) - 1 \/ (r.stn \in Stn \ G /\ c[r.stn].qSingle)
GapIn(c, x) == Greatest({c[x].soakTime, c[x].delayOn, c[x].delayOff})
SoakIn(c, G, n, r) == IF ReadIn(c, G, n, r) THEN GapIn(c, r.stn) ELSE 0
SoakedIn(c, G, n, R) ==
  \A q \in R, r \in R :
    (q # r /\ Master \notin {q.stn, r.stn} /\ c[q.stn].sensor = c[r.stn].sensor)
      => q.off + SoakIn(c, G, n, q) <= r.on \/ r.off + SoakIn(c, G, n, r) <= q.on
SoakedInv == SoakedIn(cfg, gone, now, rows)

(* What lasts no longer is not read for longer, and nothing is read again. *)
LEMMA SoakShrinks ==
  ASSUME PlacementAssumption, IInv, NEW G, gone \subseteq G, NEW n \in Nat, now <= n,
         NEW a \in Row, NEW q \in Row, q.stn \in Stn,
         q.stn = a.stn, q.date = a.date, q.off <= a.off
  PROVE  /\ SoakIn(cfg, G, n, q) \in Nat /\ SoakIn(cfg, gone, now, a) \in Nat
         /\ SoakIn(cfg, G, n, q) <= SoakIn(cfg, gone, now, a)
<1>1. GapIn(cfg, q.stn) \in Nat
  BY SettingsAre DEF IInv, GapIn, Gap
<1>2. PICK g \in Nat : g = GapIn(cfg, q.stn) /\ g = GapIn(cfg, a.stn)
  BY <1>1
<1>3. ASSUME ReadIn(cfg, G, n, q) PROVE ReadIn(cfg, gone, now, a)
  <2>1. CASE q.off > n
    BY <2>1 DEF ReadIn, Row, IInv, TypeOK
  <2>2. CASE q.date >= (n \div DayLen) - 1
    <3>1. now \in Nat /\ DayLen \in Nat \ {0}
      BY DEF IInv, TypeOK, PlacementAssumption
    <3>2. PICK x \in Int, y \in Int : x = now \div DayLen /\ y = n \div DayLen /\ x <= y
      BY <3>1, DivGrows
    <3>3. a.date \in Int /\ a.date >= y - 1
      BY <2>2, <3>2 DEF Row
    <3>4. a.date >= x - 1
      BY <3>2, <3>3
    <3> QED
      BY <3>2, <3>4 DEF ReadIn
  <2>3. CASE q.stn \in Stn \ G /\ cfg[q.stn].qSingle
    BY <2>3 DEF ReadIn
  <2> QED
    BY <1>3, <2>1, <2>2, <2>3 DEF ReadIn
<1>4. /\ SoakIn(cfg, G, n, q) = IF ReadIn(cfg, G, n, q) THEN g ELSE 0
      /\ SoakIn(cfg, gone, now, a) = IF ReadIn(cfg, gone, now, a) THEN g ELSE 0
  BY <1>2 DEF SoakIn
<1> QED
  BY <1>3, <1>4

LEMMA FewerSoak ==
  ASSUME PlacementAssumption, IInv, NEW R \in SUBSET rows, SoakedIn(cfg, gone, now, R),
         NEW T, Fewer(R, T), NEW G, gone \subseteq G, NEW n \in Nat, now <= n
  PROVE  SoakedIn(cfg, G, n, T)
<1>1. PICK p : From(p, R, T)
  BY DEF Fewer
<1>2. SUFFICES ASSUME NEW q \in T, NEW r \in T, q # r, Master \notin {q.stn, r.stn},
                      cfg[q.stn].sensor = cfg[r.stn].sensor
               PROVE  \/ q.off + SoakIn(cfg, G, n, q) <= r.on
                      \/ r.off + SoakIn(cfg, G, n, r) <= q.on
  BY DEF SoakedIn
<1>3. PICK a \in R, b \in R : a = p[q] /\ b = p[r] /\ a # b
  BY <1>1, <1>2 DEF From, IsInjective
<1>4. /\ a.stn = q.stn /\ a.on = q.on /\ q.off <= a.off /\ a.date = q.date
      /\ b.stn = r.stn /\ b.on = r.on /\ r.off <= b.off /\ b.date = r.date
  BY <1>1, <1>3 DEF From
<1>5. a.off + SoakIn(cfg, gone, now, a) <= b.on \/ b.off + SoakIn(cfg, gone, now, b) <= a.on
  BY <1>2, <1>3, <1>4 DEF SoakedIn
<1>6. q \in Row /\ r \in Row /\ a \in Row /\ b \in Row
  BY <1>3 DEF Fewer, RowsOK, IInv, TypeOK
<1>7. q.stn \in Stn /\ r.stn \in Stn
  BY <1>2, <1>6 DEF Row
<1>8. PICK g \in Nat, h \in Nat :
        g = SoakIn(cfg, gone, now, a) /\ h = SoakIn(cfg, gone, now, b)
  BY <1>4, <1>6, <1>7, SoakShrinks
<1>9. PICK e \in Nat, f \in Nat :
        e = SoakIn(cfg, G, n, q) /\ f = SoakIn(cfg, G, n, r) /\ e <= g /\ f <= h
  BY <1>4, <1>6, <1>7, <1>8, SoakShrinks
<1>10. a.off + g <= b.on \/ b.off + h <= a.on
  BY <1>5, <1>8
<1>11. q.off + e <= r.on \/ r.off + f <= q.on
  BY <1>4, <1>6, <1>9, <1>10 DEF Row
<1> QED
  BY <1>9, <1>11

LEMMA SoakedStep ==
  ASSUME PlacementAssumption, IInv, SoakedInv, [Next]_vars
  PROVE  SoakedInv'
<1>0. cfg' = cfg /\ gone \subseteq gone' /\ now \in Nat /\ now' \in Nat /\ now <= now'
  <2>1. cfg' = cfg /\ now' \in now .. MaxTime[cfg] /\ gone \subseteq gone'
    BY RowsStep
  <2>2. now \in Nat
    BY DEF IInv, TypeOK
  <2> QED
    BY <2>1, <2>2
<1>1. SUFFICES SoakedIn(cfg, gone', now', rows')
  BY <1>0 DEF SoakedInv
<1>2. CASE Fewer(rows, rows')
  BY <1>0, <1>2, FewerSoak DEF SoakedInv
<1>3. CASE PlaceStation
  <2>0. gone' = gone /\ now' = now
    BY <1>3 DEF PlaceStation
  <2>1. CASE rows' = rows
    BY <2>0, <2>1 DEF SoakedInv
  <2>2. CASE rows' # rows
    <3>1. PICK j : j = First(todo)
      OBVIOUS
    <3>2. PICK on, off : /\ Placed(j, on, off) /\ j.stn \in Stn /\ window[1] < window[2]
                         /\ rows' = rows \cup {[stn |-> j.stn, date |-> PgmDate(j), on |-> on, off |-> off]}
      BY <1>3, <2>2, <3>1, PlaceIs
    <3>3. PICK z : z = [stn |-> j.stn, date |-> PgmDate(j), on |-> on, off |-> off]
      OBVIOUS
    <3>4. z.stn = j.stn /\ z.on = on /\ z.off = off /\ rows' = rows \cup {z}
      BY <3>2, <3>3
    <3>5. ASSUME NEW q \in rows, q.stn # Master, cfg[q.stn].sensor = cfg[z.stn].sensor
          PROVE  \/ q.off + SoakIn(cfg, gone, now, q) <= z.on
                 \/ z.off + SoakIn(cfg, gone, now, z) <= q.on
      <4>1. q.stn \in Stn /\ q \in Row
        BY <3>5, RowsAre DEF Everyone, IInv, TypeOK
      <4>2. window[1] \in Int /\ window[2] \in Int
        BY DEF IInv, TypeOK
      <4>3. /\ on \in Int /\ off \in Int /\ window[1] <= on /\ on < off /\ off <= window[2]
            /\ \A t \in on .. (off - 1) : t \in Free(j.stn, window[1], window[2])
        BY <3>2 DEF Placed
      <4>4. CASE Read(q)
        <5>1. q.off + Gap(q.stn) <= on \/ off + Gap(j.stn) <= q.on
          BY <3>2, <3>4, <3>5, <4>1, <4>2, <4>3, <4>4, FreeSoaks
        <5>2. PICK g \in Nat, h \in Nat : g = GapIn(cfg, q.stn) /\ h = GapIn(cfg, j.stn)
          BY <3>2, <4>1, SettingsAre DEF IInv, Gap, GapIn
        <5>3. PICK e \in Nat, f \in Nat :
                /\ e = SoakIn(cfg, gone, now, q) /\ e <= g
                /\ f = SoakIn(cfg, gone, now, z) /\ f <= h
          BY <3>4, <5>2 DEF SoakIn
        <5>4. q.off + g <= on \/ off + h <= q.on
          BY <5>1, <5>2 DEF Gap, GapIn
        <5>5. q.off + e <= on \/ off + f <= q.on
          BY <4>1, <4>3, <5>3, <5>4 DEF Row
        <5> QED
          BY <3>4, <5>3, <5>5
      <4>5. CASE ~ Read(q)
        <5>1. SoakIn(cfg, gone, now, q) = 0
          BY <4>5 DEF Read, Today, SoakIn, ReadIn
        <5>2. q.off \in Nat /\ q.off <= now
          BY <1>0, <4>1, <4>5 DEF Read, Row
        <5>3. now + CleanTime <= window[1] /\ CleanTime \in Nat
          BY <1>3, <3>2 DEF IInv, WindowAhead, PlaceStation, PlacementAssumption
        <5>4. q.off + 0 <= on
          BY <1>0, <4>2, <4>3, <5>2, <5>3
        <5> QED
          BY <3>4, <5>1, <5>4
      <4> QED
        BY <4>4, <4>5
    <3>6. SUFFICES ASSUME NEW q \in rows', NEW r \in rows', q # r, Master \notin {q.stn, r.stn},
                          cfg[q.stn].sensor = cfg[r.stn].sensor
                   PROVE  \/ q.off + SoakIn(cfg, gone, now, q) <= r.on
                          \/ r.off + SoakIn(cfg, gone, now, r) <= q.on
      BY <2>0 DEF SoakedIn
    <3>7. CASE q \in rows /\ r \in rows
      BY <3>6, <3>7 DEF SoakedInv, SoakedIn
    <3>8. CASE q = z /\ r \in rows
      BY <3>5, <3>6, <3>8
    <3>9. CASE r = z /\ q \in rows
      BY <3>5, <3>6, <3>9
    <3> QED
      BY <3>4, <3>6, <3>7, <3>8, <3>9
  <2> QED
    BY <2>1, <2>2
<1>4. CASE now' = now /\ \E time \in Nat \ {0} : \E rest, m : ShutsFor(time, rest, m)
  <2>1. PICK time, rest, m : /\ Fewer(rows \ ShutRows, rest) /\ rows' = rest \cup {m}
                             /\ m.stn = Master
    BY <1>4 DEF ShutsFor
  <2>2. SoakedIn(cfg, gone, now, rows \ ShutRows)
    BY DEF SoakedInv, SoakedIn
  <2>3. SoakedIn(cfg, gone', now', rest)
    BY <1>0, <2>1, <2>2, FewerSoak
  <2> QED
    BY <2>1, <2>3 DEF SoakedIn
<1> QED
  BY <1>2, <1>3, <1>4, RowsStep
------------------------------------------------------------------------------
(* The time which a station has got, of given rows. *)
MineOf(c, R, s, d) == {r \in R : r.stn = s /\ (c[s].qSingle \/ r.date = d)}
AskedIn(c, R) == \A s \in Stn, d \in Int : TimeOf(MineOf(c, R, s, d)) <= c[s].runTime
AskedInv == AskedIn(cfg, rows)

LEMMA FewerTime ==
  ASSUME NEW R, NEW T, RowsOK(R), Fewer(R, T), NEW c, NEW s, NEW d
  PROVE  TimeOf(MineOf(c, T, s, d)) <= TimeOf(MineOf(c, R, s, d))
<1> DEFINE A == MineOf(c, R, s, d)
<1> DEFINE B == MineOf(c, T, s, d)
<1> DEFINE f == [r \in A |-> r.off - r.on]
<1> DEFINE h == [r \in B |-> r.off - r.on]
<1>1. PICK p : From(p, R, T)
  BY DEF Fewer
<1>2. A \in SUBSET R /\ B \in SUBSET T /\ IsFiniteSet(A) /\ IsFiniteSet(B)
  <2>1. A \in SUBSET R /\ B \in SUBSET T
    BY DEF MineOf
  <2> QED
    BY <2>1, FS_Subset DEF Fewer, RowsOK
<1>3. /\ \A r \in R : r.on \in Nat /\ r.off \in Nat /\ r.on < r.off
      /\ \A r \in T : r.on \in Nat /\ r.off \in Nat /\ r.on < r.off
  BY DEF Fewer, RowsOK, Row
<1> DEFINE q == [y \in B |-> p[y]]
<1>4. \A y \in B : p[y] \in A /\ y.off - y.on <= p[y].off - p[y].on
  <2> SUFFICES ASSUME NEW y \in B PROVE p[y] \in A /\ y.off - y.on <= p[y].off - p[y].on
    OBVIOUS
  <2>1. /\ y \in T /\ p[y] \in R /\ y.stn = p[y].stn /\ y.date = p[y].date
        /\ y.on = p[y].on /\ y.off <= p[y].off
    BY <1>1, <1>2 DEF From
  <2>2. p[y] \in A
    BY <2>1 DEF MineOf
  <2> QED
    BY <1>3, <2>1, <2>2
<1>5. q \in [B -> A] /\ IsInjective(q)
  BY <1>1, <1>2, <1>4 DEF From, IsInjective
<1>6. (\A r \in A : f[r] \in Nat) /\ (\A r \in B : h[r] \in Nat) /\ \A y \in B : h[y] <= f[q[y]]
  BY <1>2, <1>3, <1>4
<1>7. TimeOf(A) = SumFunction(f) /\ TimeOf(B) = SumFunction(h) /\ DOMAIN f = A /\ DOMAIN h = B
  BY DEF TimeOf
<1> HIDE DEF f, h, q, A, B
<1>8. SumFunction(h) <= SumFunction(f)
  BY <1>2, <1>5, <1>6, <1>7, SumShrinks
<1> QED
  BY <1>7, <1>8 DEF A, B

(* One more row takes no more time than its own. *)
LEMMA TimeOfOneMore ==
  ASSUME NEW S, IsFiniteSet(S), \A r \in S : r.on \in Nat /\ r.off \in Nat /\ r.on < r.off,
         NEW z, z.on \in Nat, z.off \in Nat, z.on < z.off
  PROVE  TimeOf(S \cup {z}) <= TimeOf(S) + (z.off - z.on)
<1> DEFINE f == [r \in S |-> r.off - r.on]
<1> DEFINE h == [r \in S \cup {z} |-> r.off - r.on]
<1>1. /\ DOMAIN f = S /\ DOMAIN h = DOMAIN f \cup {z} /\ h[z] = z.off - z.on /\ h[z] \in Nat
      /\ \A r \in S : f[r] \in Nat /\ h[r] = f[r]
  OBVIOUS
<1>2. TimeOf(S) = SumFunction(f) /\ TimeOf(S \cup {z}) = SumFunction(h)
  BY DEF TimeOf
<1> HIDE DEF f, h
<1>3. SumFunction(h) <= SumFunction(f) + h[z]
  BY <1>1, SumOfOneMore
<1> QED
  BY <1>1, <1>2, <1>3

LEMMA AskedStep ==
  ASSUME PlacementAssumption, IInv, AskedInv, [Next]_vars
  PROVE  AskedInv'
<1>1. SUFFICES AskedIn(cfg, rows')
  BY RowsStep DEF AskedInv
<1>2. SUFFICES ASSUME NEW s \in Stn, NEW d \in Int
               PROVE  TimeOf(MineOf(cfg, rows', s, d)) <= cfg[s].runTime
  BY DEF AskedIn
<1>3. /\ TimeOf(MineOf(cfg, rows, s, d)) <= cfg[s].runTime
      /\ TimeOf(MineOf(cfg, rows, s, d)) \in Nat /\ cfg[s].runTime \in Nat
  <2>1. MineOf(cfg, rows, s, d) \in SUBSET rows
    BY DEF MineOf
  <2>2. TimeOf(MineOf(cfg, rows, s, d)) \in Nat
    BY <2>1, RowsAre
  <2>3. StationOK(cfg[s])
    BY SettingsAre DEF IInv
  <2> QED
    BY <2>2, <2>3 DEF AskedInv, AskedIn, StationOK
<1>4. RowsOK(rows) /\ RowsOK(rows')
  BY IInvRows, RowsStayOK
<1>5. TimeOf(MineOf(cfg, rows', s, d)) \in Nat
  <2>1. MineOf(cfg, rows', s, d) \in SUBSET rows'
    BY DEF MineOf
  <2>2. IsFiniteSet(MineOf(cfg, rows', s, d))
    BY <1>4, <2>1, FS_Subset DEF RowsOK
  <2>3. \A r \in MineOf(cfg, rows', s, d) : r.on \in Nat /\ r.off \in Nat /\ r.on < r.off
    BY <1>4, <2>1 DEF RowsOK, Row
  <2> QED
    BY <2>2, <2>3, TimeIs
<1>6. CASE Fewer(rows, rows')
  <2>1. TimeOf(MineOf(cfg, rows', s, d)) <= TimeOf(MineOf(cfg, rows, s, d))
    BY <1>4, <1>6, FewerTime
  <2> QED
    BY <1>3, <1>5, <2>1
<1>7. CASE PlaceStation
  <2>1. CASE rows' = rows
    BY <1>3, <2>1
  <2>2. CASE rows' # rows
    <3>1. PICK j : j = First(todo)
      OBVIOUS
    <3>2. PICK on, off : /\ Placed(j, on, off) /\ j.stn \in Stn
                         /\ rows' = rows \cup {[stn |-> j.stn, date |-> PgmDate(j), on |-> on, off |-> off]}
      BY <1>7, <2>2, <3>1, PlaceIs
    <3>3. PICK z : z = [stn |-> j.stn, date |-> PgmDate(j), on |-> on, off |-> off]
      OBVIOUS
    <3>4. /\ z.stn = j.stn /\ z.date = PgmDate(j) /\ z.on = on /\ z.off = off
          /\ rows' = rows \cup {z}
      BY <3>2, <3>3
    <3>5. on \in Nat /\ off \in Nat /\ on < off /\ off - on <= TimeNeeded(j)
      BY <3>2 DEF Placed
    <3> DEFINE mine == MineOf(cfg, rows, s, d)
    <3>6. CASE z \notin MineOf(cfg, rows', s, d)
      <4>1. MineOf(cfg, rows', s, d) = mine
        BY <3>4, <3>6 DEF MineOf
      <4> QED
        BY <1>3, <4>1
    <3>7. CASE z \in MineOf(cfg, rows', s, d)
      <4>1. j.stn = s /\ (cfg[s].qSingle \/ PgmDate(j) = d)
        BY <3>4, <3>7 DEF MineOf
      <4>2. MineOf(cfg, rows', s, d) = mine \cup {z}
        BY <3>4, <4>1 DEF MineOf
      <4>3. CumTime(s, PgmDate(j)) = TimeOf(mine)
        <5>1. {r \in rows : r.stn = s /\ (cfg[s].qSingle \/ r.date = PgmDate(j))} = mine
          BY <4>1 DEF MineOf
        <5> QED
          BY <5>1 DEF CumTime
      <4>4. off - on <= cfg[s].runTime - TimeOf(mine)
        BY <3>5, <4>1, <4>3 DEF TimeNeeded
      <4>5. TimeOf(mine \cup {z}) <= TimeOf(mine) + (z.off - z.on)
        <5>1. mine \in SUBSET rows
          BY DEF MineOf
        <5>2. IsFiniteSet(mine) /\ \A r \in mine : r.on \in Nat /\ r.off \in Nat /\ r.on < r.off
          BY <5>1, RowsAre
        <5>3. z.on \in Nat /\ z.off \in Nat /\ z.on < z.off
          BY <3>4, <3>5
        <5> HIDE DEF mine
        <5> QED
          BY <5>2, <5>3, TimeOfOneMore
      <4>6. PICK a, b, run : a = TimeOf(mine) /\ b = TimeOf(mine \cup {z}) /\ run = cfg[s].runTime
        OBVIOUS
      <4>7. a \in Nat /\ b \in Nat /\ run \in Nat /\ off - on <= run - a /\ b <= a + (off - on)
        BY <1>3, <1>5, <3>4, <4>2, <4>4, <4>5, <4>6
      <4>8. b <= run
        BY <3>5, <4>7
      <4> QED
        BY <4>2, <4>6, <4>8
    <3> QED
      BY <3>6, <3>7
  <2> QED
    BY <2>1, <2>2
<1>8. CASE \E time \in Nat \ {0} : \E rest, m : ShutsFor(time, rest, m)
  <2>1. PICK time, rest, m : /\ Fewer(rows \ ShutRows, rest) /\ rows' = rest \cup {m}
                             /\ m.stn = Master
    BY <1>8 DEF ShutsFor
  <2>2. MineOf(cfg, rows', s, d) = MineOf(cfg, rest, s, d)
    BY <2>1 DEF MineOf, PlacementAssumption
  <2>3. MineOf(cfg, rows \ ShutRows, s, d) = MineOf(cfg, rows, s, d)
    BY DEF MineOf, ShutRows, PlacementAssumption
  <2>4. RowsOK(rows \ ShutRows)
    BY <1>4, FS_Difference DEF RowsOK
  <2>5. TimeOf(MineOf(cfg, rows', s, d)) <= TimeOf(MineOf(cfg, rows, s, d))
    BY <2>1, <2>2, <2>3, <2>4, FewerTime
  <2> QED
    BY <1>3, <1>5, <2>5
<1> QED
  BY <1>6, <1>7, <1>8, RowsStep
------------------------------------------------------------------------------
(* Limits, for given rows and manual runs which are no program station. *)
KeepsIn(u, k, S) ==
  \A limit \in {u[r.stn][k].limit : r \in S} : SumFunction([r \in S |-> u[r.stn][k].amount]) <= limit
BindsIn(u, G, r, k) ==
  k \in DOMAIN u[r.stn] /\ (r.stn \in G => k[1] \notin {"pgmStations", "pgmFlow"})
OnAt(u, G, R, k, t) == {r \in R : r.on <= t /\ t < r.off /\ BindsIn(u, G, r, k)}
LimitsIn(u, G, R) == \A k : \A t \in Int : KeepsIn(u, k, OnAt(u, G, R, k, t))
LimitsInv == LimitsIn(uses, gone, rows)

LEMMA KeptByFewer ==
  ASSUME NEW u, NEW k, NEW A, IsFiniteSet(A), NEW B, IsFiniteSet(B),
         \A r \in A : u[r.stn][k].amount \in Nat /\ u[r.stn][k].limit \in Int,
         NEW p \in [B -> A], IsInjective(p), \A y \in B : y.stn = p[y].stn,
         KeepsIn(u, k, A)
  PROVE  KeepsIn(u, k, B)
<1> DEFINE f == [r \in A |-> u[r.stn][k].amount]
<1> DEFINE h == [r \in B |-> u[r.stn][k].amount]
<1>1. \A y \in B : p[y] \in A /\ u[y.stn][k] = u[p[y].stn][k]
  OBVIOUS
<1>2. /\ \A r \in A : f[r] \in Nat
      /\ \A y \in B : h[y] \in Nat /\ h[y] <= f[p[y]]
  BY <1>1
<1>3. DOMAIN f = A /\ DOMAIN h = B
  OBVIOUS
<1>4. SumFunction(h) <= SumFunction(f) /\ SumFunction(h) \in Nat /\ SumFunction(f) \in Nat
  <2> HIDE DEF f, h
  <2>1. SumFunction(h) <= SumFunction(f)
    BY <1>2, <1>3, SumShrinks
  <2>2. SumFunction(h) \in Nat /\ SumFunction(f) \in Nat
    BY <1>2, <1>3, SumIsNat
  <2> QED
    BY <2>1, <2>2
<1>5. ASSUME NEW limit \in {u[r.stn][k].limit : r \in B} PROVE SumFunction(h) <= limit
  <2>1. limit \in {u[r.stn][k].limit : r \in A} /\ limit \in Int
    BY <1>1
  <2>2. SumFunction(f) <= limit
    BY <2>1 DEF KeepsIn
  <2> HIDE DEF f, h
  <2> QED
    BY <1>4, <2>1, <2>2
<1> QED
  BY <1>5 DEF KeepsIn

(* Those who are on at a time, of some of the rows. *)
LEMMA OnAtIs ==
  ASSUME PlacementAssumption, IInv, NEW R \in SUBSET rows, NEW k, NEW t
  PROVE  /\ OnAt(uses, gone, R, k, t) \in SUBSET R /\ IsFiniteSet(OnAt(uses, gone, R, k, t))
         /\ \A r \in OnAt(uses, gone, R, k, t) : /\ uses[r.stn][k].amount \in Nat
                                           /\ uses[r.stn][k].limit \in Int
<1>1. OnAt(uses, gone, R, k, t) \in SUBSET rows
  BY DEF OnAt
<1>2. IsFiniteSet(OnAt(uses, gone, R, k, t))
  BY <1>1, RowsAre
<1>3. ASSUME NEW r \in OnAt(uses, gone, R, k, t)
      PROVE  uses[r.stn][k].amount \in Nat /\ uses[r.stn][k].limit \in Int
  <2>1. r.stn \in Everyone /\ k \in DOMAIN uses[r.stn]
    BY <1>1, RowsAre DEF OnAt, BindsIn
  <2>2. TakesOf(r.stn, cfg[r.stn], uses[r.stn])
    BY <2>1, UsesNow
  <2> QED
    BY <2>1, <2>2 DEF TakesOf
<1> QED
  BY <1>2, <1>3 DEF OnAt

LEMMA FewerKeep ==
  ASSUME PlacementAssumption, IInv, NEW R \in SUBSET rows, LimitsIn(uses, gone, R), NEW T, Fewer(R, T),
         NEW G, gone \subseteq G
  PROVE  LimitsIn(uses, G, T)
<1> SUFFICES ASSUME NEW k, NEW t \in Int PROVE KeepsIn(uses, k, OnAt(uses, G, T, k, t))
  BY DEF LimitsIn
<1>1. PICK p : From(p, R, T)
  BY DEF Fewer
<1> DEFINE A == OnAt(uses, gone, R, k, t)
<1> DEFINE B == OnAt(uses, G, T, k, t)
<1>2. IsFiniteSet(A) /\ \A r \in A : uses[r.stn][k].amount \in Nat /\ uses[r.stn][k].limit \in Int
  BY OnAtIs
<1>3. B \in SUBSET T /\ IsFiniteSet(B)
  <2>1. B \in SUBSET T
    BY DEF OnAt
  <2> QED
    BY <2>1, FS_Subset DEF Fewer, RowsOK
<1> DEFINE q == [y \in B |-> p[y]]
<1>4. ASSUME NEW y \in B PROVE p[y] \in A /\ y.stn = p[y].stn
  <2>1. /\ y \in T /\ p[y] \in R /\ y.stn = p[y].stn /\ y.on = p[y].on /\ y.off <= p[y].off
    BY <1>1, <1>3 DEF From
  <2>2. y.on <= t /\ t < y.off /\ y.off \in Int /\ p[y].off \in Int
    BY <2>1 DEF OnAt, Fewer, RowsOK, Row, IInv, TypeOK
  <2>3. BindsIn(uses, gone, p[y], k)
    BY <2>1 DEF OnAt, BindsIn
  <2> QED
    BY <2>1, <2>2, <2>3 DEF OnAt
<1>5. q \in [B -> A] /\ IsInjective(q) /\ \A y \in B : y.stn = q[y].stn
  BY <1>1, <1>3, <1>4 DEF From, IsInjective
<1>6. KeepsIn(uses, k, A)
  BY DEF LimitsIn
<1> HIDE DEF q, A, B
<1>7. KeepsIn(uses, k, B)
  BY <1>2, <1>3, <1>5, <1>6, KeptByFewer
<1> QED
  BY <1>7 DEF B

(* One more which fits keeps the limits. *)
LEMMA OneMoreFits ==
  ASSUME PlacementAssumption, IInv, NEW z, z.stn \in Stn, NEW k \in Trackers(z.stn), NEW t,
         Fits(z.stn, k, Active(k, t))
  PROVE  KeepsIn(uses, k, Active(k, t) \cup {z})
<1> DEFINE S == Active(k, t)
<1> DEFINE f == [r \in S |-> uses[r.stn][k].amount]
<1> DEFINE h == [r \in S \cup {z} |-> uses[r.stn][k].amount]
<1>1. z.stn \in Everyone /\ S \in SUBSET Reserved(k)
  BY ActiveAre DEF Everyone
<1>2. /\ IsFiniteSet(S) /\ uses[z.stn][k].amount \in Nat /\ uses[z.stn][k].limit \in Int
      /\ \A r \in S : uses[r.stn][k].amount \in Nat /\ uses[r.stn][k].limit \in Int
  <2>1. TakesOf(z.stn, cfg[z.stn], uses[z.stn])
    BY <1>1, UsesNow
  <2> HIDE DEF S
  <2> QED
    BY <1>1, <2>1, OthersAre DEF TakesOf, Trackers
<1>3. /\ DOMAIN f = S /\ DOMAIN h = DOMAIN f \cup {z} /\ h[z] = uses[z.stn][k].amount /\ h[z] \in Nat
      /\ \A r \in S : f[r] \in Nat /\ h[r] = f[r]
  BY <1>2
<1>4. Usage(k, S) = SumFunction(f)
  BY DEF Usage
<1>5. SumFunction(h) <= Usage(k, S) + uses[z.stn][k].amount /\ SumFunction(h) \in Nat /\ Usage(k, S) \in Nat
  <2> HIDE DEF f, h, S
  <2>1. /\ IsFiniteSet(DOMAIN f) /\ DOMAIN h = DOMAIN f \cup {z} /\ h[z] \in Nat
        /\ \A r \in DOMAIN f : f[r] \in Nat
        /\ \A r \in DOMAIN f : h[r] = f[r]
    BY <1>2, <1>3
  <2>2. /\ SumFunction(h) <= SumFunction(f) + h[z]
        /\ SumFunction(h) \in Nat /\ SumFunction(f) \in Nat
    BY <2>1, SumOfOneMore
  <2> QED
    BY <1>3, <1>4, <2>2
<1>6. ASSUME NEW limit \in {uses[r.stn][k].limit : r \in S \cup {z}} PROVE SumFunction(h) <= limit
  <2>1. limit \in {uses[z.stn][k].limit} \cup Limits(k, S) /\ limit \in Int
    BY <1>2 DEF Limits
  <2>2. Usage(k, S) + uses[z.stn][k].amount <= limit
    BY <2>1 DEF Fits
  <2> HIDE DEF h, S
  <2> QED
    BY <1>2, <1>5, <2>1, <2>2
<1> QED
  BY <1>6 DEF KeepsIn

(* Alone, each is within its limits if the settings are fitting. *)
LEMMA AloneFits ==
  ASSUME PlacementAssumption, IInv, Fitting(cfg), NEW x \in Everyone, NEW k \in Trackers(x)
  PROVE  /\ uses[x][k].amount \in Nat /\ uses[x][k].limit \in Int
         /\ uses[x][k].amount <= uses[x][k].limit
<1>1. uses[x] = UsesOf(x, cfg[x])
  BY DEF IInv, Usages
<1>2. TakesOf(x, cfg[x], uses[x])
  BY UsesNow
<1>3. uses[x][k].amount <= uses[x][k].limit
  BY <1>1 DEF Fitting, Trackers, Everyone
<1> QED
  BY <1>2, <1>3 DEF TakesOf, Trackers

LEMMA OneKeeps ==
  ASSUME PlacementAssumption, IInv, Fitting(cfg), NEW z, z.stn \in Everyone, NEW k \in Trackers(z.stn)
  PROVE  KeepsIn(uses, k, {z})
<1> DEFINE f == [r \in {} |-> uses[r.stn][k].amount]
<1> DEFINE h == [r \in {z} |-> uses[r.stn][k].amount]
<1>1. DOMAIN f = {} /\ DOMAIN h = DOMAIN f \cup {z} /\ h[z] = uses[z.stn][k].amount
  OBVIOUS
<1>2. uses[z.stn][k].amount \in Nat /\ uses[z.stn][k].limit \in Int /\ uses[z.stn][k].amount <= uses[z.stn][k].limit
  BY AloneFits
<1>3. SumFunction(h) <= 0 + uses[z.stn][k].amount /\ SumFunction(h) \in Nat
  <2>1. IsFiniteSet({}) /\ SumFunction(f) = 0
    BY <1>1, FS_EmptySet, SumOfNone
  <2> HIDE DEF f, h
  <2>2. SumFunction(h) <= SumFunction(f) + h[z] /\ SumFunction(h) \in Nat
    BY <1>1, <1>2, <2>1, SumOfOneMore
  <2> QED
    BY <1>1, <2>1, <2>2
<1>4. SumFunction(h) <= uses[z.stn][k].limit
  <2> HIDE DEF h
  <2> QED
    BY <1>2, <1>3
<1> QED
  BY <1>4 DEF KeepsIn

(* A tracker of the master valve is one of its point of connection. *)
LEMMA SharedIsHere ==
  ASSUME PlacementAssumption, IInv, Fitting(cfg), NEW k \in Trackers(Master),
         NEW y \in Stn, k \in Trackers(y)
  PROVE  cfg[y].poc = cfg[Master].poc
<1> DEFINE c == cfg[Master]
<1> DEFINE d == cfg[y]
<1>1. uses[Master] = UsesOf(Master, c) /\ uses[y] = UsesOf(y, d)
  BY DEF IInv, Usages, Everyone
<1> HIDE DEF c, d
<1>2. k \in {<<"ctlStations", c.ctl>>, <<"ctlCurrent", c.ctl>>, <<"pocStations", c.poc>>}
  BY <1>1 DEF UsesOf, Trackers
<1>3. k \in {<<"ctlStations", d.ctl>>, <<"ctlCurrent", d.ctl>>, <<"pocStations", d.poc>>,
             <<"pocFlow", d.poc>>, <<"pgmStations", d.program>>, <<"pgmFlow", d.program>>,
             <<"sensor", d.sensor>>}
  <2>1. y # Master
    BY DEF PlacementAssumption
  <2> QED
    BY <1>1, <2>1 DEF UsesOf, Trackers
<1>4. d.ctl = c.ctl \/ d.poc = c.poc
  BY <1>2, <1>3
<1> QED
  BY <1>4 DEF Fitting, c, d

LEMMA LimitsPlace ==
  ASSUME PlacementAssumption, IInv, Fitting(cfg), LimitsInv, PlaceStation
  PROVE  LimitsIn(uses, gone, rows')
<1>1. CASE rows' = rows
  BY <1>1 DEF LimitsInv
<1>2. CASE rows' # rows
  <2>1. PICK j : j = First(todo)
    OBVIOUS
  <2>2. PICK on, off : /\ Placed(j, on, off) /\ j.stn \in Stn
                       /\ rows' = rows \cup {[stn |-> j.stn, date |-> PgmDate(j), on |-> on, off |-> off]}
    BY <1>2, <2>1, PlaceIs
  <2>3. PICK z : z = [stn |-> j.stn, date |-> PgmDate(j), on |-> on, off |-> off]
    OBVIOUS
  <2>4. z.stn = j.stn /\ z.on = on /\ z.off = off /\ rows' = rows \cup {z}
    BY <2>2, <2>3
  <2>5. /\ on \in Int /\ off \in Int /\ window[1] \in Int /\ window[2] \in Int
        /\ \A t \in on .. (off - 1) : t \in Free(j.stn, window[1], window[2])
        /\ now \in Int /\ now <= on
    <3>1. window[1] < window[2] /\ Placing
      BY PlaceIs DEF PlaceStation
    <3>2. now + CleanTime <= window[1] /\ CleanTime \in Nat /\ now \in Nat /\ window \in Nat \X Nat
      BY <3>1 DEF IInv, TypeOK, WindowAhead, PlacementAssumption
    <3> QED
      BY <2>2, <3>2 DEF Placed
  <2> SUFFICES ASSUME NEW k, NEW t \in Int PROVE KeepsIn(uses, k, OnAt(uses, gone, rows', k, t))
    BY DEF LimitsIn
  <2>6. KeepsIn(uses, k, OnAt(uses, gone, rows, k, t))
    BY DEF LimitsInv, LimitsIn
  <2>7. CASE ~ (on <= t /\ t < off /\ BindsIn(uses, gone, z, k))
    <3>1. OnAt(uses, gone, rows', k, t) = OnAt(uses, gone, rows, k, t)
      BY <2>4, <2>7 DEF OnAt
    <3> QED
      BY <2>6, <3>1
  <2>8. CASE on <= t /\ t < off /\ BindsIn(uses, gone, z, k)
    <3>0. k \in Trackers(j.stn)
      BY <2>4, <2>8 DEF BindsIn, Trackers
    <3>1. Active(k, t) = OnAt(uses, gone, rows, k, t)
      <4>1. \A r \in rows : t < r.off => Read(r)
        BY <2>5, <2>8, RowsAre DEF Read
      <4> QED
        BY <4>1 DEF Active, Reserved, Binding, OnAt, BindsIn, Trackers
    <3>2. OnAt(uses, gone, rows', k, t) = Active(k, t) \cup {z}
      BY <2>4, <2>8, <3>1 DEF OnAt
    <3>3. CASE Reserved(k) = {}
      <4>1. Active(k, t) \cup {z} = {z}
        BY <3>3, ActiveAre
      <4>2. z.stn \in Everyone /\ k \in Trackers(z.stn)
        BY <2>2, <2>4, <3>0 DEF Everyone
      <4> QED
        BY <3>2, <4>1, <4>2, OneKeeps
    <3>4. CASE Reserved(k) # {}
      <4>1. t \in Free(j.stn, window[1], window[2])
        BY <2>5, <2>8
      <4>2. Fits(j.stn, k, Active(k, t))
        BY <2>2, <2>5, <3>0, <3>4, <4>1, FreeFits
      <4>3. z.stn \in Stn /\ k \in Trackers(z.stn) /\ Fits(z.stn, k, Active(k, t))
        BY <2>2, <2>4, <3>0, <4>2
      <4>4. KeepsIn(uses, k, Active(k, t) \cup {z})
        BY <4>3, OneMoreFits
      <4> QED
        BY <3>2, <4>4
    <3> QED
      BY <3>3, <3>4
  <2> QED
    BY <2>7, <2>8
<1> QED
  BY <1>1, <1>2

(* The master valve is alone on its trackers while it is on. *)
LEMMA LimitsShut ==
  ASSUME PlacementAssumption, IInv, Fitting(cfg), LimitsInv,
         NEW time \in Nat \ {0}, NEW rest, NEW m, ShutsFor(time, rest, m),
         NEW G \in SUBSET Stn, gone \subseteq G
  PROVE  LimitsIn(uses, G, rows')
<1>0. Master \notin G /\ Master \notin gone
  BY DEF PlacementAssumption
<1>1. /\ Fewer(rows \ ShutRows, rest) /\ rows' = rest \cup {m} /\ m \in Row /\ m.stn = Master
      /\ m.on <= now /\ m.off = now + time /\ now \in Nat /\ m.on \in Nat
      /\ ShutRows \in SUBSET rows
  BY DEF ShutsFor, IInv, TypeOK, Row, ShutRows, On
<1>2. RowsOK(rest) /\ IsFiniteSet(rest)
  BY <1>1 DEF Fewer, RowsOK
<1>3. LimitsIn(uses, G, rest)
  <2>1. Fewer(rows, rest)
    <3>1. PICK p : From(p, rows \ ShutRows, rest)
      BY <1>1 DEF Fewer
    <3>2. From(p, rows, rest)
      BY <3>1 DEF From
    <3> QED
      BY <1>2, <3>2 DEF Fewer
  <2> QED
    BY <2>1, FewerKeep DEF LimitsInv
<1> SUFFICES ASSUME NEW k, NEW t \in Int PROVE KeepsIn(uses, k, OnAt(uses, G, rows', k, t))
  BY DEF LimitsIn
<1>4. CASE ~ (m.on <= t /\ t < m.off /\ k \in Trackers(Master))
  <2>1. OnAt(uses, G, rows', k, t) = OnAt(uses, G, rest, k, t)
    BY <1>1, <1>4 DEF OnAt, BindsIn, Trackers
  <2> QED
    BY <1>3, <2>1 DEF LimitsIn
<1>5. CASE m.on <= t /\ t < now /\ k \in Trackers(Master)
  <2> DEFINE A == OnAt(uses, gone, rows, k, t)
  <2> DEFINE B == OnAt(uses, G, rest, k, t)
  <2>1. PICK s \in ShutRows : s.on = m.on
    BY <1>1, <1>5 DEF ShutsFor
  <2>2. s \in A /\ s.stn = Master
    <3>1. s \in rows /\ s.stn = Master /\ now < s.off /\ s.off \in Nat
      BY <1>1, <2>1, RowsAre DEF ShutRows, On
    <3> QED
      BY <1>0, <1>1, <1>5, <2>1, <3>1 DEF OnAt, BindsIn, Trackers
  <2>3. IsFiniteSet(A) /\ \A r \in A : uses[r.stn][k].amount \in Nat /\ uses[r.stn][k].limit \in Int
    BY OnAtIs
  <2>4. B \in SUBSET rest /\ IsFiniteSet(B \cup {m})
    <3>1. B \in SUBSET rest
      BY DEF OnAt
    <3>2. IsFiniteSet(B)
      BY <1>2, <3>1, FS_Subset
    <3> QED
      BY <3>1, <3>2, FS_AddElement
  <2>5. OnAt(uses, G, rows', k, t) \in SUBSET (B \cup {m})
    BY <1>1 DEF OnAt
  <2>6. PICK p : From(p, rows \ ShutRows, rest)
    BY <1>1 DEF Fewer
  <2> DEFINE C == OnAt(uses, G, rows', k, t)
  <2> DEFINE q == [y \in C |-> IF y \in B THEN p[y] ELSE s]
  <2>7. ASSUME NEW y \in B PROVE p[y] \in A /\ p[y] \notin ShutRows /\ y.stn = p[y].stn
    <3>1. /\ y \in rest /\ p[y] \in rows \ ShutRows /\ y.stn = p[y].stn /\ y.on = p[y].on
          /\ y.off <= p[y].off
      BY <2>4, <2>6 DEF From
    <3>2. y.on <= t /\ t < y.off /\ y.off \in Int /\ p[y].off \in Int
      BY <1>2, <3>1, RowsAre DEF OnAt, RowsOK, Row
    <3>3. BindsIn(uses, gone, p[y], k)
      BY <3>1 DEF OnAt, BindsIn
    <3> QED
      BY <3>1, <3>2, <3>3 DEF OnAt
  <2>8. q \in [C -> A] /\ IsInjective(q) /\ \A y \in C : y.stn = q[y].stn
    <3> HIDE DEF A, B, C
    <3>1. \A y \in C : y \notin B => y = m
      BY <2>5 DEF C
    <3>2. q \in [C -> A] /\ \A y \in C : y.stn = q[y].stn
      BY <1>1, <2>2, <2>7, <3>1
    <3>3. ASSUME NEW y \in C, NEW w \in C, q[y] = q[w] PROVE y = w
      BY <2>1, <2>4, <2>6, <2>7, <3>1, <3>3 DEF From, IsInjective
    <3> HIDE DEF q
    <3>4. DOMAIN q = C
      BY <3>2
    <3> QED
      BY <3>2, <3>3, <3>4 DEF IsInjective
  <2>9. IsFiniteSet(C) /\ KeepsIn(uses, k, A)
    BY <2>4, <2>5, FS_Subset DEF LimitsInv, LimitsIn
  <2> HIDE DEF A, C, q
  <2>10. KeepsIn(uses, k, C)
    BY <2>3, <2>8, <2>9, KeptByFewer
  <2> QED
    BY <2>10 DEF C
<1>6. CASE now <= t /\ t < m.off /\ k \in Trackers(Master)
  <2>1. ASSUME NEW y \in OnAt(uses, G, rest, k, t) PROVE FALSE
    <3>1. y \in rest /\ y.on <= t /\ t < y.off /\ k \in Trackers(y.stn)
      BY DEF OnAt, BindsIn, Trackers
    <3>2. y.stn \in Everyone /\ y.on \in Nat /\ y.off \in Nat
      BY <1>2, <3>1 DEF RowsOK, Row, Everyone
    <3>3. y.stn = Master \/ cfg[y.stn].poc = cfg[Master].poc
      BY <1>6, <3>1, <3>2, SharedIsHere DEF Everyone
    <3>4. y.off <= now \/ now + time <= y.on
      BY <3>1, <3>3 DEF ShutsFor
    <3> QED
      BY <1>1, <1>6, <3>1, <3>2, <3>4
  <2>2. OnAt(uses, G, rows', k, t) \in SUBSET {m} /\ m \in OnAt(uses, G, rows', k, t)
    <3>1. m.on <= t
      BY <1>1, <1>6
    <3> QED
      BY <1>0, <1>1, <1>6, <2>1, <3>1 DEF OnAt, BindsIn, Trackers
  <2>3. OnAt(uses, G, rows', k, t) = {m}
    BY <2>2
  <2>4. m.stn \in Everyone /\ k \in Trackers(m.stn)
    BY <1>1, <1>6 DEF Everyone
  <2> QED
    BY <2>3, <2>4, OneKeeps
<1> QED
  BY <1>1, <1>4, <1>5, <1>6

LEMMA LimitsStep ==
  ASSUME PlacementAssumption, IInv, Fitting(cfg), LimitsInv, [Next]_vars
  PROVE  LimitsInv'
<1>1. uses' = uses /\ gone \subseteq gone' /\ gone' \in SUBSET Stn
  BY RowsStep, IInvStep DEF IInv, TypeOK
<1>2. SUFFICES LimitsIn(uses, gone', rows')
  BY <1>1 DEF LimitsInv
<1>3. CASE Fewer(rows, rows')
  BY <1>1, <1>3, FewerKeep DEF LimitsInv
<1>4. CASE PlaceStation
  BY <1>4, LimitsPlace DEF PlaceStation
<1>5. CASE \E time \in Nat \ {0} : \E rest, m : ShutsFor(time, rest, m)
  BY <1>1, <1>5, LimitsShut
<1> QED
  BY <1>3, <1>4, <1>5, RowsStep
------------------------------------------------------------------------------
(* A rebuild keeps its types: a date is a day, a cycle is of positive       *)
(* length and begins no earlier than at 0, the window is two times         *)
(* (SchedPlacer.py:64, "place_station").                                   *)
THEOREM TypeCorrect == PlacementAssumption /\ Spec => []TypeOK
<1> SUFFICES ASSUME PlacementAssumption PROVE Spec => []TypeOK
  OBVIOUS
<1>1. Init => IInv
  BY IInvInit
<1>2. IInv /\ [Next]_vars => IInv'
  BY IInvStep
<1>3. IInv => TypeOK
  BY DEF IInv
<1> QED
  BY <1>1, <1>2, <1>3, PTL DEF Spec

(* Whatever is turned off, removed or placed anew in which order, cycles of *)
(* one valve leave it time to soak while they are read: its sensor tracker *)
(* rules out a gap before and after each of them, which a cycle may not    *)
(* touch.  What is not read any more has ended, and is not overlapped.     *)
THEOREM ValvesSoak == PlacementAssumption /\ Spec => []Soaked
<1> SUFFICES ASSUME PlacementAssumption PROVE Spec => []Soaked
  OBVIOUS
<1>1. Init => IInv /\ SoakedInv
  BY IInvInit DEF Init, SoakedInv, SoakedIn
<1>2. IInv /\ SoakedInv /\ [Next]_vars => (IInv /\ SoakedInv)'
  BY IInvStep, SoakedStep
<1>3. IInv /\ SoakedInv => Soaked
  BY DEF SoakedInv, SoakedIn, Soaked, Soak, SoakIn, Read, ReadIn, Today, Gap, GapIn
<1> QED
  BY <1>1, <1>2, <1>3, PTL DEF Spec

(* However often the plan is made anew, a station gets no more than its run *)
(* time: what it has got, and what it has been given already, is counted   *)
(* before each cycle (SchedCumTime.py).                                    *)
THEOREM NoneGetsMore == PlacementAssumption /\ Spec => []NoMoreThanAsked
<1> SUFFICES ASSUME PlacementAssumption PROVE Spec => []NoMoreThanAsked
  OBVIOUS
<1>1. Init => IInv /\ AskedInv
  <2> SUFFICES ASSUME Init PROVE IInv /\ AskedInv
    OBVIOUS
  <2>1. IInv
    BY IInvInit
  <2>2. ASSUME NEW s \in Stn, NEW d \in Int PROVE TimeOf(MineOf(cfg, rows, s, d)) <= cfg[s].runTime
    <3>1. MineOf(cfg, rows, s, d) = {}
      BY DEF Init, MineOf
    <3>2. TimeOf({}) = 0
      <4> DEFINE f == [r \in {} |-> r.off - r.on]
      <4>1. DOMAIN f = {}
        OBVIOUS
      <4> HIDE DEF f
      <4>2. SumFunction(f) = 0
        BY <4>1, SumOfNone
      <4> QED
        BY <4>2 DEF f, TimeOf
    <3>3. StationOK(cfg[s])
      BY <2>1, SettingsAre DEF IInv
    <3> QED
      BY <3>1, <3>2, <3>3 DEF StationOK
  <2> QED
    BY <2>1, <2>2 DEF AskedInv, AskedIn
<1>2. IInv /\ AskedInv /\ [Next]_vars => (IInv /\ AskedInv)'
  BY IInvStep, AskedStep
<1>3. IInv /\ AskedInv => NoMoreThanAsked
  <2> SUFFICES ASSUME IInv, AskedInv, NEW r \in rows, r.stn # Master
               PROVE  TimeOf({q \in rows : q.stn = r.stn /\ (cfg[r.stn].qSingle \/ q.date = r.date)})
                        <= cfg[r.stn].runTime
    BY DEF NoMoreThanAsked
  <2>1. r.stn \in Stn /\ r.date \in Int
    BY RowsAre DEF Everyone
  <2> QED
    BY <2>1 DEF AskedInv, AskedIn, MineOf
<1> QED
  BY <1>1, <1>2, <1>3, PTL DEF Spec

(* The limits of a controller, point of connection, program and valve are  *)
(* kept at all times, if each valve alone keeps them and a master valve    *)
(* shares its controller with its own point of connection only: a cycle    *)
(* fits at each of its ticks beside those who are on then, and whatever    *)
(* else happens leaves fewer of them on.  Those who count for a program are *)
(* its program stations: a manual run whose last cycle has begun is none,  *)
(* and may be on beside as many others of its program as may be on alone.  *)
THEOREM LimitsAreKept ==
  ASSUME PlacementAssumption, \A c \in Settings : Fitting(c)
  PROVE  Spec => []WithinLimits
<1>0. IInv => Fitting(cfg)
  BY DEF IInv, TypeOK
<1>1. Init => IInv /\ LimitsInv
  <2> SUFFICES ASSUME Init PROVE LimitsInv
    BY IInvInit
  <2>1. \A k, t : OnAt(uses, gone, rows, k, t) = {}
    BY DEF Init, OnAt
  <2> QED
    BY <2>1 DEF LimitsInv, LimitsIn, KeepsIn
<1>2. IInv /\ LimitsInv /\ [Next]_vars => (IInv /\ LimitsInv)'
  BY <1>0, IInvStep, LimitsStep
<1>3. IInv /\ LimitsInv => WithinLimits
  <2> SUFFICES ASSUME IInv, LimitsInv, NEW t \in UNION {{r.on, r.off} : r \in rows}, NEW k,
                      NEW S, S = {r \in rows : Binding(r, k) /\ r.on <= t /\ t < r.off},
                      NEW limit \in Limits(k, S)
               PROVE  Usage(k, S) <= limit
    BY DEF WithinLimits
  <2>1. t \in Int
    BY RowsAre
  <2>2. S = OnAt(uses, gone, rows, k, t)
    BY DEF OnAt, BindsIn, Binding, Trackers
  <2>3. KeepsIn(uses, k, OnAt(uses, gone, rows, k, t))
    BY <2>1 DEF LimitsInv, LimitsIn
  <2>4. KeepsIn(uses, k, S)
    BY <2>2, <2>3
  <2> QED
    BY <2>4 DEF KeepsIn, Usage, Limits
<1> QED
  BY <1>1, <1>2, <1>3, PTL DEF Spec

(* A rebuild ends: each turn of place_station's loop drops its station or  *)
(* leaves less of a window which had something left.                       *)
THEOREM RebuildEnds == PlacementAssumption /\ Spec => Ends
<1> SUFFICES ASSUME PlacementAssumption PROVE Spec => Ends
  OBVIOUS
<1>1. Init => IInv
  BY IInvInit
<1>2. IInv /\ [Next]_vars => IInv'
  BY IInvStep
<1>3. IInv /\ [Next]_vars =>
        [Placing => \/ todo' = todo \ {First(todo)}
                    \/ todo' = todo /\ window'[2] - window'[1] < window[2] - window[1]]_vars
  <2> SUFFICES ASSUME IInv, Next, Placing
               PROVE  \/ todo' = todo \ {First(todo)}
                      \/ todo' = todo /\ window'[2] - window'[1] < window[2] - window[1]
    OBVIOUS
  <2>1. CASE NextStation
    BY <2>1 DEF NextStation
  <2>2. CASE PlaceStation
    <3>1. todo' = todo
      BY <2>2 DEF PlaceStation
    <3>2. Shrinks(window, window')
      BY <2>2, PlaceIs
    <3> QED
      BY <3>1, <3>2 DEF Shrinks
  <2> QED
    BY <2>1, <2>2 DEF Next, Rebuild, Tick, ManualOff, RemovePending, PocOff, Change
<1> QED
  BY <1>1, <1>2, <1>3, PTL DEF Spec, Ends

(* What WorthIt says of a step. *)
WorthPlacing ==
  \A r \in rows' \ rows : Placing =>
    /\ r.off - r.on <= cfg[r.stn].maxCycleTime
    /\ \/ r.off - r.on >= Shortest(r.stn)
       \/ r.off - r.on = cfg[r.stn].runTime
       \/ cfg[r.stn].maxCycleTime < cfg[r.stn].minCycleTime
    /\ r.on >= now + CleanTime
    /\ \A t \in r.on .. (r.off - 1) : ~Shut(r.stn, t)

(* The master valve is on with a limit of no station. *)
LEMMA NotWhileShut ==
  ASSUME PlacementAssumption, IInv, NEW x \in Stn, NEW t \in Free(x, window[1], window[2]),
         t \in Int, now <= t
  PROVE  ~ Shut(x, t)
<1> SUFFICES ASSUME Shut(x, t) PROVE FALSE
  OBVIOUS
<1>1. PICK r \in rows : r.stn = Master /\ r.on <= t /\ t < r.off /\ cfg[x].poc = cfg[Master].poc
  BY DEF Shut, ShutAt
<1> DEFINE k == <<"pocStations", cfg[Master].poc>>
<1>2. x \in Everyone /\ Master \in Everyone /\ x # Master
  BY DEF Everyone, PlacementAssumption
<1>3. /\ k \in Trackers(Master) /\ uses[Master][k] = Use(0, 0, "poc")
      /\ k \in Trackers(x) /\ uses[x][k].amount = 1 /\ k[1] = "pocStations"
  <2>1. TakesOf(Master, cfg[Master], uses[Master]) /\ TakesOf(x, cfg[x], uses[x])
    BY <1>2, UsesNow
  <2>2. k = <<"pocStations", cfg[x].poc>>
    BY <1>1
  <2>3. k \in Trackers(Master) /\ uses[Master][k] = Use(0, 0, "poc")
    BY <2>1 DEF TakesOf, Trackers
  <2>4. k \in Trackers(x) /\ uses[x][k] = Use(1, cfg[x].pocMaxStations, "poc")
    <3> HIDE DEF k
    <3> QED
      BY <1>2, <2>1, <2>2 DEF TakesOf, Trackers
  <2> QED
    BY <2>3, <2>4 DEF Use
<1> HIDE DEF k
<1> DEFINE S == Active(k, t)
<1>4. r \in Reserved(k) /\ r \in S
  <2>1. Read(r)
    BY <1>1, RowsAre DEF Read, IInv, TypeOK
  <2> QED
    BY <1>1, <1>3, <2>1 DEF Reserved, Binding, Active
<1>5. Fits(x, k, S)
  <2>1. window[1] \in Int /\ window[2] \in Int
    BY DEF IInv, TypeOK
  <2> QED
    BY <1>3, <1>4, <2>1, FreeFits
<1>6. 0 \in Limits(k, S)
  BY <1>1, <1>3, <1>4 DEF Limits, Use
<1>7. Usage(k, S) \in Nat
  <2> DEFINE f == [q \in S |-> uses[q.stn][k].amount]
  <2>1. IsFiniteSet(S) /\ \A q \in S : uses[q.stn][k].amount \in Nat
    BY <1>2, <1>3, ActiveAre, OthersAre
  <2>2. IsFiniteSet(DOMAIN f) /\ \A q \in DOMAIN f : f[q] \in Nat
    BY <2>1
  <2>3. Usage(k, S) = SumFunction(f)
    BY DEF Usage
  <2> HIDE DEF f, S
  <2> QED
    BY <2>2, <2>3, SumIsNat
<1> HIDE DEF S
<1>8. Usage(k, S) + 1 <= 0
  BY <1>3, <1>5, <1>6 DEF Fits
<1> QED
  BY <1>7, <1>8

(* A cycle which is placed is worth opening its valve for and no longer     *)
(* than it may be, begins when the rebuild may place it, and not while its *)
(* point of connection is shut (place_station, SchedPlacer.py).            *)
THEOREM PlacedIsWorthIt == PlacementAssumption /\ Spec => WorthIt
<1> SUFFICES ASSUME PlacementAssumption PROVE Spec => WorthIt
  OBVIOUS
<1>1. Init => IInv
  BY IInvInit
<1>2. IInv /\ [Next]_vars => IInv'
  BY IInvStep
<1>3. IInv /\ [Next]_vars => [WorthPlacing]_rows
  <2> SUFFICES ASSUME IInv, Next, Placing, NEW r \in rows' \ rows
               PROVE  /\ r.off - r.on <= cfg[r.stn].maxCycleTime
                      /\ \/ r.off - r.on >= Shortest(r.stn)
                         \/ r.off - r.on = cfg[r.stn].runTime
                         \/ cfg[r.stn].maxCycleTime < cfg[r.stn].minCycleTime
                      /\ r.on >= now + CleanTime
                      /\ \A t \in r.on .. (r.off - 1) : ~Shut(r.stn, t)
    BY DEF WorthPlacing, vars
  <2>1. PlaceStation
    BY DEF Next, NextStation, Rebuild, Tick, ManualOff, RemovePending, PocOff, Change
  <2>2. PICK j : j = First(todo)
    OBVIOUS
  <2>3. PICK on, off : /\ Placed(j, on, off) /\ j.stn \in Stn /\ window[1] < window[2]
                       /\ r = [stn |-> j.stn, date |-> PgmDate(j), on |-> on, off |-> off]
    BY <2>1, <2>2, PlaceIs
  <2>4. r.stn = j.stn /\ r.on = on /\ r.off = off
    BY <2>3
  <2>5. now + CleanTime <= window[1] /\ now \in Nat /\ CleanTime \in Nat /\ window[1] \in Nat
    BY <2>3 DEF IInv, WindowAhead, TypeOK, PlacementAssumption
  <2>6. r.on >= now + CleanTime
    BY <2>3, <2>4, <2>5 DEF Placed
  <2>7. \A t \in on .. (off - 1) : ~ Shut(j.stn, t)
    <3>1. /\ on \in Int /\ now <= on
          /\ \A t \in on .. (off - 1) : t \in Free(j.stn, window[1], window[2])
      BY <2>3, <2>5 DEF Placed
    <3>2. \A t \in on .. (off - 1) : t \in Int /\ now <= t
      BY <2>5, <3>1
    <3> QED
      BY <2>3, <3>1, <3>2, NotWhileShut
  <2> QED
    BY <2>3, <2>4, <2>6, <2>7 DEF Placed
<1> QED
  BY <1>1, <1>2, <1>3, PTL DEF Spec, WorthIt, WorthPlacing
------------------------------------------------------------------------------
(* Whether x is free at t beside the rows R, whatever window is looked at. *)
Counts(r, k) == Binding(r, k) /\ Read(r)
OnIn(R, k, u) == {r \in R : r.on <= u /\ u < r.off /\ Counts(r, k)}
KeepsFrom(R, x, k, u, t) ==
  (\E r \in R : Counts(r, k)) /\ ~ Fits(x, k, OnIn(R, k, u)) => t \notin Around(x, k, OnIn(R, k, u), u)
FreeBeside(R, x, t) == \A k \in Trackers(x), u \in Int : KeepsFrom(R, x, k, u, t)

(* More numbers have no lesser greatest one. *)
LEMMA GreatestGrows ==
  ASSUME NEW T \in SUBSET Int, IsFiniteSet(T), NEW S \in SUBSET T
  PROVE  Greatest(S) <= Greatest(T) /\ Greatest(S) \in Nat /\ Greatest(T) \in Nat
<1>1. S \in SUBSET Int /\ IsFiniteSet(S)
  BY FS_Subset
<1>2. Greatest(S) \in Nat /\ Greatest(S) \in S \cup {0}
  BY <1>1, GreatestOf
<1>3. Greatest(T) \in Nat /\ \A y \in T : y <= Greatest(T)
  BY GreatestOf
<1> QED
  BY <1>2, <1>3

(* More stations have no lesser margin. *)
LEMMA MarginGrows ==
  ASSUME PlacementAssumption, TypeOK, NEW T \in SUBSET Everyone, IsFiniteSet(T),
         NEW S \in SUBSET T, NEW delay, delay = "sensor" => T \subseteq Stn
  PROVE  Margin(S, delay) <= Margin(T, delay) /\ Margin(S, delay) \in Nat /\ Margin(T, delay) \in Nat
<1>1. DelaysOf(S, delay) \in SUBSET DelaysOf(T, delay)
  BY DEF DelaysOf
<1>2. DelaysOf(T, delay) \in SUBSET Int /\ IsFiniteSet(DelaysOf(T, delay))
  BY DelaysAre
<1>3. Margin(S, delay) = Greatest(DelaysOf(S, delay)) /\ Margin(T, delay) = Greatest(DelaysOf(T, delay))
  BY DEF Margin, DelaysOf
<1> QED
  BY <1>1, <1>2, <1>3, GreatestGrows

(* The margins around x beside T reach no less far than those beside a part *)
(* of T, and no further than the padding of a window.                      *)
LEMMA AroundGrows ==
  ASSUME PlacementAssumption, TypeOK, NEW x \in Stn, NEW T \in SUBSET Everyone, IsFiniteSet(T),
         NEW S \in SUBSET T, NEW delay, delay = "sensor" => T \subseteq Stn
  PROVE  /\ Before(x, S, delay) <= Before(x, T, delay) /\ After(x, S, delay) <= After(x, T, delay)
         /\ Before(x, T, delay) <= Margin(T \cup {x}, delay) /\ After(x, T, delay) <= Margin(T \cup {x}, delay)
         /\ Before(x, S, delay) \in Nat /\ After(x, S, delay) \in Nat
         /\ Before(x, T, delay) \in Nat /\ After(x, T, delay) \in Nat
         /\ Margin(T \cup {x}, delay) \in Nat
<1> DEFINE U == T \cup {x}
<1>1. /\ U \in SUBSET Everyone /\ IsFiniteSet(U) /\ (delay = "sensor" => U \subseteq Stn)
      /\ S \cup {x} \in SUBSET U /\ x \in Everyone
  BY FS_AddElement DEF Everyone
<1>2. CASE delay # "poc"
  <2>1. /\ Margin(S \cup {x}, delay) <= Margin(U, delay)
        /\ Margin(S \cup {x}, delay) \in Nat /\ Margin(U, delay) \in Nat
    <3> HIDE DEF U
    <3> QED
      BY <1>1, MarginGrows
  <2> QED
    BY <1>2, <2>1 DEF Before, After
<1>3. CASE delay = "poc"
  <2> DEFINE all == DelaysOf(U, delay)
  <2> DEFINE ons(V) == {cfg[y].delayOn : y \in V}
  <2> DEFINE offs(V) == {cfg[y].delayOff : y \in V}
  <2>1. all \in SUBSET Int /\ IsFiniteSet(all)
    <3> HIDE DEF U
    <3> QED
      BY <1>1, DelaysAre
  <2>2. /\ {cfg[x].delayOff} \cup ons(S) \in SUBSET ({cfg[x].delayOff} \cup ons(T))
        /\ {cfg[x].delayOn} \cup offs(S) \in SUBSET ({cfg[x].delayOn} \cup offs(T))
    OBVIOUS
  <2>3. {cfg[x].delayOff} \cup ons(T) \in SUBSET all /\ {cfg[x].delayOn} \cup offs(T) \in SUBSET all
    BY <1>3 DEF DelaysOf
  <2>4. /\ Before(x, S, delay) = Greatest({cfg[x].delayOff} \cup ons(S))
        /\ Before(x, T, delay) = Greatest({cfg[x].delayOff} \cup ons(T))
        /\ After(x, S, delay) = Greatest({cfg[x].delayOn} \cup offs(S))
        /\ After(x, T, delay) = Greatest({cfg[x].delayOn} \cup offs(T))
    BY <1>3 DEF Before, After
  <2>5. Margin(U, delay) = Greatest(all)
    BY DEF Margin, DelaysOf
  <2> HIDE DEF ons, offs, all, U
  <2>6. /\ {cfg[x].delayOff} \cup ons(T) \in SUBSET Int /\ IsFiniteSet({cfg[x].delayOff} \cup ons(T))
        /\ {cfg[x].delayOn} \cup offs(T) \in SUBSET Int /\ IsFiniteSet({cfg[x].delayOn} \cup offs(T))
    BY <2>1, <2>3, FS_Subset
  <2>7. /\ Before(x, S, delay) <= Before(x, T, delay)
        /\ Before(x, S, delay) \in Nat /\ Before(x, T, delay) \in Nat
    BY <2>2, <2>4, <2>6, GreatestGrows
  <2>8. /\ After(x, S, delay) <= After(x, T, delay)
        /\ After(x, S, delay) \in Nat /\ After(x, T, delay) \in Nat
    BY <2>2, <2>4, <2>6, GreatestGrows
  <2>9. /\ Before(x, T, delay) <= Margin(U, delay) /\ After(x, T, delay) <= Margin(U, delay)
        /\ Margin(U, delay) \in Nat
    BY <2>1, <2>3, <2>4, <2>5, GreatestGrows
  <2> QED
    BY <2>7, <2>8, <2>9 DEF U
<1> QED
  BY <1>2, <1>3

(* Which ticks are free does not depend on the window which is looked at. *)
LEMMA FreeIs ==
  ASSUME PlacementAssumption, IInv, NEW x \in Stn,
         NEW lo \in Int, NEW hi \in Int, NEW t \in lo .. (hi - 1)
  PROVE  t \in Free(x, lo, hi) <=> FreeBeside(rows, x, t)
<1>1. \A k, u : OnIn(rows, k, u) = Active(k, u)
  BY DEF OnIn, Counts, Active, Reserved
<1>2. \A k : Reserved(k) # {} <=> \E r \in rows : Counts(r, k)
  BY DEF Reserved, Counts
<1>3. ASSUME NEW k \in Trackers(x), Reserved(k) # {}
      PROVE  t \notin Blocked(x, k, lo, hi) <=> \A u \in Int : KeepsFrom(rows, x, k, u, t)
  <2>1. t \in Blocked(x, k, lo, hi) <=>
          \E u \in (lo - Padding(x, k)) .. (hi + Padding(x, k) - 1) :
            ~ Fits(x, k, Active(k, u)) /\ t \in Around(x, k, Active(k, u), u)
    BY DEF Blocked
  <2>2. \A u \in Int : KeepsFrom(rows, x, k, u, t) <=>
          ~ (~ Fits(x, k, Active(k, u)) /\ t \in Around(x, k, Active(k, u), u))
    BY <1>1, <1>2, <1>3 DEF KeepsFrom
  <2>3. ASSUME NEW u \in Int, t \in Around(x, k, Active(k, u), u)
        PROVE  Padding(x, k) \in Nat /\ u \in (lo - Padding(x, k)) .. (hi + Padding(x, k) - 1)
    <3> DEFINE d == uses[x][k].delay
    <3> DEFINE S == Others(Active(k, u))
    <3> DEFINE T == Others(Reserved(k))
    <3>1. x \in Everyone /\ TypeOK
      BY DEF Everyone, IInv
    <3>2. T \in SUBSET Everyone /\ IsFiniteSet(T) /\ (d = "sensor" => T \subseteq Stn)
      BY <3>1, OthersAre
    <3>3. S \in SUBSET T
      BY ActiveAre DEF Others
    <3>4. Padding(x, k) = Margin(T \cup {x}, d)
      <4>1. {x} \cup T = T \cup {x}
        OBVIOUS
      <4> HIDE DEF T
      <4> QED
        BY <4>1 DEF Padding, T
    <3>5. Around(x, k, Active(k, u), u) = (u - Before(x, S, d)) .. (u + After(x, S, d))
      BY DEF Around
    <3> HIDE DEF S, T, d
    <3>6. /\ Before(x, S, d) <= Padding(x, k) /\ After(x, S, d) <= Padding(x, k)
          /\ Before(x, S, d) \in Nat /\ After(x, S, d) \in Nat /\ Padding(x, k) \in Nat
      <4>1. /\ Before(x, S, d) <= Before(x, T, d) /\ After(x, S, d) <= After(x, T, d)
            /\ Before(x, T, d) <= Margin(T \cup {x}, d) /\ After(x, T, d) <= Margin(T \cup {x}, d)
            /\ Before(x, S, d) \in Nat /\ After(x, S, d) \in Nat
            /\ Before(x, T, d) \in Nat /\ After(x, T, d) \in Nat /\ Margin(T \cup {x}, d) \in Nat
        BY <3>1, <3>2, <3>3, AroundGrows
      <4>2. PICK b, c, e, f, p : /\ b = Before(x, S, d) /\ c = After(x, S, d)
                                 /\ e = Before(x, T, d) /\ f = After(x, T, d) /\ p = Margin(T \cup {x}, d)
        OBVIOUS
      <4> QED
        BY <3>4, <4>1, <4>2
    <3>7. PICK b, c, p : b = Before(x, S, d) /\ c = After(x, S, d) /\ p = Padding(x, k)
      OBVIOUS
    <3>8. u - b <= t /\ t <= u + c /\ lo <= t /\ t <= hi - 1 /\ t \in Int
      BY <2>3, <3>5, <3>6, <3>7
    <3>9. p \in Nat /\ lo - p <= u /\ u <= hi + p - 1
      BY <3>6, <3>7, <3>8
    <3> QED
      BY <3>7, <3>9
  <2>4. Padding(x, k) \in Nat => \A u \in (lo - Padding(x, k)) .. (hi + Padding(x, k) - 1) : u \in Int
    OBVIOUS
  <2> QED
    BY <2>1, <2>2, <2>3, <2>4
<1>4. ASSUME NEW k \in Trackers(x), Reserved(k) = {}, NEW u \in Int
      PROVE  KeepsFrom(rows, x, k, u, t)
  BY <1>2, <1>4 DEF KeepsFrom
<1>5. t \in Free(x, lo, hi) <=> \A k \in Trackers(x) : Reserved(k) # {} => t \notin Blocked(x, k, lo, hi)
  BY DEF Free
<1> QED
  BY <1>3, <1>4, <1>5 DEF FreeBeside

(* More rows leave less free. *)
LEMMA FitsLess ==
  ASSUME NEW x, NEW k, uses[x][k].amount \in Nat, uses[x][k].limit \in Int,
         NEW T, IsFiniteSet(T), NEW S \in SUBSET T,
         \A r \in T : uses[r.stn][k].amount \in Nat /\ uses[r.stn][k].limit \in Int,
         Fits(x, k, T)
  PROVE  Fits(x, k, S)
<1> DEFINE f == [r \in T |-> uses[r.stn][k].amount]
<1> DEFINE h == [r \in S |-> uses[r.stn][k].amount]
<1> DEFINE p == [r \in S |-> r]
<1>1. /\ DOMAIN f = T /\ DOMAIN h = S /\ p \in [S -> T] /\ IsInjective(p)
      /\ \A y \in S : h[y] = f[p[y]]
      /\ (\A y \in T : f[y] \in Nat) /\ (\A y \in S : h[y] \in Nat)
  BY DEF IsInjective
<1>2. Usage(k, T) = SumFunction(f) /\ Usage(k, S) = SumFunction(h)
  BY DEF Usage
<1>3. Usage(k, S) <= Usage(k, T) /\ Usage(k, S) \in Nat /\ Usage(k, T) \in Nat
  <2> HIDE DEF f, h, p
  <2>1. IsFiniteSet(S) /\ \A y \in S : h[y] <= f[p[y]]
    <3>1. \A y \in S : h[y] \in Nat
      BY <1>1
    <3> QED
      BY <1>1, <3>1, FS_Subset
  <2>2. SumFunction(h) <= SumFunction(f)
    BY <1>1, <2>1, SumShrinks
  <2>3. SumFunction(h) \in Nat /\ SumFunction(f) \in Nat
    BY <1>1, <2>1, SumIsNat
  <2> QED
    BY <1>2, <2>2, <2>3
<1>4. SUFFICES ASSUME NEW limit \in {uses[x][k].limit} \cup Limits(k, S)
               PROVE  Usage(k, S) + uses[x][k].amount <= limit
  BY DEF Fits
<1>5. limit \in {uses[x][k].limit} \cup Limits(k, T) /\ limit \in Int
  BY <1>4 DEF Limits
<1>6. Usage(k, T) + uses[x][k].amount <= limit
  BY <1>5 DEF Fits
<1> QED
  BY <1>3, <1>5, <1>6

(* What is free beside more rows is free beside those there are. *)
LEMMA FreeBesideMore ==
  ASSUME PlacementAssumption, IInv, NEW x \in Stn, NEW t \in Int,
         NEW R, RowsOK(R), rows \subseteq R, FreeBeside(R, x, t)
  PROVE  FreeBeside(rows, x, t)
<1> SUFFICES ASSUME NEW k \in Trackers(x), NEW u \in Int, \E r \in rows : Counts(r, k),
                    ~ Fits(x, k, OnIn(rows, k, u))
             PROVE  t \notin Around(x, k, OnIn(rows, k, u), u)
  BY DEF FreeBeside, KeepsFrom
<1> DEFINE S == OnIn(rows, k, u)
<1> DEFINE T == OnIn(R, k, u)
<1> DEFINE d == uses[x][k].delay
<1>1. S \in SUBSET T /\ T \in SUBSET R /\ IsFiniteSet(T)
  <2>1. S \in SUBSET T /\ T \in SUBSET R
    BY DEF OnIn
  <2>2. IsFiniteSet(R)
    BY DEF RowsOK
  <2> HIDE DEF S, T
  <2> QED
    BY <2>1, <2>2, FS_Subset
<1>2. \A y \in Everyone : TakesOf(y, cfg[y], uses[y])
  BY UsesNow
<1>3. x \in Everyone /\ \A r \in T : r.stn \in Everyone /\ k \in Trackers(r.stn)
  BY <1>1 DEF OnIn, Counts, Binding, RowsOK, Row, Everyone
<1>4. /\ uses[x][k].amount \in Nat /\ uses[x][k].limit \in Int
      /\ \A r \in T : uses[r.stn][k].amount \in Nat /\ uses[r.stn][k].limit \in Int
  <2> HIDE DEF T
  <2> QED
    BY <1>2, <1>3 DEF TakesOf, Trackers
<1>5. ~ Fits(x, k, T)
  <2> HIDE DEF T
  <2> QED
    BY <1>1, <1>4, FitsLess
<1>6. t \notin Around(x, k, T, u)
  BY <1>5 DEF FreeBeside, KeepsFrom
<1>7. d = "sensor" => \A r \in T : r.stn \in Stn
  <2>1. d = "sensor" => k[1] = "sensor"
    BY <1>2, <1>3 DEF TakesOf, Trackers
  <2>2. ASSUME k[1] = "sensor", NEW r \in T PROVE r.stn \in Stn
    <3> HIDE DEF T
    <3>1. TakesOf(r.stn, cfg[r.stn], uses[r.stn]) /\ k \in Trackers(r.stn)
      BY <1>2, <1>3
    <3> QED
      BY <2>2, <3>1 DEF TakesOf, Trackers
  <2> QED
    BY <2>1, <2>2
<1>8. /\ Others(T) \in SUBSET Everyone /\ IsFiniteSet(Others(T)) /\ Others(S) \in SUBSET Others(T)
      /\ d = "sensor" => Others(T) \subseteq Stn
  <2>1. Others(T) \in SUBSET Everyone
    BY <1>3 DEF Others
  <2>2. Others(S) \in SUBSET Others(T)
    BY <1>1 DEF Others
  <2>3. d = "sensor" => Others(T) \subseteq Stn
    BY <1>7 DEF Others
  <2>4. IsFiniteSet(Others(T))
    <3> DEFINE g == [r \in T |-> r.stn]
    <3>1. Others(T) = {g[r] : r \in T} /\ DOMAIN g = T
      BY DEF Others
    <3> HIDE DEF g, T
    <3> QED
      BY <1>1, <3>1, ImageIsFinite
  <2> QED
    BY <2>1, <2>2, <2>3, <2>4
<1>9. PICK b, c, e, f :
        /\ b = Before(x, Others(S), d) /\ c = After(x, Others(S), d)
        /\ e = Before(x, Others(T), d) /\ f = After(x, Others(T), d)
  OBVIOUS
<1>10. b <= e /\ c <= f /\ b \in Nat /\ c \in Nat /\ e \in Nat /\ f \in Nat
  <2>1. TypeOK
    BY DEF IInv
  <2> HIDE DEF S, T, d
  <2> QED
    BY <1>8, <1>9, <2>1, AroundGrows
<1>11. ~ (u - e <= t /\ t <= u + f)
  BY <1>6, <1>9, <1>10 DEF Around
<1>12. ~ (u - b <= t /\ t <= u + c)
  BY <1>10, <1>11
<1> QED
  BY <1>9, <1>10, <1>12 DEF Around

(* Around a row of x itself nothing is free to it, the gap before and after *)
(* it included.                                                            *)
LEMMA NotAroundItself ==
  ASSUME PlacementAssumption, IInv, NEW R, RowsOK(R), NEW q \in R, q.stn \in Stn, now < q.off,
         NEW t \in Int, FreeBeside(R, q.stn, t)
  PROVE  t < q.on - Gap(q.stn) \/ q.off + Gap(q.stn) <= t
<1> DEFINE x == q.stn
<1> DEFINE k == <<"sensor", cfg[x].sensor>>
<1>1. x \in Everyone /\ q.on \in Nat /\ q.off \in Nat /\ q.on < q.off /\ Gap(x) \in Nat /\ TypeOK
  BY SettingsAre DEF RowsOK, Row, Everyone, IInv
<1> HIDE DEF x
<1>2. k \in Trackers(x) /\ uses[x][k] = Use(1, 1, "sensor")
  <2>1. TakesOf(x, cfg[x], uses[x]) /\ x \in Stn
    BY <1>1, UsesNow DEF x
  <2> QED
    BY <2>1 DEF TakesOf, Trackers
<1>0. Counts(q, k)
  <2>1. k[1] = "sensor" /\ q.off > now
    BY <1>1 DEF TypeOK, x
  <2> HIDE DEF k
  <2> QED
    BY <1>2, <2>1 DEF Counts, Binding, Read, x
<1> HIDE DEF k
<1>3. PICK u \in Int : q.on <= u /\ u < q.off /\ (q.on - Gap(x) <= t /\ t < q.off + Gap(x) => u - Gap(x) <= t /\ t <= u + Gap(x))
  <2>1. CASE t < q.on
    BY <1>1, <2>1
  <2>2. CASE q.off <= t
    <3>1. q.off - 1 \in Int
      BY <1>1
    <3> QED
      BY <1>1, <2>2, <3>1
  <2>3. CASE q.on <= t /\ t < q.off
    BY <1>1, <2>3
  <2> QED
    BY <1>1, <2>1, <2>2, <2>3
<1> DEFINE S == OnIn(R, k, u)
<1>4. q \in S /\ S \in SUBSET R /\ IsFiniteSet(S)
  <2>1. q \in S /\ S \in SUBSET R
    BY <1>0, <1>3 DEF OnIn
  <2>2. IsFiniteSet(R)
    BY DEF RowsOK
  <2> HIDE DEF S
  <2> QED
    BY <2>1, <2>2, FS_Subset
<1>5. \A r \in S : r.stn \in Everyone /\ k \in Trackers(r.stn)
  BY <1>4 DEF OnIn, Counts, Binding, RowsOK, Row, Everyone
<1>6. k[1] = "sensor"
  BY DEF k
<1>7. \A r \in S : r.stn \in Stn /\ uses[r.stn][k] = Use(1, 1, "sensor")
  <2> HIDE DEF S
  <2> SUFFICES ASSUME NEW r \in S PROVE r.stn \in Stn /\ uses[r.stn][k] = Use(1, 1, "sensor")
    OBVIOUS
  <2>1. TakesOf(r.stn, cfg[r.stn], uses[r.stn]) /\ k \in Trackers(r.stn)
    BY <1>5, UsesNow
  <2> QED
    BY <1>6, <2>1 DEF TakesOf, Trackers
<1> HIDE DEF S
<1>8. Usage(k, S) \in Nat /\ 1 <= Usage(k, S)
  <2> DEFINE f == [r \in S |-> uses[r.stn][k].amount]
  <2>1. IsFiniteSet(DOMAIN f) /\ (\A r \in DOMAIN f : f[r] \in Nat) /\ q \in DOMAIN f /\ f[q] = 1
    BY <1>4, <1>7 DEF Use
  <2>2. Usage(k, S) = SumFunction(f)
    BY DEF Usage
  <2> HIDE DEF f
  <2> QED
    BY <2>1, <2>2, SumIsNat
<1>9. ~ Fits(x, k, S)
  <2>1. uses[x][k].amount = 1 /\ uses[x][k].limit = 1
    BY <1>2 DEF Use
  <2>2. ~ (Usage(k, S) + 1 <= 1)
    BY <1>8
  <2> QED
    BY <2>1, <2>2 DEF Fits
<1>10. /\ Others(S) \in SUBSET Everyone /\ IsFiniteSet(Others(S)) /\ Others(S) \subseteq Stn
  <2>1. Others(S) \in SUBSET Everyone /\ Others(S) \subseteq Stn
    BY <1>5, <1>7 DEF Others
  <2>2. IsFiniteSet(Others(S))
    <3> DEFINE g == [r \in S |-> r.stn]
    <3>1. Others(S) = {g[r] : r \in S} /\ DOMAIN g = S
      BY DEF Others
    <3> HIDE DEF g
    <3> QED
      BY <1>4, <3>1, ImageIsFinite
  <2> QED
    BY <2>1, <2>2
<1>11. PICK b, c : b = Before(x, Others(S), "sensor") /\ c = After(x, Others(S), "sensor")
  OBVIOUS
<1>12. b \in Nat /\ c \in Nat /\ Gap(x) <= b /\ Gap(x) <= c
  <2>1. x \in Others(S) \cup {x} /\ x \in Stn
    BY DEF x
  <2> QED
    BY <1>1, <1>10, <1>11, <2>1, AroundIs
<1>13. t \notin Around(x, k, S, u)
  <2>1. \E r \in R : Counts(r, k)
    BY <1>0
  <2> QED
    BY <1>2, <1>9, <2>1 DEF FreeBeside, KeepsFrom, S, x
<1>14. ~ (u - b <= t /\ t <= u + c)
  BY <1>2, <1>11, <1>12, <1>13 DEF Around, Use
<1>15. ~ (u - Gap(x) <= t /\ t <= u + Gap(x))
  BY <1>1, <1>12, <1>14
<1> QED
  BY <1>1, <1>3, <1>15 DEF x

(* A slot reaches as far as it can, so slots are apart, and what is free and *)
(* long enough lies in one.                                                *)
LEMMA SlotIsWhole ==
  ASSUME NEW x, NEW lo \in Nat, NEW hi \in Nat, NEW least, NEW w \in Slots(x, lo, hi, least)
  PROVE  w[1] - 1 \notin Free(x, lo, hi) /\ w[2] \notin Free(x, lo, hi)
<1> DEFINE free == Free(x, lo, hi)
<1>1. free \subseteq lo .. (hi - 1)
  BY DEF Free
<1>2. PICK a \in free : a - 1 \notin free /\ w = <<a, Min({b \in a .. hi : b \notin free})>>
  BY DEF Slots
<1> DEFINE stops == {b \in a .. hi : b \notin free}
<1> HIDE DEF free
<1>3. stops \in SUBSET Nat /\ hi \in stops
  BY <1>1, <1>2
<1>4. PICK b \in stops : \A n \in stops : b <= n
  <2> HIDE DEF stops
  <2> QED
    BY <1>3, LeastNumber
<1>5. Min(stops) \in stops
  <2> HIDE DEF stops
  <2> QED
    BY <1>4 DEF Min
<1>6. w[1] = a /\ w[2] = Min(stops)
  BY <1>2
<1> QED
  BY <1>2, <1>5, <1>6 DEF free

(* Two slots are one, or apart. *)
LEMMA SlotsApart ==
  ASSUME NEW x, NEW lo \in Nat, NEW hi \in Nat, NEW least,
         NEW v \in Slots(x, lo, hi, least), NEW w \in Slots(x, lo, hi, least)
  PROVE  v = w \/ v[2] <= w[1] \/ w[2] <= v[1]
<1> DEFINE free == Free(x, lo, hi)
<1>1. SlotOf(x, lo, hi, least, v) /\ SlotOf(x, lo, hi, least, w)
  BY SlotIs
<1>2. /\ v[1] - 1 \notin free /\ v[2] \notin free /\ w[1] - 1 \notin free /\ w[2] \notin free
  BY SlotIsWhole
<1>3. PICK a, b, c, d : v = <<a, b>> /\ w = <<c, d>>
  BY <1>1 DEF SlotOf
<1>4. /\ a \in Nat /\ b \in Nat /\ a < b /\ \A t \in a .. (b - 1) : t \in free
      /\ c \in Nat /\ d \in Nat /\ c < d /\ \A t \in c .. (d - 1) : t \in free
  BY <1>1, <1>3 DEF SlotOf
<1>5. a - 1 \notin free /\ b \notin free /\ c - 1 \notin free /\ d \notin free
  BY <1>2, <1>3
<1> HIDE DEF free
<1>6. (a = c /\ b = d) \/ b <= c \/ d <= a
  <2> SUFFICES ASSUME c < b, a < d PROVE a = c /\ b = d
    BY <1>4
  <2>1. ~ (a < c)
    <3>1. a < c => c - 1 \in a .. (b - 1)
      BY <1>4
    <3> QED
      BY <1>4, <1>5, <3>1
  <2>2. ~ (c < a)
    <3>1. c < a => a - 1 \in c .. (d - 1)
      BY <1>4
    <3> QED
      BY <1>4, <1>5, <3>1
  <2>3. ~ (b < d)
    <3>1. b < d => b \in c .. (d - 1)
      BY <1>4
    <3> QED
      BY <1>4, <1>5, <3>1
  <2>4. ~ (d < b)
    <3>1. d < b => d \in a .. (b - 1)
      BY <1>4
    <3> QED
      BY <1>4, <1>5, <3>1
  <2> QED
    BY <1>4, <2>1, <2>2, <2>3, <2>4
<1> QED
  BY <1>3, <1>6

(* Room which is free lies in a slot, if it is not shorter than a slot may be. *)
LEMMA SlotAround ==
  ASSUME NEW x, NEW lo \in Nat, NEW hi \in Nat, NEW least \in Int,
         NEW a \in Int, NEW n \in Nat \ {0}, least <= n,
         \A t \in a .. (a + n - 1) : t \in Free(x, lo, hi)
  PROVE  \E v \in Slots(x, lo, hi, least) : v[1] <= a /\ a + n <= v[2]
<1> DEFINE free == Free(x, lo, hi)
<1>1. free \subseteq lo .. (hi - 1) /\ \A t \in a .. (a + n - 1) : t \in free
  BY DEF Free
<1> HIDE DEF free
<1>2. a \in free /\ a \in Nat /\ a + n - 1 \in free /\ a + n <= hi
  <2>1. a \in a .. (a + n - 1) /\ a + n - 1 \in a .. (a + n - 1)
    OBVIOUS
  <2> QED
    BY <1>1, <2>1
<1> DEFINE starts == {b \in 0 .. a : \A t \in b .. a : t \in free}
<1>3. PICK b \in starts : \A c \in starts : b <= c
  <2>1. starts \in SUBSET Nat /\ a \in starts
    BY <1>2
  <2> HIDE DEF starts
  <2> QED
    BY <2>1, LeastNumber
<1>4. b \in Nat /\ b <= a /\ b \in free /\ \A t \in b .. a : t \in free
  BY <1>2, <1>3
<1>5. b - 1 \notin free
  <2> SUFFICES ASSUME b - 1 \in free PROVE FALSE
    OBVIOUS
  <2>1. b - 1 \in Nat
    BY <1>1
  <2>2. \A t \in (b - 1) .. a : t \in free
    <3>1. \A t \in (b - 1) .. a : t = b - 1 \/ t \in b .. a
      BY <1>4
    <3> QED
      BY <1>4, <3>1
  <2>3. b - 1 \in starts
    BY <1>2, <1>4, <2>1, <2>2
  <2> QED
    BY <1>3, <1>4, <2>3
<1> DEFINE stops == {c \in b .. hi : c \notin free}
<1>6. PICK e : e = Min(stops)
  OBVIOUS
<1>7. e \in stops
  <2>1. stops \in SUBSET Nat /\ hi \in stops
    BY <1>1, <1>2, <1>4
  <2> HIDE DEF stops
  <2>2. PICK c \in stops : \A m \in stops : c <= m
    BY <2>1, LeastNumber
  <2> QED
    BY <1>6, <2>2 DEF Min
<1>8. e \in Nat /\ e \notin free /\ b <= e
  BY <1>2, <1>4, <1>7
<1>9. a + n <= e
  <2> SUFFICES ASSUME e < a + n PROVE FALSE
    BY <1>2, <1>8
  <2>1. e \in b .. a \/ e \in a .. (a + n - 1)
    BY <1>2, <1>4, <1>8
  <2> QED
    BY <1>1, <1>4, <1>8, <2>1
<1> DEFINE v == <<b, e>>
<1>10. v \in Slots(x, lo, hi, least)
  <2>1. e - b >= least
    BY <1>2, <1>4, <1>8, <1>9
  <2>2. v[1] = b /\ v[2] = e
    OBVIOUS
  <2>3. v = <<b, Min({c \in b .. hi : c \notin Free(x, lo, hi)})>>
    BY <1>6 DEF free
  <2>4. b \in Free(x, lo, hi) /\ b - 1 \notin Free(x, lo, hi)
    BY <1>4, <1>5 DEF free
  <2> HIDE DEF v
  <2> QED
    BY <2>1, <2>2, <2>3, <2>4 DEF Slots
<1> QED
  BY <1>4, <1>9, <1>10

(* The next slot is at the end of the window from which it is filled. *)
LEMMA NextSlotIsNext ==
  ASSUME NEW x, NEW lo \in Nat, NEW hi \in Nat, NEW least, NEW j,
         NEW slots, slots = Slots(x, lo, hi, least), NEW v \in slots
  PROVE  /\ NextSlot(j, slots) \in slots
         /\ IF Backward(j) THEN v[1] <= NextSlot(j, slots)[1] ELSE NextSlot(j, slots)[1] <= v[1]
<1> DEFINE begins == {w[1] : w \in slots}
<1>1. \A w \in slots : SlotOf(x, lo, hi, least, w)
  BY SlotIs
<1>2. begins \in SUBSET Int /\ begins \subseteq lo .. hi /\ begins # {}
  BY <1>1 DEF SlotOf
<1>3. IsFiniteSet(begins)
  <2>1. IsFiniteSet(lo .. hi)
    BY FS_Interval
  <2> HIDE DEF begins
  <2> QED
    BY <1>2, <2>1, FS_Subset
<1>4. /\ Max(begins) \in begins /\ \A b \in begins : b <= Max(begins)
      /\ Min(begins) \in begins /\ \A b \in begins : Min(begins) <= b
  <2> HIDE DEF begins
  <2> QED
    BY <1>2, <1>3, GreatestIsOne, LeastIsOne
<1> DEFINE at == IF Backward(j) THEN Max(begins) ELSE Min(begins)
<1>5. NextSlot(j, slots) \in slots /\ NextSlot(j, slots)[1] = at
  <2>1. \E w \in slots : w[1] = at
    BY <1>4
  <2> QED
    BY <2>1 DEF NextSlot
<1>6. v[1] \in begins
  OBVIOUS
<1> HIDE DEF begins
<1> QED
  BY <1>4, <1>5, <1>6
------------------------------------------------------------------------------
(* Room for a cycle worth its while is in what is left of the window. *)
Room(j, a, n) == \A t \in a .. (a + n - 1) : FreeBeside(rows, j.stn, t)
AheadIn(j, w) ==
  Shortest(j.stn) \in 1 .. cfg[j.stn].maxCycleTime =>
    \A a \in w[1] .. (w[2] - Shortest(j.stn)) :
      Room(j, a, Shortest(j.stn)) => window[1] <= a /\ a + Shortest(j.stn) <= window[2]
RoomAhead == Placing => AheadIn(First(todo), WindowOf(First(todo)))

(* The slot of the room, beside that which is used next. *)
LEMMA RoomIsInSlot ==
  ASSUME PlacementAssumption, IInv, NEW j, j.stn \in Stn,
         NEW n, n = Shortest(j.stn), n \in Nat \ {0},
         NEW a \in Int, Room(j, a, n), window[1] <= a, a + n <= window[2]
  PROVE  \E v \in SlotsLeft(j) :
           /\ SlotOf(j.stn, window[1], window[2], Min({n, TimeNeeded(j)}), v)
           /\ v[1] <= a /\ a + n <= v[2]
<1>1. PICK x, lo, hi, m : x = j.stn /\ lo = window[1] /\ hi = window[2] /\ m = Min({n, TimeNeeded(j)})
  OBVIOUS
<1>2. lo \in Nat /\ hi \in Nat /\ x \in Stn
  BY <1>1 DEF IInv, TypeOK
<1>3. m \in Int /\ m <= n
  <2>1. n \in Int
    OBVIOUS
  <2>2. TimeNeeded(j) \in Int
    BY TimeNeededIs
  <2> QED
    BY <1>1, <2>1, <2>2, LeastOfTwo
<1>4. \A t \in a .. (a + n - 1) : t \in Free(x, lo, hi)
  <2> SUFFICES ASSUME NEW t \in a .. (a + n - 1) PROVE t \in Free(x, lo, hi)
    OBVIOUS
  <2>1. t \in lo .. (hi - 1) /\ lo \in Int /\ hi \in Int
    BY <1>1, <1>2
  <2>2. FreeBeside(rows, x, t)
    BY <1>1 DEF Room
  <2> QED
    BY <1>2, <2>1, <2>2, FreeIs
<1>5. SlotsLeft(j) = Slots(x, lo, hi, m)
  BY <1>1 DEF SlotsLeft
<1>6. PICK v \in Slots(x, lo, hi, m) : v[1] <= a /\ a + n <= v[2]
  BY <1>2, <1>3, <1>4, SlotAround
<1>7. SlotOf(x, lo, hi, m, v)
  BY <1>2, <1>6, SlotIs
<1> QED
  BY <1>1, <1>5, <1>6, <1>7

(* A turn of the loop changes nothing but the rows of what makes a tick free. *)
LEMMA RoomNext ==
  ASSUME cfg' = cfg, uses' = uses, gone' = gone, now' = now, NEW j, NEW a, NEW n
  PROVE  Room(j, a, n)' <=> \A t \in a .. (a + n - 1) : FreeBeside(rows', j.stn, t)
<1>1. \A x : Trackers(x)' = Trackers(x)
  BY DEF Trackers
<1>2. \A y : Gap(y)' = Gap(y)
  BY DEF Gap
<1>3. \A S, delay : Margin(S, delay)' = Margin(S, delay)
  BY <1>2 DEF Margin
<1>4. \A x, S, delay : Before(x, S, delay)' = Before(x, S, delay) /\ After(x, S, delay)' = After(x, S, delay)
  BY <1>3 DEF Before, After
<1>5. \A x, k, S, t : Around(x, k, S, t)' = Around(x, k, S, t)
  BY <1>4 DEF Around
<1>6. \A k, S : Usage(k, S)' = Usage(k, S) /\ Limits(k, S)' = Limits(k, S)
  BY DEF Usage, Limits
<1>7. \A x, k, S : Fits(x, k, S)' <=> Fits(x, k, S)
  BY <1>6 DEF Fits
<1>8. /\ \A r, k : Counts(r, k)' <=> Counts(r, k)
      /\ \A R, k, u : OnIn(R, k, u)' = OnIn(R, k, u)
  <2>1. \A r, k : Counts(r, k)' <=> Counts(r, k)
    BY <1>1 DEF Counts, Binding, Read, Today
  <2> QED
    BY <2>1 DEF OnIn
<1>9. \A R, x, k, u, t : KeepsFrom(R, x, k, u, t)' <=> KeepsFrom(R, x, k, u, t)
  BY <1>1, <1>5, <1>7, <1>8 DEF KeepsFrom
<1>10. \A R, x, t : FreeBeside(R, x, t)' <=> FreeBeside(R, x, t)
  BY <1>1, <1>9 DEF FreeBeside
<1> QED
  BY <1>10 DEF Room

(* Neither a slot which is passed over nor a cycle takes room from what is *)
(* left of the window but what it uses, or blocks.                         *)
LEMMA RoomStaysAhead ==
  ASSUME PlacementAssumption, IInv, PlaceStation, IInv', NEW j, j = First(todo), NEW n, n = Shortest(j.stn),
         n \in 1 .. cfg[j.stn].maxCycleTime,
         NEW a \in Int, Room(j, a, n)', window[1] <= a, a + n <= window[2]
  PROVE  window'[1] <= a /\ a + n <= window'[2]
<1>1. /\ j \in todo /\ j.stn \in Stn /\ cfg' = cfg /\ uses' = uses /\ rows \subseteq rows'
      /\ gone' = gone /\ now' = now /\ Placing
  BY PlaceIs DEF PlaceStation
<1>2. n \in Nat \ {0} /\ n <= cfg[j.stn].maxCycleTime /\ cfg[j.stn].maxCycleTime \in Nat
  <2>1. TypeOK
    BY DEF IInv
  <2>2. Shortest(j.stn) \in Nat /\ cfg[j.stn].maxCycleTime \in Nat
    BY <1>1, <2>1, ShortestIs
  <2>3. PICK most \in Nat : most = cfg[j.stn].maxCycleTime
    BY <2>2
  <2> QED
    BY <2>3
<1>3. \A t \in a .. (a + n - 1) : FreeBeside(rows', j.stn, t)
  BY <1>1, RoomNext
<1>4. RowsOK(rows')
  BY DEF IInv, TypeOK, RowsOK
<1>5. Room(j, a, n)
  <2> SUFFICES ASSUME NEW t \in a .. (a + n - 1) PROVE FreeBeside(rows, j.stn, t)
    BY DEF Room
  <2>1. t \in Int /\ FreeBeside(rows', j.stn, t)
    BY <1>2, <1>3
  <2> QED
    BY <1>1, <1>4, <2>1, FreeBesideMore
<1>6. PICK m : m = Min({n, TimeNeeded(j)})
  OBVIOUS
<1>7. PICK slots : slots = SlotsLeft(j)
  OBVIOUS
<1>8. PICK v \in slots : SlotOf(j.stn, window[1], window[2], m, v) /\ v[1] <= a /\ a + n <= v[2]
  BY <1>1, <1>2, <1>5, <1>6, <1>7, RoomIsInSlot
<1>9. PICK slot : slot = NextSlot(j, slots)
  OBVIOUS
<1>10. window[1] \in Nat /\ window[2] \in Nat /\ window = <<window[1], window[2]>>
  BY DEF IInv, TypeOK
<1>11. /\ SlotOf(j.stn, window[1], window[2], m, slot)
       /\ IF Backward(j) THEN v[1] <= slot[1] ELSE slot[1] <= v[1]
       /\ v = slot \/ v[2] <= slot[1] \/ slot[2] <= v[1]
  <2>1. slots = Slots(j.stn, window[1], window[2], m)
    BY <1>2, <1>6, <1>7 DEF SlotsLeft
  <2>2. slot \in slots /\ (IF Backward(j) THEN v[1] <= slot[1] ELSE slot[1] <= v[1])
    BY <1>8, <1>9, <1>10, <2>1, NextSlotIsNext
  <2> QED
    BY <1>8, <1>10, <2>1, <2>2, SlotIs, SlotsApart
<1>12. PICK b, c, d, e : b = v[1] /\ c = v[2] /\ d = slot[1] /\ e = slot[2]
  OBVIOUS
<1>13. /\ b \in Nat /\ c \in Nat /\ d \in Nat /\ e \in Nat /\ b < c /\ d < e
       /\ b <= a /\ a + n <= c
  BY <1>8, <1>11, <1>12 DEF SlotOf
<1>14. v = slot => b = d /\ c = e
  BY <1>12
<1>15. /\ Backward(j) => a + n <= e
       /\ ~ Backward(j) => d <= a
  BY <1>2, <1>11, <1>12, <1>13, <1>14
<1>16. /\ ~ Over(j) /\ ~ Stuck(j, slots)
       /\ \/ TooSmall(j, slot) /\ window' = Beyond(j, slot)
          \/ ~ TooSmall(j, slot) /\ Place(j, slot)
  BY <1>7, <1>9 DEF PlaceStation
<1>17. PICK longest, need, most :
         longest = Longest(j, slot) /\ need = TimeNeeded(j) /\ most = cfg[j.stn].maxCycleTime
  OBVIOUS
<1>18. /\ longest \in {need, most, e - d} /\ longest \in Int /\ need \in Int /\ most \in Nat
  BY <1>1, <1>2, <1>12, <1>13, <1>17, LongestIs, TimeNeededIs
<1>19. CASE TooSmall(j, slot) /\ window' = Beyond(j, slot)
  <2>1. longest < n /\ n < need
    BY <1>17, <1>19 DEF TooSmall
  <2>2. e - d < n
    BY <1>2, <1>17, <1>18, <2>1
  <2>3. v # slot
    BY <1>2, <1>13, <1>14, <2>2
  <2>4. c <= d \/ e <= b
    BY <1>11, <1>12, <2>3
  <2>5. /\ Backward(j) => a + n <= d
        /\ ~ Backward(j) => e <= a
    BY <1>2, <1>11, <1>12, <1>13, <2>4
  <2>6. window' = IF Backward(j) THEN <<window[1], d>> ELSE <<e, window[2]>>
    BY <1>12, <1>19 DEF Beyond
  <2> QED
    BY <1>10, <2>5, <2>6
<1>20. CASE ~ TooSmall(j, slot) /\ Place(j, slot)
  <2>1. PICK cycle, on, off, gap :
          /\ cycle = Cycle(j, slot) /\ on = (IF Backward(j) THEN e - cycle ELSE d) /\ off = on + cycle
          /\ gap = Gap(j.stn)
    OBVIOUS
  <2>2. PICK q : q = [stn |-> j.stn, date |-> PgmDate(j), on |-> on, off |-> off]
    OBVIOUS
  <2>3. q \in rows' /\ q.stn = j.stn /\ q.on = on /\ q.off = off
    BY <1>12, <1>20, <2>1, <2>2 DEF Place
  <2>4. window' = Rest(j, on, off)
    BY <1>12, <1>20, <2>1 DEF Place
  <2>5. on \in Nat /\ off \in Nat /\ on < off /\ gap \in Nat
    BY <1>1, <1>4, <2>1, <2>3, SettingsAre DEF RowsOK, Row, IInv
  <2>6. cycle \in Int
    <3>1. longest > 0
      BY <1>7, <1>9, <1>16, <1>17, <1>18 DEF Stuck
    <3>2. slot[1] \in Nat /\ slot[2] \in Nat /\ Longest(j, slot) > 0
      BY <1>12, <1>13, <1>17, <3>1
    <3>3. Cycle(j, slot) \in Nat
      BY <1>1, <3>2, CycleIs
    <3> QED
      BY <2>1, <3>3
  <2>7. now < off
    <3>1. now + CleanTime <= window[1] /\ now \in Nat /\ CleanTime \in Nat
      BY <1>1, <1>2, <1>10 DEF IInv, WindowAhead, TypeOK, PlacementAssumption
    <3>2. window[1] <= d
      BY <1>11, <1>12 DEF SlotOf
    <3>3. off = e \/ on = d
      BY <1>13, <2>1, <2>6
    <3> QED
      BY <1>10, <1>13, <2>5, <3>1, <3>2, <3>3
  <2>8. \A t \in a .. (a + n - 1) : t < on - gap \/ off + gap <= t
    <3> SUFFICES ASSUME NEW t \in a .. (a + n - 1) PROVE t < on - gap \/ off + gap <= t
      OBVIOUS
    <3>1. FreeBeside(rows', q.stn, t) /\ q.stn \in Stn /\ t \in Int
      BY <1>1, <1>3, <2>3
    <3>2. t < q.on - Gap(q.stn) \/ q.off + Gap(q.stn) <= t
      BY <1>4, <2>3, <2>7, <3>1, NotAroundItself
    <3> QED
      BY <2>1, <2>3, <3>2
  <2>9. a \in a .. (a + n - 1) /\ a + n - 1 \in a .. (a + n - 1)
    BY <1>2
  <2>10. CASE ~ Backward(j)
    <3>1. on = d /\ window' = <<off + gap, window[2]>>
      BY <2>1, <2>4, <2>10 DEF Rest
    <3>2. off + gap <= a
      BY <1>15, <2>5, <2>8, <2>9, <2>10, <3>1
    <3> QED
      BY <3>1, <3>2
  <2>11. CASE Backward(j)
    <3>1. window' = <<window[1], Greatest({on - gap})>> /\ off = e
      BY <1>13, <2>1, <2>4, <2>11, <2>6 DEF Rest
    <3>2. a + n - 1 < on - gap
      BY <1>2, <1>15, <2>5, <2>8, <2>9, <2>11, <3>1
    <3>3. on - gap <= Greatest({on - gap}) /\ Greatest({on - gap}) \in Nat
      <4> DEFINE Z == {on - gap}
      <4>1. Z \in SUBSET Int /\ IsFiniteSet(Z) /\ on - gap \in Z
        <5>1. PICK y \in Int : y = on - gap
          BY <2>5
        <5> QED
          BY <5>1, FS_Singleton
      <4>2. Greatest(Z) \in Nat /\ \A y \in Z : y <= Greatest(Z)
        <5> HIDE DEF Z
        <5> QED
          BY <4>1, GreatestOf
      <4> QED
        BY <4>1, <4>2
    <3>4. PICK g : g = Greatest({on - gap})
      OBVIOUS
    <3>5. a + n <= g
      BY <1>2, <2>5, <3>2, <3>3, <3>4
    <3> QED
      BY <3>1, <3>4, <3>5
  <2> QED
    BY <2>10, <2>11
<1> QED
  BY <1>16, <1>19, <1>20

(* The induction step of RoomAhead. *)
LEMMA RoomStep ==
  ASSUME PlacementAssumption, IInv, RoomAhead, [Next]_vars, IInv'
  PROVE  RoomAhead'
<1>1. CASE PlaceStation
  <2> SUFFICES ASSUME NEW j, j = First(todo), NEW w, w = WindowOf(j), NEW n, n = Shortest(j.stn),
                      n \in 1 .. cfg[j.stn].maxCycleTime,
                      NEW a \in w[1] .. (w[2] - n), Room(j, a, n)'
               PROVE  window'[1] <= a /\ a + n <= window'[2]
    <3>1. cfg' = cfg /\ todo' = todo /\ now' = now
      BY <1>1 DEF PlaceStation
    <3>2. PICK j : j = First(todo)
      OBVIOUS
    <3>3. First(todo)' = j
      BY <3>1, <3>2 DEF First
    <3>4. WindowOf(j)' = WindowOf(j)
      BY <3>1 DEF WindowOf, StartOf, EndOf
    <3>5. Shortest(j.stn)' = Shortest(j.stn)
      BY <3>1 DEF Shortest
    <3>6. AheadIn(j, WindowOf(j))' => RoomAhead'
      BY <3>3 DEF RoomAhead
    <3> QED
      BY <3>1, <3>2, <3>4, <3>5, <3>6 DEF AheadIn
  <2>1. /\ j.stn \in Stn /\ cfg' = cfg /\ uses' = uses /\ rows \subseteq rows' /\ Placing
        /\ gone' = gone /\ now' = now
    BY <1>1, PlaceIs DEF PlaceStation
  <2>2. n \in Nat \ {0} /\ a \in Int
    BY <2>1, ShortestIs DEF IInv
  <2>3. \A t \in a .. (a + n - 1) : FreeBeside(rows', j.stn, t)
    BY <2>1, RoomNext
  <2>4. RowsOK(rows')
    BY DEF IInv, TypeOK, RowsOK
  <2>5. Room(j, a, n)
    <3> SUFFICES ASSUME NEW t \in a .. (a + n - 1) PROVE FreeBeside(rows, j.stn, t)
      BY DEF Room
    <3>1. t \in Int /\ FreeBeside(rows', j.stn, t)
      BY <2>2, <2>3
    <3> QED
      BY <2>1, <2>4, <3>1, FreeBesideMore
  <2>6. window[1] <= a /\ a + n <= window[2]
    BY <2>1, <2>5 DEF RoomAhead, AheadIn
  <2> QED
    BY <1>1, <2>2, <2>6, RoomStaysAhead
<1>2. ASSUME Placing', window' = WindowOf(First(todo))', IInv'
      PROVE  RoomAhead'
  <2> SUFFICES ASSUME NEW j, j = First(todo'), NEW n, n = Shortest(j.stn)',
                      n \in 1 .. cfg'[j.stn].maxCycleTime, NEW a \in window'[1] .. (window'[2] - n)
               PROVE  window'[1] <= a /\ a + n <= window'[2]
    BY <1>2 DEF RoomAhead, AheadIn, First
  <2>1. window'[1] \in Nat /\ window'[2] \in Nat
    BY DEF IInv, TypeOK
  <2>2. n \in Int
    BY DEF Shortest
  <2> QED
    BY <2>1, <2>2
<1>3. CASE NextStation \/ Rebuild
  <2>1. window' = FirstWindow(todo') /\ cfg' = cfg /\ now' = now
    BY <1>3 DEF NextStation, Rebuild
  <2>2. PICK jobs : jobs = todo'
    OBVIOUS
  <2>3. PICK j : j = First(jobs)
    OBVIOUS
  <2>4. WindowOf(j)' = WindowOf(j)
    BY <2>1 DEF WindowOf, StartOf, EndOf
  <2>5. WindowOf(First(todo))' = WindowOf(j)
    <3>1. First(todo)' = j
      BY <2>2, <2>3 DEF First
    <3> QED
      BY <2>4, <3>1
  <2>6. Placing' => window' = WindowOf(First(todo))'
    BY <2>1, <2>2, <2>3, <2>5 DEF FirstWindow, Placing
  <2> QED
    BY <1>2, <2>6 DEF RoomAhead
<1>4. CASE Tick \/ Change
  BY <1>4 DEF Tick, Change, Placing, RoomAhead
<1>5. CASE UNCHANGED vars
  <2>1. /\ cfg' = cfg /\ uses' = uses /\ now' = now /\ gone' = gone /\ todo' = todo /\ rows' = rows /\ window' = window
        /\ Placing' = Placing
    BY <1>5 DEF vars, Placing
  <2>2. PICK j : j = First(todo)
    OBVIOUS
  <2>3. First(todo)' = j
    BY <2>1, <2>2 DEF First
  <2>4. WindowOf(j)' = WindowOf(j) /\ Shortest(j.stn)' = Shortest(j.stn)
    BY <2>1 DEF WindowOf, StartOf, EndOf, Shortest
  <2>5. \A a, n : Room(j, a, n)' <=> Room(j, a, n)
    <3> SUFFICES ASSUME NEW a, NEW n PROVE Room(j, a, n)' <=> Room(j, a, n)
      OBVIOUS
    <3> QED
      BY <2>1, RoomNext DEF Room
  <2>6. PICK w : w = WindowOf(j)
    OBVIOUS
  <2>7. AheadIn(j, w)' <=> AheadIn(j, w)
    BY <2>1, <2>4, <2>5 DEF AheadIn
  <2>8. RoomAhead' <=> (Placing => AheadIn(j, w)')
    BY <2>1, <2>3, <2>4, <2>6 DEF RoomAhead
  <2> QED
    BY <2>2, <2>6, <2>7, <2>8 DEF RoomAhead
<1> QED
  BY <1>1, <1>3, <1>4, <1>5 DEF Next, ManualOff, RemovePending, PocOff

(* A station gets less than it needs only if no cycle worth opening its    *)
(* valve for fits anywhere in its window, although place_station looks at  *)
(* each part of it once only, and never again at what it has passed over   *)
(* (place_station, SchedPlacer.py).                                        *)
THEOREM ShortForWantOfRoom == PlacementAssumption /\ Spec => []NoNeedlessShortfall
<1> SUFFICES ASSUME PlacementAssumption PROVE Spec => []NoNeedlessShortfall
  OBVIOUS
<1>1. Init => IInv /\ RoomAhead
  BY IInvInit DEF Init, RoomAhead, Placing
<1>2. IInv /\ RoomAhead /\ [Next]_vars => (IInv /\ RoomAhead)'
  BY IInvStep, RoomStep
<1>3. IInv /\ RoomAhead => NoNeedlessShortfall
  <2> SUFFICES ASSUME IInv, RoomAhead, Placing, NEW j, j = First(todo), Finished(j),
                      NEW w, w = WindowOf(j), NEW n, n = Shortest(j.stn), TimeNeeded(j) >= n,
                      n \in 1 .. cfg[j.stn].maxCycleTime,
                      NEW a \in w[1] .. (w[2] - n), a .. (a + n - 1) \subseteq Free(j.stn, w[1], w[2])
               PROVE  FALSE
    BY DEF NoNeedlessShortfall
  <2>1. j.stn \in Stn /\ j.date \in Nat
    <3>1. todo \in SUBSET [stn : Stn, date : Nat] /\ todo # {}
      BY DEF IInv, TypeOK, Placing
    <3> QED
      BY <3>1, FirstIs
  <2>2. n \in Nat \ {0} /\ cfg[j.stn].maxCycleTime \in Nat /\ TimeNeeded(j) \in Int
    <3>1. TypeOK
      BY DEF IInv
    <3>2. Shortest(j.stn) \in Nat /\ cfg[j.stn].maxCycleTime \in Nat
      BY <2>1, <3>1, ShortestIs
    <3>3. TimeNeeded(j) \in Int
      BY <2>1, TimeNeededIs
    <3> QED
      BY <3>2, <3>3
  <2>3. w[1] \in Nat /\ w[2] \in Nat
    <3>1. FirstWindow(todo) \in Nat \X Nat /\ FirstWindow(todo) = w
      <4>1. todo \in SUBSET [stn : Stn, date : Nat] /\ todo # {} /\ TypeOK
        BY DEF IInv, TypeOK, Placing
      <4> QED
        BY <4>1, WindowIs DEF FirstWindow
    <3> QED
      BY <3>1
  <2>4. Room(j, a, n)
    <3> SUFFICES ASSUME NEW t \in a .. (a + n - 1) PROVE FreeBeside(rows, j.stn, t)
      BY DEF Room
    <3>1. PICK lo, hi, x : lo = w[1] /\ hi = w[2] /\ x = j.stn
      OBVIOUS
    <3>2. lo \in Int /\ hi \in Int /\ x \in Stn /\ t \in lo .. (hi - 1) /\ t \in Free(x, lo, hi)
      BY <2>1, <2>2, <2>3, <3>1
    <3> QED
      BY <3>1, <3>2, FreeIs
  <2>5. window[1] <= a /\ a + n <= window[2] /\ a \in Int
    BY <2>2, <2>3, <2>4 DEF RoomAhead, AheadIn
  <2>6. PICK v \in SlotsLeft(j) : /\ SlotOf(j.stn, window[1], window[2], Min({n, TimeNeeded(j)}), v)
                                  /\ v[1] <= a /\ a + n <= v[2]
    BY <2>1, <2>2, <2>4, <2>5, RoomIsInSlot
  <2>7. ~ Over(j)
    <3>1. window[1] \in Nat /\ window[2] \in Nat
      BY DEF IInv, TypeOK
    <3> QED
      BY <2>2, <2>5, <3>1 DEF Over
  <2>8. PICK slots : slots = SlotsLeft(j)
    OBVIOUS
  <2>9. PICK slot : slot = NextSlot(j, slots)
    OBVIOUS
  <2>10. /\ slots # {} /\ slot[1] \in Nat /\ slot[2] \in Nat /\ slot[1] < slot[2]
    <3>1. PICK lo, hi, m : lo = window[1] /\ hi = window[2] /\ m = Min({Shortest(j.stn), TimeNeeded(j)})
      OBVIOUS
    <3>2. lo \in Nat /\ hi \in Nat /\ slots = Slots(j.stn, lo, hi, m) /\ slots # {}
      BY <2>6, <2>8, <3>1 DEF IInv, TypeOK, SlotsLeft
    <3>3. SlotOf(j.stn, lo, hi, m, slot)
      BY <2>9, <3>2, NextSlotIs
    <3> QED
      BY <3>2, <3>3 DEF SlotOf
  <2>11. Longest(j, slot) \in {TimeNeeded(j), cfg[j.stn].maxCycleTime, slot[2] - slot[1]}
    BY <2>1, <2>10, LongestIs
  <2>12. ~ (Longest(j, slot) <= 0)
    <3>1. PICK longest, need, most :
            longest = Longest(j, slot) /\ need = TimeNeeded(j) /\ most = cfg[j.stn].maxCycleTime
      OBVIOUS
    <3>2. longest \in {need, most, slot[2] - slot[1]} /\ need >= n /\ n <= most /\ need \in Int /\ most \in Nat
      BY <2>2, <2>11, <3>1
    <3> QED
      BY <2>2, <2>10, <3>1, <3>2
  <2> QED
    BY <2>7, <2>8, <2>9, <2>10, <2>12 DEF Finished, Stuck
<1> QED
  BY <1>1, <1>2, <1>3, PTL DEF Spec
==============================================================================
