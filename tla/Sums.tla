-------------------------------- MODULE Sums --------------------------------
(***************************************************************************)
(* Facts about sums over finite sets, as the balances of the ledgers use   *)
(* them: SumFunctionOnSet(f, S) of the module Functions.                   *)
(*                                                                         *)
(* The library defines the sum by recursion on an arbitrary element of the *)
(* set.  What is needed is that the order does not matter: the sum of a    *)
(* set is that of the set without any of its elements, plus that element's *)
(* value (SumRemove).  The argument is a minimal counterexample, by the    *)
(* well-foundedness of the strict subsets of a finite set: an additive     *)
(* function on the subsets of S exists, it satisfies the recursive         *)
(* equation, and every function that satisfies the equation is equal to    *)
(* it.                                                                     *)
(***************************************************************************)
EXTENDS Integers, Functions, FiniteSetTheorems, TLAPS

\* A non-empty collection of subsets of a finite set has a smallest member.
LEMMA MinimalSubset ==
    ASSUME NEW S, IsFiniteSet(S), NEW B \in SUBSET SUBSET S, B # {}
    PROVE  \E T \in B : \A U \in B : U \subseteq T => U = T
<1>1. B \subseteq FiniteSubsetsOf(S)
  BY FS_Subset DEF FiniteSubsetsOf
<1>2. PICK T \in B : \A U \in B : <<U, T>> \notin StrictSubsetOrdering(S)
  BY <1>1, WFMin, FS_StrictSubsetOrderingWellFounded
<1> QED
  BY <1>2 DEF StrictSubsetOrdering

\* f has a number for every element of S.
Numeric(f, S) == \A x \in S : f[x] \in Int

\* g assigns to every subset of S the sum of f on it, in whatever order the
\* elements are taken away.
Additive(f, S, g) ==
    /\ g \in [SUBSET S -> Int]
    /\ g[{}] = 0
    /\ \A T \in SUBSET S : \A x \in T : g[T] = g[T \ {x}] + f[x]

\* An additive function on the subsets of S \ {x} extends to those of S.
LEMMA AdditiveExtends ==
    ASSUME NEW f, NEW S, NEW x \in S, Numeric(f, S), NEW g,
           Additive(f, S \ {x}, g)
    PROVE  \E h : Additive(f, S, h)
<1> DEFINE h == [T \in SUBSET S |->
                    IF x \in T THEN g[T \ {x}] + f[x] ELSE g[T]]
<1>1. \A T \in SUBSET S :
        /\ T \ {x} \in SUBSET (S \ {x})
        /\ x \notin T => T \in SUBSET (S \ {x})
  OBVIOUS
<1>2. \A T \in SUBSET S : h[T] = IF x \in T THEN g[T \ {x}] + f[x] ELSE g[T]
  OBVIOUS
<1>3. h \in [SUBSET S -> Int]
  BY <1>1 DEF Additive, Numeric
<1>4. h[{}] = 0
  BY DEF Additive
<1>5. ASSUME NEW T \in SUBSET S, NEW y \in T
      PROVE  h[T] = h[T \ {y}] + f[y]
  <2>1. T \ {y} \in SUBSET S
    OBVIOUS
  <2>2. CASE x \notin T
    <3>1. h[T] = g[T] /\ h[T \ {y}] = g[T \ {y}]
      BY <2>2, <2>1, <1>2
    <3> QED
      BY <2>2, <1>1, <3>1 DEF Additive
  <2>3. CASE y = x
    <3>1. h[T] = g[T \ {x}] + f[x] /\ h[T \ {y}] = g[T \ {x}]
      BY <2>3, <2>1, <1>2
    <3> QED
      BY <3>1, <2>3
  <2>4. CASE x \in T /\ y # x
    <3>1. (T \ {x}) \ {y} = (T \ {y}) \ {x}
      OBVIOUS
    <3>2. h[T] = g[T \ {x}] + f[x] /\ h[T \ {y}] = g[(T \ {x}) \ {y}] + f[x]
      BY <2>4, <2>1, <3>1, <1>2
    <3>3. g[T \ {x}] = g[(T \ {x}) \ {y}] + f[y]
      BY <2>4, <1>1 DEF Additive
    <3>4. g[T \ {x}] \in Int /\ g[(T \ {x}) \ {y}] \in Int
      BY <1>1 DEF Additive
    <3>5. f[x] \in Int /\ f[y] \in Int
      BY DEF Numeric
    <3> HIDE DEF h
    <3> QED
      BY <3>2, <3>3, <3>4, <3>5
  <2> QED
    BY <2>2, <2>3, <2>4
<1> HIDE DEF h
<1>6. Additive(f, S, h)
  BY <1>3, <1>4, <1>5 DEF Additive
<1> QED
  BY <1>6

\* There is an additive function on the subsets of every finite set.
LEMMA AdditiveExists ==
    ASSUME NEW f, NEW S, IsFiniteSet(S), Numeric(f, S)
    PROVE  \E g : Additive(f, S, g)
<1> DEFINE B == {T \in SUBSET S : ~ \E g : Additive(f, T, g)}
<1> SUFFICES ASSUME B # {} PROVE FALSE
  OBVIOUS
<1>1. PICK T \in B : \A U \in B : U \subseteq T => U = T
  <2>1. B \in SUBSET SUBSET S
    OBVIOUS
  <2> HIDE DEF B
  <2> QED
    BY <2>1, MinimalSubset
<1>2. CASE T = {}
  <2> DEFINE z == [U \in SUBSET {} |-> 0]
  <2>1. Additive(f, {}, z)
    BY DEF Additive
  <2> HIDE DEF z
  <2> QED
    BY <1>2, <2>1
<1>3. CASE T # {}
  <2>1. PICK x \in T : TRUE
    BY <1>3
  <2>2. T \ {x} \notin B
    BY <1>1
  <2>3. PICK g : Additive(f, T \ {x}, g)
    BY <2>2
  <2>4. Numeric(f, T)
    BY DEF Numeric
  <2>5. \E h : Additive(f, T, h)
    BY <2>3, <2>4, AdditiveExtends
  <2> QED
    BY <2>5
<1> QED
  BY <1>2, <1>3

\* The right-hand side of the recursive equation of the library's sum.
SumStep(f, S, g) ==
    [s \in SUBSET S |->
        IF s = {} THEN 0
        ELSE f[CHOOSE x \in s : TRUE] + g[s \ {CHOOSE x \in s : TRUE}]]

LEMMA SumDef ==
    ASSUME NEW f, NEW S
    PROVE  SumFunctionOnSet(f, S) = (CHOOSE g : g = SumStep(f, S, g))[S]
BY DEF SumFunctionOnSet, FoldFunctionOnSet, MapThenFoldSet, SumStep

\* An additive function satisfies the equation, and nothing else does.
LEMMA AdditiveIsFixed ==
    ASSUME NEW f, NEW S, Numeric(f, S), NEW g, Additive(f, S, g)
    PROVE  g = SumStep(f, S, g)
<1>1. ASSUME NEW s \in SUBSET S PROVE g[s] = SumStep(f, S, g)[s]
  <2>1. CASE s = {}
    BY <2>1 DEF Additive, SumStep
  <2>2. CASE s # {}
    <3> DEFINE x == CHOOSE x \in s : TRUE
    <3>1. x \in s
      BY <2>2
    <3>2. SumStep(f, S, g)[s] = f[x] + g[s \ {x}]
      BY <2>2 DEF SumStep
    <3> HIDE DEF x
    <3>3. g[s] = g[s \ {x}] + f[x] /\ f[x] \in Int /\ g[s \ {x}] \in Int
      BY <3>1 DEF Additive, Numeric
    <3> QED
      BY <3>2, <3>3
  <2> QED
    BY <2>1, <2>2
<1>2. g = [s \in SUBSET S |-> g[s]]
  BY DEF Additive
<1>3. SumStep(f, S, g) = [s \in SUBSET S |-> SumStep(f, S, g)[s]]
  BY DEF SumStep
<1> QED
  BY <1>1, <1>2, <1>3

LEMMA FixedIsAdditive ==
    ASSUME NEW f, NEW S, IsFiniteSet(S), Numeric(f, S),
           NEW g, Additive(f, S, g), NEW h, h = SumStep(f, S, h)
    PROVE  h[S] = g[S]
<1> DEFINE B == {T \in SUBSET S : h[T] # g[T]}
<1> SUFFICES ASSUME B # {} PROVE FALSE
  OBVIOUS
<1>1. PICK T \in B : \A U \in B : U \subseteq T => U = T
  <2>1. B \in SUBSET SUBSET S
    OBVIOUS
  <2> HIDE DEF B
  <2> QED
    BY <2>1, MinimalSubset
<1>2. h[T] = IF T = {} THEN 0
             ELSE f[CHOOSE x \in T : TRUE] + h[T \ {CHOOSE x \in T : TRUE}]
  <2>1. SumStep(f, S, h)[T] = IF T = {} THEN 0
             ELSE f[CHOOSE x \in T : TRUE] + h[T \ {CHOOSE x \in T : TRUE}]
    BY DEF SumStep
  <2> QED
    BY <2>1
<1>3. CASE T = {}
  BY <1>2, <1>3 DEF Additive
<1>4. CASE T # {}
  <2> DEFINE x == CHOOSE x \in T : TRUE
  <2>1. x \in T
    BY <1>4
  <2>2. h[T] = f[x] + h[T \ {x}]
    BY <1>2, <1>4
  <2> HIDE DEF x
  <2>3. h[T \ {x}] = g[T \ {x}]
    BY <1>1, <2>1
  <2>4. g[T] = g[T \ {x}] + f[x] /\ f[x] \in Int /\ g[T \ {x}] \in Int
    BY <2>1 DEF Additive, Numeric
  <2> QED
    BY <2>2, <2>3, <2>4
<1> QED
  BY <1>3, <1>4

LEMMA SumIsAdditive ==
    ASSUME NEW f, NEW S, IsFiniteSet(S), Numeric(f, S), NEW g,
           Additive(f, S, g)
    PROVE  SumFunctionOnSet(f, S) = g[S]
<1> DEFINE h == CHOOSE h : h = SumStep(f, S, h)
<1>1. h = SumStep(f, S, h)
  BY AdditiveIsFixed
<1>2. SumFunctionOnSet(f, S) = h[S]
  BY SumDef
<1> HIDE DEF h
<1> QED
  BY <1>1, <1>2, FixedIsAdditive

-----------------------------------------------------------------------------
(***************************************************************************)
(* What the other proof modules use.                                       *)
(***************************************************************************)

LEMMA SumEmpty ==
    ASSUME NEW f
    PROVE  SumFunctionOnSet(f, {}) = 0
<1>1. IsFiniteSet({}) /\ Numeric(f, {})
  BY FS_EmptySet DEF Numeric
<1>2. PICK g : Additive(f, {}, g)
  BY <1>1, AdditiveExists
<1> QED
  BY <1>1, <1>2, SumIsAdditive DEF Additive

\* The restriction of an additive function to the subsets of T.
LEMMA AdditiveOn ==
    ASSUME NEW f, NEW S, NEW g, Additive(f, S, g), NEW T \in SUBSET S
    PROVE  Additive(f, T, [U \in SUBSET T |-> g[U]])
<1> DEFINE h == [U \in SUBSET T |-> g[U]]
<1>1. \A U \in SUBSET T : U \in SUBSET S /\ h[U] = g[U]
  OBVIOUS
<1>2. h \in [SUBSET T -> Int]
  BY DEF Additive
<1> HIDE DEF h
<1>3. Additive(f, T, h)
  BY <1>1, <1>2 DEF Additive
<1> QED
  BY <1>3 DEF h

\* A sum of numbers is a number, and any element may be taken out of it.
LEMMA SumRemove ==
    ASSUME NEW f, NEW S, IsFiniteSet(S), Numeric(f, S)
    PROVE  /\ SumFunctionOnSet(f, S) \in Int
           /\ \A x \in S :
                SumFunctionOnSet(f, S) = SumFunctionOnSet(f, S \ {x}) + f[x]
<1>1. PICK g : Additive(f, S, g)
  BY AdditiveExists
<1>2. SumFunctionOnSet(f, S) = g[S]
  BY <1>1, SumIsAdditive
<1>3. ASSUME NEW x \in S PROVE SumFunctionOnSet(f, S \ {x}) = g[S \ {x}]
  <2> DEFINE T == S \ {x}
             h == [U \in SUBSET T |-> g[U]]
  <2>1. IsFiniteSet(T) /\ Numeric(f, T)
    BY FS_Subset DEF Numeric
  <2>2. Additive(f, T, h)
    BY <1>1, AdditiveOn
  <2>3. h[T] = g[T]
    OBVIOUS
  <2> HIDE DEF h, T
  <2>4. SumFunctionOnSet(f, T) = g[T]
    BY <2>1, <2>2, <2>3, SumIsAdditive
  <2> QED
    BY <2>4 DEF T
<1> QED
  BY <1>1, <1>2, <1>3 DEF Additive

\* An element that was not there adds its value.
LEMMA SumAdd ==
    ASSUME NEW f, NEW S, IsFiniteSet(S), NEW x, x \notin S,
           Numeric(f, S), f[x] \in Int
    PROVE  SumFunctionOnSet(f, S \cup {x}) = SumFunctionOnSet(f, S) + f[x]
<1>1. IsFiniteSet(S \cup {x}) /\ Numeric(f, S \cup {x})
  BY FS_AddElement DEF Numeric
<1>2. (S \cup {x}) \ {x} = S
  OBVIOUS
<1> QED
  BY <1>1, <1>2, SumRemove

\* Functions that agree on the set have the same sum.
LEMMA SumSame ==
    ASSUME NEW f, NEW g, NEW S, IsFiniteSet(S), Numeric(f, S),
           \A x \in S : f[x] = g[x]
    PROVE  SumFunctionOnSet(f, S) = SumFunctionOnSet(g, S)
<1>1. PICK h : Additive(f, S, h)
  BY AdditiveExists
<1>2. Additive(g, S, h) /\ Numeric(g, S)
  BY <1>1 DEF Additive, Numeric
<1> QED
  BY <1>1, <1>2, SumIsAdditive

\* A table that grows by one row: f is a column before, g the column after.
LEMMA SumGrow ==
    ASSUME NEW f, NEW g, NEW S, IsFiniteSet(S), Numeric(f, S),
           NEW x, x \notin S, g[x] \in Int, \A y \in S : f[y] = g[y]
    PROVE  SumFunctionOnSet(g, S \cup {x}) = SumFunctionOnSet(f, S) + g[x]
<1>1. SumFunctionOnSet(f, S) = SumFunctionOnSet(g, S) /\ Numeric(g, S)
  BY SumSame DEF Numeric
<1> QED
  BY <1>1, SumAdd

\* A sum of natural numbers is one.
LEMMA SumNat ==
    ASSUME NEW f, NEW S, IsFiniteSet(S), \A x \in S : f[x] \in Nat
    PROVE  SumFunctionOnSet(f, S) \in Nat
<1>1. Numeric(f, S)
  BY DEF Numeric
<1>2. PICK g : Additive(f, S, g)
  BY <1>1, AdditiveExists
<1> DEFINE B == {T \in SUBSET S : g[T] \notin Nat}
<1>3. ASSUME B # {} PROVE FALSE
  <2>1. PICK T \in B : \A U \in B : U \subseteq T => U = T
    <3>1. B \in SUBSET SUBSET S
      OBVIOUS
    <3> HIDE DEF B
    <3> QED
      BY <1>3, <3>1, MinimalSubset
  <2>2. PICK x \in T : TRUE
    <3>1. g[{}] \in Nat
      BY <1>2 DEF Additive
    <3> QED
      BY <2>1, <3>1
  <2>3. g[T \ {x}] \in Nat
    BY <2>1, <2>2
  <2>4. g[T] = g[T \ {x}] + f[x] /\ f[x] \in Nat
    BY <1>2, <2>1, <2>2 DEF Additive
  <2> QED
    BY <2>1, <2>3, <2>4
<1> QED
  BY <1>1, <1>2, <1>3, SumIsAdditive

\* Changing the function at one element changes the sum by the difference.
LEMMA SumUpdate ==
    ASSUME NEW f, NEW g, NEW S, IsFiniteSet(S), Numeric(f, S), Numeric(g, S),
           NEW x \in S, \A y \in S \ {x} : f[y] = g[y]
    PROVE  SumFunctionOnSet(g, S) = SumFunctionOnSet(f, S) + (g[x] - f[x])
<1>1. /\ IsFiniteSet(S \ {x})
      /\ Numeric(f, S \ {x}) /\ Numeric(g, S \ {x})
  BY FS_Subset DEF Numeric
<1>2. SumFunctionOnSet(f, S \ {x}) = SumFunctionOnSet(g, S \ {x})
  BY <1>1, SumSame
<1>3. /\ SumFunctionOnSet(f, S) = SumFunctionOnSet(f, S \ {x}) + f[x]
      /\ SumFunctionOnSet(g, S) = SumFunctionOnSet(g, S \ {x}) + g[x]
      /\ SumFunctionOnSet(f, S \ {x}) \in Int
  BY <1>1, SumRemove
<1> QED
  BY <1>2, <1>3 DEF Numeric

\* Nothing adds up to nothing.
LEMMA SumZero ==
    ASSUME NEW S, IsFiniteSet(S)
    PROVE  SumFunctionOnSet([x \in S |-> 0], S) = 0
<1> DEFINE f == [x \in S |-> 0]
           g == [T \in SUBSET S |-> 0]
<1>1. Numeric(f, S)
  BY DEF Numeric
<1>2. Additive(f, S, g)
  BY DEF Additive
<1>3. g[S] = 0
  OBVIOUS
<1> HIDE DEF f, g
<1>4. SumFunctionOnSet(f, S) = 0
  BY <1>1, <1>2, <1>3, SumIsAdditive
<1> QED
  BY <1>4 DEF f
=============================================================================
