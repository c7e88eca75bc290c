----------------------------- MODULE Recursion -----------------------------
(***************************************************************************)
(* Induction and recursion, stated over sets and functions so that they    *)
(* can be cited: the loops of the models are recursive functions, and what *)
(* a loop computes is proved by showing that the inputs for which it does  *)
(* form a set that contains all of them.                                   *)
(***************************************************************************)
EXTENDS Integers, FiniteSets, FiniteSetTheorems, WellFoundedInduction, TLAPS

\* A set of natural numbers has a least element.
LEMMA LeastNat ==
  ASSUME NEW T \in SUBSET Nat, T # {}
  PROVE  \E x \in T : \A y \in T : x <= y
<1> DEFINE R == OpToRel(<, Nat)
<1>1. IsWellFoundedOn(R, Nat)
  BY NatLessThanWellFounded
<1>2. \A x, y \in Nat : y < x => <<y, x>> \in R
  BY DEF OpToRel
<1> HIDE DEF R
<1>3. PICK x \in T : \A y \in T : ~ (<<y, x>> \in R)
  BY <1>1, WFMin
<1>4. ASSUME NEW y \in T PROVE x <= y
  <2>1. x \in Nat /\ y \in Nat
    OBVIOUS
  <2>2. ~(y < x)
    BY <1>2, <1>3, <2>1, Zenon
  <2> QED  BY <2>1, <2>2
<1> QED  BY <1>4

\* Induction on the natural numbers.
LEMMA NatSet ==
  ASSUME NEW T, 0 \in T, \A n \in Nat : n \in T => n + 1 \in T
  PROVE  Nat \subseteq T
<1> SUFFICES ASSUME NEW n \in Nat, n \notin T PROVE FALSE
  OBVIOUS
<1> DEFINE U == Nat \ T
<1>1. PICK x \in U : \A y \in U : x <= y
  <2>1. U \in SUBSET Nat /\ U # {}
    OBVIOUS
  <2> HIDE DEF U
  <2> QED  BY <2>1, LeastNat
<1>2. x # 0 /\ x - 1 \in Nat /\ x - 1 + 1 = x
  BY <1>1
<1>3. x - 1 \in T
  BY <1>1, <1>2
<1> QED  BY <1>1, <1>2, <1>3

\* Induction on a measure: T has every x whose smaller fellows it has.
LEMMA MeasureInduction ==
  ASSUME NEW D, NEW m \in [D -> Nat], NEW T,
         \A x \in D : (\A y \in D : m[y] < m[x] => y \in T) => x \in T
  PROVE  D \subseteq T
<1> SUFFICES ASSUME NEW x \in D, x \notin T PROVE FALSE
  OBVIOUS
<1> DEFINE U == {m[y] : y \in D \ T}
<1>1. U \in SUBSET Nat /\ U # {}
  OBVIOUS
<1>2. PICK least \in U : \A u \in U : least <= u
  <2> HIDE DEF U
  <2> QED  BY <1>1, LeastNat
<1>3. PICK z \in D \ T : m[z] = least
  BY <1>2
<1>4. ASSUME NEW y \in D, m[y] < m[z], y \notin T PROVE FALSE
  <2>1. m[y] \in U
    BY <1>4
  <2>2. least <= m[y] /\ m[y] \in Nat /\ least \in Nat
    BY <1>1, <1>2, <2>1
  <2> QED  BY <1>3, <1>4, <2>2
<1> QED  BY <1>3, <1>4

(***************************************************************************)
(* A loop goes from x to step[x] until it is in stop.  It ends when a      *)
(* measure falls with every turn.                                          *)
(***************************************************************************)
Ends(D, stop, step, m) ==
  /\ m \in [D -> Nat]
  /\ \A x \in D \ stop : step[x] \in D /\ m[step[x]] < m[x]

\* Induction on the turns of a loop.
LEMMA LoopInduction ==
  ASSUME NEW D, NEW stop, NEW step, NEW m, Ends(D, stop, step, m), NEW T,
         D \cap stop \subseteq T,
         \A x \in D \ stop : step[x] \in T => x \in T
  PROVE  D \subseteq T
<1>1. m \in [D -> Nat]
  BY DEF Ends
<1>2. ASSUME NEW x \in D, \A y \in D : m[y] < m[x] => y \in T PROVE x \in T
  BY <1>2 DEF Ends
<1> QED  BY <1>1, <1>2, MeasureInduction

\* The values a loop returns, and those it makes of a turn and a later result, are in V.
Yields(D, V, stop, out, comb) ==
  /\ \A x \in D \cap stop : out[x] \in V
  /\ \A x \in D \ stop, v \in V : comb[<<x, v>>] \in V

(***************************************************************************)
(* A loop that ends defines a function: its result is out[x] at the end,   *)
(* and otherwise made of x and the result for step[x].                     *)
(***************************************************************************)
LEMMA LinearRecursion ==
  ASSUME NEW D, NEW V, NEW stop, NEW out, NEW step, NEW comb, NEW m,
         Ends(D, stop, step, m), Yields(D, V, stop, out, comb)
  PROVE  \E f \in [D -> V] :
           \A x \in D : f[x] = IF x \in stop THEN out[x] ELSE comb[<<x, f[step[x]]>>]
<1> USE DEF Ends, Yields
<1> DEFINE Below(n) == {x \in D : m[x] < n}
           Good(g, n) ==
             /\ g \in [Below(n) -> V]
             /\ \A x \in Below(n) : g[x] = IF x \in stop THEN out[x] ELSE comb[<<x, g[step[x]]>>]
<1>1. ASSUME NEW x \in D, NEW n \in Nat, x \in Below(n), x \notin stop
      PROVE  step[x] \in Below(n)
  <2>1. step[x] \in D /\ m[step[x]] \in Nat /\ m[x] \in Nat /\ m[step[x]] < m[x] /\ m[x] < n
    BY <1>1
  <2> QED  BY <2>1
<1>2. ASSUME NEW n1 \in Nat, NEW n2 \in Nat, NEW g1, NEW g2, Good(g1, n1), Good(g2, n2),
             NEW y \in D, m[y] < n1, m[y] < n2
      PROVE  g1[y] = g2[y]
  <2> DEFINE T == {x \in D : m[x] < n1 /\ m[x] < n2 => g1[x] = g2[x]}
  <2>1. ASSUME NEW x \in D, \A z \in D : m[z] < m[x] => z \in T
        PROVE  x \in T
    <3> SUFFICES ASSUME m[x] < n1, m[x] < n2 PROVE g1[x] = g2[x]
      OBVIOUS
    <3>1. x \in Below(n1) /\ x \in Below(n2)
      OBVIOUS
    <3>2. CASE x \in stop
      BY <1>2, <3>1, <3>2
    <3>3. CASE x \notin stop
      <4>1. step[x] \in D /\ m[step[x]] < m[x] /\ step[x] \in Below(n1) /\ step[x] \in Below(n2)
        BY <1>1, <3>1, <3>3
      <4>2. g1[step[x]] = g2[step[x]]
        BY <2>1, <4>1
      <4> QED  BY <1>2, <3>1, <3>3, <4>2
    <3> QED  BY <3>2, <3>3
  <2> HIDE DEF T
  <2>2. D \subseteq T
    BY <2>1, MeasureInduction
  <2> QED  BY <1>2, <2>2 DEF T
<1>3. \A n \in Nat : \E g : Good(g, n)
  <2> DEFINE T == {n \in Nat : \E g : Good(g, n)}
  <2>1. 0 \in T
    <3>1. Below(0) = {}
      OBVIOUS
    <3>2. Good([x \in {} |-> x], 0)
      BY <3>1
    <3> QED  BY <3>2
  <2>2. ASSUME NEW n \in Nat, n \in T PROVE n + 1 \in T
    <3>1. PICK g : Good(g, n)
      BY <2>2
    <3> DEFINE h == [x \in Below(n + 1) |-> IF x \in stop THEN out[x] ELSE comb[<<x, g[step[x]]>>]]
    <3>2. ASSUME NEW x \in Below(n + 1), x \notin stop PROVE step[x] \in Below(n)
      <4>1. /\ x \in D /\ step[x] \in D /\ m[step[x]] \in Nat /\ m[x] \in Nat
            /\ m[step[x]] < m[x] /\ m[x] < n + 1
        BY <3>2
      <4> QED  BY <4>1
    <3>3. h \in [Below(n + 1) -> V]
      <4>1. ASSUME NEW x \in Below(n + 1)
            PROVE  (IF x \in stop THEN out[x] ELSE comb[<<x, g[step[x]]>>]) \in V
        BY <3>1, <3>2, <4>1
      <4> QED  BY <4>1
    <3>4. ASSUME NEW x \in Below(n) PROVE h[x] = g[x]
      <4>1. x \in Below(n + 1)
        OBVIOUS
      <4> QED  BY <3>1, <4>1
    <3>5. Good(h, n + 1)
      <4>1. ASSUME NEW x \in Below(n + 1)
            PROVE  h[x] = IF x \in stop THEN out[x] ELSE comb[<<x, h[step[x]]>>]
        BY <3>2, <3>4, <4>1
      <4> HIDE DEF h
      <4> QED  BY <3>3, <4>1
    <3>6. n + 1 \in Nat
      OBVIOUS
    <3> HIDE DEF h, Good
    <3> QED  BY <3>5, <3>6, Zenon
  <2> HIDE DEF T
  <2>3. Nat \subseteq T
    BY <2>1, <2>2, NatSet
  <2> QED  BY <2>3 DEF T
<1> DEFINE G(n) == CHOOSE g : Good(g, n)
           f == [x \in D |-> G(m[x] + 1)[x]]
<1>4. \A n \in Nat : Good(G(n), n)
  BY <1>3, Zenon
<1> HIDE DEF Good, G
<1>5. ASSUME NEW x \in D
      PROVE  f[x] \in V /\ f[x] = IF x \in stop THEN out[x] ELSE comb[<<x, f[step[x]]>>]
  <2>1. m[x] \in Nat /\ m[x] + 1 \in Nat /\ x \in Below(m[x] + 1)
    OBVIOUS
  <2>2. Good(G(m[x] + 1), m[x] + 1)
    BY <1>4, <2>1
  <2>3. CASE x \in stop
    BY <2>1, <2>2, <2>3 DEF Good
  <2>4. CASE x \notin stop
    <3>1. step[x] \in D /\ m[step[x]] \in Nat /\ m[step[x]] < m[x]
      BY <2>4
    <3>2. Good(G(m[step[x]] + 1), m[step[x]] + 1) /\ m[step[x]] + 1 \in Nat
      BY <1>4, <3>1
    <3>3. m[step[x]] < m[x] + 1 /\ m[step[x]] < m[step[x]] + 1
      BY <2>1, <3>1
    <3>4. G(m[x] + 1)[step[x]] = G(m[step[x]] + 1)[step[x]]
      BY <1>2, <2>1, <2>2, <3>1, <3>2, <3>3
    <3>5. /\ G(m[x] + 1)[x] = comb[<<x, G(m[x] + 1)[step[x]]>>]
          /\ G(m[x] + 1)[x] \in V
      BY <2>1, <2>2, <2>4 DEF Good
    <3> QED  BY <2>4, <3>1, <3>4, <3>5
  <2> QED  BY <2>3, <2>4
<1>6. f \in [D -> V]
  BY <1>5
<1> HIDE DEF f
<1> QED  BY <1>5, <1>6

\* The same for a loop that returns what its last turn returns.
LEMMA TailRecursion ==
  ASSUME NEW D, NEW stop, NEW out, NEW step, NEW m, Ends(D, stop, step, m)
  PROVE  \E f : f = [x \in D |-> IF x \in stop THEN out[x] ELSE f[step[x]]]
<1> DEFINE V == {out[x] : x \in D}
           comb == [p \in D \X V |-> p[2]]
<1>1. \A x \in D, v \in V : comb[<<x, v>>] = v
  OBVIOUS
<1>2. Yields(D, V, stop, out, comb)
  BY DEF Yields
<1> HIDE DEF V, comb
<1>3. PICK f \in [D -> V] :
        \A x \in D : f[x] = IF x \in stop THEN out[x] ELSE comb[<<x, f[step[x]]>>]
  BY <1>2, LinearRecursion
<1>4. ASSUME NEW x \in D PROVE f[x] = IF x \in stop THEN out[x] ELSE f[step[x]]
  BY <1>1, <1>3 DEF Ends
<1>5. f = [x \in D |-> f[x]]
  OBVIOUS
<1>6. [x \in D |-> f[x]] = [x \in D |-> IF x \in stop THEN out[x] ELSE f[step[x]]]
  BY <1>4
<1>7. f = [x \in D |-> IF x \in stop THEN out[x] ELSE f[step[x]]]
  BY <1>5, <1>6
<1> QED  BY <1>7

-----------------------------------------------------------------------------
(***************************************************************************)
(* Folds over a finite set take one element after the other.               *)
(***************************************************************************)
LEMMA FoldEnds ==
  ASSUME NEW S, IsFiniteSet(S), NEW pick, \A s \in SUBSET S : s # {} => pick[s] \in s
  PROVE  Ends(SUBSET S, {{}}, [s \in SUBSET S |-> s \ {pick[s]}], [s \in SUBSET S |-> Cardinality(s)])
<1> DEFINE step == [s \in SUBSET S |-> s \ {pick[s]}]
           m == [s \in SUBSET S |-> Cardinality(s)]
<1>1. ASSUME NEW s \in SUBSET S PROVE IsFiniteSet(s) /\ Cardinality(s) \in Nat
  BY FS_Subset, FS_CardinalityType
<1>2. m \in [SUBSET S -> Nat]
  BY <1>1
<1>3. ASSUME NEW s \in (SUBSET S) \ {{}} PROVE step[s] \in SUBSET S /\ m[step[s]] < m[s]
  <2>1. step[s] = s \ {pick[s]} /\ step[s] \in SUBSET S /\ pick[s] \in s
    BY <1>3
  <2>2. Cardinality(s \ {pick[s]}) = Cardinality(s) - 1
    BY <1>1, <2>1, FS_RemoveElement
  <2>3. m[step[s]] = Cardinality(s) - 1 /\ m[s] = Cardinality(s) /\ Cardinality(s) \in Nat
    BY <1>1, <2>1, <2>2
  <2> QED  BY <2>1, <2>3
<1> QED  BY <1>2, <1>3 DEF Ends

\* A non-empty set of natural numbers below a bound has a greatest element.
LEMMA GreatestNat ==
  ASSUME NEW n \in Nat, NEW T \in SUBSET (1..n), T # {}
  PROVE  \E x \in T : \A y \in T : x >= y
<1> DEFINE U == {n - x : x \in T}
<1>1. U \in SUBSET Nat /\ U # {}
  <2>1. \A x \in T : n - x \in Nat
    OBVIOUS
  <2>2. PICK x : x \in T
    OBVIOUS
  <2> QED  BY <2>1, <2>2
<1>2. PICK u \in U : \A v \in U : u <= v
  <2> HIDE DEF U
  <2> QED  BY <1>1, LeastNat
<1>3. PICK x \in T : u = n - x
  BY <1>2
<1>4. ASSUME NEW y \in T PROVE x >= y
  <2>1. n - y \in U
    OBVIOUS
  <2>2. n - x <= n - y
    BY <1>2, <1>3, <2>1
  <2>3. x \in 1..n /\ y \in 1..n
    OBVIOUS
  <2> QED  BY <2>2, <2>3
<1> QED  BY <1>4
=============================================================================
