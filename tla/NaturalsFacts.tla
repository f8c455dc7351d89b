---------------------------- MODULE NaturalsFacts ----------------------------
(***************************************************************************)
(* Least and greatest elements of sets of naturals, and the operators Min  *)
(* and Max of FiniteSetsExt on them.                                       *)
(*                                                                         *)
(* The induction they need is made of a fact about finite sets: a set that *)
(* holds 0 and the successor of each of its elements below n would, if it  *)
(* left n out, be injected into itself by the successor without reaching 0.*)
(*                                                                         *)
(* From it follows that a function defined step by step exists             *)
(* (StepwiseFunction), stays where its steps stay and is the only one.     *)
(***************************************************************************)
EXTENDS Integers, FiniteSetsExt, FiniteSetTheorems, TLAPS

\* Induction up to n, over a set instead of a predicate.
LEMMA Climb ==
  ASSUME NEW n \in Nat, NEW D \in SUBSET (0 .. n), 0 \in D,
         \A k \in D : k < n => k + 1 \in D
  PROVE  n \in D
<1> SUFFICES ASSUME n \notin D PROVE FALSE
  OBVIOUS
<1> DEFINE next == [k \in D |-> k + 1]
<1>1. IsFiniteSet(D)
  <2>1. IsFiniteSet(0 .. n)
    BY FS_Interval
  <2> QED BY <2>1, FS_Subset
<1>2. next \in Injection(D, D)
  BY DEF Injection, IsInjective
<1>3. next \in Surjection(D, D)
  <2> HIDE DEF next
  <2> QED BY <1>1, <1>2, FS_Injection
<1>4. PICK k \in D : next[k] = 0
  BY <1>3 DEF Surjection
<1> QED BY <1>4

\* The same for every number up to n.
LEMMA ClimbAll ==
  ASSUME NEW n \in Nat, NEW D \in SUBSET (0 .. n), 0 \in D,
         \A k \in D : k < n => k + 1 \in D
  PROVE  D = 0 .. n
<1>1. ASSUME NEW m \in 0 .. n PROVE m \in D
  <2> DEFINE E == D \cap (0 .. m)
  <2>1. E \in SUBSET (0 .. m) /\ 0 \in E /\ m \in Nat
    OBVIOUS
  <2>2. \A k \in E : k < m => k + 1 \in E
    OBVIOUS
  <2>3. m \in E
    <3> HIDE DEF E
    <3> QED BY <2>1, <2>2, Climb
  <2> QED BY <2>3
<1> QED BY <1>1

\* Functions from the number and the value of the step before, and what they define.
Steps(n, V) == [1 .. n -> [V -> V]]
Follows(f, base, step, n) == f[0] = base /\ \A i \in 1 .. n : f[i] = step[i][f[i - 1]]

\* A function defined step by step, each value from the one before, exists.
LEMMA StepwiseFunction ==
  ASSUME NEW n \in Nat, NEW V, NEW base \in V, NEW step \in Steps(n, V)
  PROVE  \E f \in [0 .. n -> V] : Follows(f, base, step, n)
<1> USE DEF Steps
<1> DEFINE Good(f, k) == f[0] = base /\ \A i \in 1 .. k : f[i] = step[i][f[i - 1]]
           D == {k \in 0 .. n : \E f \in [0 .. k -> V] : Good(f, k)}
<1>1. 0 \in D
  <2>1. Good([i \in 0 .. 0 |-> base], 0) /\ [i \in 0 .. 0 |-> base] \in [0 .. 0 -> V]
    OBVIOUS
  <2> HIDE DEF Good
  <2> QED BY <2>1
<1>2. ASSUME NEW k \in D, k < n PROVE k + 1 \in D
  <2>1. PICK f \in [0 .. k -> V] : Good(f, k)
    OBVIOUS
  <2>2. k \in 0 .. n /\ k + 1 \in 1 .. n
    BY <1>2
  <2> DEFINE next == step[k + 1][f[k]]
             g == [i \in 0 .. k + 1 |-> IF i = k + 1 THEN next ELSE f[i]]
  <2>3. next \in V
    BY <2>2
  <2>4. g \in [0 .. k + 1 -> V]
    <3> HIDE DEF next
    <3> QED BY <2>2, <2>3
  <2>5. g[0] = base
    BY <2>1, <2>2
  <2>6. ASSUME NEW i \in 1 .. k + 1 PROVE g[i] = step[i][g[i - 1]]
    <3>1. CASE i = k + 1
      BY <2>2, <3>1
    <3>2. CASE i # k + 1
      <4>1. i \in 1 .. k /\ i - 1 \in 0 .. k /\ g[i] = f[i] /\ g[i - 1] = f[i - 1]
        BY <2>2, <3>2
      <4> QED BY <2>1, <4>1
    <3> QED BY <3>1, <3>2
  <2>7. Good(g, k + 1) /\ k + 1 \in 0 .. n
    <3> HIDE DEF g
    <3> QED BY <2>2, <2>5, <2>6
  <2> HIDE DEF g, Good
  <2> QED BY <2>4, <2>7
<1>3. D \in SUBSET (0 .. n)
  OBVIOUS
<1>4. n \in D
  <2> HIDE DEF D
  <2> QED BY <1>1, <1>2, <1>3, Climb
<1> QED BY <1>4 DEF Follows

\* What holds in front and is kept by each step holds of every value.
LEMMA StepsStayIn ==
  ASSUME NEW n \in Nat, NEW V, NEW f, f[0] \in V,
         \A i \in 1 .. n : f[i - 1] \in V => f[i] \in V
  PROVE  \A i \in 0 .. n : f[i] \in V
<1> DEFINE D == {k \in 0 .. n : f[k] \in V}
<1>1. 0 \in D /\ D \in SUBSET (0 .. n)
  OBVIOUS
<1>2. \A k \in D : k < n => k + 1 \in D
  <2> SUFFICES ASSUME NEW k \in D, k < n PROVE k + 1 \in D
    OBVIOUS
  <2>1. k + 1 \in 1 .. n /\ k + 1 - 1 = k /\ f[k] \in V
    OBVIOUS
  <2> QED BY <2>1
<1>3. D = 0 .. n
  <2> HIDE DEF D
  <2> QED BY <1>1, <1>2, ClimbAll
<1> QED BY <1>3

\* Two functions that begin the same and step the same end the same.
LEMMA SameSteps ==
  ASSUME NEW n \in Nat, NEW f, NEW g, f[0] = g[0],
         \A i \in 1 .. n : f[i - 1] = g[i - 1] => f[i] = g[i]
  PROVE  f[n] = g[n]
<1> DEFINE D == {k \in 0 .. n : f[k] = g[k]}
<1>1. 0 \in D /\ D \in SUBSET (0 .. n)
  OBVIOUS
<1>2. \A k \in D : k < n => k + 1 \in D
  <2> SUFFICES ASSUME NEW k \in D, k < n PROVE k + 1 \in D
    OBVIOUS
  <2>1. k + 1 \in 1 .. n /\ k + 1 - 1 = k /\ f[k] = g[k]
    OBVIOUS
  <2> QED BY <2>1
<1>3. n \in D
  <2> HIDE DEF D
  <2> QED BY <1>1, <1>2, Climb
<1> QED BY <1>3

\* A set of naturals that is not empty has a least element.
LEMMA LeastNat ==
  ASSUME NEW T \in SUBSET Nat, T # {}
  PROVE  \E x \in T : \A y \in T : x <= y
<1> SUFFICES ASSUME \A x \in T : \E y \in T : y < x PROVE FALSE
  OBVIOUS
<1>1. PICK t \in T : TRUE
  OBVIOUS
<1> DEFINE D == {k \in 0 .. t : \A j \in 0 .. k : j \notin T}
<1>2. 0 \in D
  OBVIOUS
<1>3. \A k \in D : k < t => k + 1 \in D
  OBVIOUS
<1>4. t \in D
  <2> HIDE DEF D
  <2>1. D \in SUBSET (0 .. t)
    BY DEF D
  <2> QED BY <1>2, <1>3, <2>1, Climb
<1> QED BY <1>4

\* One that is bounded has a greatest element.
LEMMA GreatestNat ==
  ASSUME NEW n \in Nat, NEW T \in SUBSET (0 .. n), T # {}
  PROVE  \E x \in T : \A y \in T : y <= x
<1> DEFINE D == {n - x : x \in T}
<1>1. D \in SUBSET Nat
  OBVIOUS
<1>2. D # {}
  <2>1. PICK t \in T : TRUE
    OBVIOUS
  <2>2. n - t \in D
    BY <2>1
  <2> QED BY <2>2
<1>3. PICK d \in D : \A e \in D : d <= e
  <2> HIDE DEF D
  <2> QED BY <1>1, <1>2, LeastNat
<1> QED BY <1>3

\* Min gives the least element of a set of naturals.
LEMMA MinIsLeast ==
  ASSUME NEW T \in SUBSET Nat, T # {}
  PROVE  Min(T) \in T /\ \A y \in T : Min(T) <= y
BY LeastNat DEF Min

\* Max gives the greatest element of a bounded set of naturals.
LEMMA MaxIsGreatest ==
  ASSUME NEW n \in Nat, NEW T \in SUBSET (0 .. n), T # {}
  PROVE  Max(T) \in T /\ \A y \in T : y <= Max(T)
<1>1. \E x \in T : \A y \in T : x >= y
  BY GreatestNat
<1> QED BY <1>1 DEF Max
=============================================================================
