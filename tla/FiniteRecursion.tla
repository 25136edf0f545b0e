--------------------------- MODULE FiniteRecursion ---------------------------
(***************************************************************************)
(* Induction and recursion over the positions of a sequence, in terms of   *)
(* sets and functions: what is true of 0 and of k if it is true of k - 1   *)
(* is a set that contains every number up to n, and steps that are a       *)
(* function can be run n times.  Lemmas for the proofs about requests,     *)
(* lists and command lines of any length.                                  *)
(***************************************************************************)
EXTENDS Naturals, WellFoundedInduction, TLAPS

Below == {pair \in Nat \X Nat : pair[1] < pair[2]}

\* A set of numbers that is not empty has a least one.
LEMMA LeastElement ==
    ASSUME NEW T, T \subseteq Nat, T # {}
    PROVE  \E x \in T : \A y \in T : x <= y
<1>1. IsWellFoundedOn(Below, Nat)
  <2>1. Below = OpToRel(<, Nat)
    BY DEF OpToRel, Below
  <2>2. QED
    BY <2>1, NatLessThanWellFounded
<1>2. PICK x \in T : \A y \in T : <<y, x>> \notin Below
  BY <1>1, WFMin
<1>3. ASSUME NEW y \in T PROVE x <= y
  <2>1. <<y, x>> \in Nat \X Nat /\ <<y, x>> \notin Below
    BY <1>2
  <2>2. <<y, x>>[1] = y /\ <<y, x>>[2] = x
    OBVIOUS
  <2>3. QED
    BY <2>1, <2>2 DEF Below
<1>4. QED
  BY <1>3

\* A set of numbers up to n that is not empty has a greatest one.
LEMMA GreatestElement ==
    ASSUME NEW n \in Nat, NEW T, T \subseteq 0..n, T # {}
    PROVE  \E x \in T : \A y \in T : y <= x
<1> DEFINE down == {d \in 0..n : n - d \in T}
<1>1. down # {}
  <2>1. PICK x \in T : TRUE
    OBVIOUS
  <2>2. n - x \in 0..n /\ n - (n - x) = x
    BY <2>1
  <2>3. n - x \in down
    BY <2>2
  <2>4. QED
    BY <2>3
<1>2. PICK d \in down : \A e \in down : d <= e
  <2>1. down \subseteq Nat
    OBVIOUS
  <2> HIDE DEF down
  <2>2. QED
    BY <1>1, <2>1, LeastElement
<1>3. ASSUME NEW y \in T PROVE y <= n - d
  <2>1. n - y \in 0..n /\ n - (n - y) = y
    OBVIOUS
  <2>2. n - y \in down
    BY <2>1
  <2>3. d <= n - y /\ d \in Nat
    BY <1>2, <2>2
  <2>4. QED
    BY <2>1, <2>3
<1>4. QED
  BY <1>2, <1>3

\* Induction up to n.
LEMMA SetInduction ==
    ASSUME NEW n \in Nat, NEW T, 0 \in T, \A k \in 1..n : k - 1 \in T => k \in T
    PROVE  0..n \subseteq T
<1> DEFINE out == (0..n) \ T
<1>1. SUFFICES ASSUME out # {} PROVE FALSE
  OBVIOUS
<1>2. PICK x \in out : \A y \in out : x <= y
  <2>1. out \subseteq Nat
    OBVIOUS
  <2> HIDE DEF out
  <2>2. QED
    BY <2>1, <1>1, LeastElement
<1>3. x \in 1..n /\ x - 1 \in 0..n /\ ~(x <= x - 1)
  OBVIOUS
<1>4. x - 1 \in T
  BY <1>2, <1>3
<1>5. QED
  BY <1>3, <1>4

-----------------------------------------------------------------------------
\* One step for every position up to n, on values of V.
Steps(step, n, V) == step \in [1..n -> [V -> V]]

\* The values that the first m steps give, one after the other.
Runs(f, m, V, a, step) ==
    f \in [0..m -> V] /\ f[0] = a /\ \A k \in 1..m : f[k] = step[k][f[k - 1]]

\* Any steps can be run.
LEMMA Recursion ==
    ASSUME NEW n \in Nat, NEW V, NEW a \in V, NEW step, Steps(step, n, V)
    PROVE  \E f : Runs(f, n, V, a, step)
<1>0. step \in [1..n -> [V -> V]]
  BY DEF Steps
<1> DEFINE T == {m \in 0..n : \E f : Runs(f, m, V, a, step)}
<1>1. 0 \in T
  <2>1. Runs([i \in 0..0 |-> a], 0, V, a, step)
    BY DEF Runs
  <2>2. QED
    BY <2>1
<1>2. ASSUME NEW m \in 1..n, m - 1 \in T PROVE m \in T
  <2>1. PICK f : Runs(f, m - 1, V, a, step)
    BY <1>2
  <2>2. /\ f \in [0..(m - 1) -> V] /\ f[0] = a
        /\ \A k \in 1..(m - 1) : f[k] = step[k][f[k - 1]]
    BY <2>1 DEF Runs
  <2> DEFINE g == [i \in 0..m |-> IF i = m THEN step[m][f[m - 1]] ELSE f[i]]
  <2>3. f[m - 1] \in V /\ step[m][f[m - 1]] \in V
    BY <1>0, <2>2
  <2>4. g \in [0..m -> V] /\ g[0] = a
    BY <2>3, <2>2
  <2>5. ASSUME NEW k \in 1..m PROVE g[k] = step[k][g[k - 1]]
    <3>1. CASE k = m
      BY <3>1
    <3>2. CASE k # m
      <4>1. /\ k \in 1..(m - 1) /\ k - 1 \in 0..(m - 1)
            /\ k \in 0..m /\ k - 1 \in 0..m /\ k - 1 # m
        BY <3>2
      <4>2. QED
        BY <3>2, <4>1, <2>2
    <3>3. QED
      BY <3>1, <3>2
  <2>6. Runs(g, m, V, a, step)
    <3> HIDE DEF g
    <3>1. QED
      BY <2>4, <2>5 DEF Runs
  <2> HIDE DEF g
  <2>7. QED
    BY <2>6
<1>3. 0..n \subseteq T
  <2> HIDE DEF T
  <2>1. QED
    BY <1>1, <1>2, SetInduction
<1>4. QED
  BY <1>3
=============================================================================
