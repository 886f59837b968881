----------------------------- MODULE Recursions -----------------------------
(***************************************************************************)
(* What the recursive functions of the other modules have in common: a     *)
(* function that is defined step by step on 0 .. n exists, and what holds  *)
(* at 0 and is kept by every step holds to the end.  Only facts about      *)
(* naturals and functions are used, so that any module can cite them.      *)
(***************************************************************************)
EXTENDS Naturals, Sequences, SequenceTheorems, WellFoundedInduction, TLAPS

\* Every nonempty set of naturals has a least member.
LEMMA Least ==
  ASSUME NEW S \in SUBSET Nat, S # {}
  PROVE  \E x \in S : \A y \in S : x <= y
<1> DEFINE less == OpToRel(<, Nat)
<1>1. \A x, y \in Nat : x < y => <<x, y>> \in less
  BY DEF OpToRel
<1>2. IsWellFoundedOn(less, Nat)
  BY NatLessThanWellFounded
<1> HIDE DEF less
<1>3. PICK x \in S : \A y \in S : ~(<<y, x>> \in less)
  BY <1>2, WFMin
<1>4. \A y \in S : ~(y < x)
  BY <1>1, <1>3
<1> QED
  BY <1>3, <1>4

\* Induction, for a set of naturals up to n.
LEMMA StepByStep ==
  ASSUME NEW n \in Nat, NEW Good, 0 \in Good,
         \A k \in 1 .. n : k - 1 \in Good => k \in Good
  PROVE  \A k \in 0 .. n : k \in Good
<1> SUFFICES ASSUME {k \in 0 .. n : k \notin Good} # {} PROVE FALSE
    OBVIOUS
<1>1. PICK k \in {j \in 0 .. n : j \notin Good} :
        \A j \in {i \in 0 .. n : i \notin Good} : k <= j
  <2>1. {k \in 0 .. n : k \notin Good} \in SUBSET Nat
    OBVIOUS
  <2> QED BY <2>1, Least
<1>2. k \in 1 .. n /\ k - 1 \in 0 .. n
  BY <1>1
<1> QED BY <1>1, <1>2

\* A run of m steps that starts with b, in V.
Runs(V, b, step, m) ==
  {f \in [0 .. m -> V] : f[0] = b /\ \A k \in 1 .. m : f[k] = step[<<f[k - 1], k>>]}

LEMMA RunExists ==
  ASSUME NEW n \in Nat, NEW V, NEW b \in V, NEW step \in [V \X (1 .. n) -> V]
  PROVE  Runs(V, b, step, n) # {}
<1> DEFINE Good == {m \in 0 .. n : Runs(V, b, step, m) # {}}
<1>1. 0 \in Good
  <2>1. [k \in 0 .. 0 |-> b] \in Runs(V, b, step, 0)
    BY DEF Runs
  <2> QED BY <2>1
<1>2. ASSUME NEW m \in 1 .. n, m - 1 \in Good PROVE m \in Good
  <2>1. PICK f : f \in Runs(V, b, step, m - 1)
    BY <1>2
  <2>2. f \in [0 .. (m - 1) -> V] /\ f[0] = b
        /\ \A k \in 1 .. (m - 1) : f[k] = step[<<f[k - 1], k>>]
    BY <2>1 DEF Runs
  <2> DEFINE g == [k \in 0 .. m |-> IF k = m THEN step[<<f[m - 1], m>>] ELSE f[k]]
  <2>3. step[<<f[m - 1], m>>] \in V
    BY <2>2
  <2>4. \A k \in 0 .. (m - 1) : g[k] = f[k]
    OBVIOUS
  <2>5. g \in [0 .. m -> V]
    BY <2>2, <2>3
  <2>6. g[m] = step[<<g[m - 1], m>>]
    <3>1. g[m] = step[<<f[m - 1], m>>] /\ m - 1 \in 0 .. (m - 1)
      OBVIOUS
    <3> QED BY <3>1, <2>4
  <2>7. \A k \in 1 .. m : g[k] = step[<<g[k - 1], k>>]
    <3> HIDE DEF g
    <3> TAKE k \in 1 .. m
    <3>1. CASE k = m
      BY <3>1, <2>6
    <3>2. CASE k # m
      <4>1. k \in 1 .. (m - 1) /\ k - 1 \in 0 .. (m - 1) /\ k \in 0 .. (m - 1)
        BY <3>2
      <4> QED BY <4>1, <2>2, <2>4
    <3> QED BY <3>1, <3>2
  <2>8. g[0] = b
    BY <2>2, <2>4
  <2> HIDE DEF g
  <2>9. g \in Runs(V, b, step, m)
    BY <2>5, <2>7, <2>8 DEF Runs
  <2> QED BY <2>9
<1> HIDE DEF Good
<1>3. n \in Good
  BY <1>1, <1>2, StepByStep
<1> QED BY <1>3 DEF Good

=============================================================================
