------------------------------ MODULE WalkProofs ------------------------------
(***************************************************************************)
(* What the proofs about walks along links share: induction over the       *)
(* numbers of the steps, said of sets of numbers, and the length of a walk *)
(* that meets nothing twice.                                               *)
(***************************************************************************)
EXTENDS Integers, FiniteSets, FiniteSetTheorems, FunctionTheorems, WellFoundedInduction, TLAPS

\* A set of numbers that is not empty has a least one.
LEMMA Least ==
  ASSUME NEW T, T \subseteq Nat, T # {}
  PROVE  \E m \in T : \A k \in T : m <= k
<1>1. PICK x \in T : \A y \in T : ~(<<y, x>> \in OpToRel(<, Nat))
  BY NatLessThanWellFounded, WFMin, Zenon
<1>2. \A x1, y \in Nat : <<y, x1>> \in OpToRel(<, Nat) <=> y < x1
  BY Zenon DEF OpToRel
<1>3. \A y \in T : x \in Nat /\ y \in Nat /\ ~(y < x)
  BY <1>1, <1>2, Zenon
<1> QED
  BY <1>3

\* A set of numbers up to a bound that is not empty has a greatest one.
LEMMA Greatest ==
  ASSUME NEW N \in Nat, NEW T, T \subseteq 0 .. N, T # {}
  PROVE  \E m \in T : \A k \in T : k <= m
<1> DEFINE U == {N - k : k \in T}
<1>0. \A k \in T : k \in 0 .. N
  OBVIOUS
<1>1. U \subseteq Nat /\ U # {}
  <2>1. \A k \in T : N - k \in Nat
    BY <1>0
  <2>2. U \subseteq Nat
    BY <2>1, Zenon
  <2> QED
    BY <2>2, Zenon
<1>2. PICK u \in U : \A k \in U : u <= k
  <2> HIDE DEF U
  <2> QED BY <1>1, Least
<1>3. PICK m \in T : u = N - m
  OBVIOUS
<1>4. ASSUME NEW k \in T PROVE k <= m
  <2>1. u <= N - k
    BY <1>2
  <2> QED
    BY <1>0, <1>3, <2>1
<1> QED
  BY <1>4

\* Induction up to a bound.
LEMMA UpTo ==
  ASSUME NEW N \in Nat, NEW T, 0 \in T, \A n \in 0 .. N - 1 : n \in T => n + 1 \in T
  PROVE  \A n \in 0 .. N : n \in T
<1> SUFFICES ASSUME NEW a \in 0 .. N, a \notin T PROVE FALSE
  OBVIOUS
<1> DEFINE U == {n \in 0 .. N : n \notin T}
<1>1. U \subseteq Nat /\ U # {}
  OBVIOUS
<1>2. PICK m \in U : \A k \in U : m <= k
  <2> HIDE DEF U
  <2> QED BY <1>1, Least
<1>3. m # 0 /\ m - 1 \in 0 .. N - 1 /\ m - 1 \notin U
  BY <1>2
<1> QED
  BY <1>3

\* A walk through a finite set that meets nothing twice is no longer than the
\* set is large.
LEMMA WalkBound ==
  ASSUME NEW n \in Nat, NEW S, IsFiniteSet(S), NEW s \in [1 .. n -> S],
         \A j, k \in 1 .. n : s[j] = s[k] => j = k
  PROVE  n <= Cardinality(S)
<1>1. s \in Injection(1 .. n, S)
  BY DEF Injection, IsInjective
<1>2. Cardinality(1 .. n) <= Cardinality(S)
  BY <1>1, FS_Injection
<1>3. Cardinality(1 .. n) = n
  BY FS_Interval
<1> QED
  BY <1>2, <1>3

\* What leads from each member of S to the next one.
Steps(S) == [S -> S]

\* f is the walk of N such steps from c.
IsWalk(f, N, S, c, step) ==
  /\ f \in [0 .. N -> S]
  /\ f[0] = c
  /\ \A k \in 1 .. N : f[k] = step[f[k - 1]]

\* From every member there is a walk of every length.
LEMMA Iterate ==
  ASSUME NEW N \in Nat, NEW S, NEW c \in S, NEW step \in Steps(S)
  PROVE  \E f : IsWalk(f, N, S, c, step)
<1>0. step \in [S -> S]
  BY DEF Steps
<1> DEFINE T == {n \in 0 .. N : \E f \in [0 .. n -> S] :
                   f[0] = c /\ \A k \in 1 .. n : f[k] = step[f[k - 1]]}
<1>1. 0 \in T
  <2>1. \E f \in [0 .. 0 -> S] : f[0] = c /\ \A k \in 1 .. 0 : f[k] = step[f[k - 1]]
    <3>1. PICK f : f = [k \in 0 .. 0 |-> c]
      OBVIOUS
    <3>2. f \in [0 .. 0 -> S] /\ f[0] = c
      BY <3>1
    <3> QED
      BY <3>2
  <2> QED
    BY <2>1
<1>2. ASSUME NEW n \in 0 .. N - 1, n \in T PROVE n + 1 \in T
  <2>1. PICK f \in [0 .. n -> S] : f[0] = c /\ \A k \in 1 .. n : f[k] = step[f[k - 1]]
    BY <1>2
  <2>2. PICK m : m = n + 1
    OBVIOUS
  <2>3. m \in 0 .. N /\ n \in 0 .. n /\ \A k \in 0 .. m : k \in 0 .. n \/ k = m
    BY <2>2
  <2> DEFINE g == [k \in 0 .. m |-> IF k = m THEN step[f[n]] ELSE f[k]]
  <2>4. g \in [0 .. m -> S]
    BY <1>0, <2>1, <2>3
  <2>5. g[0] = c
    BY <2>1, <2>2
  <2>6. ASSUME NEW k \in 1 .. m PROVE g[k] = step[g[k - 1]]
    <3>1. CASE k = m
      <4>1. k - 1 = n /\ n # m /\ n \in 0 .. m /\ m \in 0 .. m
        BY <2>2, <3>1
      <4> QED
        BY <3>1, <4>1
    <3>2. CASE k # m
      <4>1. k \in 1 .. n /\ k - 1 \in 0 .. n /\ k - 1 # m /\ k \in 0 .. m /\ k - 1 \in 0 .. m
        BY <2>2, <3>2
      <4> QED
        BY <2>1, <3>2, <4>1
    <3> QED
      BY <3>1, <3>2
  <2> HIDE DEF g
  <2>7. m \in T
    BY <2>3, <2>4, <2>5, <2>6
  <2> QED
    BY <2>2, <2>7
<1> HIDE DEF T
<1>3. N \in T
  BY <1>1, <1>2, UpTo
<1> QED
  BY <1>3 DEF T, IsWalk
=============================================================================
