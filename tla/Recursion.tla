------------------------------- MODULE Recursion -------------------------------
(***************************************************************************)
(* Induction over the numbers, and recursive functions of them: what the   *)
(* proofs need about folds over channels and slots.                        *)
(***************************************************************************)
EXTENDS Integers, FiniteSetTheorems, TLAPS

\* A set of numbers has a least element: the sets {0, ..., s - 1} for s in S
\* are finite, and one of them has no other below it.
LEMMA LeastNumber ==
    ASSUME NEW S, S \subseteq Nat, S # {}
    PROVE  \E n \in S : \A m \in S : n <= m
<1>1. PICK k \in S : TRUE
    OBVIOUS
<1> DEFINE U == 0 .. k
           Below(s) == {i \in U : i < s}
           T == {Below(s) : s \in {s \in S : s <= k}}
<1>2. IsWellFoundedOn(StrictSubsetOrdering(U), FiniteSubsetsOf(U))
    BY FS_StrictSubsetOrderingWellFounded
<1>3. T \subseteq FiniteSubsetsOf(U)
  <2>1. IsFiniteSet(U)
      BY FS_Interval
  <2>2. \A s \in S : IsFiniteSet(Below(s))
      BY <2>1, FS_Subset
  <2> QED  BY <2>2 DEF FiniteSubsetsOf
<1>4. T # {}
  <2>1. k <= k
      OBVIOUS
  <2> QED  BY <2>1
<1>5. PICK x \in T : \A y \in T : ~(<<y, x>> \in StrictSubsetOrdering(U))
  <2> HIDE DEF T, U
  <2> QED  BY <1>2, <1>3, <1>4, WFMin
<1>6. PICK n \in S : n <= k /\ x = Below(n)
    BY <1>5
<1>7. ASSUME NEW m \in S, m < n  PROVE FALSE
  <2>1. Below(m) \in T
      BY <1>6, <1>7
  <2>2. m \in x /\ m \notin Below(m)
      BY <1>6, <1>7
  <2>3. Below(m) \subseteq x /\ x \subseteq U
      BY <1>6, <1>7
  <2>4. <<Below(m), x>> \in StrictSubsetOrdering(U)
      BY <2>2, <2>3 DEF StrictSubsetOrdering
  <2> QED  BY <1>5, <2>1, <2>4
<1> QED  BY <1>7

\* What holds of 0 and goes from each number to the next holds up to N.
LEMMA UpTo ==
    ASSUME NEW N \in Nat, NEW S, 0 \in S,
           \A n \in 0 .. N - 1 : n \in S => n + 1 \in S
    PROVE  0 .. N \subseteq S
<1> DEFINE C == {n \in 0 .. N : n \notin S}
<1>1. SUFFICES ASSUME C # {}  PROVE FALSE
    OBVIOUS
<1>2. PICK n \in C : \A m \in C : n <= m
  <2>1. C \subseteq Nat
      OBVIOUS
  <2> HIDE DEF C
  <2> QED  BY <1>1, <2>1, LeastNumber
<1>3. n # 0 /\ n - 1 \in 0 .. N - 1
    BY <1>2
<1>4. n - 1 \in S
    BY <1>2, <1>3
<1>5. (n - 1) + 1 = n
    BY <1>2
<1> QED  BY <1>2, <1>3, <1>4, <1>5

\* g begins with x and goes on as F says.
Recurs(g, N, x, F) == g = [n \in 0 .. N |-> IF n = 0 THEN x ELSE F[<<n - 1, g[n - 1]>>]]

\* A recursive function of the numbers up to N exists.
LEMMA RecursiveFunction ==
    ASSUME NEW N \in Nat, NEW X, NEW x \in X, NEW F \in [(0 .. N) \X X -> X]
    PROVE  \E g \in [0 .. N -> X] : Recurs(g, N, x, F)
<1> DEFINE Fits(g, k) ==
              /\ g \in [0 .. k -> X] /\ g[0] = x
              /\ \A n \in 1 .. k : g[n] = F[<<n - 1, g[n - 1]>>]
           S == {k \in 0 .. N : \E g : Fits(g, k)}
<1>1. 0 \in S
  <2> DEFINE g == [n \in 0 .. 0 |-> x]
  <2>1. Fits(g, 0)
      OBVIOUS
  <2> HIDE DEF g, Fits
  <2> QED  BY <2>1
<1>2. ASSUME NEW k \in 0 .. N - 1, k \in S  PROVE k + 1 \in S
  <2>1. PICK g : Fits(g, k)
      BY <1>2
  <2>2. g[k] \in X /\ F[<<k, g[k]>>] \in X
      BY <2>1
  <2> DEFINE y == F[<<k, g[k]>>]
             h == [n \in 0 .. k + 1 |-> IF n = k + 1 THEN y ELSE g[n]]
  <2>3. \A n \in 0 .. k : h[n] = g[n]
      OBVIOUS
  <2>4. h[k + 1] = y
      OBVIOUS
  <2>5. h \in [0 .. k + 1 -> X] /\ h[0] = x
    <3>1. \A n \in 0 .. k + 1 : (IF n = k + 1 THEN y ELSE g[n]) \in X
        BY <2>1, <2>2
    <3> QED  BY <2>1, <2>3, <3>1
  <2>6. ASSUME NEW n \in 1 .. k + 1  PROVE h[n] = F[<<n - 1, h[n - 1]>>]
    <3>1. CASE n = k + 1
      <4>1. n - 1 = k /\ h[k] = g[k]
          BY <2>3, <3>1
      <4>2. h[n] = F[<<k, g[k]>>]
          BY <2>4, <3>1
      <4> HIDE DEF h
      <4> QED  BY <4>1, <4>2
    <3>2. CASE n # k + 1
      <4>1. n \in 1 .. k /\ n \in 0 .. k /\ n - 1 \in 0 .. k
          BY <3>2
      <4> QED  BY <2>1, <2>3, <4>1
    <3> QED  BY <3>1, <3>2
  <2> HIDE DEF h
  <2>7. Fits(h, k + 1)
      BY <2>5, <2>6
  <2> HIDE DEF Fits
  <2> QED  BY <2>7
<1>3. N \in S
  <2> HIDE DEF S
  <2>1. 0 .. N \subseteq S
      BY <1>1, <1>2, UpTo
  <2> QED  BY <2>1
<1>4. PICK g : Fits(g, N)
    BY <1>3
<1>5. Recurs(g, N, x, F)
  <2>1. \A n \in 0 .. N : g[n] = IF n = 0 THEN x ELSE F[<<n - 1, g[n - 1]>>]
      BY <1>4
  <2> QED  BY <1>4, <2>1 DEF Recurs
<1> QED  BY <1>4, <1>5
================================================================================
