----------------------------- MODULE SumsProofs -----------------------------
(***************************************************************************)
(* What the proofs about trial counters need to know of SumTo: it unfolds, *)
(* it is a natural number, it depends on the first entries only, and it is *)
(* below, or above, two other sums when its entries are.                   *)
(*                                                                         *)
(* Every argument is by least counterexample: the smallest member of the   *)
(* set of numbers for which a fact fails is refuted.                       *)
(***************************************************************************)
EXTENDS Sums, FiniteSetTheorems, TLAPS

\* A set of numbers that is not empty has a least element: the smallest of the sets 1..n in
\* the well-founded order of strict inclusion.
LEMMA LeastNumber ==
  ASSUME NEW S \in SUBSET Nat, S # {}
  PROVE  \E n \in S : \A m \in S : n <= m
<1> DEFINE T == {1..n : n \in S}
           R == StrictSubsetOrdering(Nat)
<1>1. T \subseteq FiniteSubsetsOf(Nat) /\ T # {}
  <2>1. ASSUME NEW n \in S PROVE 1..n \in FiniteSubsetsOf(Nat)
    <3>1. 1..n \in SUBSET Nat /\ n \in Int
      OBVIOUS
    <3>2. IsFiniteSet(1..n)
      BY <3>1, FS_Interval
    <3> QED BY <3>1, <3>2 DEF FiniteSubsetsOf
  <2> QED BY <2>1
<1>2. IsWellFoundedOn(R, FiniteSubsetsOf(Nat))
  BY FS_StrictSubsetOrderingWellFounded
<1>3. \E x \in T : \A y \in T : ~(<<y, x>> \in R)
  <2> HIDE DEF T, R
  <2> QED BY <1>1, <1>2, WFMin
<1>4. PICK n \in S : \A m \in S : ~(<<1..m, 1..n>> \in R)
  BY <1>3
<1>5. \A m \in S : n <= m
  <2> SUFFICES ASSUME NEW m \in S, m < n PROVE FALSE
    OBVIOUS
  <2>1. 1..m \subseteq 1..n /\ n \in 1..n /\ n \notin 1..m
    OBVIOUS
  <2>2. <<1..m, 1..n>> \in R
    BY <2>1 DEF StrictSubsetOrdering
  <2> QED BY <2>2, <1>4
<1> QED BY <1>5

\* A set of numbers with zero and with the successor of each of its members is all of Nat.
LEMMA Induction ==
  ASSUME NEW S \in SUBSET Nat, 0 \in S, \A n \in S : n + 1 \in S
  PROVE  S = Nat
<1> DEFINE F == Nat \ S
<1>1. ASSUME F # {} PROVE FALSE
  <2>1. PICK n \in F : \A m \in F : n <= m
    <3> F \in SUBSET Nat
      OBVIOUS
    <3> HIDE DEF F
    <3> QED BY <1>1, LeastNumber
  <2>2. n \in Nat /\ n # 0 /\ n - 1 \in Nat
    OBVIOUS
  <2>3. n - 1 \in S
    BY <2>1, <2>2
  <2>4. (n - 1) + 1 = n
    BY <2>2
  <2> QED BY <2>3, <2>4
<1> QED BY <1>1

-----------------------------------------------------------------------------
(* The recursive function exists.                                          *)

Partial(f, n, h) == h = [i \in 0..n |-> IF i = 0 THEN 0 ELSE h[i - 1] + f[i]]

\* The partial sums up to any number exist.
LEMMA PartialExists ==
  ASSUME NEW f, NEW n \in Nat
  PROVE  \E h : Partial(f, n, h)
<1> DEFINE S == {m \in Nat : \E h : Partial(f, m, h)}
<1>1. 0 \in S
  <2> DEFINE h == [i \in 0..0 |-> 0]
  <2>1. h = [i \in 0..0 |-> IF i = 0 THEN 0 ELSE h[i - 1] + f[i]]
    OBVIOUS
  <2> QED BY <2>1 DEF Partial
<1>2. ASSUME NEW m \in S PROVE m + 1 \in S
  <2>1. PICK h : Partial(f, m, h)
    OBVIOUS
  <2> DEFINE g == [i \in 0..(m + 1) |-> IF i = m + 1 THEN h[m] + f[m + 1] ELSE h[i]]
  <2>2. m \in Nat /\ m + 1 \in Nat
    OBVIOUS
  <2>3. ASSUME NEW i \in 0..(m + 1) PROVE g[i] = IF i = 0 THEN 0 ELSE g[i - 1] + f[i]
    <3>1. CASE i = m + 1
      BY <3>1, <2>2
    <3>2. CASE i # m + 1
      <4>1. i \in 0..m /\ g[i] = h[i]
        BY <2>2, <3>2
      <4>2. h[i] = IF i = 0 THEN 0 ELSE h[i - 1] + f[i]
        BY <4>1, <2>1 DEF Partial
      <4>3. i # 0 => i - 1 \in 0..(m + 1) /\ i - 1 # m + 1
        BY <4>1, <2>2
      <4> QED BY <4>1, <4>2, <4>3
    <3> QED BY <3>1, <3>2
  <2>4. g = [i \in 0..(m + 1) |-> IF i = 0 THEN 0 ELSE g[i - 1] + f[i]]
    BY <2>3
  <2>5. Partial(f, m + 1, g)
    <3> HIDE DEF g
    <3> QED BY <2>4 DEF Partial
  <2> QED BY <2>2, <2>5
<1>3. S = Nat
  <2> S \in SUBSET Nat
    OBVIOUS
  <2> HIDE DEF S
  <2> QED BY <1>1, <1>2, Induction
<1> QED BY <1>3

\* Partial sums agree where they are both defined.
LEMMA PartialsAgree ==
  ASSUME NEW f, NEW n \in Nat, NEW m \in Nat, NEW g, NEW h, Partial(f, n, g), Partial(f, m, h),
         NEW i \in Nat, i <= n, i <= m
  PROVE  g[i] = h[i]
<1> DEFINE S == {j \in Nat : j <= n /\ j <= m => g[j] = h[j]}
<1>1. 0 \in S
  BY DEF Partial
<1>2. ASSUME NEW j \in S PROVE j + 1 \in S
  <2> SUFFICES ASSUME j + 1 <= n, j + 1 <= m PROVE g[j + 1] = h[j + 1]
    OBVIOUS
  <2>1. g[j] = h[j] /\ j \in Nat
    OBVIOUS
  <2>2. j + 1 \in 0..n /\ j + 1 \in 0..m /\ j + 1 # 0 /\ (j + 1) - 1 = j
    BY <2>1
  <2>3. g[j + 1] = g[j] + f[j + 1]
    BY <2>2 DEF Partial
  <2>4. h[j + 1] = h[j] + f[j + 1]
    BY <2>2 DEF Partial
  <2> QED BY <2>1, <2>3, <2>4
<1>3. S = Nat
  <2> S \in SUBSET Nat
    OBVIOUS
  <2> HIDE DEF S
  <2> QED BY <1>1, <1>2, Induction
<1> QED BY <1>3

Recursion(f, s) == s = [i \in Nat |-> IF i = 0 THEN 0 ELSE s[i - 1] + f[i]]

\* The sums up to every number form one function.
LEMMA SumExists ==
  ASSUME NEW f
  PROVE  \E s : Recursion(f, s)
<1> DEFINE P(n) == CHOOSE h : Partial(f, n, h)
           s == [i \in Nat |-> P(i)[i]]
<1>1. \A n \in Nat : Partial(f, n, P(n))
  BY PartialExists
<1> HIDE DEF P
<1>2. ASSUME NEW i \in Nat PROVE s[i] = IF i = 0 THEN 0 ELSE s[i - 1] + f[i]
  <2>1. P(i)[i] = IF i = 0 THEN 0 ELSE P(i)[i - 1] + f[i]
    BY <1>1 DEF Partial
  <2>2. ASSUME i # 0 PROVE P(i)[i - 1] = P(i - 1)[i - 1]
    <3>1. i - 1 \in Nat /\ i - 1 <= i /\ i - 1 <= i - 1
      BY <2>2
    <3> QED BY <1>1, <3>1, PartialsAgree
  <2> QED BY <2>1, <2>2
<1>3. s = [i \in Nat |-> IF i = 0 THEN 0 ELSE s[i - 1] + f[i]]
  BY <1>2
<1> HIDE DEF s
<1> QED BY <1>3 DEF Recursion

-----------------------------------------------------------------------------
(* The facts that are used.                                                *)

\* A sum is empty, or the sum of one entry less and the last one.
LEMMA SumUnfolds ==
  ASSUME NEW f
  PROVE  SumTo(f, 0) = 0 /\ \A n \in Nat : SumTo(f, n + 1) = SumTo(f, n) + f[n + 1]
<1> DEFINE s == CHOOSE s : Recursion(f, s)
<1>1. Recursion(f, s)
  BY SumExists
<1>2. \A n : SumTo(f, n) = s[n]
  BY DEF SumTo, Recursion
<1> HIDE DEF s
<1>3. s[0] = 0
  BY <1>1 DEF Recursion
<1>4. ASSUME NEW n \in Nat PROVE s[n + 1] = s[n] + f[n + 1]
  <2>1. n + 1 \in Nat /\ n + 1 # 0 /\ (n + 1) - 1 = n
    OBVIOUS
  <2> QED BY <1>1, <2>1 DEF Recursion
<1> QED BY <1>2, <1>3, <1>4

\* A sum of numbers is a number.
LEMMA SumIsNat ==
  ASSUME NEW f, NEW n \in Nat, \A i \in 1..n : f[i] \in Nat
  PROVE  SumTo(f, n) \in Nat
<1> DEFINE S == {m \in Nat : m <= n => SumTo(f, m) \in Nat}
<1>1. 0 \in S
  BY SumUnfolds
<1>2. ASSUME NEW m \in S PROVE m + 1 \in S
  BY SumUnfolds
<1>3. S = Nat
  <2> S \in SUBSET Nat
    OBVIOUS
  <2> HIDE DEF S
  <2> QED BY <1>1, <1>2, Induction
<1> QED BY <1>3

\* A sum depends on the entries it adds, and on no other.
LEMMA SumSame ==
  ASSUME NEW f, NEW g, NEW n \in Nat, \A i \in 1..n : f[i] = g[i]
  PROVE  SumTo(f, n) = SumTo(g, n)
<1> DEFINE S == {m \in Nat : m <= n => SumTo(f, m) = SumTo(g, m)}
<1>1. 0 \in S
  BY SumUnfolds
<1>2. ASSUME NEW m \in S PROVE m + 1 \in S
  <2> SUFFICES ASSUME m + 1 <= n PROVE SumTo(f, m + 1) = SumTo(g, m + 1)
    OBVIOUS
  <2>1. m \in Nat /\ m + 1 \in 1..n /\ SumTo(f, m) = SumTo(g, m)
    OBVIOUS
  <2> QED BY <2>1, SumUnfolds
<1>3. S = Nat
  <2> S \in SUBSET Nat
    OBVIOUS
  <2> HIDE DEF S
  <2> QED BY <1>1, <1>2, Induction
<1> QED BY <1>3

\* Entry by entry below the sum of two tables: so is the sum.
LEMMA SumBelow ==
  ASSUME NEW f, NEW g, NEW h, NEW n \in Nat,
         \A i \in 1..n : f[i] \in Nat /\ g[i] \in Nat /\ h[i] \in Nat /\ f[i] <= g[i] + h[i]
  PROVE  SumTo(f, n) <= SumTo(g, n) + SumTo(h, n)
<1> DEFINE S == {m \in Nat : m <= n => SumTo(f, m) <= SumTo(g, m) + SumTo(h, m)}
<1>1. 0 \in S
  BY SumUnfolds
<1>2. ASSUME NEW m \in S PROVE m + 1 \in S
  <2> SUFFICES ASSUME m + 1 <= n PROVE SumTo(f, m + 1) <= SumTo(g, m + 1) + SumTo(h, m + 1)
    OBVIOUS
  <2>1. m \in Nat /\ m + 1 \in 1..n /\ SumTo(f, m) <= SumTo(g, m) + SumTo(h, m)
    OBVIOUS
  <2>2. SumTo(f, m) \in Nat /\ SumTo(g, m) \in Nat /\ SumTo(h, m) \in Nat
    BY <2>1, SumIsNat
  <2>3. /\ SumTo(f, m + 1) = SumTo(f, m) + f[m + 1] /\ SumTo(g, m + 1) = SumTo(g, m) + g[m + 1]
        /\ SumTo(h, m + 1) = SumTo(h, m) + h[m + 1]
    BY <2>1, SumUnfolds
  <2>4. f[m + 1] \in Nat /\ g[m + 1] \in Nat /\ h[m + 1] \in Nat /\ f[m + 1] <= g[m + 1] + h[m + 1]
    BY <2>1
  <2> QED BY <2>1, <2>2, <2>3, <2>4
<1>3. S = Nat
  <2> S \in SUBSET Nat
    OBVIOUS
  <2> HIDE DEF S
  <2> QED BY <1>1, <1>2, Induction
<1> QED BY <1>3

\* Entry by entry at least the sum of two tables: so is the sum.
LEMMA SumAbove ==
  ASSUME NEW f, NEW g, NEW h, NEW n \in Nat,
         \A i \in 1..n : f[i] \in Nat /\ g[i] \in Nat /\ h[i] \in Nat /\ f[i] >= g[i] + h[i]
  PROVE  SumTo(f, n) >= SumTo(g, n) + SumTo(h, n)
<1> DEFINE S == {m \in Nat : m <= n => SumTo(f, m) >= SumTo(g, m) + SumTo(h, m)}
<1>1. 0 \in S
  BY SumUnfolds
<1>2. ASSUME NEW m \in S PROVE m + 1 \in S
  <2> SUFFICES ASSUME m + 1 <= n PROVE SumTo(f, m + 1) >= SumTo(g, m + 1) + SumTo(h, m + 1)
    OBVIOUS
  <2>1. m \in Nat /\ m + 1 \in 1..n /\ SumTo(f, m) >= SumTo(g, m) + SumTo(h, m)
    OBVIOUS
  <2>2. SumTo(f, m) \in Nat /\ SumTo(g, m) \in Nat /\ SumTo(h, m) \in Nat
    BY <2>1, SumIsNat
  <2>3. /\ SumTo(f, m + 1) = SumTo(f, m) + f[m + 1] /\ SumTo(g, m + 1) = SumTo(g, m) + g[m + 1]
        /\ SumTo(h, m + 1) = SumTo(h, m) + h[m + 1]
    BY <2>1, SumUnfolds
  <2>4. f[m + 1] \in Nat /\ g[m + 1] \in Nat /\ h[m + 1] \in Nat /\ f[m + 1] >= g[m + 1] + h[m + 1]
    BY <2>1
  <2> QED BY <2>1, <2>2, <2>3, <2>4
<1>3. S = Nat
  <2> S \in SUBSET Nat
    OBVIOUS
  <2> HIDE DEF S
  <2> QED BY <1>1, <1>2, Induction
<1> QED BY <1>3

=============================================================================
