------------------------------ MODULE Induction ------------------------------
(***************************************************************************)
(* Induction over the natural numbers, the least and greatest element of a *)
(* set of numbers, and how many elements of a set there are up to a place, *)
(* all stated for sets instead of for predicates: a theorem about a set    *)
(* can be applied by every prover.                                         *)
(***************************************************************************)
EXTENDS Integers, FiniteSetTheorems, TLAPS

\* A set of natural numbers has a least element: the interval up to it is
\* minimal among the intervals 0..n with n in the set.
LEMMA LeastNumber ==
  ASSUME NEW T, T \subseteq Nat, T # {}
  PROVE  \E n \in T : \A m \in T : n <= m
<1> DEFINE below == {0..n : n \in T}
<1>1. below \subseteq FiniteSubsetsOf(Nat) /\ below # {}
  <2>1. \A n \in T : 0..n \subseteq Nat /\ IsFiniteSet(0..n)
    BY FS_Interval
  <2>2. QED
    BY <2>1 DEF FiniteSubsetsOf
<1>2. PICK x \in below : \A y \in below : ~(<<y, x>> \in StrictSubsetOrdering(Nat))
  <2> HIDE DEF below
  <2>1. QED
    BY <1>1, WFMin, FS_StrictSubsetOrderingWellFounded
<1>3. PICK n \in T : x = 0..n
  BY <1>2
<1>4. ASSUME NEW m \in T, m < n
      PROVE  FALSE
  <2>1. 0..m \in below /\ 0..m \subseteq 0..n /\ 0..m # 0..n
    BY <1>3, <1>4
  <2>2. 0..m \in SUBSET Nat /\ 0..n \in SUBSET Nat
    OBVIOUS
  <2>3. <<0..m, 0..n>> \in StrictSubsetOrdering(Nat)
    BY <2>1, <2>2, Zenon DEF StrictSubsetOrdering
  <2>4. QED
    BY <1>2, <1>3, <2>1, <2>3
<1>5. QED
  BY <1>4

\* A nonempty set of numbers up to n has a greatest element.
LEMMA GreatestNumber ==
  ASSUME NEW n \in Nat, NEW T, T \subseteq 0..n, T # {}
  PROVE  \E k \in T : \A m \in T : m <= k
<1> DEFINE distances == {n - m : m \in T}
<1>1. distances \subseteq Nat /\ distances # {}
  <2>1. \A m \in T : n - m \in Nat
    OBVIOUS
  <2>2. QED
    BY <2>1
<1>2. PICK d \in distances : \A e \in distances : d <= e
  <2> HIDE DEF distances
  <2>1. QED
    BY <1>1, LeastNumber
<1>3. PICK k \in T : d = n - k
  BY <1>2
<1>4. ASSUME NEW m \in T
      PROVE  m <= k
  <2>1. n - k <= n - m
    BY <1>2, <1>3
  <2>2. QED
    BY <2>1
<1>5. QED
  BY <1>4

\* A set that has 0 and with each number the next has them all.
LEMMA Induction ==
  ASSUME NEW T, 0 \in T, \A n \in Nat : n \in T => n + 1 \in T
  PROVE  \A n \in Nat : n \in T
<1> SUFFICES ASSUME Nat \ T # {}
             PROVE  FALSE
  OBVIOUS
<1>1. PICK n \in Nat \ T : \A m \in Nat \ T : n <= m
  BY LeastNumber
<1>2. n # 0 /\ n - 1 \in Nat /\ n - 1 \notin Nat \ T
  BY <1>1
<1>3. QED
  BY <1>1, <1>2

-----------------------------------------------------------------------------
(* Counting *)

\* The elements of S up to n, and how many they are.
UpTo(S, n) == {j \in 1..n : j \in S}

CountTo(S, n) == Cardinality(UpTo(S, n))

LEMMA CountZero == ASSUME NEW S PROVE CountTo(S, 0) = 0
<1>1. UpTo(S, 0) = {}
  BY DEF UpTo
<1> QED
  BY <1>1, FS_EmptySet DEF CountTo

LEMMA CountNat == ASSUME NEW S, NEW n \in Nat
                  PROVE  IsFiniteSet(UpTo(S, n)) /\ CountTo(S, n) \in 0..n
<1>1. IsFiniteSet(1..n) /\ Cardinality(1..n) = n /\ UpTo(S, n) \in SUBSET (1..n)
  BY FS_Interval DEF UpTo
<1>2. IsFiniteSet(UpTo(S, n)) /\ CountTo(S, n) <= n
  BY <1>1, FS_Subset DEF CountTo
<1>3. CountTo(S, n) \in Nat
  BY <1>2, FS_CardinalityType DEF CountTo
<1> QED
  BY <1>2, <1>3

LEMMA CountNext ==
  ASSUME NEW S, NEW n \in Nat
  PROVE  CountTo(S, n + 1) = IF n + 1 \in S THEN CountTo(S, n) + 1 ELSE CountTo(S, n)
<1>1. IsFiniteSet(UpTo(S, n)) /\ n + 1 \notin UpTo(S, n)
  BY CountNat DEF UpTo
<1>2. CASE n + 1 \in S
  <2>1. UpTo(S, n + 1) = UpTo(S, n) \union {n + 1}
    BY <1>2 DEF UpTo
  <2> QED
    BY <1>1, <1>2, <2>1, FS_AddElement DEF CountTo
<1>3. CASE n + 1 \notin S
  <2>1. UpTo(S, n + 1) = UpTo(S, n)
    BY <1>3 DEF UpTo
  <2> QED
    BY <1>3, <2>1 DEF CountTo
<1> QED
  BY <1>2, <1>3

LEMMA CountMonotone ==
  ASSUME NEW S, NEW m \in Nat, NEW n \in Nat, m <= n
  PROVE  CountTo(S, m) <= CountTo(S, n)
<1>1. UpTo(S, m) \in SUBSET UpTo(S, n)
  BY DEF UpTo
<1> QED
  BY <1>1, CountNat, FS_Subset DEF CountTo

\* An element of S is counted.
LEMMA CountGrows ==
  ASSUME NEW S, NEW m \in Nat, NEW n \in Nat, m < n, n \in S
  PROVE  CountTo(S, m) < CountTo(S, n)
<1>1. n - 1 \in Nat /\ m <= n - 1 /\ (n - 1) + 1 = n
  OBVIOUS
<1>2. CountTo(S, n) = CountTo(S, n - 1) + 1
  BY <1>1, CountNext
<1>3. CountTo(S, m) <= CountTo(S, n - 1)
  BY <1>1, CountMonotone
<1>4. CountTo(S, m) \in Nat /\ CountTo(S, n - 1) \in Nat
  BY <1>1, CountNat
<1> QED
  BY <1>2, <1>3, <1>4

\* Only the elements up to n matter.
LEMMA CountSame ==
  ASSUME NEW S, NEW T, NEW n \in Nat, \A j \in 1..n : j \in S <=> j \in T
  PROVE  CountTo(S, n) = CountTo(T, n)
<1>1. UpTo(S, n) = UpTo(T, n)
  BY DEF UpTo
<1> QED
  BY <1>1 DEF CountTo

\* The elements of a set that is split are those of its parts.
LEMMA CountSplit ==
  ASSUME NEW S, NEW T, NEW U, S \intersect T = {}, S \union T = U
  PROVE  \A n \in Nat : CountTo(U, n) = CountTo(S, n) + CountTo(T, n)
<1> DEFINE good == {n \in Nat : CountTo(U, n) = CountTo(S, n) + CountTo(T, n)}
<1>1. 0 \in good
  BY CountZero
<1>2. ASSUME NEW n \in Nat, n \in good
      PROVE  n + 1 \in good
  <2>1. /\ CountTo(S, n + 1) = IF n + 1 \in S THEN CountTo(S, n) + 1 ELSE CountTo(S, n)
        /\ CountTo(T, n + 1) = IF n + 1 \in T THEN CountTo(T, n) + 1 ELSE CountTo(T, n)
        /\ CountTo(U, n + 1) = IF n + 1 \in U THEN CountTo(U, n) + 1 ELSE CountTo(U, n)
    BY CountNext
  <2>2. CountTo(S, n) \in Nat /\ CountTo(T, n) \in Nat
    BY CountNat
  <2>3. n + 1 \in U <=> n + 1 \in S \/ n + 1 \in T
    OBVIOUS
  <2>4. ~(n + 1 \in S /\ n + 1 \in T)
    OBVIOUS
  <2>5. CountTo(U, n) = CountTo(S, n) + CountTo(T, n)
    BY <1>2
  <2> QED
    BY <2>1, <2>2, <2>3, <2>4, <2>5
<1>3. \A n \in Nat : n \in good
  <2> HIDE DEF good
  <2> QED
    BY <1>1, <1>2, Induction
<1> QED
  BY <1>3

\* All the numbers up to n are n.
LEMMA CountAll ==
  ASSUME NEW S, NEW n \in Nat, 1..n \subseteq S
  PROVE  CountTo(S, n) = n
<1>1. UpTo(S, n) = 1..n
  BY DEF UpTo
<1> QED
  BY <1>1, FS_Interval DEF CountTo

\* The k-th element.
LEMMA CountSelects ==
  ASSUME NEW S, NEW n \in Nat, NEW k \in 1..CountTo(S, n)
  PROVE  \E i \in 1..n : i \in S /\ CountTo(S, i) = k
<1> DEFINE late == {i \in 0..n : CountTo(S, i) >= k}
<1>1. CountTo(S, n) \in Nat /\ k \in Nat /\ k >= 1
  BY CountNat
<1>2. late \subseteq Nat /\ n \in late
  BY <1>1
<1>3. PICK i \in late : \A h \in late : i <= h
  <2> HIDE DEF late
  <2> QED
    BY <1>2, LeastNumber
<1>4. i \in 0..n /\ CountTo(S, i) >= k /\ i # 0
  BY <1>1, <1>3, CountZero
<1>5. i - 1 \in Nat /\ i - 1 \in 0..n /\ i - 1 < i /\ (i - 1) + 1 = i
  BY <1>4
<1>6. CountTo(S, i - 1) \in Nat /\ CountTo(S, i) \in Nat
  BY <1>4, <1>5, CountNat
<1>7. CountTo(S, i - 1) < k
  <2>1. i - 1 \notin late
    <3> HIDE DEF late
    <3> QED
      BY <1>3, <1>4, <1>5
  <2> QED
    BY <1>1, <1>5, <1>6, <2>1
<1>8. CountTo(S, i) = IF i \in S THEN CountTo(S, i - 1) + 1 ELSE CountTo(S, i - 1)
  BY <1>5, CountNext
<1>9. i \in S /\ CountTo(S, i) = k
  BY <1>1, <1>4, <1>6, <1>7, <1>8
<1> QED
  BY <1>4, <1>9

\* The first limit elements.
First(S, limit) == {j \in S : CountTo(S, j) <= limit}

LEMMA CountFirst ==
  ASSUME NEW S, NEW limit \in Nat
  PROVE  \A n \in Nat : CountTo(First(S, limit), n) =
                          IF CountTo(S, n) <= limit THEN CountTo(S, n) ELSE limit
<1> DEFINE P == First(S, limit)
<1> DEFINE good == {n \in Nat : CountTo(P, n) =
                                  IF CountTo(S, n) <= limit THEN CountTo(S, n) ELSE limit}
<1>1. 0 \in good
  BY CountZero
<1>2. ASSUME NEW n \in Nat, n \in good
      PROVE  n + 1 \in good
  <2>1. /\ CountTo(S, n + 1) = IF n + 1 \in S THEN CountTo(S, n) + 1 ELSE CountTo(S, n)
        /\ CountTo(P, n + 1) = IF n + 1 \in P THEN CountTo(P, n) + 1 ELSE CountTo(P, n)
    BY CountNext
  <2>2. CountTo(S, n) \in Nat /\ CountTo(P, n) \in Nat /\ CountTo(S, n + 1) \in Nat
    BY CountNat
  <2>3. n + 1 \in P <=> n + 1 \in S /\ CountTo(S, n + 1) <= limit
    BY DEF First
  <2>4. CountTo(P, n) = IF CountTo(S, n) <= limit THEN CountTo(S, n) ELSE limit
    BY <1>2
  <2>5. n + 1 \in Nat
    OBVIOUS
  <2> HIDE DEF P
  <2> QED
    BY <2>1, <2>2, <2>3, <2>4, <2>5
<1>3. \A n \in Nat : n \in good
  <2> HIDE DEF good
  <2> QED
    BY <1>1, <1>2, Induction
<1> QED
  BY <1>3

\* The others.
LEMMA CountOthers ==
  ASSUME NEW S, NEW limit \in Nat, NEW n \in Nat
  PROVE  CountTo(S \ First(S, limit), n) =
           IF CountTo(S, n) <= limit THEN 0 ELSE CountTo(S, n) - limit
<1> DEFINE P == First(S, limit)
<1>1. P \intersect (S \ P) = {} /\ P \union (S \ P) = S
  BY DEF First
<1>2. CountTo(S, n) = CountTo(P, n) + CountTo(S \ P, n)
  BY <1>1, CountSplit
<1>3. CountTo(P, n) = IF CountTo(S, n) <= limit THEN CountTo(S, n) ELSE limit
  BY CountFirst
<1>4. CountTo(S \ P, n) \in Nat /\ CountTo(S, n) \in Nat
  BY CountNat
<1> HIDE DEF P
<1>5. CountTo(S \ P, n) = IF CountTo(S, n) <= limit THEN 0 ELSE CountTo(S, n) - limit
  BY <1>2, <1>3, <1>4
<1> QED
  BY <1>5 DEF P

\* Among the first ones each has the place it has among all.
LEMMA CountInFirst ==
  ASSUME NEW S, NEW limit \in Nat, NEW i \in Nat, i \in First(S, limit)
  PROVE  CountTo(First(S, limit), i) = CountTo(S, i)
<1>1. CountTo(S, i) <= limit
  BY DEF First
<1> QED
  BY <1>1, CountFirst

-----------------------------------------------------------------------------
(* Recursive functions *)

\* f starts at start and goes on by step, up to N.
Iterates(f, N, start, step) ==
  f[0] = start /\ \A n \in 1..N : f[n] = step[<<n, f[n - 1]>>]

\* Such a function exists.
LEMMA Iteration ==
  ASSUME NEW N \in Nat, NEW S, NEW start \in S, NEW step \in [(1..N) \X S -> S]
  PROVE  \E f \in [0..N -> S] : Iterates(f, N, start, step)
<1> USE DEF Iterates
<1> DEFINE Upto(m, f) == Iterates(f, m, start, step)
           good == {m \in Nat : m <= N => \E f \in [0..m -> S] : Upto(m, f)}
<1>1. 0 \in good
  <2>1. [n \in 0..0 |-> start] \in [0..0 -> S] /\ Upto(0, [n \in 0..0 |-> start])
    OBVIOUS
  <2> QED
    BY <2>1
<1>2. ASSUME NEW m \in Nat, m \in good
      PROVE  m + 1 \in good
  <2> SUFFICES ASSUME m + 1 <= N
               PROVE  \E f \in [0..(m + 1) -> S] : Upto(m + 1, f)
    OBVIOUS
  <2>1. PICK f \in [0..m -> S] : Upto(m, f)
    BY <1>2
  <2> DEFINE new == step[<<m + 1, f[m]>>]
             g == [n \in 0..(m + 1) |-> IF n <= m THEN f[n] ELSE new]
  <2>2. f[m] \in S /\ <<m + 1, f[m]>> \in (1..N) \X S
    BY <2>1
  <2>3. new \in S
    BY <2>2
  <2>4. g \in [0..(m + 1) -> S]
    BY <2>1, <2>3
  <2>5. g[0] = start
    BY <2>1
  <2>6. ASSUME NEW n \in 1..(m + 1)
        PROVE  g[n] = step[<<n, g[n - 1]>>]
    <3>1. n - 1 \in 0..m /\ g[n - 1] = f[n - 1]
      BY <2>1
    <3>2. CASE n <= m
      <4>1. g[n] = f[n] /\ n \in 1..m
        BY <3>2
      <4> QED
        BY <2>1, <3>1, <4>1
    <3>3. CASE n = m + 1
      <4>1. g[n] = new /\ n - 1 = m /\ g[n - 1] = f[m]
        BY <3>1, <3>3
      <4>2. new = step[<<n, g[n - 1]>>]
        BY <3>3, <4>1
      <4> QED
        BY <4>1, <4>2
    <3> QED
      BY <3>2, <3>3
  <2> QED
    BY <2>4, <2>5, <2>6
<1>3. \A m \in Nat : m \in good
  <2> HIDE DEF good
  <2> QED
    BY <1>1, <1>2, Induction
<1> QED
  BY <1>3

\* What holds of the first value and is kept by every step holds of all.
LEMMA StaysIn ==
  ASSUME NEW N \in Nat, NEW S, NEW f, f[0] \in S,
         \A n \in 1..N : f[n - 1] \in S => f[n] \in S
  PROVE  \A n \in 0..N : f[n] \in S
<1> DEFINE good == {n \in Nat : n <= N => f[n] \in S}
<1>1. 0 \in good
  OBVIOUS
<1>2. ASSUME NEW n \in Nat, n \in good
      PROVE  n + 1 \in good
  <2> SUFFICES ASSUME n + 1 <= N
               PROVE  f[n + 1] \in S
    OBVIOUS
  <2>1. n + 1 \in 1..N /\ (n + 1) - 1 = n
    OBVIOUS
  <2>2. f[n] \in S
    BY <1>2
  <2> QED
    BY <2>1, <2>2
<1>3. \A n \in Nat : n \in good
  <2> HIDE DEF good
  <2> QED
    BY <1>1, <1>2, Induction
<1> QED
  BY <1>3

\* A function that goes up the parents of a tree until it meets one to stop at.
Climbs(f, N, up, stop) ==
  f[0] = 0 /\ \A s \in 1..N : f[s] = IF s \in stop THEN s ELSE f[up[s]]

\* Such a function exists.
LEMMA Climbing ==
  ASSUME NEW N \in Nat, NEW up, NEW stop, \A s \in 1..N : up[s] \in 0..(s - 1)
  PROVE  \E f \in [0..N -> Nat] : Climbs(f, N, up, stop)
<1> USE DEF Climbs
<1> DEFINE Upto(m, f) == Climbs(f, m, up, stop)
           good == {m \in Nat : m <= N => \E f \in [0..m -> Nat] : Upto(m, f)}
<1>1. 0 \in good
  <2>1. [s \in 0..0 |-> 0] \in [0..0 -> Nat] /\ Upto(0, [s \in 0..0 |-> 0])
    OBVIOUS
  <2> QED
    BY <2>1
<1>2. ASSUME NEW m \in Nat, m \in good
      PROVE  m + 1 \in good
  <2> HIDE DEF Upto
  <2> SUFFICES ASSUME m + 1 <= N
               PROVE  \E f \in [0..(m + 1) -> Nat] : Upto(m + 1, f)
    OBVIOUS
  <2> USE DEF Upto
  <2>1. PICK f \in [0..m -> Nat] : Upto(m, f)
    BY <1>2
  <2> DEFINE new == IF m + 1 \in stop THEN m + 1 ELSE f[up[m + 1]]
             g == [s \in 0..(m + 1) |-> IF s <= m THEN f[s] ELSE new]
  <2>2. up[m + 1] \in 0..m
    <3>1. m + 1 \in 1..N /\ (m + 1) - 1 = m
      OBVIOUS
    <3> QED
      BY <3>1
  <2>3. g \in [0..(m + 1) -> Nat]
    BY <2>1, <2>2
  <2>4. g[0] = 0
    BY <2>1
  <2>5. ASSUME NEW s \in 1..(m + 1)
        PROVE  g[s] = IF s \in stop THEN s ELSE g[up[s]]
    <3>1. s \in 1..N /\ up[s] \in 0..m /\ up[s] \in 0..(m + 1)
      OBVIOUS
    <3>2. g[up[s]] = f[up[s]]
      BY <3>1
    <3>3. CASE s <= m
      <4>1. g[s] = f[s] /\ s \in 1..m
        BY <3>3
      <4> QED
        BY <2>1, <3>2, <4>1
    <3>4. CASE s = m + 1
      <4>1. g[s] = new
        BY <3>4
      <4> QED
        BY <3>2, <3>4, <4>1
    <3> QED
      BY <3>3, <3>4
  <2>6. Upto(m + 1, g)
    BY <2>4, <2>5
  <2> HIDE DEF g
  <2> QED
    BY <2>3, <2>6
<1>3. N \in good
  <2>1. \A m \in Nat : m \in good
    <3> HIDE DEF good
    <3> QED
      BY <1>1, <1>2, Induction
  <2> QED
    BY <2>1
<1> QED
  BY <1>3

=============================================================================
