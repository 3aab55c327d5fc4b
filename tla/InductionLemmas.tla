-------------------------- MODULE InductionLemmas --------------------------
(***************************************************************************)
(* Facts about the naturals, finite sets and iterated functions that the   *)
(* proofs of several components use in place of an induction: a            *)
(* counterexample to a statement about numbers, if there is one, may be    *)
(* taken to be the least.                                                  *)
(***************************************************************************)
EXTENDS Integers, FiniteSets, TLAPS, FiniteSetTheorems

\* A set of naturals that is not empty has a least element.
LEMMA LeastElement ==
    ASSUME NEW S, S \subseteq Nat, S # {}
    PROVE  \E x \in S : \A y \in S : x <= y
<1> DEFINE R == {p \in Nat \X Nat : p[1] < p[2]}
<1>1. IsWellFoundedOn(R, Nat)
  BY NatLessThanWellFounded, Zenon DEF OpToRel
<1>2. \A x, y \in Nat : y < x => <<y, x>> \in R
  OBVIOUS
<1>3. PICK x \in S : \A y \in S : ~(<<y, x>> \in R)
  <2> HIDE DEF R
  <2> QED BY <1>1, WFMin
<1>4. ASSUME NEW y \in S
      PROVE  x <= y
  <2> HIDE DEF R
  <2>1. x \in Nat /\ y \in Nat
    OBVIOUS
  <2>2. ~(<<y, x>> \in R)
    BY <1>3
  <2> QED BY <1>2, <2>1, <2>2
<1> QED
  BY <1>4

\* A measure bounded from above takes its greatest value somewhere.
LEMMA GreatestMeasure ==
    ASSUME NEW S, S # {}, NEW N \in Nat, NEW m \in [S -> Nat],
           \A x \in S : m[x] <= N
    PROVE  \E x \in S : \A y \in S : m[y] <= m[x]
<1> DEFINE D == {k \in Nat : \E x \in S : k = N - m[x]}
<1>1. \A x \in S : m[x] \in Nat /\ N - m[x] \in Nat /\ N - m[x] \in D
  OBVIOUS
<1>2. D \subseteq Nat /\ D # {}
  BY <1>1
<1>3. PICK k \in D : \A j \in D : k <= j
  BY <1>2, LeastElement
<1>4. PICK x \in S : k = N - m[x]
  OBVIOUS
<1>5. ASSUME NEW y \in S
      PROVE  m[y] <= m[x]
  <2>1. k <= N - m[y]
    BY <1>1, <1>3
  <2> QED
    BY <1>1, <1>4, <2>1
<1> QED
  BY <1>5

\* The rounds 0..N of a loop that starts from b and applies F in every round.
Iterates(S, F, b, N) ==
    {g \in [0..N -> S] : g[0] = b /\ \A i \in 1..N : g[i] = F[g[i - 1]]}

\* A function may be iterated any number of times.
LEMMA IterationExists ==
    ASSUME NEW S, NEW F \in [S -> S], NEW b \in S, NEW N \in Nat
    PROVE  Iterates(S, F, b, N) # {}
<1> DEFINE Rounds(k, g) == g[0] = b /\ \A i \in 1..k : g[i] = F[g[i - 1]]
           Bad == {k \in Nat : ~ \E g \in [0..k -> S] : Rounds(k, g)}
<1> SUFFICES ASSUME Bad # {} PROVE FALSE
  BY DEF Iterates
<1>1. PICK k \in Bad : \A j \in Bad : k <= j
  <2>1. Bad \subseteq Nat
    OBVIOUS
  <2> HIDE DEF Bad
  <2> QED
    BY <2>1, LeastElement
<1>2. k \in Nat /\ ~ \E g \in [0..k -> S] : Rounds(k, g)
  BY <1>1
<1>3. k # 0
  <2> SUFFICES ASSUME k = 0 PROVE FALSE
    OBVIOUS
  <2> DEFINE g == [i \in 0..0 |-> b]
  <2>1. g \in [0..0 -> S] /\ Rounds(0, g)
    OBVIOUS
  <2> QED
    BY <1>2, <2>1
<1>4. k - 1 \in Nat /\ k - 1 \notin Bad
  <2>1. k \in Nat
    BY <1>2
  <2> HIDE DEF Bad, Rounds
  <2> QED
    BY <1>1, <1>3, <2>1
<1>5. PICK g \in [0..(k - 1) -> S] : Rounds(k - 1, g)
  BY <1>4
<1> DEFINE h == [i \in 0..k |-> IF i = k THEN F[g[k - 1]] ELSE g[i]]
<1>6. h \in [0..k -> S]
  <2>1. g[k - 1] \in S
    BY <1>2, <1>3, <1>5
  <2> QED
    BY <1>2, <1>5, <2>1
<1>7. Rounds(k, h)
  <2>1. h[0] = b
    BY <1>2, <1>3, <1>5
  <2>2. ASSUME NEW i \in 1..k
        PROVE  h[i] = F[h[i - 1]]
    <3>1. h[i - 1] = g[i - 1]
      BY <1>2, <2>2
    <3>2. CASE i = k
      BY <1>2, <3>1, <3>2
    <3>3. CASE i # k
      BY <1>2, <1>5, <3>1, <3>3
    <3> QED
      BY <3>2, <3>3
  <2> QED
    BY <2>1, <2>2
<1> QED
  BY <1>2, <1>6, <1>7

\* What holds after round k and survives every later round holds at the end.
LEMMA IterationStays ==
    ASSUME NEW N \in Nat, NEW g, NEW P, NEW k \in 0..N, g[k] \in P,
           \A i \in (k + 1)..N : g[i - 1] \in P => g[i] \in P
    PROVE  g[N] \in P
<1> DEFINE Bad == {i \in Nat : k <= i /\ i <= N /\ g[i] \notin P}
<1> SUFFICES ASSUME Bad # {} PROVE FALSE
  OBVIOUS
<1>1. PICK i \in Bad : \A j \in Bad : i <= j
  <2>1. Bad \subseteq Nat
    OBVIOUS
  <2> HIDE DEF Bad
  <2> QED
    BY <2>1, LeastElement
<1>2. i \in Nat /\ k <= i /\ i <= N /\ g[i] \notin P /\ i # k
  BY <1>1
<1>3. i - 1 \in Nat /\ i - 1 \notin Bad /\ i \in (k + 1)..N
  BY <1>1, <1>2
<1>4. g[i - 1] \in P
  BY <1>2, <1>3
<1> QED
  BY <1>2, <1>3, <1>4

\* Two iterations of the same function from the same start agree as far as
\* both go.
LEMMA IterationUnique ==
    ASSUME NEW S, NEW F, NEW b, NEW N \in Nat, NEW M \in Nat,
           NEW g \in Iterates(S, F, b, N), NEW h \in Iterates(S, F, b, M),
           NEW k \in Nat, k <= N, k <= M
    PROVE  g[k] = h[k]
<1> DEFINE Bad == {i \in Nat : i <= N /\ i <= M /\ g[i] # h[i]}
<1> SUFFICES ASSUME Bad # {} PROVE FALSE
  OBVIOUS
<1>1. PICK i \in Bad : \A j \in Bad : i <= j
  <2>1. Bad \subseteq Nat
    OBVIOUS
  <2> HIDE DEF Bad
  <2> QED
    BY <2>1, LeastElement
<1>2. i \in Nat /\ i <= N /\ i <= M /\ g[i] # h[i]
  BY <1>1
<1>3. /\ g[0] = b /\ \A j \in 1..N : g[j] = F[g[j - 1]]
      /\ h[0] = b /\ \A j \in 1..M : h[j] = F[h[j - 1]]
  BY DEF Iterates
<1>4. i # 0
  BY <1>2, <1>3
<1>5. i - 1 \in Nat /\ i - 1 \notin Bad
  <2> HIDE DEF Bad
  <2> QED
    BY <1>1, <1>2, <1>4
<1>6. g[i - 1] = h[i - 1]
  BY <1>2, <1>5
<1>7. i \in 1..N /\ i \in 1..M
  BY <1>2, <1>4
<1> QED
  BY <1>2, <1>3, <1>6, <1>7

\* The walk c over the places A, in which f gives the place after each, is for
\* the first time in E after m rounds.
FirstStop(A, E, f, c, m) ==
    /\ c \in [0..m -> A]
    /\ \A i \in 1..m : c[i] = f[c[i - 1]]
    /\ c[m] \in E
    /\ \A i \in 0..(m - 1) : c[i] \notin E

\* A walk over a finite set in which each place determines the next reaches the
\* places it stops at within one round per place, or never: a place visited
\* twice would be visited for ever.
LEMMA WalkStopsEarly ==
    ASSUME NEW A, IsFiniteSet(A), NEW E, NEW f, NEW m \in Nat, NEW c,
           FirstStop(A, E, f, c, m)
    PROVE  m < Cardinality(A)
<1>0. /\ c \in [0..m -> A]
      /\ \A i \in 1..m : c[i] = f[c[i - 1]]
      /\ c[m] \in E
      /\ \A i \in 0..(m - 1) : c[i] \notin E
  BY DEF FirstStop
<1>1. Cardinality(A) \in Nat
  BY FS_CardinalityType
<1> SUFFICES ASSUME Cardinality(A) < m + 1 PROVE FALSE
  BY <1>1
<1>2. IsFiniteSet(0..m) /\ Cardinality(0..m) = m + 1
  BY FS_Interval
<1>3. PICK x \in 0..m, y \in 0..m : x # y /\ c[x] = c[y]
  BY <1>0, <1>2, FS_PigeonHole
<1>4. PICK i \in 0..m, j \in 0..m : i < j /\ c[i] = c[j]
  <2>1. CASE x < y
    BY <1>3, <2>1
  <2>2. CASE y < x
    BY <1>3, <2>2
  <2> QED
    BY <1>3, <2>1, <2>2
<1> DEFINE d == m - j
           P == {k \in Nat : k <= d => c[i + k] = c[j + k]}
           g == [k \in 0..d |-> k]
<1>5. d \in Nat
  BY <1>4
<1>6. 0 \in P
  BY <1>4
<1>7. ASSUME NEW k \in 1..d, k - 1 \in P
      PROVE  k \in P
  <2>1. /\ k \in Nat /\ k - 1 \in Nat /\ k - 1 <= d
        /\ i + k \in 1..m /\ j + k \in 1..m
        /\ (i + k) - 1 = i + (k - 1) /\ (j + k) - 1 = j + (k - 1)
    <3>1. /\ m \in Int /\ i \in Int /\ j \in Int /\ k \in Int
          /\ 0 <= i /\ i < j /\ j <= m /\ 1 <= k /\ k <= m - j
      BY <1>4, <1>5
    <3> HIDE DEF P
    <3> QED
      BY <3>1
  <2>2. c[i + (k - 1)] = c[j + (k - 1)]
    BY <1>7, <2>1
  <2>3. c[i + k] = f[c[i + (k - 1)]] /\ c[j + k] = f[c[j + (k - 1)]]
    BY <1>0, <2>1
  <2> QED
    BY <2>1, <2>2, <2>3
<1>8. d \in P
  <2>1. /\ \A k \in 0..d : g[k] = k
        /\ 0 \in 0..d /\ d \in 0..d
        /\ \A k \in (0 + 1)..d : k \in 1..d /\ k \in 0..d /\ k - 1 \in 0..d
    BY <1>5
  <2> HIDE DEF d, P, g
  <2>2. g[0] \in P /\ \A k \in (0 + 1)..d : g[k - 1] \in P => g[k] \in P
    BY <1>6, <1>7, <2>1
  <2>3. g[d] \in P
    BY <1>5, <2>1, <2>2, IterationStays
  <2> QED
    BY <2>1, <2>3
<1>9. c[i + d] = c[j + d] /\ j + d = m /\ i + d \in 0..(m - 1)
  BY <1>4, <1>5, <1>8
<1> QED
  BY <1>0, <1>9

=============================================================================
