---------------------------------- MODULE SharedLemmas ------------------------------
(***************************************************************************)
(* Facts that the proofs about several components rest on: counters that   *)
(* only grow and the slots, n % C, that they name in a ring of C slots;    *)
(* the least number of a set, which stands in for induction; the sum of a  *)
(* function over the slots 0 .. N - 1; powers; and what RemoveAt leaves.   *)
(***************************************************************************)
EXTENDS Recurrences, SequencesExt, SequenceTheorems, WellFoundedInduction, TLAPS

\* Division with remainder.
LEMMA DivisionWithRemainder ==
  ASSUME NEW C \in Nat \ {0}, NEW a \in Int
  PROVE  /\ a % C \in 0 .. C - 1 /\ a \div C \in Int
         /\ a = C * (a \div C) + (a % C)
  OBVIOUS

\* The remainder is the only one.
LEMMA RemainderUnique ==
  ASSUME NEW C \in Nat \ {0}, NEW a \in Int, NEW q \in Int, NEW r \in 0 .. C - 1, a = C * q + r
  PROVE  a % C = r
  OBVIOUS

\* A multiple of C by a positive number is at least C, one by another at most 0.
LEMMA Multiples ==
  ASSUME NEW C \in Nat \ {0}, NEW k \in Int
  PROVE  C * k \in Int /\ (k >= 1 => C * k >= C) /\ (k <= 0 => C * k <= 0)
<1>1. C * k \in Int
  OBVIOUS
<1>2. ASSUME k >= 1 PROVE C * k >= C
  <2>1. C * (k - 1) >= 0 /\ C * (k - 1) = C * k - C
    BY <1>2
  <2> QED
    BY <1>1, <2>1
<1>3. ASSUME k <= 0 PROVE C * k <= 0
  <2>1. C * (0 - k) >= 0 /\ C * (0 - k) = 0 - C * k
    BY <1>3
  <2> QED
    BY <1>1, <2>1
<1> QED
  BY <1>1, <1>2, <1>3

\* Counters less than a lap apart name different slots.
LEMMA SlotsApart ==
  ASSUME NEW C \in Nat \ {0}, NEW a \in Int, NEW b \in Int, a < b, b < a + C
  PROVE  a % C # b % C
<1> SUFFICES ASSUME a % C = b % C PROVE FALSE
  OBVIOUS
<1>1. PICK qa \in Int : a = C * qa + (a % C)
  BY DivisionWithRemainder
<1>2. PICK qb \in Int : b = C * qb + (b % C)
  BY DivisionWithRemainder
<1>3. /\ C * (qb - qa) = C * qb - C * qa /\ a % C \in Int
      /\ C * qb \in Int /\ C * qa \in Int /\ qb - qa \in Int
  BY DivisionWithRemainder
<1>4. b - a = C * (qb - qa)
  BY <1>1, <1>2, <1>3
<1> QED
  BY <1>3, <1>4, Multiples

\* What the mask does to a counter in its first two laps.
LEMMA FirstLaps ==
  ASSUME NEW C \in Nat \ {0}, NEW a \in Nat, a < 2 * C
  PROVE  a % C = IF a < C THEN a ELSE a - C
<1>1. a = C * 0 + a /\ a = C * 1 + (a - C)
  OBVIOUS
<1>2. a < C => a \in 0 .. C - 1
  OBVIOUS
<1>3. a >= C => a - C \in 0 .. C - 1
  OBVIOUS
<1> QED
  BY <1>1, <1>2, <1>3, RemainderUnique

\* Quotients grow with what is divided.
LEMMA QuotientGrows ==
  ASSUME NEW C \in Nat \ {0}, NEW a \in Int, NEW b \in Int, a <= b
  PROVE  a \div C <= b \div C
<1> SUFFICES ASSUME a \div C > b \div C PROVE FALSE
  BY DivisionWithRemainder
<1>1. PICK qa \in Int : qa = a \div C /\ a = C * qa + (a % C)
  BY DivisionWithRemainder
<1>2. PICK qb \in Int : qb = b \div C /\ b = C * qb + (b % C)
  BY DivisionWithRemainder
<1>3. a % C \in 0 .. C - 1 /\ b % C \in 0 .. C - 1
  BY DivisionWithRemainder
<1>4. /\ C * (qa - qb) = C * qa - C * qb /\ qa - qb \in Int /\ qa - qb >= 1
      /\ C * qb \in Int /\ C * qa \in Int
  BY <1>1, <1>2
<1>5. C * (qa - qb) >= C
  BY <1>4, Multiples
<1> QED
  BY <1>1, <1>2, <1>3, <1>4, <1>5

\* Equal multiples are multiples of equals, so an exact quotient is the factor.
LEMMA Cancelled ==
  ASSUME NEW d \in Nat \ {0}, NEW x \in Int, NEW y \in Int, d * x = d * y
  PROVE  x = y
<1>1. d * (x - y) = d * x - d * y /\ d * x \in Int /\ d * y \in Int
  OBVIOUS
<1>2. d * (x - y) = 0
  BY <1>1
<1>3. ~ (x - y >= 1)
  BY <1>2, Multiples
<1>4. d * (y - x) = d * y - d * x
  OBVIOUS
<1>5. ~ (y - x >= 1)
  BY <1>1, <1>4, Multiples
<1> QED
  BY <1>3, <1>5

LEMMA ExactQuotient ==
  ASSUME NEW d \in Nat \ {0}, NEW y \in Int, NEW q \in Int, y = d * q
  PROVE  y \div d = q
<1>1. y = d * q + 0 /\ 0 \in 0 .. d - 1
  OBVIOUS
<1>2. y % d = 0
  BY <1>1, RemainderUnique
<1>3. PICK p1 \in Int : p1 = y \div d /\ y = d * p1
  BY <1>2, DivisionWithRemainder
<1> QED
  BY <1>3, Cancelled

-----------------------------------------------------------------------------
(* The least number of a set of naturals                                   *)

LEMMA LeastNumber ==
  ASSUME NEW T, T \subseteq Nat, T # {}
  PROVE  \E m \in T : \A n \in T : m <= n
<1>1. \A m, n \in Nat : m < n => <<m, n>> \in OpToRel(<, Nat)
  BY Zenon DEF OpToRel
<1>2. PICK m \in T : \A n \in T : ~ (<<n, m>> \in OpToRel(<, Nat))
  BY WFMin, NatLessThanWellFounded, Zenon
<1>3. \A n \in T : ~ (n < m)
  BY <1>1, <1>2, Zenon
<1>4. \A n \in T : m <= n
  BY <1>3
<1> QED
  BY <1>2, <1>4

\* A set of naturals with zero and every successor of its members has them all:
\* the least number it lacked would have a predecessor in it.
LEMMA AllNaturals ==
  ASSUME NEW T, 0 \in T, \A n \in Nat : n \in T => n + 1 \in T
  PROVE  Nat \subseteq T
<1> SUFFICES ASSUME Nat \ T # {} PROVE FALSE
  OBVIOUS
<1>1. PICK m \in Nat \ T : \A n \in Nat \ T : m <= n
  BY LeastNumber
<1>2. m - 1 \in Nat /\ m - 1 \in T
  BY <1>1
<1>3. m - 1 + 1 \in T
  BY <1>2
<1> QED
  BY <1>1, <1>3

-----------------------------------------------------------------------------
(* Sums over slots                                                         *)

\* The sums of f over the first n slots, for each n up to N.
SumsOf(v, f, N) == v = [n \in 0 .. N |-> IF n = 0 THEN 0 ELSE v[n - 1] + f[n - 1]]

LEMMA SumsExist ==
  ASSUME NEW N \in Nat, NEW f
  PROVE  \E v : SumsOf(v, f, N)
<1> DEFINE T == {n \in Nat : \E v : SumsOf(v, f, n)}
<1>1. 0 \in T
  <2>1. SumsOf([n \in 0 .. 0 |-> 0], f, 0)
    BY DEF SumsOf
  <2> QED
    BY <2>1
<1>2. ASSUME NEW k \in Nat, k \in T PROVE k + 1 \in T
  <2>1. PICK v : SumsOf(v, f, k)
    BY <1>2
  <2> DEFINE w == [n \in 0 .. k + 1 |-> IF n = k + 1 THEN v[k] + f[k] ELSE v[n]]
  <2>2. \A n \in 0 .. k + 1 : w[n] = IF n = 0 THEN 0 ELSE w[n - 1] + f[n - 1]
    <3> TAKE n \in 0 .. k + 1
    <3>1. CASE n = k + 1
      <4>1. k \in 0 .. k + 1 /\ k # k + 1 /\ n - 1 = k /\ n # 0
        BY <3>1
      <4> QED
        BY <3>1, <4>1
    <3>2. CASE n \in 0 .. k
      <4>1. v[n] = IF n = 0 THEN 0 ELSE v[n - 1] + f[n - 1]
        BY <2>1, <3>2 DEF SumsOf
      <4>2. n # 0 => n - 1 \in 0 .. k + 1 /\ n - 1 # k + 1
        BY <3>2
      <4>3. w[n] = v[n] /\ (n # 0 => w[n - 1] = v[n - 1])
        BY <3>2, <4>2
      <4> QED
        BY <4>1, <4>3
    <3> QED
      BY <3>1, <3>2
  <2>3. w = [n \in 0 .. k + 1 |-> w[n]]
    OBVIOUS
  <2> HIDE DEF w
  <2>4. SumsOf(w, f, k + 1)
    BY <2>2, <2>3 DEF SumsOf
  <2> QED
    BY <2>4
<1>3. Nat \subseteq T
  BY <1>1, <1>2, AllNaturals
<1> QED
  BY <1>3

\* What the equations say slot by slot.
LEMMA SumsStep ==
  ASSUME NEW N \in Nat, NEW f, NEW v, SumsOf(v, f, N)
  PROVE  v[0] = 0 /\ \A n \in 0 .. N - 1 : v[n + 1] = v[n] + f[n]
<1>1. v[0] = 0
  BY DEF SumsOf
<1>2. ASSUME NEW n \in 0 .. N - 1 PROVE v[n + 1] = v[n] + f[n]
  <2>1. n + 1 \in 0 .. N /\ n + 1 # 0 /\ n + 1 - 1 = n
    OBVIOUS
  <2> QED
    BY <2>1 DEF SumsOf
<1> QED
  BY <1>1, <1>2

\* A sum of integers is one, of naturals a natural.
LEMMA SumsAreNumbers ==
  ASSUME NEW N \in Nat, NEW f, NEW v, SumsOf(v, f, N),
         NEW K, K = Int \/ K = Nat, \A n \in 0 .. N - 1 : f[n] \in K
  PROVE  \A n \in 0 .. N : v[n] \in K
<1> DEFINE T == {n \in Nat : n <= N => v[n] \in K}
<1>1. 0 \in T
  BY SumsStep
<1>2. ASSUME NEW n \in Nat, n \in T PROVE n + 1 \in T
  <2>1. CASE n + 1 <= N
    <3>1. n \in 0 .. N - 1 /\ v[n] \in K
      BY <1>2, <2>1
    <3>2. v[n + 1] = v[n] + f[n]
      BY <3>1, SumsStep
    <3> QED
      BY <3>1, <3>2
  <2> QED
    BY <2>1
<1>3. Nat \subseteq T
  BY <1>1, <1>2, AllNaturals
<1> QED
  BY <1>3

\* When one slot changes, the sum changes by as much.
LEMMA SumsChange ==
  ASSUME NEW N \in Nat, NEW f, NEW v, SumsOf(v, f, N),
         NEW g, NEW w, SumsOf(w, g, N),
         \A n \in 0 .. N - 1 : f[n] \in Int /\ g[n] \in Int,
         NEW s \in 0 .. N - 1, \A n \in 0 .. N - 1 : n # s => g[n] = f[n]
  PROVE  w[N] = v[N] + (g[s] - f[s])
<1> DEFINE d == g[s] - f[s]
           T == {n \in Nat : n <= N => w[n] = IF n <= s THEN v[n] ELSE v[n] + d}
<1>0. /\ \A n \in 0 .. N : v[n] \in Int /\ w[n] \in Int
      /\ g[s] \in Int /\ f[s] \in Int
  BY SumsAreNumbers
<1>1. 0 \in T
  BY SumsStep
<1>2. ASSUME NEW n \in Nat, n \in T PROVE n + 1 \in T
  <2>1. CASE n + 1 <= N
    <3>1. n \in 0 .. N - 1 /\ n \in 0 .. N /\ n + 1 \in 0 .. N
      BY <2>1
    <3>2. v[n + 1] = v[n] + f[n] /\ w[n + 1] = w[n] + g[n]
      BY <3>1, SumsStep
    <3>3. w[n] = IF n <= s THEN v[n] ELSE v[n] + d
      BY <1>2, <2>1
    <3>4. v[n] \in Int /\ f[n] \in Int /\ g[n] \in Int
      BY <1>0, <3>1
    <3>5. CASE n = s
      <4>1. w[n + 1] = v[n + 1] + d
        BY <1>0, <3>2, <3>3, <3>4, <3>5
      <4> QED
        BY <3>5, <4>1
    <3>6. CASE n # s
      <4>1. g[n] = f[n]
        BY <3>1, <3>6
      <4>2. w[n + 1] = IF n + 1 <= s THEN v[n + 1] ELSE v[n + 1] + d
        <5>1. n + 1 <= s <=> n <= s
          BY <3>6
        <5> QED
          BY <1>0, <3>2, <3>3, <3>4, <4>1, <5>1
      <4> QED
        BY <4>2
    <3> QED
      BY <3>5, <3>6
  <2> QED
    BY <2>1
<1>3. Nat \subseteq T
  BY <1>1, <1>2, AllNaturals
<1>4. ~ (N <= s)
  OBVIOUS
<1>5. w[N] = IF N <= s THEN v[N] ELSE v[N] + d
  BY <1>3
<1> QED
  BY <1>4, <1>5

\* A sum of zeros is zero.
LEMMA SumsOfZeros ==
  ASSUME NEW N \in Nat, NEW f, NEW v, SumsOf(v, f, N), \A n \in 0 .. N - 1 : f[n] = 0
  PROVE  v[N] = 0
<1> DEFINE T == {n \in Nat : n <= N => v[n] = 0}
<1>1. 0 \in T
  BY SumsStep
<1>2. ASSUME NEW n \in Nat, n \in T PROVE n + 1 \in T
  <2>1. CASE n + 1 <= N
    <3>1. n \in 0 .. N - 1 /\ v[n] = 0
      BY <1>2, <2>1
    <3> QED
      BY <3>1, SumsStep
  <2> QED
    BY <2>1
<1>3. Nat \subseteq T
  BY <1>1, <1>2, AllNaturals
<1> QED
  BY <1>3

\* Sums add up value by value.
LEMMA SumsAdd ==
  ASSUME NEW N \in Nat, NEW f, NEW v, SumsOf(v, f, N), NEW g, NEW u, SumsOf(u, g, N),
         NEW h, NEW w, SumsOf(w, h, N),
         \A n \in 0 .. N - 1 : f[n] \in Int /\ g[n] \in Int /\ h[n] = f[n] + g[n]
  PROVE  w[N] = v[N] + u[N]
<1> DEFINE T == {n \in Nat : n <= N => w[n] = v[n] + u[n]}
<1>0. \A n \in 0 .. N : v[n] \in Int /\ u[n] \in Int
  BY SumsAreNumbers
<1>1. 0 \in T
  BY SumsStep
<1>2. ASSUME NEW n \in Nat, n \in T PROVE n + 1 \in T
  <2>1. CASE n + 1 <= N
    <3>1. n \in 0 .. N - 1 /\ n \in 0 .. N /\ w[n] = v[n] + u[n]
      BY <1>2, <2>1
    <3>2. w[n + 1] = w[n] + h[n] /\ v[n + 1] = v[n] + f[n] /\ u[n + 1] = u[n] + g[n]
      BY <3>1, SumsStep
    <3>3. f[n] \in Int /\ g[n] \in Int /\ h[n] = f[n] + g[n] /\ v[n] \in Int /\ u[n] \in Int
      BY <1>0, <3>1
    <3> QED
      BY <3>1, <3>2, <3>3
  <2> QED
    BY <2>1
<1>3. Nat \subseteq T
  BY <1>1, <1>2, AllNaturals
<1> QED
  BY <1>3

\* The sum that the operator names.
LEMMA SumToIs ==
  ASSUME NEW N \in Nat, NEW f
  PROVE  \E v : SumsOf(v, f, N) /\ SumTo(f, N) = v[N]
<1>1. PICK u : SumsOf(u, f, N)
  BY SumsExist
<1> DEFINE v == CHOOSE w : SumsOf(w, f, N)
<1>2. SumsOf(v, f, N)
  BY <1>1
<1>3. SumTo(f, N) = v[N]
  BY DEF SumTo, SumsOf
<1> QED
  BY <1>2, <1>3

\* It is the only one.
LEMMA SumsAgree ==
  ASSUME NEW N \in Nat, NEW f, NEW v, SumsOf(v, f, N),
         NEW M \in Nat, NEW g, NEW w, SumsOf(w, g, M),
         NEW n \in Nat, n <= N, n <= M, \A k \in 0 .. n - 1 : g[k] = f[k]
  PROVE  w[n] = v[n]
<1> DEFINE T == {k \in Nat : k <= n => w[k] = v[k]}
<1>1. 0 \in T
  BY SumsStep
<1>2. ASSUME NEW k \in Nat, k \in T PROVE k + 1 \in T
  <2>1. CASE k + 1 <= n
    <3>1. k \in 0 .. n - 1 /\ k \in 0 .. N - 1 /\ k \in 0 .. M - 1 /\ w[k] = v[k]
      BY <1>2, <2>1
    <3>2. w[k + 1] = w[k] + g[k] /\ v[k + 1] = v[k] + f[k]
      BY <3>1, SumsStep
    <3> QED
      BY <3>1, <3>2
  <2> QED
    BY <2>1
<1>3. Nat \subseteq T
  BY <1>1, <1>2, AllNaturals
<1> QED
  BY <1>3

\* A value put behind the others is added to their sum.
LEMMA SumToGrows ==
  ASSUME NEW N \in Nat, NEW f, NEW g, \A k \in 0 .. N - 1 : g[k] = f[k]
  PROVE  /\ SumTo(g, N + 1) = SumTo(f, N) + g[N]
         /\ (\A k \in 0 .. N - 1 : f[k] \in Nat) => SumTo(f, N) \in Nat
<1>1. PICK v : SumsOf(v, f, N) /\ SumTo(f, N) = v[N]
  BY SumToIs
<1>2. PICK w : SumsOf(w, g, N + 1) /\ SumTo(g, N + 1) = w[N + 1]
  BY SumToIs
<1>3. w[N] = v[N]
  BY <1>1, <1>2, SumsAgree
<1>4. w[N + 1] = w[N] + g[N]
  BY <1>2, SumsStep
<1>5. ASSUME \A k \in 0 .. N - 1 : f[k] \in Nat PROVE v[N] \in Nat
  <2>1. \A n \in 0 .. N : v[n] \in Nat
    BY <1>1, <1>5, SumsAreNumbers, Zenon
  <2> QED
    BY <2>1
<1> QED
  BY <1>1, <1>2, <1>3, <1>4, <1>5

\* A value put in front of the others is added to each of their sums.
Prepended(f, N, g, M) ==
    /\ \A n \in 0 .. N - 1 : f[n] \in Int
    /\ M > 0 /\ M <= N + 1
    /\ g[0] \in Int /\ \A n \in 0 .. M - 2 : g[n + 1] = f[n]

LEMMA SumsPrepended ==
  ASSUME NEW N \in Nat, NEW f, NEW v, SumsOf(v, f, N),
         NEW M \in Nat, NEW g, NEW w, SumsOf(w, g, M), Prepended(f, N, g, M)
  PROVE  \A n \in 0 .. M - 1 : w[n + 1] = g[0] + v[n]
<1> DEFINE T == {n \in Nat : n <= M - 1 => w[n + 1] = g[0] + v[n]}
<1>0. \A n \in 0 .. N : v[n] \in Int
  BY SumsAreNumbers DEF Prepended
<1>1. 0 \in T
  <2>1. w[0 + 1] = w[0] + g[0] /\ w[0] = 0 /\ v[0] = 0
    BY SumsStep DEF Prepended
  <2> QED
    BY <2>1 DEF Prepended
<1>2. ASSUME NEW n \in Nat, n \in T PROVE n + 1 \in T
  <2>1. CASE n + 1 <= M - 1
    <3>1. /\ n \in 0 .. N - 1 /\ n \in 0 .. M - 2 /\ n + 1 \in 0 .. M - 1
          /\ w[n + 1] = g[0] + v[n] /\ n \in 0 .. N /\ n + 1 \in 0 .. N
      BY <1>2, <2>1 DEF Prepended
    <3>2. w[n + 1 + 1] = w[n + 1] + g[n + 1] /\ v[n + 1] = v[n] + f[n]
      BY <3>1, SumsStep
    <3>3. g[n + 1] = f[n] /\ f[n] \in Int /\ v[n] \in Int
      BY <1>0, <3>1 DEF Prepended
    <3>4. g[0] \in Int
      BY DEF Prepended
    <3> QED
      BY <3>1, <3>2, <3>3, <3>4
  <2> QED
    BY <2>1
<1>3. Nat \subseteq T
  BY <1>1, <1>2, AllNaturals
<1> QED
  BY <1>3

-----------------------------------------------------------------------------
(* Powers                                                                  *)

\* The powers of b up to the N-th.
PowersOf(v, b, N) == v = [n \in 0 .. N |-> IF n = 0 THEN 1 ELSE b * v[n - 1]]

LEMMA PowersExist ==
  ASSUME NEW N \in Nat, NEW b
  PROVE  \E v : PowersOf(v, b, N)
<1> DEFINE T == {n \in Nat : \E v : PowersOf(v, b, n)}
<1>1. 0 \in T
  <2>1. PowersOf([n \in 0 .. 0 |-> 1], b, 0)
    BY DEF PowersOf
  <2> QED
    BY <2>1
<1>2. ASSUME NEW k \in Nat, k \in T PROVE k + 1 \in T
  <2>1. PICK v : PowersOf(v, b, k)
    BY <1>2
  <2> DEFINE w == [n \in 0 .. k + 1 |-> IF n = k + 1 THEN b * v[k] ELSE v[n]]
  <2>2. \A n \in 0 .. k + 1 : w[n] = IF n = 0 THEN 1 ELSE b * w[n - 1]
    <3> TAKE n \in 0 .. k + 1
    <3>1. CASE n = k + 1
      <4>1. k \in 0 .. k + 1 /\ k # k + 1 /\ n - 1 = k /\ n # 0
        BY <3>1
      <4> QED
        BY <3>1, <4>1
    <3>2. CASE n \in 0 .. k
      <4>1. v[n] = IF n = 0 THEN 1 ELSE b * v[n - 1]
        BY <2>1, <3>2 DEF PowersOf
      <4>2. n # 0 => n - 1 \in 0 .. k + 1 /\ n - 1 # k + 1
        BY <3>2
      <4>3. w[n] = v[n] /\ (n # 0 => w[n - 1] = v[n - 1])
        BY <3>2, <4>2
      <4> QED
        BY <4>1, <4>3
    <3> QED
      BY <3>1, <3>2
  <2>3. w = [n \in 0 .. k + 1 |-> w[n]]
    OBVIOUS
  <2> HIDE DEF w
  <2>4. PowersOf(w, b, k + 1)
    BY <2>2, <2>3 DEF PowersOf
  <2> QED
    BY <2>4
<1>3. Nat \subseteq T
  BY <1>1, <1>2, AllNaturals
<1> QED
  BY <1>3

\* What the equations say exponent by exponent.
LEMMA PowersStep ==
  ASSUME NEW N \in Nat, NEW b, NEW v, PowersOf(v, b, N)
  PROVE  v[0] = 1 /\ \A n \in 0 .. N - 1 : v[n + 1] = b * v[n]
<1>1. v[0] = 1
  BY DEF PowersOf
<1>2. ASSUME NEW n \in 0 .. N - 1 PROVE v[n + 1] = b * v[n]
  <2>1. n + 1 \in 0 .. N /\ n + 1 # 0 /\ n + 1 - 1 = n
    OBVIOUS
  <2> QED
    BY <2>1 DEF PowersOf
<1> QED
  BY <1>1, <1>2

LEMMA PowersAgree ==
  ASSUME NEW b, NEW N \in Nat, NEW v, PowersOf(v, b, N),
         NEW M \in Nat, NEW w, PowersOf(w, b, M), NEW n \in Nat, n <= N, n <= M
  PROVE  w[n] = v[n]
<1> DEFINE T == {k \in Nat : k <= n => w[k] = v[k]}
<1>1. 0 \in T
  BY PowersStep
<1>2. ASSUME NEW k \in Nat, k \in T PROVE k + 1 \in T
  <2>1. CASE k + 1 <= n
    <3>1. k \in 0 .. N - 1 /\ k \in 0 .. M - 1 /\ w[k] = v[k]
      BY <1>2, <2>1
    <3>2. w[k + 1] = b * w[k] /\ v[k + 1] = b * v[k]
      BY <3>1, PowersStep
    <3> QED
      BY <3>1, <3>2
  <2> QED
    BY <2>1
<1>3. Nat \subseteq T
  BY <1>1, <1>2, AllNaturals
<1> QED
  BY <1>3

LEMMA PowerIs ==
  ASSUME NEW N \in Nat, NEW b
  PROVE  \E v : PowersOf(v, b, N) /\ Power(b, N) = v[N]
<1>1. PICK u : PowersOf(u, b, N)
  BY PowersExist
<1> DEFINE v == CHOOSE w : PowersOf(w, b, N)
<1>2. PowersOf(v, b, N)
  BY <1>1
<1>3. Power(b, N) = v[N]
  BY DEF Power, PowersOf
<1> QED
  BY <1>2, <1>3

\* The equations of the operator.
LEMMA PowerGrows ==
  ASSUME NEW b
  PROVE  Power(b, 0) = 1 /\ \A n \in Nat : Power(b, n + 1) = b * Power(b, n)
<1>1. Power(b, 0) = 1
  <2>1. PICK v : PowersOf(v, b, 0) /\ Power(b, 0) = v[0]
    BY PowerIs
  <2> QED
    BY <2>1, PowersStep
<1>2. ASSUME NEW n \in Nat PROVE Power(b, n + 1) = b * Power(b, n)
  <2>1. PICK v : PowersOf(v, b, n) /\ Power(b, n) = v[n]
    BY PowerIs
  <2>2. PICK w : PowersOf(w, b, n + 1) /\ Power(b, n + 1) = w[n + 1]
    BY PowerIs
  <2>3. w[n] = v[n]
    BY <2>1, <2>2, PowersAgree
  <2>4. w[n + 1] = b * w[n]
    BY <2>2, PowersStep
  <2> QED
    BY <2>1, <2>2, <2>3, <2>4
<1> QED
  BY <1>1, <1>2

\* Powers of an integer are integers, of a positive one positive.
LEMMA PowerIsInt ==
  ASSUME NEW K, NEW b \in K, 1 \in K, \A x, y \in K : x * y \in K
  PROVE  \A n \in Nat : Power(b, n) \in K
<1> DEFINE T == {n \in Nat : Power(b, n) \in K}
<1>1. 0 \in T
  BY PowerGrows
<1>2. ASSUME NEW n \in Nat, n \in T PROVE n + 1 \in T
  <2>1. Power(b, n + 1) = b * Power(b, n) /\ Power(b, n) \in K
    BY <1>2, PowerGrows
  <2>2. b * Power(b, n) \in K
    BY <2>1, Zenon
  <2> QED
    BY <2>1, <2>2
<1>3. Nat \subseteq T
  BY <1>1, <1>2, AllNaturals
<1> QED
  BY <1>3

-----------------------------------------------------------------------------
(* Sequences                                                               *)

\* How many places follow place n of c.
LEMMA PlacesAfter ==
  ASSUME NEW c \in Nat, NEW n \in 1 .. c, NEW m \in Int, NEW l \in Int, m = n + 1, l = c
  PROVE  /\ (IF m <= l THEN l - m + 1 ELSE 0) = c - n
         /\ l - m + 1 = c - n
  OBVIOUS

\* What erasing one place of a sequence leaves.
LEMMA RemoveAtLeaves ==
  ASSUME NEW S, NEW s \in Seq(S), NEW n \in 1 .. Len(s)
  PROVE  /\ RemoveAt(s, n) \in Seq(S)
         /\ Len(RemoveAt(s, n)) = Len(s) - 1
         /\ \A k \in 1 .. n - 1 : RemoveAt(s, n)[k] = s[k]
         /\ \A k \in n .. Len(s) - 1 : RemoveAt(s, n)[k] = s[k + 1]
<1>1. Len(s) \in Nat /\ DOMAIN s = 1 .. Len(s) /\ n \in Int /\ \A k \in 1 .. Len(s) : s[k] \in S
  OBVIOUS
<1>2. PICK a : a = SubSeq(s, 1, n - 1)
  OBVIOUS
<1>3. PICK b : b = SubSeq(s, n + 1, Len(s))
  OBVIOUS
<1>4. PICK r : r = a \o b
  OBVIOUS
<1>5. /\ r \in Seq(S) /\ Len(r) = Len(s) - 1 /\ DOMAIN r = 1 .. Len(s) - 1
      /\ \A k \in 1 .. n - 1 : r[k] = s[k]
      /\ \A k \in n .. Len(s) - 1 : r[k] = s[k + 1]
      /\ r = RemoveAt(s, n)
  <2>1. a \in Seq(S) /\ Len(a) = n - 1 /\ \A k \in 1 .. n - 1 : a[k] = s[k]
    BY <1>1, <1>2, SubSeqProperties
  <2>2. b \in Seq(S) /\ Len(b) = Len(s) - n /\ \A k \in 1 .. Len(s) - n : b[k] = s[n + 1 + k - 1]
    <3>1. PICK m \in Int : m = n + 1
      BY <1>1
    <3>2. Len(s) \in Int
      OBVIOUS
    <3>3. PICK l \in Int : l = Len(s)
      BY <3>2, Zenon
    <3>4. b = SubSeq(s, m, l) /\ \A k \in m .. l : s[k] \in S
      BY <1>1, <1>3, <3>1, <3>3
    <3>5. /\ b \in Seq(S) /\ Len(b) = IF m <= l THEN l - m + 1 ELSE 0
          /\ \A k \in 1 .. l - m + 1 : b[k] = s[m + k - 1]
      BY <3>4, SubSeqProperties, SMTT(60)
    <3>6. /\ (IF m <= l THEN l - m + 1 ELSE 0) = Len(s) - n
          /\ l - m + 1 = Len(s) - n /\ m = n + 1
      BY <1>1, <3>1, <3>3, PlacesAfter, Zenon
    <3> QED
      BY <3>5, <3>6, Zenon
  <2>3. /\ r \in Seq(S) /\ Len(r) = Len(s) - 1 /\ DOMAIN r = 1 .. Len(s) - 1
        /\ \A k \in 1 .. Len(s) - 1 : r[k] = IF k <= n - 1 THEN a[k] ELSE b[k - (n - 1)]
    <3>1. /\ r \in Seq(S) /\ Len(r) = Len(a) + Len(b)
          /\ \A k \in 1 .. Len(a) + Len(b) : r[k] = IF k <= Len(a) THEN a[k] ELSE b[k - Len(a)]
      BY <1>4, <2>1, <2>2, ConcatProperties, Zenon
    <3>2. Len(a) = n - 1 /\ Len(a) + Len(b) = Len(s) - 1
      BY <1>1, <2>1, <2>2
    <3> QED
      BY <3>1, <3>2
  <2>4. \A k \in n .. Len(s) - 1 : r[k] = s[k + 1]
    <3> TAKE k \in n .. Len(s) - 1
    <3>1. /\ k \in 1 .. Len(s) - 1 /\ ~(k <= n - 1)
          /\ k - (n - 1) \in 1 .. Len(s) - n /\ n + 1 + (k - (n - 1)) - 1 = k + 1
      BY <1>1
    <3> QED
      BY <2>2, <2>3, <3>1
  <2>5. r = RemoveAt(s, n)
    BY <1>2, <1>3, <1>4, Zenon DEF RemoveAt
  <2>6. \A k \in 1 .. n - 1 : r[k] = s[k]
    <3> TAKE k \in 1 .. n - 1
    <3>1. k \in 1 .. Len(s) - 1 /\ k <= n - 1
      BY <1>1
    <3> QED
      BY <2>1, <2>3, <3>1, Zenon
  <2> QED
    BY <2>3, <2>4, <2>5, <2>6, Zenon
<1> QED
  BY <1>5, Zenon

\* Appending adds one element.
LEMMA AppendedSet ==
  ASSUME NEW S, NEW s \in Seq(S), NEW x \in S
  PROVE  Append(s, x) \in Seq(S) /\ ToSet(Append(s, x)) = ToSet(s) \cup {x}
<1>0. PICK b : b = Append(s, x)
  OBVIOUS
<1>1. /\ b \in Seq(S) /\ Len(b) = Len(s) + 1 /\ Len(s) \in Nat
      /\ \A k \in 1 .. Len(s) : b[k] = s[k]
      /\ b[Len(s) + 1] = x
  BY <1>0, AppendProperties
<1>2. DOMAIN b = 1 .. Len(s) + 1 /\ DOMAIN s = 1 .. Len(s)
  BY <1>1
<1>3. ToSet(b) = ToSet(s) \cup {x}
  BY <1>1, <1>2 DEF ToSet
<1> QED
  BY <1>0, <1>1, <1>3, Zenon

\* What AtPlaces takes of the first n elements, for each n.
TakenOf(v, s, places, N) ==
    v = [n \in 0 .. N |-> IF n = 0 THEN <<>>
                          ELSE IF n \in places THEN Append(v[n - 1], s[n]) ELSE v[n - 1]]

LEMMA TakenExists ==
  ASSUME NEW N \in Nat, NEW s, NEW places
  PROVE  \E v : TakenOf(v, s, places, N)
<1> DEFINE T == {n \in Nat : \E v : TakenOf(v, s, places, n)}
<1>1. 0 \in T
  <2>1. TakenOf([n \in 0 .. 0 |-> <<>>], s, places, 0)
    BY DEF TakenOf
  <2> QED
    BY <2>1
<1>2. ASSUME NEW k \in Nat, k \in T PROVE k + 1 \in T
  <2>1. PICK v : TakenOf(v, s, places, k)
    BY <1>2
  <2>2. PICK last : last = IF k + 1 \in places THEN Append(v[k], s[k + 1]) ELSE v[k]
    OBVIOUS
  <2> DEFINE w == [n \in 0 .. k + 1 |-> IF n = k + 1 THEN last ELSE v[n]]
  <2>3. \A n \in 0 .. k + 1 :
            w[n] = IF n = 0 THEN <<>>
                   ELSE IF n \in places THEN Append(w[n - 1], s[n]) ELSE w[n - 1]
    <3> TAKE n \in 0 .. k + 1
    <3>1. CASE n = k + 1
      <4>1. k \in 0 .. k + 1 /\ k # k + 1 /\ n - 1 = k /\ n # 0
        BY <3>1
      <4> QED
        BY <2>2, <3>1, <4>1
    <3>2. CASE n \in 0 .. k
      <4>1. v[n] = IF n = 0 THEN <<>>
                   ELSE IF n \in places THEN Append(v[n - 1], s[n]) ELSE v[n - 1]
        BY <2>1, <3>2 DEF TakenOf
      <4>2. n # 0 => n - 1 \in 0 .. k + 1 /\ n - 1 # k + 1
        BY <3>2
      <4>3. w[n] = v[n] /\ (n # 0 => w[n - 1] = v[n - 1])
        BY <3>2, <4>2
      <4> QED
        BY <4>1, <4>3
    <3> QED
      BY <3>1, <3>2
  <2>4. w = [n \in 0 .. k + 1 |-> w[n]]
    OBVIOUS
  <2> HIDE DEF w
  <2>5. TakenOf(w, s, places, k + 1)
    BY <2>3, <2>4 DEF TakenOf
  <2> QED
    BY <2>5
<1>3. Nat \subseteq T
  BY <1>1, <1>2, AllNaturals
<1> QED
  BY <1>3

\* A selection is a sequence of the elements at the places, every one of them.
LEMMA AtPlacesTakes ==
  ASSUME NEW S, NEW s \in Seq(S), NEW places \in SUBSET (DOMAIN s)
  PROVE  /\ AtPlaces(s, places) \in Seq(S)
         /\ ToSet(AtPlaces(s, places)) = {s[k] : k \in places}
<1>1. PICK N \in Nat : N = Len(s) /\ DOMAIN s = 1 .. N /\ \A k \in 1 .. N : s[k] \in S
  OBVIOUS
<1>2. PICK u : TakenOf(u, s, places, N)
  BY TakenExists
<1> DEFINE v == CHOOSE w : TakenOf(w, s, places, N)
<1>3. TakenOf(v, s, places, N)
  BY <1>2
<1>4. AtPlaces(s, places) = v[N]
  BY <1>1 DEF AtPlaces, TakenOf
<1> HIDE DEF v
<1> DEFINE T == {n \in Nat : n <= N => /\ v[n] \in Seq(S)
                                       /\ ToSet(v[n]) = {s[k] : k \in places \cap (1 .. n)}}
<1>5. 0 \in T
  <2>1. v[0] = <<>>
    BY <1>3 DEF TakenOf
  <2>2. places \cap (1 .. 0) = {} /\ ToSet(<<>>) = {} /\ <<>> \in Seq(S)
    BY DEF ToSet
  <2> QED
    BY <2>1, <2>2
<1>6. ASSUME NEW n \in Nat, n \in T PROVE n + 1 \in T
  <2>1. CASE n + 1 <= N
    <3>1. PICK a \in Seq(S) : a = v[n] /\ ToSet(a) = {s[k] : k \in places \cap (1 .. n)}
      BY <1>6, <2>1
    <3>2. v[n + 1] = IF n + 1 \in places THEN Append(a, s[n + 1]) ELSE a
      <4>1. n + 1 \in 0 .. N /\ n + 1 # 0 /\ n + 1 - 1 = n
        BY <2>1
      <4>2. v[n + 1] = IF n + 1 \in places THEN Append(v[n], s[n + 1]) ELSE v[n]
        <5>1. PICK m : m = n + 1
          OBVIOUS
        <5>2. v[m] = IF m = 0 THEN <<>> ELSE IF m \in places THEN Append(v[m - 1], s[m]) ELSE v[m - 1]
          BY <1>3, <4>1, <5>1, Zenon DEF TakenOf
        <5>3. m # 0 /\ m - 1 = n
          BY <4>1, <5>1
        <5>4. v[m] = IF m \in places THEN Append(v[n], s[m]) ELSE v[n]
          BY <5>2, <5>3, Zenon
        <5> QED
          BY <5>1, <5>4, Zenon
      <4> QED
        BY <3>1, <4>2, Zenon
    <3>3. CASE n + 1 \in places
      <4>1. PICK x \in S : x = s[n + 1]
        BY <1>1, <2>1
      <4>2. PICK b : b = Append(a, x)
        OBVIOUS
      <4>3. b \in Seq(S) /\ ToSet(b) = ToSet(a) \cup {x}
        <5>1. Append(a, x) \in Seq(S) /\ ToSet(Append(a, x)) = ToSet(a) \cup {x}
          BY <3>1, <4>1, AppendedSet
        <5> QED
          BY <4>2, <5>1
      <4>4. {s[k] : k \in places \cap (1 .. n + 1)} = {s[k] : k \in places \cap (1 .. n)} \cup {x}
        BY <1>1, <2>1, <3>3, <4>1
      <4>5. v[n + 1] = b
        BY <3>2, <3>3, <4>1, <4>2, Zenon
      <4>6. v[n + 1] \in Seq(S) /\ ToSet(v[n + 1]) = {s[k] : k \in places \cap (1 .. n + 1)}
        BY <3>1, <4>3, <4>4, <4>5, Zenon
      <4> QED
        BY <4>6
    <3>4. CASE n + 1 \notin places
      <4>1. places \cap (1 .. n + 1) = places \cap (1 .. n)
        BY <1>1, <3>4
      <4> QED
        BY <3>1, <3>2, <3>4, <4>1
    <3> QED
      BY <3>3, <3>4
  <2> QED
    BY <2>1
<1>7. Nat \subseteq T
  BY <1>5, <1>6, AllNaturals
<1>8. places \cap (1 .. N) = places
  BY <1>1
<1>9. v[N] \in Seq(S) /\ ToSet(v[N]) = {s[k] : k \in places \cap (1 .. N)}
  <2>1. N \in T
    <3> HIDE DEF T
    <3> QED
      BY <1>1, <1>7, Zenon
  <2> QED
    BY <1>1, <2>1
<1> QED
  BY <1>4, <1>8, <1>9, Zenon

================================================================================
