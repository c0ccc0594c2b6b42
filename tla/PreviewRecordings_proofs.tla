---------------------- MODULE PreviewRecordings_proofs -----------------------
(***************************************************************************)
(* Reading a recording, for every file and every limit.  The parts that     *)
(* need a recursion (thinning again and again, repairing the times, joining *)
(* the pieces, appending the frames one by one) are lemmas about operators; *)
(* the invariant at the end says what they keep in each phase of the load.  *)
(*                                                                          *)
(* The last part is about the streams that a preview shows instead.         *)
(***************************************************************************)
EXTENDS PreviewRecordings, PreviewStreams, FiniteSetTheorems, SequenceTheorems,
        WellFoundedInduction, TLAPS

(***************************************************************************)
(* Recursion and induction over numbers.  The predicate of an induction is  *)
(* the membership in a set, and the step of a recursion a function.         *)
(***************************************************************************)
\* A set of numbers has a least element, since < is well founded.
LEMMA LeastNumber ==
  ASSUME NEW T, T \subseteq Nat, T # {}
  PROVE  \E n \in T : \A m \in T : n <= m
<1> DEFINE R == OpToRel(<, Nat)
<1>1. IsWellFoundedOn(R, Nat)
  BY NatLessThanWellFounded
<1>2. PICK n \in T : \A m \in T : ~(<<m, n>> \in R)
  BY <1>1, WFMin
<1>3. \A m \in T : ~(m < n)
  BY <1>2 DEF OpToRel
<1> QED
  BY <1>3

\* What a function begins with, and keeps from each number to the next, it has for all.
LEMMA StaysIn ==
  ASSUME NEW S, NEW f, f[0] \in S, \A n \in Nat : f[n] \in S => f[n + 1] \in S
  PROVE  \A n \in Nat : f[n] \in S
<1> DEFINE Bad == {n \in Nat : f[n] \notin S}
<1> SUFFICES ASSUME Bad # {} PROVE FALSE
  OBVIOUS
<1>1. PICK n \in Bad : \A m \in Bad : n <= m
  BY LeastNumber
<1>2. n \in Nat /\ n # 0
  OBVIOUS
<1>3. n - 1 \in Nat /\ n - 1 \notin Bad
  BY <1>1, <1>2
<1>4. f[n - 1 + 1] \in S
  BY <1>3
<1> QED
  BY <1>2, <1>4

StepsOf(S) == [Nat \X S -> S]

Runs(f, S, x, step) ==
    f \in [Nat -> S] /\ f[0] = x /\ \A n \in Nat : f[n + 1] = step[<<n, f[n]>>]

\* A function is defined by its first value and the step to the next one.
LEMMA Recursion ==
  ASSUME NEW S, NEW x, x \in S, NEW step, step \in StepsOf(S)
  PROVE  \E f : Runs(f, S, x, step)
<1>7. step \in [Nat \X S -> S]
  BY DEF StepsOf
<1> USE <1>7
<1> DEFINE Chain(n, g) == /\ g \in [0..n -> S] /\ g[0] = x
                          /\ \A k \in 0..(n - 1) : g[k + 1] = step[<<k, g[k]>>]
<1>1. \A n \in Nat : \E g : Chain(n, g)
  <2> DEFINE Bad == {n \in Nat : ~ \E g : Chain(n, g)}
  <2> SUFFICES ASSUME Bad # {} PROVE FALSE
    OBVIOUS
  <2>1. PICK n \in Bad : \A m \in Bad : n <= m
    BY LeastNumber
  <2>2. n \in Nat /\ ~ \E g : Chain(n, g)
    OBVIOUS
  <2>3. n # 0
    <3>1. Chain(0, [k \in 0..0 |-> x])
      OBVIOUS
    <3> HIDE DEF Chain
    <3> QED
      BY <2>2, <3>1
  <2>4. n - 1 \in Nat /\ n - 1 \notin Bad
    <3>1. n \in Nat /\ \A m \in Bad : n <= m
      BY <2>1, <2>2
    <3> HIDE DEF Bad
    <3> QED
      BY <2>3, <3>1
  <2>5. PICK g : Chain(n - 1, g)
    <3> HIDE DEF Chain
    <3> QED
      BY <2>4
  <2> DEFINE h == [k \in 0..n |-> IF k = n THEN step[<<n - 1, g[n - 1]>>] ELSE g[k]]
  <2>6. g[n - 1] \in S /\ step[<<n - 1, g[n - 1]>>] \in S
    BY <2>4, <2>5
  <2>7. h \in [0..n -> S] /\ h[0] = x
    BY <2>2, <2>3, <2>5, <2>6
  <2>8. ASSUME NEW k \in 0..(n - 1) PROVE h[k + 1] = step[<<k, h[k]>>]
    <3>1. CASE k = n - 1
      <4>1. k + 1 = n /\ k # n /\ k \in 0..n /\ n \in 0..n
        BY <2>2, <2>3, <3>1
      <4>2. h[n] = step[<<n - 1, g[n - 1]>>] /\ h[k] = g[k]
        BY <4>1
      <4> HIDE DEF h
      <4> QED
        BY <3>1, <4>1, <4>2
    <3>2. CASE k # n - 1
      <4>1. k \in 0..(n - 1 - 1) /\ k + 1 \in 0..n /\ k + 1 # n /\ k # n /\ k \in 0..n
        BY <2>2, <2>3, <3>2
      <4>2. g[k + 1] = step[<<k, g[k]>>]
        BY <2>5, <4>1
      <4> QED
        BY <4>1, <4>2
    <3> QED
      BY <3>1, <3>2
  <2>9. Chain(n, h)
    BY <2>7, <2>8
  <2> HIDE DEF h, Chain
  <2> QED
    BY <2>2, <2>9
<1>2. ASSUME NEW n \in Nat, NEW m \in Nat, n <= m, NEW g, NEW h, Chain(n, g), Chain(m, h)
      PROVE  g[n] = h[n]
  <2> DEFINE Bad == {k \in 0..n : g[k] # h[k]}
  <2> SUFFICES ASSUME Bad # {} PROVE FALSE
    OBVIOUS
  <2>1. Bad \subseteq Nat
    OBVIOUS
  <2>2. PICK k \in Bad : \A j \in Bad : k <= j
    BY <2>1, LeastNumber
  <2>3. k \in Nat /\ k <= n /\ k # 0 /\ g[k] # h[k]
    BY <1>2
  <2>4. k - 1 \in 0..n /\ k - 1 \notin Bad
    BY <2>2, <2>3
  <2>5. g[k - 1] = h[k - 1]
    BY <2>4
  <2>6. k - 1 \in 0..(n - 1) /\ k - 1 \in 0..(m - 1)
    BY <1>2, <2>3
  <2>7. g[k - 1 + 1] = h[k - 1 + 1]
    BY <1>2, <2>5, <2>6
  <2> QED
    BY <2>3, <2>7
<1> DEFINE c(n) == CHOOSE g : Chain(n, g)
           f == [n \in Nat |-> c(n)[n]]
<1>3. \A n \in Nat : Chain(n, c(n))
  <2> HIDE DEF Chain
  <2> QED
    BY <1>1, Zenon
<1>4. f \in [Nat -> S]
  <2>1. ASSUME NEW n \in Nat PROVE c(n)[n] \in S
    <3>1. Chain(n, c(n))
      BY <1>3
    <3> HIDE DEF c
    <3> QED
      BY <3>1
  <2> HIDE DEF c, Chain
  <2> QED
    BY <2>1
<1>5. f[0] = x
  <2>1. Chain(0, c(0))
    BY <1>3
  <2>2. c(0)[0] = x
    BY <2>1
  <2> HIDE DEF c, Chain
  <2> QED
    BY <2>2
<1>6. ASSUME NEW n \in Nat PROVE f[n + 1] = step[<<n, f[n]>>]
  <2>1. Chain(n, c(n)) /\ Chain(n + 1, c(n + 1)) /\ n + 1 \in Nat /\ n <= n + 1
    <3> HIDE DEF c, Chain
    <3> QED
      BY <1>3
  <2>2. c(n)[n] = c(n + 1)[n]
    <3> HIDE DEF c, Chain
    <3> QED
      BY <1>2, <2>1
  <2>3. c(n + 1)[n + 1] = step[<<n, c(n + 1)[n]>>]
    <3> HIDE DEF c
    <3> QED
      BY <2>1
  <2> HIDE DEF c, Chain
  <2> QED
    BY <2>1, <2>2, <2>3
<1> HIDE DEF f
<1> QED
  BY <1>4, <1>5, <1>6 DEF Runs

(***************************************************************************)
(* Halving a list (keepEveryOther).                                         *)
(***************************************************************************)
\* The place in the list from which an item of the half comes.
HalfOf(q, keepLast, h) ==
    /\ q # <<>> => h # <<>> /\ h[1] = q[1]
    /\ Len(h) <= Len(q) /\ (Len(q) > 1 => Len(h) < Len(q) \/ keepLast)
    /\ keepLast /\ Len(q) > 2 => Len(h) < Len(q) /\ h[Len(h)] = q[Len(q)]
    /\ \A k \in 1..Len(h) : \E j \in 1..Len(q) : h[k] = q[j]
    /\ \A k \in 2..Len(h) : \E j \in 2..Len(q) :
          h[k] = q[j] /\ (h[k - 1] = q[j - 1] \/ (j > 2 /\ h[k - 1] = q[j - 2]))
    /\ ~keepLast => /\ Len(h) = (Len(q) + 1) \div 2
                    /\ \A k \in 1..Len(h) : h[k] = q[2 * k - 1]

\* What halving leaves of a list: every other item, and the last one if it has to stay.
LEMMA Halved ==
  ASSUME NEW T, NEW q \in Seq(T), NEW keepLast \in BOOLEAN
  PROVE  /\ KeepEveryOther(q, keepLast) \in Seq(T)
         /\ HalfOf(q, keepLast, KeepEveryOther(q, keepLast))
<1> DEFINE n == Len(q)
           m == (n + 1) \div 2
           half == [k \in 1..m |-> q[2 * k - 1]]
           h == KeepEveryOther(q, keepLast)
           odd == keepLast /\ n > 2 /\ n % 2 = 0
<1>1. n \in Nat
  OBVIOUS
<1>2. /\ m \in Nat /\ (n > 0 => m > 0) /\ m <= n /\ (n > 1 => m < n)
      /\ (n % 2 = 0 => n = 2 * m) /\ (n % 2 # 0 => n = 2 * m - 1)
      /\ \A k \in 1..m : 2 * k - 1 \in 1..n
  <2> HIDE DEF n
  <2> QED
    BY <1>1
<1>3. half \in Seq(T) /\ Len(half) = m /\ \A k \in 1..m : half[k] = q[2 * k - 1]
  <2>1. \A k \in 1..m : q[2 * k - 1] \in T
    <3>1. \A j \in 1..n : q[j] \in T
      OBVIOUS
    <3> HIDE DEF n, m
    <3> QED
      BY <1>2, <3>1
  <2> HIDE DEF n, m
  <2> QED
    BY <1>2, <2>1
<1>4. CASE ~odd
  <2>1. h = half
    BY <1>4, Zenon DEF KeepEveryOther
  <2>2. h \in Seq(T) /\ Len(h) = m /\ \A k \in 1..m : h[k] = q[2 * k - 1]
    BY <1>3, <2>1
  <2>3. q # <<>> => n > 0 /\ h # <<>> /\ h[1] = q[1]
    <3> SUFFICES ASSUME q # <<>> PROVE n > 0 /\ h # <<>> /\ h[1] = q[1]
      OBVIOUS
    <3>1. n > 0
      OBVIOUS
    <3>2. m > 0 /\ 1 \in 1..m /\ 2 * 1 - 1 = 1
      <4> HIDE DEF n, m
      <4> QED BY <1>2, <3>1
    <3>3. h[1] = q[1]
      BY <2>2, <3>2
    <3>4. h # <<>>
      BY <2>2, <3>2
    <3> QED
      BY <3>1, <3>3, <3>4
  <2> HIDE DEF h
  <2>4. Len(h) = m
    BY <2>2
  <2>5. keepLast /\ n > 2 => m < n /\ h[m] = q[n]
    <3> SUFFICES ASSUME keepLast, n > 2 PROVE m < n /\ h[m] = q[n]
      OBVIOUS
    <3>1. n % 2 # 0
      BY <1>4
    <3>2. m < n /\ n = 2 * m - 1 /\ m \in 1..m
      <4> HIDE DEF n, m
      <4> QED BY <1>1, <1>2, <3>1
    <3> QED
      BY <2>2, <3>2
  <2>6. \A k \in 1..m : \E j \in 1..n : h[k] = q[j]
    BY <1>2, <2>2
  <2>7. ASSUME NEW k \in 2..m
        PROVE  \E j \in 2..n : h[k] = q[j] /\ (h[k - 1] = q[j - 1] \/ (j > 2 /\ h[k - 1] = q[j - 2]))
    <3>1. /\ k \in 1..m /\ k - 1 \in 1..m /\ 2 * k - 1 \in 2..n /\ 2 * k - 1 > 2
          /\ 2 * (k - 1) - 1 = 2 * k - 1 - 2
      <4> HIDE DEF n, m
      <4> QED BY <1>1, <1>2
    <3>2. h[k] = q[2 * k - 1] /\ h[k - 1] = q[2 * k - 1 - 2]
      BY <2>2, <3>1
    <3> QED
      BY <3>1, <3>2
  <2> HIDE DEF m
  <2>8. ~keepLast => Len(h) = m /\ \A k \in 1..Len(h) : h[k] = q[2 * k - 1]
    BY <2>2, <2>4
  <2>9. Len(h) <= n /\ (n > 1 => Len(h) < n)
    BY <1>2, <2>4
  <2>10. HalfOf(q, keepLast, h)
    BY <2>3, <2>4, <2>5, <2>6, <2>7, <2>8, <2>9 DEF HalfOf, m
  <2> QED
    BY <2>2, <2>10 DEF h
<1>5. CASE odd
  <2>1. h = Append(half, q[n])
    BY <1>5, Zenon DEF KeepEveryOther
  <2>2. q[n] \in T /\ n \in 1..n
    BY <1>1, <1>5
  <2>3. h \in Seq(T) /\ Len(h) = m + 1 /\ h[m + 1] = q[n] /\ \A k \in 1..m : h[k] = q[2 * k - 1]
    <3> HIDE DEF half, h
    <3>1. \A k \in 1..m : h[k] = half[k]
      BY <1>2, <1>3, <2>1, <2>2
    <3> QED
      BY <1>2, <1>3, <2>1, <2>2, <3>1
  <2> HIDE DEF h
  <2>4. n > 2 /\ n = 2 * m
    <3>1. n > 2 /\ n % 2 = 0
      BY <1>5
    <3> HIDE DEF n, m
    <3> QED BY <1>2, <3>1
  <2>5. /\ m > 1 /\ n = 2 * m /\ m + 1 < n /\ 1 \in 1..m /\ 2 * 1 - 1 = 1
    <3> HIDE DEF n, m
    <3> QED BY <1>1, <1>2, <2>4
  <2>6. h # <<>> /\ h[1] = q[1]
    BY <2>3, <2>5
  <2>7. \A k \in 1..(m + 1) : \E j \in 1..n : h[k] = q[j]
    <3> SUFFICES ASSUME NEW k \in 1..(m + 1) PROVE \E j \in 1..n : h[k] = q[j]
      OBVIOUS
    <3>1. CASE k = m + 1
      BY <2>2, <2>3, <3>1
    <3>2. CASE k # m + 1
      <4>1. k \in 1..m
        <5> HIDE DEF n, m
        <5> QED BY <1>2, <3>2
      <4> QED
        BY <1>2, <2>3, <4>1
    <3> QED
      BY <3>1, <3>2
  <2>8. ASSUME NEW k \in 2..(m + 1)
        PROVE  \E j \in 2..n : h[k] = q[j] /\ (h[k - 1] = q[j - 1] \/ (j > 2 /\ h[k - 1] = q[j - 2]))
    <3>1. CASE k = m + 1
      <4>1. m \in 1..m /\ 2 * m - 1 = n - 1 /\ k - 1 = m /\ n \in 2..n
        <5> HIDE DEF n, m
        <5> QED BY <1>1, <1>2, <2>5, <3>1
      <4>2. h[k] = q[n] /\ h[k - 1] = q[n - 1]
        BY <2>3, <3>1, <4>1
      <4> QED
        BY <4>1, <4>2
    <3>2. CASE k # m + 1
      <4>1. /\ k \in 1..m /\ k - 1 \in 1..m /\ 2 * k - 1 \in 2..n /\ 2 * k - 1 > 2
            /\ 2 * (k - 1) - 1 = 2 * k - 1 - 2
        <5> HIDE DEF n, m
        <5> QED BY <1>1, <1>2, <3>2
      <4>2. h[k] = q[2 * k - 1] /\ h[k - 1] = q[2 * k - 1 - 2]
        BY <2>3, <4>1
      <4> QED
        BY <4>1, <4>2
    <3> QED
      BY <3>1, <3>2
  <2> HIDE DEF m
  <2>9. Len(h) <= n /\ Len(h) < n /\ h[Len(h)] = q[n]
    BY <2>3, <2>5
  <2>10. keepLast
    BY <1>5
  <2>11. HalfOf(q, keepLast, h)
    BY <2>3, <2>6, <2>7, <2>8, <2>9, <2>10 DEF HalfOf
  <2> QED
    BY <2>3, <2>11 DEF h
<1> QED
  BY <1>4, <1>5

(***************************************************************************)
(* Numbers: limits, and the multiples of a stride.                          *)
(***************************************************************************)
\* The larger one of two numbers.
LEMMA MaxOfTwo ==
  ASSUME NEW a \in Int, NEW b \in Int
  PROVE  Max({a, b}) \in {a, b} /\ Max({a, b}) >= a /\ Max({a, b}) >= b
<1>1. \E x \in {a, b} : \A y \in {a, b} : x >= y
  OBVIOUS
<1>2. Max({a, b}) \in {a, b} /\ \A y \in {a, b} : Max({a, b}) >= y
  BY <1>1, Zenon DEF Max
<1> QED
  BY <1>2

\* The smaller one of two numbers.
LEMMA MinOfTwo ==
  ASSUME NEW a \in Int, NEW b \in Int
  PROVE  Min({a, b}) \in {a, b}
<1>1. \E x \in {a, b} : \A y \in {a, b} : x <= y
  OBVIOUS
<1> QED
  BY <1>1, Zenon DEF Min

Limit == Max({2, MaxFrames})

\* A limit is two at least.
LEMMA Limits == /\ Limit \in Nat /\ Limit >= 2
                /\ MaxStored \in Nat /\ MaxStored >= 2
<1>1. MaxFrames \in Nat /\ Memory \in Nat
  BY RecordingsAssumption
<1>2. Limit \in Nat /\ Limit >= 2
  BY <1>1, MaxOfTwo DEF Limit
<1> DEFINE room == IF Memory > 0 THEN Min({MaxFrames, Memory}) ELSE MaxFrames
<1>3. room \in Nat
  BY <1>1, MinOfTwo
<1>4. MaxStored = Max({2, room})
  BY DEF MaxStored
<1> HIDE DEF room
<1>5. MaxStored \in Nat /\ MaxStored >= 2
  BY <1>3, <1>4, MaxOfTwo
<1> QED
  BY <1>2, <1>5

\* A number is so many strides and a rest.
LEMMA DivMod ==
  ASSUME NEW c \in Nat, NEW d \in Nat \ {0}
  PROVE  /\ c \div d \in Nat /\ c % d \in 0..(d - 1)
         /\ c = d * (c \div d) + (c % d)
  OBVIOUS

\* A product of numbers is a number.
LEMMA ProductInNat ==
  ASSUME NEW a \in Nat, NEW b \in Nat
  PROVE  a * b \in Nat
  OBVIOUS

\* A multiple of a stride has no rest.
LEMMA MultipleIs ==
  ASSUME NEW q \in Nat, NEW d \in Nat \ {0}
  PROVE  (q * d) % d = 0
<1> DEFINE c == q * d
           p == c \div d
           r == c % d
<1>1. c \in Nat
  BY ProductInNat
<1>2. p \in Nat /\ r \in 0..(d - 1) /\ c = d * p + r
  BY <1>1, DivMod
<1> HIDE DEF p, r
<1>3. r = (q - p) * d
  BY <1>2
<1>4. q - p <= 0
  <2> SUFFICES ASSUME q - p >= 1 PROVE FALSE
    BY <1>2
  <2>1. (q - p) * d >= 1 * d
    BY <1>2
  <2> QED
    BY <1>2, <1>3, <2>1
<1>5. r <= 0
  <2>1. (q - p) * d <= 0 * d
    BY <1>2, <1>4
  <2> QED
    BY <1>2, <1>3, <2>1
<1>6. r = 0
  BY <1>2, <1>5
<1> QED
  BY <1>6 DEF r

\* Of so many numbers in a row one is a multiple.
LEMMA MultipleAhead ==
  ASSUME NEW a \in Nat, NEW d \in Nat \ {0}
  PROVE  \E m \in (a + 1)..(a + d) : m % d = 0
<1> DEFINE q == a \div d
           r == a % d
<1>1. q \in Nat /\ r \in 0..(d - 1) /\ a = d * q + r
  BY DivMod
<1> HIDE DEF q, r
<1>2. q + 1 \in Nat /\ (q + 1) * d = d * q + d
  BY <1>1
<1>3. ((q + 1) * d) % d = 0
  BY <1>2, MultipleIs
<1> DEFINE p == d * q
<1>4. p \in Nat
  BY <1>1, ProductInNat
<1>5. (q + 1) * d = p + d /\ a = p + r
  BY <1>1, <1>2
<1> HIDE DEF p
<1>6. p + d \in (a + 1)..(a + d)
  BY <1>1, <1>4, <1>5
<1> QED
  BY <1>3, <1>5, <1>6

\* A multiple of the double is one.
LEMMA DoubleMultiple ==
  ASSUME NEW m \in Nat, NEW d \in Nat \ {0}, m % (2 * d) = 0
  PROVE  m % d = 0
<1> DEFINE q == m \div (2 * d)
<1>1. 2 * d \in Nat \ {0}
  OBVIOUS
<1>2. q \in Nat /\ m = (2 * d) * q
  <2> DEFINE e == 2 * d
  <2>1. e \in Nat \ {0} /\ m % e = 0
    OBVIOUS
  <2> HIDE DEF e
  <2>2. m \div e \in Nat /\ m = e * (m \div e) + 0
    BY <2>1, DivMod
  <2>3. m \div e \in Nat /\ m = e * (m \div e)
    BY <2>1, <2>2
  <2> QED
    BY <2>3 DEF e
<1> HIDE DEF q
<1>3. 2 * q \in Nat /\ m = (2 * q) * d
  BY <1>2
<1> QED
  BY <1>3, MultipleIs

\* A multiple that is not behind a place of the grid, and behind the one before it, is there.
LEMMA OnlyMultiple ==
  ASSUME NEW c \in Nat, NEW d \in Nat \ {0}, NEW k \in Nat, c % d = 0,
         c <= k * d, k > 0 => c > (k - 1) * d
  PROVE  c = k * d
<1> DEFINE q == c \div d
<1>1. q \in Nat /\ c = q * d
  BY DivMod
<1> HIDE DEF q
<1>2. q <= k
  <2> SUFFICES ASSUME q >= k + 1 PROVE FALSE
    BY <1>1
  <2>1. q * d >= (k + 1) * d
    BY <1>1
  <2>2. (k + 1) * d = k * d + d
    OBVIOUS
  <2> DEFINE x == k * d
  <2>3. x \in Nat /\ c <= x /\ q * d >= x + d
    BY <2>1, <2>2, ProductInNat
  <2> HIDE DEF x
  <2> QED
    BY <1>1, <2>3
<1>3. k > 0 => q >= k
  <2> SUFFICES ASSUME k > 0, q <= k - 1 PROVE FALSE
    BY <1>1
  <2>1. q * d <= (k - 1) * d
    BY <1>1
  <2> DEFINE x == (k - 1) * d
             y == q * d
  <2>2. x \in Nat /\ y \in Nat /\ c > x /\ y <= x /\ c = y
    BY <1>1, <2>1, ProductInNat
  <2> HIDE DEF x, y
  <2> QED
    BY <2>2
<1>4. q = k
  BY <1>1, <1>2, <1>3
<1> QED
  BY <1>1, <1>4

(***************************************************************************)
(* Frames that are thinned to their limit (boundPreviewRecordingCache).     *)
(***************************************************************************)
Recordings(T) ==
    [frames : Seq(T), stride : Nat \ {0}, count : Nat, end : Int, pending : Seq(T),
     firstLsl : Int]

Even(list, stride) == \A k \in 2..Len(list) : list[k].i - list[k - 1].i \in 1..stride

\* What thinning leaves of a recording.
Thins(old, new) ==
    /\ new.count = old.count /\ new.end = old.end /\ new.pending = old.pending
    /\ new.firstLsl = old.firstLsl
    /\ Len(new.frames) <= Len(old.frames)
    /\ old.frames # <<>> => /\ new.frames # <<>> /\ new.frames[1] = old.frames[1]
                            /\ new.frames[Len(new.frames)] = old.frames[Len(old.frames)]
    /\ \A k \in 1..Len(new.frames) : \E j \in 1..Len(old.frames) : new.frames[k] = old.frames[j]
    /\ Even(old.frames, old.stride) => Even(new.frames, new.stride)
    /\ \A m \in Nat : m % new.stride = 0 => m % old.stride = 0

\* A half is spread as evenly, by the double stride.
LEMMA HalfIsEven ==
  ASSUME NEW T, \A f \in T : f.i \in Nat, NEW q \in Seq(T), NEW keepLast \in BOOLEAN,
         NEW stride \in Nat \ {0}, Even(q, stride)
  PROVE  Even(KeepEveryOther(q, keepLast), 2 * stride)
<1> DEFINE h == KeepEveryOther(q, keepLast)
<1>1. h \in Seq(T) /\ HalfOf(q, keepLast, h)
  BY Halved
<1> HIDE DEF h
<1>2. ASSUME NEW k \in 2..Len(h) PROVE h[k].i - h[k - 1].i \in 1..(2 * stride)
  <2>1. PICK j \in 2..Len(q) :
          h[k] = q[j] /\ (h[k - 1] = q[j - 1] \/ (j > 2 /\ h[k - 1] = q[j - 2]))
    BY <1>1 DEF HalfOf
  <2> DEFINE n == Len(q)
  <2>2. n \in Nat /\ \A l \in 1..n : q[l].i \in Nat
    OBVIOUS
  <2>3. \A l \in 2..n : q[l].i - q[l - 1].i \in 1..stride
    BY DEF Even
  <2> HIDE DEF n
  <2>4. j \in 2..n
    BY <2>1 DEF n
  <2>5. CASE h[k - 1] = q[j - 1]
    <3>1. q[j].i - q[j - 1].i \in 1..stride
      BY <2>3, <2>4
    <3> QED
      BY <2>1, <2>5, <3>1
  <2>6. CASE j > 2 /\ h[k - 1] = q[j - 2]
    <3>1. q[j].i - q[j - 1].i \in 1..stride
      BY <2>3, <2>4
    <3>2. j - 1 \in 2..n /\ j - 1 - 1 = j - 2 /\ j - 2 \in 1..n /\ j - 1 \in 1..n /\ j \in 1..n
      <4>1. n \in Nat /\ j > 2
        BY <2>2, <2>6
      <4> QED
        BY <2>4, <4>1
    <3>3. q[j - 1].i - q[j - 2].i \in 1..stride
      BY <2>3, <3>2
    <3>4. q[j].i \in Nat /\ q[j - 1].i \in Nat /\ q[j - 2].i \in Nat
      BY <2>2, <3>2
    <3> DEFINE x == q[j].i
               y == q[j - 1].i
               z == q[j - 2].i
    <3>5. x \in Nat /\ y \in Nat /\ z \in Nat /\ x - y \in 1..stride /\ y - z \in 1..stride
      BY <3>1, <3>3, <3>4
    <3>6. h[k].i = x /\ h[k - 1].i = z
      BY <2>1, <2>6
    <3> HIDE DEF x, y, z
    <3>7. x - z \in 1..(2 * stride)
      BY <3>5
    <3> QED
      BY <3>6, <3>7, Zenon
  <2> QED
    BY <2>1, <2>5, <2>6
<1> QED
  BY <1>2 DEF Even, h

\* Halving the frames thins them (compactFrames).
LEMMA CompactThins ==
  ASSUME NEW T, \A f \in T : f.i \in Nat, NEW r \in Recordings(T), Len(r.frames) > 2
  PROVE  CompactFrames(r) \in Recordings(T) /\ Thins(r, CompactFrames(r))
<1> DEFINE h == KeepEveryOther(r.frames, TRUE)
           q == CompactFrames(r)
<1>1. r.frames \in Seq(T) /\ r.stride \in Nat \ {0}
  BY DEF Recordings
<1>2. h \in Seq(T) /\ HalfOf(r.frames, TRUE, h)
  BY <1>1, Halved
<1> HIDE DEF h
<1>3. q = [r EXCEPT !.frames = h, !.stride = 2 * r.stride]
  BY DEF CompactFrames, h
<1>11. q = [frames |-> h, stride |-> 2 * r.stride, count |-> r.count, end |-> r.end,
           pending |-> r.pending, firstLsl |-> r.firstLsl]
  BY <1>3 DEF Recordings
<1> HIDE DEF q
<1>4. /\ q \in Recordings(T) /\ q.frames = h /\ q.stride = 2 * r.stride
      /\ q.count = r.count /\ q.end = r.end /\ q.pending = r.pending /\ q.firstLsl = r.firstLsl
  BY <1>1, <1>2, <1>11 DEF Recordings
<1>5. Len(h) <= Len(r.frames)
  BY <1>2 DEF HalfOf
<1>6. h # <<>> /\ h[1] = r.frames[1] /\ h[Len(h)] = r.frames[Len(r.frames)]
  <2>1. r.frames # <<>>
    BY <1>1
  <2> QED
    BY <1>2, <2>1, Zenon DEF HalfOf
<1>7. \A k \in 1..Len(h) : \E j \in 1..Len(r.frames) : h[k] = r.frames[j]
  BY <1>2, Zenon DEF HalfOf
<1>8. Even(r.frames, r.stride) => Even(h, 2 * r.stride)
  BY <1>1, HalfIsEven DEF h
<1>9. \A m \in Nat : m % (2 * r.stride) = 0 => m % r.stride = 0
  BY <1>1, DoubleMultiple
<1>10. Thins(r, q)
  BY <1>4, <1>5, <1>6, <1>7, <1>8, <1>9, Zenon DEF Thins
<1> QED
  BY <1>4, <1>10 DEF q

\* Thinning twice is thinning.
LEMMA ThinsAgain ==
  ASSUME NEW T, NEW a \in Recordings(T), NEW b \in Recordings(T), NEW c \in Recordings(T),
         Thins(a, b), Thins(b, c)
  PROVE  Thins(a, c)
<1>1. /\ c.count = a.count /\ c.end = a.end /\ c.pending = a.pending /\ c.firstLsl = a.firstLsl
      /\ Even(a.frames, a.stride) => Even(c.frames, c.stride)
      /\ \A m \in Nat : m % c.stride = 0 => m % a.stride = 0
  BY Zenon DEF Thins
<1>2. a.frames # <<>> => /\ c.frames # <<>> /\ c.frames[1] = a.frames[1]
                         /\ c.frames[Len(c.frames)] = a.frames[Len(a.frames)]
  BY Zenon DEF Thins
<1>3. \A k \in 1..Len(c.frames) : \E j \in 1..Len(a.frames) : c.frames[k] = a.frames[j]
  BY Zenon DEF Thins
<1>4. Len(c.frames) <= Len(a.frames)
  <2>1. Len(c.frames) <= Len(b.frames) /\ Len(b.frames) <= Len(a.frames)
    BY Zenon DEF Thins
  <2>2. Len(c.frames) \in Nat /\ Len(b.frames) \in Nat /\ Len(a.frames) \in Nat
    <3>1. ASSUME NEW r \in Recordings(T) PROVE Len(r.frames) \in Nat
      BY DEF Recordings
    <3> QED
      BY <3>1
  <2> QED
    BY <2>1, <2>2
<1> QED
  BY <1>1, <1>2, <1>3, <1>4, Zenon DEF Thins

\* Leaving all of it is thinning.
LEMMA ThinsNothing ==
  ASSUME NEW T, NEW a \in Recordings(T)
  PROVE  Thins(a, a)
<1>1. Len(a.frames) <= Len(a.frames)
  BY DEF Recordings
<1> QED
  BY <1>1, Zenon DEF Thins

\* The passes over a recording that is too large: each one thins what the one before it left.
LEMMA BoundCachePasses ==
  ASSUME NEW T, \A f \in T : f.i \in Nat, NEW r \in Recordings(T)
  PROVE  \E pass : /\ pass[0] = r /\ BoundCache(r) = pass[Len(r.frames)]
                   /\ \A n \in Nat : /\ pass[n] \in Recordings(T) /\ Thins(r, pass[n])
                                      /\ pass[n + 1] = Bounded(pass[n])
<1> DEFINE Thinner == {q \in Recordings(T) : Thins(r, q)}
           IsPass(f) == f = [n \in Nat |-> IF n = 0 THEN r ELSE Bounded(f[n - 1])]
           pass == CHOOSE f : IsPass(f)
<1>1. r \in Thinner
  BY ThinsNothing
<1>2. ASSUME NEW q \in Thinner PROVE Bounded(q) \in Thinner
  <2>1. CASE FramesOver(q) /\ Len(q.frames) > 2
    <3>1. CompactFrames(q) \in Recordings(T) /\ Thins(q, CompactFrames(q))
      BY <2>1, CompactThins
    <3>2. Thins(r, CompactFrames(q))
      BY <3>1, ThinsAgain
    <3> QED
      BY <2>1, <3>1, <3>2 DEF Bounded
  <2>2. CASE ~(FramesOver(q) /\ Len(q.frames) > 2)
    <3>1. Bounded(q) = q
      BY <2>2, Zenon DEF Bounded
    <3> QED
      BY <3>1
  <2> QED
    BY <2>1, <2>2
<1> HIDE DEF Thinner
<1>3. \E f : IsPass(f)
  <2> DEFINE step == [z \in Nat \X Thinner |-> Bounded(z[2])]
  <2>1. step \in StepsOf(Thinner)
    BY <1>2 DEF StepsOf
  <2>2. PICK f : Runs(f, Thinner, r, step)
    <3> HIDE DEF step
    <3> QED
      BY <1>1, <2>1, Recursion
  <2>3. \A n \in Nat : f[n + 1] = Bounded(f[n])
    BY <2>2 DEF Runs
  <2>4. ASSUME NEW n \in Nat PROVE f[n] = IF n = 0 THEN r ELSE Bounded(f[n - 1])
    <3>1. CASE n = 0
      BY <2>2, <3>1 DEF Runs
    <3>2. CASE n # 0
      <4>1. n - 1 \in Nat /\ n - 1 + 1 = n
        BY <3>2
      <4>2. f[n] = Bounded(f[n - 1])
        BY <2>3, <4>1
      <4> QED
        BY <3>2, <4>2
    <3> QED
      BY <3>1, <3>2
  <2>5. IsPass(f)
    BY <2>2, <2>4 DEF Runs
  <2> QED
    BY <2>5
<1>4. IsPass(pass)
  <2> HIDE DEF IsPass
  <2> QED
    BY <1>3, Zenon
<1>5. BoundCache(r) = pass[Len(r.frames)]
  BY DEF BoundCache
<1> HIDE DEF pass
<1>6. pass[0] = r /\ \A n \in Nat : pass[n + 1] = Bounded(pass[n])
  BY <1>4
<1>7. \A n \in Nat : pass[n] \in Thinner
  <2>1. pass[0] \in Thinner /\ \A n \in Nat : pass[n] \in Thinner => pass[n + 1] \in Thinner
    BY <1>1, <1>2, <1>6
  <2> QED
    BY <2>1, StaysIn
<1>8. \A n \in Nat : pass[n] \in Recordings(T) /\ Thins(r, pass[n])
  BY <1>7 DEF Thinner
<1> QED
  BY <1>5, <1>6, <1>8

\* However often the frames are halved, it is thinning.
LEMMA BoundCacheThins ==
  ASSUME NEW T, \A f \in T : f.i \in Nat, NEW r \in Recordings(T)
  PROVE  BoundCache(r) \in Recordings(T) /\ Thins(r, BoundCache(r))
<1>1. Len(r.frames) \in Nat
  BY DEF Recordings
<1> QED
  BY <1>1, BoundCachePasses

\* The passes are enough: what is still too much then cannot be halved, and the reader throws.
LEMMA BoundCacheEnds ==
  ASSUME NEW T, \A f \in T : f.i \in Nat, NEW r \in Recordings(T)
  PROVE  FramesOver(BoundCache(r)) => Len(BoundCache(r).frames) <= 2
<1> DEFINE n == Len(r.frames)
<1>1. PICK pass : /\ pass[0] = r /\ BoundCache(r) = pass[n]
                  /\ \A k \in Nat : /\ pass[k] \in Recordings(T) /\ Thins(r, pass[k])
                                     /\ pass[k + 1] = Bounded(pass[k])
  BY BoundCachePasses
<1> DEFINE left(k) == Len(pass[k].frames)
           Ended(q) == ~(FramesOver(q) /\ Len(q.frames) > 2)
           Done(k) == Ended(pass[k]) \/ left(k) + k <= n
<1>2. n \in Nat /\ \A k \in Nat : left(k) \in Nat
  <2>1. ASSUME NEW q \in Recordings(T) PROVE Len(q.frames) \in Nat
    BY DEF Recordings
  <2> QED
    BY <1>1, <2>1
<1>3. ASSUME NEW q \in Recordings(T) 
      PROVE  /\ Ended(q) => Bounded(q) = q
             /\ ~Ended(q) => Len(Bounded(q).frames) < Len(q.frames)
  <2>1. CASE ~Ended(q)
    <3>1. q.frames \in Seq(T)
      BY DEF Recordings
    <3>2. HalfOf(q.frames, TRUE, KeepEveryOther(q.frames, TRUE))
      BY <3>1, Halved
    <3>3. Len(KeepEveryOther(q.frames, TRUE)) < Len(q.frames)
      BY <2>1, <3>2 DEF HalfOf
    <3>4. CompactFrames(q).frames = KeepEveryOther(q.frames, TRUE)
      BY DEF CompactFrames, Recordings
    <3>5. Bounded(q) = CompactFrames(q)
      BY <2>1, Zenon DEF Bounded
    <3> QED
      BY <2>1, <3>3, <3>4, <3>5
  <2>2. CASE Ended(q)
    <3>1. Bounded(q) = q
      BY <2>2, Zenon DEF Bounded
    <3> QED
      BY <2>2, <3>1
  <2> QED
    BY <2>1, <2>2
<1> HIDE DEF Ended
<1>4. Done(0)
  BY <1>1, <1>2
<1>5. ASSUME NEW k \in Nat, Done(k) PROVE Done(k + 1)
  <2>1. k + 1 \in Nat /\ pass[k + 1] = Bounded(pass[k]) /\ pass[k] \in Recordings(T)
    BY <1>1
  <2>2. CASE Ended(pass[k])
    <3>1. Ended(pass[k + 1])
      BY <1>3, <2>1, <2>2
    <3> QED
      BY <3>1
  <2>3. CASE ~Ended(pass[k])
    <3>1. left(k) + k <= n
      BY <1>5, <2>3
    <3>2. left(k + 1) < left(k)
      BY <1>3, <2>1, <2>3
    <3>3. left(k) \in Nat /\ left(k + 1) \in Nat
      BY <1>2, <2>1
    <3> HIDE DEF left, n
    <3>4. left(k + 1) + (k + 1) <= n
      BY <1>2, <3>1, <3>2, <3>3
    <3> QED
      BY <3>4
  <2> QED
    BY <2>2, <2>3
<1>6. Done(n)
  <2> DEFINE f == [k \in Nat |-> IF Done(k) THEN 1 ELSE 0]
             S == {1}
  <2> HIDE DEF Done
  <2>1. f[0] \in S /\ \A k \in Nat : f[k] \in S => f[k + 1] \in S
    BY <1>4, <1>5
  <2>2. \A k \in Nat : f[k] \in S
    <3> HIDE DEF f, S
    <3> QED
      BY <2>1, StaysIn
  <2> QED
    BY <1>2, <2>2
<1>7. Ended(pass[n]) \/ left(n) <= 2
  <2>1. CASE left(n) + n <= n
    <3>1. left(n) \in Nat
      BY <1>2
    <3> HIDE DEF left, n
    <3> QED
      BY <1>2, <2>1, <3>1
  <2> QED
    BY <1>6, <2>1
<1>8. FramesOver(pass[n]) => Len(pass[n].frames) <= 2
  <2>1. CASE Ended(pass[n])
    <3>1. Len(pass[n].frames) \in Nat
      BY <1>2
    <3> QED
      BY <2>1, <3>1 DEF Ended
  <2>2. CASE left(n) <= 2
    BY <2>2
  <2> QED
    BY <1>7, <2>1, <2>2
<1> QED
  BY <1>1, <1>8

(***************************************************************************)
(* The rows of the CSV file.  Behind the last frame kept no row was due:    *)
(* the next one that is kept is not further away than the stride.           *)
(***************************************************************************)
Rows == [i : Nat, t : Int]

NoneDue(r, i) == \A m \in Nat : i < m /\ m < r.count => m % r.stride # 0

Read(r) ==
    /\ r \in Recordings(Rows) /\ Even(r.frames, r.stride)
    /\ r.count = 0 => r.frames = <<>> /\ r.pending = <<>>
    /\ r.count > 0 =>
        LET last == r.frames[Len(r.frames)]
        IN /\ r.frames # <<>> /\ r.frames[1].i = 0
           /\ last.i <= r.count - 1 /\ NoneDue(r, last.i)
           /\ IF r.pending = <<>> THEN last.i = r.count - 1
              ELSE /\ Len(r.pending) = 1 /\ r.pending[1].i = r.count - 1
                   /\ last.i < r.count - 1

ReadWhole(r) ==
    /\ r \in Recordings(Rows) /\ Even(r.frames, r.stride)
    /\ r.count = 0 => r.frames = <<>>
    /\ r.count > 0 => /\ r.frames # <<>> /\ r.frames[1].i = 0
                      /\ r.frames[Len(r.frames)].i = r.count - 1

\* The fields of a recording.
LEMMA RecordingParts ==
  ASSUME NEW T, NEW r \in Recordings(T)
  PROVE  /\ r.frames \in Seq(T) /\ r.stride \in Nat \ {0} /\ r.count \in Nat
         /\ r.end \in Int /\ r.pending \in Seq(T) /\ r.firstLsl \in Int
BY DEF Recordings

\* A recording made of its fields.
LEMMA RecordingMade ==
  ASSUME NEW T, NEW frames \in Seq(T), NEW stride \in Nat \ {0}, NEW count \in Nat,
         NEW end \in Int, NEW pending \in Seq(T), NEW firstLsl \in Int
  PROVE  LET r == [frames |-> frames, stride |-> stride, count |-> count, end |-> end,
                   pending |-> pending, firstLsl |-> firstLsl]
         IN  /\ r \in Recordings(T) /\ r.frames = frames /\ r.stride = stride
             /\ r.count = count /\ r.end = end /\ r.pending = pending
             /\ r.firstLsl = firstLsl
BY DEF Recordings

\* A recording whose fields are replaced.
LEMMA FramesReplaced ==
  ASSUME NEW T, NEW r \in Recordings(T), NEW frames
  PROVE  [r EXCEPT !.frames = frames] =
             [frames |-> frames, stride |-> r.stride, count |-> r.count, end |-> r.end,
              pending |-> r.pending, firstLsl |-> r.firstLsl]
BY DEF Recordings

\* A recording that counts one more row.
LEMMA RowCounted ==
  ASSUME NEW T, NEW r \in Recordings(T), NEW count, NEW end, NEW firstLsl
  PROVE  [r EXCEPT !.count = count, !.end = end, !.firstLsl = firstLsl] =
             [frames |-> r.frames, stride |-> r.stride, count |-> count, end |-> end,
              pending |-> r.pending, firstLsl |-> firstLsl]
<1> DEFINE counted == [r EXCEPT !.count = count]
           ended == [counted EXCEPT !.end = end]
           named == [ended EXCEPT !.firstLsl = firstLsl]
<1>1. counted = [frames |-> r.frames, stride |-> r.stride, count |-> count, end |-> r.end,
                 pending |-> r.pending, firstLsl |-> r.firstLsl]
  BY DEF Recordings
<1> HIDE DEF counted
<1>2. ended = [frames |-> r.frames, stride |-> r.stride, count |-> count, end |-> end,
               pending |-> r.pending, firstLsl |-> r.firstLsl]
  BY <1>1
<1> HIDE DEF ended
<1>3. named = [frames |-> r.frames, stride |-> r.stride, count |-> count, end |-> end,
               pending |-> r.pending, firstLsl |-> firstLsl]
  BY <1>2
<1>4. named = [r EXCEPT !.count = count, !.end = end, !.firstLsl = firstLsl]
  BY DEF named, ended, counted
<1> QED
  BY <1>3, <1>4

\* A row that is due, or the last one, can be added.
LEMMA AppendedIsEven ==
  ASSUME NEW r, r \in Recordings(Rows), Even(r.frames, r.stride), NEW f \in Rows,
         r.frames # <<>> => /\ r.frames[Len(r.frames)].i < f.i
                            /\ \A m \in Nat : r.frames[Len(r.frames)].i < m /\ m < f.i
                                   => m % r.stride # 0
  PROVE  Even(Append(r.frames, f), r.stride)
<1> DEFINE q == r.frames
           n == Len(q)
           p == Append(q, f)
<1>1. q \in Seq(Rows) /\ n \in Nat /\ r.stride \in Nat \ {0} /\ f.i \in Nat
  BY DEF Recordings, Rows
<1>2. p \in Seq(Rows) /\ Len(p) = n + 1 /\ p[n + 1] = f /\ \A k \in 1..n : p[k] = q[k]
  BY <1>1
<1>3. ASSUME NEW k \in 2..Len(p) PROVE p[k].i - p[k - 1].i \in 1..r.stride
  <2>1. CASE k \in 2..n
    <3>1. p[k] = q[k] /\ p[k - 1] = q[k - 1]
      <4> HIDE DEF n, p, q
      <4> QED BY <1>1, <1>2, <2>1
    <3> QED
      BY <2>1, <3>1 DEF Even
  <2>2. CASE k \notin 2..n
    <3>1. k = n + 1 /\ n >= 1 /\ n \in 1..n
      <4> HIDE DEF n, p, q
      <4> QED BY <1>1, <1>2, <2>2
    <3>2. p[k] = f /\ p[k - 1] = q[n] /\ q # <<>>
      <4>1. k - 1 = n
        BY <1>1, <3>1
      <4> QED
        BY <1>2, <3>1, <4>1
    <3> DEFINE a == q[n].i
               d == r.stride
    <3>3. a \in Nat /\ d \in Nat \ {0} /\ a < f.i
      <4>1. q[n] \in Rows
        <5> HIDE DEF n, q
        <5> QED BY <1>1, <3>1
      <4>2. a \in Nat
        BY <4>1 DEF Rows
      <4>3. a < f.i
        BY <3>2
      <4> QED
        BY <1>1, <4>2, <4>3
    <3>4. \A m \in Nat : a < m /\ m < f.i => m % d # 0
      BY <3>2
    <3> HIDE DEF a, d
    <3>5. PICK m \in (a + 1)..(a + d) : m % d = 0
      BY <3>3, MultipleAhead
    <3>6. ~(m < f.i)
      <4>1. m \in Nat /\ a < m
        BY <3>3, <3>5
      <4> QED
        BY <3>4, <3>5, <4>1
    <3>7. f.i - a \in 1..d
      <4> DEFINE i == f.i
      <4>1. i \in Nat /\ a < i /\ ~(m < i)
        BY <1>1, <3>3, <3>6
      <4> HIDE DEF i
      <4>2. i - a \in 1..d
        BY <3>3, <3>5, <4>1
      <4> QED
        BY <4>2 DEF i
    <3> QED
      BY <3>2, <3>7 DEF a, d
  <2> QED
    BY <2>1, <2>2
<1> QED
  BY <1>3 DEF Even, p

\* A frame is added, and what is too much is thinned (appendBoundedPreviewFrame).
LEMMA AppendBoundedThins ==
  ASSUME NEW T, \A g \in T : g.i \in Nat, NEW r \in Recordings(T), NEW f \in T,
         NEW whole, whole = [r EXCEPT !.frames = Append(r.frames, f)],
         NEW b, b = AppendBounded(r, f)
  PROVE  /\ whole \in Recordings(T) /\ b \in Recordings(T)
         /\ whole.frames = Append(r.frames, f) /\ whole.stride = r.stride
         /\ whole.count = r.count /\ whole.pending = r.pending
         /\ Thins(whole, b)
<1> DEFINE p == Append(r.frames, f)
<1>1. p \in Seq(T)
  BY DEF Recordings
<1>2. whole = [r EXCEPT !.frames = p]
  OBVIOUS
<1>3. b = BoundCache(whole)
  BY DEF AppendBounded
<1> HIDE DEF p
<1>4. /\ whole \in Recordings(T) /\ whole.frames = p /\ whole.stride = r.stride
      /\ whole.count = r.count /\ whole.pending = r.pending
  <2>1. whole = [frames |-> p, stride |-> r.stride, count |-> r.count, end |-> r.end,
                 pending |-> r.pending, firstLsl |-> r.firstLsl]
    BY <1>2, FramesReplaced
  <2>2. /\ r.stride \in Nat \ {0} /\ r.count \in Nat /\ r.end \in Int
        /\ r.pending \in Seq(T) /\ r.firstLsl \in Int
    BY RecordingParts
  <2>3. whole \in Recordings(T)
    <3>1. [frames |-> p, stride |-> r.stride, count |-> r.count, end |-> r.end,
           pending |-> r.pending, firstLsl |-> r.firstLsl] \in Recordings(T)
      BY <1>1, <2>2, RecordingMade
    <3> QED
      BY <2>1, <3>1
  <2> QED
    BY <2>1, <2>3
<1>5. b \in Recordings(T) /\ Thins(whole, b)
  BY <1>3, <1>4, BoundCacheThins
<1> QED
  BY <1>4, <1>5 DEF p

\* Each row read keeps what is known of the rows so far.
LEMMA KeepRowKeeps ==
  ASSUME Read(recording), NEW rel \in RowTimes \cup {Missing}, NEW lsl \in RowTimes \cup {Missing}
  PROVE  Read(KeepRow(rel, lsl))
<1> DEFINE r == recording
           c == r.count
           time == RowTime(rel, lsl)
           row == [i |-> c, t |-> time]
           first == FirstLsl(rel, lsl)
           read == [r EXCEPT !.count = c + 1, !.end = time, !.firstLsl = first]
           q == KeepRow(rel, lsl)
<1>1. /\ r \in Recordings(Rows) /\ c \in Nat /\ r.stride \in Nat \ {0} /\ r.firstLsl \in Int
      /\ r.frames \in Seq(Rows) /\ r.pending \in Seq(Rows)
  BY DEF Read, Recordings
<1>2. rel \in Int /\ lsl \in Int
  BY RecordingsAssumption DEF Missing
<1>3. first \in Int
  BY <1>1, <1>2, Zenon DEF FirstLsl
<1>4. time \in Int
  BY <1>1, <1>2, <1>3 DEF RowTime
<1>5. row \in Rows /\ row.i = c
  BY <1>1, <1>4 DEF Rows
<1>6. q = IF c % r.stride = 0 THEN [AppendBounded(read, row) EXCEPT !.pending = <<>>]
          ELSE [read EXCEPT !.pending = <<row>>]
  BY DEF KeepRow
<1> HIDE DEF row, q, time, first
<1>7. /\ read \in Recordings(Rows) /\ read.frames = r.frames /\ read.count = c + 1
      /\ read.stride = r.stride /\ read.pending = r.pending
  <2>1. read = [frames |-> r.frames, stride |-> r.stride, count |-> c + 1, end |-> time,
                pending |-> r.pending, firstLsl |-> first]
    BY <1>1, RowCounted
  <2> HIDE DEF read
  <2>2. c + 1 \in Nat
    BY <1>1
  <2> QED
    BY <1>1, <1>3, <1>4, <2>1, <2>2, RecordingMade
<1> HIDE DEF read
<1>8. c > 0 => /\ r.frames # <<>> /\ r.frames[1].i = 0
               /\ r.frames[Len(r.frames)].i <= c - 1 /\ NoneDue(r, r.frames[Len(r.frames)].i)
  BY DEF Read
<1>9. c = 0 => r.frames = <<>>
  BY DEF Read
<1>10. r.frames # <<>> => /\ Len(r.frames) \in 1..Len(r.frames) /\ 1 \in 1..Len(r.frames)
                          /\ r.frames[Len(r.frames)].i \in Nat /\ r.frames[1].i \in Nat
  <2> DEFINE s == r.frames
             n == Len(s)
  <2>1. s \in Seq(Rows)
    BY <1>1
  <2> HIDE DEF s
  <2> SUFFICES ASSUME s # <<>>
               PROVE  n \in 1..n /\ 1 \in 1..n /\ s[n].i \in Nat /\ s[1].i \in Nat
    BY DEF s
  <2>2. n \in 1..n /\ 1 \in 1..n
    BY <2>1
  <2>3. s[n] \in Rows /\ s[1] \in Rows
    BY <2>1, <2>2
  <2> QED
    BY <2>2, <2>3 DEF Rows
<1>11. CASE c % r.stride = 0
  <2> DEFINE whole == [read EXCEPT !.frames = Append(read.frames, row)]
             b == AppendBounded(read, row)
  <2>1. /\ whole \in Recordings(Rows) /\ b \in Recordings(Rows)
        /\ whole.frames = Append(r.frames, row) /\ whole.stride = r.stride
        /\ whole.count = c + 1 /\ Thins(whole, b)
    <3>1. \A f \in Rows : f.i \in Nat
      BY DEF Rows
    <3>2. whole = [read EXCEPT !.frames = Append(read.frames, row)] /\ b = AppendBounded(read, row)
      OBVIOUS
    <3> HIDE DEF whole, b
    <3>3. /\ whole \in Recordings(Rows) /\ b \in Recordings(Rows)
          /\ whole.frames = Append(read.frames, row) /\ whole.stride = read.stride
          /\ whole.count = read.count /\ whole.pending = read.pending
          /\ Thins(whole, b)
      BY <1>5, <1>7, <3>1, <3>2, AppendBoundedThins
    <3> QED
      BY <1>7, <3>3
  <2> HIDE DEF whole, b
  <2>2. q = [b EXCEPT !.pending = <<>>]
    BY <1>6, <1>11 DEF b
  <2>3. /\ q \in Recordings(Rows) /\ q.frames = b.frames /\ q.stride = b.stride
        /\ q.count = b.count /\ q.pending = <<>>
    <3>1. q = [frames |-> b.frames, stride |-> b.stride, count |-> b.count, end |-> b.end,
               pending |-> <<>>, firstLsl |-> b.firstLsl]
      BY <2>1, <2>2 DEF Recordings
    <3>2. <<>> \in Seq(Rows)
      OBVIOUS
    <3> HIDE DEF q
    <3> QED
      BY <2>1, <3>1, <3>2, RecordingParts, RecordingMade
  <2>4. Even(whole.frames, whole.stride)
    <3>1. r.frames # <<>> => /\ r.frames[Len(r.frames)].i < c
                             /\ \A m \in Nat : r.frames[Len(r.frames)].i < m /\ m < c
                                    => m % r.stride # 0
      <4> SUFFICES ASSUME r.frames # <<>>
                   PROVE  /\ r.frames[Len(r.frames)].i < c
                          /\ \A m \in Nat : r.frames[Len(r.frames)].i < m /\ m < c
                                    => m % r.stride # 0
        OBVIOUS
      <4>1. c > 0
        BY <1>1, <1>9
      <4>2. r.frames[Len(r.frames)].i < c
        BY <1>1, <1>8, <1>10, <4>1
      <4> QED
        BY <1>8, <4>1, <4>2, Zenon DEF NoneDue
    <3>2. Even(r.frames, r.stride)
      BY DEF Read
    <3> QED
      BY <1>1, <1>5, <2>1, <3>1, <3>2, AppendedIsEven
  <2>5. Even(q.frames, q.stride)
    BY <2>1, <2>3, <2>4, Zenon DEF Thins
  <2>6. /\ whole.frames # <<>> /\ whole.frames[1].i = 0
        /\ whole.frames[Len(whole.frames)] = row
    <3> DEFINE p == Append(r.frames, row)
               n == Len(r.frames)
    <3>1. Len(p) = n + 1 /\ p[n + 1] = row /\ n \in Nat /\ \A k \in 1..n : p[k] = r.frames[k]
      BY <1>1
    <3>2. p # <<>> /\ p[Len(p)] = row
      BY <3>1
    <3>3. CASE c = 0
      <4>1. n + 1 = 1
        BY <1>9, <3>3
      <4> QED
        BY <1>5, <2>1, <3>1, <3>2, <3>3, <4>1
    <3>4. CASE c # 0
      <4>1. r.frames # <<>> /\ r.frames[1].i = 0 /\ 1 \in 1..n
        BY <1>1, <1>8, <1>10, <3>4
      <4> QED
        BY <2>1, <3>1, <3>2, <4>1
    <3> QED
      BY <3>3, <3>4
  <2>7. q.frames # <<>> /\ q.frames[1].i = 0 /\ q.frames[Len(q.frames)].i = c
    <3>1. q.frames # <<>> /\ q.frames[1] = whole.frames[1] /\ q.frames[Len(q.frames)] = row
      BY <2>1, <2>3, <2>6, Zenon DEF Thins
    <3> QED
      BY <1>5, <2>6, <3>1
  <2>8. q.count = c + 1
    BY <2>1, <2>3, Zenon DEF Thins
  <2>9. NoneDue(q, c)
    BY <1>1, <2>8 DEF NoneDue
  <2>10. q.count - 1 = c /\ q.count # 0
    BY <1>1, <2>8
  <2>11. c <= c
    BY <1>1
  <2> QED
    BY <2>3, <2>5, <2>7, <2>9, <2>10, <2>11, Zenon DEF Read, q
<1>12. CASE c % r.stride # 0
  <2>1. c > 0
    <3>1. CASE c = 0
      <4>1. (0 * r.stride) % r.stride = 0
        BY <1>1, MultipleIs
      <4>2. 0 * r.stride = 0
        BY <1>1
      <4> QED
        BY <1>12, <3>1, <4>1, <4>2
    <3> QED
      BY <1>1, <3>1
  <2>2. q = [read EXCEPT !.pending = <<row>>]
    BY <1>6, <1>12
  <2>3. /\ q \in Recordings(Rows) /\ q.frames = r.frames /\ q.stride = r.stride
        /\ q.count = c + 1 /\ q.pending = <<row>>
    <3>1. q = [frames |-> read.frames, stride |-> read.stride, count |-> read.count,
               end |-> read.end, pending |-> <<row>>, firstLsl |-> read.firstLsl]
      BY <1>7, <2>2 DEF Recordings
    <3>2. <<row>> \in Seq(Rows)
      BY <1>5
    <3> HIDE DEF q
    <3> QED
      BY <1>7, <3>1, <3>2, RecordingParts, RecordingMade
  <2> DEFINE last == r.frames[Len(r.frames)]
  <2>4. last.i \in Nat /\ last.i < c /\ last.i <= c
    BY <1>1, <1>8, <1>10, <2>1
  <2>5. NoneDue(q, last.i)
    <3> SUFFICES ASSUME NEW m \in Nat, last.i < m, m < c + 1 PROVE m % r.stride # 0
      BY <2>3, Zenon DEF NoneDue
    <3>1. CASE m = c
      BY <1>12, <3>1
    <3>2. CASE m # c
      <4>1. m < c
        BY <1>1, <3>2
      <4> QED
        BY <1>8, <2>1, <4>1, Zenon DEF NoneDue
    <3> QED
      BY <3>1, <3>2
  <2>6. Len(q.pending) = 1 /\ q.pending[1].i = c /\ q.pending # <<>>
    BY <1>5, <2>3
  <2>7. q.count - 1 = c /\ q.count # 0 /\ q.count > 0
    BY <1>1, <2>3
  <2>8. Even(q.frames, q.stride)
    BY <2>3 DEF Read
  <2>9. q.frames # <<>> /\ q.frames[1].i = 0 /\ q.frames[Len(q.frames)] = last
    BY <1>8, <2>1, <2>3
  <2> HIDE DEF last
  <2> QED
    BY <2>3, <2>4, <2>5, <2>6, <2>7, <2>8, <2>9, Zenon DEF Read, q
<1> QED
  BY <1>11, <1>12

\* The last row is added, and the whole is thinned to its limit.
LEMMA EndOfRowsKeeps ==
  ASSUME Read(recording)
  PROVE  LET whole == IF recording.pending = <<>> THEN recording
                      ELSE AppendBounded(recording, recording.pending[1])
         IN  ReadWhole(BoundCache(whole))
<1> DEFINE r == recording
           c == r.count
           n == Len(r.frames)
           whole == IF r.pending = <<>> THEN r ELSE AppendBounded(r, r.pending[1])
<1>1. /\ r \in Recordings(Rows) /\ c \in Nat /\ r.stride \in Nat \ {0}
      /\ r.frames \in Seq(Rows) /\ r.pending \in Seq(Rows)
  BY DEF Read, Recordings
<1>2. \A f \in Rows : f.i \in Nat
  BY DEF Rows
<1>3. ReadWhole(whole)
  <2>1. CASE r.pending = <<>>
    <3>1. whole = r
      BY <2>1
    <3>2. c > 0 => /\ r.frames # <<>> /\ r.frames[1].i = 0
                   /\ r.frames[Len(r.frames)].i = c - 1
      BY <2>1 DEF Read
    <3> HIDE DEF whole
    <3> QED
      BY <3>1, <3>2 DEF Read, ReadWhole
  <2>2. CASE r.pending # <<>>
    <3> DEFINE f == r.pending[1]
               all == [r EXCEPT !.frames = Append(r.frames, f)]
    <3>1. whole = AppendBounded(r, f)
      BY <2>2
    <3>2. f \in Rows
      BY <1>1, <2>2
    <3>3. /\ all \in Recordings(Rows) /\ whole \in Recordings(Rows)
          /\ all.frames = Append(r.frames, f) /\ all.stride = r.stride
          /\ all.count = c /\ Thins(all, whole)
      <4>1. all = [r EXCEPT !.frames = Append(r.frames, f)]
        OBVIOUS
      <4> HIDE DEF all, whole, f
      <4> QED
        BY <1>1, <1>2, <3>1, <3>2, <4>1, AppendBoundedThins
    <3> HIDE DEF all, whole
    <3>4. c > 0
      BY <1>1, <2>2 DEF Read
    <3>5. /\ r.frames # <<>> /\ r.frames[1].i = 0 /\ f.i = c - 1 /\ r.frames[n].i < c - 1
          /\ NoneDue(r, r.frames[n].i)
      BY <2>2, <3>4 DEF Read
    <3> HIDE DEF f
    <3>6. Even(r.frames, r.stride)
      BY DEF Read
    <3>7. \A m \in Nat : r.frames[n].i < m /\ m < f.i => m % r.stride # 0
      <4> SUFFICES ASSUME NEW m \in Nat, r.frames[n].i < m, m < f.i PROVE m % r.stride # 0
        OBVIOUS
      <4>1. m < c
        BY <1>1, <3>5
      <4> QED
        BY <3>5, <4>1, Zenon DEF NoneDue
    <3>8. Even(all.frames, all.stride)
      BY <1>1, <3>2, <3>3, <3>5, <3>6, <3>7, AppendedIsEven
    <3>9. /\ all.frames # <<>> /\ all.frames[1].i = 0
          /\ all.frames[Len(all.frames)] = f
      <4> DEFINE p == Append(r.frames, f)
      <4>1. /\ n \in Nat /\ Len(p) = n + 1 /\ p[n + 1] = f
            /\ \A k \in 1..n : p[k] = r.frames[k]
        BY <1>1
      <4>2. 1 \in 1..n
        BY <1>1, <3>5
      <4>3. p # <<>> /\ p[Len(p)] = f /\ p[1] = r.frames[1]
        BY <4>1, <4>2
      <4> QED
        BY <3>3, <3>5, <4>3
    <3>10. Even(whole.frames, whole.stride) /\ whole.count = c
      BY <3>3, <3>8, Zenon DEF Thins
    <3>11. whole.frames # <<>> /\ whole.frames[1].i = 0 /\ whole.frames[Len(whole.frames)].i = c - 1
      <4>1. whole.frames # <<>> /\ whole.frames[1] = all.frames[1] /\ whole.frames[Len(whole.frames)] = f
        BY <3>3, <3>9, Zenon DEF Thins
      <4> QED
        BY <3>5, <3>9, <4>1
    <3>12. c # 0
      BY <1>1, <3>4
    <3> QED
      BY <3>3, <3>10, <3>11, <3>12, Zenon DEF ReadWhole
  <2> QED
    BY <2>1, <2>2
<1> HIDE DEF whole
<1> DEFINE b == BoundCache(whole)
<1>4. whole \in Recordings(Rows)
  BY <1>3 DEF ReadWhole
<1>5. b \in Recordings(Rows) /\ Thins(whole, b)
  BY <1>2, <1>4, BoundCacheThins
<1> HIDE DEF b
<1>6. Even(b.frames, b.stride) /\ b.count = whole.count
  BY <1>3, <1>5, Zenon DEF ReadWhole, Thins
<1>7. whole.count > 0 => b.frames # <<>> /\ b.frames[1].i = 0 /\ b.frames[Len(b.frames)].i = whole.count - 1
  BY <1>3, <1>5, Zenon DEF ReadWhole, Thins
<1>8. whole.count = 0 => b.frames = <<>>
  <2> SUFFICES ASSUME whole.count = 0 PROVE b.frames = <<>>
    OBVIOUS
  <2>1. whole.frames = <<>>
    BY <1>3 DEF ReadWhole
  <2>2. Len(whole.frames) = 0
    BY <2>1
  <2>3. Len(b.frames) <= 0
    BY <1>5, <2>2 DEF Thins
  <2>4. b.frames \in Seq(Rows)
    BY <1>5 DEF Recordings
  <2> QED
    BY <2>3, <2>4
<1>9. ReadWhole(b)
  BY <1>5, <1>6, <1>7, <1>8, Zenon DEF ReadWhole
<1> QED
  BY <1>9 DEF b, whole

(***************************************************************************)
(* A stream while the chunks are read: its samples lie on a grid.           *)
(***************************************************************************)
StreamsOf(T) ==
    [layout : Layouts \cup {NoLayout}, count : Nat, kept : Seq(T), stride : Nat \ {0},
     pending : Seq(T), last : Int]

Samples == [i : Nat, raw : Int, t : Int]

\* The samples due are all kept, and the one that was read last is pending if it was not due.
OnGrid(s) ==
    LET n == Len(s.kept)
    IN /\ \A k \in 1..n : s.kept[k].i = (k - 1) * s.stride
       /\ s.count <= n * s.stride
       /\ n > 0 => (n - 1) * s.stride < s.count
       /\ s.pending = <<>> \/ /\ Len(s.pending) = 1 /\ n > 0 /\ n < MaxStored
                              /\ s.pending[1].i = s.count - 1
                              /\ (n - 1) * s.stride < s.count - 1

Grid(s) ==
    /\ s \in StreamsOf(Samples)
    /\ Len(s.kept) <= MaxStored
    /\ s.layout = NoLayout => s.count = 0
    /\ IF Numeric(s) THEN OnGrid(s) ELSE s.kept = <<>> /\ s.pending = <<>>

\* The fields of a stream.
LEMMA StreamParts ==
  ASSUME NEW T, NEW s \in StreamsOf(T)
  PROVE  /\ s.layout \in Layouts \cup {NoLayout} /\ s.count \in Nat /\ s.kept \in Seq(T)
         /\ s.stride \in Nat \ {0} /\ s.pending \in Seq(T) /\ s.last \in Int
BY DEF StreamsOf

\* A stream made of its fields.
LEMMA StreamMade ==
  ASSUME NEW T, NEW layout \in Layouts \cup {NoLayout}, NEW count \in Nat, NEW kept \in Seq(T),
         NEW stride \in Nat \ {0}, NEW pending \in Seq(T), NEW last \in Int
  PROVE  LET s == [layout |-> layout, count |-> count, kept |-> kept, stride |-> stride,
                   pending |-> pending, last |-> last]
         IN  /\ s \in StreamsOf(T) /\ s.layout = layout /\ s.count = count
             /\ s.kept = kept /\ s.stride = stride /\ s.pending = pending /\ s.last = last
BY DEF StreamsOf

\* A stream with one field replaced.
LEMMA StreamReplaced ==
  ASSUME NEW T, NEW s \in StreamsOf(T)
  PROVE  /\ \A layout : [s EXCEPT !.layout = layout] =
                [layout |-> layout, count |-> s.count, kept |-> s.kept, stride |-> s.stride,
                 pending |-> s.pending, last |-> s.last]
         /\ \A count : [s EXCEPT !.count = count] =
                [layout |-> s.layout, count |-> count, kept |-> s.kept, stride |-> s.stride,
                 pending |-> s.pending, last |-> s.last]
         /\ \A kept : [s EXCEPT !.kept = kept] =
                [layout |-> s.layout, count |-> s.count, kept |-> kept, stride |-> s.stride,
                 pending |-> s.pending, last |-> s.last]
BY DEF StreamsOf

\* A stream with its samples and its stride replaced.
LEMMA StreamThinned ==
  ASSUME NEW T, NEW s \in StreamsOf(T), NEW kept, NEW stride
  PROVE  [s EXCEPT !.kept = kept, !.stride = stride] =
             [layout |-> s.layout, count |-> s.count, kept |-> kept, stride |-> stride,
              pending |-> s.pending, last |-> s.last]
<1> DEFINE other == [s EXCEPT !.kept = kept]
           thinned == [other EXCEPT !.stride = stride]
<1>1. other = [layout |-> s.layout, count |-> s.count, kept |-> kept, stride |-> s.stride,
               pending |-> s.pending, last |-> s.last]
  BY StreamReplaced
<1> HIDE DEF other
<1>2. thinned = [layout |-> s.layout, count |-> s.count, kept |-> kept, stride |-> stride,
                 pending |-> s.pending, last |-> s.last]
  BY <1>1
<1>3. thinned = [s EXCEPT !.kept = kept, !.stride = stride]
  BY DEF thinned, other
<1> QED
  BY <1>2, <1>3

\* A half of what lies on a grid lies on the one of the double stride.
LEMMA CompactGrid ==
  ASSUME NEW s, Grid(s)
  PROVE  LET c == CompactSamples(s, FALSE)
         IN  /\ Grid(c) /\ c.layout = s.layout /\ c.count = s.count /\ c.pending = s.pending
             /\ c.last = s.last
             /\ Len(s.kept) > 1 => Len(c.kept) < Len(s.kept)
<1> DEFINE q == s.kept
           n == Len(q)
           h == KeepEveryOther(q, FALSE)
           m == Len(h)
           c == CompactSamples(s, FALSE)
           d == s.stride
<1>1. s \in StreamsOf(Samples)
  BY DEF Grid
<1>2. q \in Seq(Samples) /\ d \in Nat \ {0} /\ s.count \in Nat /\ s.pending \in Seq(Samples)
  BY <1>1, StreamParts
<1>3. h \in Seq(Samples) /\ HalfOf(q, FALSE, h)
  BY <1>2, Halved
<1>4. c = [layout |-> s.layout, count |-> s.count, kept |-> h, stride |-> 2 * d,
           pending |-> s.pending, last |-> s.last]
  BY <1>1, StreamThinned DEF CompactSamples
<1> HIDE DEF h, c
<1>5. 2 * d \in Nat \ {0}
  BY <1>2
<1>6. /\ c \in StreamsOf(Samples) /\ c.layout = s.layout /\ c.count = s.count /\ c.kept = h
      /\ c.stride = 2 * d /\ c.pending = s.pending /\ c.last = s.last
  BY <1>1, <1>3, <1>4, <1>5, StreamParts, StreamMade
<1>7. n \in Nat /\ m \in Nat
  BY <1>2, <1>3
<1>8. m = (n + 1) \div 2 /\ \A k \in 1..m : h[k] = q[2 * k - 1]
  BY <1>3 DEF HalfOf
<1> HIDE DEF m
<1>9. m <= n /\ (n > 1 => m < n) /\ (n > 0 => m > 0) /\ n <= 2 * m /\ 2 * m <= n + 1
  <2> HIDE DEF n
  <2> QED
    BY <1>7, <1>8
<1>10. Len(c.kept) <= MaxStored
  <2>1. n <= MaxStored
    BY DEF Grid
  <2>2. Len(c.kept) = m
    BY <1>6 DEF m
  <2> HIDE DEF n
  <2> QED
    BY <1>7, <1>9, <2>1, <2>2, Limits
<1>11. Numeric(c) <=> Numeric(s)
  BY <1>6 DEF Numeric
<1>12. ASSUME Numeric(s) PROVE OnGrid(c)
  <2>1. OnGrid(s)
    BY <1>12 DEF Grid
  <2>2. ASSUME NEW k \in 1..m PROVE h[k].i = (k - 1) * (2 * d)
    <3>1. 2 * k - 1 \in 1..n
      <4> HIDE DEF n
      <4> QED
        BY <1>7, <1>9
    <3>2. h[k].i = (2 * k - 1 - 1) * d
      BY <1>8, <2>1, <3>1 DEF OnGrid
    <3>3. (2 * k - 1 - 1) * d = (k - 1) * (2 * d)
      BY <1>2, <1>7
    <3> QED
      BY <3>2, <3>3
  <2>3. s.count <= m * (2 * d)
    <3>1. s.count <= n * d
      BY <2>1 DEF OnGrid
    <3>2. n * d <= (2 * m) * d
      <4> HIDE DEF n, d
      <4> QED
        BY <1>2, <1>7, <1>9
    <3>3. (2 * m) * d = m * (2 * d)
      BY <1>2, <1>7
    <3>4. n * d \in Nat /\ (2 * m) * d \in Nat
      <4> HIDE DEF n, d
      <4> QED
        BY <1>2, <1>7, ProductInNat
    <3> QED
      BY <1>2, <3>1, <3>2, <3>3, <3>4
  <2>4. n > 0 => (m - 1) * (2 * d) <= (n - 1) * d /\ (m - 1) * (2 * d) \in Nat /\ (n - 1) * d \in Nat
    <3> HIDE DEF n, d
    <3> SUFFICES ASSUME n > 0
                 PROVE  (m - 1) * (2 * d) <= (n - 1) * d /\ (m - 1) * (2 * d) \in Nat /\ (n - 1) * d \in Nat
      OBVIOUS
    <3>1. m - 1 \in Nat /\ n - 1 \in Nat /\ 2 * (m - 1) <= n - 1 /\ 2 * (m - 1) \in Nat
      BY <1>7, <1>9
    <3>2. (2 * (m - 1)) * d <= (n - 1) * d
      <4> DEFINE u == 2 * (m - 1)
                 v == n - 1
      <4>1. u \in Nat /\ v \in Nat /\ u <= v
        BY <3>1
      <4> HIDE DEF u, v
      <4>2. u * d <= v * d
        BY <1>2, <4>1
      <4> QED
        BY <4>2 DEF u, v
    <3>3. (2 * (m - 1)) * d = (m - 1) * (2 * d)
      BY <1>2, <1>7
    <3>4. (2 * (m - 1)) * d \in Nat /\ (n - 1) * d \in Nat
      BY <1>2, <3>1, ProductInNat
    <3> QED
      BY <3>2, <3>3, <3>4
  <2>5. m > 0 => (m - 1) * (2 * d) < s.count
    <3> SUFFICES ASSUME m > 0 PROVE (m - 1) * (2 * d) < s.count
      OBVIOUS
    <3>1. n > 0
      <4> HIDE DEF n
      <4> QED BY <1>7, <1>9
    <3>2. (n - 1) * d < s.count
      BY <2>1, <3>1 DEF OnGrid
    <3> QED
      BY <1>2, <2>4, <3>1, <3>2
  <2>6. s.pending = <<>> \/ /\ Len(s.pending) = 1 /\ m > 0 /\ m < MaxStored
                            /\ s.pending[1].i = s.count - 1
                            /\ (m - 1) * (2 * d) < s.count - 1
    <3> SUFFICES ASSUME s.pending # <<>>
                 PROVE  /\ Len(s.pending) = 1 /\ m > 0 /\ m < MaxStored
                        /\ s.pending[1].i = s.count - 1
                        /\ (m - 1) * (2 * d) < s.count - 1
      OBVIOUS
    <3>1. /\ Len(s.pending) = 1 /\ n > 0 /\ n < MaxStored /\ s.pending[1].i = s.count - 1
          /\ (n - 1) * d < s.count - 1
      BY <2>1 DEF OnGrid
    <3>2. m > 0 /\ m < MaxStored
      <4>1. n > 0 /\ n < MaxStored
        BY <3>1
      <4> HIDE DEF n
      <4> QED
        BY <1>7, <1>9, <4>1, Limits
    <3>3. (m - 1) * (2 * d) < s.count - 1
      <4>1. n > 0 /\ (n - 1) * d < s.count - 1
        BY <3>1
      <4> QED
        BY <1>2, <2>4, <4>1
    <3> QED
      BY <3>1, <3>2, <3>3
  <2>7. OnGrid([layout |-> s.layout, count |-> s.count, kept |-> h, stride |-> 2 * d,
                pending |-> s.pending, last |-> s.last])
    BY <2>2, <2>3, <2>5, <2>6 DEF OnGrid, m
  <2> QED
    BY <1>4, <2>7
<1>13. ASSUME ~Numeric(s) PROVE c.kept = <<>> /\ c.pending = <<>>
  <2>1. q = <<>> /\ s.pending = <<>>
    BY <1>13 DEF Grid
  <2>2. m = 0
    <3>1. n = 0
      BY <2>1
    <3> HIDE DEF n
    <3> QED
      BY <1>7, <1>9, <3>1
  <2>3. h = <<>>
    BY <1>3, <2>2 DEF m
  <2> QED
    BY <1>6, <2>1, <2>3
<1>14. Grid(c)
  BY <1>6, <1>10, <1>11, <1>12, <1>13, Zenon DEF Grid
<1>15. n > 1 => Len(c.kept) < n
  BY <1>6, <1>9 DEF m
<1> QED
  BY <1>6, <1>14, <1>15 DEF c

\* A stream without samples is on the grid.
LEMMA NewStreamIsGrid == Grid(NewStream)
<1> DEFINE s == NewStream
<1>1. s = [layout |-> NoLayout, count |-> 0, kept |-> <<>>, stride |-> 1, pending |-> <<>>, last |-> 0]
  BY DEF NewStream
<1>2. <<>> \in Seq(Samples)
  OBVIOUS
<1> HIDE DEF s
<1>3. NoLayout \in Layouts \cup {NoLayout}
  OBVIOUS
<1>4. s \in StreamsOf(Samples)
  BY <1>1, <1>2, <1>3 DEF StreamsOf
<1>5. Len(s.kept) <= MaxStored
  BY <1>1, Limits
<1>6. OnGrid(s)
  BY <1>1 DEF OnGrid
<1>7. s.kept = <<>> /\ s.pending = <<>> /\ s.count = 0
  BY <1>1
<1>8. Grid(s)
  BY <1>4, <1>5, <1>6, <1>7, Zenon DEF Grid
<1> QED
  BY <1>8 DEF s

\* A stream without samples may be given any layout.
LEMMA HeaderIsGrid ==
  ASSUME NEW s, Grid(s), s.layout = NoLayout, NEW layout \in Layouts
  PROVE  Grid([s EXCEPT !.layout = layout])
<1> DEFINE c == [s EXCEPT !.layout = layout]
<1>1. s \in StreamsOf(Samples) /\ s.count = 0
  BY DEF Grid
<1>2. c = [layout |-> layout, count |-> s.count, kept |-> s.kept, stride |-> s.stride,
           pending |-> s.pending, last |-> s.last]
  BY <1>1, StreamReplaced
<1> HIDE DEF c
<1>3. /\ c \in StreamsOf(Samples) /\ c.count = 0 /\ c.kept = s.kept /\ c.stride = s.stride
      /\ c.pending = s.pending
  BY <1>1, <1>2, StreamParts, StreamMade
<1>4. Numeric(s)
  BY DEF Numeric, NoLayout
<1>5. OnGrid(s)
  BY <1>4 DEF Grid
<1>6. OnGrid(c)
  BY <1>1, <1>3, <1>5 DEF OnGrid
<1>7. c.kept = <<>> /\ c.pending = <<>>
  <2> DEFINE n == Len(s.kept)
             d == s.stride
  <2>1. n \in Nat /\ d \in Nat \ {0} /\ s.kept \in Seq(Samples)
    BY <1>1, StreamParts
  <2>2. n > 0 => (n - 1) * d < 0
    BY <1>1, <1>5 DEF OnGrid
  <2>3. n > 0 => (n - 1) * d \in Nat
    <3> HIDE DEF n, d
    <3> SUFFICES ASSUME n > 0 PROVE (n - 1) * d \in Nat
      OBVIOUS
    <3>1. n - 1 \in Nat
      BY <2>1
    <3> QED
      BY <2>1, <3>1, ProductInNat
  <2>4. n = 0
    <3> DEFINE p == (n - 1) * d
    <3>1. n > 0 => p \in Nat /\ p < 0
      BY <2>2, <2>3
    <3> HIDE DEF p, n
    <3> QED
      BY <2>1, <3>1
  <2>5. s.kept = <<>>
    BY <2>1, <2>4
  <2>6. s.pending = <<>>
    BY <1>5, <2>4 DEF OnGrid
  <2> QED
    BY <1>3, <2>5, <2>6
<1>8. Len(c.kept) <= MaxStored
  BY <1>3 DEF Grid
<1>9. Grid(c)
  BY <1>3, <1>6, <1>7, <1>8, Zenon DEF Grid
<1> QED
  BY <1>9 DEF c

\* Counting a sample of a text stream keeps nothing.
LEMMA TextIsGrid ==
  ASSUME NEW s, Grid(s), s.layout # NoLayout, ~Numeric(s)
  PROVE  Grid(CountSample(s))
<1> DEFINE c == [s EXCEPT !.count = s.count + 1]
<1>1. s \in StreamsOf(Samples) /\ s.kept = <<>> /\ s.pending = <<>>
  BY DEF Grid
<1>2. c = [layout |-> s.layout, count |-> s.count + 1, kept |-> s.kept, stride |-> s.stride,
           pending |-> s.pending, last |-> s.last]
  BY <1>1, StreamReplaced
<1>3. s.count + 1 \in Nat
  BY <1>1, StreamParts
<1> HIDE DEF c
<1>4. /\ c \in StreamsOf(Samples) /\ c.kept = <<>> /\ c.pending = <<>>
      /\ c.layout = s.layout
  BY <1>1, <1>2, <1>3, StreamParts, StreamMade
<1>5. Len(c.kept) <= MaxStored
  BY <1>4, Limits
<1>6. ~Numeric(c)
  BY <1>4 DEF Numeric
<1>7. Grid(c)
  BY <1>4, <1>5, <1>6, Zenon DEF Grid
<1> QED
  BY <1>7 DEF c, CountSample

\* A sample that is due is kept, and any other one pends.
LEMMA StoredIsGrid ==
  ASSUME NEW s, Grid(s), s.layout # NoLayout, Numeric(s), NEW time \in Int
  PROVE  Grid(StoreSample(s, time))
<1> DEFINE room == IF Len(s.kept) >= MaxStored THEN CompactSamples(s, FALSE) ELSE s
           sample == [i |-> s.count, raw |-> time, t |-> time]
           due == s.count % room.stride = 0
           kept == IF due THEN Append(room.kept, sample) ELSE room.kept
           pending == IF due THEN <<>> ELSE <<sample>>
           next == room.count + 1
           c == StoreSample(s, time)
<1>1. c = [room EXCEPT !.count = next, !.last = time, !.kept = kept, !.pending = pending]
  BY DEF StoreSample
<1>2. /\ Grid(room) /\ room.layout = s.layout /\ room.count = s.count
      /\ Len(room.kept) < MaxStored
  <2>1. s \in StreamsOf(Samples) /\ Len(s.kept) <= MaxStored
    BY DEF Grid
  <2>2. Len(s.kept) \in Nat
    BY <2>1, StreamParts
  <2>3. CASE Len(s.kept) >= MaxStored
    <3>1. Len(s.kept) > 1 /\ Len(s.kept) = MaxStored
      BY <2>1, <2>2, <2>3, Limits
    <3>2. room = CompactSamples(s, FALSE)
      BY <2>3
    <3>3. /\ Grid(CompactSamples(s, FALSE)) /\ CompactSamples(s, FALSE).layout = s.layout
          /\ CompactSamples(s, FALSE).count = s.count
          /\ Len(CompactSamples(s, FALSE).kept) < Len(s.kept)
      BY <3>1, CompactGrid
    <3> QED
      BY <3>1, <3>2, <3>3
  <2>4. CASE ~(Len(s.kept) >= MaxStored)
    <3>1. room = s
      BY <2>4
    <3>2. Len(s.kept) < MaxStored
      BY <2>2, <2>4, Limits
    <3> QED
      BY <3>1, <3>2
  <2> QED
    BY <2>3, <2>4
<1> HIDE DEF next
<1>16. next = room.count + 1
  BY DEF next
<1> HIDE DEF room, c
<1>3. room \in StreamsOf(Samples)
  BY <1>2 DEF Grid
<1> DEFINE n == Len(room.kept)
           d == room.stride
           x == room.count
<1>4. /\ room.kept \in Seq(Samples) /\ n \in Nat /\ d \in Nat \ {0} /\ x \in Nat
      /\ room.pending \in Seq(Samples)
  BY <1>3, StreamParts
<1>5. sample \in Samples /\ sample.i = x
  BY <1>2, <1>4 DEF Samples
<1> HIDE DEF sample
<1>6. kept \in Seq(Samples) /\ pending \in Seq(Samples) /\ x + 1 \in Nat
  BY <1>4, <1>5
<1>7. due <=> x % d = 0
  BY <1>2
<1> HIDE DEF kept, pending, due
<1>8. c = [layout |-> room.layout, count |-> next, kept |-> kept, stride |-> d,
           pending |-> pending, last |-> time]
  <2> DEFINE a == [room EXCEPT !.count = next]
             b == [a EXCEPT !.last = time]
             e == [b EXCEPT !.kept = kept]
             f == [e EXCEPT !.pending = pending]
  <2>1. a = [layout |-> room.layout, count |-> next, kept |-> room.kept, stride |-> d,
             pending |-> room.pending, last |-> room.last]
    BY <1>3, StreamReplaced
  <2>2. c = f
    BY <1>1
  <2> HIDE DEF a
  <2>3. b = [layout |-> room.layout, count |-> next, kept |-> room.kept, stride |-> d,
             pending |-> room.pending, last |-> time]
    BY <2>1
  <2> HIDE DEF b
  <2>4. e = [layout |-> room.layout, count |-> next, kept |-> kept, stride |-> d,
             pending |-> room.pending, last |-> time]
    BY <2>3
  <2> HIDE DEF e
  <2>5. f = [layout |-> room.layout, count |-> next, kept |-> kept, stride |-> d,
             pending |-> pending, last |-> time]
    BY <2>4
  <2> HIDE DEF f
  <2> QED
    BY <2>2, <2>5
<1>9. /\ c \in StreamsOf(Samples) /\ c.layout = s.layout /\ c.count = x + 1 /\ c.kept = kept
      /\ c.stride = d /\ c.pending = pending
  <2>1. room.layout \in Layouts \cup {NoLayout}
    BY <1>3, StreamParts
  <2>2. c \in StreamsOf(Samples)
    BY <1>4, <1>6, <1>16, <1>8, <2>1 DEF StreamsOf
  <2>3. c.layout = room.layout
    BY <1>8
  <2> QED
    BY <1>2, <1>8, <1>16, <2>2, <2>3
<1>10. OnGrid(room)
  <2>1. Numeric(room)
    BY <1>2 DEF Numeric
  <2> QED
    BY <1>2, <2>1 DEF Grid
<1>11. /\ \A k \in 1..n : room.kept[k].i = (k - 1) * d
       /\ x <= n * d
       /\ n > 0 => (n - 1) * d < x
  BY <1>10 DEF OnGrid
<1>12. n < MaxStored
  BY <1>2
<1>13. n * d \in Nat
  BY <1>4, ProductInNat
<1>14. CASE due
  <2>1. kept = Append(room.kept, sample) /\ pending = <<>>
    BY <1>14 DEF kept, pending
  <2>2. x = n * d
    <3> HIDE DEF n, d, x
    <3> QED
      BY <1>4, <1>7, <1>11, <1>14, OnlyMultiple
  <2>3. /\ Len(kept) = n + 1 /\ kept[n + 1] = sample
        /\ \A k \in 1..n : kept[k] = room.kept[k]
    BY <1>4, <2>1
  <2> DEFINE m == n + 1
  <2>4. m \in Nat /\ m > 0 /\ m <= MaxStored /\ m - 1 = n
    <3> HIDE DEF n
    <3> QED
      BY <1>4, <1>12, Limits
  <2>5. ASSUME NEW k \in 1..m PROVE kept[k].i = (k - 1) * d
    <3>1. CASE k = m
      BY <1>5, <2>2, <2>3, <2>4, <3>1
    <3>2. CASE k # m
      <4>1. k \in 1..n
        <5> HIDE DEF n
        <5> QED BY <1>4, <3>2
      <4> QED
        BY <1>11, <2>3, <4>1
    <3> QED
      BY <3>1, <3>2
  <2>6. x + 1 <= m * d
    <3>1. m * d = n * d + d
      <4> HIDE DEF n, d
      <4> QED
        BY <1>4
    <3> DEFINE p == n * d
    <3>2. p \in Nat /\ x = p /\ m * d = p + d
      BY <1>13, <2>2, <3>1
    <3> HIDE DEF p, m, d
    <3> QED
      BY <1>4, <3>2
  <2>7. (m - 1) * d < x + 1
    BY <1>4, <2>2, <2>4
  <2>8. Len(c.kept) = m /\ c.stride = d /\ c.count = x + 1 /\ c.pending = <<>> /\ c.kept = kept
    BY <1>9, <2>1, <2>3
  <2> HIDE DEF m, x, d
  <2>9. OnGrid(c)
    BY <2>5, <2>6, <2>7, <2>8 DEF OnGrid
  <2>10. Len(c.kept) <= MaxStored
    BY <2>4, <2>8
  <2>11. Numeric(c) /\ c.layout # NoLayout
    BY <1>9 DEF Numeric
  <2>12. Grid(c)
    BY <1>9, <2>9, <2>10, <2>11, Zenon DEF Grid
  <2> QED
    BY <2>12 DEF c
<1>15. CASE ~due
  <2>1. kept = room.kept /\ pending = <<sample>>
    BY <1>15 DEF kept, pending
  <2>2. x # n * d /\ n > 0
    <3>1. (n * d) % d = 0 /\ (0 * d) % d = 0 /\ 0 * d = 0
      <4> HIDE DEF n, d
      <4>1. (n * d) % d = 0
        BY <1>4, MultipleIs
      <4>2. (0 * d) % d = 0
        BY <1>4, MultipleIs
      <4>3. 0 * d = 0
        BY <1>4
      <4> QED
        BY <4>1, <4>2, <4>3
    <3>2. x # n * d /\ x # 0
      BY <1>7, <1>15, <3>1
    <3> DEFINE p == n * d
    <3>3. n = 0 => x <= 0
      BY <1>11, <3>1
    <3> QED
      BY <1>4, <3>2, <3>3
  <2>3. x + 1 <= n * d
    <3> DEFINE p == n * d
    <3>1. p \in Nat /\ x <= p /\ x # p
      BY <1>11, <1>13, <2>2
    <3> HIDE DEF p
    <3>2. x + 1 <= p
      BY <1>4, <3>1
    <3> QED
      BY <3>2 DEF p
  <2>4. (n - 1) * d < x /\ (n - 1) * d \in Nat
    <3>1. n - 1 \in Nat
      <4> HIDE DEF n
      <4> QED BY <1>4, <2>2
    <3> QED
      BY <1>4, <1>11, <2>2, <3>1, ProductInNat
  <2>5. (n - 1) * d < x + 1 /\ x + 1 - 1 = x
    <3> DEFINE p == (n - 1) * d
    <3>1. p \in Nat /\ p < x
      BY <2>4
    <3> HIDE DEF p
    <3>2. p < x + 1 /\ x + 1 - 1 = x
      BY <1>4, <3>1
    <3> QED
      BY <3>2 DEF p
  <2>6. Len(pending) = 1 /\ pending[1].i = x
    BY <1>5, <2>1
  <2>7. /\ Len(c.kept) = n /\ c.stride = d /\ c.count = x + 1 /\ c.pending = pending
        /\ c.kept = room.kept
    BY <1>9, <2>1
  <2> HIDE DEF x, d, n
  <2>8. OnGrid(c)
    <3>1. \A k \in 1..n : c.kept[k].i = (k - 1) * c.stride
      BY <1>11, <2>7
    <3>2. c.count <= n * c.stride /\ (n - 1) * c.stride < c.count
      BY <2>3, <2>5, <2>7
    <3>3. Len(c.pending) = 1 /\ c.pending[1].i = c.count - 1 /\ (n - 1) * c.stride < c.count - 1
      <4>1. c.count - 1 = x
        BY <1>4, <2>5, <2>7
      <4>2. (n - 1) * c.stride < x
        <5>1. c.stride = d
          BY <2>7
        <5>2. (n - 1) * d < x
          BY <2>4
        <5> QED
          BY <5>1, <5>2
      <4>3. Len(c.pending) = 1 /\ c.pending[1].i = x
        BY <2>6, <2>7
      <4> QED
        BY <4>1, <4>2, <4>3, Zenon
    <3>4. n > 0 /\ n < MaxStored /\ Len(c.kept) = n
      BY <1>12, <2>2, <2>7
    <3> QED
      BY <3>1, <3>2, <3>3, <3>4, Zenon DEF OnGrid
  <2>9. Len(c.kept) <= MaxStored
    <3>1. n <= MaxStored
      <4>1. n \in Nat /\ n < MaxStored
        BY <1>4, <1>12
      <4> QED BY <4>1, Limits
    <3> QED BY <2>7, <3>1
  <2>10. Numeric(c) /\ c.layout # NoLayout
    BY <1>9 DEF Numeric
  <2>11. Grid(c)
    BY <1>9, <2>8, <2>9, <2>10, Zenon DEF Grid
  <2> QED
    BY <2>11 DEF c
<1> QED
  BY <1>14, <1>15

(***************************************************************************)
(* The memory budget: what halving a stream keeps, enforceIndexMemoryBudget *)
(* keeps for all streams.                                                   *)
(***************************************************************************)
\* The passes, one after the other, and what halving keeps for one stream.
LEMMA EnforcedPasses ==
  ASSUME NEW S, NEW all, all \in [Streams -> S], NEW keepLast \in BOOLEAN,
         \A s \in S : CompactSamples(s, keepLast) \in S
  PROVE  \E pass :
           /\ pass[0] = all
           /\ EnforceBudget(all, keepLast) = pass[Cardinality(Streams) * MaxStored]
           /\ \A n \in Nat : /\ pass[n] \in [Streams -> S]
                             /\ pass[n + 1] = Reduced(pass[n], keepLast)
<1> DEFINE F == [Streams -> S]
           IsPass(f) == f = [n \in Nat |-> IF n = 0 THEN all ELSE Reduced(f[n - 1], keepLast)]
           pass == CHOOSE f : IsPass(f)
<1>1. ASSUME NEW a \in F PROVE Reduced(a, keepLast) \in F
  <2> DEFINE h == Heaviest(a)
             b == [a EXCEPT ![h] = CompactSamples(@, keepLast)]
  <2>1. b \in F
    <3> HIDE DEF h
    <3>1. ASSUME NEW s \in Streams PROVE b[s] \in S
      <4>1. a[s] \in S
        OBVIOUS
      <4>2. b[s] = a[s] \/ b[s] = CompactSamples(a[s], keepLast)
        OBVIOUS
      <4> QED
        BY <4>1, <4>2
    <3>2. b = [s \in Streams |-> b[s]]
      OBVIOUS
    <3> HIDE DEF b
    <3> QED
      BY <3>1, <3>2
  <2>2. Reduced(a, keepLast) = b \/ Reduced(a, keepLast) = a
    BY DEF Reduced
  <2> HIDE DEF b, F
  <2> QED
    BY <2>1, <2>2
<1>2. all \in F
  OBVIOUS
<1> HIDE DEF F
<1>3. \E f : IsPass(f)
  <2> DEFINE step == [z \in Nat \X F |-> Reduced(z[2], keepLast)]
  <2>1. step \in StepsOf(F)
    BY <1>1 DEF StepsOf
  <2>2. PICK f : Runs(f, F, all, step)
    <3> HIDE DEF step
    <3> QED
      BY <1>2, <2>1, Recursion
  <2>3. \A n \in Nat : f[n + 1] = Reduced(f[n], keepLast)
    BY <2>2 DEF Runs
  <2>4. ASSUME NEW n \in Nat PROVE f[n] = IF n = 0 THEN all ELSE Reduced(f[n - 1], keepLast)
    <3>1. CASE n = 0
      BY <2>2, <3>1 DEF Runs
    <3>2. CASE n # 0
      <4>1. n - 1 \in Nat /\ n - 1 + 1 = n
        BY <3>2
      <4>2. f[n] = Reduced(f[n - 1], keepLast)
        BY <2>3, <4>1
      <4> QED
        BY <3>2, <4>2
    <3> QED
      BY <3>1, <3>2
  <2>5. IsPass(f)
    BY <2>2, <2>4 DEF Runs
  <2> QED
    BY <2>5
<1>4. IsPass(pass)
  <2> HIDE DEF IsPass
  <2> QED
    BY <1>3, Zenon
<1>5. EnforceBudget(all, keepLast) = pass[Cardinality(Streams) * MaxStored]
  <2>1. EnforceBudget(all, keepLast) = pass[Cardinality(DOMAIN all) * MaxStored]
    BY DEF EnforceBudget
  <2>2. DOMAIN all = Streams
    OBVIOUS
  <2> QED
    BY <2>1, <2>2
<1> HIDE DEF pass
<1>6. pass[0] = all /\ \A n \in Nat : pass[n + 1] = Reduced(pass[n], keepLast)
  BY <1>4
<1>7. \A n \in Nat : pass[n] \in F
  <2>1. pass[0] \in F /\ \A n \in Nat : pass[n] \in F => pass[n + 1] \in F
    BY <1>1, <1>2, <1>6
  <2> QED
    BY <2>1, StaysIn
<1> QED
  BY <1>5, <1>6, <1>7 DEF F

\* What halving keeps for one stream, the budget keeps for all of them.
LEMMA Enforced ==
  ASSUME NEW S, NEW all, all \in [Streams -> S], NEW keepLast \in BOOLEAN,
         \A s \in S : CompactSamples(s, keepLast) \in S
  PROVE  EnforceBudget(all, keepLast) \in [Streams -> S]
<1>1. Cardinality(Streams) * MaxStored \in Nat
  <2>1. Cardinality(Streams) \in Nat
    BY RecordingsAssumption, FS_CardinalityType
  <2> QED
    BY <2>1, Limits, ProductInNat
<1> QED
  BY <1>1, EnforcedPasses

GridStreams == {s \in StreamsOf(Samples) : Grid(s)}

\* The budget keeps the streams on their grids while the chunks are read.
LEMMA EnforcedGrid ==
  ASSUME NEW all \in [Streams -> GridStreams]
  PROVE  EnforceBudget(all, FALSE) \in [Streams -> GridStreams]
<1>1. \A s \in GridStreams : CompactSamples(s, FALSE) \in GridStreams
  <2> SUFFICES ASSUME NEW s \in GridStreams PROVE CompactSamples(s, FALSE) \in GridStreams
    OBVIOUS
  <2>1. Grid(CompactSamples(s, FALSE))
    BY CompactGrid DEF GridStreams
  <2> QED
    BY <2>1 DEF GridStreams, Grid
<1> QED
  BY <1>1, Enforced

(***************************************************************************)
(* The end of the chunks.  The sample pending is added, so that the list is *)
(* even, and the times are corrected and repaired.                          *)
(***************************************************************************)
Up(q) ==
    \A k \in 2..Len(q) : /\ q[k].t - q[k - 1].t >= 1
                         /\ q[k].t - q[k - 1].t >= q[k].raw - q[k - 1].raw

FromStart(s) ==
    Numeric(s) => /\ Even(s.kept, s.stride)
                  /\ s.count > 0 => s.kept # <<>> /\ s.kept[1].i = 0

Indexed(s) ==
    /\ s \in StreamsOf(Samples) /\ Len(s.kept) <= MaxStored
    /\ FromStart(s)
    /\ Up(s.kept)

\* Neighbours on the grid are the stride apart.
LEMMA GridIsEven ==
  ASSUME NEW s, Grid(s), Numeric(s)
  PROVE  /\ Even(s.kept, s.stride)
         /\ s.count > 0 => s.kept # <<>> /\ s.kept[1].i = 0
<1> DEFINE q == s.kept
           n == Len(q)
           d == s.stride
<1>1. s \in StreamsOf(Samples) /\ OnGrid(s)
  BY DEF Grid
<1>2. q \in Seq(Samples) /\ n \in Nat /\ d \in Nat \ {0} /\ s.count \in Nat
  BY <1>1, StreamParts
<1>3. \A k \in 1..n : q[k].i = (k - 1) * d
  BY <1>1 DEF OnGrid
<1>4. ASSUME NEW k \in 2..n PROVE q[k].i - q[k - 1].i \in 1..d
  <2>1. k \in 1..n /\ k - 1 \in 1..n /\ k \in Nat
    <3> HIDE DEF n
    <3> QED BY <1>2
  <2>2. q[k].i = (k - 1) * d /\ q[k - 1].i = (k - 1 - 1) * d
    BY <1>3, <2>1
  <2>3. (k - 1) * d - (k - 1 - 1) * d = d
    <3> HIDE DEF d
    <3> QED BY <1>2, <2>1
  <2>4. d \in 1..d
    <3> HIDE DEF d
    <3> QED BY <1>2
  <2> QED
    BY <2>2, <2>3, <2>4
<1>5. ASSUME s.count > 0 PROVE q # <<>> /\ q[1].i = 0
  <2>1. s.count <= n * d
    BY <1>1 DEF OnGrid
  <2>2. n # 0
    <3> HIDE DEF n, d
    <3>1. n = 0 => n * d = 0
      BY <1>2
    <3> QED
      BY <1>2, <1>5, <2>1, <3>1
  <2>3. 1 \in 1..n
    <3> HIDE DEF n
    <3> QED BY <1>2, <2>2
  <2>4. q[1].i = (1 - 1) * d
    BY <1>3, <2>3
  <2>5. (1 - 1) * d = 0
    BY <1>2
  <2> QED
    BY <2>2, <2>4, <2>5
<1> QED
  BY <1>4, <1>5 DEF Even

\* With the sample that was pending the list is still even (retainFinalSample).
LEMMA FinalIsEven ==
  ASSUME NEW s, Grid(s)
  PROVE  LET whole == RetainFinalSample(s)
         IN  /\ whole \in StreamsOf(Samples) /\ Len(whole.kept) <= MaxStored
             /\ whole.layout = s.layout /\ FromStart(whole)
<1> DEFINE q == s.kept
           n == Len(q)
           d == s.stride
           x == s.count
           whole == RetainFinalSample(s)
           kept == IF s.pending = <<>> THEN q
                   ELSE IF n >= MaxStored THEN Append(Front(q), s.pending[1])
                   ELSE q \o s.pending
<1>1. s \in StreamsOf(Samples) /\ n <= MaxStored
  BY DEF Grid
<1>2. /\ q \in Seq(Samples) /\ n \in Nat /\ d \in Nat \ {0} /\ x \in Nat
      /\ s.pending \in Seq(Samples)
  BY <1>1, StreamParts
<1>3. whole = [layout |-> s.layout, count |-> x, kept |-> kept, stride |-> d,
               pending |-> <<>>, last |-> s.last]
  <2> DEFINE a == [s EXCEPT !.pending = <<>>]
             b == [a EXCEPT !.kept = kept]
  <2>1. whole = b
    BY DEF RetainFinalSample
  <2> HIDE DEF whole, kept
  <2>2. a = [layout |-> s.layout, count |-> x, kept |-> q, stride |-> d,
             pending |-> <<>>, last |-> s.last]
    BY <1>1 DEF StreamsOf
  <2> HIDE DEF a
  <2>3. b = [layout |-> s.layout, count |-> x, kept |-> kept, stride |-> d,
             pending |-> <<>>, last |-> s.last]
    BY <2>2
  <2> QED
    BY <2>1, <2>3
<1>4. /\ kept \in Seq(Samples) /\ Len(kept) <= MaxStored
      /\ Numeric(s) => /\ Even(kept, d)
                       /\ x > 0 => kept # <<>> /\ kept[1].i = 0
  <2>1. CASE s.pending = <<>>
    <3>1. kept = q
      BY <2>1
    <3> HIDE DEF kept
    <3> QED
      BY <1>1, <1>2, <3>1, GridIsEven
  <2>2. CASE s.pending # <<>>
    <3> DEFINE f == s.pending[1]
    <3>1. Numeric(s) /\ OnGrid(s)
      BY <2>2 DEF Grid
    <3>2. Len(s.pending) = 1 /\ n > 0 /\ n < MaxStored /\ f.i = x - 1 /\ (n - 1) * d < x - 1
      BY <2>2, <3>1 DEF OnGrid
    <3>3. s.pending = <<f>> /\ f \in Samples
      BY <1>2, <3>2
    <3>4. kept = q \o s.pending
      <4>1. ~(n >= MaxStored)
        <5>1. n < MaxStored
          BY <3>2
        <5> HIDE DEF n
        <5> QED BY <1>2, <5>1, Limits
      <4> QED
        BY <2>2, <4>1
    <3>5. s.pending \in Seq(Samples) /\ Len(s.pending) = 1
      BY <1>2, <3>2
    <3> HIDE DEF kept, f
    <3>6. /\ kept \in Seq(Samples) /\ Len(kept) = n + 1 /\ kept[n + 1] = f
          /\ \A k \in 1..n : kept[k] = q[k]
      BY <1>2, <3>3, <3>4
    <3>7. Even(q, d) /\ (x > 0 => q # <<>> /\ q[1].i = 0)
      BY <3>1, GridIsEven
    <3>8. \A k \in 1..n : q[k].i = (k - 1) * d
      BY <3>1 DEF OnGrid
    <3>9. x <= n * d /\ n * d \in Nat /\ (n - 1) * d \in Nat /\ n * d = (n - 1) * d + d
      <4>1. x <= n * d
        BY <3>1 DEF OnGrid
      <4>2. n \in Nat /\ n - 1 \in Nat /\ d \in Nat
        <5>1. n > 0
          BY <3>2
        <5> HIDE DEF n
        <5> QED BY <1>2, <5>1
      <4> HIDE DEF n, d
      <4>3. n * d = (n - 1) * d + d
        BY <4>2
      <4> QED
        BY <4>1, <4>2, <4>3, ProductInNat
    <3>10. f.i - (n - 1) * d \in 1..d
      <4> DEFINE u == (n - 1) * d
                 v == n * d
      <4>1. u \in Nat /\ v = u + d /\ x <= v /\ f.i = x - 1 /\ u < x - 1
        BY <3>2, <3>9
      <4> HIDE DEF u, v, x, d
      <4>2. f.i - u \in 1..d
        BY <1>2, <4>1
      <4> QED
        BY <4>2 DEF u
    <3>11. ASSUME NEW k \in 2..(n + 1) PROVE kept[k].i - kept[k - 1].i \in 1..d
      <4>1. CASE k = n + 1
        <5>1. k - 1 = n /\ n \in 1..n
          <6>1. n > 0
            BY <3>2
          <6> HIDE DEF n
          <6> QED BY <1>2, <4>1, <6>1
        <5>2. kept[k] = f /\ kept[k - 1] = q[n] /\ q[n].i = (n - 1) * d
          BY <3>6, <3>8, <4>1, <5>1
        <5> QED
          BY <3>10, <5>2
      <4>2. CASE k # n + 1
        <5>1. k \in 2..n /\ k \in 1..n /\ k - 1 \in 1..n
          <6> HIDE DEF n
          <6> QED BY <1>2, <4>2
        <5>2. kept[k] = q[k] /\ kept[k - 1] = q[k - 1]
          BY <3>6, <5>1
        <5> QED
          BY <3>7, <5>1, <5>2 DEF Even
      <4> QED
        BY <4>1, <4>2
    <3>12. n + 1 <= MaxStored /\ 1 \in 1..n /\ n + 1 # 0
      <4>1. n > 0 /\ n < MaxStored
        BY <3>2
      <4> HIDE DEF n
      <4> QED BY <1>2, <4>1, Limits
    <3>13. Even(kept, d) /\ Len(kept) <= MaxStored
      BY <3>6, <3>11, <3>12 DEF Even
    <3>14. x > 0 => kept # <<>> /\ kept[1].i = 0
      BY <3>6, <3>7, <3>12
    <3> QED
      BY <3>6, <3>13, <3>14
  <2> QED
    BY <2>1, <2>2
<1> HIDE DEF whole, kept
<1>5. /\ whole \in StreamsOf(Samples) /\ whole.layout = s.layout /\ whole.count = x
      /\ whole.kept = kept /\ whole.stride = d
  <2>1. s.layout \in Layouts \cup {NoLayout} /\ s.last \in Int /\ <<>> \in Seq(Samples)
    BY <1>1, StreamParts
  <2>2. whole \in StreamsOf(Samples)
    BY <1>2, <1>3, <1>4, <2>1 DEF StreamsOf
  <2> QED
    BY <1>3, <2>2
<1>6. Numeric(whole) <=> Numeric(s)
  BY <1>5 DEF Numeric
<1>7. FromStart(whole)
  BY <1>4, <1>5, <1>6, Zenon DEF FromStart
<1> QED
  BY <1>4, <1>5, <1>7 DEF whole

\* Correcting the times changes the raw ones only.
LEMMA CorrectedTimes ==
  ASSUME NEW q \in Seq(Samples), NEW stopped
  PROVE  LET c == CorrectTimes(q, stopped)
         IN  /\ c \in Seq(Samples) /\ Len(c) = Len(q)
             /\ \A k \in 1..Len(q) : c[k].i = q[k].i
<1> DEFINE n == Len(q)
           c == CorrectTimes(q, stopped)
           x(k) == IF stopped THEN [q[k] EXCEPT !.raw = q[1].raw] ELSE q[k]
<1>1. n \in Nat /\ \A k \in 1..n : q[k] \in Samples
  OBVIOUS
<1>2. c = [k \in 1..n |-> x(k)]
  BY DEF CorrectTimes
<1>3. ASSUME NEW k \in 1..n PROVE x(k) \in Samples /\ x(k).i = q[k].i
  <2> DEFINE s == q[k]
             a == q[1].raw
  <2>1. s \in Samples
    BY <1>1
  <2>2. a \in Int
    <3>1. 1 \in 1..n
      <4> HIDE DEF n
      <4> QED BY <1>1
    <3>2. q[1] \in Samples
      BY <1>1, <3>1
    <3> QED
      BY <3>2 DEF Samples
  <2> HIDE DEF s, a
  <2>3. [s EXCEPT !.raw = a] \in Samples /\ [s EXCEPT !.raw = a].i = s.i
    BY <2>1, <2>2 DEF Samples
  <2>4. x(k) = IF stopped THEN [s EXCEPT !.raw = a] ELSE s
    BY Zenon DEF s, a
  <2> HIDE DEF x
  <2>5. x(k) \in Samples /\ x(k).i = s.i
    BY <2>1, <2>3, <2>4
  <2> QED
    BY <2>5 DEF s
<1> HIDE DEF c, n, x
<1>4. c \in Seq(Samples) /\ Len(c) = n
  BY <1>1, <1>2, <1>3
<1>5. \A k \in 1..n : c[k].i = q[k].i
  BY <1>2, <1>3
<1> QED
  BY <1>4, <1>5 DEF c, n

\* A repaired time comes after the one before it, and by at least as much as it came before.
LEMMA RepairedTimes ==
  ASSUME NEW q \in Seq(Samples)
  PROVE  LET c == RepairTimes(q)
         IN  /\ c \in Seq(Samples) /\ Len(c) = Len(q)
             /\ \A k \in 1..Len(q) : c[k].i = q[k].i
             /\ Up(c)
<1> DEFINE n == Len(q)
           c == RepairTimes(q)
           Later(k, before) ==
               LET due == q[k].raw + (before - q[k - 1].raw)
               IN IF due <= before THEN before + 1 ELSE due
           IsTime(f) == f = [k \in 1..n |-> IF k = 1 THEN q[1].raw ELSE Later(k, f[k - 1])]
           time == CHOOSE f : IsTime(f)
<1>1. n \in Nat /\ \A k \in 1..n : q[k].raw \in Int /\ q[k].i \in Nat
  <2>1. n \in Nat /\ \A k \in 1..n : q[k] \in Samples
    OBVIOUS
  <2>2. \A s \in Samples : s.raw \in Int /\ s.i \in Nat
    BY DEF Samples
  <2> HIDE DEF n
  <2> QED
    BY <2>1, <2>2
<1>2. ASSUME NEW k \in 2..n, NEW before \in Int
      PROVE  /\ Later(k, before) \in Int
             /\ Later(k, before) - before >= 1
             /\ Later(k, before) - before >= q[k].raw - q[k - 1].raw
  <2> DEFINE a == q[k].raw
             b == q[k - 1].raw
  <2>1. a \in Int /\ b \in Int
    <3>1. k \in 1..n /\ k - 1 \in 1..n
      <4> HIDE DEF n
      <4> QED BY <1>1
    <3> QED
      BY <1>1, <3>1
  <2>2. Later(k, before) = IF a + (before - b) <= before THEN before + 1 ELSE a + (before - b)
    OBVIOUS
  <2> HIDE DEF a, b, Later
  <2>3. /\ Later(k, before) \in Int /\ Later(k, before) - before >= 1
        /\ Later(k, before) - before >= a - b
    BY <2>1, <2>2
  <2> QED
    BY <2>3 DEF a, b
<1>3. c = [k \in 1..n |-> [q[k] EXCEPT !.t = time[k]]]
  BY DEF RepairTimes
<1> HIDE DEF Later, c
<1>4. \E f : IsTime(f)
  <2> DEFINE first == IF n = 0 THEN 0 ELSE q[1].raw
             step == [z \in Nat \X Int |-> IF z[1] \in 1..(n - 1) THEN Later(z[1] + 1, z[2]) ELSE first]
  <2>1. first \in Int
    <3>1. CASE n = 0
      BY <3>1
    <3>2. CASE n # 0
      <4>1. 1 \in 1..n
        <5> HIDE DEF n
        <5> QED BY <1>1, <3>2
      <4> QED
        BY <1>1, <3>2, <4>1
    <3> QED
      BY <3>1, <3>2
  <2> HIDE DEF first, n
  <2>2. step \in StepsOf(Int)
    <3>1. ASSUME NEW z \in Nat \X Int
          PROVE  (IF z[1] \in 1..(n - 1) THEN Later(z[1] + 1, z[2]) ELSE first) \in Int
      <4>1. CASE z[1] \in 1..(n - 1)
        <5>1. z[1] + 1 \in 2..n /\ z[2] \in Int
          BY <1>1, <4>1
        <5> QED
          BY <1>2, <4>1, <5>1
      <4>2. CASE z[1] \notin 1..(n - 1)
        BY <2>1, <4>2
      <4> QED
        BY <4>1, <4>2
    <3> QED
      BY <3>1 DEF StepsOf
  <2>3. PICK g : Runs(g, Int, first, step)
    <3> HIDE DEF step
    <3> QED
      BY <2>1, <2>2, Recursion
  <2>4. g \in [Nat -> Int] /\ g[0] = first /\ \A k \in Nat : g[k + 1] = step[<<k, g[k]>>]
    BY <2>3 DEF Runs
  <2>5. n > 0 => g[1] = q[1].raw
    <3> SUFFICES ASSUME n > 0 PROVE g[1] = q[1].raw
      OBVIOUS
    <3>1. g[0 + 1] = step[<<0, g[0]>>]
      BY <2>4
    <3>2. step[<<0, g[0]>>] = first
      BY <2>4
    <3>3. first = q[1].raw
      BY <1>1 DEF first
    <3> QED
      BY <3>1, <3>2, <3>3
  <2>6. ASSUME NEW k \in 2..n PROVE g[k] = Later(k, g[k - 1])
    <3>1. k - 1 \in Nat /\ k - 1 + 1 = k /\ k - 1 \in 1..(n - 1)
      BY <1>1
    <3>2. g[k] = step[<<k - 1, g[k - 1]>>] /\ g[k - 1] \in Int
      BY <2>4, <3>1
    <3>3. step[<<k - 1, g[k - 1]>>] = Later(k - 1 + 1, g[k - 1])
      BY <3>1, <3>2
    <3> QED
      BY <3>1, <3>2, <3>3
  <2> DEFINE f == [k \in 1..n |-> g[k]]
  <2>7. ASSUME NEW k \in 1..n PROVE f[k] = IF k = 1 THEN q[1].raw ELSE Later(k, f[k - 1])
    <3>1. CASE k = 1
      <4>1. n > 0
        BY <1>1
      <4> QED
        BY <2>5, <3>1, <4>1
    <3>2. CASE k # 1
      <4>1. k \in 2..n /\ k - 1 \in 1..n
        BY <1>1, <3>2
      <4>2. f[k] = g[k] /\ f[k - 1] = g[k - 1]
        BY <4>1
      <4> QED
        BY <2>6, <3>2, <4>1, <4>2
    <3> QED
      BY <3>1, <3>2
  <2>8. f = [k \in 1..n |-> f[k]]
    OBVIOUS
  <2> HIDE DEF f
  <2>9. f = [k \in 1..n |-> IF k = 1 THEN q[1].raw ELSE Later(k, f[k - 1])]
    BY <2>7, <2>8
  <2> QED
    BY <2>9 DEF n
<1>5. IsTime(time)
  <2> HIDE DEF IsTime
  <2> QED
    BY <1>4, Zenon
<1> HIDE DEF time, n
<1>6. /\ n > 0 => time[1] = q[1].raw
      /\ \A k \in 2..n : time[k] = Later(k, time[k - 1])
  <2>1. ASSUME n > 0 PROVE time[1] = q[1].raw
    <3>1. 1 \in 1..n
      BY <1>1, <2>1
    <3> QED
      BY <1>5, <3>1 DEF n
  <2>2. ASSUME NEW k \in 2..n PROVE time[k] = Later(k, time[k - 1])
    <3>1. k \in 1..n /\ k # 1
      BY <1>1
    <3> QED
      BY <1>5, <3>1 DEF n
  <2> QED
    BY <2>1, <2>2
<1>7. \A k \in 1..n : time[k] \in Int
  <2> DEFINE Bad == {k \in Nat : k \in 1..n /\ time[k] \notin Int}
  <2> SUFFICES ASSUME Bad # {} PROVE FALSE
    BY <1>1
  <2>1. PICK k \in Bad : \A m \in Bad : k <= m
    BY LeastNumber
  <2>2. k \in 1..n /\ time[k] \notin Int
    OBVIOUS
  <2>3. k # 1
    BY <1>1, <1>6, <2>2
  <2>4. k \in 2..n /\ k - 1 \in 1..n /\ k - 1 \in Nat /\ k - 1 < k
    BY <1>1, <2>2, <2>3
  <2>5. time[k - 1] \in Int
    BY <2>1, <2>4
  <2> QED
    BY <1>2, <1>6, <2>2, <2>4, <2>5
<1>8. ASSUME NEW k \in 1..n
      PROVE  /\ c[k] \in Samples /\ c[k].i = q[k].i /\ c[k].raw = q[k].raw /\ c[k].t = time[k]
  <2> DEFINE s == q[k]
  <2>1. s \in Samples /\ time[k] \in Int
    BY <1>1, <1>7 DEF n
  <2>2. c[k] = [s EXCEPT !.t = time[k]]
    BY <1>3
  <2> HIDE DEF s
  <2>3. c[k] \in Samples /\ c[k].i = s.i /\ c[k].raw = s.raw /\ c[k].t = time[k]
    BY <2>1, <2>2 DEF Samples
  <2> QED
    BY <2>3 DEF s
<1>9. c \in Seq(Samples) /\ Len(c) = n
  <2>1. c = [k \in 1..n |-> c[k]]
    BY <1>3
  <2> QED
    BY <1>1, <1>8, <2>1
<1>10. Up(c)
  <2> SUFFICES ASSUME NEW k \in 2..n
               PROVE  /\ c[k].t - c[k - 1].t >= 1
                      /\ c[k].t - c[k - 1].t >= c[k].raw - c[k - 1].raw
    BY <1>9 DEF Up
  <2>1. k \in 1..n /\ k - 1 \in 1..n
    BY <1>1
  <2>2. time[k - 1] \in Int /\ time[k] = Later(k, time[k - 1])
    BY <1>6, <1>7, <2>1
  <2>3. time[k] - time[k - 1] >= 1 /\ time[k] - time[k - 1] >= q[k].raw - q[k - 1].raw
    BY <1>2, <2>2
  <2>4. /\ c[k].t = time[k] /\ c[k - 1].t = time[k - 1] /\ c[k].raw = q[k].raw
        /\ c[k - 1].raw = q[k - 1].raw
    BY <1>8, <2>1
  <2> QED
    BY <2>3, <2>4
<1>11. \A k \in 1..n : c[k].i = q[k].i
  BY <1>8
<1> QED
  BY <1>9, <1>10, <1>11 DEF c, n

\* What is on the grid when the chunks end, is indexed.
LEMMA FinalIsIndexed ==
  ASSUME NEW s, Grid(s), NEW stopped
  PROVE  LET whole == RetainFinalSample(s)
         IN  Indexed([whole EXCEPT !.kept = RepairTimes(CorrectTimes(@, stopped))])
<1> DEFINE whole == RetainFinalSample(s)
           q == whole.kept
           c == CorrectTimes(q, stopped)
           r == RepairTimes(c)
           f == [whole EXCEPT !.kept = r]
<1>1. /\ whole \in StreamsOf(Samples) /\ Len(q) <= MaxStored /\ FromStart(whole)
  BY FinalIsEven
<1> HIDE DEF whole
<1>2. q \in Seq(Samples) /\ Len(q) \in Nat
  BY <1>1, StreamParts
<1>3. c \in Seq(Samples) /\ Len(c) = Len(q) /\ \A k \in 1..Len(q) : c[k].i = q[k].i
  BY <1>2, CorrectedTimes
<1> HIDE DEF c
<1>4. /\ r \in Seq(Samples) /\ Len(r) = Len(c) /\ Up(r)
      /\ \A k \in 1..Len(c) : r[k].i = c[k].i
  BY <1>3, RepairedTimes
<1> HIDE DEF r
<1>5. f = [layout |-> whole.layout, count |-> whole.count, kept |-> r,
           stride |-> whole.stride, pending |-> whole.pending, last |-> whole.last]
  BY <1>1, StreamReplaced
<1> HIDE DEF f
<1>6. /\ f \in StreamsOf(Samples) /\ f.layout = whole.layout /\ f.count = whole.count
      /\ f.kept = r /\ f.stride = whole.stride
  BY <1>1, <1>4, <1>5, StreamParts, StreamMade
<1> DEFINE n == Len(q)
<1>7. n = Len(r) /\ \A k \in 1..n : r[k].i = q[k].i
  BY <1>3, <1>4
<1>8. FromStart(f)
  <2> SUFFICES ASSUME Numeric(f)
               PROVE  /\ Even(r, whole.stride)
                      /\ whole.count > 0 => r # <<>> /\ r[1].i = 0
    BY <1>6, Zenon DEF FromStart
  <2>1. Numeric(whole)
    BY <1>6 DEF Numeric
  <2>2. Even(q, whole.stride) /\ (whole.count > 0 => q # <<>> /\ q[1].i = 0)
    BY <1>1, <2>1, Zenon DEF FromStart
  <2>3. ASSUME NEW k \in 2..n PROVE r[k].i - r[k - 1].i \in 1..whole.stride
    <3>1. k \in 1..n /\ k - 1 \in 1..n
      <4> HIDE DEF n
      <4> QED BY <1>2 DEF n
    <3>2. q[k].i - q[k - 1].i \in 1..whole.stride
      BY <2>2 DEF Even
    <3>3. r[k].i = q[k].i /\ r[k - 1].i = q[k - 1].i
      BY <1>7, <3>1
    <3> QED
      BY <3>2, <3>3
  <2>4. Even(r, whole.stride)
    BY <1>7, <2>3 DEF Even
  <2>5. ASSUME whole.count > 0 PROVE r # <<>> /\ r[1].i = 0
    <3>1. 1 \in 1..n /\ q[1].i = 0
      BY <1>2, <2>2, <2>5
    <3>2. r[1].i = q[1].i
      BY <1>7, <3>1
    <3>3. Len(r) # 0
      BY <1>2, <1>7, <3>1
    <3> QED
      BY <1>4, <3>1, <3>2, <3>3
  <2> QED
    BY <2>4, <2>5
<1>9. Len(f.kept) <= MaxStored
  BY <1>1, <1>6, <1>7
<1>10. Indexed(f)
  BY <1>4, <1>6, <1>8, <1>9, Zenon DEF Indexed
<1> QED
  BY <1>10 DEF f, r, c, whole

\* So it is when the budget halves it, and the last sample stays.
LEMMA CompactIndexed ==
  ASSUME NEW s, Indexed(s)
  PROVE  Indexed(CompactSamples(s, TRUE))
<1> DEFINE q == s.kept
           n == Len(q)
           h == KeepEveryOther(q, TRUE)
           c == CompactSamples(s, TRUE)
           d == s.stride
<1>1. s \in StreamsOf(Samples) /\ n <= MaxStored /\ Up(q) /\ FromStart(s)
  BY DEF Indexed
<1>2. q \in Seq(Samples) /\ n \in Nat /\ d \in Nat \ {0}
  BY <1>1, StreamParts
<1>3. h \in Seq(Samples) /\ HalfOf(q, TRUE, h)
  BY <1>2, Halved
<1>4. \A f \in Samples : f.i \in Nat
  BY DEF Samples
<1>5. Even(q, d) => Even(h, 2 * d)
  BY <1>2, <1>4, HalfIsEven
<1>6. c = [layout |-> s.layout, count |-> s.count, kept |-> h, stride |-> 2 * d,
           pending |-> s.pending, last |-> s.last]
  BY <1>1, StreamThinned DEF CompactSamples
<1>7. 2 * d \in Nat \ {0}
  BY <1>2
<1> HIDE DEF h, c
<1>8. /\ c \in StreamsOf(Samples) /\ c.layout = s.layout /\ c.count = s.count /\ c.kept = h
      /\ c.stride = 2 * d
  BY <1>1, <1>3, <1>6, <1>7, StreamParts, StreamMade
<1>9. Len(h) <= n /\ (q # <<>> => h # <<>> /\ h[1] = q[1])
  BY <1>3, Zenon DEF HalfOf
<1>10. Len(c.kept) <= MaxStored
  <2>1. Len(h) \in Nat /\ n <= MaxStored /\ Len(h) <= n
    BY <1>1, <1>3, <1>9
  <2> HIDE DEF n
  <2> QED
    BY <1>2, <1>8, <2>1, Limits
<1>11. FromStart(c)
  <2> SUFFICES ASSUME Numeric(c)
               PROVE  /\ Even(h, 2 * d)
                      /\ s.count > 0 => h # <<>> /\ h[1].i = 0
    BY <1>8, Zenon DEF FromStart
  <2>1. Numeric(s)
    BY <1>8 DEF Numeric
  <2>2. Even(q, d) /\ (s.count > 0 => q # <<>> /\ q[1].i = 0)
    BY <1>1, <2>1, Zenon DEF FromStart
  <2> QED
    BY <1>5, <1>9, <2>2
<1>12. Up(h)
  <2> SUFFICES ASSUME NEW k \in 2..Len(h)
               PROVE  /\ h[k].t - h[k - 1].t >= 1
                      /\ h[k].t - h[k - 1].t >= h[k].raw - h[k - 1].raw
    BY DEF Up
  <2>1. PICK j \in 2..n :
          h[k] = q[j] /\ (h[k - 1] = q[j - 1] \/ (j > 2 /\ h[k - 1] = q[j - 2]))
    BY <1>3 DEF HalfOf
  <2>2. \A l \in 2..n : /\ q[l].t - q[l - 1].t >= 1
                        /\ q[l].t - q[l - 1].t >= q[l].raw - q[l - 1].raw
    BY <1>1 DEF Up
  <2>3. \A l \in 1..n : q[l].t \in Int /\ q[l].raw \in Int
    <3>1. \A l \in 1..n : q[l] \in Samples
      BY <1>2
    <3>2. \A x \in Samples : x.t \in Int /\ x.raw \in Int
      BY DEF Samples
    <3> HIDE DEF n
    <3> QED
      BY <3>1, <3>2
  <2>4. CASE h[k - 1] = q[j - 1]
    BY <2>1, <2>2, <2>4
  <2>5. CASE j > 2 /\ h[k - 1] = q[j - 2]
    <3>1. /\ j \in 1..n /\ j - 1 \in 1..n /\ j - 2 \in 1..n /\ j - 1 \in 2..n
          /\ j - 1 - 1 = j - 2
      <4>1. j > 2
        BY <2>5
      <4> HIDE DEF n
      <4> QED BY <1>2, <4>1
    <3> DEFINE x == q[j].t
               y == q[j - 1].t
               z == q[j - 2].t
               u == q[j].raw
               v == q[j - 1].raw
               w == q[j - 2].raw
    <3>2. /\ x \in Int /\ y \in Int /\ z \in Int /\ u \in Int /\ v \in Int /\ w \in Int
      BY <2>3, <3>1
    <3>3. x - y >= 1 /\ x - y >= u - v
      BY <2>2
    <3>4. y - z >= 1 /\ y - z >= v - w
      BY <2>2, <3>1
    <3>5. h[k].t = x /\ h[k].raw = u /\ h[k - 1].t = z /\ h[k - 1].raw = w
      BY <2>1, <2>5
    <3> HIDE DEF x, y, z, u, v, w
    <3>6. x - z >= 1 /\ x - z >= u - w
      BY <3>2, <3>3, <3>4
    <3> QED
      BY <3>5, <3>6
  <2> QED
    BY <2>1, <2>4, <2>5
<1>13. Indexed(c)
  BY <1>8, <1>10, <1>11, <1>12, Zenon DEF Indexed
<1> QED
  BY <1>13 DEF c

IndexedStreams == {s \in StreamsOf(Samples) : Indexed(s)}

\* The budget keeps indexed streams indexed.
LEMMA EnforcedIndexed ==
  ASSUME NEW all \in [Streams -> IndexedStreams]
  PROVE  EnforceBudget(all, TRUE) \in [Streams -> IndexedStreams]
<1>1. \A s \in IndexedStreams : CompactSamples(s, TRUE) \in IndexedStreams
  <2> SUFFICES ASSUME NEW s \in IndexedStreams PROVE CompactSamples(s, TRUE) \in IndexedStreams
    OBVIOUS
  <2>1. Indexed(CompactSamples(s, TRUE))
    BY CompactIndexed DEF IndexedStreams
  <2> QED
    BY <2>1 DEF IndexedStreams, Indexed
<1> QED
  BY <1>1, Enforced

(***************************************************************************)
(* The rank of an item in a finite set with a total order: each rank is     *)
(* that of one item.                                                        *)
(***************************************************************************)
IsOrder(R, I) ==
    /\ \A x \in I : <<x, x>> \notin R
    /\ \A x, y, z \in I : <<x, y>> \in R /\ <<y, z>> \in R => <<x, z>> \in R
    /\ \A x, y \in I : x = y \/ <<x, y>> \in R \/ <<y, x>> \in R

Below(R, I, x) == {y \in I : <<y, x>> \in R}

\* What comes later has a greater rank.
LEMMA RankGrows ==
  ASSUME NEW I, IsFiniteSet(I), NEW R, IsOrder(R, I), NEW x \in I, NEW y \in I, <<x, y>> \in R
  PROVE  Cardinality(Below(R, I, x)) < Cardinality(Below(R, I, y))
<1> DEFINE X == Below(R, I, x)
           Y == Below(R, I, y)
<1>1. IsFiniteSet(Y) /\ IsFiniteSet(X)
  BY FS_Subset DEF Below
<1>2. X \in SUBSET Y
  BY DEF Below, IsOrder
<1>3. x \in Y /\ x \notin X
  BY DEF Below, IsOrder
<1> HIDE DEF X, Y
<1>4. Cardinality(X) <= Cardinality(Y) /\ (Cardinality(Y) = Cardinality(X) => Y = X)
  BY <1>1, <1>2, FS_Subset
<1>5. Cardinality(X) \in Nat /\ Cardinality(Y) \in Nat
  BY <1>1, FS_CardinalityType
<1>6. Cardinality(X) < Cardinality(Y)
  BY <1>3, <1>4, <1>5
<1> QED
  BY <1>6 DEF X, Y

\* The ranks are the numbers below the size of the set, one for each item.
LEMMA RankOf ==
  ASSUME NEW I, IsFiniteSet(I), NEW R, IsOrder(R, I)
  PROVE  /\ Cardinality(I) \in Nat
         /\ \A x \in I : Cardinality(Below(R, I, x)) \in 0..(Cardinality(I) - 1)
         /\ \A x, y \in I : Cardinality(Below(R, I, x)) = Cardinality(Below(R, I, y)) => x = y
         /\ \A k \in 0..(Cardinality(I) - 1) : \E x \in I : Cardinality(Below(R, I, x)) = k
<1> DEFINE n == Cardinality(I)
           rank(x) == Cardinality(Below(R, I, x))
           f == [x \in I |-> rank(x)]
           T == 0..(n - 1)
<1>1. n \in Nat
  BY FS_CardinalityType
<1>2. ASSUME NEW x \in I PROVE rank(x) \in T
  <2>1. Below(R, I, x) \in SUBSET I /\ x \in I \ Below(R, I, x)
    BY DEF Below, IsOrder
  <2>2. IsFiniteSet(Below(R, I, x)) /\ rank(x) <= n /\ (n = rank(x) => I = Below(R, I, x))
    BY <2>1, FS_Subset
  <2>3. rank(x) \in Nat
    BY <2>2, FS_CardinalityType
  <2>4. n # rank(x)
    BY <2>1, <2>2
  <2> HIDE DEF rank, n
  <2> QED
    BY <1>1, <2>2, <2>3, <2>4
<1>3. ASSUME NEW x \in I, NEW y \in I, rank(x) = rank(y) PROVE x = y
  <2>1. rank(x) \in Nat /\ rank(y) \in Nat
    BY <1>2
  <2>2. <<x, y>> \in R => rank(x) < rank(y)
    BY RankGrows
  <2>3. <<y, x>> \in R => rank(y) < rank(x)
    BY RankGrows
  <2> HIDE DEF rank
  <2>4. <<x, y>> \notin R /\ <<y, x>> \notin R
    BY <1>3, <2>1, <2>2, <2>3
  <2> QED
    BY <2>4 DEF IsOrder
<1> HIDE DEF rank, n
<1>4. f \in Injection(I, T)
  BY <1>2, <1>3 DEF Injection, IsInjective
<1>5. IsFiniteSet(T) /\ Cardinality(T) = n
  <2>1. 0 \in Int /\ n - 1 \in Int
    BY <1>1
  <2>2. IsFiniteSet(T) /\ Cardinality(T) = IF 0 > n - 1 THEN 0 ELSE n - 1 - 0 + 1
    BY <2>1, FS_Interval
  <2> HIDE DEF T
  <2> QED
    BY <1>1, <2>2
<1>6. f \in Surjection(I, T)
  <2> HIDE DEF f, T
  <2>1. Cardinality(I) = Cardinality(T) <=> f \in Surjection(I, T)
    BY <1>4, <1>5, FS_Injection
  <2> QED
    BY <1>5, <2>1 DEF n
<1>7. \A k \in T : \E x \in I : rank(x) = k
  BY <1>6 DEF Surjection
<1> QED
  BY <1>1, <1>2, <1>3, <1>7 DEF rank, n

(***************************************************************************)
(* The budget has passes enough.  Each of them that changes anything takes  *)
(* a sample out of the finite set of those that are kept.                   *)
(***************************************************************************)
\* The samples that are kept, as a set.
Kept(all) == {x \in Streams \X (1..MaxStored) : x[2] <= Len(all[x[1]].kept)}

\* A stream with room for what it keeps.
Roomy == {s \in StreamsOf(Samples) : Len(s.kept) <= MaxStored}

\* The size of a stream is a number.
LEMMA SizeIsNumber ==
  ASSUME NEW s \in StreamsOf(Samples)
  PROVE  Size(s) \in Nat
<1>1. s.kept \in Seq(Samples) /\ s.pending \in Seq(Samples)
  BY StreamParts
<1> DEFINE a == Len(s.kept)
           b == Len(s.pending)
<1>2. a \in Nat /\ b \in Nat
  BY <1>1
<1>3. Size(s) = a + b
  BY DEF Size
<1> HIDE DEF a, b
<1> QED
  BY <1>2, <1>3

\* Halving takes a sample of a stream with more than two.
LEMMA CompactTakes ==
  ASSUME NEW s \in StreamsOf(Samples), Len(s.kept) > 2, NEW keepLast \in BOOLEAN
  PROVE  /\ Len(CompactSamples(s, keepLast).kept) \in Nat
         /\ Len(CompactSamples(s, keepLast).kept) < Len(s.kept)
<1> DEFINE h == KeepEveryOther(s.kept, keepLast)
           d == 2 * s.stride
<1>1. CompactSamples(s, keepLast) = [s EXCEPT !.kept = h, !.stride = d]
  BY DEF CompactSamples
<1>2. s.kept \in Seq(Samples)
  BY StreamParts
<1>3. HalfOf(s.kept, keepLast, h) /\ h \in Seq(Samples)
  BY <1>2, Halved
<1>4. Len(h) \in Nat /\ Len(h) < Len(s.kept)
  BY <1>2, <1>3 DEF HalfOf
<1> HIDE DEF h, d
<1>5. CompactSamples(s, keepLast).kept = h
  BY <1>1, StreamThinned
<1> QED
  BY <1>4, <1>5

\* There is a largest stream when any has more than two samples.
LEMMA HeaviestIs ==
  ASSUME NEW all \in [Streams -> StreamsOf(Samples)], Candidates(all) # {}
  PROVE  Heaviest(all) \in Candidates(all)
<1> DEFINE I == Candidates(all)
           size(s) == Size(all[s])
           R == {z \in I \X I : size(z[1]) > size(z[2]) \/ (size(z[1]) = size(z[2]) /\ z[1] < z[2])}
           First(s) == \A o \in I : size(s) > size(o) \/ (size(s) = size(o) /\ s <= o)
<1>1. I \subseteq Streams /\ Streams \subseteq Nat
  BY RecordingsAssumption DEF Candidates
<1>2. IsFiniteSet(I)
  BY <1>1, FS_Subset, RecordingsAssumption
<1>3. ASSUME NEW s \in I PROVE size(s) \in Nat
  <2>1. all[s] \in StreamsOf(Samples)
    BY <1>1
  <2> QED
    BY <2>1, SizeIsNumber
<1> HIDE DEF I, size
<1>4. \A x, y \in I : <<x, y>> \in R <=> size(x) > size(y) \/ (size(x) = size(y) /\ x < y)
  OBVIOUS
<1> HIDE DEF R
<1>5. IsOrder(R, I)
  <2>1. \A x \in I : x \in Nat /\ size(x) \in Nat
    BY <1>1, <1>3
  <2> QED
    BY <1>4, <2>1 DEF IsOrder
<1>6. /\ Cardinality(I) \in Nat
      /\ \A k \in 0..(Cardinality(I) - 1) : \E x \in I : Cardinality(Below(R, I, x)) = k
  BY <1>2, <1>5, RankOf
<1>7. Cardinality(I) # 0
  BY <1>2, FS_EmptySet DEF I
<1>8. PICK x \in I : Cardinality(Below(R, I, x)) = 0
  BY <1>6, <1>7
<1>9. Below(R, I, x) = {}
  <2>1. Below(R, I, x) \in SUBSET I
    BY DEF Below
  <2> QED
    BY <1>2, <1>8, <2>1, FS_Subset, FS_EmptySet
<1>10. First(x)
  <2> SUFFICES ASSUME NEW o \in I PROVE size(x) > size(o) \/ (size(x) = size(o) /\ x <= o)
    OBVIOUS
  <2>1. ~(<<o, x>> \in R)
    BY <1>9 DEF Below
  <2> QED
    BY <1>1, <1>3, <1>4, <2>1
<1>11. \E s \in I : First(s)
  BY <1>10
<1>12. Heaviest(all) = CHOOSE s \in I : First(s)
  BY DEF Heaviest, I, size
<1> HIDE DEF First
<1> QED
  BY <1>11, <1>12 DEF I

\* A pass that changes anything takes a sample, and what is kept is a set of numbered places.
LEMMA ReducedTakes ==
  ASSUME NEW all \in [Streams -> Roomy], NEW keepLast \in BOOLEAN,
         BudgetOver(all), Candidates(all) # {}
  PROVE  /\ Kept(Reduced(all, keepLast)) \subseteq Kept(all)
         /\ Kept(Reduced(all, keepLast)) # Kept(all)
<1> DEFINE h == Heaviest(all)
           c == CompactSamples(all[h], keepLast)
           b == [all EXCEPT ![h] = c]
           n == Len(all[h].kept)
<1>1. all \in [Streams -> StreamsOf(Samples)]
  BY DEF Roomy
<1>2. h \in Streams /\ n > 2
  BY <1>1, HeaviestIs DEF Candidates
<1>3. all[h] \in StreamsOf(Samples) /\ n <= MaxStored
  BY <1>2 DEF Roomy
<1>4. all[h].kept \in Seq(Samples) /\ n \in Nat
  BY <1>3, StreamParts
<1>5. Reduced(all, keepLast) = b
  BY DEF Reduced
<1>6. Len(c.kept) \in Nat /\ Len(c.kept) < n
  BY <1>2, <1>3, CompactTakes
<1> HIDE DEF c, h
<1>7. b[h] = c /\ \A s \in Streams : s # h => b[s] = all[s]
  BY <1>2
<1> HIDE DEF b
<1>8. ASSUME NEW x \in Kept(b) PROVE x \in Kept(all)
  <2>1. x \in Streams \X (1..MaxStored) /\ x[2] <= Len(b[x[1]].kept)
    BY DEF Kept
  <2>2. x[1] \in Streams /\ x[2] \in Nat
    BY <2>1
  <2>3. CASE x[1] = h
    <3>1. x[2] <= Len(c.kept)
      BY <1>7, <2>1, <2>3
    <3>2. x[2] <= n
      BY <1>4, <1>6, <2>2, <3>1
    <3> QED
      BY <2>1, <2>3, <3>2 DEF Kept
  <2>4. CASE x[1] # h
    BY <1>7, <2>1, <2>2, <2>4 DEF Kept
  <2> QED
    BY <2>3, <2>4
<1>9. <<h, n>> \in Kept(all)
  <2>1. n \in 1..MaxStored /\ n <= n
    BY <1>2, <1>3, <1>4, Limits
  <2> QED
    BY <1>2, <2>1 DEF Kept
<1>10. <<h, n>> \notin Kept(b)
  BY <1>4, <1>6, <1>7 DEF Kept
<1> QED
  BY <1>5, <1>8, <1>9, <1>10

\* Halving leaves a stream with room.
LEMMA CompactRoomy ==
  ASSUME NEW s \in Roomy, NEW keepLast \in BOOLEAN
  PROVE  CompactSamples(s, keepLast) \in Roomy
<1> DEFINE q == s.kept
           h == KeepEveryOther(q, keepLast)
           d == 2 * s.stride
           c == CompactSamples(s, keepLast)
<1>1. s \in StreamsOf(Samples) /\ Len(q) <= MaxStored
  BY DEF Roomy
<1>2. /\ q \in Seq(Samples) /\ d \in Nat \ {0} /\ s.layout \in Layouts \cup {NoLayout}
      /\ s.count \in Nat /\ s.pending \in Seq(Samples) /\ s.last \in Int
  BY <1>1, StreamParts
<1>3. h \in Seq(Samples) /\ HalfOf(q, keepLast, h)
  BY <1>2, Halved
<1>4. Len(h) <= MaxStored
  <2>1. Len(h) <= Len(q) /\ Len(h) \in Nat /\ Len(q) \in Nat
    BY <1>2, <1>3 DEF HalfOf
  <2> QED
    BY <1>1, <2>1, Limits
<1>5. c = [layout |-> s.layout, count |-> s.count, kept |-> h, stride |-> d,
           pending |-> s.pending, last |-> s.last]
  BY <1>1, StreamThinned DEF CompactSamples
<1> HIDE DEF h, d, q, c
<1>6. c \in StreamsOf(Samples) /\ c.kept = h
  BY <1>2, <1>3, <1>5, StreamMade
<1> QED
  BY <1>4, <1>6 DEF Roomy, c

\* The passes are enough: what is still over the budget then has no list to halve, and the
\* reader throws.
LEMMA EnforcedEnds ==
  ASSUME NEW all \in [Streams -> Roomy], NEW keepLast \in BOOLEAN
  PROVE  BudgetOver(EnforceBudget(all, keepLast)) =>
           Candidates(EnforceBudget(all, keepLast)) = {}
<1> DEFINE F == [Streams -> Roomy]
           last == Cardinality(Streams) * MaxStored
           Ended(a) == ~(BudgetOver(a) /\ Candidates(a) # {})
<1>1. PICK pass : /\ pass[0] = all /\ EnforceBudget(all, keepLast) = pass[last]
                  /\ \A k \in Nat : pass[k] \in F /\ pass[k + 1] = Reduced(pass[k], keepLast)
  <2>1. \A s \in Roomy : CompactSamples(s, keepLast) \in Roomy
    BY CompactRoomy
  <2> QED
    BY <2>1, EnforcedPasses
<1> DEFINE left(k) == Cardinality(Kept(pass[k]))
           Done(k) == Ended(pass[k]) \/ left(k) + k <= last
<1>2. ASSUME NEW a \in F
      PROVE  /\ IsFiniteSet(Kept(a)) /\ Cardinality(Kept(a)) \in Nat
             /\ Cardinality(Kept(a)) <= last
  <2> DEFINE places == Streams \X (1..MaxStored)
  <2>1. IsFiniteSet(1..MaxStored) /\ Cardinality(1..MaxStored) = MaxStored
    BY Limits, FS_Interval
  <2>2. IsFiniteSet(places) /\ Cardinality(places) = last
    BY <2>1, FS_Product, RecordingsAssumption
  <2>3. Kept(a) \in SUBSET places
    BY DEF Kept
  <2> HIDE DEF places
  <2> QED
    BY <2>2, <2>3, FS_Subset, FS_CardinalityType
<1>3. last \in Nat
  <2>1. Cardinality(Streams) \in Nat
    BY RecordingsAssumption, FS_CardinalityType
  <2> QED
    BY <2>1, Limits, ProductInNat
<1> HIDE DEF last
<1>4. ASSUME NEW a \in F
      PROVE  /\ Ended(a) => Reduced(a, keepLast) = a
             /\ ~Ended(a) => /\ Kept(Reduced(a, keepLast)) \subseteq Kept(a)
                             /\ Kept(Reduced(a, keepLast)) # Kept(a)
  <2>1. Ended(a) => Reduced(a, keepLast) = a
    BY Zenon DEF Reduced
  <2>2. ~Ended(a) => /\ Kept(Reduced(a, keepLast)) \subseteq Kept(a)
                     /\ Kept(Reduced(a, keepLast)) # Kept(a)
    BY ReducedTakes
  <2> QED
    BY <2>1, <2>2
<1> HIDE DEF F, Ended
<1>5. Done(0)
  <2>1. pass[0] \in F
    BY <1>1
  <2>2. left(0) \in Nat /\ left(0) <= last
    BY <1>2, <2>1
  <2> HIDE DEF left
  <2> QED
    BY <1>3, <2>2
<1>6. ASSUME NEW k \in Nat, Done(k) PROVE Done(k + 1)
  <2>1. k + 1 \in Nat
    OBVIOUS
  <2>2. pass[k + 1] = Reduced(pass[k], keepLast) /\ pass[k] \in F /\ pass[k + 1] \in F
    BY <1>1, <2>1
  <2>3. CASE Ended(pass[k])
    BY <1>4, <2>2, <2>3
  <2>4. CASE ~Ended(pass[k])
    <3>1. left(k) + k <= last
      BY <1>6, <2>4
    <3>2. Kept(pass[k + 1]) \subseteq Kept(pass[k]) /\ Kept(pass[k + 1]) # Kept(pass[k])
      BY <1>4, <2>2, <2>4
    <3>3. /\ IsFiniteSet(Kept(pass[k]))
          /\ left(k) \in Nat /\ left(k + 1) \in Nat
      BY <1>2, <2>2
    <3>4. left(k + 1) <= left(k) /\ left(k + 1) # left(k)
      BY <3>2, <3>3, FS_Subset
    <3> HIDE DEF left
    <3> QED
      BY <1>3, <3>1, <3>3, <3>4
  <2> QED
    BY <2>3, <2>4
<1>7. Done(last)
  <2> DEFINE f == [k \in Nat |-> IF Done(k) THEN 1 ELSE 0]
             S == {1}
  <2> HIDE DEF Done
  <2>1. f[0] \in S /\ \A k \in Nat : f[k] \in S => f[k + 1] \in S
    BY <1>5, <1>6
  <2>2. \A k \in Nat : f[k] \in S
    <3> HIDE DEF f, S
    <3> QED
      BY <2>1, StaysIn
  <2> QED
    BY <1>3, <2>2
<1>8. pass[last] \in F
  BY <1>1, <1>3
<1>9. CASE Ended(pass[last])
  BY <1>1, <1>9 DEF Ended
<1>10. CASE left(last) + last <= last
  <2>1. left(last) \in Nat
    BY <1>2, <1>8
  <2>2. left(last) = 0
    <3> HIDE DEF left
    <3> QED
      BY <1>3, <1>10, <2>1
  <2>3. Kept(pass[last]) = {}
    BY <1>2, <1>8, <2>2, FS_EmptySet
  <2>4. ASSUME NEW a \in F, Kept(a) = {} PROVE Candidates(a) = {}
    <3> SUFFICES ASSUME NEW s \in Candidates(a) PROVE FALSE
      OBVIOUS
    <3>1. s \in Streams /\ a[s] \in Roomy /\ Len(a[s].kept) > 2
      BY DEF Candidates, F
    <3>2. Len(a[s].kept) \in Nat
      BY <3>1, StreamParts DEF Roomy
    <3>3. 1 \in 1..MaxStored /\ 1 <= Len(a[s].kept)
      BY <3>1, <3>2, Limits
    <3>4. <<s, 1>> \in Kept(a)
      BY <3>1, <3>3 DEF Kept
    <3> QED
      BY <2>4, <3>4
  <2> QED
    BY <1>1, <1>8, <2>3, <2>4
<1> QED
  BY <1>7, <1>9, <1>10

(***************************************************************************)
(* The times of the pieces of a group in one list (the heap of stitchGroup). *)
(***************************************************************************)
Sorted(q) == \A j, k \in 1..Len(q) : j <= k => q[j] <= q[k]

StreamsIndexed == streams \in [Streams -> IndexedStreams]

\* The items of a group are the samples of its members.
LEMMA ItemsOf ==
  ASSUME StreamsIndexed, NEW g
  PROVE  /\ IsFiniteSet(Items(g))
         /\ \A s \in Members(g) : \A k \in 1..Len(streams[s].kept) : <<s, k>> \in Items(g)
         /\ \A x \in Items(g) : /\ x[1] \in Members(g) /\ x[2] \in 1..Len(streams[x[1]].kept)
                                /\ x = <<x[1], x[2]>> /\ ItemTime(x) \in Int
<1>1. Members(g) \subseteq Streams
  BY DEF Members, Usable
<1>2. IsFiniteSet(Members(g))
  BY <1>1, FS_Subset, RecordingsAssumption
<1>3. IsFiniteSet(1..MaxStored)
  BY Limits, FS_Interval
<1>4. IsFiniteSet(Members(g) \X (1..MaxStored))
  BY <1>2, <1>3, FS_Product
<1>5. IsFiniteSet(Items(g))
  BY <1>4, FS_Subset DEF Items
<1>6. ASSUME NEW s \in Streams
      PROVE  streams[s].kept \in Seq(Samples) /\ Len(streams[s].kept) <= MaxStored
  <2>1. Indexed(streams[s])
    BY DEF StreamsIndexed, IndexedStreams
  <2>2. streams[s] \in StreamsOf(Samples) /\ Len(streams[s].kept) <= MaxStored
    BY <2>1, Zenon DEF Indexed
  <2> QED
    BY <2>2, StreamParts
<1>7. ASSUME NEW s \in Members(g), NEW k \in 1..Len(streams[s].kept) PROVE <<s, k>> \in Items(g)
  <2> DEFINE n == Len(streams[s].kept)
  <2>1. n \in Nat /\ n <= MaxStored
    BY <1>1, <1>6
  <2> HIDE DEF n
  <2>2. k \in 1..MaxStored /\ k <= n
    BY <2>1, Limits DEF n
  <2> QED
    BY <2>2 DEF Items, n
<1>8. ASSUME NEW x \in Items(g)
      PROVE  /\ x[1] \in Members(g) /\ x[2] \in 1..Len(streams[x[1]].kept)
             /\ x = <<x[1], x[2]>> /\ ItemTime(x) \in Int
  <2> DEFINE q == streams[x[1]].kept
             n == Len(q)
  <2>1. x[1] \in Members(g) /\ x[2] \in 1..MaxStored /\ x = <<x[1], x[2]>> /\ x[2] <= n
    BY DEF Items
  <2>2. q \in Seq(Samples) /\ n \in Nat
    BY <1>1, <1>6, <2>1
  <2>3. x[2] \in 1..n
    <3> HIDE DEF n
    <3> QED
      BY <2>1, <2>2, Limits
  <2>4. q[x[2]] \in Samples
    <3> HIDE DEF q
    <3> QED
      BY <2>2, <2>3
  <2>5. ItemTime(x) \in Int
    BY <2>4 DEF ItemTime, Samples
  <2> QED
    BY <2>1, <2>3, <2>5
<1> QED
  BY <1>5, <1>7, <1>8

\* The merged list is sorted and holds the times of the items, and no other ones.
LEMMA MergedTimes ==
  ASSUME StreamsIndexed, NEW g
  PROVE  /\ Merged(g) \in Seq(Int) /\ Sorted(Merged(g))
         /\ \A k \in 1..Len(Merged(g)) : \E x \in Items(g) : Merged(g)[k] = ItemTime(x)
         /\ \A x \in Items(g) : \E k \in 1..Len(Merged(g)) : Merged(g)[k] = ItemTime(x)
<1> DEFINE I == Items(g)
           n == Cardinality(I)
           R == {p \in I \X I : Before(p[1], p[2])}
           at(k) == CHOOSE x \in I : Rank(x, I) = k - 1
           M == Merged(g)
<1>1. /\ IsFiniteSet(I)
      /\ \A x \in I : /\ x[1] \in Members(g) /\ x[2] \in Nat
                      /\ x = <<x[1], x[2]>> /\ ItemTime(x) \in Int
  BY ItemsOf
<1>2. \A x \in I : x[1] \in Nat
  BY <1>1, RecordingsAssumption DEF Members, Usable
<1>3. M = [k \in 1..n |-> ItemTime(at(k))]
  BY DEF Merged
<1> HIDE DEF I, M
<1>4. \A x, y \in I : <<x, y>> \in R <=> Before(x, y)
  OBVIOUS
<1> HIDE DEF R
<1>5. IsOrder(R, I)
  <2>1. ASSUME NEW x \in I PROVE ~Before(x, x)
    BY <1>1, <1>2 DEF Before
  <2>2. ASSUME NEW x \in I, NEW y \in I, NEW z \in I, Before(x, y), Before(y, z) PROVE Before(x, z)
    <3>1. /\ ItemTime(x) \in Int /\ ItemTime(y) \in Int /\ ItemTime(z) \in Int
          /\ x[1] \in Nat /\ y[1] \in Nat /\ z[1] \in Nat
          /\ x[2] \in Nat /\ y[2] \in Nat /\ z[2] \in Nat
      BY <1>1, <1>2
    <3> QED
      BY <2>2, <3>1 DEF Before
  <2>3. ASSUME NEW x \in I, NEW y \in I PROVE x = y \/ Before(x, y) \/ Before(y, x)
    <3>1. /\ ItemTime(x) \in Int /\ ItemTime(y) \in Int
          /\ x[1] \in Nat /\ y[1] \in Nat /\ x[2] \in Nat /\ y[2] \in Nat
      BY <1>1, <1>2
    <3>2. x[1] = y[1] /\ x[2] = y[2] => x = y
      BY <1>1
    <3> QED
      BY <3>1, <3>2 DEF Before
  <2>4. \A x \in I : <<x, x>> \notin R
    BY <1>4, <2>1
  <2>5. \A x, y, z \in I : <<x, y>> \in R /\ <<y, z>> \in R => <<x, z>> \in R
    BY <1>4, <2>2
  <2>6. \A x, y \in I : x = y \/ <<x, y>> \in R \/ <<y, x>> \in R
    BY <1>4, <2>3
  <2> QED
    BY <2>4, <2>5, <2>6 DEF IsOrder
<1>6. \A x \in I : Rank(x, I) = Cardinality(Below(R, I, x))
  <2> SUFFICES ASSUME NEW x \in I PROVE {y \in I : Before(y, x)} = Below(R, I, x)
    BY DEF Rank
  <2> QED
    BY <1>4 DEF Below
<1>7. /\ n \in Nat
      /\ \A x \in I : Rank(x, I) \in 0..(n - 1)
      /\ \A x, y \in I : Rank(x, I) = Rank(y, I) => x = y
      /\ \A k \in 0..(n - 1) : \E x \in I : Rank(x, I) = k
  BY <1>1, <1>5, <1>6, RankOf
<1> HIDE DEF n
<1>8. ASSUME NEW k \in 1..n PROVE at(k) \in I /\ Rank(at(k), I) = k - 1
  <2>1. k - 1 \in 0..(n - 1)
    BY <1>7
  <2>2. \E x \in I : Rank(x, I) = k - 1
    BY <1>7, <2>1
  <2> QED
    BY <2>2, Zenon
<1> HIDE DEF at
<1>9. M \in Seq(Int) /\ Len(M) = n /\ \A k \in 1..n : M[k] = ItemTime(at(k))
  <2>1. \A k \in 1..n : ItemTime(at(k)) \in Int
    BY <1>1, <1>8
  <2> QED
    BY <1>3, <1>7, <2>1
<1>10. ASSUME NEW j \in 1..n, NEW k \in 1..n, j <= k PROVE M[j] <= M[k]
  <2>1. /\ at(j) \in I /\ at(k) \in I /\ Rank(at(j), I) = j - 1 /\ Rank(at(k), I) = k - 1
        /\ ItemTime(at(j)) \in Int /\ ItemTime(at(k)) \in Int
    BY <1>1, <1>8
  <2>2. CASE at(j) = at(k)
    BY <1>9, <2>1, <2>2
  <2>3. CASE Before(at(j), at(k))
    <3>1. ItemTime(at(j)) <= ItemTime(at(k))
      BY <2>1, <2>3 DEF Before
    <3> QED
      BY <1>9, <3>1
  <2>4. CASE Before(at(k), at(j))
    <3>1. <<at(k), at(j)>> \in R
      BY <1>4, <2>1, <2>4
    <3>2. Rank(at(k), I) < Rank(at(j), I)
      BY <1>1, <1>5, <1>6, <2>1, <3>1, RankGrows
    <3>3. k - 1 < j - 1
      BY <2>1, <3>2
    <3> QED
      BY <1>7, <1>10, <3>3
  <2>5. at(j) = at(k) \/ Before(at(j), at(k)) \/ Before(at(k), at(j))
    BY <1>4, <1>5, <2>1 DEF IsOrder
  <2> QED
    BY <2>2, <2>3, <2>4, <2>5
<1>11. ASSUME NEW x \in I PROVE \E k \in 1..n : M[k] = ItemTime(x)
  <2> DEFINE k == Rank(x, I) + 1
  <2>1. k \in 1..n /\ Rank(x, I) = k - 1
    BY <1>7
  <2> HIDE DEF k
  <2>2. at(k) = x
    BY <1>7, <1>8, <2>1
  <2> QED
    BY <1>9, <2>1, <2>2
<1>12. \A k \in 1..n : \E x \in I : M[k] = ItemTime(x)
  BY <1>8, <1>9
<1>13. Sorted(M)
  BY <1>9, <1>10 DEF Sorted
<1> QED
  BY <1>9, <1>11, <1>12, <1>13 DEF M, I

\* What is in a set and not above any of it is its least.
LEMMA MinIs ==
  ASSUME NEW S, S \subseteq Int, NEW x \in S, \A y \in S : x <= y
  PROVE  x = Min(S)
<1>1. \E z \in S : \A y \in S : z <= y
  OBVIOUS
<1>2. Min(S) \in S /\ \A y \in S : Min(S) <= y
  BY <1>1, Zenon DEF Min
<1>3. Min(S) <= x /\ x <= Min(S) /\ Min(S) \in Int /\ x \in Int
  BY <1>2
<1> QED
  BY <1>3

\* What is in a set and not below any of it is its greatest.
LEMMA MaxIs ==
  ASSUME NEW S, S \subseteq Int, NEW x \in S, \A y \in S : x >= y
  PROVE  x = Max(S)
<1>1. \E z \in S : \A y \in S : z >= y
  OBVIOUS
<1>2. Max(S) \in S /\ \A y \in S : Max(S) >= y
  BY <1>1, Zenon DEF Max
<1>3. Max(S) >= x /\ x >= Max(S) /\ Max(S) \in Int /\ x \in Int
  BY <1>2
<1> QED
  BY <1>3

\* What goes up at each step is between its first and its last value.
LEMMA StepsGoUp ==
  ASSUME NEW m \in Nat \ {0}, NEW t, \A k \in 1..m : t[k] \in Int,
         \A k \in 2..m : t[k - 1] <= t[k]
  PROVE  \A k \in 1..m : t[1] <= t[k] /\ t[k] <= t[m]
<1>1. \A k \in 1..m : t[1] <= t[k]
  <2> DEFINE Bad == {k \in 1..m : ~(t[1] <= t[k])}
  <2> SUFFICES ASSUME Bad # {} PROVE FALSE
    OBVIOUS
  <2>6. Bad \subseteq Nat
    OBVIOUS
  <2>1. PICK k \in Bad : \A l \in Bad : k <= l
    <3> HIDE DEF Bad
    <3> QED
      BY <2>6, LeastNumber
  <2>2. k \in 1..m /\ ~(t[1] <= t[k]) /\ k # 1
    OBVIOUS
  <2>3. k \in 2..m /\ k - 1 \in 1..m /\ ~(k <= k - 1) /\ 1 \in 1..m
    BY <2>2
  <2>4. t[1] <= t[k - 1]
    BY <2>1, <2>3
  <2>5. t[k - 1] <= t[k] /\ t[1] \in Int /\ t[k - 1] \in Int /\ t[k] \in Int
    BY <2>3
  <2> QED
    BY <2>2, <2>4, <2>5
<1>2. \A k \in 1..m : t[k] <= t[m]
  <2> DEFINE Bad == {d \in 0..(m - 1) : ~(t[m - d] <= t[m])}
  <2>1. Bad = {}
    <3> SUFFICES ASSUME Bad # {} PROVE FALSE
      OBVIOUS
    <3>6. Bad \subseteq Nat
      OBVIOUS
    <3>1. PICK d \in Bad : \A e \in Bad : d <= e
      <4> HIDE DEF Bad
      <4> QED
        BY <3>6, LeastNumber
    <3>2. d \in 0..(m - 1) /\ ~(t[m - d] <= t[m]) /\ d # 0
      OBVIOUS
    <3>3. /\ d - 1 \in 0..(m - 1) /\ ~(d <= d - 1) /\ m - (d - 1) \in 2..m
          /\ m - (d - 1) - 1 = m - d /\ m - d \in 1..m /\ m - (d - 1) \in 1..m /\ m \in 1..m
      BY <3>2
    <3>4. t[m - (d - 1)] <= t[m]
      BY <3>1, <3>3
    <3>5. /\ t[m - d] <= t[m - (d - 1)]
          /\ t[m - d] \in Int /\ t[m - (d - 1)] \in Int /\ t[m] \in Int
      BY <3>3
    <3> QED
      BY <3>2, <3>4, <3>5
  <2>2. ASSUME NEW k \in 1..m PROVE t[k] <= t[m]
    <3>1. m - k \in 0..(m - 1) /\ m - (m - k) = k
      OBVIOUS
    <3>2. t[m - (m - k)] <= t[m]
      BY <2>1, <3>1
    <3> QED
      BY <3>1, <3>2
  <2> QED
    BY <2>2
<1> QED
  BY <1>1, <1>2

\* The list begins with the earliest time of the pieces and ends with the latest one.
LEMMA MergedEnds ==
  ASSUME StreamsIndexed, NEW g, Members(g) # {}
  PROVE  LET n == Len(Merged(g))
         IN  /\ n \in Nat \ {0}
             /\ Merged(g)[1] = Min({streams[s].kept[1].t : s \in Members(g)})
             /\ Merged(g)[n] = Max({Last(streams[s].kept).t : s \in Members(g)})
<1> DEFINE P == Members(g)
           M == Merged(g)
           n == Len(M)
           first(s) == streams[s].kept[1].t
           last(s) == Last(streams[s].kept).t
<1>1. ASSUME NEW s \in P
      PROVE  LET m == Len(streams[s].kept)
             IN  /\ m \in Nat \ {0} /\ first(s) = ItemTime(<<s, 1>>) /\ last(s) = ItemTime(<<s, m>>)
                 /\ <<s, 1>> \in Items(g) /\ <<s, m>> \in Items(g)
                 /\ \A k \in 1..m : first(s) <= ItemTime(<<s, k>>) /\ ItemTime(<<s, k>>) <= last(s)
  <2> DEFINE q == streams[s].kept
             m == Len(q)
  <2>1. s \in Streams /\ q # <<>>
    BY DEF Members, Usable
  <2>2. Indexed(streams[s])
    BY <2>1 DEF StreamsIndexed, IndexedStreams
  <2>3. streams[s] \in StreamsOf(Samples) /\ Up(q)
    BY <2>2, Zenon DEF Indexed
  <2>4. q \in Seq(Samples)
    BY <2>3, StreamParts
  <2>5. m \in Nat \ {0} /\ 1 \in 1..m /\ m \in 1..m
    <3> HIDE DEF q
    <3> QED
      BY <2>1, <2>4
  <2>6. first(s) = ItemTime(<<s, 1>>) /\ last(s) = ItemTime(<<s, m>>)
    BY DEF ItemTime, Last
  <2>7. <<s, 1>> \in Items(g) /\ <<s, m>> \in Items(g)
    BY <2>5, ItemsOf
  <2> DEFINE t == [k \in 1..m |-> q[k].t]
  <2>8. \A k \in 1..m : t[k] \in Int /\ t[k] = ItemTime(<<s, k>>)
    <3>1. \A k \in 1..m : q[k] \in Samples
      BY <2>4
    <3> QED
      BY <3>1 DEF Samples, ItemTime
  <2>9. \A k \in 2..m : t[k - 1] <= t[k]
    <3> SUFFICES ASSUME NEW k \in 2..m PROVE t[k - 1] <= t[k]
      OBVIOUS
    <3>1. k \in 1..m /\ k - 1 \in 1..m
      <4> HIDE DEF m
      <4> QED BY <2>5
    <3>2. q[k].t - q[k - 1].t >= 1
      BY <2>3 DEF Up
    <3>3. q[k].t = t[k] /\ q[k - 1].t = t[k - 1] /\ t[k] \in Int /\ t[k - 1] \in Int
      BY <2>8, <3>1
    <3> HIDE DEF t
    <3> QED
      BY <3>2, <3>3
  <2> HIDE DEF t, m
  <2>10. \A k \in 1..m : t[1] <= t[k] /\ t[k] <= t[m]
    BY <2>5, <2>8, <2>9, StepsGoUp
  <2> QED
    BY <2>5, <2>6, <2>7, <2>8, <2>10 DEF m
<1>2. /\ M \in Seq(Int) /\ Sorted(M)
      /\ \A k \in 1..n : \E x \in Items(g) : M[k] = ItemTime(x)
      /\ \A x \in Items(g) : \E k \in 1..n : M[k] = ItemTime(x)
  BY MergedTimes
<1>3. \A x \in Items(g) : /\ x[1] \in P /\ x[2] \in 1..Len(streams[x[1]].kept)
                          /\ x = <<x[1], x[2]>> /\ ItemTime(x) \in Int
  BY ItemsOf
<1> HIDE DEF M, P, first, last
<1>4. n \in Nat
  BY <1>2
<1>5. n # 0
  <2>1. PICK s \in P : TRUE
    BY DEF P
  <2>2. \E k \in 1..n : TRUE
    BY <1>1, <1>2, <2>1
  <2> HIDE DEF n
  <2> QED
    BY <1>4, <2>2
<1>6. 1 \in 1..n /\ n \in 1..n /\ \A k \in 1..n : 1 <= k /\ k <= n
  <2> HIDE DEF n
  <2> QED
    BY <1>4, <1>5
<1>7. \A k \in 1..n : M[k] \in Int /\ M[1] <= M[k] /\ M[k] <= M[n]
  <2>1. \A k \in 1..n : M[k] \in Int
    BY <1>2
  <2>2. \A k \in 1..n : M[1] <= M[k] /\ M[k] <= M[n]
    BY <1>2, <1>6 DEF Sorted
  <2> QED
    BY <2>1, <2>2
<1> HIDE DEF n
<1>8. M[1] = Min({first(s) : s \in P})
  <2>1. \A s \in P : M[1] <= first(s) /\ first(s) \in Int
    <3> SUFFICES ASSUME NEW s \in P PROVE M[1] <= first(s) /\ first(s) \in Int
      OBVIOUS
    <3>1. <<s, 1>> \in Items(g) /\ first(s) = ItemTime(<<s, 1>>)
      BY <1>1
    <3>2. \E k \in 1..n : M[k] = ItemTime(<<s, 1>>)
      BY <1>2, <3>1 DEF n
    <3> QED
      BY <1>7, <3>1, <3>2
  <2>2. \E s \in P : first(s) = M[1]
    <3>1. PICK x \in Items(g) : M[1] = ItemTime(x)
      BY <1>2, <1>6 DEF n
    <3>2. x[1] \in P /\ x[2] \in 1..Len(streams[x[1]].kept) /\ x = <<x[1], x[2]>>
      BY <1>3
    <3>3. first(x[1]) <= ItemTime(<<x[1], x[2]>>)
      BY <1>1, <3>2
    <3>4. M[1] <= first(x[1]) /\ first(x[1]) \in Int /\ M[1] \in Int
      BY <1>6, <1>7, <2>1, <3>2
    <3>5. first(x[1]) <= M[1]
      BY <3>1, <3>2, <3>3
    <3>6. first(x[1]) = M[1]
      BY <3>4, <3>5
    <3> QED
      BY <3>2, <3>6
  <2>3. {first(s) : s \in P} \subseteq Int /\ M[1] \in {first(s) : s \in P}
    BY <2>1, <2>2
  <2>4. \A y \in {first(s) : s \in P} : M[1] <= y
    BY <2>1
  <2> QED
    BY <2>3, <2>4, MinIs
<1>9. M[n] = Max({last(s) : s \in P})
  <2>1. \A s \in P : last(s) <= M[n] /\ last(s) \in Int
    <3> SUFFICES ASSUME NEW s \in P PROVE last(s) <= M[n] /\ last(s) \in Int
      OBVIOUS
    <3> DEFINE x == <<s, Len(streams[s].kept)>>
    <3>1. x \in Items(g) /\ last(s) = ItemTime(x)
      BY <1>1
    <3> HIDE DEF x
    <3>2. \E k \in 1..n : M[k] = ItemTime(x)
      BY <1>2, <3>1 DEF n
    <3> QED
      BY <1>7, <3>1, <3>2
  <2>2. \E s \in P : last(s) = M[n]
    <3>1. PICK x \in Items(g) : M[n] = ItemTime(x)
      BY <1>2, <1>6 DEF n
    <3>2. x[1] \in P /\ x[2] \in 1..Len(streams[x[1]].kept) /\ x = <<x[1], x[2]>>
      BY <1>3
    <3>3. ItemTime(<<x[1], x[2]>>) <= last(x[1])
      BY <1>1, <3>2
    <3>4. last(x[1]) <= M[n] /\ last(x[1]) \in Int /\ M[n] \in Int
      BY <1>6, <1>7, <2>1, <3>2
    <3>5. M[n] <= last(x[1])
      BY <3>1, <3>2, <3>3
    <3>6. last(x[1]) = M[n]
      BY <3>4, <3>5
    <3> QED
      BY <3>2, <3>6
  <2>3. {last(s) : s \in P} \subseteq Int /\ M[n] \in {last(s) : s \in P}
    BY <2>1, <2>2
  <2>4. \A y \in {last(s) : s \in P} : M[n] >= y
    BY <2>1, <2>3
  <2> QED
    BY <2>3, <2>4, MaxIs
<1> QED
  BY <1>4, <1>5, <1>8, <1>9 DEF n, M, P, first, last

(***************************************************************************)
(* Joining the times.  The list that is kept stays sorted, begins with the  *)
(* first time, and ends with the last one unless that one is pending.       *)
(***************************************************************************)
Joined(a, M, n) ==
    LET m == Len(a.kept)
    IN /\ a \in StreamsOf(Int) /\ a.count = n /\ m <= Limit /\ Sorted(a.kept)
       /\ n = 0 => a.kept = <<>> /\ a.pending = <<>>
       /\ n > 0 => /\ a.kept # <<>> /\ a.kept[1] = M[1] /\ a.kept[m] <= M[n]
                   /\ IF a.pending = <<>> THEN a.kept[m] = M[n]
                      ELSE a.pending = <<M[n]>> /\ m < Limit

\* Nothing is joined at first.
LEMMA NewStreamIsJoined ==
  ASSUME NEW M
  PROVE  Joined(NewStream, M, 0)
<1> DEFINE s == NewStream
<1>1. s = [layout |-> NoLayout, count |-> 0, kept |-> <<>>, stride |-> 1, pending |-> <<>>, last |-> 0]
  BY DEF NewStream
<1>2. <<>> \in Seq(Int)
  OBVIOUS
<1> HIDE DEF s
<1>3. NoLayout \in Layouts \cup {NoLayout}
  OBVIOUS
<1>4. s \in StreamsOf(Int)
  BY <1>1, <1>2, <1>3 DEF StreamsOf
<1>5. s.kept = <<>> /\ s.pending = <<>> /\ s.count = 0
  BY <1>1
<1>6. Len(s.kept) <= Limit
  BY <1>5, Limits
<1>7. Sorted(s.kept)
  BY <1>5 DEF Sorted
<1>8. Joined(s, M, 0)
  BY <1>4, <1>5, <1>6, <1>7 DEF Joined
<1> QED
  BY <1>8 DEF s

RoomIn(a) == IF Len(a.kept) >= Limit THEN CompactSamples(a, FALSE) ELSE a

\* The list with room for one more time.
LEMMA RoomToJoin ==
  ASSUME NEW a, NEW M, NEW n \in Nat, Joined(a, M, n), NEW room, room = RoomIn(a),
         n > 0 => M[n] \in Int
  PROVE  /\ room \in StreamsOf(Int) /\ room.count = n /\ Len(room.kept) < Limit
         /\ Sorted(room.kept)
         /\ n = 0 => room.kept = <<>>
         /\ n > 0 => /\ room.kept # <<>> /\ room.kept[1] = M[1]
                     /\ room.kept[Len(room.kept)] <= M[n]
<1> DEFINE q == a.kept
           m == Len(q)
<1>1. a \in StreamsOf(Int) /\ a.count = n /\ m <= Limit /\ Sorted(q)
  BY DEF Joined
<1>2. q \in Seq(Int) /\ m \in Nat /\ a.stride \in Nat \ {0}
  BY <1>1, StreamParts
<1>3. n > 0 => q # <<>> /\ q[1] = M[1] /\ q[m] <= M[n]
  BY DEF Joined
<1>4. n = 0 => q = <<>>
  BY DEF Joined
<1>5. CASE m >= Limit
  <2> DEFINE h == KeepEveryOther(q, FALSE)
             p == Len(h)
  <2>1. h \in Seq(Int) /\ HalfOf(q, FALSE, h)
    BY <1>2, Halved
  <2> DEFINE e == 2 * a.stride
  <2>3. e \in Nat \ {0}
    <3> DEFINE d == a.stride
    <3>1. d \in Nat \ {0}
      BY <1>2
    <3> HIDE DEF d
    <3>2. 2 * d \in Nat \ {0}
      BY <3>1
    <3> QED
      BY <3>2 DEF d
  <2>12. CompactSamples(a, FALSE) = [a EXCEPT !.kept = h, !.stride = e]
    BY DEF CompactSamples
  <2> HIDE DEF e
  <2>2. room = [layout |-> a.layout, count |-> a.count, kept |-> h, stride |-> e,
                pending |-> a.pending, last |-> a.last]
    <3>1. room = CompactSamples(a, FALSE)
      BY <1>5 DEF RoomIn
    <3> HIDE DEF h
    <3>2. CompactSamples(a, FALSE) =
              [layout |-> a.layout, count |-> a.count, kept |-> h, stride |-> e,
               pending |-> a.pending, last |-> a.last]
      BY <1>1, <2>12, StreamThinned
    <3> QED
      BY <3>1, <3>2
  <2> HIDE DEF h
  <2>4. room \in StreamsOf(Int) /\ room.count = n /\ room.kept = h
    <3>1. a.layout \in Layouts \cup {NoLayout} /\ a.count \in Nat /\ a.pending \in Seq(Int) /\ a.last \in Int
      BY <1>1, StreamParts
    <3>2. room \in StreamsOf(Int)
      BY <2>1, <2>2, <2>3, <3>1 DEF StreamsOf
    <3> QED
      BY <1>1, <2>2, <3>2
  <2>13. p \in Nat
    BY <2>1
  <2>14. p = (m + 1) \div 2 /\ \A k \in 1..p : h[k] = q[2 * k - 1]
    BY <2>1 DEF HalfOf
  <2>5. p \in Nat /\ p = (m + 1) \div 2 /\ \A k \in 1..p : h[k] = q[2 * k - 1]
    BY <2>13, <2>14, Zenon
  <2> HIDE DEF p
  <2>6. m >= 2 /\ m = Limit /\ p < Limit /\ p >= 1 /\ \A k \in 1..p : 2 * k - 1 \in 1..m
    <3> HIDE DEF m
    <3>1. m = Limit /\ m >= 2
      BY <1>1, <1>2, <1>5, Limits
    <3> QED
      BY <1>2, <2>5, <3>1
  <2>7. Sorted(h)
    <3> SUFFICES ASSUME NEW j \in 1..p, NEW k \in 1..p, j <= k PROVE h[j] <= h[k]
      BY DEF Sorted, p
    <3>1. 2 * j - 1 \in 1..m /\ 2 * k - 1 \in 1..m /\ 2 * j - 1 <= 2 * k - 1
      BY <2>5, <2>6
    <3>2. q[2 * j - 1] <= q[2 * k - 1]
      BY <1>1, <3>1 DEF Sorted
    <3> QED
      BY <2>5, <3>2
  <2>8. n > 0
    <3>1. m # 0
      <4> HIDE DEF m
      <4> QED BY <1>2, <2>6
    <3> QED
      BY <1>4, <3>1
  <2>9. h[1] = q[1] /\ h # <<>>
    <3>1. 1 \in 1..p /\ 2 * 1 - 1 = 1
      BY <2>5, <2>6
    <3>2. h[1] = q[1]
      <4>1. h[1] = q[2 * 1 - 1]
        BY <2>5, <3>1
      <4> QED
        BY <3>1, <4>1
    <3>3. p # 0
      BY <2>6
    <3> QED
      BY <3>2, <3>3 DEF p
  <2>10. h[p] <= M[n]
    <3>1. p \in 1..p
      BY <2>5, <2>6
    <3>2. 2 * p - 1 \in 1..m /\ h[p] = q[2 * p - 1]
      BY <2>5, <2>6, <3>1
    <3>3. m \in 1..m /\ 2 * p - 1 <= m
      <4> HIDE DEF m
      <4> QED BY <1>2, <2>6, <3>2
    <3>4. q[2 * p - 1] <= q[m]
      BY <1>1, <3>2, <3>3 DEF Sorted
    <3>5. q[2 * p - 1] \in Int /\ q[m] \in Int
      BY <1>2, <3>2, <3>3
    <3>6. q[m] <= M[n] /\ M[n] \in Int
      BY <1>3, <2>8
    <3> HIDE DEF m, q
    <3> QED
      BY <3>2, <3>4, <3>5, <3>6
  <2>11. n # 0
    BY <2>8
  <2> QED
    BY <1>3, <2>4, <2>6, <2>7, <2>8, <2>9, <2>10, <2>11 DEF p
<1>6. CASE ~(m >= Limit)
  <2>1. room = a
    BY <1>6 DEF RoomIn
  <2>2. m < Limit
    <3> HIDE DEF m
    <3> QED BY <1>2, <1>6, Limits
  <2> QED
    BY <1>1, <1>3, <1>4, <2>1, <2>2
<1> QED
  BY <1>5, <1>6

\* One more time of the merged list is joined.
LEMMA JoinStep ==
  ASSUME NEW M \in Seq(Int), Sorted(M), NEW n \in 0..(Len(M) - 1), NEW a, Joined(a, M, n)
  PROVE  Joined(Join(a, M[n + 1]), M, n + 1)
<1> DEFINE time == M[n + 1]
           room == RoomIn(a)
           due == a.count % room.stride = 0
           later == room.kept = <<>> \/ time > Last(room.kept)
           kept == IF due /\ later THEN Append(room.kept, time) ELSE room.kept
           pending == IF due THEN <<>> ELSE <<time>>
           next == room.count + 1
           c == Join(a, time)
<1>1. c = [room EXCEPT !.count = next, !.kept = kept, !.pending = pending]
  BY DEF Join, RoomIn, Limit
<1>2. /\ n \in Nat /\ n + 1 \in 1..Len(M) /\ (n > 0 => n \in 1..Len(M)) /\ n + 1 \in Nat
      /\ n + 1 > 0 /\ n + 1 # 0
  OBVIOUS
<1>3. time \in Int /\ (n > 0 => M[n] \in Int /\ M[n] <= time)
  BY <1>2 DEF Sorted
<1> HIDE DEF time
<1>4. a.count = n
  BY DEF Joined
<1>5. room = RoomIn(a)
  OBVIOUS
<1> HIDE DEF room
<1>6. /\ room \in StreamsOf(Int) /\ room.count = n /\ Len(room.kept) < Limit
      /\ Sorted(room.kept)
      /\ n = 0 => room.kept = <<>>
      /\ n > 0 => /\ room.kept # <<>> /\ room.kept[1] = M[1]
                  /\ room.kept[Len(room.kept)] <= M[n]
  <2>1. n > 0 => M[n] \in Int
    BY <1>3
  <2> QED
    BY <1>2, <1>5, <2>1, RoomToJoin
<1> DEFINE q == room.kept
           m == Len(q)
<1>7. q \in Seq(Int) /\ m \in Nat /\ room.stride \in Nat \ {0} /\ room.pending \in Seq(Int)
  BY <1>6, StreamParts
<1>8. next = n + 1
  BY <1>6
<1>9. n > 0 => m \in 1..m /\ 1 \in 1..m /\ q[m] \in Int /\ q[m] <= time
  <2> SUFFICES ASSUME n > 0 PROVE m \in 1..m /\ 1 \in 1..m /\ q[m] \in Int /\ q[m] <= time
    OBVIOUS
  <2>1. q # <<>> /\ q[m] <= M[n]
    BY <1>6
  <2>2. m \in 1..m /\ 1 \in 1..m /\ q[m] \in Int
    <3> HIDE DEF q
    <3> QED BY <1>7, <2>1
  <2> HIDE DEF m, q
  <2> QED
    BY <1>3, <2>1, <2>2
<1>10. /\ kept \in Seq(Int) /\ Len(kept) <= Limit /\ Sorted(kept) /\ kept # <<>>
       /\ kept[1] = M[1] /\ kept[Len(kept)] <= time
       /\ IF due THEN kept[Len(kept)] = time ELSE Len(kept) < Limit
  <2>1. CASE due /\ later
    <3>1. kept = Append(q, time)
      BY <2>1
    <3> HIDE DEF kept
    <3>2. /\ kept \in Seq(Int) /\ Len(kept) = m + 1 /\ kept[m + 1] = time
          /\ \A k \in 1..m : kept[k] = q[k]
      BY <1>3, <1>7, <3>1
    <3>3. \A k \in 1..m : q[k] <= time /\ q[k] \in Int
      <4> SUFFICES ASSUME NEW k \in 1..m PROVE q[k] <= time /\ q[k] \in Int
        OBVIOUS
      <4>1. n > 0
        <5>1. m # 0
          <6> HIDE DEF m
          <6> QED BY <1>7
        <5>2. n # 0
          BY <1>6, <5>1
        <5> QED BY <1>2, <5>2
      <4>2. q[k] <= q[m]
        <5>1. k <= m
          <6> HIDE DEF m
          <6> QED BY <1>7
        <5> QED
          BY <1>6, <1>9, <4>1, <5>1 DEF Sorted
      <4>3. q[k] \in Int /\ q[m] \in Int /\ q[m] <= time
        BY <1>7, <1>9, <4>1
      <4> HIDE DEF q, m
      <4> QED
        BY <1>3, <4>2, <4>3
    <3>4. ASSUME NEW j \in 1..(m + 1), NEW k \in 1..(m + 1), j <= k PROVE kept[j] <= kept[k]
      <4>1. CASE k = m + 1 /\ j = m + 1
        BY <1>3, <3>2, <4>1
      <4>2. CASE k = m + 1 /\ j # m + 1
        <5>1. j \in 1..m
          <6> HIDE DEF m
          <6> QED BY <1>7, <4>2
        <5> QED
          BY <3>2, <3>3, <4>2, <5>1
      <4>3. CASE k # m + 1
        <5>1. j \in 1..m /\ k \in 1..m
          <6> HIDE DEF m
          <6> QED BY <1>7, <3>4, <4>3
        <5>2. q[j] <= q[k]
          BY <1>6, <3>4, <5>1 DEF Sorted
        <5> QED
          BY <3>2, <5>1, <5>2
      <4> QED
        BY <4>1, <4>2, <4>3
    <3>5. Sorted(kept)
      BY <3>2, <3>4 DEF Sorted
    <3>6. m + 1 <= Limit /\ m + 1 # 0
      <4>1. m < Limit
        BY <1>6
      <4> HIDE DEF m
      <4> QED BY <1>7, <4>1, Limits
    <3>7. kept # <<>> /\ kept[Len(kept)] = time /\ Len(kept) <= Limit
      BY <3>2, <3>6
    <3>8. kept[1] = M[1]
      <4>1. CASE n = 0
        <5>1. m = 0
          BY <1>6, <4>1
        <5>2. m + 1 = 1 /\ n + 1 = 1
          BY <4>1, <5>1
        <5>3. kept[1] = time
          BY <3>2, <5>2
        <5> QED
          BY <5>2, <5>3 DEF time
      <4>2. CASE n # 0
        <5>1. n > 0
          BY <1>2, <4>2
        <5>2. 1 \in 1..m /\ q[1] = M[1]
          BY <1>6, <1>9, <5>1
        <5> QED
          BY <3>2, <5>2
      <4> QED
        BY <4>1, <4>2
    <3>9. kept[Len(kept)] <= time
      BY <1>3, <3>7
    <3> QED
      BY <2>1, <3>2, <3>5, <3>7, <3>8, <3>9
  <2>2. CASE ~(due /\ later)
    <3>1. kept = q
      BY <2>2
    <3> HIDE DEF kept
    <3>2. n > 0
      <4>1. CASE n = 0
        <5>1. later
          BY <1>6, <4>1
        <5>2. (0 * room.stride) % room.stride = 0 /\ 0 * room.stride = 0
          BY <1>7, MultipleIs
        <5>3. due
          BY <1>4, <4>1, <5>2
        <5> QED
          BY <2>2, <5>1, <5>3
      <4>2. CASE n # 0
        BY <1>2, <4>2
      <4> QED
        BY <4>1, <4>2
    <3>3. /\ q # <<>> /\ q[1] = M[1] /\ q[m] \in Int /\ q[m] <= time /\ m < Limit
      BY <1>6, <1>9, <3>2
    <3>4. m <= Limit
      <4>1. m < Limit
        BY <1>6
      <4> HIDE DEF m
      <4> QED BY <1>7, <4>1, Limits
    <3>5. due => q[m] = time
      <4> SUFFICES ASSUME due PROVE q[m] = time
        OBVIOUS
      <4>1. ~(time > q[m])
        BY <2>2 DEF Last
      <4>2. q[m] \in Int /\ q[m] <= time
        BY <3>3
      <4> HIDE DEF q, m
      <4> QED
        BY <1>3, <4>1, <4>2
    <3> QED
      BY <1>6, <1>7, <3>1, <3>3, <3>4, <3>5
  <2> QED
    BY <2>1, <2>2
<1>11. pending \in Seq(Int) /\ IF due THEN pending = <<>> ELSE pending = <<time>> /\ pending # <<>>
  BY <1>3
<1> HIDE DEF kept, pending, due, later, next, c
<1>12. c = [layout |-> room.layout, count |-> next, kept |-> kept, stride |-> room.stride,
            pending |-> pending, last |-> room.last]
  <2> DEFINE u == [room EXCEPT !.count = next]
             v == [u EXCEPT !.kept = kept]
             w == [v EXCEPT !.pending = pending]
  <2>1. u = [layout |-> room.layout, count |-> next, kept |-> room.kept, stride |-> room.stride,
             pending |-> room.pending, last |-> room.last]
    BY <1>6, StreamReplaced
  <2>2. c = w
    BY <1>1
  <2> HIDE DEF u
  <2>3. v = [layout |-> room.layout, count |-> next, kept |-> kept, stride |-> room.stride,
             pending |-> room.pending, last |-> room.last]
    BY <2>1
  <2> HIDE DEF v
  <2>4. w = [layout |-> room.layout, count |-> next, kept |-> kept, stride |-> room.stride,
             pending |-> pending, last |-> room.last]
    BY <2>3
  <2> HIDE DEF w
  <2> QED
    BY <2>2, <2>4
<1>13. c \in StreamsOf(Int) /\ c.count = n + 1 /\ c.kept = kept /\ c.pending = pending
  <2>1. room.layout \in Layouts \cup {NoLayout} /\ room.last \in Int
    BY <1>6, StreamParts
  <2>2. next \in Nat
    BY <1>2, <1>8
  <2>3. c \in StreamsOf(Int)
    BY <1>7, <1>10, <1>11, <1>12, <2>1, <2>2 DEF StreamsOf
  <2> QED
    BY <1>8, <1>12, <2>3
<1>14. time = M[n + 1]
  BY DEF time
<1>15. Joined(c, M, n + 1)
  <2>1. Len(c.kept) <= Limit /\ Sorted(c.kept)
    BY <1>10, <1>13
  <2>2. c.kept # <<>> /\ c.kept[1] = M[1] /\ c.kept[Len(c.kept)] <= M[n + 1]
    BY <1>10, <1>13, <1>14, Zenon
  <2>3. IF c.pending = <<>> THEN c.kept[Len(c.kept)] = M[n + 1]
        ELSE c.pending = <<M[n + 1]>> /\ Len(c.kept) < Limit
    <3>1. CASE due
      BY <1>10, <1>11, <1>13, <1>14, <3>1, Zenon
    <3>2. CASE ~due
      BY <1>10, <1>11, <1>13, <1>14, <3>2, Zenon
    <3> QED
      BY <3>1, <3>2
  <2> QED
    BY <1>2, <1>13, <2>1, <2>2, <2>3, Zenon DEF Joined
<1> QED
  BY <1>15 DEF c, time

\* The joined times are sorted, and begin and end as the merged list does (stitchGroup).
LEMMA StitchedTimes ==
  ASSUME StreamsIndexed, NEW g, Members(g) # {}
  PROVE  LET times == Stitched(g).times
             n == Len(Merged(g))
         IN  /\ Stitched(g).stride \in Nat \ {0}
             /\ times \in Seq(Int) /\ times # <<>> /\ Sorted(times)
             /\ times[1] = Merged(g)[1] /\ times[Len(times)] = Merged(g)[n]
<1> DEFINE M == Merged(g)
           n == Len(M)
           IsJoin(f) == f = [k \in 0..n |-> IF k = 0 THEN NewStream ELSE Join(f[k - 1], M[k])]
           join == CHOOSE f : IsJoin(f)
           all == join[n]
           times == Stitched(g).times
<1>1. M \in Seq(Int) /\ Sorted(M)
  BY MergedTimes
<1>2. n \in Nat \ {0}
  BY MergedEnds
<1>3. Stitched(g) =
          [stride |-> all.stride,
           times |-> IF all.pending # <<>> /\ Len(all.kept) >= Limit
                     THEN Front(all.kept) \o all.pending ELSE all.kept \o all.pending]
  BY DEF Stitched, Limit
<1> HIDE DEF M
<1>4. \E f : IsJoin(f)
  <2> DEFINE F == {a \in StreamsOf(Int) : \E k \in 0..n : Joined(a, M, k)}
             Next1(k, a) == IF k \in 0..(n - 1) /\ Joined(a, M, k) THEN Join(a, M[k + 1]) ELSE NewStream
             step == [z \in Nat \X F |-> Next1(z[1], z[2])]
  <2>1. NewStream \in F /\ Joined(NewStream, M, 0)
    <3>1. Joined(NewStream, M, 0)
      BY NewStreamIsJoined
    <3>2. NewStream \in StreamsOf(Int) /\ 0 \in 0..n
      BY <1>2, <3>1 DEF Joined
    <3> QED
      BY <3>1, <3>2
  <2>2. ASSUME NEW k \in 0..(n - 1), NEW a, Joined(a, M, k)
        PROVE  Joined(Join(a, M[k + 1]), M, k + 1) /\ Join(a, M[k + 1]) \in F
    <3>1. Joined(Join(a, M[k + 1]), M, k + 1)
      BY <1>1, <2>2, JoinStep
    <3>2. Join(a, M[k + 1]) \in StreamsOf(Int)
      BY <3>1 DEF Joined
    <3>3. k + 1 \in 0..n
      <4> HIDE DEF n
      <4> QED BY <1>2
    <3> QED
      BY <3>1, <3>2, <3>3
  <2> HIDE DEF F
  <2>3. step \in StepsOf(F)
    <3>1. ASSUME NEW k \in Nat, NEW a \in F PROVE Next1(k, a) \in F
      BY <2>1, <2>2
    <3> HIDE DEF Next1
    <3> QED
      BY <3>1 DEF StepsOf
  <2>4. PICK h : Runs(h, F, NewStream, step)
    <3> HIDE DEF step
    <3> QED
      BY <2>1, <2>3, Recursion
  <2>5. h \in [Nat -> F] /\ h[0] = NewStream /\ \A k \in Nat : h[k + 1] = Next1(k, h[k])
    <3> HIDE DEF Next1
    <3> QED
      BY <2>4 DEF Runs
  <2>6. \A k \in 0..n : Joined(h[k], M, k)
    <3> DEFINE Bad == {k \in Nat : k <= n /\ ~Joined(h[k], M, k)}
    <3>1. Bad = {}
      <4> SUFFICES ASSUME Bad # {} PROVE FALSE
        OBVIOUS
      <4>1. PICK k \in Bad : \A l \in Bad : k <= l
        BY LeastNumber
      <4>2. k \in Nat /\ k <= n /\ ~Joined(h[k], M, k)
        OBVIOUS
      <4>3. k # 0
        BY <2>1, <2>5, <4>2
      <4> HIDE DEF n
      <4>4. k - 1 \in Nat /\ k - 1 \in 0..(n - 1) /\ k - 1 + 1 = k /\ ~(k <= k - 1) /\ k - 1 <= n
        BY <1>2, <4>2, <4>3
      <4>5. Joined(h[k - 1], M, k - 1)
        BY <4>1, <4>4
      <4>6. h[k] = Join(h[k - 1], M[k])
        BY <2>5, <4>4, <4>5
      <4>7. Joined(Join(h[k - 1], M[k - 1 + 1]), M, k - 1 + 1)
        BY <2>2, <4>4, <4>5
      <4> QED
        BY <4>2, <4>4, <4>6, <4>7
    <3> HIDE DEF n
    <3> QED
      BY <1>2, <3>1
  <2> HIDE DEF n
  <2>7. ASSUME NEW k \in 0..n, k # 0 PROVE h[k] = Join(h[k - 1], M[k])
    <3>1. k - 1 \in Nat /\ k - 1 \in 0..(n - 1) /\ k - 1 \in 0..n /\ k - 1 + 1 = k
      BY <1>2, <2>7
    <3>2. Joined(h[k - 1], M, k - 1)
      BY <2>6, <3>1
    <3>3. h[k - 1 + 1] = Next1(k - 1, h[k - 1])
      BY <2>5, <3>1
    <3> QED
      BY <3>1, <3>2, <3>3
  <2> DEFINE f == [k \in 0..n |-> h[k]]
  <2>8. ASSUME NEW k \in 0..n PROVE f[k] = IF k = 0 THEN NewStream ELSE Join(f[k - 1], M[k])
    <3>1. CASE k = 0
      BY <2>5, <3>1
    <3>2. CASE k # 0
      <4>1. k - 1 \in 0..n
        BY <1>2, <3>2
      <4>2. f[k] = h[k] /\ f[k - 1] = h[k - 1]
        BY <4>1
      <4> QED
        BY <2>7, <3>2, <4>2
    <3> QED
      BY <3>1, <3>2
  <2>9. f = [k \in 0..n |-> f[k]]
    OBVIOUS
  <2> HIDE DEF f
  <2>10. f = [k \in 0..n |-> IF k = 0 THEN NewStream ELSE Join(f[k - 1], M[k])]
    BY <2>8, <2>9
  <2> QED
    BY <2>10 DEF n
<1>5. IsJoin(join)
  <2> HIDE DEF IsJoin
  <2> QED
    BY <1>4, Zenon
<1> HIDE DEF join
<1>6. \A k \in 0..n : join[k] = IF k = 0 THEN NewStream ELSE Join(join[k - 1], M[k])
  BY <1>5
<1> HIDE DEF n
<1>7. Joined(all, M, n)
  <2> DEFINE Bad == {k \in Nat : k <= n /\ ~Joined(join[k], M, k)}
  <2>1. Bad = {}
    <3> SUFFICES ASSUME Bad # {} PROVE FALSE
      OBVIOUS
    <3>1. PICK k \in Bad : \A l \in Bad : k <= l
      BY LeastNumber
    <3>2. k \in Nat /\ k \in 0..n /\ ~Joined(join[k], M, k)
      BY <1>2
    <3>3. k # 0
      BY <1>6, <3>2, NewStreamIsJoined
    <3>4. k - 1 \in Nat /\ k - 1 \in 0..(n - 1) /\ k - 1 + 1 = k /\ ~(k <= k - 1) /\ k - 1 <= n
      BY <1>2, <3>2, <3>3
    <3>5. Joined(join[k - 1], M, k - 1)
      BY <3>1, <3>4
    <3>6. Joined(Join(join[k - 1], M[k - 1 + 1]), M, k - 1 + 1)
      BY <1>1, <3>4, <3>5, JoinStep DEF n
    <3>7. join[k] = Join(join[k - 1], M[k])
      BY <1>6, <3>2, <3>3
    <3> QED
      BY <3>2, <3>4, <3>6, <3>7
  <2> QED
    BY <1>2, <2>1
<1> HIDE DEF all
<1> DEFINE q == all.kept
           m == Len(q)
<1>8. /\ all \in StreamsOf(Int) /\ Sorted(q) /\ q # <<>> /\ q[1] = M[1] /\ q[m] <= M[n]
      /\ IF all.pending = <<>> THEN q[m] = M[n]
         ELSE all.pending = <<M[n]>> /\ m < Limit
  <2>1. n > 0
    BY <1>2
  <2> QED
    BY <1>7, <2>1, Zenon DEF Joined
<1>9. all.stride \in Nat \ {0} /\ q \in Seq(Int) /\ m \in Nat
  BY <1>8, StreamParts
<1>10. m # 0 /\ 1 \in 1..m /\ m \in 1..m /\ q[m] \in Int
  <2>1. m # 0
    BY <1>8, <1>9
  <2>2. 1 \in 1..m /\ m \in 1..m
    <3> HIDE DEF m
    <3> QED BY <1>9, <2>1
  <2> QED
    BY <1>9, <2>1, <2>2
<1>11. M[n] \in Int
  BY <1>1, <1>2 DEF n
<1>12. Stitched(g).stride = all.stride
  BY <1>3
<1>13. CASE all.pending = <<>>
  <2>1. times = q \o <<>>
    BY <1>3, <1>13
  <2>2. times = q
    BY <1>9, <2>1
  <2> HIDE DEF times
  <2> QED
    BY <1>8, <1>9, <1>12, <1>13, <2>2 DEF n, M, times
<1>14. CASE all.pending # <<>>
  <2>1. all.pending = <<M[n]>> /\ m < Limit
    BY <1>8, <1>14
  <2>2. ~(m >= Limit)
    <3> HIDE DEF m
    <3> QED BY <1>9, <2>1, Limits
  <2>3. times = q \o <<M[n]>>
    <3>1. times = q \o all.pending
      <4>1. times = IF all.pending # <<>> /\ m >= Limit THEN Front(q) \o all.pending
                    ELSE q \o all.pending
        BY <1>3
      <4> HIDE DEF times, m
      <4> QED
        BY <2>2, <4>1
    <3> QED
      BY <2>1, <3>1
  <2> HIDE DEF times
  <2>4. /\ times \in Seq(Int) /\ Len(times) = m + 1 /\ times[m + 1] = M[n]
        /\ \A k \in 1..m : times[k] = q[k]
    <3> DEFINE x == M[n]
    <3>1. x \in Int
      BY <1>11
    <3>2. times = q \o <<x>>
      BY <2>3
    <3> HIDE DEF x, q
    <3>3. /\ times \in Seq(Int) /\ Len(times) = m + 1 /\ times[m + 1] = x
          /\ \A k \in 1..m : times[k] = q[k]
      BY <1>9, <3>1, <3>2
    <3> QED
      BY <3>3 DEF x
  <2>5. \A k \in 1..m : q[k] <= M[n]
    <3> SUFFICES ASSUME NEW k \in 1..m PROVE q[k] <= M[n]
      OBVIOUS
    <3>1. k <= m
      <4> HIDE DEF m
      <4> QED BY <1>9
    <3>2. q[k] <= q[m]
      BY <1>8, <1>10, <3>1 DEF Sorted
    <3>3. q[k] \in Int /\ q[m] \in Int /\ q[m] <= M[n]
      BY <1>8, <1>9, <1>10
    <3> HIDE DEF q, m
    <3> QED
      BY <1>11, <3>2, <3>3
  <2>6. ASSUME NEW j \in 1..(m + 1), NEW k \in 1..(m + 1), j <= k PROVE times[j] <= times[k]
    <3>1. CASE k = m + 1 /\ j = m + 1
      BY <1>11, <2>4, <3>1
    <3>2. CASE k = m + 1 /\ j # m + 1
      <4>1. j \in 1..m
        <5> HIDE DEF m
        <5> QED BY <1>9, <3>2
      <4> QED
        BY <2>4, <2>5, <3>2, <4>1
    <3>3. CASE k # m + 1
      <4>1. j \in 1..m /\ k \in 1..m
        <5> HIDE DEF m
        <5> QED BY <1>9, <2>6, <3>3
      <4>2. q[j] <= q[k]
        BY <1>8, <2>6, <4>1 DEF Sorted
      <4> QED
        BY <2>4, <4>1, <4>2
    <3> QED
      BY <3>1, <3>2, <3>3
  <2>7. Sorted(times)
    BY <2>4, <2>6 DEF Sorted
  <2>8. times # <<>> /\ times[1] = M[1] /\ times[Len(times)] = M[n]
    <3>1. times[1] = q[1]
      BY <1>10, <2>4
    <3>2. m + 1 # 0
      BY <1>9
    <3>3. times # <<>>
      BY <2>4, <3>2
    <3> QED
      BY <1>8, <2>4, <3>1, <3>3
  <2> QED
    BY <1>9, <1>12, <2>4, <2>7, <2>8 DEF n, M, times
<1> QED
  BY <1>13, <1>14

(***************************************************************************)
(* The sample closest in time (nearestSampleIndex).                         *)
(***************************************************************************)
LEMMA NearestIs ==
  ASSUME NEW times \in Seq(Int), times # <<>>, Sorted(times), NEW at \in Int
  PROVE  LET m == NearestSample(times, at)
         IN  /\ m \in 0..Len(times)
             /\ \A k \in 1..Len(times) :
                    IF m = 0 THEN Distance(times[k], at) > Tolerance
                    ELSE Distance(times[m], at) <= Distance(times[k], at)
<1> DEFINE n == Len(times)
           due == {k \in 1..n : times[k] >= at}
           next == IF due = {} THEN n + 1 ELSE Min(due)
           found == IF \/ next > n
                       \/ next > 1 /\ Distance(times[next - 1], at) < Distance(times[next], at)
                    THEN next - 1 ELSE next
           m == NearestSample(times, at)
<1>1. m = IF Distance(times[found], at) <= Tolerance THEN found ELSE 0
  BY DEF NearestSample
<1>2. n \in Nat \ {0} /\ \A k \in 1..n : times[k] \in Int
  OBVIOUS
<1>3. \A j, k \in 1..n : j <= k => times[j] <= times[k]
  BY DEF Sorted
<1> HIDE DEF n, found, m
<1>4. /\ next \in 1..(n + 1)
      /\ \A k \in 1..n : IF k < next THEN times[k] < at ELSE times[k] >= at
  <2>1. CASE due = {}
    <3>1. next = n + 1
      BY <2>1
    <3> HIDE DEF next
    <3> QED
      BY <1>2, <2>1, <3>1
  <2>2. CASE due # {}
    <3>1. due \subseteq Nat
      OBVIOUS
    <3>2. \E k \in due : \A j \in due : k <= j
      <4> HIDE DEF due
      <4> QED
        BY <2>2, <3>1, LeastNumber
    <3>3. next \in due /\ \A j \in due : next <= j
      <4>1. next = Min(due)
        BY <2>2
      <4> HIDE DEF due, next
      <4> QED
        BY <3>2, <4>1, Zenon DEF Min
    <3> HIDE DEF next
    <3>4. next \in 1..n /\ times[next] >= at
      BY <3>3
    <3>5. ASSUME NEW k \in 1..n PROVE IF k < next THEN times[k] < at ELSE times[k] >= at
      <4>1. CASE k < next
        <5>1. k \notin due
          BY <1>2, <3>3, <3>4, <4>1
        <5>2. times[k] \in Int /\ ~(times[k] >= at)
          BY <1>2, <5>1
        <5> QED
          BY <4>1, <5>2
      <4>2. CASE ~(k < next)
        <5>1. next <= k
          BY <1>2, <3>4, <4>2
        <5>2. times[next] <= times[k] /\ times[next] \in Int /\ times[k] \in Int
          BY <1>2, <1>3, <3>4, <5>1
        <5> QED
          BY <3>4, <4>2, <5>2
      <4> QED
        BY <4>1, <4>2
    <3> QED
      BY <1>2, <3>4, <3>5
  <2> QED
    BY <2>1, <2>2
<1> HIDE DEF next, due
<1>5. \A a \in Int : Distance(a, at) \in Nat /\ (a < at => Distance(a, at) = at - a) /\ (a >= at => Distance(a, at) = a - at)
  BY DEF Distance
<1>6. ASSUME NEW k \in 1..n, k < next
      PROVE  next > 1 /\ next - 1 \in 1..n /\ Distance(times[next - 1], at) <= Distance(times[k], at)
  <2>1. next > 1 /\ next - 1 \in 1..n /\ next - 1 < next /\ k <= next - 1
    BY <1>2, <1>4, <1>6
  <2>2. /\ times[next - 1] \in Int /\ times[k] \in Int /\ times[k] <= times[next - 1]
        /\ times[next - 1] < at /\ times[k] < at
    BY <1>2, <1>3, <1>4, <1>6, <2>1
  <2>3. Distance(times[next - 1], at) = at - times[next - 1] /\ Distance(times[k], at) = at - times[k]
    BY <1>5, <2>2
  <2> QED
    BY <2>1, <2>2, <2>3
<1>7. ASSUME NEW k \in 1..n, ~(k < next)
      PROVE  next \in 1..n /\ Distance(times[next], at) <= Distance(times[k], at)
  <2>1. next \in 1..n /\ next <= k /\ ~(next < next)
    BY <1>2, <1>4, <1>7
  <2>2. /\ times[next] \in Int /\ times[k] \in Int /\ times[next] <= times[k]
        /\ times[next] >= at /\ times[k] >= at
    BY <1>2, <1>3, <1>4, <1>7, <2>1
  <2>3. Distance(times[next], at) = times[next] - at /\ Distance(times[k], at) = times[k] - at
    BY <1>5, <2>2
  <2> QED
    BY <2>1, <2>2, <2>3
<1>8. found \in 1..n /\ \A k \in 1..n : Distance(times[found], at) <= Distance(times[k], at)
  <2>1. CASE next > n
    <3>1. next = n + 1 /\ found = next - 1 /\ found \in 1..n
      BY <1>2, <1>4, <2>1 DEF found
    <3>2. \A k \in 1..n : k < next
      BY <1>2, <3>1
    <3> QED
      BY <1>6, <3>1, <3>2
  <2>2. CASE ~(next > n)
    <3>1. next \in 1..n
      BY <1>2, <1>4, <2>2
    <3>2. CASE next > 1 /\ Distance(times[next - 1], at) < Distance(times[next], at)
      <4>1. found = next - 1 /\ found \in 1..n
        BY <1>2, <3>1, <3>2 DEF found
      <4>2. ASSUME NEW k \in 1..n PROVE Distance(times[found], at) <= Distance(times[k], at)
        <5>1. CASE k < next
          BY <1>6, <4>1, <5>1
        <5>2. CASE ~(k < next)
          <6>1. Distance(times[next], at) <= Distance(times[k], at)
            BY <1>7, <5>2
          <6>2. /\ Distance(times[next], at) \in Nat /\ Distance(times[k], at) \in Nat
                /\ Distance(times[found], at) \in Nat
            BY <1>2, <1>5, <3>1, <4>1
          <6> QED
            BY <3>2, <4>1, <6>1, <6>2
        <5> QED
          BY <5>1, <5>2
      <4> QED
        BY <4>1, <4>2
    <3>3. CASE ~(next > 1 /\ Distance(times[next - 1], at) < Distance(times[next], at))
      <4>1. found = next
        BY <2>2, <3>3 DEF found
      <4>2. ASSUME NEW k \in 1..n PROVE Distance(times[found], at) <= Distance(times[k], at)
        <5>1. CASE k < next
          <6>1. /\ next > 1 /\ next - 1 \in 1..n
                /\ Distance(times[next - 1], at) <= Distance(times[k], at)
            BY <1>6, <5>1
          <6>2. ~(Distance(times[next - 1], at) < Distance(times[next], at))
            BY <3>3, <6>1
          <6>3. /\ Distance(times[next], at) \in Nat /\ Distance(times[k], at) \in Nat
                /\ Distance(times[next - 1], at) \in Nat
            BY <1>2, <1>5, <3>1, <6>1
          <6> QED
            BY <4>1, <6>1, <6>2, <6>3
        <5>2. CASE ~(k < next)
          BY <1>7, <4>1, <5>2
        <5> QED
          BY <5>1, <5>2
      <4> QED
        BY <3>1, <4>1, <4>2
    <3> QED
      BY <3>2, <3>3
  <2> QED
    BY <2>1, <2>2
<1>9. \A k \in 1..n : Distance(times[k], at) \in Nat
  BY <1>2, <1>5
<1>10. Tolerance \in Nat
  BY RecordingsAssumption
<1>11. CASE Distance(times[found], at) <= Tolerance
  <2>1. m = found /\ m \in 0..n /\ m # 0
    BY <1>1, <1>2, <1>8, <1>11
  <2> QED
    BY <1>8, <2>1 DEF m, n
<1>12. CASE ~(Distance(times[found], at) <= Tolerance)
  <2>1. m = 0 /\ m \in 0..n
    BY <1>1, <1>2, <1>12
  <2>2. ASSUME NEW k \in 1..n PROVE Distance(times[k], at) > Tolerance
    <3>1. /\ Distance(times[found], at) <= Distance(times[k], at)
          /\ Distance(times[k], at) \in Nat /\ Distance(times[found], at) \in Nat
      BY <1>8, <1>9
    <3> QED
      BY <1>10, <1>12, <3>1
  <2> QED
    BY <2>1, <2>2 DEF m, n
<1> QED
  BY <1>11, <1>12

(***************************************************************************)
(* The frames of a list of samples, F, read one by one.                     *)
(***************************************************************************)
NoFrames(stride) == [NewRecording EXCEPT !.stride = stride]

IsRead(f, n, F, stride) ==
    f = [k \in 0..n |-> IF k = 0 THEN NoFrames(stride) ELSE AppendBounded(f[k - 1], F[k])]

\* The list, and what is left of its first n frames.
Numbered(F, n, T) == /\ \A k \in 1..n : F[k] \in T
                     /\ \A g \in T : g.i \in Nat

Spans(q, F, n, T) == /\ q \in Seq(T) /\ q # <<>>
                     /\ q[1] = F[1] /\ q[Len(q)] = F[n]

\* A recording without frames, by the stride of the main stream.
LEMMA NoFramesIs ==
  ASSUME NEW T, NEW stride \in Nat \ {0}
  PROVE  NoFrames(stride) \in Recordings(T) /\ NoFrames(stride).frames = <<>>
<1>1. NoFrames(stride) = [frames |-> <<>>, stride |-> stride, count |-> 0, end |-> 0,
                          pending |-> <<>>, firstLsl |-> Missing]
  BY DEF NoFrames, NewRecording
<1>2. Missing \in Int /\ <<>> \in Seq(T)
  BY DEF Missing
<1> QED
  BY <1>1, <1>2 DEF Recordings

\* The recursion that reads the frames has a value.
LEMMA FramesAreRead ==
  ASSUME NEW n \in Nat, NEW T, NEW F, Numbered(F, n, T), NEW stride \in Nat \ {0}
  PROVE  \E f : IsRead(f, n, F, stride)
<1> USE DEF Numbered
<1> DEFINE S == Recordings(T)
           base == NoFrames(stride)
           Next1(k, r) == IF k \in 0..(n - 1) THEN AppendBounded(r, F[k + 1]) ELSE base
           step == [z \in Nat \X S |-> Next1(z[1], z[2])]
<1>1. base \in S
  BY NoFramesIs
<1>2. ASSUME NEW r \in S, NEW k \in 1..n PROVE AppendBounded(r, F[k]) \in S
  <2> DEFINE whole == [r EXCEPT !.frames = Append(r.frames, F[k])]
             b == AppendBounded(r, F[k])
  <2>1. /\ whole = [r EXCEPT !.frames = Append(r.frames, F[k])]
        /\ b = AppendBounded(r, F[k]) /\ F[k] \in T
    OBVIOUS
  <2> HIDE DEF whole, b
  <2>2. b \in Recordings(T)
    BY <1>2, <2>1, AppendBoundedThins
  <2> QED
    BY <2>1, <2>2
<1> HIDE DEF S, base
<1>3. step \in StepsOf(S)
  <2>1. ASSUME NEW k \in Nat, NEW r \in S PROVE Next1(k, r) \in S
    <3>1. CASE k \in 0..(n - 1)
      <4>1. k + 1 \in 1..n
        BY <3>1
      <4>2. AppendBounded(r, F[k + 1]) \in S
        BY <1>2, <4>1
      <4> QED
        BY <3>1, <4>2
    <3>2. CASE k \notin 0..(n - 1)
      BY <1>1, <3>2
    <3> QED
      BY <3>1, <3>2
  <2> HIDE DEF Next1
  <2> QED
    BY <2>1 DEF StepsOf
<1>4. PICK h : Runs(h, S, base, step)
  <2> HIDE DEF step
  <2> QED
    BY <1>1, <1>3, Recursion
<1>5. h \in [Nat -> S] /\ h[0] = base /\ \A k \in Nat : h[k + 1] = Next1(k, h[k])
  <2> HIDE DEF Next1
  <2> QED
    BY <1>4 DEF Runs
<1>6. ASSUME NEW k \in 0..n, k # 0 PROVE h[k] = AppendBounded(h[k - 1], F[k])
  <2>1. k - 1 \in Nat /\ k - 1 \in 0..(n - 1) /\ k - 1 + 1 = k
    BY <1>6
  <2>2. h[k - 1 + 1] = Next1(k - 1, h[k - 1])
    BY <1>5, <2>1
  <2> QED
    BY <2>1, <2>2
<1> DEFINE f == [k \in 0..n |-> h[k]]
<1>7. ASSUME NEW k \in 0..n PROVE f[k] = IF k = 0 THEN base ELSE AppendBounded(f[k - 1], F[k])
  <2>1. CASE k = 0
    BY <1>5, <2>1
  <2>2. CASE k # 0
    <3>1. k - 1 \in 0..n
      BY <2>2
    <3>2. f[k] = h[k] /\ f[k - 1] = h[k - 1]
      BY <3>1
    <3> QED
      BY <1>6, <2>2, <3>2
  <2> QED
    BY <2>1, <2>2
<1>8. f = [k \in 0..n |-> f[k]]
  OBVIOUS
<1> HIDE DEF f
<1>9. f = [k \in 0..n |-> IF k = 0 THEN base ELSE AppendBounded(f[k - 1], F[k])]
  BY <1>7, <1>8
<1>10. IsRead(f, n, F, stride)
  BY <1>9 DEF IsRead, base
<1> QED
  BY <1>10

\* However they are thinned, the first and the last frame stay, and each is one of the list.
LEMMA FramesStay ==
  ASSUME NEW n \in Nat \ {0}, NEW T, NEW F, Numbered(F, n, T), NEW stride \in Nat \ {0},
         NEW read, IsRead(read, n, F, stride)
  PROVE  Spans(BoundCache(read[n]).frames, F, n, T)
<1> USE DEF Numbered
<1> DEFINE Good(k) == LET q == read[k].frames
                      IN /\ read[k] \in Recordings(T)
                         /\ k = 0 => q = <<>>
                         /\ k > 0 => q # <<>> /\ q[1] = F[1] /\ q[Len(q)] = F[k]
<1>1. \A k \in 0..n : read[k] = IF k = 0 THEN NoFrames(stride) ELSE AppendBounded(read[k - 1], F[k])
  BY DEF IsRead
<1>2. Good(0)
  <2>1. read[0] = NoFrames(stride)
    BY <1>1
  <2> QED
    BY <2>1, NoFramesIs
<1>3. ASSUME NEW k \in 1..n, Good(k - 1) PROVE Good(k)
  <2> DEFINE r == read[k - 1]
             whole == [r EXCEPT !.frames = Append(r.frames, F[k])]
             b == AppendBounded(r, F[k])
             m == Len(r.frames)
  <2>1. read[k] = b
    <3>1. k \in 0..n /\ k # 0
      OBVIOUS
    <3> QED
      BY <1>1, <3>1
  <2>2. r \in Recordings(T) /\ F[k] \in T
    BY <1>3
  <2>3. /\ whole \in Recordings(T) /\ b \in Recordings(T)
        /\ whole.frames = Append(r.frames, F[k]) /\ Thins(whole, b)
    <3>1. whole = [r EXCEPT !.frames = Append(r.frames, F[k])] /\ b = AppendBounded(r, F[k])
      OBVIOUS
    <3> HIDE DEF whole, b, r
    <3> QED
      BY <2>2, <3>1, AppendBoundedThins
  <2> HIDE DEF whole, b
  <2>4. r.frames \in Seq(T) /\ m \in Nat
    BY <2>2, RecordingParts
  <2>5. /\ Len(whole.frames) = m + 1 /\ whole.frames[m + 1] = F[k]
        /\ \A j \in 1..m : whole.frames[j] = r.frames[j]
    <3> DEFINE q == r.frames
    <3> HIDE DEF q
    <3>1. q \in Seq(T) /\ whole.frames = Append(q, F[k])
      BY <2>3, <2>4 DEF q
    <3>2. /\ Len(whole.frames) = Len(q) + 1 /\ whole.frames[Len(q) + 1] = F[k]
          /\ \A j \in 1..Len(q) : whole.frames[j] = q[j]
      BY <2>2, <3>1
    <3> QED
      BY <3>2 DEF q
  <2>6. whole.frames # <<>> /\ whole.frames[Len(whole.frames)] = F[k]
    <3>1. m + 1 # 0
      BY <2>4
    <3> QED
      BY <2>5, <3>1
  <2>7. whole.frames[1] = F[1]
    <3>1. CASE k = 1
      <4>1. r.frames = <<>>
        BY <1>3, <3>1
      <4>2. m = 0
        BY <4>1
      <4> QED
        BY <2>5, <3>1, <4>2
    <3>2. CASE k # 1
      <4>1. k - 1 > 0
        BY <3>2
      <4>2. r.frames # <<>> /\ r.frames[1] = F[1]
        BY <1>3, <4>1
      <4>3. 1 \in 1..m
        BY <2>4, <4>2
      <4> QED
        BY <2>5, <4>2, <4>3
    <3> QED
      BY <3>1, <3>2
  <2>8. b.frames # <<>> /\ b.frames[1] = F[1] /\ b.frames[Len(b.frames)] = F[k]
    BY <2>3, <2>6, <2>7, Zenon DEF Thins
  <2>9. k # 0
    OBVIOUS
  <2> QED
    BY <2>1, <2>3, <2>8, <2>9
<1> HIDE DEF Good
<1>4. Good(n)
  <2> DEFINE Bad == {k \in Nat : k <= n /\ ~Good(k)}
  <2>1. Bad = {}
    <3> SUFFICES ASSUME Bad # {} PROVE FALSE
      OBVIOUS
    <3>1. PICK k \in Bad : \A l \in Bad : k <= l
      BY LeastNumber
    <3>2. k \in Nat /\ k <= n /\ ~Good(k)
      OBVIOUS
    <3>3. k # 0
      BY <1>2, <3>2
    <3>4. k \in 1..n /\ k - 1 \in Nat /\ k - 1 <= n /\ ~(k <= k - 1)
      BY <3>2, <3>3
    <3>5. Good(k - 1)
      BY <3>1, <3>4
    <3> QED
      BY <1>3, <3>2, <3>4, <3>5
  <2> QED
    BY <2>1
<1> DEFINE r == read[n]
           b == BoundCache(r)
<1>5. /\ r \in Recordings(T) /\ r.frames # <<>> /\ r.frames[1] = F[1]
      /\ r.frames[Len(r.frames)] = F[n]
  <2>1. n > 0
    OBVIOUS
  <2> QED
    BY <1>4, <2>1 DEF Good
<1> HIDE DEF r
<1>6. b \in Recordings(T) /\ Thins(r, b)
  BY <1>5, BoundCacheThins
<1> HIDE DEF b
<1>7. b.frames # <<>> /\ b.frames[1] = F[1] /\ b.frames[Len(b.frames)] = F[n]
  BY <1>5, <1>6, Zenon DEF Thins
<1>8. b.frames \in Seq(T)
  BY <1>6, RecordingParts
<1> QED
  BY <1>7, <1>8 DEF b, r, Spans

(***************************************************************************)
(* Which streams are drawn, and the frames made of them.                    *)
(***************************************************************************)
\* The group chosen for a role is one of that role, and has members.
LEMMA GroupIsThere ==
  ASSUME NEW ids, NEW role, Selected(role, ids) # {}
  PROVE  LET g == CHOOSE g \in Selected(role, ids) : TRUE
         IN  g \in GroupsOf(role) /\ Members(g) # {}
<1> DEFINE g == CHOOSE g \in Selected(role, ids) : TRUE
<1>1. g \in Selected(role, ids)
  BY Zenon
<1>2. Selected(role, ids) \subseteq GroupsOf(role)
  BY DEF Selected, Requested
<1> HIDE DEF g
<1>3. g \in GroupsOf(role)
  BY <1>1, <1>2
<1>4. g \in Groups
  BY <1>3 DEF GroupsOf
<1>5. Members(g) # {}
  BY <1>4 DEF Groups, Members
<1> QED
  BY <1>3, <1>5 DEF g

\* The master is the first of the roles that are able to be it.
LEMMA MasterIsARole ==
  ASSUME NEW choice, choice # {}, choice \subseteq {k \in 1..Len(MasterRoles) : MasterRoles[k] \in Roles}
  PROVE  MasterRoles[Min(choice)] \in Roles
<1>1. Len(MasterRoles) = 3
  BY DEF MasterRoles
<1>2. choice \subseteq Nat
  BY <1>1
<1>3. PICK x \in choice : \A y \in choice : x <= y
  BY <1>2, LeastNumber
<1>4. x = Min(choice)
  <2>1. choice \subseteq Int
    BY <1>2
  <2> QED
    BY <1>3, <2>1, MinIs
<1> QED
  BY <1>3, <1>4

\* What the pieces of a mapping give: for each role its joined times.
Playable(J, R) ==
    /\ J = [role \in R |-> J[role]]
    /\ \A role \in R : J[role] \in Seq(Int) /\ J[role] # <<>> /\ Sorted(J[role])

FrameOf(k, J, R, m) ==
    [i |-> k, t |-> J[m][k] - J[m][1],
     match |-> [role \in R |-> IF role = m THEN k ELSE NearestSample(J[role], J[m][k])]]

FramesBuilt(J, R, m, stride) ==
    LET read[k \in 0..Len(J[m])] ==
            IF k = 0 THEN NoFrames(stride) ELSE AppendBounded(read[k - 1], FrameOf(k, J, R, m))
    IN BoundCache(read[Len(J[m])])

\* Every frame kept is one of those made, and so are the first and the last one.
LEMMA FramesAreMade ==
  ASSUME NEW R, NEW m \in R, NEW J, Playable(J, R), NEW stride \in Nat \ {0}
  PROVE  LET q == FramesBuilt(J, R, m, stride).frames
             n == Len(J[m])
         IN  /\ q # <<>> /\ Len(q) \in Nat
             /\ q[1] = FrameOf(1, J, R, m) /\ q[Len(q)] = FrameOf(n, J, R, m)
             /\ \A f \in 1..Len(q) : \E k \in 1..n : q[f] = FrameOf(k, J, R, m)
<1> DEFINE n == Len(J[m])
           F == [k \in 1..n |-> FrameOf(k, J, R, m)]
           T == {F[k] : k \in 1..n}
           IsMade(f) == f = [k \in 0..n |-> IF k = 0 THEN NoFrames(stride)
                                            ELSE AppendBounded(f[k - 1], FrameOf(k, J, R, m))]
           read == CHOOSE f : IsMade(f)
<1>1. n \in Nat \ {0}
  <2>1. J[m] \in Seq(Int) /\ J[m] # <<>>
    BY DEF Playable
  <2> QED
    BY <2>1
<1>2. FramesBuilt(J, R, m, stride) = BoundCache(read[n])
  BY DEF FramesBuilt
<1> HIDE DEF n
<1>3. \A k \in 1..n : F[k] = FrameOf(k, J, R, m) /\ F[k] \in T
  OBVIOUS
<1>4. Numbered(F, n, T)
  <2>1. ASSUME NEW k \in 1..n PROVE F[k].i \in Nat
    BY <1>1, <1>3 DEF FrameOf
  <2> HIDE DEF F
  <2>2. \A g \in T : g.i \in Nat
    BY <2>1
  <2> QED
    BY <1>3, <2>2 DEF Numbered
<1> HIDE DEF F, T
<1>5. \A f : IsRead(f, n, F, stride) <=> IsMade(f)
  <2> SUFFICES ASSUME NEW f PROVE IsRead(f, n, F, stride) <=> IsMade(f)
    OBVIOUS
  <2>1. [k \in 0..n |-> IF k = 0 THEN NoFrames(stride) ELSE AppendBounded(f[k - 1], F[k])] =
        [k \in 0..n |-> IF k = 0 THEN NoFrames(stride)
                        ELSE AppendBounded(f[k - 1], FrameOf(k, J, R, m))]
    <3>1. ASSUME NEW k \in 0..n, k # 0 PROVE F[k] = FrameOf(k, J, R, m)
      <4>1. k \in 1..n
        BY <1>1, <3>1
      <4> QED
        BY <1>3, <4>1
    <3>2. \A k \in 0..n :
            (IF k = 0 THEN NoFrames(stride) ELSE AppendBounded(f[k - 1], F[k])) =
            (IF k = 0 THEN NoFrames(stride) ELSE AppendBounded(f[k - 1], FrameOf(k, J, R, m)))
      BY <3>1
    <3> QED
      BY <3>2
  <2> QED
    BY <2>1 DEF IsRead
<1>6. \E f : IsRead(f, n, F, stride)
  BY <1>1, <1>4, FramesAreRead
<1>7. IsMade(read)
  <2>1. \E f : IsMade(f)
    <3> HIDE DEF IsMade
    <3> QED
      BY <1>5, <1>6
  <2> HIDE DEF IsMade
  <2> QED
    BY <2>1, Zenon
<1> HIDE DEF read
<1>8. IsRead(read, n, F, stride)
  <2> HIDE DEF IsMade
  <2> QED
    BY <1>5, <1>7
<1> HIDE DEF IsMade
<1> DEFINE q == BoundCache(read[n]).frames
<1>9. Spans(q, F, n, T)
  BY <1>1, <1>4, <1>8, FramesStay
<1> HIDE DEF q
<1>10. q \in Seq(T) /\ q # <<>> /\ q[1] = F[1] /\ q[Len(q)] = F[n]
  BY <1>9 DEF Spans
<1>11. /\ q[1] = FrameOf(1, J, R, m) /\ q[Len(q)] = FrameOf(n, J, R, m) /\ Len(q) \in Nat
  BY <1>1, <1>3, <1>10
<1>12. ASSUME NEW f \in 1..Len(q) PROVE \E k \in 1..n : q[f] = FrameOf(k, J, R, m)
  <2>1. q[f] \in T
    BY <1>10
  <2>2. PICK k \in 1..n : q[f] = F[k]
    BY <2>1 DEF T
  <2> QED
    BY <1>3, <2>2
<1> QED
  BY <1>2, <1>10, <1>11, <1>12 DEF q, n

\* Each frame shows of every role the nearest sample.
LEMMA FrameIsNearest ==
  ASSUME NEW R, NEW m \in R, NEW J, Playable(J, R), NEW k \in 1..Len(J[m]), NEW role \in R
  PROVE  LET row == FrameOf(k, J, R, m)
             at == row.t + J[m][1]
             far(j) == Distance(J[role][j], at)
             shown == row.match[role]
         IN  \A j \in 1..Len(J[role]) :
                 IF shown = 0 THEN far(j) > Tolerance ELSE far(shown) <= far(j)
<1> DEFINE row == FrameOf(k, J, R, m)
           at == row.t + J[m][1]
           shown == row.match[role]
           q == J[role]
           p == J[m]
           n == Len(p)
<1>1. p \in Seq(Int) /\ p # <<>> /\ q \in Seq(Int) /\ q # <<>> /\ Sorted(q)
  BY DEF Playable
<1>2. row.t = p[k] - p[1] /\ shown = IF role = m THEN k ELSE NearestSample(q, p[k])
  BY DEF FrameOf
<1>3. n \in Nat /\ k \in 1..n /\ 1 \in 1..n
  <2>1. n \in Nat /\ k \in 1..n
    BY <1>1
  <2> QED
    BY <2>1
<1> HIDE DEF n
<1>4. p[k] \in Int /\ p[1] \in Int
  BY <1>1, <1>3 DEF n
<1>5. at = p[k]
  <2> DEFINE a == p[k]
             b == p[1]
  <2>1. a \in Int /\ b \in Int /\ at = (a - b) + b
    BY <1>2, <1>4
  <2> HIDE DEF a, b, at
  <2>2. at = a
    BY <2>1
  <2> QED
    BY <2>2 DEF a
<1> HIDE DEF at, shown, q, p
<1>6. ASSUME NEW j \in 1..Len(q)
      PROVE  IF shown = 0 THEN Distance(q[j], at) > Tolerance
             ELSE Distance(q[shown], at) <= Distance(q[j], at)
  <2>1. CASE role = m
    <3>1. shown = k /\ q = p /\ k # 0
      BY <1>2, <1>3, <2>1 DEF q, p
    <3>2. q[shown] = at /\ at \in Int
      BY <1>4, <1>5, <3>1
    <3>3. q[j] \in Int
      BY <1>1
    <3>4. Distance(at, at) = 0 /\ Distance(q[j], at) >= 0
      BY <3>2, <3>3 DEF Distance
    <3> QED
      BY <1>3, <3>1, <3>2, <3>4
  <2>2. CASE role # m
    <3>1. shown = NearestSample(q, at)
      BY <1>2, <1>5, <2>2
    <3>2. at \in Int
      BY <1>4, <1>5
    <3> QED
      BY <1>1, <3>1, <3>2, NearestIs
  <2> QED
    BY <2>1, <2>2
<1> QED
  BY <1>6 DEF at, shown, q

\* What is built for a mapping is played from end to end, and shows what is nearest.
LEMMA BuildStep ==
  ASSUME StreamsIndexed, NEW ids, NEW mainId, BuildRecording(ids, mainId)
  PROVE  /\ DOMAIN joined' # {} /\ EndsAreKept' /\ FramesMatchNearest'
         /\ Len(recording'.frames) \in Nat
<1> DEFINE group == [role \in Roles |-> CHOOSE g \in Selected(role, ids) : TRUE]
           stitched == [role \in Roles |-> Stitched(group[role])]
           able == {k \in 1..Len(MasterRoles) : MasterRoles[k] \in Roles}
           named == {k \in able : mainId \in Members(group[MasterRoles[k]])}
           choice == IF mainId = 0 THEN able ELSE named
           J == [role \in Roles |-> stitched[role].times]
           m == MasterRoles[Min(choice)]
           q == recording'.frames
<1>1. streams' = streams /\ \A role \in Roles : Selected(role, ids) # {}
  BY DEF BuildRecording
<1>2. choice # {} /\ master' = m /\ joined' = J
  BY DEF BuildRecording
<1>3. recording' = FramesBuilt(joined', Roles, master', stitched[master'].stride)
  BY DEF BuildRecording, FramesBuilt, FrameOf, NoFrames
<1>4. m \in Roles
  <2>1. choice \subseteq {k \in 1..Len(MasterRoles) : MasterRoles[k] \in Roles}
    OBVIOUS
  <2> HIDE DEF choice
  <2> QED
    BY <1>2, <2>1, MasterIsARole
<1> HIDE DEF m
<1>5. \A role \in Roles : group[role] \in GroupsOf(role) /\ Members(group[role]) # {}
  BY <1>1, GroupIsThere
<1> HIDE DEF group
<1>6. ASSUME NEW role \in Roles
      PROVE  /\ J[role] \in Seq(Int) /\ J[role] # <<>> /\ Sorted(J[role])
             /\ J[role] = Stitched(group[role]).times
             /\ stitched[role] = Stitched(group[role])
             /\ Stitched(group[role]).stride \in Nat \ {0}
  <2>1. J[role] = Stitched(group[role]).times /\ stitched[role] = Stitched(group[role])
    OBVIOUS
  <2>2. Members(group[role]) # {}
    BY <1>5
  <2>3. LET times == Stitched(group[role]).times
        IN  /\ Stitched(group[role]).stride \in Nat \ {0}
            /\ times \in Seq(Int) /\ times # <<>> /\ Sorted(times)
    BY <2>2, StitchedTimes
  <2> QED
    BY <2>1, <2>3
<1>7. Playable(J, Roles)
  <2>1. J = [role \in Roles |-> J[role]]
    OBVIOUS
  <2> HIDE DEF J
  <2> QED
    BY <1>6, <2>1 DEF Playable
<1>8. stitched[m].stride \in Nat \ {0}
  BY <1>4, <1>6
<1>9. J[m] = Stitched(group[m]).times
  BY <1>4, <1>6
<1>10. DOMAIN J = Roles
  OBVIOUS
<1> DEFINE stride == stitched[m].stride
<1>11. recording' = FramesBuilt(J, Roles, m, stride)
  BY <1>2, <1>3
<1> HIDE DEF J, stitched
<1> DEFINE n == Len(J[m])
<1>12. /\ q # <<>> /\ Len(q) \in Nat
       /\ q[1] = FrameOf(1, J, Roles, m) /\ q[Len(q)] = FrameOf(n, J, Roles, m)
       /\ \A f \in 1..Len(q) : \E k \in 1..n : q[f] = FrameOf(k, J, Roles, m)
  <2> HIDE DEF stride
  <2>1. stride \in Nat \ {0}
    BY <1>8 DEF stride
  <2> QED
    BY <1>4, <1>7, <1>11, <2>1, FramesAreMade
<1>13. (\A g : Members(g)' = Members(g)) /\ (GroupsOf(master))' = GroupsOf(m)
  <2>1. Usable' = Usable
    BY <1>1 DEF Usable, Numeric
  <2>2. Groups' = Groups
    BY <1>1, <2>1 DEF Groups
  <2>3. \A g : Members(g)' = Members(g)
    BY <1>1, <2>1 DEF Members
  <2> QED
    BY <1>2, <2>2, <2>3 DEF GroupsOf
<1>14. EndsAreKept'
  <2>1. PICK g : g = group[m] /\ g \in GroupsOf(m) /\ Members(g) # {}
    BY <1>4, <1>5
  <2> DEFINE M == Merged(g)
             last == Max({Last(streams[s].kept).t : s \in Members(g)})
             first == Min({streams[s].kept[1].t : s \in Members(g)})
  <2>2. M[1] = first /\ M[Len(M)] = last
    BY <2>1, MergedEnds
  <2>3. J[m][1] = M[1] /\ J[m][n] = M[Len(M)]
    <3>1. J[m] = Stitched(g).times
      BY <1>9, <2>1
    <3>2. LET times == Stitched(g).times
          IN  times[1] = M[1] /\ times[Len(times)] = M[Len(M)]
      BY <2>1, StitchedTimes
    <3> QED
      BY <3>1, <3>2
  <2> HIDE DEF M, last, first
  <2>4. q[1].t = 0 /\ q[Len(q)].t = last - first
    <3>1. q[1].t = J[m][1] - J[m][1] /\ q[Len(q)].t = J[m][n] - J[m][1]
      BY <1>12 DEF FrameOf
    <3>2. J[m][1] \in Int
      <4>1. J[m] \in Seq(Int) /\ J[m] # <<>>
        BY <1>4, <1>6
      <4>2. 1 \in 1..Len(J[m])
        BY <4>1
      <4> QED
        BY <4>1, <4>2
    <3> QED
      BY <2>2, <2>3, <3>1, <3>2
  <2>5. Last(q).t = last - first
    BY <2>4 DEF Last
  <2>6. Members(g)' = Members(g)
    BY <1>13
  <2>7. last = Max({Last(streams'[s].kept).t : s \in Members(g)'})
        /\ first = Min({streams'[s].kept[1].t : s \in Members(g)'})
    BY <1>1, <2>6 DEF last, first
  <2>8. DOMAIN joined' # {}
    BY <1>2, <1>4, <1>10
  <2> QED
    BY <1>13, <2>1, <2>4, <2>5, <2>6, <2>7, <2>8 DEF EndsAreKept
<1>15. FramesMatchNearest'
  <2> SUFFICES ASSUME NEW f \in 1..Len(q), NEW role \in DOMAIN joined'
               PROVE  LET row == q[f]
                          at == row.t + joined'[master'][1]
                          far(k) == Distance(joined'[role][k], at)
                          shown == row.match[role]
                      IN \A k \in 1..Len(joined'[role]) :
                             IF shown = 0 THEN far(k) > Tolerance ELSE far(shown) <= far(k)
    BY DEF FramesMatchNearest, Distance
  <2>1. PICK k \in 1..n : q[f] = FrameOf(k, J, Roles, m)
    BY <1>12
  <2>2. role \in Roles /\ joined' = J /\ master' = m
    BY <1>2, <1>10
  <2>3. LET row == FrameOf(k, J, Roles, m)
            at == row.t + J[m][1]
            far(j) == Distance(J[role][j], at)
            shown == row.match[role]
        IN  \A j \in 1..Len(J[role]) :
                IF shown = 0 THEN far(j) > Tolerance ELSE far(shown) <= far(j)
    BY <1>4, <1>7, <2>2, FrameIsNearest
  <2> QED
    BY <2>1, <2>2, <2>3
<1> QED
  BY <1>2, <1>4, <1>10, <1>12, <1>14, <1>15

(***************************************************************************)
(* The invariant: what is known of the streams and of the recording in each *)
(* phase of the load.                                                       *)
(***************************************************************************)
StreamsInv ==
    /\ phase \in {"start", "rows"} => streams = [s \in Streams |-> NewStream]
    /\ phase = "chunks" => streams \in [Streams -> GridStreams]
    /\ phase \in {"indexed", "loaded"} => StreamsIndexed

FramesInv ==
    /\ phase \in {"start", "chunks", "indexed"} => recording = NewRecording
    /\ phase \in {"start", "rows", "chunks", "indexed"} => DOMAIN joined = {}
    /\ phase = "rows" => Read(recording)
    /\ phase = "loaded" =>
           IF DOMAIN joined = {} THEN ReadWhole(recording)
           ELSE EndsAreKept /\ FramesMatchNearest /\ Len(recording.frames) \in Nat
    /\ phase # "failed" => ~FramesOver(recording)

LoadInv ==
    /\ phase \in {"start", "rows", "chunks", "indexed", "loaded", "failed"}
    /\ StreamsInv /\ FramesInv

\* Before anything is read all of it holds.
LEMMA NothingRead ==
  /\ Read(NewRecording) /\ ~FramesOver(NewRecording)
  /\ NewStream \in GridStreams /\ NewStream \in IndexedStreams
<1>1. /\ NewRecording \in Recordings(Rows) /\ NewRecording.frames = <<>>
      /\ NewRecording.count = 0 /\ NewRecording.pending = <<>>
  <2>1. Missing \in Int /\ <<>> \in Seq(Rows)
    BY DEF Missing
  <2> QED
    BY <2>1 DEF NewRecording, Recordings
<1>2. Read(NewRecording)
  <2>1. Even(<<>>, NewRecording.stride)
    BY DEF Even
  <2> QED
    BY <1>1, <2>1 DEF Read
<1>3. ~FramesOver(NewRecording)
  <2>1. Len(NewRecording.frames) = 0
    BY <1>1
  <2>2. Limit \in Nat /\ Memory \in Nat
    BY Limits, RecordingsAssumption
  <2> QED
    BY <2>1, <2>2 DEF FramesOver, Limit
<1>4. Grid(NewStream)
  BY NewStreamIsGrid
<1>5. NewStream \in StreamsOf(Samples)
  BY <1>4 DEF Grid
<1>6. Indexed(NewStream)
  <2>1. NewStream.kept = <<>> /\ NewStream.count = 0
    BY DEF NewStream
  <2>2. Len(NewStream.kept) <= MaxStored
    BY <1>4 DEF Grid
  <2>3. FromStart(NewStream) /\ Up(NewStream.kept)
    BY <2>1 DEF FromStart, Even, Up
  <2> QED
    BY <1>5, <2>2, <2>3 DEF Indexed
<1> QED
  BY <1>2, <1>3, <1>4, <1>5, <1>6 DEF GridStreams, IndexedStreams

\* The invariant holds at first.
LEMMA InitLoads == Init => LoadInv
<1> SUFFICES ASSUME Init PROVE LoadInv
  OBVIOUS
<1>1. phase = "start" /\ recording = NewRecording
  BY DEF Init
<1>2. StreamsInv
  BY <1>1 DEF Init, StreamsInv
<1>3. DOMAIN joined = {}
  BY DEF Init
<1>4. FramesInv
  BY <1>1, <1>3, NothingRead DEF FramesInv
<1> QED
  BY <1>1, <1>2, <1>4 DEF LoadInv

\* A row keeps the invariant.
LEMMA RowStep ==
  ASSUME LoadInv, NEW rel \in RowTimes \cup {Missing}, NEW lsl \in RowTimes \cup {Missing},
         ReadRow(rel, lsl)
  PROVE  LoadInv'
<1>1. phase = "rows" /\ streams' = streams /\ joined' = joined
  BY DEF ReadRow
<1>2. CASE phase' = "failed"
  BY <1>2 DEF LoadInv, StreamsInv, FramesInv
<1>3. CASE phase' # "failed"
  <2>1. phase' = "rows" /\ recording' = KeepRow(rel, lsl) /\ ~FramesOver(recording')
    BY <1>1, <1>3 DEF ReadRow
  <2>2. Read(recording) /\ DOMAIN joined = {}
    BY <1>1 DEF LoadInv, FramesInv
  <2>3. Read(recording')
    BY <2>1, <2>2, KeepRowKeeps
  <2>4. StreamsInv'
    BY <1>1, <2>1 DEF LoadInv, StreamsInv
  <2>5. FramesInv'
    BY <1>1, <2>1, <2>2, <2>3 DEF FramesInv
  <2> QED
    BY <2>1, <2>4, <2>5 DEF LoadInv
<1> QED
  BY <1>2, <1>3

\* The end of the rows keeps the invariant.
LEMMA RowsEnd ==
  ASSUME LoadInv, EndOfRows
  PROVE  LoadInv'
<1>1. phase = "rows" /\ streams' = streams /\ joined' = joined
  BY DEF EndOfRows
<1>2. CASE phase' = "failed"
  BY <1>2 DEF LoadInv, StreamsInv, FramesInv
<1>3. CASE phase' # "failed"
  <2>1. Read(recording) /\ DOMAIN joined = {} /\ streams = [s \in Streams |-> NewStream]
    BY <1>1 DEF LoadInv, FramesInv, StreamsInv
  <2> DEFINE whole == IF recording.pending = <<>> THEN recording
                      ELSE AppendBounded(recording, recording.pending[1])
  <2>2. recording' = BoundCache(whole) /\ phase' = "loaded" /\ ~FramesOver(BoundCache(whole))
    BY <1>3 DEF EndOfRows
  <2>3. ReadWhole(BoundCache(whole))
    BY <2>1, EndOfRowsKeeps
  <2> HIDE DEF whole
  <2>4. StreamsInv'
    <3>1. streams \in [Streams -> IndexedStreams]
      BY <2>1, NothingRead
    <3> QED
      BY <1>1, <2>2, <3>1 DEF StreamsInv, StreamsIndexed
  <2>5. FramesInv'
    BY <1>1, <2>1, <2>2, <2>3 DEF FramesInv
  <2> QED
    BY <2>2, <2>4, <2>5 DEF LoadInv
<1> QED
  BY <1>2, <1>3

\* Steps that only store samples.
LEMMA ChunksStay ==
  ASSUME LoadInv, phase = "chunks", streams' \in [Streams -> GridStreams],
         phase' \in {"chunks", "failed"}, joined' = joined, recording' = recording
  PROVE  LoadInv'
<1>1. CASE phase' = "failed"
  BY <1>1 DEF LoadInv, StreamsInv, FramesInv
<1>2. CASE phase' = "chunks"
  <2>1. StreamsInv'
    BY <1>2 DEF StreamsInv
  <2>2. FramesInv'
    BY <1>2 DEF LoadInv, FramesInv
  <2> QED
    BY <1>2, <2>1, <2>2 DEF LoadInv
<1> QED
  BY <1>1, <1>2

\* A stream header keeps the invariant.
LEMMA HeaderStep ==
  ASSUME LoadInv, NEW s \in Streams, NEW layout \in Layouts, ReadHeader(s, layout)
  PROVE  LoadInv'
<1> DEFINE all == [streams EXCEPT ![s].layout = layout]
<1>1. /\ phase = "chunks" /\ streams[s].layout = NoLayout /\ joined' = joined
      /\ recording' = recording
      /\ streams' = EnforceBudget(all, FALSE) /\ phase' \in {"chunks", "failed"}
  BY DEF ReadHeader, SetWithinBudget
<1>2. streams \in [Streams -> GridStreams]
  BY <1>1 DEF LoadInv, StreamsInv
<1>3. [streams[s] EXCEPT !.layout = layout] \in GridStreams
  <2>1. Grid(streams[s])
    BY <1>2 DEF GridStreams
  <2> DEFINE x == streams[s]
  <2>2. Grid(x) /\ x.layout = NoLayout
    BY <1>1, <2>1
  <2> HIDE DEF x
  <2>3. Grid([x EXCEPT !.layout = layout])
    BY <2>2, HeaderIsGrid
  <2>4. [x EXCEPT !.layout = layout] \in GridStreams
    BY <2>3 DEF GridStreams, Grid
  <2> QED
    BY <2>4 DEF x
<1>4. all \in [Streams -> GridStreams]
  <2> DEFINE x == [streams[s] EXCEPT !.layout = layout]
  <2>1. all = [streams EXCEPT ![s] = x]
    OBVIOUS
  <2> HIDE DEF x, all
  <2>2. x \in GridStreams
    BY <1>3 DEF x
  <2> QED
    BY <1>2, <2>1, <2>2
<1> HIDE DEF all
<1>5. streams' \in [Streams -> GridStreams]
  BY <1>1, <1>4, EnforcedGrid
<1> QED
  BY <1>1, <1>5, ChunksStay

\* A sample keeps the invariant.
LEMMA SampleStep ==
  ASSUME LoadInv, NEW s \in Streams, NEW time \in SampleTimes(streams[s]), ReadSample(s, time)
  PROVE  LoadInv'
<1> DEFINE x == streams[s]
           y == IF Numeric(x) THEN StoreSample(x, time) ELSE CountSample(x)
<1>1. /\ phase = "chunks" /\ x.layout # NoLayout /\ joined' = joined /\ recording' = recording
      /\ streams' = [streams EXCEPT ![s] = y] /\ phase' = phase
  <2>1. streams' = [streams EXCEPT ![s] = y]
    BY DEF ReadSample
  <2>2. /\ phase = "chunks" /\ x.layout # NoLayout /\ joined' = joined
        /\ recording' = recording /\ phase' = phase
    BY DEF ReadSample
  <2> QED
    BY <2>1, <2>2
<1>2. streams \in [Streams -> GridStreams]
  BY <1>1 DEF LoadInv, StreamsInv
<1>3. Grid(x)
  BY <1>2 DEF GridStreams
<1>4. time \in Int
  <2>1. x.last \in Int
    <3>1. x \in StreamsOf(Samples)
      BY <1>3 DEF Grid
    <3> QED
      BY <3>1, StreamParts
  <2>2. FirstTimes \subseteq Int /\ Steps \subseteq Int
    BY RecordingsAssumption
  <2>3. time \in FirstTimes \/ \E d \in Steps : time = x.last + d
    BY DEF SampleTimes
  <2> HIDE DEF x
  <2>4. CASE \E d \in Steps : time = x.last + d
    <3>1. PICK d \in Steps : time = x.last + d
      BY <2>4
    <3>2. d \in Int
      BY <2>2
    <3> QED
      BY <2>1, <3>1, <3>2
  <2> QED
    BY <2>2, <2>3, <2>4
<1> HIDE DEF x
<1>5. Grid(y)
  <2>1. CASE Numeric(x)
    <3>1. Grid(StoreSample(x, time))
      BY <1>1, <1>3, <1>4, <2>1, StoredIsGrid
    <3> QED
      BY <2>1, <3>1
  <2>2. CASE ~Numeric(x)
    <3>1. Grid(CountSample(x))
      BY <1>1, <1>3, <2>2, TextIsGrid
    <3> QED
      BY <2>2, <3>1
  <2> QED
    BY <2>1, <2>2
<1> HIDE DEF y
<1>6. y \in GridStreams
  BY <1>5 DEF GridStreams, Grid
<1>7. streams' \in [Streams -> GridStreams]
  BY <1>1, <1>2, <1>6
<1> QED
  BY <1>1, <1>7, ChunksStay

\* The end of a chunk keeps the invariant.
LEMMA ChunkEnd ==
  ASSUME LoadInv, EndOfChunk
  PROVE  LoadInv'
<1>1. /\ phase = "chunks" /\ joined' = joined /\ recording' = recording
      /\ streams' = EnforceBudget(streams, FALSE) /\ phase' \in {"chunks", "failed"}
  BY DEF EndOfChunk, SetWithinBudget
<1>2. streams \in [Streams -> GridStreams]
  BY <1>1 DEF LoadInv, StreamsInv
<1>3. streams' \in [Streams -> GridStreams]
  BY <1>1, <1>2, EnforcedGrid
<1> QED
  BY <1>1, <1>3, ChunksStay

\* The end of the file keeps the invariant, whatever the clock offsets stop.
LEMMA ChunksEnd ==
  ASSUME LoadInv, NEW stopped \in SUBSET Streams, EndOfChunks(stopped)
  PROVE  LoadInv'
<1> DEFINE final == [s \in Streams |->
               LET whole == RetainFinalSample(streams[s])
               IN [whole EXCEPT !.kept = RepairTimes(CorrectTimes(@, s \in stopped))]]
<1>1. /\ phase = "chunks" /\ joined' = joined /\ recording' = recording
      /\ streams' = EnforceBudget(final, TRUE) /\ phase' \in {"indexed", "failed"}
  BY DEF EndOfChunks
<1>2. streams \in [Streams -> GridStreams]
  BY <1>1 DEF LoadInv, StreamsInv
<1>3. ASSUME NEW s \in Streams PROVE final[s] \in IndexedStreams
  <2>1. Grid(streams[s])
    BY <1>2 DEF GridStreams
  <2> DEFINE x == streams[s]
             cut == s \in stopped
  <2>2. Grid(x)
    BY <2>1
  <2> HIDE DEF x
  <2>3. LET whole == RetainFinalSample(x)
        IN  Indexed([whole EXCEPT !.kept = RepairTimes(CorrectTimes(@, cut))])
    <3> HIDE DEF cut
    <3> QED
      BY <2>2, FinalIsIndexed
  <2>4. Indexed(final[s])
    BY <2>3, Zenon DEF x, cut, final
  <2> HIDE DEF final
  <2> QED
    BY <2>4 DEF IndexedStreams, Indexed
<1>4. final \in [Streams -> IndexedStreams]
  <2>1. final = [s \in Streams |-> final[s]]
    OBVIOUS
  <2> HIDE DEF final
  <2> QED
    BY <1>3, <2>1
<1> HIDE DEF final
<1>5. streams' \in [Streams -> IndexedStreams]
  BY <1>1, <1>4, EnforcedIndexed
<1>6. CASE phase' = "failed"
  BY <1>6 DEF LoadInv, StreamsInv, FramesInv
<1>7. CASE phase' = "indexed"
  <2>1. StreamsInv'
    BY <1>5, <1>7 DEF StreamsInv, StreamsIndexed
  <2>2. FramesInv'
    BY <1>1, <1>7 DEF LoadInv, FramesInv
  <2> QED
    BY <1>7, <2>1, <2>2 DEF LoadInv
<1> QED
  BY <1>1, <1>6, <1>7

\* Building the frames of any mapping keeps the invariant.
LEMMA BuiltStep ==
  ASSUME LoadInv, NEW ids, NEW mainId, BuildRecording(ids, mainId)
  PROVE  LoadInv'
<1>1. /\ phase = "indexed" /\ streams' = streams
      /\ phase' = IF FramesOver(recording') THEN "failed" ELSE "loaded"
  BY DEF BuildRecording
<1>2. StreamsIndexed
  BY <1>1 DEF LoadInv, StreamsInv
<1>3. CASE phase' = "failed"
  BY <1>3 DEF LoadInv, StreamsInv, FramesInv
<1>4. CASE phase' = "loaded"
  <2>1. ~FramesOver(recording')
    BY <1>1, <1>4
  <2>2. StreamsInv'
    BY <1>1, <1>2, <1>4 DEF StreamsInv, StreamsIndexed
  <2>3. /\ DOMAIN joined' # {} /\ EndsAreKept' /\ FramesMatchNearest'
        /\ Len(recording'.frames) \in Nat
    BY <1>2, BuildStep
  <2>4. FramesInv'
    BY <1>4, <2>1, <2>3 DEF FramesInv
  <2> QED
    BY <1>4, <2>2, <2>4 DEF LoadInv
<1> QED
  BY <1>1, <1>3, <1>4

\* So does a step that changes nothing.
LEMMA Unchanged ==
  ASSUME LoadInv, UNCHANGED vars
  PROVE  LoadInv'
<1>1. /\ phase' = phase /\ streams' = streams /\ joined' = joined /\ master' = master
      /\ recording' = recording
  BY DEF vars
<1>2. StreamsInv'
  BY <1>1 DEF LoadInv, StreamsInv, StreamsIndexed
<1>3. EndsAreKept => EndsAreKept'
  <2>1. Usable' = Usable
    BY <1>1 DEF Usable, Numeric
  <2>2. Groups' = Groups
    BY <1>1, <2>1 DEF Groups
  <2>3. \A g : Members(g)' = Members(g)
    BY <1>1, <2>1 DEF Members
  <2>4. (GroupsOf(master))' = GroupsOf(master)
    BY <1>1, <2>2 DEF GroupsOf
  <2>5. CASE phase = "loaded" /\ DOMAIN joined # {}
    <3> SUFFICES ASSUME EndsAreKept PROVE EndsAreKept'
      OBVIOUS
    <3>1. PICK g \in GroupsOf(master) :
            Last(recording.frames).t = Max({Last(streams[s].kept).t : s \in Members(g)})
                                       - Min({streams[s].kept[1].t : s \in Members(g)})
      BY <2>5 DEF EndsAreKept
    <3>2. Members(g)' = Members(g)
      BY <2>3
    <3>3. Last(recording'.frames).t = Max({Last(streams'[s].kept).t : s \in Members(g)'})
                                      - Min({streams'[s].kept[1].t : s \in Members(g)'})
      BY <1>1, <3>1, <3>2
    <3>4. recording'.frames[1].t = 0
      BY <1>1, <2>5 DEF EndsAreKept
    <3> QED
      BY <1>1, <2>4, <2>5, <3>1, <3>3, <3>4 DEF EndsAreKept
  <2>6. CASE ~(phase = "loaded" /\ DOMAIN joined # {})
    BY <1>1, <2>6 DEF EndsAreKept
  <2> QED
    BY <2>5, <2>6
<1>4. FramesMatchNearest => FramesMatchNearest'
  BY <1>1 DEF FramesMatchNearest, Distance
<1>5. FramesInv'
  BY <1>1, <1>3, <1>4 DEF LoadInv, FramesInv
<1> QED
  BY <1>1, <1>2, <1>5 DEF LoadInv

\* The invariant is inductive.
LEMMA LoadStep == LoadInv /\ [Next]_vars => LoadInv'
<1> SUFFICES ASSUME LoadInv, [Next]_vars PROVE LoadInv'
  OBVIOUS
<1>1. CASE OpenCsv
  <2>1. /\ phase = "start" /\ phase' = "rows" /\ streams' = streams /\ joined' = joined
        /\ recording' = recording
    BY <1>1 DEF OpenCsv
  <2>2. recording = NewRecording /\ DOMAIN joined = {} /\ streams = [s \in Streams |-> NewStream]
    BY <2>1 DEF LoadInv, StreamsInv, FramesInv
  <2>3. StreamsInv'
    BY <2>1, <2>2 DEF StreamsInv
  <2>4. FramesInv'
    BY <2>1, <2>2, NothingRead DEF FramesInv
  <2> QED
    BY <2>1, <2>3, <2>4 DEF LoadInv
<1>2. CASE OpenXdf
  <2>1. /\ phase = "start" /\ phase' = "chunks" /\ streams' = streams /\ joined' = joined
        /\ recording' = recording
    BY <1>2 DEF OpenXdf
  <2>2. recording = NewRecording /\ DOMAIN joined = {} /\ streams = [s \in Streams |-> NewStream]
    BY <2>1 DEF LoadInv, StreamsInv, FramesInv
  <2>3. StreamsInv'
    BY <2>1, <2>2, NothingRead DEF StreamsInv
  <2>4. FramesInv'
    BY <2>1, <2>2, NothingRead DEF FramesInv
  <2> QED
    BY <2>1, <2>3, <2>4 DEF LoadInv
<1>3. CASE EndOfRows
  BY <1>3, RowsEnd
<1>4. CASE EndOfChunk
  BY <1>4, ChunkEnd
<1>5. CASE GiveUp
  <2>1. phase' = "failed"
    BY <1>5 DEF GiveUp
  <2> QED
    BY <2>1 DEF LoadInv, StreamsInv, FramesInv
<1>6. CASE \E rel, lsl \in RowTimes \cup {Missing} : ReadRow(rel, lsl)
  BY <1>6, RowStep
<1>7. CASE \E s \in Streams : \E layout \in Layouts : ReadHeader(s, layout)
  BY <1>7, HeaderStep
<1>8. CASE \E s \in Streams : \E time \in SampleTimes(streams[s]) : ReadSample(s, time)
  BY <1>8, SampleStep
<1>9. CASE \E stopped \in SUBSET Streams : EndOfChunks(stopped)
  BY <1>9, ChunksEnd
<1>10. CASE \E ids \in SUBSET Streams, mainId \in Streams \cup {0} : BuildRecording(ids, mainId)
  BY <1>10, BuiltStep
<1>11. CASE UNCHANGED vars
  BY <1>11, Unchanged
<1> QED
  BY <1>1, <1>2, <1>3, <1>4, <1>5, <1>6, <1>7, <1>8, <1>9, <1>10, <1>11 DEF Next

\* The invariant always holds.
LEMMA AlwaysLoads == Spec => []LoadInv
BY InitLoads, LoadStep, PTL DEF Spec

\* An indexed stream has times that go up.
LEMMA NeighboursGoUp ==
  ASSUME LoadInv
  PROVE  TimesGoUp
<1> SUFFICES ASSUME phase \in {"indexed", "loaded"}, NEW s \in Streams,
                    NEW k \in 2..Len(streams[s].kept)
             PROVE  streams[s].kept[k].t - streams[s].kept[k - 1].t >=
                        Max({1, streams[s].kept[k].raw - streams[s].kept[k - 1].raw})
  BY DEF TimesGoUp
<1>1. Indexed(streams[s])
  BY DEF LoadInv, StreamsInv, StreamsIndexed, IndexedStreams
<1> DEFINE q == streams[s].kept
           n == Len(q)
           d == q[k].t - q[k - 1].t
           e == q[k].raw - q[k - 1].raw
<1>2. q \in Seq(Samples) /\ Up(q)
  <2>1. streams[s] \in StreamsOf(Samples)
    BY <1>1 DEF Indexed
  <2> QED
    BY <1>1, <2>1, StreamParts DEF Indexed
<1> HIDE DEF q
<1>3. n \in Nat /\ k \in 2..n
  BY <1>2 DEF q
<1>4. q[k] \in Samples /\ q[k - 1] \in Samples
  <2>1. k \in 1..n /\ k - 1 \in 1..n
    <3> HIDE DEF n
    <3> QED
      BY <1>3
  <2> QED
    BY <1>2, <2>1
<1>5. d \in Int /\ e \in Int
  <2>1. q[k].t \in Int /\ q[k - 1].t \in Int /\ q[k].raw \in Int /\ q[k - 1].raw \in Int
    BY <1>4 DEF Samples
  <2> QED
    BY <2>1
<1>6. d >= 1 /\ d >= e
  <2>1. \A j \in 2..Len(q) : /\ q[j].t - q[j - 1].t >= 1
                             /\ q[j].t - q[j - 1].t >= q[j].raw - q[j - 1].raw
    BY <1>2 DEF Up
  <2> QED
    BY <1>3, <2>1
<1> HIDE DEF d, e
<1>7. d >= Max({1, e})
  <2>1. 1 \in Int /\ e \in Int
    BY <1>5
  <2>2. Max({1, e}) \in {1, e}
    BY <2>1, MaxOfTwo, Zenon
  <2> QED
    BY <1>6, <2>2
<1>8. q[k].t - q[k - 1].t >= Max({1, q[k].raw - q[k - 1].raw})
  BY <1>7 DEF d, e
<1> QED
  BY <1>8 DEF q

\* In every phase the lists are within their limits and even.
LEMMA ListsAreEven ==
  ASSUME LoadInv
  PROVE  ThinnedEvenly
<1> SUFFICES ASSUME phase # "failed" PROVE ThinnedEvenly
  BY DEF ThinnedEvenly
<1>1. ASSUME NEW s \in Streams
      PROVE  /\ Len(streams[s].kept) <= MaxStored
             /\ Numeric(streams[s]) =>
                    /\ Even(streams[s].kept, streams[s].stride)
                    /\ streams[s].count > 0 => streams[s].kept # <<>> /\ streams[s].kept[1].i = 0
  <2>1. CASE phase \in {"start", "rows", "chunks"}
    <3>1. streams[s] \in GridStreams
      BY <2>1, NothingRead DEF LoadInv, StreamsInv
    <3>2. Grid(streams[s])
      BY <3>1 DEF GridStreams
    <3> DEFINE x == streams[s]
    <3> HIDE DEF x
    <3>3. Grid(x)
      BY <3>2 DEF x
    <3>4. Len(x.kept) <= MaxStored
      BY <3>3 DEF Grid
    <3>5. Numeric(x) => Even(x.kept, x.stride) /\ (x.count > 0 => x.kept # <<>> /\ x.kept[1].i = 0)
      BY <3>3, GridIsEven
    <3> QED
      BY <3>4, <3>5 DEF x
  <2>2. CASE phase \in {"indexed", "loaded"}
    <3>1. Indexed(streams[s])
      BY <2>2 DEF LoadInv, StreamsInv, StreamsIndexed, IndexedStreams
    <3> QED
      BY <3>1, Zenon DEF Indexed, FromStart
  <2> QED
    BY <2>1, <2>2 DEF LoadInv
<1>2. Len(recording.frames) <= Max({2, MaxFrames})
  <2>1. ~(Len(recording.frames) > Max({2, MaxFrames}))
    BY DEF LoadInv, FramesInv, FramesOver
  <2>2. Len(recording.frames) \in Nat
    <3>1. CASE phase \in {"start", "chunks", "indexed"}
      <4>1. recording.frames = <<>>
        BY <3>1 DEF LoadInv, FramesInv, NewRecording
      <4> QED
        BY <4>1
    <3>2. CASE phase = "rows"
      <4>1. recording \in Recordings(Rows)
        BY <3>2 DEF LoadInv, FramesInv, Read
      <4>2. recording.frames \in Seq(Rows)
        BY <4>1, RecordingParts
      <4> QED
        BY <4>2
    <3>3. CASE phase = "loaded"
      <4>1. CASE DOMAIN joined = {}
        <5>1. recording \in Recordings(Rows)
          BY <3>3, <4>1 DEF LoadInv, FramesInv, ReadWhole
        <5>2. recording.frames \in Seq(Rows)
          BY <5>1, RecordingParts
        <5> QED
          BY <5>2
      <4>2. CASE DOMAIN joined # {}
        BY <3>3, <4>2 DEF LoadInv, FramesInv
      <4> QED
        BY <4>1, <4>2
    <3> QED
      BY <3>1, <3>2, <3>3 DEF LoadInv
  <2>3. Limit \in Nat /\ Limit = Max({2, MaxFrames})
    BY Limits DEF Limit
  <2> HIDE DEF LoadInv
  <2> QED
    BY <2>1, <2>2, <2>3
<1>3. ASSUME DOMAIN joined = {}
      PROVE  /\ Even(recording.frames, recording.stride)
             /\ recording.count > 0 => recording.frames # <<>> /\ recording.frames[1].i = 0
  <2>1. CASE phase \in {"start", "chunks", "indexed"}
    <3>1. Read(recording)
      BY <2>1, NothingRead DEF LoadInv, FramesInv
    <3> QED
      BY <3>1, Zenon DEF Read
  <2>2. CASE phase = "rows"
    <3>1. Read(recording)
      BY <2>2 DEF LoadInv, FramesInv
    <3> QED
      BY <3>1, Zenon DEF Read
  <2>3. CASE phase = "loaded"
    <3>1. ReadWhole(recording)
      BY <1>3, <2>3 DEF LoadInv, FramesInv
    <3> QED
      BY <3>1, Zenon DEF ReadWhole
  <2> QED
    BY <2>1, <2>2, <2>3 DEF LoadInv
<1> QED
  BY <1>1, <1>2, <1>3 DEF ThinnedEvenly, Even

\* What is loaded has its ends.
LEMMA EndsAreThere ==
  ASSUME LoadInv
  PROVE  EndsAreKept
<1>1. CASE phase = "loaded" /\ DOMAIN joined = {}
  <2>1. ReadWhole(recording)
    BY <1>1 DEF LoadInv, FramesInv
  <2>2. recording.count \in Nat
    BY <2>1, RecordingParts DEF ReadWhole
  <2>3. recording.frames # <<>> => recording.count > 0
    BY <2>1, <2>2 DEF ReadWhole
  <2>4. recording.frames # <<>> => /\ recording.frames[1].i = 0
                                   /\ recording.frames[Len(recording.frames)].i = recording.count - 1
    BY <2>1, <2>3, Zenon DEF ReadWhole
  <2> QED
    BY <1>1, <2>4 DEF EndsAreKept, Last
<1>2. CASE phase = "loaded" /\ DOMAIN joined # {}
  BY <1>2 DEF LoadInv, FramesInv
<1>3. CASE phase # "loaded"
  BY <1>3 DEF EndsAreKept
<1> QED
  BY <1>1, <1>2, <1>3

\* What is loaded shows the nearest samples.
LEMMA NearestAreShown ==
  ASSUME LoadInv
  PROVE  FramesMatchNearest
<1>1. CASE phase = "loaded" /\ DOMAIN joined = {}
  BY <1>1 DEF FramesMatchNearest
<1>2. CASE phase = "loaded" /\ DOMAIN joined # {}
  BY <1>2 DEF LoadInv, FramesInv
<1>3. CASE phase # "loaded"
  BY <1>3 DEF FramesMatchNearest
<1> QED
  BY <1>1, <1>2, <1>3

\* The times of a stream that was read always go up, and two samples kept are never
\* closer than their corrected times are (correctAndRepairTimestamps).
THEOREM TimesKeepGoingUp == Spec => []TimesGoUp
BY AlwaysLoads, NeighboursGoUp, PTL

\* However often the samples and the CSV frames are halved, each list keeps its first item and
\* its limit, and neighbours are no further apart than the stride (parseSamplesChunk,
\* enforceIndexMemoryBudget, appendBoundedPreviewFrame).
THEOREM ListsStayEven == Spec => []ThinnedEvenly
BY AlwaysLoads, ListsAreEven, PTL

\* What is played begins with the first row or the earliest time kept of the main
\* stream's pieces, and ends with the last one, however they overlap (pending_last_frame,
\* compactFrames, stitchGroup).
THEOREM EndsStayKept == Spec => []EndsAreKept
BY AlwaysLoads, EndsAreThere, PTL

\* A frame shows of each role the sample closest in time, and none only when every sample
\* is further away than the tolerance (nearestSampleIndex).
THEOREM NearestStayShown == Spec => []FramesMatchNearest
BY AlwaysLoads, NearestAreShown, PTL

-----------------------------------------------------------------------------
(***************************************************************************)
(* For every set of sources and layouts, any number of outlets and any      *)
(* length of the signal queue: the worker keeps to the source it follows,   *)
(* and no frame shows a sample that the open inlet did not receive.         *)
(***************************************************************************)

\* A source is chosen from the outlets found; while one is wanted, and followed by its ID,
\* no other one is.
LEMMA ChosenIsFound ==
  ASSUME NEW found, NEW source, NEW mode,
         NEW chosen \in SelectStreamIdentity(found, source, mode)
  PROVE  chosen \in found
BY DEF SelectStreamIdentity

LEMMA ChosenIsWanted ==
  ASSUME NEW found, NEW source, NEW chosen \in SelectStreamIdentity(found, source, "source-id"),
         source # NoSource
  PROVE  chosen.source = source
BY DEF SelectStreamIdentity

(***************************************************************************)
(* The followed source.  The binding only changes between two workers, when *)
(* nothing is connected and no source is remembered.                        *)
(***************************************************************************)
Between == ~Live => ~Connected /\ bound = NoSource
FollowInv == Between /\ KeepsToItsSource

LEMMA FollowInit == StreamsInit => FollowInv
BY DEF StreamsInit, FollowInv, Between, Live, Connected, KeepsToItsSource

\* What is opened is the wanted source, or becomes it.
LEMMA OpenKeeps ==
  ASSUME NEW found, NEW chosen \in SelectStreamIdentity(found, WantedSource, binding.mode),
         OpenStream(chosen), UNCHANGED binding
  PROVE  KeepsToItsSource'
<1> SUFFICES ASSUME binding.mode = "source-id", WantedSource' # NoSource
             PROVE  inlet'.source = WantedSource'
  BY DEF KeepsToItsSource
<1>1. inlet' = chosen
  BY DEF OpenStream
<1>2. bound' = IF chosen.source # NoSource THEN chosen.source ELSE bound
  BY DEF OpenStream
<1>3. CASE WantedSource # NoSource
  <2>1. chosen.source = WantedSource
    BY <1>3, ChosenIsWanted
  <2> QED
    BY <1>1, <1>2, <1>3, <2>1 DEF WantedSource
<1>4. CASE WantedSource = NoSource
  BY <1>1, <1>2, <1>4 DEF WantedSource
<1> QED
  BY <1>3, <1>4

LEMMA FollowStep == FollowInv /\ [StreamsNext]_streamVars => FollowInv'
<1> SUFFICES ASSUME FollowInv, [StreamsNext]_streamVars PROVE FollowInv'
  OBVIOUS
<1> USE DEF FollowInv
<1>1. CASE Worker
  <2>1. CASE ConnectThrows \/ PollThrows
    BY <2>1 DEF ConnectThrows, PollThrows, Connecting, Polling, LoseInlet, Between, Live,
                Connected, KeepsToItsSource
  <2>2. CASE RunEnds
    BY <2>2 DEF RunEnds, Between, Live, Connected, KeepsToItsSource
  <2>3. ASSUME NEW found, ConnectStream(found) PROVE FollowInv'
    <3>1. Live' /\ UNCHANGED binding
      BY <2>3 DEF ConnectStream, Connecting, Live
    <3>2. \/ UNCHANGED <<bound, inlet>>
          \/ \E chosen \in SelectStreamIdentity(found, WantedSource, binding.mode) :
                OpenStream(chosen)
      BY <2>3 DEF ConnectStream
    <3>3. KeepsToItsSource'
      BY <3>1, <3>2, OpenKeeps DEF KeepsToItsSource, WantedSource, Connected
    <3> QED
      BY <3>1, <3>3 DEF Between
  <2>4. ASSUME NEW updated, NEW others, NEW near, Poll(updated, others, near) PROVE FollowInv'
    BY <2>4 DEF Poll, Polling, Between, Live, Connected, KeepsToItsSource, WantedSource
  <2> QED
    BY <1>1, <2>1, <2>2, <2>3, <2>4 DEF Worker
<1>2. CASE Network
  BY <1>2 DEF Network, Publish, Vanish, Rejoin, run, stream, Between, Live, Connected,
              KeepsToItsSource, WantedSource
<1>3. CASE Wait
  BY <1>3 DEF Wait, run, Between, Live, Connected, KeepsToItsSource, WantedSource
<1>4. CASE StartPreview
  BY <1>4 DEF StartPreview, stream, Between, Live, Connected, KeepsToItsSource, WantedSource
<1>5. CASE StopPreview \/ PreviewFinished
  BY <1>5 DEF StopPreview, PreviewFinished, stream, Between, Live, Connected,
              KeepsToItsSource, WantedSource
<1>6. CASE HandleIdentity \/ DisplayLatestLiveFrame
           \/ \E new \in [source : SourceIds, mode : Modes] : ApplySessionConfiguration(new)
  BY <1>6 DEF HandleIdentity, DisplayLatestLiveFrame, ApplySessionConfiguration, run, stream,
              Between, Live, Connected, KeepsToItsSource, WantedSource
<1>7. CASE UNCHANGED streamVars
  BY <1>7 DEF streamVars, run, stream, Between, Live, Connected, KeepsToItsSource, WantedSource
<1> QED
  BY <1>1, <1>2, <1>3, <1>4, <1>5, <1>6, <1>7 DEF StreamsNext, Panel

\* The worker is connected to no other source than the one it follows.
\* (PreviewStreamWorker::connectStream, selectStreamIdentity)
THEOREM FollowsNoOther == StreamsSpec => []KeepsToItsSource
<1>1. FollowInv => KeepsToItsSource
  BY DEF FollowInv
<1> QED
  BY <1>1, FollowInit, FollowStep, PTL DEF StreamsSpec

(***************************************************************************)
(* What a frame shows.                                                      *)
(***************************************************************************)
SampleInv == hasSample \in BOOLEAN /\ (hasSample => latest = "sample") /\ FramesHoldSamples

LEMMA SampleInit == StreamsInit => SampleInv
BY DEF StreamsInit, SampleInv, FramesHoldSamples

LEMMA SampleNext == SampleInv /\ [StreamsNext]_streamVars => SampleInv'
<1> SUFFICES ASSUME SampleInv, [StreamsNext]_streamVars PROVE SampleInv'
  OBVIOUS
<1> USE DEF SampleInv, FramesHoldSamples
<1>1. CASE Worker
  <2>1. CASE ConnectThrows \/ PollThrows
    BY <2>1 DEF ConnectThrows, PollThrows, LoseInlet, ClearSample
  <2>2. CASE RunEnds
    BY <2>2 DEF RunEnds
  <2>3. ASSUME NEW found, ConnectStream(found) PROVE SampleInv'
    BY <2>3 DEF ConnectStream, OpenStream, ClearSample
  <2>4. ASSUME NEW updated \in BOOLEAN, NEW others \in BOOLEAN, NEW near \in BOOLEAN,
               Poll(updated, others, near)
        PROVE  SampleInv'
    <3>1. hasSample' = (hasSample \/ updated)
      BY <2>4, Zenon DEF Poll
    <3>2. latest' = IF updated THEN "sample" ELSE latest
      BY <2>4, Zenon DEF Poll
    <3>3. hasSample' => latest' = "sample"
      BY <3>1, <3>2, Zenon
    <3>4. updated => latest' = "sample"
      BY <3>2, Zenon
    <3>5. \/ frame' \in {frame, "no part"}
          \/ frame' = latest' /\ InFrame(updated, hasSample' /\ quiet' = 0, near)
      BY <2>4, Zenon DEF Poll
    <3>6. InFrame(updated, hasSample' /\ quiet' = 0, near) => updated \/ hasSample'
      BY Zenon DEF InFrame
    <3>7. hasSample' \in BOOLEAN
      BY <3>1, Zenon
    <3>8. frame' # "zeros"
      BY <3>3, <3>4, <3>5, <3>6
    <3> QED
      BY <3>3, <3>7, <3>8
  <2> QED
    BY <1>1, <2>1, <2>2, <2>3, <2>4 DEF Worker
<1>2. CASE Network \/ Wait
  <2>1. UNCHANGED <<hasSample, latest, frame>>
    BY <1>2 DEF Network, Publish, Vanish, Rejoin, Wait, stream
  <2> QED
    BY <2>1
<1>3. CASE Panel
  BY <1>3 DEF Panel, StartPreview, StopPreview, PreviewFinished, HandleIdentity,
              DisplayLatestLiveFrame, ApplySessionConfiguration, stream
<1>4. CASE UNCHANGED streamVars
  BY <1>4 DEF streamVars, stream
<1> QED
  BY <1>1, <1>2, <1>3, <1>4 DEF StreamsNext

\* No frame shows the zeros of an inlet that was just opened.
\* (PreviewStreamWorker::openStream, assemblePreviewFrame)
THEOREM OnlyReceivedIsShown == StreamsSpec => []FramesHoldSamples
<1>1. SampleInv => FramesHoldSamples
  BY DEF SampleInv
<1> QED
  BY <1>1, SampleInit, SampleNext, PTL DEF StreamsSpec
=============================================================================
