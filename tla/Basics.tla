------------------------------- MODULE Basics -------------------------------
(***************************************************************************)
(* What the proofs of several modules rest on: sums and differences modulo *)
(* M, the number of values of a word, which clocks and nonces that wrap    *)
(* around have in common; sequences that grow; that a set of naturals has  *)
(* a least member, which is induction; and that steps of a coprime stride  *)
(* come to every residue.                                                  *)
(***************************************************************************)
EXTENDS Integers, Sequences, FiniteSetTheorems, SequenceTheorems, WellFoundedInduction, TLAPS

LEMMA ModLow ==
  ASSUME NEW M \in Nat \ {0}, NEW x \in 0 .. M - 1
  PROVE  x % M = x
BY Z3

LEMMA ModHigh ==
  ASSUME NEW M \in Nat \ {0}, NEW x \in Int, M <= x, x < 2 * M
  PROVE  x % M = x - M
BY Z3

LEMMA ModNegative ==
  ASSUME NEW M \in Nat \ {0}, NEW x \in Int, x < 0, 0 <= x + M
  PROVE  x % M = x + M
BY Z3

LEMMA ModIsBelow ==
  ASSUME NEW M \in Nat \ {0}, NEW x \in Int
  PROVE  x % M \in 0 .. M - 1
BY Z3

LEMMA HalfIsBelow ==
  ASSUME NEW M \in Nat \ {0}
  PROVE  M \div 2 \in Nat /\ M \div 2 < M
BY Z3

(* A difference on the clock of M instants. *)
LEMMA DifferenceModulo ==
  ASSUME NEW M \in Nat \ {0}, NEW c \in 0 .. M - 1, NEW a \in 0 .. M - 1
  PROVE  (c - a) % M = IF a <= c THEN c - a ELSE c - a + M
<1>1. CASE a <= c
  <2>1. c - a \in 0 .. M - 1
    BY <1>1
  <2> QED  BY <1>1, <2>1, ModLow
<1>2. CASE a > c
  <2>1. c - a \in Int /\ c - a < 0 /\ 0 <= (c - a) + M
    BY <1>2
  <2> QED  BY <1>2, <2>1, ModNegative
<1> QED  BY <1>1, <1>2

LEMMA SumModulo ==
  ASSUME NEW M \in Nat \ {0}, NEW c \in 0 .. M - 1, NEW t \in 0 .. M - 1
  PROVE  /\ (c + t) % M = IF c + t < M THEN c + t ELSE c + t - M
         /\ (c + t) % M \in 0 .. M - 1
<1>1. CASE c + t < M
  <2>1. c + t \in 0 .. M - 1
    BY <1>1
  <2> QED  BY <1>1, <2>1, ModLow
<1>2. CASE c + t >= M
  <2> DEFINE x == c + t
  <2>1. x \in Int /\ M <= x /\ x < 2 * M
    BY <1>2
  <2> HIDE DEF x
  <2>2. x % M = x - M
    BY <2>1, ModHigh
  <2> QED  BY <1>2, <2>2 DEF x
<1> QED  BY <1>1, <1>2

(* An age grows with the clock as long as it stays below M. *)
LEMMA AgeGrows ==
  ASSUME NEW M \in Nat \ {0}, NEW c \in 0 .. M - 1, NEW a \in 0 .. M - 1,
         NEW t \in 0 .. M - 1, ((c - a) % M) + t < M
  PROVE  (((c + t) % M) - a) % M = ((c - a) % M) + t
<1> DEFINE d == (c + t) % M
<1>1. d = IF c + t < M THEN c + t ELSE c + t - M
  BY SumModulo
<1>2. d \in 0 .. M - 1
  BY SumModulo
<1>3. (c - a) % M = IF a <= c THEN c - a ELSE c - a + M
  BY DifferenceModulo
<1>4. (d - a) % M = IF a <= d THEN d - a ELSE d - a + M
  BY <1>2, DifferenceModulo
<1> HIDE DEF d
<1>5. (d - a) % M = ((c - a) % M) + t
  BY <1>1, <1>2, <1>3, <1>4
<1> QED  BY <1>5 DEF d

LEMMA AgeOfNow ==
  ASSUME NEW M \in Nat \ {0}, NEW c \in 0 .. M - 1
  PROVE  (c - c) % M = 0
BY DifferenceModulo

(* A number is the multiple of M below it and what remains. *)
LEMMA Remainder ==
  ASSUME NEW M \in Nat \ {0}, NEW k \in Int, NEW r \in 0 .. M - 1
  PROVE  (M * k + r) % M = r
BY Z3

LEMMA SumOfRemainder ==
  ASSUME NEW M \in Nat \ {0}, NEW q \in Nat, NEW t \in 0 .. M - 1
  PROVE  (q + t) % M = ((q % M) + t) % M
<1> DEFINE k == q \div M
           r == q % M
<1>1. k \in Int /\ r \in 0 .. M - 1 /\ q = M * k + r
  BY Z3
<1> HIDE DEF k, r
<1>2. (r + t) % M = IF r + t < M THEN r + t ELSE r + t - M
  BY <1>1, SumModulo
<1>3. CASE r + t < M
  <2>1. q + t = M * k + (r + t) /\ r + t \in 0 .. M - 1
    BY <1>1, <1>3, Z3
  <2>2. (q + t) % M = r + t
    BY <1>1, <2>1, Remainder
  <2> QED  BY <1>2, <1>3, <2>2 DEF r
<1>4. CASE r + t >= M
  <2>1. q + t = M * (k + 1) + (r + t - M) /\ r + t - M \in 0 .. M - 1 /\ k + 1 \in Int
    BY <1>1, <1>4, Z3
  <2>2. (q + t) % M = r + t - M
    BY <1>1, <2>1, Remainder
  <2>3. ~(r + t < M)
    BY <1>1, <1>4
  <2> QED  BY <1>2, <2>2, <2>3 DEF r
<1> QED  BY <1>1, <1>3, <1>4

(* The age of an instant after t more, on a clock that wraps around. *)
LEMMA AgeAdvances ==
  ASSUME NEW M \in Nat \ {0}, NEW c \in 0 .. M - 1, NEW a \in 0 .. M - 1,
         NEW t \in 0 .. M - 1
  PROVE  (((c + t) % M) - a) % M = (((c - a) % M) + t) % M
<1> DEFINE d == (c + t) % M
           e == (c - a) % M
<1>1. d = (IF c + t < M THEN c + t ELSE c + t - M) /\ d \in 0 .. M - 1
  BY SumModulo
<1>2. e = (IF a <= c THEN c - a ELSE c - a + M) /\ e \in 0 .. M - 1
  BY DifferenceModulo
<1>3. (d - a) % M = IF a <= d THEN d - a ELSE d - a + M
  BY <1>1, DifferenceModulo
<1>4. (e + t) % M = IF e + t < M THEN e + t ELSE e + t - M
  BY <1>2, SumModulo
<1> HIDE DEF d, e
<1>5. (d - a) % M = (e + t) % M
  BY <1>1, <1>2, <1>3, <1>4
<1> QED  BY <1>5 DEF d, e

----------------------------------------------------------------------------
(* Induction. *)

LEMMA LeastNumber ==
  ASSUME NEW T, T \subseteq Nat, T # {}
  PROVE  \E n \in T : \A m \in T : n <= m
<1>1. PICK b \in T : TRUE
  OBVIOUS
<1> DEFINE S == 0 .. b
           Upto(n) == {m \in T : m <= n}
           F == {Upto(n) : n \in T \cap S}
<1>2. IsFiniteSet(S)
  BY <1>1, FS_Interval
<1>3. IsWellFoundedOn(StrictSubsetOrdering(S), FiniteSubsetsOf(S))
  BY <1>2, FS_StrictSubsetOrderingWellFounded
<1>4. F \subseteq FiniteSubsetsOf(S) /\ F # {}
  <2>1. F \subseteq SUBSET S
    <3> SUFFICES ASSUME NEW n \in T \cap S
                 PROVE  Upto(n) \subseteq S
      OBVIOUS
    <3>1. n \in Nat /\ n <= b /\ b \in Nat
      BY <1>1
    <3> SUFFICES ASSUME NEW m \in Upto(n)  PROVE m \in S
      OBVIOUS
    <3>2. m \in Nat /\ m <= n
      OBVIOUS
    <3> QED
      BY <3>1, <3>2
  <2>2. \A X \in SUBSET S : IsFiniteSet(X)
    BY <1>2, FS_Subset
  <2>3. Upto(b) \in F
    BY <1>1
  <2>4. F # {}
    BY <2>3
  <2>5. ASSUME NEW X \in F PROVE X \in FiniteSubsetsOf(S)
    <3> HIDE DEF F, S
    <3> QED  BY <2>1, <2>2 DEF FiniteSubsetsOf
  <2> QED
    BY <2>4, <2>5
<1>5. PICK X \in F : \A Y \in F : <<Y, X>> \notin StrictSubsetOrdering(S)
  <2> HIDE DEF F, S
  <2> QED
    BY <1>3, <1>4, WFMin
<1>6. PICK n \in T \cap S : X = Upto(n)
  OBVIOUS
<1>7. ASSUME NEW m \in T, m < n PROVE FALSE
  <2>1. m \in T \cap S
    BY <1>1, <1>6, <1>7
  <2>a. n \in Nat /\ m \in Nat
    BY <1>1
  <2>b. Upto(m) \in F
    BY <2>1
  <2>c. n \notin Upto(m) /\ n \in Upto(n)
    BY <1>7, <2>a
  <2>d. ASSUME NEW k \in Upto(m) PROVE k \in Upto(n)
    <3>1. k \in Nat /\ k \in T /\ k <= m
      OBVIOUS
    <3> QED  BY <3>1, <1>7, <2>a
  <2>2. Upto(m) \in F /\ Upto(m) \subseteq Upto(n) /\ n \notin Upto(m) /\ n \in Upto(n)
    <3> HIDE DEF F, S, Upto
    <3> QED  BY <2>b, <2>c, <2>d
  <2>3. Upto(m) \in SUBSET S /\ Upto(n) \in SUBSET S
    <3> SUFFICES F \subseteq SUBSET S
      BY <2>b, <1>6
    <3> QED  BY <1>4 DEF FiniteSubsetsOf
  <2>4. <<Upto(m), Upto(n)>> \in StrictSubsetOrdering(S)
    BY <2>2, <2>3 DEF StrictSubsetOrdering
  <2> QED
    BY <1>5, <1>6, <2>2, <2>4
<1> QED
  BY <1>6, <1>7

(* The same, for the set of the numbers that have a property. *)
LEMMA Induction ==
  ASSUME NEW T, 0 \in T, \A n \in Nat : n \in T => n + 1 \in T
  PROVE  Nat \subseteq T
<1> SUFFICES ASSUME ~(Nat \subseteq T) PROVE FALSE
  OBVIOUS
<1> DEFINE U == {n \in Nat : n \notin T}
<1>1. PICK n \in U : \A m \in U : n <= m
  <2>1. U \subseteq Nat /\ U # {}
    OBVIOUS
  <2> HIDE DEF U
  <2> QED  BY <2>1, LeastNumber
<1>2. n \in Nat /\ n # 0 /\ n \notin T
  OBVIOUS
<1>3. n - 1 \in Nat /\ n - 1 \notin U /\ (n - 1) + 1 = n
  BY <1>1, <1>2
<1> QED  BY <1>2, <1>3

LEMMA GreatestNumber ==
  ASSUME NEW b \in Nat, NEW T, T \subseteq 1 .. b, T # {}
  PROVE  \E n \in T : \A m \in T : m <= n
<1> DEFINE U == {b - n : n \in T}
<1>1. U \subseteq Nat /\ U # {}
  <2>1. PICK n \in T : TRUE
    OBVIOUS
  <2>2. b - n \in U
    BY <2>1
  <2>3. ASSUME NEW m \in T PROVE b - m \in Nat
    <3>1. m \in 1 .. b
      OBVIOUS
    <3> QED  BY <3>1
  <2> QED  BY <2>2, <2>3
<1> HIDE DEF U
<1>2. PICK k \in U : \A m \in U : k <= m
  BY <1>1, LeastNumber
<1>3. PICK n \in T : k = b - n
  BY DEF U
<1>4. ASSUME NEW m \in T PROVE m <= n
  <2>1. k <= b - m
    BY <1>2 DEF U
  <2> QED  BY <1>3, <2>1
<1> QED  BY <1>4

(* A sequence of values in which each determines the next. *)
IsSteps(f, n, x0, g) ==
  f = [k \in 0 .. n |-> IF k = 0 THEN x0 ELSE g[<<k, f[k - 1]>>]]

LEMMA StepsExist ==
  ASSUME NEW n \in Nat, NEW X, NEW x0 \in X, NEW g \in [(1 .. n) \X X -> X]
  PROVE  \E f \in [0 .. n -> X] : IsSteps(f, n, x0, g)
<1> DEFINE T == {m \in Nat : m <= n => \E f \in [0 .. m -> X] : IsSteps(f, m, x0, g)}
<1>1. 0 \in T
  <2> DEFINE f == [k \in 0 .. 0 |-> x0]
  <2>1. f \in [0 .. 0 -> X] /\ IsSteps(f, 0, x0, g)
    BY DEF IsSteps
  <2> QED  BY <2>1
<1>2. ASSUME NEW m \in Nat, m \in T PROVE m + 1 \in T
  <2> SUFFICES ASSUME m + 1 <= n
               PROVE  \E f \in [0 .. m + 1 -> X] : IsSteps(f, m + 1, x0, g)
    BY <1>2
  <2>1. PICK f \in [0 .. m -> X] : IsSteps(f, m, x0, g)
    BY <1>2
  <2> DEFINE y == g[<<m + 1, f[m]>>]
             h == [k \in 0 .. m + 1 |-> IF k = m + 1 THEN y ELSE f[k]]
  <2>2. y \in X
    <3>1. m + 1 \in 1 .. n /\ f[m] \in X
      OBVIOUS
    <3> QED  BY <3>1
  <2>3. h \in [0 .. m + 1 -> X]
    BY <2>2
  <2>4. ASSUME NEW k \in 0 .. m + 1
        PROVE  h[k] = IF k = 0 THEN x0 ELSE g[<<k, h[k - 1]>>]
    <3>1. CASE k = m + 1
      <4>1. k # 0 /\ k - 1 = m /\ m \in 0 .. m + 1 /\ m # m + 1
        BY <3>1
      <4> QED  BY <3>1, <4>1
    <3>2. CASE k # m + 1
      <4>1. k \in 0 .. m
        BY <3>2
      <4>2. h[k] = f[k] /\ f[k] = IF k = 0 THEN x0 ELSE g[<<k, f[k - 1]>>]
        BY <2>1, <3>2, <4>1 DEF IsSteps
      <4>3. k # 0 => k - 1 \in 0 .. m + 1 /\ k - 1 # m + 1
        BY <4>1
      <4> QED  BY <4>2, <4>3
    <3> QED  BY <3>1, <3>2
  <2>5. h = [k \in 0 .. m + 1 |-> h[k]]
    OBVIOUS
  <2> HIDE DEF h
  <2>6. IsSteps(h, m + 1, x0, g)
    BY <2>4, <2>5 DEF IsSteps
  <2> QED  BY <2>3, <2>6
<1> HIDE DEF T
<1>3. n \in T
  BY <1>1, <1>2, Induction
<1> QED  BY <1>3 DEF T

----------------------------------------------------------------------------
(* Walks through 0 .. n - 1. *)

LEMMA Division ==
  ASSUME NEW M \in Nat \ {0}, NEW x \in Nat
  PROVE  /\ x \div M \in Nat /\ x % M \in 0 .. M - 1
         /\ x = M * (x \div M) + (x % M)
<1>1. x % M \in 0 .. M - 1
  BY Z3
<1>2. x \div M \in Int /\ x = M * (x \div M) + (x % M)
  BY Z3
<1>3. x \div M \in Nat
  BY <1>1, <1>2, Z3
<1> QED  BY <1>1, <1>2, <1>3

LEMMA Quotient ==
  ASSUME NEW M \in Nat \ {0}, NEW k \in Nat, NEW r \in 0 .. M - 1
  PROVE  (M * k + r) \div M = k
BY Z3

(* Two values that are the same modulo n differ by nothing, or by n or more. *)
LEMMA SameModulo ==
  ASSUME NEW n \in Nat \ {0}, NEW x \in Nat, NEW y \in Nat, x % n = y % n,
         x - y < n, y - x < n
  PROVE  x = y
<1> DEFINE h == x \div n
           k == y \div n
           r == x % n
<1>1. h \in Nat /\ k \in Nat /\ r \in 0 .. n - 1 /\ x = n * h + r /\ y = n * k + r
  BY Division
<1> HIDE DEF h, k, r
<1>2. ~(h < k) /\ ~(k < h)
  <2>1. ASSUME NEW a \in Nat, NEW b \in Nat, a < b PROVE n * b >= n * a + n
    <3>1. n * b = n * a + n * (b - a)
      BY Z3
    <3>2. n * (b - a) >= n
      BY <2>1, Z3
    <3> QED  BY <3>1, <3>2
  <2>2. n * h \in Nat /\ n * k \in Nat
    BY <1>1
  <2>3. ~(h < k)
    <3> SUFFICES ASSUME h < k PROVE FALSE
      OBVIOUS
    <3>1. n * k >= n * h + n
      BY <1>1, <2>1
    <3> QED  BY <1>1, <2>2, <3>1
  <2>4. ~(k < h)
    <3> SUFFICES ASSUME k < h PROVE FALSE
      OBVIOUS
    <3>1. n * h >= n * k + n
      BY <1>1, <2>1
    <3> QED  BY <1>1, <2>2, <3>1
  <2> QED  BY <2>3, <2>4
<1> QED  BY <1>1, <1>2

(* What is added on both sides does not matter. *)
LEMMA SumCancels ==
  ASSUME NEW n \in Nat \ {0}, NEW p \in 0 .. n - 1, NEW x \in Nat, NEW y \in Nat,
         (p + x) % n = (p + y) % n
  PROVE  x % n = y % n
<1> DEFINE u == x % n
           v == y % n
<1>1. u \in 0 .. n - 1 /\ v \in 0 .. n - 1
  BY Division
<1>2. (x + p) % n = (u + p) % n /\ (y + p) % n = (v + p) % n
  BY SumOfRemainder
<1>3. x + p = p + x /\ y + p = p + y
  OBVIOUS
<1> HIDE DEF u, v
<1> DEFINE a == u + p
           b == v + p
<1>4. a \in Nat /\ b \in Nat /\ a - b < n /\ b - a < n
  BY <1>1
<1>5. a % n = b % n
  BY <1>2, <1>3
<1> HIDE DEF a, b
<1>6. a = b
  BY <1>4, <1>5, SameModulo
<1>7. u = v
  BY <1>1, <1>6 DEF a, b
<1> QED  BY <1>7 DEF u, v

(* The least number of steps after which a walk of stride s is back where it
   began divides n; the quotient divides n and s. *)
LEMMA CoprimeReturns ==
  ASSUME NEW n \in Nat \ {0}, NEW s \in Nat,
         \A d \in 2 .. n : s % d # 0 \/ n % d # 0,
         NEW t \in 1 .. n - 1
  PROVE  (t * s) % n # 0
<1> SUFFICES ASSUME (t * s) % n = 0 PROVE FALSE
  OBVIOUS
<1> DEFINE T == {u \in Nat : u # 0 /\ \E m \in Nat : u * s = n * m}
<1>1. t \in T
  <2>1. t \in Nat /\ t # 0 /\ t * s \in Nat
    OBVIOUS
  <2>2. t * s = n * ((t * s) \div n) /\ (t * s) \div n \in Nat
    <3> DEFINE x == t * s
    <3>1. x \in Nat /\ x % n = 0
      BY <2>1
    <3> HIDE DEF x
    <3>2. x = n * (x \div n) + (x % n) /\ x \div n \in Nat
      BY <3>1, Division
    <3>3. n * (x \div n) \in Nat
      BY <3>2
    <3>4. x = n * (x \div n)
      BY <3>1, <3>2, <3>3
    <3> QED  BY <3>2, <3>4 DEF x
  <2> QED  BY <2>1, <2>2
<1>2. PICK g \in T : \A u \in T : g <= u
  <2>1. T \subseteq Nat /\ T # {}
    BY <1>1
  <2> HIDE DEF T
  <2> QED  BY <2>1, LeastNumber
<1>3. g \in Nat \ {0} /\ g <= t
  BY <1>1, <1>2
<1>4. PICK m \in Nat : g * s = n * m
  OBVIOUS
<1> DEFINE h == n \div g
           r == n % g
<1>5. h \in Nat /\ r \in Nat /\ r < g /\ n = g * h + r
  BY <1>3, Division
<1> HIDE DEF h, r
<1>6. r = 0
  <2> SUFFICES ASSUME r # 0 PROVE FALSE
    OBVIOUS
  <2> DEFINE p == s - m * h
  <2>1. r * s = n * s - h * (g * s)
    <3>1. r = n - g * h
      BY <1>3, <1>5
    <3> QED  BY <1>3, <1>5, <3>1, Z3
  <2>2. r * s = n * p
    BY <1>4, <1>5, <2>1, Z3
  <2>3. p \in Int /\ r * s \in Nat
    BY <1>5
  <2> HIDE DEF p
  <2>4. p \in Nat
    <3> SUFFICES ASSUME p < 0 PROVE FALSE
      BY <2>3
    <3>1. n * p < 0
      BY <2>3, Z3
    <3> QED  BY <2>2, <2>3, <3>1
  <2>5. r \in T
    BY <1>5, <2>2, <2>4
  <2> QED  BY <1>2, <1>3, <1>5, <2>5, SMTT(30)
<1>7. n = g * h
  BY <1>3, <1>5, <1>6
<1>8. h \in 2 .. n
  <2>1. g < n
    BY <1>3
  <2>2. h # 0 /\ h # 1
    BY <1>3, <1>5, <1>7, <2>1
  <2>3. h <= n
    BY <1>3, <1>5, <1>7, Z3
  <2> QED  BY <1>5, <2>2, <2>3
<1>9. s = h * m
  <2>1. g * s = g * (h * m)
    BY <1>3, <1>4, <1>5, <1>7, Z3
  <2> QED  BY <1>3, <1>5, <2>1, Z3
<1>10. s % h = 0 /\ n % h = 0
  <2>1. s = h * m + 0 /\ n = h * g + 0 /\ 0 \in 0 .. h - 1 /\ h \in Nat \ {0}
    BY <1>3, <1>5, <1>7, <1>8, <1>9
  <2>2. (h * m + 0) % h = 0 /\ (h * g + 0) % h = 0
    BY <1>3, <2>1, Remainder
  <2> QED  BY <2>1, <2>2
<1> QED  BY <1>8, <1>10

(* A walk of such a stride is at different places at different steps. *)
LEMMA CoprimeWalk ==
  ASSUME NEW n \in Nat \ {0}, NEW s \in Nat,
         \A d \in 2 .. n : s % d # 0 \/ n % d # 0,
         NEW o \in Nat, NEW i \in 0 .. n - 1, NEW j \in 0 .. n - 1,
         ((i * s) + o) % n = ((j * s) + o) % n
  PROVE  i = j
<1>1. ASSUME NEW a \in 0 .. n - 1, NEW b \in 0 .. n - 1, a < b,
             ((a * s) + o) % n = ((b * s) + o) % n
      PROVE  FALSE
  <2> DEFINE x == (a * s) + o
             y == (b * s) + o
  <2>1. x \in Nat /\ y \in Nat /\ b - a \in 1 .. n - 1
    BY <1>1
  <2>2. y - x = (b - a) * s
    BY <1>1, Z3
  <2>3. x % n = y % n
    BY <1>1
  <2> HIDE DEF x, y
  <2>4. y - x = n * (y \div n) - n * (x \div n)
    <3>1. /\ x = n * (x \div n) + (x % n) /\ y = n * (y \div n) + (y % n)
          /\ x \div n \in Nat /\ y \div n \in Nat /\ x % n \in 0 .. n - 1
      BY <2>1, Division
    <3>2. n * (x \div n) \in Nat /\ n * (y \div n) \in Nat
      BY <3>1
    <3> QED  BY <2>1, <2>3, <3>1, <3>2
  <2> DEFINE k == (y \div n) - (x \div n)
  <2>5. k \in Int /\ y - x = n * k
    <3>1. x \div n \in Nat /\ y \div n \in Nat
      BY <2>1, Division
    <3> QED  BY <2>4, <3>1, Z3
  <2> HIDE DEF k
  <2>6. (n * k + 0) % n = 0
    <3>1. 0 \in 0 .. n - 1
      OBVIOUS
    <3> QED  BY <2>5, <3>1, Remainder
  <2>7. n * k + 0 = (b - a) * s
    BY <2>2, <2>5
  <2> QED  BY <2>1, <2>6, <2>7, CoprimeReturns
<1>2. i < j \/ j < i \/ i = j
  OBVIOUS
<1> QED  BY <1>1, <1>2

LEMMA IntervalSize ==
  ASSUME NEW n \in Nat
  PROVE  IsFiniteSet(0 .. n - 1) /\ Cardinality(0 .. n - 1) = n
<1>1. n - 1 \in Int /\ 0 \in Int
  OBVIOUS
<1>2. /\ IsFiniteSet(0 .. n - 1)
      /\ Cardinality(0 .. n - 1) = IF 0 > n - 1 THEN 0 ELSE (n - 1) - 0 + 1
  BY <1>1, FS_Interval
<1> QED  BY <1>2

(* n different values below n are all of them. *)
LEMMA AllValues ==
  ASSUME NEW n \in Nat, NEW f \in [0 .. n - 1 -> 0 .. n - 1],
         \A i, j \in 0 .. n - 1 : f[i] = f[j] => i = j
  PROVE  {f[i] : i \in 0 .. n - 1} = 0 .. n - 1
<1> DEFINE S == 0 .. n - 1
           T == {f[i] : i \in S}
<1>1. IsFiniteSet(S)
  BY FS_Interval
<1>3. f \in Injection(S, S)
  BY DEF Injection, IsInjective
<1> HIDE DEF S
<1>4. f \in Surjection(S, S)
  BY <1>1, <1>3, FS_Injection
<1>5. T = S
  <2>1. T \subseteq S
    BY DEF S
  <2>2. \A x \in S : \E i \in S : f[i] = x
    BY <1>4 DEF Surjection
  <2> QED  BY <2>1, <2>2
<1> QED  BY <1>5 DEF S, T
----------------------------------------------------------------------------
(* Sequences of anything: no property here depends on what the elements are. *)
IsSeq(s) == \E S : s \in Seq(S)

LEMMA SeqFacts ==
  ASSUME NEW s, IsSeq(s)
  PROVE  Len(s) \in Nat /\ DOMAIN s = 1 .. Len(s)
<1>1. PICK S : s \in Seq(S)
  BY DEF IsSeq
<1> QED
  BY <1>1, LenProperties

LEMMA AppendFacts ==
  ASSUME NEW s, IsSeq(s), NEW e
  PROVE  /\ IsSeq(Append(s, e)) /\ Len(Append(s, e)) = Len(s) + 1
         /\ \A i \in 1 .. Len(s) : Append(s, e)[i] = s[i]
         /\ Append(s, e)[Len(s) + 1] = e
<1>1. PICK S : s \in Seq(S)
  BY DEF IsSeq
<1> DEFINE T == S \union {e}
<1>2. s \in Seq(T)
  BY <1>1, SeqMonotonic
<1>3. Append(s, e) \in Seq(T)
  BY <1>2, AppendProperties
<1> QED
  BY <1>2, <1>3, AppendProperties DEF IsSeq
=============================================================================
