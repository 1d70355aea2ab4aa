-------------------------- MODULE MediaFormatProofs --------------------------
(***************************************************************************)
(* Proofs about MediaFormat: any rates, channels, lengths, stamps, clocks.  *)
(***************************************************************************)
EXTENDS MediaFormat, TLAPS

-----------------------------------------------------------------------------
(* Division of natural numbers                                              *)

\* What \div and % are.
LEMMA Quotient ==
    ASSUME NEW x \in Nat, NEW c \in Nat \ {0}
    PROVE  /\ x \div c \in Nat /\ x % c \in Nat
           /\ x = c * (x \div c) + (x % c)
           /\ x % c < c
OBVIOUS

\* Multiplication by a positive number keeps the order.
LEMMA Products ==
    ASSUME NEW x \in Nat, NEW y \in Nat, NEW c \in Nat \ {0}
    PROVE  /\ x <= y <=> x * c <= y * c
           /\ x < y <=> x * c < y * c
           /\ x * c \in Nat
OBVIOUS

\* Factors of a product in any order.
LEMMA ProductsBothSides ==
    ASSUME NEW r \in Nat \ {0}, NEW c \in Nat \ {0}
    PROVE  /\ r * c \in Nat \ {0} /\ r * c = c * r
           /\ \A y \in Nat : (y * r) * c = y * (r * c)
OBVIOUS

\* A quotient is at least one exactly when the dividend reaches the divisor.
LEMMA QuotientPositive ==
    ASSUME NEW x \in Nat, NEW r \in Nat \ {0}
    PROVE  x \div r > 0 <=> x >= r
<1> DEFINE q == x \div r
<1>1. q \in Nat /\ x % r \in Nat /\ x = r * q + (x % r) /\ x % r < r
  BY Quotient
<1> HIDE DEF q
<1>2. CASE q = 0
  BY <1>1, <1>2 DEF q
<1>3. CASE q > 0
  <2>1. r * q >= r
    BY <1>1, <1>3
  <2> QED BY <1>1, <1>3, <2>1 DEF q
<1> QED BY <1>1, <1>2, <1>3

\* Dividing twice is dividing by the product, up to what both truncations lose.
LEMMA TwoDivisions ==
    ASSUME NEW x \in Nat, NEW c \in Nat \ {0}, NEW r \in Nat \ {0}
    PROVE  /\ (x \div c) \div r \in Nat
           /\ ((x \div c) \div r) * (r * c) <= x
           /\ x < (((x \div c) \div r) + 1) * (r * c)
           /\ x % (r * c) = 0 => ((x \div c) \div r) * (r * c) = x
<1> DEFINE q == x \div c
           y == q \div r
<1>1. q \in Nat /\ x % c \in Nat /\ x = c * q + (x % c) /\ x % c < c
  BY Quotient
<1> HIDE DEF q
<1>2. y \in Nat /\ q % r \in Nat /\ q = r * y + (q % r) /\ q % r < r
  BY <1>1, Quotient
<1> HIDE DEF y
<1>3. y * r <= q /\ q + 1 <= (y + 1) * r
  BY <1>2
<1>4. (y * r) * c <= q * c /\ (q + 1) * c <= ((y + 1) * r) * c
  <2>1. y * r \in Nat /\ (y + 1) * r \in Nat /\ q + 1 \in Nat
    BY <1>1, <1>2
  <2> QED BY <1>1, <1>3, <2>1, Products
<1>5. q * c <= x /\ x < (q + 1) * c
  BY <1>1
<1>6. /\ (y * r) * c = y * (r * c)
      /\ ((y + 1) * r) * c = (y + 1) * (r * c)
      /\ r * c \in Nat \ {0}
  BY <1>2, ProductsBothSides
<1>7. y * (r * c) <= x /\ x < (y + 1) * (r * c)
  <2>1. (y * r) * c \in Nat /\ q * c \in Nat /\ (q + 1) * c \in Nat
        /\ ((y + 1) * r) * c \in Nat
    BY <1>1, <1>2
  <2> QED BY <1>4, <1>5, <1>6, <2>1
<1>8. ASSUME x % (r * c) = 0 PROVE y * (r * c) = x
  <2> DEFINE p == r * c
             z == x \div p
  <2>1. p \in Nat \ {0}
    BY <1>6
  <2> HIDE DEF p
  <2>2. z \in Nat /\ x = p * z
    BY <1>8, <2>1, Quotient DEF p
  <2> HIDE DEF z
  <2>3. y * p <= z * p /\ z * p < (y + 1) * p
    BY <1>7, <2>1, <2>2, <1>2 DEF p
  <2>4. y <= z /\ z < y + 1
    BY <1>2, <2>1, <2>2, <2>3, Products
  <2>5. y = z
    BY <1>2, <2>2, <2>4
  <2> QED BY <2>1, <2>2, <2>5, <1>2 DEF p
<1> QED BY <1>2, <1>7, <1>8 DEF y, q

\* They are one division by the product.
LEMMA OneDivision ==
    ASSUME NEW x \in Nat, NEW c \in Nat \ {0}, NEW r \in Nat \ {0}
    PROVE  (x \div c) \div r = x \div (r * c)
<1> DEFINE p == r * c
           t == (x \div c) \div r
           z == x \div p
<1>1. /\ t \in Nat /\ p \in Nat \ {0}
      /\ t * p <= x /\ x < (t + 1) * p
  BY TwoDivisions, ProductsBothSides
<1> HIDE DEF p, t
<1>2. z \in Nat /\ x % p \in Nat /\ x = p * z + (x % p) /\ x % p < p
  BY <1>1, Quotient
<1> HIDE DEF z
<1>3. z * p <= x /\ x < (z + 1) * p
  BY <1>1, <1>2
<1>4. /\ t * p \in Nat /\ (t + 1) * p \in Nat /\ z * p \in Nat /\ (z + 1) * p \in Nat
      /\ t + 1 \in Nat /\ z + 1 \in Nat
  BY <1>1, <1>2
<1>5. t * p < (z + 1) * p /\ z * p < (t + 1) * p
  BY <1>1, <1>3, <1>4
<1>6. t < z + 1 /\ z < t + 1
  BY <1>1, <1>2, <1>4, <1>5, Products
<1> QED BY <1>1, <1>2, <1>6 DEF t, z, p

\* A product is divided by its factor without a rest.
LEMMA NoRemainder ==
    ASSUME NEW t \in Nat, NEW p \in Nat \ {0}
    PROVE  (t * p) % p = 0
<1> DEFINE x == t * p
           z == x \div p
<1>1. x \in Nat
  OBVIOUS
<1>2. z \in Nat /\ x % p \in Nat /\ x = p * z + (x % p) /\ x % p < p
  BY <1>1, Quotient
<1> HIDE DEF z
<1>3. z * p <= t * p /\ t * p < (z + 1) * p
  BY <1>2
<1>4. z <= t /\ t < z + 1
  BY <1>2, <1>3, Products
<1>5. p * z = x
  BY <1>2, <1>4
<1> HIDE DEF x
<1>6. x % p = 0
  BY <1>1, <1>2, <1>5
<1> QED BY <1>6 DEF x

\* A larger dividend has no smaller quotient.
LEMMA DivisionKeepsOrder ==
    ASSUME NEW x \in Nat, NEW y \in Nat, NEW c \in Nat \ {0}, x <= y
    PROVE  x \div c <= y \div c
<1> DEFINE a == x \div c
           b == y \div c
<1>1. a \in Nat /\ x % c \in Nat /\ x = c * a + (x % c)
  BY Quotient
<1>2. b \in Nat /\ y % c \in Nat /\ y = c * b + (y % c) /\ y % c < c
  BY Quotient
<1> HIDE DEF a, b
<1>3. a * c <= x /\ y < (b + 1) * c
  BY <1>1, <1>2
<1>4. a * c < (b + 1) * c
  BY <1>1, <1>2, <1>3
<1>5. a < b + 1
  <2>1. b + 1 \in Nat
    BY <1>2
  <2> QED BY <1>1, <1>4, <2>1, Products
<1> QED BY <1>1, <1>2, <1>5 DEF a, b

-----------------------------------------------------------------------------
(* Formats                                                                  *)

\* 10^6 is never expanded below.
LEMMA UsecIsANumber == Usec \in Nat \ {0}
BY SMT DEF Usec

\* A format that port_format gets as far as checking.
Checked(f) == f \in [rate : Nat \ {0}, channels : Nat \ {0}, samples : Nat]

\* Milliseconds of complete groups are counted without divisions.
LEMMA Milliseconds ==
    ASSUME NEW f, Checked(f), NEW n \in Nat
    PROVE  /\ ((n \div f.channels) * 1000) \div f.rate \in Nat
           /\ ((n \div f.channels) * 1000) \div f.rate > 0 <=> LongEnough(f, n)
<1> DEFINE c == f.channels
           r == f.rate
           q == n \div c
<1>1. c \in Nat \ {0} /\ r \in Nat \ {0}
  BY DEF Checked
<1> HIDE DEF c, r
<1>2. q \in Nat /\ n - (n % c) = c * q
  BY <1>1, Quotient
<1> HIDE DEF q
<1>3. q * 1000 \in Nat
  BY <1>2
<1>4. (q * 1000) \div r \in Nat /\ ((q * 1000) \div r > 0 <=> q * 1000 >= r)
  BY <1>1, <1>3, Quotient, QuotientPositive
<1>5. q * 1000 >= r <=> (q * 1000) * c >= r * c
  BY <1>1, <1>3, Products
<1>6. (q * 1000) * c = (c * q) * 1000
  BY <1>1, <1>2
<1> QED BY <1>2, <1>4, <1>5, <1>6 DEF LongEnough, Pace, c, r, q

\* More samples make no shorter frame.
LEMMA LongerIsLongEnough ==
    ASSUME NEW f, Checked(f), NEW m \in Nat, NEW n \in Nat, m <= n, LongEnough(f, m)
    PROVE  LongEnough(f, n)
<1> DEFINE c == f.channels
           a == m \div c
           b == n \div c
<1>1. c \in Nat \ {0} /\ Pace(f) \in Nat
  BY DEF Checked, Pace
<1> HIDE DEF c
<1>2. a \in Nat /\ m - (m % c) = c * a /\ b \in Nat /\ n - (n % c) = c * b /\ a <= b
  <2>1. a \in Nat /\ m % c \in Nat /\ m = c * a + (m % c)
    BY <1>1, Quotient
  <2>2. b \in Nat /\ n % c \in Nat /\ n = c * b + (n % c)
    BY <1>1, Quotient
  <2>3. a <= b
    BY <1>1, DivisionKeepsOrder
  <2> HIDE DEF a, b
  <2> QED BY <1>1, <2>1, <2>2, <2>3
<1> HIDE DEF a, b
<1>3. c * a <= c * b
  BY <1>1, <1>2, Products
<1>4. (c * a) * 1000 <= (c * b) * 1000
  BY <1>1, <1>2, <1>3
<1>5. (c * a) * 1000 \in Nat /\ (c * b) * 1000 \in Nat
  BY <1>1, <1>2
<1>6. (c * a) * 1000 >= Pace(f)
  BY <1>2 DEF LongEnough, c
<1> QED BY <1>1, <1>2, <1>4, <1>5, <1>6 DEF LongEnough, c

\* The check lets no port of empty frames pass.
LEMMA FramesOfOpenPorts ==
    ASSUME NEW f, Checked(f), PortTime(f) > 0
    PROVE  f.samples # 0
<1>1. SUFFICES ASSUME f.samples = 0 PROVE FALSE
  OBVIOUS
<1>2. f.channels \in Nat \ {0} /\ f.rate \in Nat \ {0}
  BY DEF Checked
<1>3. 0 % f.channels = 0
  BY <1>2
<1>4. Pace(f) \in Nat \ {0}
  BY <1>2, ProductsBothSides DEF Pace
<1>5. LongEnough(f, 0)
  BY <1>1, Milliseconds DEF PortTime
<1> QED BY <1>3, <1>4, <1>5 DEF LongEnough

\* What the bridge makes of a format: no more samples than it has, few less unless
\* the field wraps, and exactly as many if nothing is cut off.
LEMMA BridgeView ==
    ASSUME NEW f, Checked(f)
    PROVE  /\ BridgeSamples(f) \in Nat /\ BridgeSamples(f) <= f.samples
           /\ ~Wraps(f) => f.samples - Lost(f) <= BridgeSamples(f)
           /\ BridgeSamples(f) = f.samples <=> WholeMicroseconds(f) /\ ~Wraps(f)
<1> DEFINE s == f.samples
           p == Pace(f)
           x == s * Usec
           T == x \div p
           t == FrameTime(f)
           y == t * p
           b == BridgeSamples(f)
<1>1. /\ s \in Nat /\ f.channels \in Nat \ {0} /\ f.rate \in Nat \ {0} /\ x \in Nat
      /\ p \in Nat \ {0} /\ p = f.rate * f.channels
  BY UsecIsANumber, ProductsBothSides DEF Checked, Pace
<1>2. t = T % FieldRange
  BY <1>1, OneDivision DEF FrameTime
<1>3. (t * f.rate) * f.channels = t * p
  <2>1. T \in Nat
    BY <1>1, Quotient
  <2>2. t \in Nat
    BY <1>2, <2>1, FormatAssumption, UsecIsANumber
  <2> HIDE DEF t, p
  <2> QED BY <1>1, <2>2, ProductsBothSides
<1>4. b = y \div Usec
  BY <1>3 DEF BridgeSamples
<1> HIDE DEF p, x, T, t, y, b
<1>5. T \in Nat /\ x % p \in Nat /\ x = p * T + (x % p) /\ x % p < p
  BY <1>1, Quotient DEF T
<1>6. t \in Nat /\ t <= T /\ t < FieldRange /\ (T < FieldRange => t = T)
  <2>1. FieldRange \in Nat \ {0}
    BY FormatAssumption, UsecIsANumber
  <2>2. T \div FieldRange \in Nat /\ T % FieldRange \in Nat
        /\ T = FieldRange * (T \div FieldRange) + (T % FieldRange)
        /\ T % FieldRange < FieldRange
    BY <1>5, <2>1, Quotient
  <2>3. FieldRange * (T \div FieldRange) \in Nat
    BY <2>1, <2>2
  <2>4. T < FieldRange => T % FieldRange = T
    BY <1>5, <2>1
  <2> QED BY <1>2, <1>5, <2>1, <2>2, <2>3, <2>4
<1>7. Wraps(f) <=> T >= FieldRange
  BY DEF Wraps, T, x, p
<1>8. y \in Nat /\ y <= T * p /\ T * p <= x /\ x < T * p + p
  <2>1. y \in Nat /\ T * p \in Nat /\ T * p = p * T
    BY <1>1, <1>5, <1>6 DEF y
  <2>2. y <= T * p
    BY <1>1, <1>5, <1>6, Products DEF y
  <2> QED BY <1>1, <1>5, <2>1, <2>2
<1>9. b \in Nat /\ y % Usec \in Nat /\ y = Usec * b + (y % Usec) /\ y % Usec < Usec
  BY <1>4, <1>8, Quotient, UsecIsANumber
<1>10. b * Usec <= y /\ y < (b + 1) * Usec
  BY <1>9, UsecIsANumber
<1>11. b <= s
  <2>1. b * Usec <= s * Usec
    BY <1>1, <1>8, <1>9, <1>10, <1>5, UsecIsANumber DEF x
  <2> QED BY <1>1, <1>9, <2>1, Products, UsecIsANumber
<1>12. ASSUME ~Wraps(f) PROVE s - Lost(f) <= b
  <2> DEFINE k == p \div Usec
  <2>2. Lost(f) = 1 + k
    BY DEF Lost, p
  <2>0. k \in Nat /\ p % Usec \in Nat /\ p = Usec * k + (p % Usec) /\ p % Usec < Usec
    BY <1>1, Quotient, UsecIsANumber
  <2> HIDE DEF k
  <2>1. k \in Nat /\ p < (k + 1) * Usec
    BY <1>1, <2>0, UsecIsANumber
  <2>3. y = T * p
    BY <1>5, <1>6, <1>7, <1>12, FormatAssumption DEF y
  <2>4. s * Usec < (b + 1) * Usec + (k + 1) * Usec
    BY <1>1, <1>5, <1>8, <1>9, <1>10, <2>1, <2>3, UsecIsANumber DEF x
  <2>5. (b + 1) * Usec + (k + 1) * Usec = (b + k + 2) * Usec
    BY <1>9, <2>1, UsecIsANumber
  <2>6. s < b + k + 2
    <3>1. b + k + 2 \in Nat
      BY <1>9, <2>1
    <3> QED BY <1>1, <2>4, <2>5, <3>1, Products, UsecIsANumber
  <2> QED BY <1>1, <1>9, <2>1, <2>2, <2>6
<1>13. ASSUME WholeMicroseconds(f), ~Wraps(f) PROVE b = s
  <2>1. x % p = 0
    BY <1>13 DEF WholeMicroseconds, x, p
  <2>2. y = x
    BY <1>1, <1>5, <1>6, <1>7, <1>13, <2>1, FormatAssumption DEF y
  <2>3. s * Usec < (b + 1) * Usec
    BY <1>10, <2>2 DEF x
  <2>4. s < b + 1
    <3>1. b + 1 \in Nat
      BY <1>9
    <3> QED BY <1>1, <2>3, <3>1, Products, UsecIsANumber
  <2>5. s \in Nat /\ b \in Nat
    BY <1>1, <1>9
  <2> QED BY <1>11, <2>4, <2>5
<1>14. ASSUME b = s PROVE WholeMicroseconds(f) /\ ~Wraps(f)
  <2>1. y = x /\ T * p = x
    <3>1. x <= y
      BY <1>10, <1>14 DEF x
    <3> DEFINE z == T * p
    <3>2. z \in Nat /\ x \in Nat
      BY <1>1, <1>5
    <3>3. y \in Nat /\ y <= z /\ z <= x
      BY <1>8
    <3> HIDE DEF z
    <3>4. y = x /\ z = x
      BY <3>1, <3>2, <3>3
    <3> QED BY <3>4 DEF z
  <2>2. x % p = 0
    BY <1>1, <1>5, <2>1, NoRemainder
  <2>3. t = T
    <3>1. t * p <= T * p /\ T * p <= t * p
      BY <1>1, <1>5, <1>6, <2>1 DEF y
    <3>2. t \in Nat /\ T \in Nat /\ p \in Nat \ {0}
      BY <1>1, <1>5, <1>6
    <3>3. t <= T /\ T <= t
      BY <3>1, <3>2, Products
    <3> QED BY <3>2, <3>3
  <2>4. ~Wraps(f)
    BY <1>5, <1>6, <1>7, <2>3, FormatAssumption
  <2> QED BY <2>2, <2>4 DEF WholeMicroseconds, x, p
<1> QED BY <1>1, <1>9, <1>11, <1>12, <1>13, <1>14 DEF b

-----------------------------------------------------------------------------
(* Times                                                                    *)

\* What get_samples_diff makes of stamps: never more than they are, on a clock whose
\* ticks are not longer than nanoseconds, and exactly as much before the u32 wraps
\* on one whose ticks are nanoseconds.
LEMMA ElapsedView ==
    ASSUME clock \in Clocks, NEW n \in Nat
    PROVE  /\ Nanoseconds(n) \in Nat /\ Elapsed(n) \in Nat /\ Elapsed(n) < StampRange
           /\ Nanoseconds(n) = StampRange * (Nanoseconds(n) \div StampRange) + Elapsed(n)
           /\ clock.nanos <= clock.ticks => Elapsed(n) <= n
           /\ clock.nanos = clock.ticks /\ n < StampRange => Elapsed(n) = n
<1> DEFINE a == clock.nanos
           k == clock.ticks
           N == Nanoseconds(n)
           e == Elapsed(n)
           q == N \div StampRange
<1>1. a \in Nat \ {0} /\ k \in Nat \ {0} /\ StampRange \in Nat \ {0}
  BY FormatAssumption
<1>2. N = (n * a) \div k /\ e = N % StampRange
  BY DEF Nanoseconds, Elapsed
<1> HIDE DEF a, k, N, e
<1>3. n * a \in Nat
  BY <1>1
<1>4. N \in Nat /\ (n * a) % k \in Nat /\ n * a = k * N + ((n * a) % k) /\ (n * a) % k < k
  BY <1>1, <1>2, <1>3, Quotient
<1>5. q \in Nat /\ e \in Nat /\ N = StampRange * q + e /\ e < StampRange
  BY <1>1, <1>2, <1>4, Quotient
<1> HIDE DEF q
<1>6. e <= N
  <2>1. StampRange * q \in Nat
    BY <1>1, <1>5
  <2> QED BY <1>4, <1>5, <2>1
<1>7. N * k <= n * a /\ n * a < (N + 1) * k
  BY <1>1, <1>4
<1>8. ASSUME a <= k PROVE N <= n
  <2>1. a * n <= k * n
    <3>1. n = 0 => a * n = 0 /\ k * n = 0
      BY <1>1
    <3>2. n # 0 => a * n <= k * n
      BY <1>1, <1>8, Products
    <3> QED BY <3>1, <3>2, <1>1
  <2>2. N * k <= n * k
    <3>1. /\ a * n = n * a /\ k * n = n * k /\ N * k \in Nat /\ n * a \in Nat /\ n * k \in Nat
      BY <1>1, <1>4
    <3> QED BY <1>7, <2>1, <3>1
  <2> QED BY <1>1, <1>4, <2>2, Products
<1>9. ASSUME a = k, n < StampRange PROVE e = n
  <2>1. n * k < (N + 1) * k /\ N + 1 \in Nat
    BY <1>4, <1>7, <1>9
  <2>2. n < N + 1
    BY <1>1, <2>1, Products
  <2>3. N <= n
    BY <1>1, <1>8, <1>9
  <2>4. N = n
    BY <1>4, <2>2, <2>3
  <2>5. n % StampRange = n
    BY <1>1, <1>9
  <2> QED BY <1>2, <2>4, <2>5
<1> QED BY <1>1, <1>4, <1>5, <1>6, <1>8, <1>9 DEF a, k, N, e, q

\* A u32 that is smaller than it was has wrapped.
LEMMA SmallerHasWrapped ==
    ASSUME NEW R \in Nat \ {0}, NEW q1 \in Nat, NEW q2 \in Nat, NEW e1 \in Nat, NEW e2 \in Nat,
           R * q1 + e1 <= R * q2 + e2, e2 < e1
    PROVE  q2 > q1
<1>1. SUFFICES ASSUME q2 <= q1 PROVE FALSE
  OBVIOUS
<1>2. q2 * R <= q1 * R
  BY <1>1, Products
<1>3. R * q2 \in Nat /\ R * q1 \in Nat /\ R * q2 <= R * q1
  BY <1>2
<1> QED BY <1>3

\* The duration of a sample, and the microseconds it lacks.
LEMMA DurationView ==
    ASSUME Checked(args)
    PROVE  /\ SampleDuration \in Nat /\ Pace(args) \in Nat \ {0}
           /\ SampleDuration * Pace(args) <= Usec
           /\ Usec < (SampleDuration + 1) * Pace(args)
           /\ Usec % Pace(args) = 0 => SampleDuration * Pace(args) = Usec
BY TwoDivisions, ProductsBothSides, UsecIsANumber DEF Checked, SampleDuration, Pace

-----------------------------------------------------------------------------
(* The invariant                                                            *)

\* What port_format has made sure of.
PortInv ==
    /\ args \in Args /\ clock \in Clocks
    /\ port \in {"none", "ok", "refused", "panicked"}
    /\ port \in {"ok", "refused"} =>
          Checked(args) /\ (port = "ok" <=> PortTime(args) > 0)

\* The frame in the channel has an even length, or one more, and the bridge took
\* it or failed by comparing that length with its own.
QueuedInv ==
    /\ queued \in Nat
    /\ queued # 0 => Checked(args) /\ queued \in {2 * args.samples, 2 * args.samples + 1}
    /\ copied # "no" => queued # 0 /\ copied = Copy(queued)

ReceivedInv ==
    \/ received = NoFrame
    \/ Checked(args) /\ \E stamp \in Nat \ {0} : received = RawFrame(stamp)

FormatInv == PortInv /\ QueuedInv /\ ReceivedInv

\* Arguments are numbers; those without a zero are fit to be checked.
LEMMA ArgsAreNumbers ==
    ASSUME args \in Args
    PROVE  /\ args.rate \in Nat /\ args.channels \in Nat /\ args.samples \in Nat
           /\ args.rate # 0 /\ args.channels # 0 => Checked(args)
BY FormatAssumption DEF Args, Checked

\* The invariant holds before new.
LEMMA FormatInitInv == Init => FormatInv
BY DEF Init, FormatInv, PortInv, QueuedInv, ReceivedInv

\* send leaves one of two lengths, whatever it was given.
LEMMA SentLengths ==
    ASSUME args.samples \in Nat, NEW len \in Nat, NEW n \in Sent(len)
    PROVE  n \in Nat /\ n \in {2 * args.samples, 2 * args.samples + 1}
<1>1. BytesInSample = 2
  BY DEF BytesInSample, BitsPerSample
<1> QED BY <1>1 DEF Sent

\* What is computed from the arguments and the clock stays as it is with them.
LEMMA Unchanging ==
    ASSUME UNCHANGED <<args, clock>>
    PROVE  /\ PortTime(args)' = PortTime(args)
           /\ \A n : Copy(n)' = Copy(n) /\ RawFrame(n)' = RawFrame(n)
BY DEF PortTime, Copy, BridgeSamples, FrameTime, RawFrame, Elapsed, Nanoseconds, SampleDuration

\* Every step keeps the invariant.
LEMMA FormatNextInv == FormatInv /\ [Next]_vars => FormatInv'
<1> SUFFICES ASSUME FormatInv, [Next]_vars PROVE FormatInv'
  OBVIOUS
<1>0. UNCHANGED <<args, clock>>
  BY DEF Next, New, Send, GetFrame, PutFrame, vars
<1>1. CASE New
  <2>1. UNCHANGED <<args, clock, queued, copied, received>> /\ port' \in PortFormat(args)
    BY <1>1 DEF New
  <2>2. PortInv'
    <3>1. args.rate \in Nat /\ args.channels \in Nat /\ args \in Args /\ clock \in Clocks
      BY ArgsAreNumbers DEF FormatInv, PortInv
    <3>2. CASE args.channels = 0 \/ args.rate = 0
      BY <2>1, <3>1, <3>2 DEF PortFormat, PortInv
    <3>3. CASE args.channels # 0 /\ args.rate # 0
      <4>1. Checked(args)
        BY <3>1, <3>3, ArgsAreNumbers
      <4>2. PortTime(args) \in Nat
        BY <4>1, Milliseconds DEF PortTime, Checked
      <4>3. port' = "panicked" \/ port' = IF PortTime(args) = 0 THEN "refused" ELSE "ok"
        BY <2>1, <3>3 DEF PortFormat
      <4> QED BY <2>1, <3>1, <4>1, <4>2, <4>3 DEF PortInv, PortTime
    <3> QED BY <3>2, <3>3
  <2> QED BY <2>1, <2>2, Unchanging DEF FormatInv, QueuedInv, ReceivedInv
<1>2. CASE Send
  <2>1. /\ UNCHANGED <<args, clock, port, copied, received>>
        /\ port = "ok" /\ queued = 0
    BY <1>2 DEF Send
  <2>2. Checked(args) /\ args.samples \in Nat
    BY <2>1, ArgsAreNumbers DEF FormatInv, PortInv
  <2>3. PICK len \in {0, 1, args.samples} \cup (2 * args.samples - 1)..(2 * args.samples + 3) :
            queued' \in Sent(len)
    BY <1>2 DEF Send
  <2>4. queued' \in Nat /\ queued' \in {2 * args.samples, 2 * args.samples + 1}
    <3>1. args.samples # 0
      BY <2>1, <2>2, FramesOfOpenPorts DEF FormatInv, PortInv
    <3>2. len \in Nat
      BY <2>2, <2>3, <3>1
    <3> QED BY <2>2, <2>3, <3>2, SentLengths
  <2> QED BY <2>1, <2>2, <2>4, Unchanging DEF FormatInv, PortInv, QueuedInv, ReceivedInv
<1>3. CASE GetFrame
  BY <1>3, <1>0, Unchanging DEF GetFrame, FormatInv, PortInv, QueuedInv, ReceivedInv
<1>4. CASE PutFrame
  <2>1. UNCHANGED <<args, clock, port, queued, copied>> /\ port = "ok"
    BY <1>4 DEF PutFrame
  <2>2. Checked(args)
    BY <2>1 DEF FormatInv, PortInv
  <2>3. PICK stamp \in Stamps : stamp > received.stamp /\ received' = RawFrame(stamp)
    BY <1>4 DEF PutFrame
  <2>4. received.stamp \in Nat
    BY DEF FormatInv, ReceivedInv, NoFrame, RawFrame
  <2>5. stamp \in Nat \ {0}
    BY <2>3, <2>4, FormatAssumption
  <2>6. ReceivedInv'
    BY <2>1, <2>2, <2>3, <2>5, Unchanging DEF ReceivedInv
  <2> QED BY <2>1, <2>6, Unchanging DEF FormatInv, PortInv, QueuedInv
<1>5. CASE UNCHANGED vars
  BY <1>5, Unchanging DEF vars, FormatInv, PortInv, QueuedInv, ReceivedInv
<1> QED BY <1>1, <1>2, <1>3, <1>4, <1>5 DEF Next

\* The invariant of the arithmetic: what was checked when a port is open, where
\* queued and received frames come from.
THEOREM FormatInvariant == Spec => []FormatInv
BY FormatInitInv, FormatNextInv, PTL DEF Spec

-----------------------------------------------------------------------------
(* The properties                                                           *)

\* What Copy says of the frames that send lets through.
LEMMA CopyOfSent ==
    ASSUME Checked(args), queued # 0, queued \in {2 * args.samples, 2 * args.samples + 1}
    PROVE  Copy(queued) = IF WholeMicroseconds(args) /\ ~Wraps(args) /\ queued % 2 = 0
                            THEN "overrun"
                            ELSE "panicked"
<1> DEFINE s == args.samples
           b == BridgeSamples(args)
<1>1. s \in Nat /\ b \in Nat
  BY BridgeView DEF Checked
<1>2. b = s <=> WholeMicroseconds(args) /\ ~Wraps(args)
  BY BridgeView
<1>3. Copy(queued) = IF queued * 2 # (b * 2) * 2 THEN "panicked"
                     ELSE IF queued * 2 > b * 2 THEN "overrun" ELSE "fits"
  BY DEF Copy, BytesInSample, BitsPerSample
<1> HIDE DEF s, b
<1>4. CASE queued = 2 * s
  <2>1. queued % 2 = 0 /\ (queued * 2 = (b * 2) * 2 <=> b = s)
    BY <1>1, <1>4
  <2>2. b = s => queued * 2 > b * 2
    BY <1>1, <1>4
  <2> QED BY <1>2, <1>3, <2>1, <2>2
<1>5. CASE queued = 2 * s + 1
  <2>1. queued % 2 = 1 /\ queued * 2 # (b * 2) * 2
    BY <1>1, <1>5
  <2> QED BY <1>3, <2>1
<1> QED BY <1>4, <1>5 DEF s

\* Every variable keeps its type; in particular the frame in the channel is never
\* more than one i16 longer than a frame of the port.
THEOREM TypeCorrect == Spec => []TypeOK
<1>1. FormatInv => TypeOK
  <2> SUFFICES ASSUME FormatInv PROVE TypeOK
    OBVIOUS
  <2>1. args.samples \in Nat
    BY ArgsAreNumbers DEF FormatInv, PortInv
  <2>2. queued \in 0..(2 * args.samples + 1)
    BY <2>1 DEF FormatInv, QueuedInv
  <2>3. copied \in {"no", "fits", "overrun", "panicked"}
    BY CopyOfSent DEF FormatInv, QueuedInv
  <2>4. received \in [time : Nat, stamp : Nat]
    <3>1. CASE received = NoFrame
      BY <3>1 DEF NoFrame
    <3>2. CASE received # NoFrame
      <4>1. PICK stamp \in Nat \ {0} : received = RawFrame(stamp)
        BY <3>2 DEF FormatInv, ReceivedInv
      <4>2. Elapsed(stamp) \in Nat /\ SampleDuration \in Nat
        BY <3>2, ElapsedView, DurationView DEF FormatInv, PortInv, ReceivedInv
      <4> QED BY <4>1, <4>2 DEF RawFrame
    <3> QED BY <3>1, <3>2
  <2> QED BY <2>2, <2>3, <2>4 DEF FormatInv, PortInv, TypeOK
<1> QED BY <1>1, FormatInvariant, PTL

\* The check of port_format refuses exactly the formats whose complete sample
\* groups last less than a millisecond, for any rates, channels and lengths.
THEOREM ChecksWhatItMeans == Spec => []RefusesShortFrames
<1>1. FormatInv => RefusesShortFrames
  <2> SUFFICES ASSUME FormatInv, port \in {"ok", "refused"}
               PROVE  port = "ok" <=> LongEnough(args, args.samples)
    BY DEF RefusesShortFrames
  <2>1. Checked(args) /\ (port = "ok" <=> PortTime(args) > 0) /\ args.samples \in Nat
    BY DEF FormatInv, PortInv, Checked
  <2> QED BY <2>1, Milliseconds DEF PortTime
<1> QED BY <1>1, FormatInvariant, PTL

\* For any format that the check lets pass, the bridge divides by zero only if the
\* length of a frame wraps in its field, or is cut off to whole microseconds and was
\* no longer than the check demands by more than what that costs.
THEOREM BridgeRarelyDividesByZero == Spec => []BridgeDividesByTime
<1>1. FormatInv => BridgeDividesByTime
  <2> DEFINE s == args.samples
             b == BridgeSamples(args)
             l == Lost(args)
  <2> SUFFICES ASSUME FormatInv, port = "ok", ~Wraps(args)
               PROVE  /\ b \in (s - l)..s
                      /\ BridgeTime(args) = 0 =>
                             /\ ~WholeMicroseconds(args)
                             /\ l <= s => ~LongEnough(args, s - l)
    BY DEF BridgeDividesByTime
  <2>1. Checked(args) /\ PortTime(args) > 0
    BY DEF FormatInv, PortInv
  <2>2. b \in Nat /\ b <= s /\ s - l <= b /\ (WholeMicroseconds(args) => b = s)
    BY <2>1, BridgeView
  <2>3. s \in Nat /\ l \in Nat
    <3>1. Pace(args) \div Usec \in Nat
      BY <2>1, DurationView, Quotient, UsecIsANumber
    <3> QED BY <2>1, <3>1 DEF Checked, Lost
  <2>4. LongEnough(args, s)
    BY <2>1, <2>3, Milliseconds DEF PortTime
  <2>5. BridgeTime(args) > 0 <=> LongEnough(args, b)
    BY <2>1, <2>2, Milliseconds DEF BridgeTime
  <2> HIDE DEF s, b, l
  <2>6. ASSUME l <= s, LongEnough(args, s - l) PROVE LongEnough(args, b)
    <3>1. s - l \in Nat
      BY <2>3, <2>6
    <3> QED BY <2>1, <2>2, <2>6, <3>1, LongerIsLongEnough
  <2>7. b \in (s - l)..s
    BY <2>2, <2>3
  <2> QED BY <2>2, <2>4, <2>5, <2>6, <2>7 DEF s, b, l
<1> QED BY <1>1, FormatInvariant, PTL

\* get_frame copies a frame of send, and then writes more than the bridge's frame
\* holds, if its length is even and a frame of the port lasts whole microseconds that
\* fit their field; it ends the process for every other.
THEOREM CopiesWhatMatches == Spec => []SentFramesMatch
<1>1. FormatInv => SentFramesMatch
  BY CopyOfSent DEF FormatInv, QueuedInv, SentFramesMatch
<1> QED BY <1>1, FormatInvariant, PTL

\* If the clock's ticks are not longer than nanoseconds, the time of a received frame
\* is never ahead of its stamp; if they are nanoseconds, it lags by less than a
\* microsecond a sample until the u32 wraps, and not at all at rates that divide 10^6.
THEOREM TimesNeverLead == Spec => []TimesLag
<1>1. FormatInv => TimesLag
  <2> DEFINE pace == Pace(args)
             n == received.stamp
             d == SampleDuration
             e == Elapsed(n)
  <2> SUFFICES ASSUME FormatInv, n > 0, clock.nanos <= clock.ticks
               PROVE  /\ received.time * pace <= n * Usec
                      /\ clock.nanos = clock.ticks /\ n < StampRange =>
                             /\ n * Usec < (received.time + n) * pace
                             /\ Usec % pace = 0 => received.time * pace = n * Usec
    BY DEF TimesLag
  <2>1. Checked(args) /\ clock \in Clocks /\ \E stamp \in Nat \ {0} : received = RawFrame(stamp)
    BY DEF FormatInv, PortInv, ReceivedInv, NoFrame
  <2>2. n \in Nat \ {0} /\ received.time = e * d
    BY <2>1 DEF RawFrame
  <2>3. /\ e \in Nat /\ e <= n
        /\ clock.nanos = clock.ticks /\ n < StampRange => e = n
    BY <2>1, <2>2, ElapsedView
  <2>4. /\ pace \in Nat \ {0} /\ d \in Nat
        /\ d * pace <= Usec /\ Usec < (d + 1) * pace
        /\ Usec % pace = 0 => d * pace = Usec
    BY <2>1, DurationView
  <2> HIDE DEF pace, n, d, e
  <2>5. (e * d) * pace <= n * Usec
    <3> DEFINE lo == d * pace
    <3>1. (e * d) * pace = lo * e /\ lo \in Nat
      BY <2>3, <2>4
    <3> HIDE DEF lo
    <3>2. lo * e <= Usec * e
      <4>1. e = 0 => lo * e = 0 /\ Usec * e = 0
        BY <3>1, UsecIsANumber
      <4>2. e # 0 => lo * e <= Usec * e
        BY <2>3, <2>4, <3>1, UsecIsANumber, Products DEF lo
      <4> QED BY <4>1, <4>2
    <3>3. Usec * e = e * Usec /\ e * Usec <= n * Usec
      BY <2>2, <2>3, UsecIsANumber, Products
    <3>4. lo * e \in Nat /\ Usec * e \in Nat /\ n * Usec \in Nat
      BY <2>2, <2>3, <3>1, UsecIsANumber
    <3> QED BY <3>1, <3>2, <3>3, <3>4
  <2>6. n * Usec < (n * d + n) * pace
    <3> DEFINE hi == (d + 1) * pace
    <3>1. (n * d + n) * pace = hi * n /\ hi \in Nat
      BY <2>2, <2>4
    <3> HIDE DEF hi
    <3>2. Usec * n < hi * n
      BY <2>2, <2>4, <3>1, UsecIsANumber, Products DEF hi
    <3>3. Usec * n = n * Usec
      BY <2>2, UsecIsANumber
    <3> QED BY <3>1, <3>2, <3>3
  <2>7. d * pace = Usec => (n * d) * pace = n * Usec
    BY <2>2, <2>4
  <2> QED BY <2>2, <2>3, <2>4, <2>5, <2>6, <2>7
<1> QED BY <1>1, FormatInvariant, PTL

\* Times of later frames are earlier only after a wrap of the u32, for any clock,
\* stamps and formats.
THEOREM TimesRunForward == Spec => TimesGoForward
<1> DEFINE Forward ==
             received'.time < received.time =>
                 Nanoseconds(received'.stamp) \div StampRange
                     > Nanoseconds(received.stamp) \div StampRange
<1>1. FormatInv /\ FormatInv' /\ [Next]_vars => [Forward]_received
  <2> SUFFICES ASSUME FormatInv, FormatInv', [Next]_vars, received' # received,
                      received'.time < received.time
               PROVE  Nanoseconds(received'.stamp) \div StampRange
                          > Nanoseconds(received.stamp) \div StampRange
    OBVIOUS
  <2>1. PutFrame
    BY DEF Next, New, Send, GetFrame, vars
  <2>2. PICK m \in Stamps : m > received.stamp /\ received' = RawFrame(m)
    BY <2>1 DEF PutFrame
  <2>3. Checked(args) /\ clock \in Clocks
    BY <2>1 DEF PutFrame, FormatInv, PortInv
  <2>4. m \in Nat /\ received'.stamp = m /\ received'.time = Elapsed(m) * SampleDuration
    BY <2>2, FormatAssumption DEF RawFrame
  <2>5. Elapsed(m) \in Nat /\ SampleDuration \in Nat
    BY <2>3, <2>4, ElapsedView, DurationView
  <2>6. received # NoFrame
    <3>1. Elapsed(m) * SampleDuration \in Nat
      BY <2>5
    <3> QED BY <2>4, <3>1 DEF NoFrame
  <2>7. PICK n \in Nat \ {0} : received = RawFrame(n)
    BY <2>6 DEF FormatInv, ReceivedInv
  <2>8. received.stamp = n /\ received.time = Elapsed(n) * SampleDuration /\ n < m
    BY <2>2, <2>7 DEF RawFrame
  <2> DEFINE N(k) == Nanoseconds(k)
             q(k) == N(k) \div StampRange
  <2>9. /\ N(m) \in Nat /\ N(m) = StampRange * q(m) + Elapsed(m)
        /\ N(n) \in Nat /\ N(n) = StampRange * q(n) + Elapsed(n) /\ Elapsed(n) \in Nat
        /\ StampRange \in Nat \ {0}
    BY <2>3, <2>4, ElapsedView, FormatAssumption
  <2>10. N(n) <= N(m)
    <3>1. clock.nanos \in Nat \ {0} /\ clock.ticks \in Nat \ {0}
      BY <2>3, FormatAssumption
    <3>2. n * clock.nanos <= m * clock.nanos
      BY <2>4, <2>8, <3>1, Products
    <3>3. n * clock.nanos \in Nat /\ m * clock.nanos \in Nat
      BY <2>4, <3>1
    <3> QED BY <3>1, <3>2, <3>3, DivisionKeepsOrder DEF Nanoseconds
  <2>11. Elapsed(m) < Elapsed(n)
    <3>1. SampleDuration # 0
      BY <2>4, <2>5, <2>8, <2>9
    <3>2. Elapsed(m) * SampleDuration < Elapsed(n) * SampleDuration
      BY <2>4, <2>8
    <3> QED BY <2>5, <2>9, <3>1, <3>2, Products
  <2>12. q(m) \in Nat /\ q(n) \in Nat
    BY <2>9, Quotient
  <2> HIDE DEF q, N
  <2>13. q(m) > q(n)
    BY <2>5, <2>9, <2>10, <2>11, <2>12, SmallerHasWrapped
  <2> QED BY <2>4, <2>8, <2>13 DEF q, N
<1> QED BY <1>1, FormatInvariant, PTL DEF Spec, TimesGoForward
=============================================================================
