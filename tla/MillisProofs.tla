---------------------------- MODULE MillisProofs ----------------------------
(***************************************************************************)
(* What the firmware's unsigned differences say of the time that really    *)
(* went by, for every modulus of the counter.                              *)
(***************************************************************************)
EXTENDS Millis, TLAPS

\* An unsigned difference is a natural number.
LEMMA ElapsedNat ==
    ASSUME NEW a \in Nat, NEW b \in Nat
    PROVE  Elapsed(a, b) \in Nat
  BY WrapAssumption DEF Elapsed

\* An unsigned difference of a later and an earlier time is never more than
\* the time that really went by: a lap of the counter only shortens it.
LEMMA ElapsedAtMost ==
    ASSUME NEW a \in Nat, NEW b \in Nat, b <= a
    PROVE  Elapsed(a, b) <= a - b
  BY WrapAssumption DEF Elapsed

\* A window that is over by the counter is over in real time, the more so since
\* any earlier moment.
LEMMA ElapsedIsOver ==
    ASSUME NEW a \in Nat, NEW b \in Nat, NEW c \in Nat, c <= b, b <= a,
           NEW w \in Nat, Elapsed(a, b) >= w
    PROVE  a - c >= w
  BY ElapsedAtMost, ElapsedNat

\* On the first lap an unsigned difference is the time that went by.
LEMMA ElapsedIs ==
    ASSUME NEW a \in Nat, NEW b \in Nat, b <= a, a < WRAP
    PROVE  Elapsed(a, b) = a - b
  BY WrapAssumption DEF Elapsed

\* The difference of an earlier and a later time underflows by one lap.
LEMMA ElapsedUnderflows ==
    ASSUME NEW a \in Nat, NEW b \in Nat, a < b, b < WRAP
    PROVE  Elapsed(a, b) = WRAP - (b - a)
<1>1. WRAP \in Nat /\ WRAP > 0
  BY WrapAssumption
<1>2. a - b = WRAP * (-1) + (WRAP - (b - a)) /\ WRAP - (b - a) \in 0 .. WRAP - 1
  BY <1>1
<1>3. ASSUME NEW n \in Int, NEW q \in Int, NEW r \in 0 .. WRAP - 1, n = WRAP * q + r
      PROVE  n % WRAP = r
  BY <1>1, <1>3, Z3
<1>4. QED
  BY <1>1, <1>2, <1>3 DEF Elapsed

\* In the first half of a lap a time that is behind does not seem to lie ahead.
LEMMA BehindIsNotAhead ==
    ASSUME NEW t \in Nat, NEW n \in Nat, t <= n, n <= WRAP \div 2
    PROVE  ~Ahead(t, n)
<1>1. /\ WRAP \in Nat /\ WRAP > 0 /\ WRAP \div 2 \in Nat
      /\ WRAP \div 2 < WRAP /\ 2 * (WRAP \div 2) <= WRAP
  BY WrapAssumption
<1>2. CASE t = n
  BY <1>1, <1>2 DEF Ahead
<1>3. CASE t < n
  <2>1. (t - n) % WRAP = WRAP - (n - t)
    BY <1>1, <1>3, ElapsedUnderflows DEF Elapsed
  <2>2. WRAP - (n - t) >= WRAP \div 2
    BY <1>1, <1>3
  <2>3. QED
    BY <1>1, <1>3, <2>1, <2>2, SMT DEF Ahead
<1>4. QED
  BY <1>2, <1>3

=============================================================================
