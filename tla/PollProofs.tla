----------------------------- MODULE PollProofs -----------------------------
(***************************************************************************)
(* For any options, number of polls, copies and attempts: however often    *)
(* the polling loop re-submits there is one order, what it reports of that *)
(* order is true, and it waits as documented.                              *)
(***************************************************************************)
EXTENDS Poll, FiniteSetTheorems, WellFoundedInduction, TLAPS

-----------------------------------------------------------------------------
(* The inductive invariant.                                                *)

\* the options in force: withDefaults leaves no option unset
OptsInv ==
    /\ opts.initial \in 1..HalfRange - 1 /\ opts.max \in 1..HalfRange - 1
    /\ opts.mult \in Nat /\ opts.mult >= Grain

\* the struct gets one identifier, when it is first polled with, and every copy
\* and every order carries it
IdInv ==
    /\ minted = reqID /\ reqID \in {0, 1}
    /\ pc # "idle" => reqID = 1
    /\ reqID = NoId => reply = Nil
    /\ \A c \in pending : c.id = reqID /\ c.n \in 1..sent
    /\ \A i \in Ids : order[i] # "none" => i = reqID

\* what a response says of the order is so
Holds(r) ==
    /\ IsTerminal(r.status) => order[reqID] = r.status
    /\ IsSyncRejection(r) => order[reqID] = "REJECTED"

TruthInv ==
    /\ Holds(resp) /\ Holds(lastResp) /\ Holds(seen) /\ Holds(reply) /\ Holds(result.resp)
    /\ result.kind = "rejected" => order[reqID] = "REJECTED"

\* the latest response is the last one remembered, or that of this very round
SeenInv ==
    /\ pc \in {"top", "calling", "failed", "sleep", "stopping"} => lastResp = seen
    /\ pc \in {"calling", "failed"} => resp = Nil
    /\ pc = "answered" => resp = seen /\ resp # Nil
    /\ pc # "returned" => result = Pending

\* every round that is over, and went on, has transmitted a copy of its own
RoundInv ==
    /\ round <= sent + 1
    /\ pc \in {"top", "answered", "sleep"} => round <= sent
    /\ pc = "calling" /\ attempts > 0 => round <= sent
    /\ pc = "calling" /\ reply # Nil => attempts > 0
    /\ pc \in {"calling", "answered", "failed", "sleep"} => round > 0

\* d is a wait after round n
Due(d, n) ==
    /\ n = 1 => d = opts.initial
    /\ n > 1 => d <= opts.max
    /\ Countable => Wait(Floor, n) <= d /\ d <= Wait(Ceil, n)

DelayInv ==
    /\ pc \in {"calling", "answered", "failed", "sleep"} => Due(delay, round)
    /\ pc = "top" => Due(delay, round + 1)

IInv ==
    /\ TypeOK /\ OptsInv /\ IdInv /\ TruthInv /\ SeenInv /\ RoundInv /\ DelayInv
    /\ StopsWithLastResponse

-----------------------------------------------------------------------------
(* Powers.                                                                 *)

\* A set of natural numbers that is not empty has a least element.
LEMMA LeastNumber ==
    ASSUME NEW T, T \subseteq Nat, T # {}
    PROVE  \E x \in T : \A y \in T : x <= y
<1> DEFINE R == OpToRel(<, Nat)
<1>1. IsWellFoundedOn(R, Nat)
  BY NatLessThanWellFounded
<1>2. \A x, y \in Nat : y < x => <<y, x>> \in R
  BY DEF OpToRel
<1> HIDE DEF R
<1>3. PICK x \in T : \A y \in T : <<y, x>> \notin R
  BY <1>1, WFMin
<1>4. \A y \in T : x <= y
  <2> SUFFICES ASSUME NEW y \in T PROVE x <= y
    OBVIOUS
  <2>1. x \in Nat /\ y \in Nat /\ ~(y < x)
    BY <1>2, <1>3
  <2> QED BY <2>1
<1> QED BY <1>4

\* Induction, for a set in the place of a predicate.
LEMMA Induction ==
    ASSUME NEW S, 0 \in S, \A n \in Nat : n \in S => n + 1 \in S
    PROVE  Nat \subseteq S
<1> DEFINE T == Nat \ S
<1> SUFFICES ASSUME T # {} PROVE FALSE
  OBVIOUS
<1>1. PICK x \in T : \A y \in T : x <= y
  BY LeastNumber
<1>2. x # 0 /\ x - 1 \in Nat /\ x - 1 \in S
  BY <1>1
<1> QED BY <1>1, <1>2

\* g is the powers of b up to the n-th
UpTo(b, n, g) == g \in [0..n -> Nat] /\ g[0] = 1 /\ \A i \in 1..n : g[i] = b * g[i - 1]

\* Powers exist up to every n.
LEMMA PowersUpTo ==
    ASSUME NEW b \in Nat
    PROVE  \A n \in Nat : \E g : UpTo(b, n, g)
<1> DEFINE S == {n \in Nat : \E g : UpTo(b, n, g)}
<1>1. 0 \in S
  <2>1. UpTo(b, 0, [i \in 0..0 |-> 1])
    BY DEF UpTo
  <2> QED BY <2>1
<1>2. ASSUME NEW n \in Nat, n \in S PROVE n + 1 \in S
  <2>1. PICK g : UpTo(b, n, g)
    BY <1>2
  <2> DEFINE h == [i \in 0..(n + 1) |-> IF i = n + 1 THEN b * g[n] ELSE g[i]]
  <2>2. g[n] \in Nat /\ b * g[n] \in Nat
    BY <2>1 DEF UpTo
  <2>3. h \in [0..(n + 1) -> Nat]
    BY <2>1, <2>2 DEF UpTo
  <2>4. h[0] = 1
    BY <2>1 DEF UpTo
  <2>5. ASSUME NEW i \in 1..(n + 1) PROVE h[i] = b * h[i - 1]
    <3>1. CASE i = n + 1
      BY <3>1
    <3>2. CASE i # n + 1
      <4>1. i \in 1..n /\ i - 1 \in 0..n
        BY <3>2
      <4>2. h[i] = g[i] /\ h[i - 1] = g[i - 1]
        BY <4>1
      <4> QED BY <4>1, <4>2, <2>1 DEF UpTo
    <3> QED BY <3>1, <3>2
  <2> HIDE DEF h
  <2>6. UpTo(b, n + 1, h)
    BY <2>3, <2>4, <2>5 DEF UpTo
  <2> QED BY <2>6
<1> HIDE DEF S
<1>3. Nat \subseteq S
  BY <1>1, <1>2, Induction
<1> QED BY <1>3 DEF S

\* ... and agree where two of them are defined.
LEMMA PowersAgree ==
    ASSUME NEW b \in Nat, NEW m \in Nat, NEW n \in Nat, m <= n,
           NEW g, NEW h, UpTo(b, m, g), UpTo(b, n, h)
    PROVE  g[m] = h[m]
<1> DEFINE S == {i \in Nat : i <= m => g[i] = h[i]}
<1>1. 0 \in S
  BY DEF UpTo
<1>2. ASSUME NEW i \in Nat, i \in S PROVE i + 1 \in S
  <2> SUFFICES ASSUME i + 1 <= m PROVE g[i + 1] = h[i + 1]
    OBVIOUS
  <2>1. i + 1 \in 1..m /\ i + 1 \in 1..n /\ (i + 1) - 1 = i /\ g[i] = h[i]
    BY <1>2
  <2> QED BY <2>1 DEF UpTo
<1> HIDE DEF S
<1>3. m \in S
  BY <1>1, <1>2, Induction
<1> QED BY <1>3 DEF S

\* Power(b) is the powers of b.
LEMMA PowerIsPower ==
    ASSUME NEW b \in Nat
    PROVE  /\ Power(b) \in [Nat -> Nat] /\ Power(b)[0] = 1
           /\ \A n \in Nat : Power(b)[n + 1] = b * Power(b)[n]
<1> DEFINE F(p) == p = [n \in Nat |-> IF n = 0 THEN 1 ELSE b * p[n - 1]]
           G(n) == CHOOSE g : UpTo(b, n, g)
           q == [n \in Nat |-> G(n)[n]]
<1>1. \A n \in Nat : UpTo(b, n, G(n))
  BY PowersUpTo
<1> HIDE DEF G
<1>2. ASSUME NEW n \in Nat PROVE G(n + 1)[n + 1] = b * G(n)[n]
  <2>1. UpTo(b, n, G(n)) /\ UpTo(b, n + 1, G(n + 1)) /\ n + 1 \in Nat /\ n <= n + 1
    BY <1>1
  <2>2. G(n)[n] = G(n + 1)[n]
    BY <2>1, PowersAgree
  <2>3. n + 1 \in 1..(n + 1) /\ (n + 1) - 1 = n
    OBVIOUS
  <2> QED BY <2>1, <2>2, <2>3 DEF UpTo
<1>3. F(q)
  <2>1. ASSUME NEW n \in Nat PROVE q[n] = IF n = 0 THEN 1 ELSE b * q[n - 1]
    <3>1. CASE n = 0
      BY <3>1, <1>1 DEF UpTo
    <3>2. CASE n # 0
      <4>1. n - 1 \in Nat /\ (n - 1) + 1 = n
        BY <3>2
      <4>2. G(n)[n] = b * G(n - 1)[n - 1]
        BY <4>1, <1>2
      <4> QED BY <3>2, <4>1, <4>2
    <3> QED BY <3>1, <3>2
  <2> QED BY <2>1
<1> HIDE DEF q
<1>4. F(Power(b))
  <2>1. Power(b) = CHOOSE p : F(p)
    BY DEF Power
  <2> HIDE DEF F
  <2> QED BY <2>1, <1>3
<1>5. /\ Power(b)[0] = 1 /\ \A n \in Nat : Power(b)[n + 1] = b * Power(b)[n]
      /\ Power(b) = [n \in Nat |-> Power(b)[n]]
  BY <1>4
<1>6. \A n \in Nat : Power(b)[n] \in Nat
  <2> DEFINE S == {n \in Nat : Power(b)[n] \in Nat}
  <2>1. 0 \in S
    BY <1>5
  <2>2. ASSUME NEW n \in Nat, n \in S PROVE n + 1 \in S
    BY <2>2, <1>5
  <2> HIDE DEF S
  <2>3. Nat \subseteq S
    BY <2>1, <2>2, Induction
  <2> QED BY <2>3 DEF S
<1> QED BY <1>5, <1>6

-----------------------------------------------------------------------------
(* float64 arithmetic.                                                     *)

\* Multiplication is monotone.
LEMMA TimesMonotone ==
    ASSUME NEW a \in Nat, NEW b \in Nat, NEW q \in Nat, a <= b
    PROVE  a * q <= b * q /\ a * q \in Nat /\ b * q \in Nat
<1>1. PICK k \in Nat : b = a + k
  <2>1. b - a \in Nat /\ b = a + (b - a)
    OBVIOUS
  <2> QED BY <2>1
<1>2. (a + k) * q = a * q + k * q /\ k * q \in Nat /\ a * q \in Nat
  OBVIOUS
<1> QED BY <1>1, <1>2

\* ... and strictly so for a positive factor.
LEMMA TimesStrict ==
    ASSUME NEW a \in Nat, NEW b \in Nat, NEW q \in Nat \ {0}, a < b
    PROVE  a * q < b * q
<1>1. a + 1 \in Nat /\ a + 1 <= b
  OBVIOUS
<1>2. (a + 1) * q <= b * q
  BY <1>1, TimesMonotone
<1>3. (a + 1) * q = a * q + q /\ a * q \in Nat /\ b * q \in Nat
  OBVIOUS
<1> QED BY <1>2, <1>3

\* What \div is.
LEMMA Quotient ==
    ASSUME NEW x \in Nat, NEW q \in Nat \ {0}
    PROVE  /\ x \div q \in Nat
           /\ (x \div q) * q <= x /\ x < (x \div q) * q + q
OBVIOUS

\* The bounds of a quotient.
LEMMA QuotientBetween ==
    ASSUME NEW x \in Nat, NEW q \in Nat \ {0}, NEW w \in Nat
    PROVE  /\ w * q <= x => w <= x \div q
           /\ x <= w * q => x \div q <= w
           /\ x < w * q => x \div q < w
<1> DEFINE d == x \div q
<1>1. d \in Nat /\ d * q <= x /\ x < d * q + q
  BY Quotient
<1> HIDE DEF d
<1>2. ASSUME w * q <= x, d < w PROVE FALSE
  <2>1. d + 1 \in Nat /\ d + 1 <= w
    BY <1>1, <1>2
  <2>2. (d + 1) * q <= w * q
    BY <2>1, TimesMonotone
  <2>3. (d + 1) * q = d * q + q /\ d * q \in Nat /\ w * q \in Nat
    BY <1>1
  <2> QED BY <1>1, <1>2, <2>2, <2>3
<1>3. ASSUME x <= w * q, w < d PROVE FALSE
  <2>1. w * q < d * q /\ w * q \in Nat /\ d * q \in Nat
    BY <1>1, <1>3, TimesStrict
  <2> QED BY <1>1, <1>3, <2>1
<1>4. ASSUME x < w * q, w <= d PROVE FALSE
  <2>1. w * q <= d * q /\ w * q \in Nat /\ d * q \in Nat
    BY <1>1, <1>4, TimesMonotone
  <2> QED BY <1>1, <1>4, <2>1
<1> QED BY <1>1, <1>2, <1>3, <1>4 DEF d

\* Rounding passes no float64: a quotient that is at least w is not rounded below
\* w, one that is at most w not above.
LEMMA NearestBetween ==
    ASSUME NEW n \in Nat, NEW q \in Nat \ {0}, NEW w \in Floats, NEW f \in Nearest(n, q)
    PROVE  /\ f \in Nat
           /\ w * q <= n => w <= f
           /\ n <= w * q => f <= w
<1>1. f \in Nat /\ w \in Nat /\ f * q \in Nat /\ w * q \in Nat
  BY FloatAssumption DEF Nearest
<1>2. Abs(f * q - n) <= Abs(w * q - n)
  BY DEF Nearest
<1>3. ASSUME w * q <= n, f < w PROVE FALSE
  <2>1. f * q < w * q
    BY <1>1, <1>3, TimesStrict
  <2> QED BY <1>1, <1>2, <1>3, <2>1 DEF Abs
<1>4. ASSUME n <= w * q, w < f PROVE FALSE
  <2>1. w * q < f * q
    BY <1>1, <1>4, TimesStrict
  <2> QED BY <1>1, <1>2, <1>4, <2>1 DEF Abs
<1> QED BY <1>1, <1>3, <1>4

\* Whole numbers that float64 counts are float64 values.
LEMMA WholeIsFloat ==
    ASSUME NEW w \in Nat, w <= Exact
    PROVE  w * Grain \in Floats
BY FloatAssumption

\* A product with a multiplier of at least 1 is at least 1.
LEMMA ProductIsPositive ==
    ASSUME NEW d \in Nat \ {0}, NEW m \in Nat, m >= Grain, NEW f \in Product(d, m)
    PROVE  f \in Nat /\ f >= Grain
<1>0. Grain \in Nat \ {0} /\ Grain \in Floats
  <2>1. 1 * Grain = Grain
    BY FloatAssumption
  <2> QED BY <2>1, WholeIsFloat, FloatAssumption
<1>1. PICK a \in Nearest(d * Grain, 1) : f \in Nearest(a * m, Grain)
  BY DEF Product
<1>2. d * Grain \in Nat /\ 1 * Grain <= d * Grain /\ 1 * Grain = Grain /\ Grain * 1 = Grain
  BY <1>0, TimesMonotone
<1>3. a \in Nat /\ Grain <= a
  BY <1>0, <1>1, <1>2, NearestBetween
<1>4. a * m \in Nat /\ Grain * Grain <= a * m
  <2>1. Grain * m <= a * m /\ Grain * m \in Nat /\ a * m \in Nat
    BY <1>0, <1>3, TimesMonotone
  <2>2. Grain * Grain <= m * Grain /\ Grain * Grain \in Nat
    BY <1>0, TimesMonotone
  <2>3. m * Grain = Grain * m
    BY <1>0
  <2> QED BY <2>1, <2>2, <2>3
<1> QED BY <1>0, <1>1, <1>4, NearestBetween

\* A product lies between those with whole multipliers, while they are countable.
LEMMA ProductBetween ==
    ASSUME NEW d \in Nat \ {0}, NEW m \in Nat, NEW b \in Nat, NEW c \in Nat \ {0},
           b <= c, b * Grain <= m, m <= c * Grain, c * d <= Exact, NEW f \in Product(d, m)
    PROVE  f \in Nat /\ (b * d) * Grain <= f /\ f <= (c * d) * Grain
<1>0. Grain \in Nat \ {0} /\ Exact \in Nat
  BY FloatAssumption
<1>1. PICK a \in Nearest(d * Grain, 1) : f \in Nearest(a * m, Grain)
  BY DEF Product
<1>2. b * d <= c * d /\ b * d \in Nat /\ c * d \in Nat
  BY TimesMonotone
<1>3. d <= c * d
  <2>1. 1 * d <= c * d /\ 1 * d = d
    BY TimesMonotone
  <2> QED BY <2>1
<1>4. d * Grain \in Floats /\ (b * d) * Grain \in Floats /\ (c * d) * Grain \in Floats
  <2>1. d <= Exact /\ b * d <= Exact
    BY <1>0, <1>2, <1>3
  <2> QED BY <1>2, <2>1, WholeIsFloat
<1> DEFINE g == d * Grain
<1>5. g \in Nat /\ g * 1 = g /\ g \in Floats
  BY <1>0, <1>4
<1>6. a \in Nearest(g, 1)
  BY <1>1
<1> HIDE DEF g
<1>7. a = g
  <2>1. a \in Nat /\ g <= a /\ a <= g
    BY <1>5, <1>6, NearestBetween
  <2> QED BY <1>5, <2>1
<1>8. f \in Nearest(g * m, Grain) /\ g * m \in Nat
  BY <1>1, <1>5, <1>7
<1>9. /\ ((b * d) * Grain) * Grain = (b * Grain) * g
      /\ ((c * d) * Grain) * Grain = (c * Grain) * g
      /\ m * g = g * m
  BY <1>0, <1>5 DEF g
<1>10. (b * Grain) * g <= m * g /\ m * g <= (c * Grain) * g
  <2>1. b * Grain \in Nat /\ c * Grain \in Nat
    BY <1>0
  <2> QED BY <1>5, <2>1, TimesMonotone
<1>11. ((b * d) * Grain) * Grain <= g * m /\ g * m <= ((c * d) * Grain) * Grain
  BY <1>9, <1>10
<1> QED BY <1>0, <1>4, <1>8, <1>11, NearestBetween

\* What the conversion makes of a product: an int64 that is positive, or the least
\* one.
LEMMA MultipliedTyped ==
    ASSUME NEW d \in Durations, d > 0 \/ d = -HalfRange, NEW m \in Nat, m >= Grain,
           NEW x \in Multiplied(d, m)
    PROVE  x \in Durations /\ (x > 0 \/ x = -HalfRange)
<1>0. Grain \in Nat \ {0} /\ HalfRange \in Nat /\ HalfRange > 1
  BY FloatAssumption
<1>1. CASE d < 0
  BY <1>1 DEF Multiplied
<1>2. CASE d > 0
  <2>1. d \in Nat \ {0}
    BY <1>0, <1>2 DEF Durations
  <2>2. PICK f \in Product(d, m) : x \in Duration(f)
    BY <1>2, <1>0 DEF Multiplied, Durations
  <2>3. f \in Nat /\ 1 * Grain <= f
    BY <1>0, <2>1, <2>2, ProductIsPositive
  <2>4. CASE f < HalfRange * Grain
    <3>1. f \div Grain \in Nat /\ 1 <= f \div Grain /\ f \div Grain < HalfRange
      BY <1>0, <2>3, <2>4, Quotient, QuotientBetween
    <3>2. x = f \div Grain
      BY <2>2, <2>4 DEF Duration
    <3> HIDE DEF Duration
    <3> QED BY <1>0, <3>1, <3>2 DEF Durations
  <2>5. CASE ~(f < HalfRange * Grain)
    <3>1. x \in {-HalfRange, HalfRange - 1}
      BY <2>2, <2>5 DEF Duration
    <3> QED BY <1>0, <3>1 DEF Durations
  <2> QED BY <2>4, <2>5
<1> QED BY <1>0, <1>1, <1>2

\* ... and a number between the whole products, while they are countable.
LEMMA MultipliedBetween ==
    ASSUME NEW d \in Nat \ {0}, NEW m \in Nat, NEW b \in Nat, NEW c \in Nat \ {0},
           b <= c, b * Grain <= m, m <= c * Grain, c * d <= Exact, NEW x \in Multiplied(d, m)
    PROVE  x \in Nat /\ b * d <= x /\ x <= c * d
<1>0. Grain \in Nat \ {0} /\ HalfRange \in Nat /\ Exact \in Nat /\ Exact < HalfRange
  BY FloatAssumption
<1>1. PICK f \in Product(d, m) : x \in Duration(f)
  BY DEF Multiplied
<1>2. f \in Nat /\ (b * d) * Grain <= f /\ f <= (c * d) * Grain
  BY <1>1, ProductBetween
<1>3. b * d \in Nat /\ c * d \in Nat /\ c * d < HalfRange
  BY <1>0
<1>4. (c * d) * Grain < HalfRange * Grain /\ (c * d) * Grain \in Nat /\ HalfRange * Grain \in Nat
  <2> DEFINE p == c * d
  <2>1. p \in Nat /\ p < HalfRange
    BY <1>3
  <2> HIDE DEF p
  <2>2. p * Grain < HalfRange * Grain /\ p * Grain \in Nat /\ HalfRange * Grain \in Nat
    BY <1>0, <2>1, TimesStrict
  <2> QED BY <2>2 DEF p
<1>5. f < HalfRange * Grain
  BY <1>2, <1>4
<1>6. x = f \div Grain
  BY <1>1, <1>5 DEF Duration
<1>7. f \div Grain \in Nat
  BY <1>0, <1>2, Quotient
<1>8. b * d <= f \div Grain /\ f \div Grain <= c * d
  <2> DEFINE p == c * d
             r == b * d
  <2>1. p \in Nat /\ r \in Nat /\ r * Grain <= f /\ f <= p * Grain
    BY <1>2, <1>3
  <2> HIDE DEF p, r
  <2>2. r <= f \div Grain /\ f \div Grain <= p
    BY <1>0, <1>2, <2>1, QuotientBetween
  <2> QED BY <2>2 DEF p, r
<1> QED BY <1>6, <1>7, <1>8

-----------------------------------------------------------------------------
(* The waits.                                                              *)

\* the multiplier in force lies between two whole ones
LEMMA WholeMultipliers ==
    ASSUME OptsInv
    PROVE  /\ Floor \in Nat \ {0} /\ Ceil \in Nat \ {0} /\ Floor <= Ceil
           /\ Floor * Grain <= opts.mult /\ opts.mult <= Ceil * Grain
<1>0. Grain \in Nat \ {0}
  BY FloatAssumption
<1>1. opts.mult \in Nat /\ opts.mult >= 1 * Grain
  BY <1>0 DEF OptsInv
<1>2. Floor \in Nat /\ Floor * Grain <= opts.mult /\ 1 <= Floor
  BY <1>0, <1>1, Quotient, QuotientBetween DEF Floor
<1> DEFINE x == opts.mult + Grain - 1
<1>3. x \in Nat /\ opts.mult <= x /\ x = opts.mult + Grain - 1
  BY <1>0, <1>1
<1>4. Ceil = x \div Grain
  BY DEF Ceil
<1> HIDE DEF x
<1>5. Ceil \in Nat /\ x < Ceil * Grain + Grain
  BY <1>0, <1>3, <1>4, Quotient
<1>6. Floor <= Ceil
  <2>1. Floor * Grain <= x
    BY <1>0, <1>1, <1>2, <1>3
  <2> QED BY <1>0, <1>2, <1>3, <1>4, <2>1, QuotientBetween
<1>7. opts.mult <= Ceil * Grain
  <2>1. Ceil * Grain \in Nat
    BY <1>0, <1>5
  <2> QED BY <1>0, <1>1, <1>3, <1>5, <2>1
<1> QED BY <1>2, <1>5, <1>6, <1>7

\* The first wait is the initial one.
LEMMA FirstWait == ASSUME OptsInv, NEW b \in Nat PROVE Wait(b, 1) = opts.initial
<1>1. opts.initial \in Nat
  BY FloatAssumption DEF OptsInv
<1>2. Power(b)[0] = 1
  BY PowerIsPower
<1> QED BY <1>1, <1>2 DEF Wait

Capped(x) == IF x > opts.max THEN opts.max ELSE x

\* Multiplied by b and capped, a wait on one side of the documented sequence for
\* b stays on that side.
LEMMA NextWait ==
    ASSUME OptsInv, NEW b \in Nat \ {0}, NEW n \in Nat \ {0}, NEW d \in Nat
    PROVE  /\ Wait(b, n) \in Nat
           /\ Wait(b, n) <= d => Wait(b, n + 1) <= Capped(b * d)
           /\ d <= Wait(b, n) => Capped(b * d) <= Wait(b, n + 1)
<1> DEFINE p == Power(b)[n - 1]
           w == opts.initial * p
<1>1. opts.initial \in Nat /\ opts.max \in Nat
  BY DEF OptsInv
<1>2. p \in Nat /\ Power(b)[n] = b * p
  <2>1. n - 1 \in Nat /\ (n - 1) + 1 = n
    OBVIOUS
  <2>2. /\ Power(b) \in [Nat -> Nat]
        /\ \A m \in Nat : Power(b)[m + 1] = b * Power(b)[m]
    BY PowerIsPower
  <2>3. Power(b)[(n - 1) + 1] = b * Power(b)[n - 1]
    BY <2>1, <2>2
  <2> QED BY <2>1, <2>2, <2>3
<1>3. (n + 1) - 1 = n /\ n + 1 > 1
  OBVIOUS
<1>4. opts.initial * (b * p) = w * b /\ w \in Nat
  BY <1>1, <1>2
<1>5. Wait(b, n) = IF n > 1 /\ w > opts.max THEN opts.max ELSE w
  BY DEF Wait
<1>6. Wait(b, n + 1) = Capped(w * b)
  BY <1>2, <1>3, <1>4 DEF Wait, Capped
<1> HIDE DEF p, w
<1>7. b * d = d * b /\ w * b \in Nat /\ d * b \in Nat /\ w <= w * b /\ d <= d * b
  <2>1. w * 1 <= w * b /\ d * 1 <= d * b
    <3>1. 1 * w <= b * w /\ 1 * d <= b * d
      BY <1>4, TimesMonotone
    <3> QED BY <1>4, <3>1
  <2> QED BY <1>4, <2>1
<1>8. ASSUME w <= d PROVE Capped(w * b) <= Capped(d * b)
  <2>1. w * b <= d * b
    BY <1>4, <1>8, TimesMonotone
  <2> QED BY <1>1, <1>7, <2>1 DEF Capped
<1>9. ASSUME d <= w PROVE Capped(d * b) <= Capped(w * b)
  <2>1. d * b <= w * b
    BY <1>4, <1>9, TimesMonotone
  <2> QED BY <1>1, <1>7, <2>1 DEF Capped
<1>10. ASSUME opts.max <= d PROVE Capped(w * b) <= Capped(d * b)
  BY <1>1, <1>7, <1>10 DEF Capped
<1>11. ASSUME w > opts.max PROVE Capped(d * b) <= Capped(w * b)
  BY <1>1, <1>4, <1>7, <1>11 DEF Capped
<1> QED BY <1>1, <1>4, <1>5, <1>6, <1>7, <1>8, <1>9, <1>10, <1>11

\* What the loop makes of the wait of round n is the wait of round n + 1.
LEMMA NextDue ==
    ASSUME OptsInv, NEW n \in Nat \ {0}, delay \in Durations, delay > 0 \/ delay = -HalfRange,
           Due(delay, n), NEW x \in NextDelay
    PROVE  Due(x, n + 1)
<1>0. /\ HalfRange \in Nat \ {0} /\ Exact \in Nat
      /\ opts.initial \in Nat \ {0} /\ opts.max \in Nat \ {0} /\ opts.mult \in Nat
  BY FloatAssumption DEF OptsInv
<1>1. PICK y \in Multiplied(delay, opts.mult) : x = Capped(y)
  BY DEF NextDelay, Capped
<1>2. y \in Durations
  BY <1>1, MultipliedTyped DEF OptsInv
<1>3. x <= opts.max
  BY <1>0, <1>1, <1>2 DEF Capped, Durations
<1>4. ASSUME Countable PROVE Wait(Floor, n + 1) <= x /\ x <= Wait(Ceil, n + 1)
  <2>1. /\ Floor \in Nat \ {0} /\ Ceil \in Nat \ {0} /\ Floor <= Ceil
        /\ Floor * Grain <= opts.mult /\ opts.mult <= Ceil * Grain
    BY WholeMultipliers
  <2> DEFINE b == Floor
             c == Ceil
  <2>2. Wait(b, n) <= delay /\ delay <= Wait(c, n)
    BY <1>4 DEF Due
  <2>3. delay = opts.initial \/ delay <= opts.max
    BY DEF Due
  <2>4. c * opts.initial <= Exact /\ c * opts.max <= Exact
    BY <1>4 DEF Countable
  <2>5. b \in Nat \ {0} /\ c \in Nat \ {0} /\ b <= c /\ b * Grain <= opts.mult /\ opts.mult <= c * Grain
    BY <2>1
  <2> HIDE DEF b, c
  <2>6. Wait(b, n) \in Nat
    BY <2>5, NextWait
  <2>7. delay \in Nat \ {0}
    BY <1>0, <2>2, <2>6 DEF Durations
  <2>8. c * delay <= Exact
    <3>1. CASE delay = opts.initial
      BY <2>4, <3>1
    <3>2. CASE delay <= opts.max
      <4>1. delay * c <= opts.max * c /\ delay * c \in Nat /\ opts.max * c \in Nat
        BY <1>0, <2>5, <2>7, <3>2, TimesMonotone
      <4>2. delay * c = c * delay /\ opts.max * c = c * opts.max
        BY <1>0, <2>5, <2>7
      <4> QED BY <1>0, <2>4, <4>1, <4>2
    <3> QED BY <2>3, <3>1, <3>2
  <2>9. y \in Nat /\ b * delay <= y /\ y <= c * delay
    BY <1>0, <1>1, <2>5, <2>7, <2>8, MultipliedBetween
  <2>10. Wait(b, n + 1) <= Capped(b * delay) /\ Capped(c * delay) <= Wait(c, n + 1)
    BY <2>2, <2>5, <2>7, NextWait
  <2>11. b * delay \in Nat /\ c * delay \in Nat /\ Capped(b * delay) <= Capped(y)
         /\ Capped(y) <= Capped(c * delay)
    BY <1>0, <2>5, <2>7, <2>9 DEF Capped
  <2>12. Wait(b, n + 1) \in Nat /\ Wait(c, n + 1) \in Nat
    BY <2>5, NextWait
  <2>13. Capped(b * delay) \in Nat /\ Capped(y) \in Nat /\ Capped(c * delay) \in Nat
    BY <1>0, <2>9, <2>11 DEF Capped
  <2>14. Wait(b, n + 1) <= x /\ x <= Wait(c, n + 1)
    BY <1>1, <2>10, <2>11, <2>12, <2>13
  <2> QED BY <2>14 DEF b, c
<1> QED BY <1>3, <1>4 DEF Due

-----------------------------------------------------------------------------
(* Every step keeps the invariant.                                         *)

\* withDefaults leaves every option positive, and the first wait is due.
LEMMA InitIInv == Init => IInv
<1> SUFFICES ASSUME Init PROVE IInv
  OBVIOUS
<1>1. OptsInv
  BY PollAssumption, FloatAssumption DEF Init, WithDefaults, OptsInv, Durations
<1>2. TypeOK
  <2>1. Nil \in Responses \cup {Nil}
    OBVIOUS
  <2>2. probe \in BOOLEAN /\ waited \in BOOLEAN
    BY DEF Init
  <2>3. delay \in Durations /\ delay > 0
    BY <1>1, FloatAssumption DEF Init, OptsInv, Durations
  <2> QED BY <2>2, <2>3, PollAssumption DEF Init, TypeOK, Pending, NoId, Ids
<1>3. IdInv
  BY DEF Init, IdInv, NoId
<1>4. TruthInv
  BY DEF Init, TruthInv, Holds, IsTerminal, IsSyncRejection, Nil, Pending
<1>5. SeenInv /\ RoundInv /\ DelayInv /\ StopsWithLastResponse
  BY DEF Init, SeenInv, RoundInv, DelayInv, StopsWithLastResponse, Pending
<1> QED BY <1>1, <1>2, <1>3, <1>4, <1>5 DEF IInv

\* Nothing changes the options of a poll.
LEMMA NextOpts == IInv /\ [Next]_vars => OptsInv'
BY DEF IInv, OptsInv, Next, vars, clientVars, wireVars, Start, Loop, Top, Judge, SleepEnds, SleepCut, Report,
       Transmit, CallAnswers, CallFails, CallAborted, Fails, GatewayHandles, CopyLost,
       GatewaySettles, CallerDone, MaxWaitElapses, Finished

\* Every action keeps its variables' types.
LEMMA NextTypeOK == IInv /\ [Next]_vars => TypeOK'
<1> SUFFICES ASSUME IInv, [Next]_vars PROVE TypeOK'
  OBVIOUS
<1> USE PollAssumption DEF IInv, TypeOK, Ids, NoId
<1>1. CASE Start
  <2>1. reqID' \in 1..1 /\ minted' \in 0..MaxCalls /\ calls' \in 0..MaxCalls
    BY <1>1 DEF Start, IdInv
  <2>2. waited' \in BOOLEAN /\ probe' \in BOOLEAN
    BY <1>1 DEF Start
  <2>3. delay' \in Durations /\ delay' > 0 /\ round' \in 0..(MaxCopies + 1)
    BY <1>1, FloatAssumption DEF Start, OptsInv, Durations
  <2> QED BY <1>1, <2>1, <2>2, <2>3 DEF Start, wireVars, Pending
<1>2. CASE Top
  BY <1>2 DEF Top, RoundInv
<1>3. CASE Judge
  BY <1>3 DEF Judge, Return, wireVars
<1>4. CASE SleepEnds
  <2>1. PICK x \in Multiplied(delay, opts.mult) : delay' = IF x > opts.max THEN opts.max ELSE x
    BY <1>4 DEF SleepEnds, NextDelay
  <2>2. x \in Durations /\ (x > 0 \/ x = -HalfRange)
    BY <2>1, MultipliedTyped DEF OptsInv
  <2>3. delay' \in Durations /\ (delay' > 0 \/ delay' = -HalfRange)
    BY <2>1, <2>2, FloatAssumption DEF OptsInv, Durations
  <2> QED BY <1>4, <2>3 DEF SleepEnds, wireVars
<1>5. CASE SleepCut
  BY <1>5 DEF SleepCut, wireVars
<1>6. CASE Report
  BY <1>6 DEF Report, Return, wireVars
<1>7. CASE Transmit
  BY <1>7 DEF Transmit, clientVars, IdInv
<1>8. CASE CallAnswers
  BY <1>8 DEF CallAnswers, wireVars
<1>9. CASE CallFails \/ CallAborted
  BY <1>9 DEF CallFails, CallAborted, Fails, wireVars
<1>10. ASSUME NEW c \in pending, GatewayHandles(c) PROVE TypeOK'
  BY <1>10, SMTT(30) DEF GatewayHandles, clientVars, Decide, Answers, Response, Responses
<1>11. ASSUME NEW c \in pending, CopyLost(c) PROVE TypeOK'
  BY <1>11 DEF CopyLost, clientVars
<1>12. ASSUME NEW i \in Ids, GatewaySettles(i) PROVE TypeOK'
  BY <1>12 DEF GatewaySettles, clientVars
<1>13. CASE CallerDone \/ MaxWaitElapses
  BY <1>13 DEF CallerDone, MaxWaitElapses, wireVars
<1>14. CASE Finished \/ UNCHANGED vars
  BY <1>14 DEF Finished, vars, clientVars, wireVars
<1> QED BY <1>1, <1>2, <1>3, <1>4, <1>5, <1>6, <1>7, <1>8, <1>9, <1>10, <1>11, <1>12, <1>13, <1>14
        DEF Next, Loop

\* Only the first poll mints; a copy carries the struct's identifier, and only
\* copies open orders.
LEMMA NextIds == IInv /\ [Next]_vars => IdInv'
<1> SUFFICES ASSUME IInv, [Next]_vars PROVE IdInv'
  OBVIOUS
<1> USE DEF IInv
<1>1. CASE Start
  <2>1. reqID' = 1 /\ minted' = 1 /\ pc' = "top" /\ UNCHANGED <<pending, sent, order, reply>>
    BY <1>1 DEF Start, wireVars, IdInv, NoId
  <2>2. CASE reqID = 1
    BY <2>1, <2>2 DEF IdInv, NoId
  <2>3. CASE reqID = 0
    <3>1. pending = {}
      BY <2>3 DEF IdInv, TypeOK, Ids
    <3>2. \A i \in Ids : order[i] = "none"
      BY <2>3 DEF IdInv, Ids
    <3> QED BY <2>1, <3>1, <3>2 DEF IdInv, NoId
  <2> QED BY <2>2, <2>3 DEF IdInv
<1>2. CASE Loop \/ CallAnswers \/ CallFails \/ CallAborted \/ CallerDone \/ MaxWaitElapses
  <2>1. /\ UNCHANGED <<reqID, minted, pending, sent, order>> /\ pc # "idle"
        /\ reply' \in {reply, Nil}
    BY <1>2 DEF Loop, Top, Judge, SleepEnds, SleepCut, Report, CallAnswers, CallFails, CallAborted,
                Fails, CallerDone, MaxWaitElapses, Active, wireVars
  <2> QED BY <2>1 DEF IdInv
<1>3. CASE Transmit
  <2>1. /\ UNCHANGED <<pc, reqID, minted, order>> /\ sent' = sent + 1 /\ sent \in Nat
        /\ pending' = pending \cup {[id |-> reqID, n |-> sent + 1]} /\ reply' = Nil
    BY <1>3 DEF Transmit, clientVars, TypeOK
  <2> QED BY <2>1 DEF IdInv
<1>4. ASSUME NEW c \in pending, GatewayHandles(c) \/ CopyLost(c) PROVE IdInv'
  <2>1. UNCHANGED <<pc, reqID, minted, sent>> /\ pending' \subseteq pending
    BY <1>4 DEF GatewayHandles, CopyLost, clientVars
  <2>2. \A i \in Ids : i # c.id => order'[i] = order[i]
    BY <1>4 DEF GatewayHandles, CopyLost, TypeOK
  <2>3. reqID # NoId
    BY DEF IdInv, TypeOK, Ids, NoId
  <2> QED BY <2>1, <2>2, <2>3 DEF IdInv
<1>5. ASSUME NEW i \in Ids, GatewaySettles(i) PROVE IdInv'
  <2>1. UNCHANGED <<pc, reqID, minted, sent, pending, reply>>
    BY <1>5 DEF GatewaySettles, clientVars
  <2>2. order[i] # "none" /\ \A j \in Ids : j # i => order'[j] = order[j]
    BY <1>5 DEF GatewaySettles, TypeOK
  <2> QED BY <2>1, <2>2 DEF IdInv
<1>6. CASE Finished \/ UNCHANGED vars
  BY <1>6 DEF Finished, vars, clientVars, wireVars, IdInv
<1> QED BY <1>1, <1>2, <1>3, <1>4, <1>5, <1>6 DEF Next

\* What was true of an order stays true: an order that ended, or was refused,
\* does not change any more.
LEMMA OrdersAreFinal ==
    ASSUME IInv, reqID' = reqID,
           \A s \in {"SUCCESS", "FAILED", "REJECTED"} : order[reqID] = s => order'[reqID] = s,
           NEW r \in Responses \cup {Nil}, Holds(r)
    PROVE  /\ IsTerminal(r.status) => order'[reqID'] = r.status
           /\ IsSyncRejection(r) => order'[reqID'] = "REJECTED"
BY DEF Holds, IsTerminal

\* A gateway's answer is true of the order it was given for.
LEMMA AnswersAreTrue ==
    ASSUME NEW s \in {"PROCESSING", "SUCCESS", "FAILED", "REJECTED"}, NEW r \in Answers(s)
    PROVE  /\ IsTerminal(r.status) => s = r.status
           /\ IsSyncRejection(r) => s = "REJECTED"
BY DEF Answers, Response, IsTerminal, IsSyncRejection

\* A response that is Nil says nothing.
LEMMA NilHolds == ~IsTerminal(Nil.status) /\ ~IsSyncRejection(Nil)
BY DEF Nil, IsTerminal, IsSyncRejection

\* The responses kept are true of the order, and a rejection is reported only
\* on a response that says so.
LEMMA NextTruth == IInv /\ [Next]_vars => TruthInv'
<1> SUFFICES ASSUME IInv, [Next]_vars PROVE TruthInv'
  OBVIOUS
<1> USE DEF IInv
<1>0. {resp, lastResp, seen, reply, result.resp} \subseteq Responses \cup {Nil}
  BY DEF TypeOK
<1>1. CASE Start
  <2>1. resp' = Nil /\ lastResp' = Nil /\ seen' = Nil /\ result' = Pending /\ reply' = reply /\ order' = order
    BY <1>1 DEF Start, wireVars
  <2>2. CASE pc = "idle" /\ reqID = NoId
    <3>1. reply = Nil
      BY <2>2 DEF IdInv
    <3> QED BY <3>1, <2>1, NilHolds DEF TruthInv, Holds, Pending
  <2>3. CASE ~(pc = "idle" /\ reqID = NoId)
    <3>1. reqID' = reqID
      BY <1>1, <2>3 DEF Start, IdInv, NoId
    <3> QED BY <3>1, <2>1, NilHolds DEF TruthInv, Holds, Pending
  <2> QED BY <2>2, <2>3
<1>2. CASE Top
  BY <1>2, NilHolds DEF Top, TruthInv, Holds
<1>3. CASE Judge
  <2>1. UNCHANGED <<reqID, order, resp, seen, reply>>
    BY <1>3 DEF Judge, wireVars
  <2>2. lastResp' \in {resp, lastResp}
    BY <1>3 DEF Judge
  <2>3. \/ result' = result \/ result' = [kind |-> "terminal", resp |-> resp]
        \/ result' = [kind |-> "error", resp |-> Nil]
        \/ result' = [kind |-> "rejected", resp |-> Nil] /\ IsSyncRejection(resp)
    BY <1>3 DEF Judge, Return
  <2> QED BY <2>1, <2>2, <2>3, NilHolds DEF TruthInv, Holds
<1>4. CASE SleepEnds \/ SleepCut \/ CallFails \/ CallAborted \/ CallerDone \/ MaxWaitElapses
           \/ (\E c \in pending : CopyLost(c)) \/ Finished \/ UNCHANGED vars
  <2>1. UNCHANGED <<reqID, order, resp, lastResp, seen, reply, result>>
    BY <1>4 DEF SleepEnds, SleepCut, CallFails, CallAborted, Fails, CallerDone, MaxWaitElapses,
                CopyLost, Finished, vars, clientVars, wireVars
  <2> QED BY <2>1 DEF TruthInv, Holds
<1>5. CASE Report
  <2>1. /\ UNCHANGED <<reqID, order, resp, lastResp, seen, reply>>
        /\ result'.resp = lastResp /\ result'.kind # "rejected"
    BY <1>5 DEF Report, Return, wireVars
  <2> QED BY <2>1 DEF TruthInv, Holds
<1>6. CASE Transmit
  <2>1. UNCHANGED <<reqID, order, resp, lastResp, seen, result>> /\ reply' = Nil
    BY <1>6 DEF Transmit, clientVars
  <2> QED BY <2>1, NilHolds DEF TruthInv, Holds
<1>7. CASE CallAnswers
  <2>1. UNCHANGED <<reqID, order, lastResp, reply, result>> /\ resp' = reply /\ seen' = reply
    BY <1>7 DEF CallAnswers, wireVars
  <2> QED BY <2>1 DEF TruthInv, Holds
<1>8. ASSUME NEW c \in pending, GatewayHandles(c) PROVE TruthInv'
  <2>1. c.id = reqID /\ reqID \in Ids
    BY DEF IdInv, TypeOK
  <2>2. UNCHANGED <<reqID, resp, lastResp, seen, result>>
    BY <1>8 DEF GatewayHandles, clientVars
  <2>3. PICK s \in Decide(order[reqID]) :
            order' = [order EXCEPT ![reqID] = s] /\ (reply' = reply \/ reply' \in Answers(s))
    BY <1>8, <2>1 DEF GatewayHandles
  <2>4. /\ order'[reqID] = s /\ s \in {"PROCESSING", "SUCCESS", "FAILED", "REJECTED"}
        /\ \A t \in {"SUCCESS", "FAILED", "REJECTED"} : order[reqID] = t => order'[reqID] = t
    BY <2>1, <2>3 DEF Decide, TypeOK
  <2>5. \A r \in Responses \cup {Nil} : Holds(r) =>
            /\ IsTerminal(r.status) => order'[reqID'] = r.status
            /\ IsSyncRejection(r) => order'[reqID'] = "REJECTED"
    BY <2>2, <2>4, OrdersAreFinal
  <2>6. /\ IsTerminal(reply'.status) => order'[reqID'] = reply'.status
        /\ IsSyncRejection(reply') => order'[reqID'] = "REJECTED"
    <3>1. CASE reply' = reply
      BY <3>1, <2>5, <1>0 DEF TruthInv
    <3>2. CASE reply' \in Answers(s)
      BY <3>2, <2>2, <2>4, AnswersAreTrue
    <3> QED BY <3>1, <3>2, <2>3
  <2>7. result'.kind = "rejected" => order'[reqID'] = "REJECTED"
    BY <2>2, <2>4 DEF TruthInv
  <2> QED BY <2>2, <2>5, <2>6, <2>7, <1>0 DEF TruthInv, Holds
<1>9. ASSUME NEW i \in Ids, GatewaySettles(i) PROVE TruthInv'
  <2>1. UNCHANGED <<reqID, resp, lastResp, seen, reply, result>>
    BY <1>9 DEF GatewaySettles, clientVars
  <2>2. \A t \in {"SUCCESS", "FAILED", "REJECTED"} : order[reqID] = t => order'[reqID] = t
    BY <1>9 DEF GatewaySettles, TypeOK
  <2>3. \A r \in Responses \cup {Nil} : Holds(r) =>
            /\ IsTerminal(r.status) => order'[reqID'] = r.status
            /\ IsSyncRejection(r) => order'[reqID'] = "REJECTED"
    BY <2>1, <2>2, OrdersAreFinal
  <2> QED BY <2>1, <2>2, <2>3, <1>0 DEF TruthInv, Holds
<1> QED BY <1>1, <1>2, <1>3, <1>4, <1>5, <1>6, <1>7, <1>8, <1>9 DEF Next, Loop

\* What the loop remembers, and reports when it is stopped, is the latest
\* response it was given.
LEMMA NextSeen == IInv /\ [Next]_vars => SeenInv' /\ StopsWithLastResponse'
<1> SUFFICES ASSUME IInv, [Next]_vars PROVE SeenInv' /\ StopsWithLastResponse'
  OBVIOUS
<1> USE DEF IInv
<1>1. CASE Start
  BY <1>1 DEF Start, SeenInv, StopsWithLastResponse, Pending
<1>2. CASE Top
  BY <1>2 DEF Top, SeenInv, StopsWithLastResponse
<1>3. CASE Judge
  <2>1. UNCHANGED <<resp, seen>> /\ result = Pending
    BY <1>3 DEF Judge, SeenInv
  <2>2. CASE PollDone
    <3>1. lastResp' = seen /\ pc' = "stopping" /\ UNCHANGED result
      BY <1>3, <2>2 DEF Judge, SeenInv
    <3> QED BY <2>1, <3>1 DEF SeenInv, StopsWithLastResponse, Pending
  <2>3. CASE ~PollDone
    <3>1. \/ pc' = "returned" /\ result'.kind \in {"error", "terminal", "rejected"}
          \/ pc' = "sleep" /\ lastResp' = seen /\ UNCHANGED result
      BY <1>3, <2>3 DEF Judge, Return, SeenInv
    <3> QED BY <2>1, <3>1 DEF SeenInv, StopsWithLastResponse, Pending
  <2> QED BY <2>2, <2>3
<1>4. CASE SleepEnds \/ SleepCut
  BY <1>4 DEF SleepEnds, SleepCut, SeenInv, StopsWithLastResponse
<1>5. CASE Report
  BY <1>5 DEF Report, Return, SeenInv, StopsWithLastResponse
<1>6. CASE CallAnswers
  BY <1>6 DEF CallAnswers, SeenInv, StopsWithLastResponse, Pending
<1>7. CASE CallFails \/ CallAborted
  BY <1>7 DEF CallFails, CallAborted, Fails, SeenInv, StopsWithLastResponse
<1>8. CASE \/ Transmit \/ CallerDone \/ MaxWaitElapses \/ Finished \/ UNCHANGED vars
           \/ (\E c \in pending : GatewayHandles(c) \/ CopyLost(c))
           \/ (\E i \in Ids : GatewaySettles(i))
  <2>1. UNCHANGED <<pc, resp, lastResp, seen, result>>
    BY <1>8 DEF Transmit, CallerDone, MaxWaitElapses, Finished, GatewayHandles, CopyLost,
                GatewaySettles, vars, clientVars
  <2> QED BY <2>1 DEF SeenInv, StopsWithLastResponse
<1> QED BY <1>1, <1>2, <1>3, <1>4, <1>5, <1>6, <1>7, <1>8 DEF Next, Loop

\* Rounds are not more than copies: only an answered round is followed by
\* another, and only a copy is answered.
LEMMA NextRound == IInv /\ [Next]_vars => RoundInv'
<1> SUFFICES ASSUME IInv, [Next]_vars PROVE RoundInv'
  OBVIOUS
<1> USE DEF IInv
<1>0. round \in Nat /\ sent \in Nat /\ attempts \in Nat
  BY DEF TypeOK
<1>1. CASE Start
  BY <1>1, <1>0 DEF Start, wireVars, RoundInv
<1>2. CASE Top
  BY <1>2, <1>0 DEF Top, RoundInv
<1>3. CASE Judge
  <2>1. UNCHANGED <<round, sent, attempts, reply>> /\ round > 0
    BY <1>3 DEF Judge, wireVars, RoundInv
  <2>2. pc' \in {"stopping", "returned"} \/ (pc' = "sleep" /\ pc = "answered")
    BY <1>3 DEF Judge, Return
  <2> QED BY <2>1, <2>2 DEF RoundInv
<1>4. CASE SleepEnds \/ SleepCut
  BY <1>4 DEF SleepEnds, SleepCut, wireVars, RoundInv
<1>5. CASE Report
  BY <1>5 DEF Report, Return, wireVars, RoundInv
<1>6. CASE Transmit
  <2>1. UNCHANGED <<pc, round>> /\ pc = "calling" /\ sent' = sent + 1 /\ attempts' = attempts + 1
    BY <1>6 DEF Transmit, clientVars
  <2> QED BY <2>1, <1>0 DEF RoundInv
<1>7. CASE CallAnswers \/ CallFails \/ CallAborted
  <2>1. UNCHANGED <<round, sent, attempts, reply>> /\ pc = "calling"
    BY <1>7 DEF CallAnswers, CallFails, CallAborted, Fails, wireVars
  <2>2. pc' = "failed" \/ (pc' = "answered" /\ reply # Nil)
    BY <1>7 DEF CallAnswers, CallFails, CallAborted, Fails
  <2> QED BY <2>1, <2>2 DEF RoundInv
<1>8. ASSUME NEW c \in pending, GatewayHandles(c) \/ CopyLost(c) PROVE RoundInv'
  <2>1. UNCHANGED <<pc, round, sent, attempts>>
    BY <1>8 DEF GatewayHandles, CopyLost, clientVars
  <2>2. reply' = reply \/ attempts > 0
    BY <1>8 DEF GatewayHandles, CopyLost
  <2> QED BY <2>1, <2>2 DEF RoundInv
<1>9. CASE \/ CallerDone \/ MaxWaitElapses \/ Finished \/ UNCHANGED vars
           \/ (\E i \in Ids : GatewaySettles(i))
  <2>1. UNCHANGED <<pc, round, sent, attempts, reply>>
    BY <1>9 DEF CallerDone, MaxWaitElapses, Finished, GatewaySettles, vars, clientVars, wireVars
  <2> QED BY <2>1 DEF RoundInv
<1> QED BY <1>1, <1>2, <1>3, <1>4, <1>5, <1>6, <1>7, <1>8, <1>9 DEF Next, Loop

\* The wait in force is the one documented for its round: the first on Start, the
\* next one of the sequence each time a sleep ends.
LEMMA NextDelayInv == IInv /\ [Next]_vars => DelayInv'
<1> SUFFICES ASSUME IInv, [Next]_vars PROVE DelayInv'
  OBVIOUS
<1> USE DEF IInv
<1>0. opts' = opts
  BY DEF Next, vars, clientVars, Start, Loop, Top, Judge, SleepEnds, SleepCut, Report, Transmit,
         CallAnswers, CallFails, CallAborted, Fails, GatewayHandles, CopyLost, GatewaySettles,
         CallerDone, MaxWaitElapses, Finished
<1>w. DelayInv' <=> /\ pc' \in {"calling", "answered", "failed", "sleep"} => Due(delay', round')
                    /\ pc' = "top" => Due(delay', round' + 1)
  BY <1>0, Zenon DEF DelayInv, Due, Wait, Floor, Ceil, Countable
<1>r. round \in Nat
  BY DEF TypeOK
<1>1. CASE Start
  <2>1. round' = 0 /\ delay' = opts.initial /\ pc' = "top"
    BY <1>1 DEF Start
  <2>2. Due(opts.initial, 0 + 1)
    <3>1. Floor \in Nat /\ Ceil \in Nat
      BY WholeMultipliers
    <3>2. Wait(Floor, 1) = opts.initial /\ Wait(Ceil, 1) = opts.initial /\ opts.initial \in Nat
      BY <3>1, FirstWait DEF OptsInv
    <3> QED BY <3>2 DEF Due
  <2> QED BY <2>1, <2>2, <1>w
<1>2. CASE Top
  <2>1. /\ delay' = delay /\ Due(delay, round + 1)
        /\ pc' = "stopping" \/ (pc' = "calling" /\ round' = round + 1)
    BY <1>2 DEF Top, DelayInv
  <2> QED BY <2>1, <1>w
<1>3. CASE SleepEnds
  <2>1. delay' \in NextDelay /\ round' = round /\ pc' = "top" /\ Due(delay, round) /\ round > 0
    BY <1>3 DEF SleepEnds, DelayInv, RoundInv
  <2>2. Due(delay', round + 1)
    <3>1. delay \in Durations /\ (delay > 0 \/ delay = -HalfRange) /\ round \in Nat \ {0}
      BY <2>1, <1>r DEF TypeOK
    <3> QED BY <2>1, <3>1, NextDue
  <2> QED BY <2>1, <2>2, <1>w
<1>4. CASE \/ Judge \/ SleepCut \/ Report \/ CallAnswers \/ CallFails \/ CallAborted
  <2>1. /\ UNCHANGED <<round, delay>>
        /\ \/ pc' \in {"stopping", "returned"}
           \/ pc \in {"calling", "answered", "failed", "sleep"} /\ pc' \in {"answered", "failed", "sleep"}
    BY <1>4 DEF Judge, Return, SleepCut, Report, CallAnswers, CallFails, CallAborted, Fails
  <2> QED BY <2>1, <1>w DEF DelayInv
<1>5. CASE \/ Transmit \/ CallerDone \/ MaxWaitElapses \/ Finished \/ UNCHANGED vars
           \/ (\E c \in pending : GatewayHandles(c) \/ CopyLost(c))
           \/ (\E i \in Ids : GatewaySettles(i))
  <2>1. UNCHANGED <<pc, round, delay>>
    BY <1>5 DEF Transmit, CallerDone, MaxWaitElapses, Finished, GatewayHandles, CopyLost,
                GatewaySettles, vars, clientVars
  <2> QED BY <2>1, <1>w DEF DelayInv
<1> QED BY <1>1, <1>2, <1>3, <1>4, <1>5 DEF Next, Loop

-----------------------------------------------------------------------------
(* What the loop guarantees.                                               *)

\* The invariant holds of every reachable state.
LEMMA Invariance == Spec => []IInv
<1>1. IInv /\ [Next]_vars => IInv'
  BY NextTypeOK, NextOpts, NextIds, NextTruth, NextSeen, NextRound, NextDelayInv DEF IInv
<1> QED BY InitIInv, <1>1, PTL DEF Spec

\* pollUntilTerminal and the calls under it keep their variables' types, for any
\* options, numbers of attempts, polls and copies.
THEOREM PollTypeOK == Spec => []TypeOK
<1>1. IInv => TypeOK
  BY DEF IInv
<1> QED BY Invariance, <1>1, PTL

\* However often the loop re-submits, copies are retried, lost or late, and the
\* caller polls again with the same struct, at most one order is opened.
THEOREM PollOneOrder == Spec => []OneOrder
<1>1. IInv => OneOrder
  <2> SUFFICES ASSUME IInv PROVE OneOrder
    OBVIOUS
  <2> DEFINE S == {i \in Ids : order[i] # "none"}
  <2>1. S \subseteq {reqID}
    BY DEF IInv, IdInv
  <2>2. IsFiniteSet({reqID}) /\ Cardinality({reqID}) = 1
    BY FS_Singleton
  <2>3. Cardinality(S) <= 1
    BY <2>1, <2>2, FS_Subset
  <2> QED BY <2>3 DEF OneOrder
<1> QED BY Invariance, <1>1, PTL

\* A terminal status a poll returned, on its own or with a timeout, is how the
\* order ended, and a reported rejection means that it was refused.
THEOREM PollOutcomeHolds == Spec => []OutcomeHolds
<1>1. IInv => OutcomeHolds
  BY DEF IInv, TruthInv, Holds, OutcomeHolds
<1> QED BY Invariance, <1>1, PTL

\* A poll that MaxWait or the caller stopped returns the latest response any of
\* its rounds was given.
THEOREM PollStopsWithLastResponse == Spec => []StopsWithLastResponse
<1>1. IInv => StopsWithLastResponse
  BY DEF IInv
<1> QED BY Invariance, <1>1, PTL

\* Iterating float64 multiplication, truncation and the cap of payment.go:317-321
\* keeps every wait after the first under the cap, and every wait between those of
\* the whole multipliers next to the one in force, equal to initial * mult^(n-1)
\* under the cap where it is whole: for every n, every width of float64 and int64,
\* and all options whose products can be counted.
THEOREM PollBackoffIsGeometric == Spec => []BackoffIsGeometric
<1>1. IInv => BackoffIsGeometric
  BY DEF IInv, DelayInv, Due, BackoffIsGeometric
<1> QED BY Invariance, <1>1, PTL
=============================================================================
