--------------------------- MODULE NumericProofs ---------------------------
(***************************************************************************)
(* The NUMERIC arithmetic for every base, precision, scale and value: what *)
(* Spanner can represent is accepted and written exactly, what is accepted *)
(* fits, and what is rounded goes to the nearest.                          *)
(*                                                                         *)
(* A rendering is a division rounded to nearest; each fact about it comes  *)
(* from the two inequalities that say so, and from a quotient being the    *)
(* only number between them.                                               *)
(***************************************************************************)
EXTENDS Numeric, TLAPS

----------------------------------------------------------------------------
(* Division.                                                               *)

\* Only one quotient leaves a remainder below the divisor.
LEMMA QuotientUnique ==
  ASSUME NEW d \in Nat \ {0}, NEW p \in Int, NEW q \in Int, NEW n \in Int,
         p * d <= n, n < (p + 1) * d, q * d <= n, n < (q + 1) * d
  PROVE  p = q
<1>1. ASSUME NEW x \in Int, NEW y \in Int, x * d < (y + 1) * d PROVE x <= y
  <2>1. SUFFICES ASSUME y + 1 <= x PROVE FALSE
    BY <1>1
  <2>2. (y + 1) * d <= x * d
    BY <2>1
  <2>3. x * d \in Int /\ (y + 1) * d \in Int
    OBVIOUS
  <2> QED BY <1>1, <2>2, <2>3
<1>2. p * d \in Int /\ q * d \in Int /\ (p + 1) * d \in Int /\ (q + 1) * d \in Int
  OBVIOUS
<1>3. p <= q
  BY <1>1, <1>2
<1>4. q <= p
  BY <1>1, <1>2
<1> QED BY <1>3, <1>4

LEMMA Quotient ==
  ASSUME NEW n \in Int, NEW d \in Nat \ {0}
  PROVE  n \div d \in Int /\ (n \div d) * d <= n /\ n < ((n \div d) + 1) * d
OBVIOUS

\* The quotient of two natural numbers is one.
LEMMA QuotientNat == ASSUME NEW n \in Nat, NEW d \in Nat \ {0} PROVE n \div d \in Nat
OBVIOUS

LEMMA QuotientIs ==
  ASSUME NEW n \in Int, NEW d \in Nat \ {0}, NEW q \in Int, q * d <= n, n < (q + 1) * d
  PROVE  n \div d = q
BY Quotient, QuotientUnique

\* A number without remainder is the multiple its quotient says.
LEMMA Divides ==
  ASSUME NEW n \in Int, NEW d \in Nat \ {0}
  PROVE  n % d = 0 <=> n = (n \div d) * d
OBVIOUS

\* A common factor of both sides does not matter.
LEMMA Cancel ==
  ASSUME NEW x \in Int, NEW y \in Int, NEW d \in Nat \ {0}
  PROVE  x < y <=> x * d < y * d
<1>1. ASSUME x < y PROVE x * d < y * d
  BY <1>1
<1>2. ASSUME y <= x PROVE y * d <= x * d
  BY <1>2
<1> QED BY <1>1, <1>2

LEMMA QuotientBelow ==
  ASSUME NEW n \in Int, NEW d \in Nat \ {0}, NEW w \in Int
  PROVE  n \div d < w <=> n < w * d
<1> DEFINE q == n \div d
<1>1. q \in Int /\ q * d <= n /\ n < (q + 1) * d
  BY Quotient
<1> HIDE DEF q
<1>2. ASSUME q < w PROVE n < w * d
  <2>1. (q + 1) * d <= w * d
    BY <1>1, <1>2
  <2> QED BY <1>1, <2>1
<1>3. ASSUME n < w * d PROVE q < w
  <2>1. q * d < w * d
    BY <1>1, <1>3
  <2> QED BY <1>1, <2>1, Cancel
<1> QED BY <1>2, <1>3 DEF q

----------------------------------------------------------------------------
(* Products.                                                               *)

LEMMA Product == ASSUME NEW x \in Int, NEW y \in Int PROVE x * y \in Int /\ x * y = y * x
OBVIOUS
LEMMA ProductNat == ASSUME NEW x \in Nat, NEW y \in Nat PROVE x * y \in Nat
OBVIOUS
LEMMA ProductPos == ASSUME NEW x \in Nat \ {0}, NEW y \in Nat \ {0} PROVE x * y \in Nat \ {0}
OBVIOUS
LEMMA Doubled ==
  ASSUME NEW x \in Int, NEW y \in Int
  PROVE  x * (2 * y) = 2 * (x * y) /\ (2 * x) * y = 2 * (x * y)
         /\ (x + 1) * (2 * y) = 2 * (x * y) + 2 * y
OBVIOUS
LEMMA Regrouped ==
  ASSUME NEW x \in Int, NEW y \in Int, NEW z \in Int PROVE (x * y) * z = x * (y * z)
OBVIOUS
LEMMA Distributed ==
  ASSUME NEW x \in Int, NEW y \in Int, NEW z \in Int PROVE (x - y) * z = x * z - y * z
OBVIOUS

----------------------------------------------------------------------------
(* Rounding to nearest, in numbers.                                        *)

Nearest(n, d) == (2 * n + d) \div (2 * d)

LEMMA NearestIs ==
  ASSUME NEW n \in Nat, NEW d \in Nat \ {0}
  PROVE  /\ Nearest(n, d) \in Nat
         /\ 2 * (Nearest(n, d) * d) <= 2 * n + d /\ 2 * n < 2 * (Nearest(n, d) * d) + d
<1> DEFINE m == 2 * n + d
           u == Nearest(n, d)
<1>1. m \in Nat /\ 2 * d \in Nat \ {0} /\ u = m \div (2 * d)
  BY DEF Nearest
<1> HIDE DEF u
<1>2. u \in Nat
  BY <1>1, QuotientNat
<1>3. u * (2 * d) <= m /\ m < (u + 1) * (2 * d)
  <2> DEFINE q == 2 * d
  <2>1. m \in Int /\ q \in Nat \ {0} /\ u = m \div q
    BY <1>1
  <2> HIDE DEF m, q
  <2>2. u * q <= m /\ m < (u + 1) * q
    BY <2>1, Quotient
  <2> QED BY <2>2 DEF q
<1>4. u * (2 * d) = 2 * (u * d) /\ (u + 1) * (2 * d) = 2 * (u * d) + 2 * d /\ u * d \in Int
  BY <1>2, Doubled, Product
<1> QED BY <1>2, <1>3, <1>4 DEF u

LEMMA NearestUnique ==
  ASSUME NEW n \in Nat, NEW d \in Nat \ {0}, NEW k \in Int,
         2 * (k * d) <= 2 * n + d, 2 * n < 2 * (k * d) + d
  PROVE  Nearest(n, d) = k
<1> DEFINE m == 2 * n + d
<1>1. m \in Int /\ 2 * d \in Nat \ {0} /\ Nearest(n, d) = m \div (2 * d)
  BY DEF Nearest
<1>2. k * (2 * d) = 2 * (k * d) /\ (k + 1) * (2 * d) = 2 * (k * d) + 2 * d /\ k * d \in Int
  BY Doubled, Product
<1>3. k * (2 * d) <= m /\ m < (k + 1) * (2 * d)
  BY <1>2
<1> HIDE DEF m
<1> QED BY <1>1, <1>3, QuotientIs

\* A multiple of the divisor is its quotient.
LEMMA NearestExact ==
  ASSUME NEW k \in Nat, NEW d \in Nat \ {0} PROVE Nearest(k * d, d) = k
<1>1. k * d \in Nat
  BY ProductNat
<1>2. 2 * (k * d) <= 2 * (k * d) + d /\ 2 * (k * d) < 2 * (k * d) + d
  BY <1>1
<1> QED BY <1>1, <1>2, NearestUnique

\* Rounded with one digit more, which is zero: rounded without it.
LEMMA NearestShorter ==
  ASSUME NEW n \in Nat, NEW d \in Nat \ {0}, NEW b \in Nat, b > 1, NEW m \in Nat,
         Nearest(n * b, d) = m * b
  PROVE  Nearest(n, d) = m /\ 2 * (Abs(n - m * d) * b) <= d
<1> DEFINE x == n - m * d
<1>1. n * b \in Nat /\ m * d \in Nat /\ x \in Int
  BY ProductNat
<1>2. 2 * ((m * b) * d) <= 2 * (n * b) + d /\ 2 * (n * b) < 2 * ((m * b) * d) + d
  BY <1>1, NearestIs
<1>3. (m * b) * d = (m * d) * b
  BY Regrouped, Product
<1>4. x * b = n * b - (m * d) * b /\ x * b \in Int /\ (m * d) * b \in Int
  BY <1>1, Distributed, Product
<1>5. -d <= 2 * (x * b) /\ 2 * (x * b) < d
  BY <1>1, <1>2, <1>3, <1>4
<1> HIDE DEF x
<1>6. 2 * x < d /\ -d <= 2 * x
  <2>1. ASSUME d <= 2 * x PROVE FALSE
    <3>1. x >= 0 /\ x * b >= x * 1
      BY <1>1, <2>1
    <3> QED BY <1>1, <1>4, <1>5, <2>1, <3>1
  <2>2. ASSUME 2 * x < -d PROVE FALSE
    <3>1. x <= 0 /\ x * b <= x * 1
      BY <1>1, <2>2
    <3> QED BY <1>1, <1>4, <1>5, <2>2, <3>1
  <2> QED BY <1>1, <2>1, <2>2
<1>7. Nearest(n, d) = m
  <2>1. 2 * (m * d) <= 2 * n + d /\ 2 * n < 2 * (m * d) + d
    BY <1>1, <1>6 DEF x
  <2> QED BY <2>1, NearestUnique
<1>8. 2 * (Abs(x) * b) <= d
  <2>1. CASE x < 0
    <3>1. Abs(x) = 0 - x /\ (0 - x) * b = 0 * b - x * b
      BY <1>1, <2>1, Distributed DEF Abs
    <3> QED BY <1>4, <1>5, <3>1
  <2>2. CASE x >= 0
    BY <1>1, <1>5, <2>2, <1>4 DEF Abs
  <2> QED BY <1>1, <2>1, <2>2
<1> QED BY <1>7, <1>8 DEF x

----------------------------------------------------------------------------
(* Renderings.                                                             *)

LEMMA Constants ==
  /\ Base \in Nat \ {0} /\ Base > 1 /\ ScaleUnit \in Nat \ {0} /\ WholeUnit \in Nat \ {0}
  /\ ScaleUnit * Base \in Nat \ {0} /\ WholeUnit * ScaleUnit \in Nat
  /\ WholeUnit * (ScaleUnit * Base) = (WholeUnit * ScaleUnit) * Base
BY NumericAssumption, ProductPos, Regrouped

\* A rendering is the nearest multiple of its last digit.
LEMMA Rendering ==
  ASSUME NEW r \in Rats, NEW unit \in Nat
  PROVE  /\ Abs(r.num) \in Nat /\ r.den \in Nat \ {0} /\ Abs(r.num) * unit \in Nat
         /\ FloatString(r, unit) = Nearest(Abs(r.num) * unit, r.den)
<1>1. r.num \in Int /\ r.den \in Nat \ {0}
  BY NumericAssumption
<1>2. Abs(r.num) \in Nat
  BY <1>1 DEF Abs
<1>3. (2 * Abs(r.num)) * unit = 2 * (Abs(r.num) * unit)
  BY <1>2, Doubled
<1> QED BY <1>1, <1>2, <1>3, ProductNat DEF FloatString, Nearest

\* Both renderings of a value, over its absolute number of units.
LEMMA BothRenderings ==
  ASSUME NEW r \in Rats
  PROVE  LET n == Abs(r.num) * ScaleUnit IN
         /\ n \in Nat /\ r.den \in Nat \ {0}
         /\ NumericString(r) = Nearest(n, r.den) /\ Rendered(r) = Nearest(n * Base, r.den)
<1>1. Abs(r.num) \in Nat /\ Abs(r.num) * ScaleUnit \in Nat /\ r.den \in Nat \ {0}
      /\ FloatString(r, ScaleUnit) = Nearest(Abs(r.num) * ScaleUnit, r.den)
  BY Constants, Rendering
<1>2. FloatString(r, ScaleUnit * Base) = Nearest(Abs(r.num) * (ScaleUnit * Base), r.den)
  BY Constants, Rendering
<1>3. Abs(r.num) * (ScaleUnit * Base) = (Abs(r.num) * ScaleUnit) * Base
  BY <1>1, Constants, Regrouped
<1> QED BY <1>1, <1>2, <1>3 DEF NumericString, Rendered

\* Representable values are within both limits, and rendered exactly.
LEMMA RepresentableAccepted ==
  ASSUME NEW r \in Rats, Representable(r)
  PROVE  /\ ~OverScale(r) /\ ~OverWhole(r)
         /\ NumericString(r) * r.den = Abs(r.num) * ScaleUnit
<1> DEFINE a == Abs(r.num)
           d == r.den
           n == a * ScaleUnit
           k == n \div d
           limit == WholeUnit * ScaleUnit
<1>1. a \in Nat /\ n \in Nat /\ d \in Nat \ {0} /\ limit \in Nat
      /\ NumericString(r) = Nearest(n, d) /\ Rendered(r) = Nearest(n * Base, d)
  BY Constants, Rendering, BothRenderings
<1>2. n % d = 0 /\ a < WholeUnit * d
  BY DEF Representable
<1> HIDE DEF a, d
<1>3. k \in Nat /\ n = k * d
  <2> HIDE DEF n
  <2> QED BY <1>1, <1>2, QuotientNat, Divides
<1> HIDE DEF n, k, limit
<1>4. NumericString(r) = k
  BY <1>1, <1>3, NearestExact
<1>5. Rendered(r) = k * Base /\ k * Base \in Nat
  <2>1. n * Base = (k * Base) * d
    BY <1>1, <1>3, Constants, Regrouped, Product
  <2>2. k * Base \in Nat
    BY <1>3, Constants, ProductNat
  <2> QED BY <1>1, <2>1, <2>2, NearestExact
<1>6. ~OverScale(r)
  <2>1. (k * Base) % Base = 0
    BY <1>3, Constants
  <2> QED BY <1>5, <2>1 DEF OverScale
<1>7. k < limit
  <2>1. WholeUnit * d \in Int /\ a * ScaleUnit < (WholeUnit * d) * ScaleUnit
    BY <1>1, <1>2, Constants, Cancel, Product
  <2>2. (WholeUnit * d) * ScaleUnit = limit * d
    BY <1>1, Constants, Regrouped, Product DEF limit
  <2>3. k * d < limit * d
    BY <1>3, <2>1, <2>2 DEF n
  <2> QED BY <1>1, <1>3, <2>3, Cancel
<1>8. ~OverWhole(r)
  <2>1. k * Base < limit * Base
    BY <1>1, <1>3, <1>7, Constants, Cancel
  <2>2. k * Base < WholeUnit * (ScaleUnit * Base)
    BY <2>1, Constants DEF limit
  <2> DEFINE w == k * Base
             q == ScaleUnit * Base
  <2>3. w \in Int /\ q \in Nat \ {0} /\ w < WholeUnit * q /\ WholeUnit \in Int
    BY <1>5, <2>2, Constants
  <2> HIDE DEF w, q
  <2>4. w \div q < WholeUnit /\ w \div q \in Int
    BY <2>3, Quotient, QuotientBelow
  <2> QED BY <1>5, <2>3, <2>4 DEF OverWhole, w, q
<1> QED BY <1>3, <1>4, <1>6, <1>8 DEF n, a, d

\* What passes both checks is written within the precision, off by at most
\* half a digit beyond the scale: rendering it to the scale only drops a
\* zero of the rendering that was checked.
LEMMA AcceptedWritten ==
  ASSUME NEW r \in Rats, ~OverScale(r), ~OverWhole(r)
  PROVE  LET u == NumericString(r) IN
         /\ u \in Nat /\ u < WholeUnit * ScaleUnit
         /\ 2 * (Abs(Abs(r.num) * ScaleUnit - u * r.den) * Base) <= r.den
<1> DEFINE n == Abs(r.num) * ScaleUnit
           d == r.den
           R == Rendered(r)
           m == R \div Base
           limit == WholeUnit * ScaleUnit
<1>1. n \in Nat /\ d \in Nat \ {0} /\ limit \in Nat
      /\ NumericString(r) = Nearest(n, d) /\ R = Nearest(n * Base, d)
  BY Constants, BothRenderings
<1>2. R % Base = 0
  BY DEF OverScale
<1>3. R \div (ScaleUnit * Base) < WholeUnit
  <2> HIDE DEF R
  <2>1. R \in Nat
    BY <1>1, Constants, ProductNat, NearestIs
  <2>2. R \div (ScaleUnit * Base) \in Int
    BY <2>1, Constants, Quotient
  <2> QED BY <2>2, Constants DEF OverWhole, R
<1> HIDE DEF n, d, R
<1>4. R \in Nat
  <2>1. n * Base \in Nat
    BY <1>1, Constants, ProductNat
  <2> QED BY <1>1, <2>1, NearestIs
<1>5. m \in Nat /\ R = m * Base
  BY <1>2, <1>4, Constants, Divides, QuotientNat
<1> HIDE DEF m, limit
<1>6. Nearest(n, d) = m /\ 2 * (Abs(n - m * d) * Base) <= d
  <2>1. Base \in Nat /\ Base > 1
    BY Constants
  <2>2. Nearest(n * Base, d) = m * Base
    BY <1>1, <1>5
  <2> QED BY <1>1, <1>5, <2>1, <2>2, NearestShorter
<1>7. m < limit
  <2>1. R < WholeUnit * (ScaleUnit * Base)
    BY <1>3, <1>4, Constants, QuotientBelow
  <2>2. m * Base < limit * Base
    BY <1>5, <2>1, Constants DEF limit
  <2> QED BY <1>1, <1>5, <2>2, Constants, Cancel
<1> QED BY <1>1, <1>5, <1>6, <1>7 DEF n, d, limit

----------------------------------------------------------------------------
(* The encode.                                                             *)

\* What it returns for v under handling.
Outcome ==
  IF v = Null THEN [NoResult EXCEPT !.kind = "null"]
  ELSE IF validateNumeric(v) # "" THEN [NoResult EXCEPT !.kind = "err", !.err = validateNumeric(v)]
  ELSE [NoResult EXCEPT !.kind = "ok", !.neg = v.num < 0, !.units = NumericString(v)]

IInv == v \in Rats \cup {Null} /\ handling \in Handlings /\ ret \in {NoResult, Outcome}

LEMMA Invariant == Spec => []IInv
<1>1. Init => IInv
  BY DEF Init, IInv
<1>2. IInv /\ [Next]_vars => IInv'
  BY DEF IInv, Next, EncodeNumeric, Outcome, vars, validateNumeric, numericRounding
<1> QED BY <1>1, <1>2, PTL DEF Spec

\* A value callers have is no NULL; a NULL has no digits.
LEMMA Values ==
  ASSUME IInv
  PROVE  /\ v # Null => v \in Rats /\ v.num \in Int /\ v.den \in Nat \ {0}
         /\ v = Null => v.num = 0 /\ v.den = 0
BY NumericAssumption DEF IInv, Null

LEMMA OutcomeOf ==
  ASSUME IInv, ret # NoResult, v # Null
  PROVE  /\ validateNumeric(v) # "" => ret.kind = "err" /\ ret.units = 0 /\ ret.neg = FALSE
                                      /\ ret.err = validateNumeric(v)
         /\ validateNumeric(v) = "" =>
              ret.kind = "ok" /\ ret.neg = (v.num < 0) /\ ret.units = NumericString(v)
BY DEF IInv, Outcome, NoResult

\* A NUMERIC is refused only under NumericError and with its sentinel, and a
\* result is a NULL exactly when the value is.
THEOREM TypeCorrectness == Spec => []TypeOK
<1>1. IInv => TypeOK
  <2> SUFFICES ASSUME IInv PROVE TypeOK
    OBVIOUS
  <2>1. v.num \in Int /\ v.den \in Nat /\ handling \in Handlings
    BY Values DEF IInv
  <2>2. v # Null => NumericString(v) \in Nat
    <3> SUFFICES ASSUME v # Null PROVE NumericString(v) \in Nat
      OBVIOUS
    <3>1. v \in Rats
      BY Values
    <3> QED BY <3>1, BothRenderings, NearestIs
  <2>3. CASE ret = NoResult
    BY <2>1, <2>3 DEF TypeOK, NoResult
  <2>4. CASE ret # NoResult /\ v = Null
    <3>1. ret = [kind |-> "null", err |-> "", neg |-> FALSE, units |-> 0]
      BY <2>4 DEF IInv, Outcome, NoResult
    <3> QED BY <2>1, <2>4, <3>1 DEF TypeOK
  <2>5. CASE ret # NoResult /\ v # Null
    <3>1. ret.kind \in {"ok", "err"} /\ ret.units \in Nat /\ ret.neg \in BOOLEAN
      <4>1. CASE validateNumeric(v) = ""
        <5>1. ret.kind = "ok" /\ ret.neg = (v.num < 0) /\ ret.units = NumericString(v)
          BY <2>5, <4>1, OutcomeOf
        <5>2. (v.num < 0) \in BOOLEAN
          OBVIOUS
        <5>3. ret.neg \in BOOLEAN
          BY <5>1, <5>2, Zenon
        <5> QED BY <2>2, <2>5, <5>1, <5>3
      <4>2. CASE validateNumeric(v) # ""
        <5>1. ret.kind = "err" /\ ret.units = 0 /\ ret.neg = FALSE
          BY <2>5, <4>2, OutcomeOf
        <5>2. ret.neg \in BOOLEAN
          BY <5>1, Zenon
        <5>3. ret.units \in Nat
          BY <5>1
        <5> QED BY <5>1, <5>2, <5>3, Zenon
      <4> QED BY <4>1, <4>2
    <3>2. ret.kind = "err" => handling = "NumericError" /\ ret.err = "ErrNumericOutOfRange"
      <4> SUFFICES ASSUME ret.kind = "err"
                   PROVE  handling = "NumericError" /\ ret.err = "ErrNumericOutOfRange"
        OBVIOUS
      <4>1. validateNumeric(v) # "" /\ ret.err = validateNumeric(v)
        BY <2>5, OutcomeOf
      <4> QED BY <4>1 DEF validateNumeric, numericRounding
    <3> QED BY <2>1, <2>5, <3>1, <3>2 DEF TypeOK
  <2> QED BY <2>3, <2>4, <2>5
<1> QED BY <1>1, Invariant, PTL

\* Every value that Spanner can represent is accepted under any handling,
\* and written exactly, for every precision, scale and value.
THEOREM Exactness == Spec => []RepresentableIsExact
<1>1. IInv => RepresentableIsExact
  <2> SUFFICES ASSUME IInv, ret # NoResult, v # Null, Representable(v)
               PROVE  /\ ret.kind = "ok" /\ (ret.neg <=> v.num < 0)
                      /\ ret.units * v.den = Abs(v.num) * ScaleUnit
    BY DEF RepresentableIsExact
  <2>1. /\ ~OverScale(v) /\ ~OverWhole(v)
        /\ NumericString(v) * v.den = Abs(v.num) * ScaleUnit
    BY Values, RepresentableAccepted
  <2>2. validateNumeric(v) = ""
    BY <2>1 DEF validateNumeric
  <2> QED BY <2>1, <2>2, OutcomeOf
<1> QED BY <1>1, Invariant, PTL

\* What NumericError accepts is written with digits Spanner has, off by at
\* most half a digit beyond the scale.
THEOREM Acceptance == Spec => []AcceptedFits
<1>1. IInv => AcceptedFits
  <2> SUFFICES ASSUME IInv, ret.kind = "ok", handling = "NumericError"
               PROVE  /\ ret.units < WholeUnit * ScaleUnit
                      /\ 2 * Abs(Abs(v.num) * ScaleUnit - ret.units * v.den) * Base <= v.den
    BY DEF AcceptedFits
  <2>1. ret # NoResult /\ v # Null
    <3>1. ret # NoResult
      <4>1. NoResult.kind = "none"
        BY DEF NoResult
      <4> QED BY <4>1
    <3>2. ASSUME v = Null PROVE FALSE
      <4>1. ret = [NoResult EXCEPT !.kind = "null"]
        BY <3>1, <3>2 DEF IInv, Outcome
      <4> QED BY <4>1 DEF NoResult
    <3> QED BY <3>1, <3>2
  <2>2. validateNumeric(v) = ""
    BY <2>1, OutcomeOf
  <2>3. v \in Rats /\ ~OverScale(v) /\ ~OverWhole(v) /\ ret.units = NumericString(v)
    BY <2>1, <2>2, Values, OutcomeOf DEF validateNumeric, numericRounding
  <2> DEFINE x == Abs(Abs(v.num) * ScaleUnit - ret.units * v.den)
  <2>4. ret.units \in Nat /\ ret.units < WholeUnit * ScaleUnit /\ 2 * (x * Base) <= v.den
    BY <2>3, AcceptedWritten
  <2>5. x \in Int
    BY <2>3, <2>4, BothRenderings, Product DEF Abs
  <2> HIDE DEF x
  <2>6. 2 * x * Base = 2 * (x * Base)
    BY <2>5, Constants, Doubled
  <2> QED BY <2>4, <2>6 DEF x
<1> QED BY <1>1, Invariant, PTL
=============================================================================
