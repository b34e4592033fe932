------------------------------ MODULE Numeric ------------------------------
(***************************************************************************)
(* Encoding one NUMERIC: validateNumeric and the wire rendering, in the    *)
(* arithmetic of decimal digits.  A big.Rat is [num, den]; what FloatString*)
(* renders is the sign and a whole number of units of its last digit.      *)
(***************************************************************************)
EXTENDS Integers

CONSTANTS
  Base,       \* 10
  ScaleUnit,  \* Base ^ NumericScaleDigits
  WholeUnit,  \* Base ^ (NumericPrecisionDigits - NumericScaleDigits)
  Rats        \* the values callers have

ASSUME NumericAssumption ==
  /\ Base \in Nat /\ Base > 1 /\ ScaleUnit \in Nat \ {0} /\ WholeUnit \in Nat \ {0}
  /\ \A r \in Rats : r.num \in Int /\ r.den \in Nat \ {0}

VARIABLES
  v,         \* a big.Rat, or Null: a nil pointer or an invalid NullNumeric
  handling,  \* the cfg's lossOfPrecisionHandling
  ret        \* [kind, err, neg, units]: the wire value in units of the scale

vars == <<v, handling, ret>>

Null     == [num |-> 0, den |-> 0]
NoResult == [kind |-> "none", err |-> "", neg |-> FALSE, units |-> 0]
Handlings == {"NumericError", "NumericRound", "unknown"}

Init == v \in Rats \cup {Null} /\ handling \in Handlings /\ ret = NoResult

Abs(n) == IF n < 0 THEN -n ELSE n

\* Rat.FloatString to digits of 1/unit, the last one rounded to nearest and
\* halves away from zero.
FloatString(r, unit) == (2 * Abs(r.num) * unit + r.den) \div (2 * r.den)
\* gcvctor.NumericValue; mutation: rounded towards positive infinity.
SignedString(r)  == (2 * r.num * ScaleUnit + r.den) \div (2 * r.den)
NumericString(r) == FloatString(r, ScaleUnit)

\* Rendered with one digit more than the scale; mutation: without it.
RenderedToScale(r) == FloatString(r, ScaleUnit) * Base
Rendered(r) == FloatString(r, ScaleUnit * Base)

\* A digit is left beyond the scale once trailing zeros are trimmed.
OverScale(r) == Rendered(r) % Base # 0

\* More digits than WholeUnit has zeros; mutation: the sign counts as one.
OverWholeWithSign(r) ==
  (Rendered(r) \div (ScaleUnit * Base)) * (IF r.num < 0 THEN Base ELSE 1) >= WholeUnit
OverWhole(r) == Rendered(r) \div (ScaleUnit * Base) >= WholeUnit

numericRounding == handling # "NumericError"
validateNumeric(r) ==
  IF numericRounding \/ r = Null THEN ""
  ELSE IF OverScale(r) \/ OverWhole(r) THEN "ErrNumericOutOfRange" ELSE ""

\* encodeNumeric and encodeNullNumeric.
EncodeNumeric ==
  /\ ret = NoResult
  /\ ret' = IF v = Null THEN [NoResult EXCEPT !.kind = "null"]
            ELSE IF validateNumeric(v) # "" THEN [NoResult EXCEPT !.kind = "err", !.err = validateNumeric(v)]
            ELSE [NoResult EXCEPT !.kind = "ok", !.neg = v.num < 0, !.units = NumericString(v)]
  /\ UNCHANGED <<v, handling>>

Next == EncodeNumeric
Spec == Init /\ [][Next]_vars

----------------------------------------------------------------------------
(* Against what Spanner can represent: whole numbers of units of the scale *)
(* with no more whole digits than the precision leaves.                    *)

Representable(r) ==
  /\ (Abs(r.num) * ScaleUnit) % r.den = 0
  /\ Abs(r.num) < WholeUnit * r.den

\* A NUMERIC is refused only under NumericError and only with its sentinel;
\* a result is a NULL exactly when the value is.
TypeOK ==
  /\ v.num \in Int /\ v.den \in Nat /\ handling \in Handlings
  /\ ret.kind \in {"none", "null", "ok", "err"} /\ ret.units \in Nat /\ ret.neg \in BOOLEAN
  /\ ret # NoResult => (ret.kind = "null" <=> v = Null)
  /\ ret.kind = "err" => handling = "NumericError" /\ ret.err = "ErrNumericOutOfRange"

\* Every value that Spanner can represent is accepted, of either sign and up
\* to the last digit of the precision, and written exactly.
RepresentableIsExact ==
  ret # NoResult /\ v # Null /\ Representable(v) =>
    /\ ret.kind = "ok" /\ (ret.neg <=> v.num < 0)
    /\ ret.units * v.den = Abs(v.num) * ScaleUnit

\* What NumericError accepts is written with digits Spanner has, off by at
\* most half a digit beyond the scale.
AcceptedFits ==
  ret.kind = "ok" /\ handling = "NumericError" =>
    /\ ret.units < WholeUnit * ScaleUnit
    /\ 2 * Abs(Abs(v.num) * ScaleUnit - ret.units * v.den) * Base <= v.den

\* options.go:44: NumericError "validates precision and scale, returning
\* ErrNumericOutOfRange for values Spanner cannot represent exactly".
InexactRefused ==
  ret # NoResult /\ v # Null /\ handling = "NumericError" /\ ~Representable(v) => ret.kind = "err"
=============================================================================
