----------------------------- MODULE MCNumeric -----------------------------
(***************************************************************************)
(* An instance of Numeric for TLC: one digit on each side of the point.    *)
(***************************************************************************)
EXTENDS Numeric

\* Multiples of 1/den up to past the largest value of the precision: exact
\* to one, two or three digits, binary fractions, and recurring decimals.
Multiples ==
  LET rats == {[num |-> n, den |-> d] : n \in -1250..1250, d \in {10, 100}}
                \cup {[num |-> n, den |-> d] : n \in -120..120, d \in {1, 3, 7, 8, 40, 80}}
                \cup {[num |-> n, den |-> 1000] : n \in -60..60 \cup 9900..10100 \cup -10100..-9900}
                \cup {[num |-> n, den |-> 2000] : n \in -120..120 \cup 19800..20200}
  IN  rats
Thirds == {[num |-> n, den |-> d] : n \in -50..50, d \in {3, 10, 1000}}
=============================================================================
