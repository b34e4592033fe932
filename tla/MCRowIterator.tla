--------------------------- MODULE MCRowIterator ---------------------------
(***************************************************************************)
(* An instance of RowIterator for TLC: an item that encodes, and one that  *)
(* fails under the first option and panics under the second.               *)
(***************************************************************************)
EXTENDS RowIterator

Outcomes ==
  LET Of(option, item) == [k \in 0..1 |->
        IF item = "good" THEN "ok"
        ELSE IF option = "strict" THEN (IF k = 1 THEN "err" ELSE "ok")
        ELSE (IF k = 0 THEN "panic" ELSE "ok")]
      table == [i \in {"good", "bad"} |-> [o \in {"strict", "broken"} |-> Of(o, i)]]
  IN  table
=============================================================================
