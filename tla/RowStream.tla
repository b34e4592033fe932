----------------------------- MODULE RowStream -----------------------------
(***************************************************************************)
(* What RowEncoder.Rows promises those who range over it, rowencoder.go    *)
(* 188-194.  Item by item, in order, each consumer is given the row of the *)
(* item as it is when it asks, under the options as they are then; the     *)
(* first failure is given once, in place of a row, and ends the range.     *)
(* What it is given a consumer looks at, and then asks for more or breaks: *)
(* who asks goes on, who breaks is given nothing more.  Ranges do not      *)
(* interfere.                                                              *)
(***************************************************************************)
EXTENDS Naturals, Sequences

CONSTANTS
  Consumers,
  Options,    \* the encode options a caller may pass
  Columns,    \* how many columns the encoder has
  Encode      \* Encode[i][o][k]: what encodeValue does with column k of item
              \* i under options o: "ok", "err" or "panic"

Items == DOMAIN Encode

VARIABLES
  source,   \* the items ranged over, as they are now
  opts,     \* the options, as they are now
  out,      \* what each consumer's range has given it
  phase     \* "idle", "asking", "given", "more", "break" or "panicked"

vars == <<source, opts, out, phase>>

\* A row, told by what its columns hold; the failure of column k.  Column 0
\* stands for what is checked before the columns: the options and the item.
Row(i, o) == [kind |-> "ok", at |-> 0, vals |-> [k \in 1..Columns |-> <<i, o, k>>]]
Failure(k) == [kind |-> "err", at |-> k, vals |-> <<>>]

Passes(i, o, n) == \A k \in 0..n : Encode[i][o][k] = "ok"
StopsAt(i, o, k, how) == Encode[i][o][k] = how /\ \A j \in 0..Columns : j < k => Encode[i][o][j] = "ok"

Init ==
  /\ source \in Seq(Items) /\ opts \in Options
  /\ out = [c \in Consumers |-> <<>>] /\ phase = [c \in Consumers |-> "idle"]

Range(c) ==
  /\ phase[c] \in {"idle", "panicked"}
  /\ phase' = [phase EXCEPT ![c] = "asking"] /\ out' = [out EXCEPT ![c] = <<>>]
  /\ UNCHANGED <<source, opts>>

Give(c, r) ==
  /\ out' = [out EXCEPT ![c] = Append(@, r)] /\ phase' = [phase EXCEPT ![c] = "given"]
  /\ UNCHANGED <<source, opts>>

Asked(c) == phase[c] = "asking" /\ Len(out[c]) < Len(source)
next(c)  == source[Len(out[c]) + 1]

GiveRow(c) == Asked(c) /\ Passes(next(c), opts, Columns) /\ Give(c, Row(next(c), opts))
GiveFailure(c) ==
  /\ Asked(c)
  /\ \E k \in 0..Columns : StopsAt(next(c), opts, k, "err") /\ Give(c, Failure(k))
Panic(c) ==
  /\ Asked(c) /\ \E k \in 0..Columns : StopsAt(next(c), opts, k, "panic")
  /\ phase' = [phase EXCEPT ![c] = "panicked"] /\ UNCHANGED <<source, opts, out>>

\* The range is over: nothing is left.
End(c) ==
  /\ phase[c] = "asking" /\ Len(out[c]) = Len(source)
  /\ phase' = [phase EXCEPT ![c] = "idle"] /\ UNCHANGED <<source, opts, out>>

\* The consumer's loop body ends, asking for more, or breaks.
Decide(c) ==
  /\ phase[c] = "given"
  /\ \E p \in {"more", "break"} : phase' = [phase EXCEPT ![c] = p]
  /\ UNCHANGED <<source, opts, out>>

Failed(c) == out[c][Len(out[c])].kind # "ok"

\* Who asks for more after a row goes on; who breaks, or has been given a
\* failure, is done.
GoOn(c) ==
  /\ phase[c] = "more" /\ ~Failed(c)
  /\ phase' = [phase EXCEPT ![c] = "asking"] /\ UNCHANGED <<source, opts, out>>
Leave(c) ==
  /\ phase[c] = "break" \/ (phase[c] = "more" /\ Failed(c))
  /\ phase' = [phase EXCEPT ![c] = "idle"] /\ UNCHANGED <<source, opts, out>>

\* The caller writes to its items or options.
Change ==
  /\ source' \in Seq(Items) /\ Len(source') = Len(source) /\ opts' \in Options
  /\ UNCHANGED <<out, phase>>

Answer(c) == GiveRow(c) \/ GiveFailure(c) \/ Panic(c) \/ End(c) \/ GoOn(c) \/ Leave(c)
Next == Change \/ \E c \in Consumers : Range(c) \/ Decide(c) \/ Answer(c)

\* Who asks is answered, and a range that is over ends.
Safety == Init /\ [][Next]_vars
Spec == Safety /\ \A c \in Consumers : WF_vars(Answer(c))
=============================================================================
