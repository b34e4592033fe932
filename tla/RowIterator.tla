---------------------------- MODULE RowIterator ----------------------------
(***************************************************************************)
(* The iterator Rows returns.  It captures a slice of items and one of     *)
(* options, both by reference; each range over it keeps its own place,     *)
(* reads one item at a time, and runs Row on it column by column before it *)
(* yields to its consumer.  Several consumers range over one iterator: in  *)
(* goroutines, in nested loops, or through iter.Pull.  Its caller writes   *)
(* to items and options, between the rows of a range or of several, but    *)
(* not while one reads them (that would be a data race of its own).        *)
(***************************************************************************)
EXTENDS Naturals, Sequences

CONSTANTS
  Consumers, Options, Columns, Encode,
  MaxItems    \* the longest slice the caller makes

Items == DOMAIN Encode

ASSUME RowIteratorAssumption ==
  /\ Columns \in Nat /\ MaxItems \in Nat
  /\ \A i \in Items : Encode[i] \in [Options -> [0..Columns -> {"ok", "err", "panic"}]]

VARIABLES
  captured,  \* the array behind the captured slice
  opts,      \* the captured options
  mine,      \* the caller's slice: [own, items], own once append moved it
  range,     \* each consumer's range: [pc, pos, item, col, vals, row, more]
  out        \* what each range has yielded

vars == <<captured, opts, mine, range, out>>

NoRow   == [kind |-> "none", at |-> 0, vals |-> <<>>]
NoRange == [pc |-> "idle", pos |-> 1, item |-> "none", col |-> 0, vals |-> <<>>,
            row |-> NoRow, more |-> TRUE]

\* Rows(mine, opts...) has just been called.
Init ==
  /\ captured \in UNION {[1..n -> Items] : n \in 0..MaxItems} /\ opts \in Options
  /\ mine = [own |-> FALSE, items |-> captured]
  /\ range = [c \in Consumers |-> NoRange] /\ out = [c \in Consumers |-> <<>>]

----------------------------------------------------------------------------
(* The caller.                                                             *)

Reading(c) == range[c].pc \in {"item", "column"}
Quiet == \A c \in Consumers : ~Reading(c)

\* It replaces an item in its slice, which may have moved away by then.
WriteItem ==
  /\ Quiet
  /\ \E n \in 1..Len(mine.items), i \in Items :
       /\ mine' = [mine EXCEPT !.items[n] = i]
       /\ captured' = IF mine.own THEN captured ELSE [captured EXCEPT ![n] = i]
  /\ UNCHANGED <<opts, range, out>>

\* It cuts its slice short.
Reslice ==
  /\ Quiet /\ mine.items # <<>>
  /\ mine' = [mine EXCEPT !.items = SubSeq(@, 1, Len(@) - 1)]
  /\ UNCHANGED <<captured, opts, range, out>>

\* It appends: in place where the array has room, else to an array of its own.
AppendItem ==
  /\ Quiet /\ Len(mine.items) < MaxItems
  /\ \E i \in Items :
       LET n    == Len(mine.items) + 1
           room == ~mine.own /\ n <= Len(captured)
       IN  /\ mine' = [own |-> ~room, items |-> Append(mine.items, i)]
           /\ captured' = IF room THEN [captured EXCEPT ![n] = i] ELSE captured
  /\ UNCHANGED <<opts, range, out>>

ChangeOptions ==
  /\ Quiet /\ \E o \in Options : opts' = o
  /\ UNCHANGED <<captured, mine, range, out>>

----------------------------------------------------------------------------
(* A range.                                                                *)

To(c, r)  == range' = [range EXCEPT ![c] = r] /\ UNCHANGED <<captured, opts, mine>>
Stay(c, r) == To(c, r) /\ UNCHANGED out

\* Mutation: the position is kept by the iterator, not by the range.
Resumed(c) == [NoRange EXCEPT !.pc = "next", !.pos = Len(out[c]) + 1]
Started(c) == [NoRange EXCEPT !.pc = "next"]
StartRange(c) ==
  /\ range[c].pc \in {"idle", "panicked"}
  /\ To(c, Started(c)) /\ out' = [out EXCEPT ![c] = <<>>]

\* The items ranged over: what the captured slice holds now.
Ranged(c) == captured

TakeItem(c) ==
  /\ range[c].pc = "next" /\ range[c].pos <= Len(Ranged(c))
  /\ Stay(c, [range[c] EXCEPT !.pc = "item", !.item = Ranged(c)[range[c].pos]])
Exhausted(c) ==
  /\ range[c].pc = "next" /\ range[c].pos > Len(Ranged(c))
  /\ Stay(c, NoRange)

\* Row returns to the range, which yields what it returned.
Yield(c, row) ==
  /\ To(c, [range[c] EXCEPT !.pc = "given", !.row = row, !.vals = <<>>])
  /\ out' = [out EXCEPT ![c] = Append(@, row)]
Row(vals)  == [kind |-> "ok", at |-> 0, vals |-> vals]
Failure(k) == [kind |-> "err", at |-> k, vals |-> <<>>]
Stops(c, k) ==
  IF Encode[range[c].item][opts][k] = "err" THEN Yield(c, Failure(k))
  ELSE Stay(c, [NoRange EXCEPT !.pc = "panicked"])
Encodes(c, k) == Encode[range[c].item][opts][k] = "ok"

\* newEncodeConfig applies the options, and a nil item is refused; mutation:
\* while another consumer holds a row, this one waits.
BeginRowAlone(c) ==
  /\ range[c].pc = "item" /\ \A d \in Consumers \ {c} : range[d].pc # "given"
  /\ IF Encodes(c, 0) THEN Stay(c, [range[c] EXCEPT !.pc = "column", !.col = 1])
     ELSE Stops(c, 0)
BeginRow(c) ==
  /\ range[c].pc = "item"
  /\ IF Encodes(c, 0) THEN Stay(c, [range[c] EXCEPT !.pc = "column", !.col = 1])
     ELSE Stops(c, 0)

EncodeColumn(c) ==
  LET r == range[c] IN
  /\ r.pc = "column" /\ r.col <= Columns
  /\ IF Encodes(c, r.col)
     THEN Stay(c, [r EXCEPT !.col = @ + 1, !.vals = Append(@, <<r.item, opts, r.col>>)])
     ELSE Stops(c, r.col)
YieldRow(c) ==
  /\ range[c].pc = "column" /\ range[c].col > Columns
  /\ Yield(c, Row(range[c].vals))

\* The consumer's loop body ends, or breaks out of the loop.
BodyDone(c) ==
  /\ range[c].pc = "given"
  /\ \E more \in BOOLEAN : Stay(c, [range[c] EXCEPT !.pc = "resumed", !.more = more])

\* !yield(row, err) || err != nil; mutation: what yield returns is ignored.
StopsOnError(r) == r.row.kind = "err"
StopsHere(r) == ~r.more \/ r.row.kind = "err"
Continue(c) ==
  /\ range[c].pc = "resumed"
  /\ Stay(c, IF StopsHere(range[c]) THEN NoRange
             ELSE [range[c] EXCEPT !.pc = "next", !.pos = @ + 1, !.row = NoRow])

Step(c) == TakeItem(c) \/ Exhausted(c) \/ BeginRow(c) \/ EncodeColumn(c) \/ YieldRow(c) \/ Continue(c)
Caller  == WriteItem \/ AppendItem \/ Reslice \/ ChangeOptions
Next    == Caller \/ \E c \in Consumers : StartRange(c) \/ Step(c) \/ BodyDone(c)

\* The iterator runs until it yields or returns; a loop body need not end.
Spec == Init /\ [][Next]_vars /\ \A c \in Consumers : WF_vars(Step(c))

----------------------------------------------------------------------------
(* What a range is to its consumer.                                        *)

PhaseOf(r) ==
  IF r.pc \in {"next", "item", "column"} THEN "asking"
  ELSE IF r.pc # "resumed" THEN r.pc
  ELSE IF r.more THEN "more" ELSE "break"
phase == [c \in Consumers |-> PhaseOf(range[c])]

Stream == INSTANCE RowStream WITH source <- captured

\* A range is at a place of its iterator, with the values of the columns it
\* has encoded, and has yielded one row for each item it is done with.
TypeOK ==
  /\ captured \in UNION {[1..n -> Items] : n \in 0..MaxItems} /\ opts \in Options
  /\ ~mine.own => mine.items = SubSeq(captured, 1, Len(mine.items))
  /\ \A c \in Consumers :
       LET r == range[c] IN
       /\ r.pc \in {"idle", "next", "item", "column", "given", "resumed", "panicked"}
       /\ Reading(c) => r.item \in Items
       /\ r.pc \in {"next", "item", "column"} => Len(out[c]) = r.pos - 1
       /\ r.pc \in {"given", "resumed"} => Len(out[c]) = r.pos /\ r.row = out[c][r.pos]
       /\ r.pc = "column" => r.col \in 1..(Columns + 1) /\ Len(r.vals) = r.col - 1

\* Ranging over Rows is ranging over the stream it promises: items in order,
\* each row the whole item as it was when it was asked for, one failure at
\* most and last, nothing after a break and no end before the last item for
\* who asks for more, whatever the caller does to its slices and the other
\* consumers to their ranges (rowencoder.go:188-194).
FollowsStream == Stream!Safety

\* And it answers: who asks is given a row, a failure, a panic or the end, and
\* the range of who breaks or has been given a failure ends (a consumer of
\* iter.Pull that has it asks for more), even while others hold rows for ever.
AnswersAsStream == Stream!Spec
=============================================================================
