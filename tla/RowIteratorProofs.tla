------------------------- MODULE RowIteratorProofs -------------------------
(***************************************************************************)
(* Rows implements the stream it promises, for every slice and options,    *)
(* any number of columns and consumers, and every outcome of the encodes.  *)
(*                                                                         *)
(* The refinement needs to know more of a range than its control state:    *)
(* that the item it holds is still the one in its place, that the columns  *)
(* before its own have encoded under the options in force, and that the    *)
(* rows it has yielded count its place.  That is the invariant below.      *)
(***************************************************************************)
EXTENDS RowIterator, TLAPS

Cells   == Items \X Options \X Nat
RowsOut == [kind : {"ok", "err"}, at : Nat, vals : Seq(Cells)]
Ranges  == [pc : {"idle", "next", "item", "column", "given", "resumed", "panicked"},
            pos : Nat \ {0}, item : Items \cup {"none"}, col : Nat, vals : Seq(Cells),
            row : RowsOut \cup {NoRow}, more : BOOLEAN]

\* The cells of the first n columns of item i.
CellsOf(i, n) == [k \in 1..n |-> <<i, opts, k>>]

Places(r, o) ==
  /\ r.pc \in {"next", "item", "column"} => Len(o) = r.pos - 1 /\ r.pos <= Len(captured) + 1
  /\ r.pc \in {"item", "column"} => r.pos <= Len(captured) /\ r.item = captured[r.pos]
  /\ r.pc \in {"given", "resumed"} =>
       Len(o) = r.pos /\ r.pos <= Len(captured) /\ r.row = o[r.pos]
Fills(r) ==
  IF r.pc = "column"
  THEN /\ r.col \in 1..(Columns + 1)
       /\ \A k \in 0..(r.col - 1) : Encode[r.item][opts][k] = "ok"
       /\ r.vals = CellsOf(r.item, r.col - 1)
  ELSE r.vals = <<>>

Arrays == UNION {[1..n -> Items] : n \in 0..MaxItems}
Typed ==
  /\ captured \in Arrays /\ opts \in Options
  /\ mine \in [own : BOOLEAN, items : Seq(Items)]
  /\ range \in [Consumers -> Ranges] /\ out \in [Consumers -> Seq(RowsOut)]
\* Until append has moved it, the caller's slice is a prefix of the array.
Shares == ~mine.own =>
  /\ Len(mine.items) <= Len(captured)
  /\ \A n \in 1..Len(mine.items) : mine.items[n] = captured[n]

IInv == Typed /\ Shares /\ \A c \in Consumers : Places(range[c], out[c]) /\ Fills(range[c])

----------------------------------------------------------------------------
(* Facts about sequences.                                                  *)

\* The array behind a slice is a sequence of items.
LEMMA ArrayIsSeq ==
  ASSUME NEW a \in Arrays
  PROVE  a \in Seq(Items) /\ Len(a) \in 0..MaxItems /\ a \in [1..Len(a) -> Items]
<1>1. PICK n \in 0..MaxItems : a \in [1..n -> Items]
  BY DEF Arrays
<1> QED BY <1>1, RowIteratorAssumption

\* Writing to a place of an array leaves an array of the same length.
LEMMA Written ==
  ASSUME NEW a \in Arrays, NEW n \in 1..Len(a), NEW i \in Items
  PROVE  /\ [a EXCEPT ![n] = i] \in Arrays /\ Len([a EXCEPT ![n] = i]) = Len(a)
         /\ \A m \in 1..Len(a) : [a EXCEPT ![n] = i][m] = IF m = n THEN i ELSE a[m]
<1>1. a \in [1..Len(a) -> Items] /\ Len(a) \in 0..MaxItems
  BY ArrayIsSeq
<1>2. [a EXCEPT ![n] = i] \in [1..Len(a) -> Items]
  BY <1>1
<1>3. [a EXCEPT ![n] = i] \in Arrays
  BY <1>1, <1>2 DEF Arrays
<1>4. Len([a EXCEPT ![n] = i]) = Len(a)
  BY <1>1, <1>2
<1> QED BY <1>1, <1>3, <1>4

\* No cells.
LEMMA NoCells == ASSUME NEW i PROVE CellsOf(i, 0) = <<>>
BY DEF CellsOf

\* One more cell.
LEMMA OneMoreCell ==
  ASSUME NEW i \in Items, opts \in Options, NEW n \in Nat
  PROVE  /\ CellsOf(i, n) \in Seq(Cells) /\ Len(CellsOf(i, n)) = n
         /\ Append(CellsOf(i, n), <<i, opts, n + 1>>) = CellsOf(i, n + 1)
<1>1. CellsOf(i, n) \in Seq(Cells) /\ Len(CellsOf(i, n)) = n
  BY DEF CellsOf, Cells
<1>2. CellsOf(i, n + 1) \in Seq(Cells) /\ Len(CellsOf(i, n + 1)) = n + 1
  BY DEF CellsOf, Cells
<1>3. <<i, opts, n + 1>> \in Cells
  BY DEF Cells
<1>4. Append(CellsOf(i, n), <<i, opts, n + 1>>) \in Seq(Cells)
      /\ Len(Append(CellsOf(i, n), <<i, opts, n + 1>>)) = n + 1
  BY <1>1, <1>3
<1>5. ASSUME NEW k \in 1..(n + 1)
      PROVE  Append(CellsOf(i, n), <<i, opts, n + 1>>)[k] = CellsOf(i, n + 1)[k]
  BY <1>1, <1>3 DEF CellsOf
<1> QED BY <1>2, <1>4, <1>5

----------------------------------------------------------------------------
(* The invariant.                                                          *)

\* A range that moved on leaves everything else as it was.
LEMMA OneRangeMoves ==
  ASSUME IInv, NEW c \in Consumers, NEW r \in Ranges, NEW o \in Seq(RowsOut),
         To(c, r), out' = [out EXCEPT ![c] = o], Places(r, o), Fills(r)
  PROVE  IInv'
<1>1. captured' = captured /\ opts' = opts /\ mine' = mine /\ range' = [range EXCEPT ![c] = r]
  BY DEF To
<1>2. Typed'
  BY <1>1 DEF IInv, Typed
<1>3. Shares'
  BY <1>1 DEF IInv, Shares
<1>4. ASSUME NEW d \in Consumers PROVE Places(range[d], out[d])' /\ Fills(range[d])'
  <2>1. CASE d = c
    <3>1. range'[d] = r /\ out'[d] = o
      BY <1>1, <2>1 DEF IInv, Typed
    <3> QED BY <1>1, <3>1 DEF Places, Fills, CellsOf
  <2>2. CASE d # c
    <3>1. range'[d] = range[d] /\ out'[d] = out[d]
      BY <1>1, <2>2 DEF IInv, Typed
    <3>2. Places(range[d], out[d]) /\ Fills(range[d])
      BY DEF IInv
    <3> QED BY <1>1, <3>1, <3>2 DEF Places, Fills, CellsOf
  <2> QED BY <2>1, <2>2
<1> QED BY <1>2, <1>3, <1>4 DEF IInv

\* A range that moved on without yielding.
LEMMA OneRangeStays ==
  ASSUME IInv, NEW c \in Consumers, NEW r \in Ranges,
         Stay(c, r), Places(r, out[c]), Fills(r)
  PROVE  IInv'
<1>1. out[c] \in Seq(RowsOut) /\ out' = [out EXCEPT ![c] = out[c]]
  BY DEF IInv, Typed, Stay
<1> QED BY <1>1, OneRangeMoves DEF Stay

LEMMA NoRangeTyped ==
  /\ NoRange \in Ranges
  /\ NoRange.pc = "idle" /\ NoRange.pos = 1 /\ NoRange.vals = <<>>
BY DEF NoRange, NoRow, Ranges, RowsOut

\* A range of the iterator, and what is known of it.
LEMMA RangeTyped ==
  ASSUME IInv, NEW c \in Consumers
  PROVE  /\ range[c] \in Ranges /\ out[c] \in Seq(RowsOut) /\ Places(range[c], out[c])
         /\ Fills(range[c]) /\ captured \in Seq(Items) /\ opts \in Options
BY ArrayIsSeq DEF IInv, Typed

----------------------------------------------------------------------------
(* The caller's steps.                                                     *)

\* Ranges that are not reading only depend on how many items there are.
LEMMA QuietKeeps ==
  ASSUME IInv, Quiet, UNCHANGED <<range, out>>, captured' \in Arrays, opts' \in Options,
         Len(captured') = Len(captured)
  PROVE  \A c \in Consumers : (Places(range[c], out[c]) /\ Fills(range[c]))'
<1> SUFFICES ASSUME NEW c \in Consumers
             PROVE  (Places(range[c], out[c]) /\ Fills(range[c]))'
  OBVIOUS
<1>1. range[c].pc \notin {"item", "column"}
  BY DEF Quiet, Reading
<1> QED BY <1>1, RangeTyped DEF Places, Fills

LEMMA WriteItemKeeps == IInv /\ WriteItem => IInv'
<1> SUFFICES ASSUME IInv, WriteItem PROVE IInv'
  OBVIOUS
<1>1. PICK n \in 1..Len(mine.items), i \in Items :
        /\ mine' = [mine EXCEPT !.items[n] = i]
        /\ captured' = IF mine.own THEN captured ELSE [captured EXCEPT ![n] = i]
  BY DEF WriteItem
<1>2. mine.items \in Seq(Items) /\ mine.own \in BOOLEAN /\ captured \in Arrays
  BY DEF IInv, Typed
<1>3. mine'.own = mine.own /\ mine'.items = [mine.items EXCEPT ![n] = i]
  BY <1>1 DEF IInv, Typed
<1>4. mine' \in [own : BOOLEAN, items : Seq(Items)]
  <2>1. [mine.items EXCEPT ![n] = i] \in Seq(Items)
    BY <1>2
  <2>2. mine' = [own |-> mine.own, items |-> [mine.items EXCEPT ![n] = i]]
    BY <1>1 DEF IInv, Typed
  <2> QED BY <1>2, <2>1, <2>2
<1>5. captured' \in Arrays /\ Len(captured') = Len(captured)
  <2>1. CASE mine.own
    BY <1>1, <1>2, <2>1
  <2>2. CASE ~mine.own
    <3>1. n \in 1..Len(captured)
      BY <1>2, <2>2, ArrayIsSeq DEF IInv, Shares
    <3> QED BY <1>1, <1>2, <2>2, <3>1, Written
  <2> QED BY <2>1, <2>2
<1>6. Shares'
  <2> SUFFICES ASSUME ~mine.own
               PROVE  /\ Len(mine'.items) <= Len(captured')
                      /\ \A m \in 1..Len(mine'.items) : mine'.items[m] = captured'[m]
    BY <1>3 DEF Shares
  <2>1. n \in 1..Len(captured) /\ Len(mine.items) <= Len(captured)
    BY <1>2, ArrayIsSeq DEF IInv, Shares
  <2>2. captured' = [captured EXCEPT ![n] = i]
    BY <1>1
  <2>3. Len(mine'.items) = Len(mine.items)
    BY <1>2, <1>3
  <2> QED BY <1>2, <1>3, <1>5, <2>1, <2>2, <2>3, Written, ArrayIsSeq DEF IInv, Shares
<1>7. Quiet /\ UNCHANGED <<opts, range, out>>
  BY DEF WriteItem
<1> QED BY <1>4, <1>5, <1>6, <1>7, QuietKeeps DEF IInv, Typed

LEMMA AppendItemKeeps == IInv /\ AppendItem => IInv'
<1> SUFFICES ASSUME IInv, AppendItem PROVE IInv'
  OBVIOUS
<1> DEFINE n    == Len(mine.items) + 1
           room == ~mine.own /\ n <= Len(captured)
<1>1. PICK i \in Items :
        /\ mine' = [own |-> ~room, items |-> Append(mine.items, i)]
        /\ captured' = IF room THEN [captured EXCEPT ![n] = i] ELSE captured
  BY DEF AppendItem
<1>2. mine.items \in Seq(Items) /\ captured \in Arrays /\ Len(captured) \in Nat
  BY ArrayIsSeq DEF IInv, Typed
<1>3. mine' \in [own : BOOLEAN, items : Seq(Items)]
  BY <1>1, <1>2
<1>4. captured' \in Arrays /\ Len(captured') = Len(captured)
  BY <1>1, <1>2, Written
<1>5. Shares'
  <2> SUFFICES ASSUME room
               PROVE  /\ Len(mine'.items) <= Len(captured')
                      /\ \A m \in 1..Len(mine'.items) : mine'.items[m] = captured'[m]
    BY <1>1 DEF Shares
  <2>1. n \in 1..Len(captured) /\ captured' = [captured EXCEPT ![n] = i]
    BY <1>1, <1>2
  <2>2. mine'.items = Append(mine.items, i) /\ Len(mine'.items) = n
    BY <1>1, <1>2
  <2>3. ASSUME NEW m \in 1..n PROVE mine'.items[m] = captured'[m]
    BY <1>2, <2>1, <2>2, Written DEF IInv, Shares
  <2> QED BY <1>4, <2>1, <2>2, <2>3
<1>6. Quiet /\ UNCHANGED <<opts, range, out>>
  BY DEF AppendItem
<1> QED BY <1>3, <1>4, <1>5, <1>6, QuietKeeps DEF IInv, Typed

LEMMA ResliceKeeps == IInv /\ Reslice => IInv'
<1> SUFFICES ASSUME IInv, Reslice PROVE IInv'
  OBVIOUS
<1> DEFINE s == SubSeq(mine.items, 1, Len(mine.items) - 1)
<1>1. mine.items \in Seq(Items) /\ Len(mine.items) \in Nat \ {0}
  BY DEF IInv, Typed, Reslice
<1>2. s \in Seq(Items) /\ Len(s) = Len(mine.items) - 1
      /\ \A m \in 1..Len(s) : s[m] = mine.items[m]
  BY <1>1
<1>3. mine' = [mine EXCEPT !.items = s] /\ UNCHANGED <<captured, opts, range, out>> /\ Quiet
  BY DEF Reslice
<1> HIDE DEF s
<1>4. mine' \in [own : BOOLEAN, items : Seq(Items)] /\ mine'.items = s /\ mine'.own = mine.own
  BY <1>2, <1>3 DEF IInv, Typed
<1>5. Len(captured) \in Nat
  BY ArrayIsSeq DEF IInv, Typed
<1>6. Shares'
  BY <1>1, <1>2, <1>3, <1>4, <1>5 DEF IInv, Shares
<1> QED BY <1>3, <1>4, <1>6, QuietKeeps DEF IInv, Typed

LEMMA ChangeOptionsKeeps == IInv /\ ChangeOptions => IInv'
<1> SUFFICES ASSUME IInv, ChangeOptions PROVE IInv'
  OBVIOUS
<1>1. opts' \in Options /\ UNCHANGED <<captured, mine, range, out>> /\ Quiet
  BY DEF ChangeOptions
<1> QED BY <1>1, QuietKeeps DEF IInv, Typed, Shares

----------------------------------------------------------------------------
(* The steps of a range.                                                   *)

LEMMA StartRangeKeeps == ASSUME IInv, NEW c \in Consumers, StartRange(c) PROVE IInv'
<1>1. Started(c) \in Ranges /\ Started(c).pc = "next" /\ Started(c).pos = 1
      /\ Started(c).vals = <<>>
  BY NoRangeTyped DEF Started, Ranges
<1>2. captured \in Seq(Items)
  BY RangeTyped
<1>3. Places(Started(c), <<>>) /\ Fills(Started(c))
  BY <1>1, <1>2 DEF Places, Fills
<1>4. <<>> \in Seq(RowsOut) /\ To(c, Started(c)) /\ out' = [out EXCEPT ![c] = <<>>]
  BY DEF StartRange
<1> QED BY <1>1, <1>3, <1>4, OneRangeMoves

LEMMA TakeItemKeeps == ASSUME IInv, NEW c \in Consumers, TakeItem(c) PROVE IInv'
<1> DEFINE r == [range[c] EXCEPT !.pc = "item", !.item = captured[range[c].pos]]
<1>1. range[c].pc = "next" /\ range[c].pos <= Len(captured) /\ Stay(c, r)
  BY DEF TakeItem, Ranged
<1>2. range[c] \in Ranges /\ captured \in Seq(Items) /\ Places(range[c], out[c]) /\ Fills(range[c])
  BY RangeTyped
<1>3. captured[range[c].pos] \in Items
  BY <1>1, <1>2 DEF Ranges
<1>4. r \in Ranges /\ r.pc = "item" /\ r.pos = range[c].pos /\ r.item = captured[range[c].pos]
      /\ r.vals = range[c].vals
  BY <1>2, <1>3 DEF Ranges
<1> HIDE DEF r
<1>5. Places(r, out[c]) /\ Fills(r)
  BY <1>1, <1>2, <1>4 DEF Places, Fills
<1> QED BY <1>1, <1>4, <1>5, OneRangeStays

LEMMA ExhaustedKeeps == ASSUME IInv, NEW c \in Consumers, Exhausted(c) PROVE IInv'
<1>1. Stay(c, NoRange)
  BY DEF Exhausted
<1>2. Places(NoRange, out[c]) /\ Fills(NoRange)
  BY NoRangeTyped DEF Places, Fills
<1> QED BY <1>1, <1>2, NoRangeTyped, OneRangeStays

\* Row returns a row or a failure for the item in its place.
LEMMA YieldKeeps ==
  ASSUME IInv, NEW c \in Consumers, NEW row \in RowsOut,
         range[c].pc \in {"item", "column"}, Yield(c, row)
  PROVE  IInv'
<1> DEFINE r == [range[c] EXCEPT !.pc = "given", !.row = row, !.vals = <<>>]
           o == Append(out[c], row)
<1>1. To(c, r) /\ out' = [out EXCEPT ![c] = o]
  BY DEF Yield
<1>2. range[c] \in Ranges /\ out[c] \in Seq(RowsOut) /\ Places(range[c], out[c])
  BY RangeTyped
<1>3. r \in Ranges /\ r.pc = "given" /\ r.pos = range[c].pos /\ r.row = row /\ r.vals = <<>>
  <2> DEFINE r1 == [range[c] EXCEPT !.pc = "given", !.row = row]
  <2>1. r1 \in Ranges /\ r1.pc = "given" /\ r1.pos = range[c].pos /\ r1.row = row
    BY <1>2 DEF Ranges
  <2>2. <<>> \in Seq(Cells) /\ r = [r1 EXCEPT !.vals = <<>>]
    OBVIOUS
  <2> HIDE DEF r, r1
  <2> QED BY <2>1, <2>2 DEF Ranges
<1>4. o \in Seq(RowsOut) /\ Len(o) = Len(out[c]) + 1 /\ o[Len(out[c]) + 1] = row
  BY <1>2
<1>5. Len(out[c]) = range[c].pos - 1 /\ range[c].pos <= Len(captured) /\ range[c].pos \in Nat
  BY <1>2 DEF Places, Ranges
<1> HIDE DEF r, o
<1>6. Places(r, o) /\ Fills(r)
  BY <1>3, <1>4, <1>5 DEF Places, Fills
<1> QED BY <1>1, <1>3, <1>4, <1>6, OneRangeMoves

LEMMA PanickedKeeps ==
  ASSUME IInv, NEW c \in Consumers, Stay(c, [NoRange EXCEPT !.pc = "panicked"])
  PROVE  IInv'
<1> DEFINE r == [NoRange EXCEPT !.pc = "panicked"]
<1>1. r \in Ranges /\ r.pc = "panicked" /\ r.vals = <<>>
  BY NoRangeTyped DEF Ranges
<1> HIDE DEF r
<1>2. Places(r, out[c]) /\ Fills(r)
  BY <1>1 DEF Places, Fills
<1> QED BY <1>1, <1>2, OneRangeStays DEF r

LEMMA StopsKeeps ==
  ASSUME IInv, NEW c \in Consumers, NEW k \in Nat,
         range[c].pc \in {"item", "column"}, Stops(c, k)
  PROVE  IInv'
<1>1. Failure(k) \in RowsOut
  BY DEF Failure, RowsOut
<1> QED BY <1>1, YieldKeeps, PanickedKeeps DEF Stops

LEMMA BeginRowKeeps == ASSUME IInv, NEW c \in Consumers, BeginRow(c) PROVE IInv'
<1> DEFINE r == [range[c] EXCEPT !.pc = "column", !.col = 1]
<1>1. range[c] \in Ranges /\ Places(range[c], out[c]) /\ Fills(range[c])
  BY RangeTyped
<1>2. CASE Encodes(c, 0)
  <2>1. Stay(c, r) /\ range[c].pc = "item"
    BY <1>2 DEF BeginRow
  <2>2. r \in Ranges /\ r.pc = "column" /\ r.col = 1 /\ r.item = range[c].item
        /\ r.pos = range[c].pos /\ r.vals = range[c].vals
    BY <1>1 DEF Ranges
  <2>3. \A k \in 0..0 : Encode[range[c].item][opts][k] = "ok"
    BY <1>2 DEF Encodes
  <2> HIDE DEF r
  <2>4. Places(r, out[c])
    BY <1>1, <2>1, <2>2 DEF Places
  <2>5. r.vals = CellsOf(r.item, r.col - 1)
    BY <1>1, <2>1, <2>2, NoCells DEF Fills
  <2>6. Fills(r)
    BY <2>2, <2>3, <2>5, RowIteratorAssumption DEF Fills
  <2> QED BY <2>1, <2>2, <2>4, <2>6, OneRangeStays
<1>3. CASE ~Encodes(c, 0)
  BY <1>3, StopsKeeps DEF BeginRow
<1> QED BY <1>2, <1>3

LEMMA EncodeColumnKeeps == ASSUME IInv, NEW c \in Consumers, EncodeColumn(c) PROVE IInv'
<1> DEFINE q == range[c]
           r == [q EXCEPT !.col = @ + 1, !.vals = Append(@, <<q.item, opts, q.col>>)]
<1>1. q \in Ranges /\ Places(q, out[c]) /\ Fills(q) /\ captured \in Seq(Items) /\ opts \in Options
  BY RangeTyped
<1>2. q.pc = "column" /\ q.col \in 1..Columns
  BY <1>1 DEF EncodeColumn, Fills, Ranges
<1>3. CASE Encodes(c, q.col)
  <2>1. Stay(c, r)
    BY <1>3 DEF EncodeColumn
  <2>2. q.item \in Items /\ q.vals = CellsOf(q.item, q.col - 1)
    BY <1>1, <1>2 DEF Places, Fills, Ranges
  <2>3. q.col - 1 \in Nat /\ (q.col - 1) + 1 = q.col /\ q.col \in Nat
    BY <1>2, RowIteratorAssumption
  <2>4. Append(q.vals, <<q.item, opts, q.col>>) = CellsOf(q.item, q.col)
    BY <1>1, <2>2, <2>3, OneMoreCell
  <2>5. CellsOf(q.item, q.col) \in Seq(Cells)
    BY <1>1, <2>2, <2>3, OneMoreCell
  <2>6. r \in Ranges /\ r.pc = "column" /\ r.col = q.col + 1 /\ r.item = q.item
        /\ r.pos = q.pos /\ r.vals = CellsOf(q.item, q.col)
    <3> DEFINE v == Append(q.vals, <<q.item, opts, q.col>>)
    <3>1. v = CellsOf(q.item, q.col)
      BY <2>4
    <3> HIDE DEF v
    <3>2. r = [q EXCEPT !.col = q.col + 1, !.vals = v]
      BY DEF v
    <3>3. v \in Seq(Cells) /\ q.col + 1 \in Nat
      BY <2>3, <2>5, <3>1
    <3> HIDE DEF r
    <3> QED BY <1>1, <1>2, <3>1, <3>2, <3>3 DEF Ranges
  <2>7. \A k \in 0..q.col : Encode[q.item][opts][k] = "ok"
    BY <1>1, <1>2, <1>3, <2>3 DEF Fills, Encodes
  <2> HIDE DEF r
  <2>8. Places(r, out[c])
    BY <1>1, <1>2, <2>6 DEF Places
  <2>9. Fills(r)
    BY <1>2, <2>3, <2>6, <2>7, RowIteratorAssumption DEF Fills
  <2> QED BY <2>1, <2>6, <2>8, <2>9, OneRangeStays
<1>4. CASE ~Encodes(c, q.col)
  <2>1. Stops(c, q.col)
    BY <1>4 DEF EncodeColumn
  <2>2. q.col \in Nat
    BY <1>2, RowIteratorAssumption
  <2> QED BY <1>2, <2>1, <2>2, StopsKeeps
<1> QED BY <1>3, <1>4

LEMMA YieldRowKeeps == ASSUME IInv, NEW c \in Consumers, YieldRow(c) PROVE IInv'
<1>1. range[c].vals \in Seq(Cells)
  BY RangeTyped DEF Ranges
<1>2. Row(range[c].vals) \in RowsOut
  BY <1>1 DEF Row, RowsOut
<1> QED BY <1>2, YieldKeeps DEF YieldRow

LEMMA BodyDoneKeeps == ASSUME IInv, NEW c \in Consumers, BodyDone(c) PROVE IInv'
<1>1. PICK more \in BOOLEAN : Stay(c, [range[c] EXCEPT !.pc = "resumed", !.more = more])
  BY DEF BodyDone
<1> DEFINE r == [range[c] EXCEPT !.pc = "resumed", !.more = more]
<1>2. range[c] \in Ranges /\ Places(range[c], out[c]) /\ Fills(range[c]) /\ range[c].pc = "given"
  BY RangeTyped DEF BodyDone
<1>3. r \in Ranges /\ r.pc = "resumed" /\ r.pos = range[c].pos /\ r.row = range[c].row
      /\ r.vals = range[c].vals
  BY <1>2 DEF Ranges
<1>4. Stay(c, r)
  BY <1>1
<1> HIDE DEF r
<1>5. Places(r, out[c]) /\ Fills(r)
  BY <1>2, <1>3 DEF Places, Fills
<1> QED BY <1>3, <1>4, <1>5, OneRangeStays

LEMMA ContinueKeeps == ASSUME IInv, NEW c \in Consumers, Continue(c) PROVE IInv'
<1> DEFINE r == [range[c] EXCEPT !.pc = "next", !.pos = @ + 1, !.row = NoRow]
<1>1. range[c] \in Ranges /\ Places(range[c], out[c]) /\ Fills(range[c])
      /\ range[c].pc = "resumed" /\ captured \in Seq(Items) /\ out[c] \in Seq(RowsOut)
  BY RangeTyped DEF Continue
<1>2. CASE StopsHere(range[c])
  <2>1. Stay(c, NoRange)
    BY <1>2 DEF Continue
  <2>2. Places(NoRange, out[c]) /\ Fills(NoRange)
    BY NoRangeTyped DEF Places, Fills
  <2> QED BY <2>1, <2>2, NoRangeTyped, OneRangeStays
<1>3. CASE ~StopsHere(range[c])
  <2>1. Stay(c, r)
    BY <1>3 DEF Continue
  <2>2. r \in Ranges /\ r.pc = "next" /\ r.pos = range[c].pos + 1 /\ r.vals = range[c].vals
    <3> DEFINE r1 == [range[c] EXCEPT !.pc = "next", !.row = NoRow]
    <3>1. r1 \in Ranges /\ r1.pc = "next" /\ r1.pos = range[c].pos /\ r1.vals = range[c].vals
      BY <1>1, NoRangeTyped DEF Ranges
    <3>2. range[c].pos + 1 \in Nat \ {0}
      BY <1>1 DEF Ranges
    <3>3. r = [r1 EXCEPT !.pos = range[c].pos + 1]
      OBVIOUS
    <3> HIDE DEF r, r1
    <3> QED BY <3>1, <3>2, <3>3 DEF Ranges
  <2>3. range[c].pos \in Nat
    BY <1>1 DEF Ranges
  <2> HIDE DEF r
  <2>4. Places(r, out[c]) /\ Fills(r)
    BY <1>1, <2>2, <2>3 DEF Places, Fills
  <2> QED BY <2>1, <2>2, <2>4, OneRangeStays
<1> QED BY <1>2, <1>3

----------------------------------------------------------------------------

\* Every range starts at the first item, of the slice the caller passed.
LEMMA InitHasInv == Init => IInv
<1> SUFFICES ASSUME Init PROVE IInv
  OBVIOUS
<1>1. captured \in Arrays /\ captured \in Seq(Items)
  BY ArrayIsSeq DEF Init, Arrays
<1>2. Typed
  BY <1>1, NoRangeTyped DEF Init, Typed
<1>3. Shares
  BY <1>1 DEF Init, Shares
<1>4. ASSUME NEW c \in Consumers PROVE Places(range[c], out[c]) /\ Fills(range[c])
  BY NoRangeTyped DEF Init, Places, Fills
<1> QED BY <1>2, <1>3, <1>4 DEF IInv

\* Every step of the caller, of a range or of a loop body keeps the invariant.
LEMMA NextKeepsInv == IInv /\ [Next]_vars => IInv'
<1> SUFFICES ASSUME IInv, [Next]_vars PROVE IInv'
  OBVIOUS
<1>1. CASE Caller
  BY <1>1, WriteItemKeeps, AppendItemKeeps, ResliceKeeps, ChangeOptionsKeeps DEF Caller
<1>2. ASSUME NEW c \in Consumers, StartRange(c) \/ Step(c) \/ BodyDone(c) PROVE IInv'
  BY <1>2, StartRangeKeeps, TakeItemKeeps, ExhaustedKeeps, BeginRowKeeps, EncodeColumnKeeps,
     YieldRowKeeps, BodyDoneKeeps, ContinueKeeps DEF Step
<1>3. CASE UNCHANGED vars
  BY <1>3 DEF vars, IInv, Typed, Shares, Places, Fills, CellsOf
<1> QED BY <1>1, <1>2, <1>3 DEF Next

LEMMA InvImpliesTypeOK == IInv => TypeOK
<1> SUFFICES ASSUME IInv PROVE TypeOK
  OBVIOUS
<1>1. captured \in Arrays /\ captured \in Seq(Items) /\ opts \in Options
      /\ mine.items \in Seq(Items)
  BY ArrayIsSeq DEF IInv, Typed
<1>2. ~mine.own => mine.items = SubSeq(captured, 1, Len(mine.items))
  BY <1>1 DEF IInv, Shares
<1>3. ASSUME NEW c \in Consumers
      PROVE  LET r == range[c] IN
             /\ r.pc \in {"idle", "next", "item", "column", "given", "resumed", "panicked"}
             /\ Reading(c) => r.item \in Items
             /\ r.pc \in {"next", "item", "column"} => Len(out[c]) = r.pos - 1
             /\ r.pc \in {"given", "resumed"} => Len(out[c]) = r.pos /\ r.row = out[c][r.pos]
             /\ r.pc = "column" => r.col \in 1..(Columns + 1) /\ Len(r.vals) = r.col - 1
  <2>1. range[c] \in Ranges /\ Places(range[c], out[c]) /\ Fills(range[c])
    BY RangeTyped
  <2>2. range[c].pc \in {"item", "column"} => range[c].item \in Items
    BY <1>1, <2>1 DEF Places, Ranges
  <2>3. range[c].pc = "column" => /\ range[c].col \in 1..(Columns + 1)
                                 /\ Len(range[c].vals) = range[c].col - 1
    <3> SUFFICES ASSUME range[c].pc = "column"
                 PROVE  /\ range[c].col \in 1..(Columns + 1)
                        /\ Len(range[c].vals) = range[c].col - 1
      OBVIOUS
    <3>1. range[c].col \in 1..(Columns + 1)
          /\ range[c].vals = CellsOf(range[c].item, range[c].col - 1)
      BY <2>1 DEF Fills
    <3>2. range[c].col - 1 \in Nat
      BY <3>1, RowIteratorAssumption
    <3> QED BY <1>1, <2>2, <3>1, <3>2, OneMoreCell
  <2> QED BY <2>1, <2>2, <2>3 DEF Places, Ranges, Reading
<1> QED BY <1>1, <1>2, <1>3 DEF TypeOK, Arrays

\* A range is at a place of its iterator, with the values of the columns it
\* has encoded and one row yielded for each item it is done with.
THEOREM TypeCorrectness == Spec => []TypeOK
<1>1. Spec => []IInv
  BY InitHasInv, NextKeepsInv, PTL DEF Spec
<1> QED BY <1>1, InvImpliesTypeOK, PTL

----------------------------------------------------------------------------
(* The refinement: each step is one of the stream, or none of its business. *)

LEMMA InitIsStreams == Init => Stream!Init
<1> SUFFICES ASSUME Init PROVE Stream!Init
  OBVIOUS
<1>1. captured \in Seq(Items) /\ opts \in Options
  BY ArrayIsSeq DEF Init, Arrays
<1>2. phase = [c \in Consumers |-> "idle"]
  BY NoRangeTyped DEF Init, phase, PhaseOf
<1> QED BY <1>1, <1>2 DEF Init, Stream!Init, Stream!Items, Items

\* The phase of a range that moves.
LEMMA PhaseMoves ==
  ASSUME IInv, NEW c \in Consumers, NEW r, To(c, r)
  PROVE  phase' = [phase EXCEPT ![c] = PhaseOf(r)] /\ phase[c] = PhaseOf(range[c])
<1>1. range \in [Consumers -> Ranges] /\ range' = [range EXCEPT ![c] = r]
  BY DEF To, IInv, Typed
<1> QED BY <1>1 DEF phase

\* The caller's steps change the stream's items and options, not their number.
LEMMA CallerChanges == ASSUME IInv, Caller PROVE Stream!Next \/ UNCHANGED Stream!vars
<1>1. captured \in Arrays /\ captured \in Seq(Items) /\ opts \in Options
  BY ArrayIsSeq DEF IInv, Typed
<1>2. IInv'
  BY NextKeepsInv DEF Next
<1>3. captured' \in Seq(Items) /\ opts' \in Options
  BY <1>2, ArrayIsSeq DEF IInv, Typed
<1>4. UNCHANGED <<range, out>>
  BY DEF Caller, WriteItem, AppendItem, Reslice, ChangeOptions
<1>5. UNCHANGED phase
  BY <1>4 DEF phase
<1>6. Len(captured') = Len(captured)
  <2>1. ASSUME NEW n \in 1..Len(captured), NEW i \in Items
        PROVE  Len([captured EXCEPT ![n] = i]) = Len(captured)
    BY <1>1, Written
  <2>2. mine.items \in Seq(Items) /\ (~mine.own => Len(mine.items) <= Len(captured))
    BY DEF IInv, Typed, Shares
  <2>3. CASE WriteItem
    BY <1>1, <2>1, <2>2, <2>3 DEF WriteItem
  <2>4. CASE AppendItem
    BY <1>1, <2>1, <2>2, <2>4 DEF AppendItem
  <2>5. CASE Reslice \/ ChangeOptions
    BY <2>5 DEF Reslice, ChangeOptions
  <2> QED BY <2>3, <2>4, <2>5 DEF Caller
<1> QED BY <1>3, <1>4, <1>5, <1>6 DEF Stream!Next, Stream!Change, Stream!Items, Items

\* The range the iterator runs is the one that asked.
LEMMA StartIsRange == ASSUME IInv, NEW c \in Consumers, StartRange(c) PROVE Stream!Range(c)
<1>1. To(c, Started(c)) /\ out' = [out EXCEPT ![c] = <<>>] /\ range[c].pc \in {"idle", "panicked"}
  BY DEF StartRange
<1>2. Started(c).pc = "next"
  BY NoRangeTyped DEF Started, Ranges
<1>3. phase' = [phase EXCEPT ![c] = "asking"] /\ phase[c] \in {"idle", "panicked"}
  BY <1>1, <1>2, PhaseMoves DEF PhaseOf
<1> QED BY <1>1, <1>3 DEF Stream!Range, To

\* What is read and computed before a row is there is nobody's business.
LEMMA SilentStep ==
  ASSUME IInv, NEW c \in Consumers, NEW r, Stay(c, r), PhaseOf(r) = PhaseOf(range[c])
  PROVE  UNCHANGED Stream!vars
<1>1. phase' = [phase EXCEPT ![c] = phase[c]]
  BY PhaseMoves DEF Stay
<1>2. phase' = phase
  BY <1>1 DEF phase
<1> QED BY <1>2 DEF Stay, To, Stream!vars

\* The item a range holds is the one the stream is asked for.
LEMMA HoldsNext ==
  ASSUME IInv, NEW c \in Consumers, range[c].pc \in {"item", "column"}
  PROVE  /\ Stream!Asked(c) /\ Stream!next(c) = range[c].item
         /\ range[c].item \in Items /\ opts \in Options
<1>1. range[c] \in Ranges /\ Places(range[c], out[c]) /\ captured \in Seq(Items)
      /\ opts \in Options
  BY RangeTyped
<1>2. Len(out[c]) = range[c].pos - 1 /\ range[c].pos \in 1..Len(captured)
      /\ range[c].item = captured[range[c].pos]
  BY <1>1 DEF Places, Ranges
<1>3. phase[c] = "asking"
  BY DEF phase, PhaseOf
<1> QED BY <1>1, <1>2, <1>3 DEF Stream!Asked, Stream!next

\* Column k failed or panicked, and those before it encoded.
LEMMA StopsIsAnswer ==
  ASSUME IInv, NEW c \in Consumers, NEW k \in 0..Columns,
         range[c].pc \in {"item", "column"},
         \A j \in 0..Columns : j < k => Encode[range[c].item][opts][j] = "ok",
         ~Encodes(c, k), Stops(c, k)
  PROVE  Stream!Answer(c)
<1> DEFINE i == range[c].item
<1>1. Stream!Asked(c) /\ Stream!next(c) = i /\ i \in Items /\ opts \in Options
  BY HoldsNext
<1>2. Encode[i][opts][k] \in {"err", "panic"}
  BY <1>1, RowIteratorAssumption DEF Encodes
<1>3. CASE Encode[i][opts][k] = "err"
  <2> DEFINE r == [range[c] EXCEPT !.pc = "given", !.row = Failure(k), !.vals = <<>>]
  <2>1. To(c, r) /\ out' = [out EXCEPT ![c] = Append(out[c], Failure(k))]
    BY <1>3 DEF Stops, Yield
  <2>2. r.pc = "given"
    BY RangeTyped DEF Ranges
  <2> HIDE DEF r
  <2>3. phase' = [phase EXCEPT ![c] = "given"]
    BY <2>1, <2>2, PhaseMoves DEF PhaseOf
  <2>4. Stream!Give(c, Stream!Failure(k))
    BY <2>1, <2>3 DEF Stream!Give, Stream!Failure, Failure, To
  <2>5. Stream!StopsAt(Stream!next(c), opts, k, "err")
    BY <1>1, <1>3 DEF Stream!StopsAt
  <2> QED BY <1>1, <2>4, <2>5 DEF Stream!Answer, Stream!GiveFailure
<1>4. CASE Encode[i][opts][k] = "panic"
  <2> DEFINE r == [NoRange EXCEPT !.pc = "panicked"]
  <2>1. To(c, r) /\ UNCHANGED out
    BY <1>4 DEF Stops, Stay
  <2>2. r.pc = "panicked"
    BY DEF NoRange
  <2> HIDE DEF r
  <2>3. phase' = [phase EXCEPT ![c] = "panicked"]
    BY <2>1, <2>2, PhaseMoves DEF PhaseOf
  <2>4. Stream!StopsAt(Stream!next(c), opts, k, "panic")
    BY <1>1, <1>4 DEF Stream!StopsAt
  <2> QED BY <1>1, <2>1, <2>3, <2>4 DEF Stream!Answer, Stream!Panic, To
<1> QED BY <1>2, <1>3, <1>4

LEMMA BeginIsAnswer ==
  ASSUME IInv, NEW c \in Consumers, BeginRow(c)
  PROVE  Stream!Answer(c) \/ UNCHANGED Stream!vars
<1>1. CASE Encodes(c, 0)
  <2> DEFINE r == [range[c] EXCEPT !.pc = "column", !.col = 1]
  <2>1. Stay(c, r) /\ range[c].pc = "item"
    BY <1>1 DEF BeginRow
  <2>2. r.pc = "column"
    BY RangeTyped DEF Ranges
  <2> QED BY <2>1, <2>2, SilentStep DEF PhaseOf
<1>2. CASE ~Encodes(c, 0)
  <2>1. 0 \in 0..Columns
    BY RowIteratorAssumption
  <2>2. \A j \in 0..Columns : ~(j < 0)
    BY RowIteratorAssumption
  <2> QED BY <1>2, <2>1, <2>2, StopsIsAnswer DEF BeginRow
<1> QED BY <1>1, <1>2

LEMMA ColumnIsAnswer ==
  ASSUME IInv, NEW c \in Consumers, EncodeColumn(c)
  PROVE  Stream!Answer(c) \/ UNCHANGED Stream!vars
<1> DEFINE q == range[c]
<1>1. q \in Ranges /\ Fills(q) /\ q.pc = "column" /\ q.col <= Columns
  BY RangeTyped DEF EncodeColumn
<1>2. q.col \in 1..Columns /\ \A j \in 0..(q.col - 1) : Encode[q.item][opts][j] = "ok"
  BY <1>1, RowIteratorAssumption DEF Fills
<1>3. CASE Encodes(c, q.col)
  <2> DEFINE r == [q EXCEPT !.col = @ + 1, !.vals = Append(@, <<q.item, opts, q.col>>)]
  <2>1. Stay(c, r)
    BY <1>3 DEF EncodeColumn
  <2>2. r.pc = "column"
    BY <1>1 DEF Ranges
  <2> HIDE DEF r
  <2> QED BY <1>1, <2>1, <2>2, SilentStep DEF PhaseOf
<1>4. CASE ~Encodes(c, q.col)
  <2>1. Stops(c, q.col)
    BY <1>4 DEF EncodeColumn
  <2>2. q.col \in 0..Columns /\ \A j \in 0..Columns : j < q.col => j \in 0..(q.col - 1)
    BY <1>2, RowIteratorAssumption
  <2> QED BY <1>1, <1>2, <1>4, <2>1, <2>2, StopsIsAnswer
<1> QED BY <1>3, <1>4

\* A yielded row is the whole item under the options in force.
LEMMA YieldIsGiveRow ==
  ASSUME IInv, NEW c \in Consumers, YieldRow(c) PROVE Stream!GiveRow(c)
<1> DEFINE q == range[c]
           row == Row(q.vals)
           r == [q EXCEPT !.pc = "given", !.row = row, !.vals = <<>>]
<1>1. q \in Ranges /\ Fills(q) /\ q.pc = "column" /\ q.col > Columns
  BY RangeTyped DEF YieldRow
<1>2. q.col - 1 = Columns /\ \A j \in 0..Columns : Encode[q.item][opts][j] = "ok"
  BY <1>1, RowIteratorAssumption DEF Fills
<1>3. q.vals = CellsOf(q.item, Columns)
  BY <1>1, <1>2 DEF Fills
<1>4. row = Stream!Row(q.item, opts)
  BY <1>3 DEF Row, Stream!Row, CellsOf
<1>5. To(c, r) /\ out' = [out EXCEPT ![c] = Append(out[c], row)]
  BY DEF YieldRow, Yield
<1>6. r.pc = "given"
  BY <1>1 DEF Ranges
<1> HIDE DEF r, row
<1>7. phase' = [phase EXCEPT ![c] = "given"]
  BY <1>5, <1>6, PhaseMoves DEF PhaseOf
<1>8. Stream!Asked(c) /\ Stream!next(c) = q.item
  BY <1>1, HoldsNext
<1>9. Stream!Passes(q.item, opts, Columns)
  BY <1>2 DEF Stream!Passes
<1> QED BY <1>4, <1>5, <1>7, <1>8, <1>9 DEF Stream!GiveRow, Stream!Give, To

LEMMA ExhaustedIsEnd == ASSUME IInv, NEW c \in Consumers, Exhausted(c) PROVE Stream!End(c)
<1>1. Stay(c, NoRange) /\ range[c].pc = "next" /\ range[c].pos > Len(captured)
  BY DEF Exhausted, Ranged
<1>2. range[c] \in Ranges /\ Places(range[c], out[c]) /\ captured \in Seq(Items)
  BY RangeTyped
<1>3. Len(out[c]) = Len(captured)
  BY <1>1, <1>2 DEF Places, Ranges
<1>4. phase' = [phase EXCEPT ![c] = "idle"] /\ phase[c] = "asking"
  BY <1>1, NoRangeTyped, PhaseMoves DEF PhaseOf, Stay
<1> QED BY <1>1, <1>3, <1>4 DEF Stream!End, Stay, To

\* The range goes on only after a row, when it is asked to.
LEMMA ContinueIsGoOnOrLeave ==
  ASSUME IInv, NEW c \in Consumers, Continue(c)
  PROVE  Stream!GoOn(c) \/ Stream!Leave(c)
<1> DEFINE q == range[c]
<1>1. q.pc = "resumed" /\ q \in Ranges /\ Places(q, out[c]) /\ out[c] \in Seq(RowsOut)
  BY RangeTyped DEF Continue
<1>2. Len(out[c]) \in 1..Len(out[c]) /\ q.row = out[c][Len(out[c])] /\ q.more \in BOOLEAN
  BY <1>1 DEF Places, Ranges
<1>3. q.row \in RowsOut
  BY <1>1, <1>2
<1>4. q.row.kind = "ok" \/ q.row.kind = "err"
  BY <1>3 DEF RowsOut
<1>5. Stream!Failed(c) <=> q.row.kind = "err"
  BY <1>2, <1>4 DEF Stream!Failed
<1>6. phase[c] = IF q.more THEN "more" ELSE "break"
  BY <1>1 DEF phase, PhaseOf
<1>7. CASE StopsHere(q)
  <2>1. Stay(c, NoRange)
    BY <1>7 DEF Continue
  <2>2. phase' = [phase EXCEPT ![c] = "idle"]
    BY <2>1, NoRangeTyped, PhaseMoves DEF PhaseOf, Stay
  <2>3. phase[c] = "break" \/ (phase[c] = "more" /\ Stream!Failed(c))
    BY <1>5, <1>6, <1>7 DEF StopsHere
  <2> QED BY <2>1, <2>2, <2>3 DEF Stream!Leave, Stay, To
<1>8. CASE ~StopsHere(q)
  <2> DEFINE r == [q EXCEPT !.pc = "next", !.pos = @ + 1, !.row = NoRow]
  <2>1. Stay(c, r)
    BY <1>8 DEF Continue
  <2>2. r.pc = "next"
    BY <1>1 DEF Ranges
  <2> HIDE DEF r
  <2>3. phase' = [phase EXCEPT ![c] = "asking"]
    BY <2>1, <2>2, PhaseMoves DEF PhaseOf, Stay
  <2>4. phase[c] = "more" /\ ~Stream!Failed(c)
    BY <1>5, <1>6, <1>8 DEF StopsHere
  <2> QED BY <2>1, <2>3, <2>4 DEF Stream!GoOn, Stay, To
<1> QED BY <1>7, <1>8

\* The consumer's loop body ends, asking for more or breaking.
LEMMA BodyDoneIsDecide ==
  ASSUME IInv, NEW c \in Consumers, BodyDone(c) PROVE Stream!Decide(c)
<1>1. PICK more \in BOOLEAN : Stay(c, [range[c] EXCEPT !.pc = "resumed", !.more = more])
  BY DEF BodyDone
<1> DEFINE r == [range[c] EXCEPT !.pc = "resumed", !.more = more]
<1>2. Stay(c, r) /\ range[c].pc = "given"
  BY <1>1 DEF BodyDone
<1>3. r.pc = "resumed"
  BY RangeTyped DEF Ranges
<1> HIDE DEF r
<1>4. PhaseOf(r) \in {"more", "break"} /\ PhaseOf(range[c]) = "given"
  BY <1>2, <1>3 DEF PhaseOf
<1>5. phase' = [phase EXCEPT ![c] = PhaseOf(r)] /\ phase[c] = "given"
  BY <1>2, <1>4, PhaseMoves DEF Stay
<1> QED BY <1>2, <1>4, <1>5 DEF Stream!Decide, Stay, To

LEMMA NextIsStreams == IInv /\ [Next]_vars => [Stream!Next]_(Stream!vars)
<1> SUFFICES ASSUME IInv, [Next]_vars PROVE Stream!Next \/ UNCHANGED Stream!vars
  OBVIOUS
<1>1. CASE Caller
  BY <1>1, CallerChanges
<1>2. ASSUME NEW c \in Consumers, StartRange(c) \/ Step(c) \/ BodyDone(c)
      PROVE  Stream!Next \/ UNCHANGED Stream!vars
  <2>1. CASE StartRange(c)
    BY <2>1, StartIsRange DEF Stream!Next
  <2>2. CASE TakeItem(c)
    <3> DEFINE r == [range[c] EXCEPT !.pc = "item", !.item = captured[range[c].pos]]
    <3>1. Stay(c, r) /\ range[c].pc = "next"
      BY <2>2 DEF TakeItem, Ranged
    <3>2. r.pc = "item"
      BY RangeTyped DEF Ranges
    <3> HIDE DEF r
    <3> QED BY <3>1, <3>2, SilentStep DEF PhaseOf
  <2>3. CASE BodyDone(c)
    BY <2>3, BodyDoneIsDecide DEF Stream!Next
  <2>4. CASE Exhausted(c)
    BY <2>4, ExhaustedIsEnd DEF Stream!Next, Stream!Answer
  <2>5. CASE BeginRow(c) \/ EncodeColumn(c)
    BY <2>5, BeginIsAnswer, ColumnIsAnswer DEF Stream!Next
  <2>6. CASE YieldRow(c)
    BY <2>6, YieldIsGiveRow DEF Stream!Next, Stream!Answer
  <2>7. CASE Continue(c)
    BY <2>7, ContinueIsGoOnOrLeave DEF Stream!Next, Stream!Answer
  <2> QED BY <1>2, <2>1, <2>2, <2>3, <2>4, <2>5, <2>6, <2>7 DEF Step
<1>3. CASE UNCHANGED vars
  BY <1>3 DEF vars, Stream!vars, phase
<1> QED BY <1>1, <1>2, <1>3 DEF Next

\* Ranging over Rows is ranging over the stream it promises, whatever the
\* caller does to its slices and the other consumers to their ranges.
THEOREM Refinement == Spec => FollowsStream
<1>1. Spec => []IInv
  BY InitHasInv, NextKeepsInv, PTL DEF Spec
<1>2. Spec => Stream!Init /\ [][Stream!Next]_(Stream!vars)
  BY <1>1, InitIsStreams, NextIsStreams, PTL DEF Spec
<1> QED BY <1>2, PTL DEF FollowsStream, Stream!Safety
=============================================================================
