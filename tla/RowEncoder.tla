----------------------------- MODULE RowEncoder -----------------------------
(***************************************************************************)
(* RowEncoders of one struct type T, compiled and used by goroutines that  *)
(* share them, next to callers who write to whatever they were handed.     *)
(*                                                                         *)
(* What can be aliased is an object of the heap: the cached field listing, *)
(* the arrays and the row type of an encoder, the result of each call.  An *)
(* object has its data and the call it was made for (made).                *)
(***************************************************************************)
EXTENDS ColumnMask

CONSTANTS
  T,           \* the struct type
  Goroutines,
  Masks,       \* the columnMaskConfigs callers build
  Items,       \* Items[i]: a T that callers have, or a nil pointer to one
  Options,     \* the encode options callers pass
  Refused,     \* those that panic when they are applied
  Encode,      \* Encode[i][o][c]: what encodeValue does with the value of
               \* column c of item i under options o: "ok", "err" or "panic"
  Inference,   \* what TypeFromGoType gives for the Go type of a field
  MaxCalls,    \* calls made in a session
  Zero, Junk   \* an array element not yet written, and one a caller wrote

\* A T that is recursive through its fields, on whose inference the program
\* dies, is left to EncodeValue.
ASSUME RowEncoderAssumption ==
  /\ T \in DOMAIN Decls
  /\ \A n \in 1..Len(listings[T]) :
       /\ listings[T][n].type \in DOMAIN Inference
       /\ LET r == Inference[listings[T][n].type]
          IN  IsResult(r) /\ r.kind \in {"ok", "err", "panic"}
       /\ \A i \in DOMAIN Items, o \in Options :
            Encode[i][o][listings[T][n].name] \in {"ok", "err", "panic"}
  /\ \A i \in DOMAIN Items : Items[i].shape \in {"struct", "nilPtr"}
  /\ Refused \subseteq Options /\ MaxCalls \in Nat

VARIABLES
  heap,      \* every object made: [made, data]
  encoders,  \* the encoders published: [mask, fields, columns, n, rowType, rowTypeErr]
  at,        \* what each goroutine executes
  ret,       \* what its call returned: [kind, err, path, ref], and the call
  held,      \* the objects handed to callers
  calls      \* calls made so far

vars == <<heap, encoders, at, ret, held, calls>>

\* The object every listing of T is served from.
Cached == 1

NoCall == [op |-> "", shape |-> "struct", mask |-> NoMask, enc |-> 0, item |-> "", opts |-> ""]
Part(name) == [NoCall EXCEPT !.op = name]
Object(made, data) == [made |-> made, data |-> data]
Fresh(n) == Len(heap) + n     \* the n-th object a step makes

Idle   == [pc |-> "idle", call |-> NoCall, pos |-> 1, n |-> 0, arr |-> 0, columns |-> 0]
NoReturn == [kind |-> "none", err |-> "", path |-> <<>>, ref |-> 0, call |-> NoCall]

Constructors == {"NewRowEncoder", "MustNewRowEncoder"}
TypeMethods  == {"RowType", "ResultSetMetadata", "MustResultSetMetadata"}
ValueMethods == {"Values", "Row"}
Must == {"MustNewRowEncoder", "MustResultSetMetadata"}

Init ==
  /\ heap = <<Object(Part("listing"), listings[T])>>
  /\ encoders = <<>> /\ held = {} /\ calls = 0
  /\ at = [g \in Goroutines |-> Idle] /\ ret = [g \in Goroutines |-> NoReturn]

----------------------------------------------------------------------------
(* Calls and returns.                                                      *)

Enter(g, pc, call) ==
  /\ at[g] = Idle /\ calls < MaxCalls /\ calls' = calls + 1
  /\ at' = [at EXCEPT ![g] = [Idle EXCEPT !.pc = pc, !.call = call]]
  /\ ret' = [ret EXCEPT ![g] = NoReturn]

Finish(g, r) ==
  /\ ret' = [ret EXCEPT ![g] = [r EXCEPT !.call = at[g].call]]
  /\ at' = [at EXCEPT ![g] = Idle]
  /\ UNCHANGED calls
Fail(g, err, path) ==
  /\ Finish(g, IF at[g].call.op \in Must THEN [NoReturn EXCEPT !.kind = "panic"]
               ELSE [NoReturn EXCEPT !.kind = "err", !.err = err, !.path = path])
  /\ UNCHANGED <<heap, encoders, held>>
Panics(g) == Finish(g, [NoReturn EXCEPT !.kind = "panic"]) /\ UNCHANGED <<heap, encoders, held>>
HandOut(g, ref) ==
  /\ Finish(g, [NoReturn EXCEPT !.kind = "ok", !.ref = ref]) /\ held' = held \cup {ref}
  /\ UNCHANGED encoders
\* A copy, made for this call, of data.
HandOutCopy(g, data) ==
  /\ heap' = Append(heap, Object(at[g].call, data))
  /\ HandOut(g, Fresh(1))

Continue(g, frame) == at' = [at EXCEPT ![g] = frame] /\ UNCHANGED <<ret, calls>>

Scribbled(data) == [i \in DOMAIN data |-> Junk]

\* A caller writes to an object of its own: a slice, a message, a row.
Scribble ==
  /\ \E o \in held : heap' = [heap EXCEPT ![o].data = Scribbled(@)]
  /\ UNCHANGED <<encoders, at, ret, held, calls>>

----------------------------------------------------------------------------
(* Construction.                                                           *)

CallNew(g) ==
  /\ \E op \in Constructors, m \in Masks, shape \in {"struct", "other"} :
       Enter(g, "list", [NoCall EXCEPT !.op = op, !.mask = m, !.shape = shape])
  /\ UNCHANGED <<heap, encoders, held>>

\* Mutation: the kept fields are collected in the listing's own array.
KeepInPlace(g) == Cached
\* The arrays of length 0 and capacity len(fl) the loop appends to.
KeptArray(g)   == Fresh(1)
EmptyArrays(fl) ==
  LET a == [i \in 1..Len(fl) |-> Zero]
  IN  <<Object(Part("fields"), a), Object(Part("columns"), a)>>

ListFields(g) ==
  /\ at[g].pc = "list"
  /\ LET fl == heap[Cached].data IN
     IF at[g].call.shape = "other" THEN Fail(g, "ErrNotStruct", <<>>)
     ELSE IF ~validate(at[g].call.mask, fl, FALSE) THEN Fail(g, "ErrInvalidColumnMask", <<>>)
     ELSE /\ heap' = heap \o EmptyArrays(fl)
          /\ Continue(g, [at[g] EXCEPT !.pc = "keep", !.arr = KeptArray(g), !.columns = Fresh(2)])
          /\ UNCHANGED <<encoders, held>>

KeepField(g) ==
  LET a == at[g]
      fl == heap[Cached].data
      f  == fl[a.pos]
  IN  /\ a.pc = "keep" /\ a.pos <= Len(fl)
      /\ IF keep(a.call.mask, f.name)
         THEN /\ heap' = [heap EXCEPT ![a.arr].data[a.n + 1] = f,
                                      ![a.columns].data[a.n + 1] = f.name]
              /\ Continue(g, [a EXCEPT !.pos = @ + 1, !.n = @ + 1])
         ELSE heap' = heap /\ Continue(g, [a EXCEPT !.pos = @ + 1])
      /\ UNCHANGED <<encoders, held>>

\* rowTypeOfFields: the row type, or the error of the first field without.
Contents(ref, n) == SubSeq(heap[ref].data, 1, n)
rowTypeOfFields(fs) ==
  LET bad == {i \in 1..Len(fs) : Inference[fs[i].type].kind # "ok"}
  IN  IF bad = {} THEN OkType(StructOf([i \in 1..Len(fs) |->
                          [name |-> fs[i].name, type |-> Inference[fs[i].type].type]]))
      ELSE Wrap(Inference[fs[Min(bad)].type], AtField(Min(bad) - 1))

\* Mutation: an encoder whose row type is not inferable is refused.
NewFails(r) == r.kind = "err"
\* The error is kept for RowType.
NewFailsOn(r) == FALSE

FieldsKept(g) ==
  LET a == at[g]
      r == rowTypeOfFields(Contents(a.arr, a.n))
  IN  /\ a.pc = "keep" /\ a.pos > Len(heap[Cached].data)
      /\ IF r.kind = "panic" THEN Panics(g)
         ELSE IF NewFailsOn(r) THEN Fail(g, r.err, r.path)
         ELSE /\ heap' = Append(heap, Object(Part("rowType"), r.type.fields))
              /\ encoders' = Append(encoders,
                   [mask |-> a.call.mask, fields |-> a.arr, columns |-> a.columns, n |-> a.n,
                    rowType |-> Fresh(1), rowTypeErr |-> r])
              /\ Finish(g, [NoReturn EXCEPT !.kind = "ok"]) /\ UNCHANGED held

----------------------------------------------------------------------------
(* Methods.                                                                *)

CallMethod(g) ==
  /\ \E e \in 1..Len(encoders) :
       \/ \E op \in TypeMethods \cup {"Columns"} :
            Enter(g, "method", [NoCall EXCEPT !.op = op, !.enc = e])
       \/ \E op \in ValueMethods, i \in DOMAIN Items, o \in Options :
            Enter(g, "item", [NoCall EXCEPT !.op = op, !.enc = e, !.item = i, !.opts = o])
  /\ UNCHANGED <<heap, encoders, held>>

Method(g, ops) == at[g].pc = "method" /\ at[g].call.op \in ops
enc(g) == encoders[at[g].call.enc]

\* A copy of the columns.
Columns(g) ==
  /\ Method(g, {"Columns"}) /\ HandOutCopy(g, Contents(enc(g).columns, enc(g).n))

\* A clone of the row type; mutation: the encoder's own message.
RowTypeUncloned(g) ==
  /\ Method(g, TypeMethods)
  /\ IF enc(g).rowTypeErr.kind = "err" THEN Fail(g, enc(g).rowTypeErr.err, enc(g).rowTypeErr.path)
     ELSE HandOut(g, enc(g).rowType) /\ UNCHANGED heap
RowType(g) ==
  /\ Method(g, TypeMethods)
  /\ LET r == enc(g).rowTypeErr IN
     IF r.kind = "err" THEN Fail(g, r.err, r.path) ELSE HandOutCopy(g, heap[enc(g).rowType].data)

\* Values and Row begin; mutation: with a buffer kept from an earlier call.
PooledBuffer(g) ==
  LET used == {o \in held : heap[o].made.op = "Values" /\ heap[o].made.enc = at[g].call.enc}
  IN  IF used = {} THEN Fresh(1) ELSE Min(used)
Buffer(g) == Fresh(1)

\* Its length; mutation: that of the whole listing.
ListingLength(g) == Len(heap[Cached].data)
BufferLength(g)  == enc(g).n

\* newEncodeConfig applies the options, and then the item is looked at.
BeginItem(g) ==
  /\ at[g].pc = "item"
  /\ IF at[g].call.opts \in Refused THEN Panics(g)
     ELSE IF structValueError(Items[at[g].call.item]) # "" THEN Fail(g, "ErrNilStructPointer", <<>>)
     ELSE /\ heap' = Append(heap, Object(at[g].call, [i \in 1..BufferLength(g) |-> Zero]))
          /\ Continue(g, [at[g] EXCEPT !.pc = "values", !.arr = Buffer(g)])
          /\ UNCHANGED <<encoders, held>>

\* A field's value, told by the item and field it is of and the options that
\* encoded it; it is read, which may panic, and encoded, which may fail or
\* panic.
ValueOfField(call, f) == [item |-> call.item, opts |-> call.opts, index |-> f.index]
Outcome(call, f) ==
  IF BehindNil(Items[call.item], f) THEN "panic" ELSE Encode[call.item][call.opts][f.name]

\* Mutation: the index of the field in the struct, not among the columns.
IndexInStruct(a, f) == f.index[1] - 1
IndexInColumns(a, f) == a.pos - 1

EncodeField(g) ==
  LET a == at[g]
      f == heap[enc(g).fields].data[a.pos]
  IN  /\ a.pc = "values" /\ a.pos <= enc(g).n
      /\ IF Outcome(a.call, f) = "panic" THEN Panics(g)
         ELSE IF Outcome(a.call, f) = "err"
         THEN Fail(g, "ErrEncode", <<AtField(IndexInColumns(a, f))>>)
         ELSE /\ heap' = [heap EXCEPT ![a.arr].data[a.pos] = ValueOfField(a.call, f)]
              /\ Continue(g, [a EXCEPT !.pos = @ + 1])
              /\ UNCHANGED <<encoders, held>>

\* Values returns the buffer; Row what spanner.NewRow clones from it.
ReturnValues(g) ==
  /\ at[g].pc = "values" /\ at[g].pos > enc(g).n
  /\ IF at[g].call.op = "Values" THEN HandOut(g, at[g].arr) /\ UNCHANGED heap
     ELSE HandOutCopy(g, <<Contents(enc(g).columns, enc(g).n), heap[at[g].arr].data>>)

Step(g) == ListFields(g) \/ KeepField(g) \/ FieldsKept(g) \/ Columns(g) \/ RowType(g)
             \/ BeginItem(g) \/ EncodeField(g) \/ ReturnValues(g)
Next == Scribble \/ \E g \in Goroutines : CallNew(g) \/ CallMethod(g) \/ Step(g)

Spec == Init /\ [][Next]_vars

----------------------------------------------------------------------------
(* What the encoders promise.                                              *)

\* The fields a mask keeps of the listing as the type declares it.
KeptAt(mask, n) == {i \in 1..n : keep(mask, listings[T][i].name)}
Kept(mask) == Subsequence(listings[T], KeptAt(mask, Len(listings[T])))

\* Every goroutine is at a place of its call, over objects that exist, and
\* encodes into a buffer with one place per column.
TypeOK ==
  /\ calls \in 0..MaxCalls /\ held \subseteq 1..Len(heap)
  /\ \A g \in Goroutines :
       /\ at[g].pc \in {"idle", "list", "keep", "method", "item", "values"}
       /\ at[g].arr \in 0..Len(heap) /\ at[g].columns \in 0..Len(heap)
       /\ at[g].call.enc \in 0..Len(encoders)
       /\ at[g].pc = "keep" => at[g].n < at[g].pos /\ at[g].pos <= Len(listings[T]) + 1
       /\ at[g].pc = "values" =>
            at[g].pos <= enc(g).n + 1 /\ Len(heap[at[g].arr].data) = enc(g).n
       /\ ret[g].kind = "ok" => ret[g].ref \in held \cup {0}

\* The process-wide field listing of T never changes, however many encoders
\* were compiled from it under whatever masks (rowencoder.go:24-56).
CacheIntact == heap[Cached].data = listings[T]

\* A published encoder is what its mask asks for, for ever: whatever callers
\* do to the slices and messages its methods returned, and whatever other
\* goroutines encode ("The returned slice is a copy", "a fresh clone").
EncodersIntact ==
  \A e \in 1..Len(encoders) :
    LET c == encoders[e] IN
    /\ Contents(c.fields, c.n) = Kept(c.mask)
    /\ Contents(c.columns, c.n) = Names(Kept(c.mask))
    /\ c.rowTypeErr.kind = "ok" => heap[c.rowType].data = rowTypeOfFields(Kept(c.mask)).type.fields

\* What a call promises to return.
Promised(made) ==
  LET fs == Kept(encoders[made.enc].mask)
      vs == [i \in 1..Len(fs) |-> ValueOfField(made, fs[i])]
  IN  CASE made.op = "Columns" -> Names(fs)
        [] made.op = "Values"  -> vs
        [] made.op = "Row"     -> <<Names(fs), vs>>
        [] OTHER               -> rowTypeOfFields(fs).type.fields

\* Everything ever handed out still reads as its call promised, until its
\* holder writes to it: no later call and no other goroutine touches it, and
\* each row has the values of its own item under its own options, one per
\* column.
ResultsIntact ==
  \A o \in held : heap[o].data = Scribbled(heap[o].data) \/ heap[o].data = Promised(heap[o].made)

\* Construction fails for a mistaken mask or type alone: a row type that can
\* not be inferred is kept for RowType (rowencoder.go:100), which then fails
\* each time with the error of the first column.
CompilesWithoutRowType ==
  \A g \in Goroutines :
    /\ ret[g].call.op = "NewRowEncoder" /\ ret[g].kind = "err" =>
         ret[g].err \in {"ErrNotStruct", "ErrInvalidColumnMask"}
    /\ ret[g].call.op \in {"RowType", "ResultSetMetadata"} =>
         LET r == rowTypeOfFields(Kept(encoders[ret[g].call.enc].mask))
         IN  ret[g].kind = r.kind /\ ret[g].err = r.err /\ ret[g].path = r.path

\* Values and Row panic for options that do, fail on a nil pointer, and else
\* do what the first column does that does not encode: one that fails is
\* named by its index in Columns, which is not the one in the struct; one
\* that panics, in the encode or because it lies behind a nil embedded
\* pointer, is not recovered from; and a column that is not the encoder's
\* own, or comes after, does neither.
FailureNamesColumn ==
  \A g \in Goroutines : ret[g].call.op \in ValueMethods =>
    LET fs == Kept(encoders[ret[g].call.enc].mask)
        c  == ret[g].call
        bad == {n \in 1..Len(fs) : Outcome(c, fs[n]) \in {"err", "panic"}}
    IN  IF c.opts \in Refused THEN ret[g].kind = "panic"
        ELSE IF structValueError(Items[c.item]) # "" THEN ret[g].err = "ErrNilStructPointer"
        ELSE IF bad = {} THEN ret[g].kind = "ok"
        ELSE IF Outcome(c, fs[Min(bad)]) = "panic" THEN ret[g].kind = "panic"
        ELSE ret[g].err = "ErrEncode" /\ ret[g].path = <<AtField(Min(bad) - 1)>>
=============================================================================
