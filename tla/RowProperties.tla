--------------------------- MODULE RowProperties ---------------------------
(***************************************************************************)
(* What the row-shaped helpers promise when they have returned, in terms   *)
(* of the options as the caller wrote them and of the field listing.       *)
(***************************************************************************)
EXTENDS RowShapes

Indexes(xs) == [i \in 1..Len(xs) |-> xs[i].index]

Returned(helpers)  == pc = "returned" /\ call.helper \in helpers
Succeeded(helpers) == Returned(helpers) /\ ret.kind = "ok"

\* The names asked for by the options of a kind, whatever their order.
Asked(kind) ==
  UNION {ToSet(names[options[i].list]) :
           i \in {j \in 1..Len(options) : options[j].kind = kind}}

Writable(x) == call.helper \notin WriteShaped \/ ~isReadOnlyField(x)

\* An option names what no listed field is called, a read-only column is to
\* be written, or columns are both asked for and asked away.
Mistaken ==
  \/ Asked("WithColumns") # {} /\ Asked("WithoutColumns") # {}
  \/ ~(Asked("WithColumns") \cup Asked("WithoutColumns") \subseteq ToSet(Names(fl)))
  \/ \E x \in ToSet(fl) : x.name \in Asked("WithColumns") /\ ~Writable(x)

\* The fields a mask without mistakes asks for, in declaration order.
Wants(x) ==
  /\ Writable(x)
  /\ IF Asked("WithColumns") # {} THEN x.name \in Asked("WithColumns")
     ELSE x.name \notin Asked("WithoutColumns")
WantedAt == {n \in 1..Len(fl) : Wants(fl[n])}
Wanted   == Subsequence(fl, WantedAt)

\* Columns and values are collected in step, never past the listing.
TypeOK ==
  /\ pc \in {"idle", "options", "list", "fields", "returned"}
  /\ call.helper \in Helpers \cup {"none"}
  /\ applied \in 0..Len(options) /\ Len(options) <= MaxOptions
  /\ Len(cols) = Len(vals) /\ Len(ret.cols) = Len(ret.vals)
  /\ pos = 1 \/ (pc = "fields" /\ pos \in 1..(Len(fl) + 1) /\ Len(cols) < pos)
  /\ ret.kind \in {"none", "ok", "err", "panic"} /\ (ret.kind = "none") = (pc # "returned")

\* A mask-taking helper gives the columns that were asked for, in declaration
\* order and once each, however many options asked in whatever order and
\* whatever became of the caller's lists since, each with the value of the
\* field of that name: MutationColumnsAndValues, MutationMap, ParamsMap.
MaskKeptExactly ==
  Succeeded(MaskTaking) =>
    ret.cols = Names(Wanted) /\ Indexes(ret.vals) = Indexes(Wanted)

\* ErrInvalidColumnMask exactly for the mistakes documented, options.go:117.
MistakesReported ==
  Returned(MaskTaking) /\ structValueError(call.v) = "" =>
    (ret.err = "ErrInvalidColumnMask" <=> Mistaken)

\* StructColumns, RowTypeFor and StructColumnsAndValues align (struct.go:158):
\* each gives every listed column, read-only ones too and whatever masks the
\* caller holds, in one order, the type the inference of its own field and
\* the value the encode of its own field.  Whether type and value agree is
\* the encode's affair: by the built-in rules they do (TypeAgreement), under
\* an encoder of the caller's they need not.
AlignedWithRowType ==
  Succeeded({"StructColumns", "RowTypeFor", "StructColumnsAndValues"}) =>
    /\ ret.cols = Names(fl) /\ Indexes(ret.vals) = Indexes(fl)
    /\ \A i \in 1..Len(fl) :
         /\ call.helper = "RowTypeFor" => ret.vals[i].type = Inference[fl[i].type].type
         /\ call.helper = "StructColumnsAndValues" =>
              \E r \in Encoding[call.opts][fl[i].type] :
                r.kind = "ok" /\ ret.vals[i].type = r.type

\* A StructFieldError names the first field that could not be inferred or
\* encoded, with its index in StructColumns, and no field after it is tried.
FirstFailureNamed ==
  LET fails(x) == IF call.helper = "RowTypeFor" THEN Inference[x.type].kind = "err"
                  ELSE \E r \in Encoding[call.opts][x.type] : r.kind = "err"
      passes(x) == IF call.helper = "RowTypeFor" THEN Inference[x.type].kind = "ok"
                   ELSE \E r \in Encoding[call.opts][x.type] : r.kind = "ok"
  IN  /\ Returned({"RowTypeFor", "StructColumnsAndValues"}) /\ ret.kind = "err" =>
           \/ ret.err \in {"ErrNotStruct", "ErrNilStructPointer"} /\ ret.path = <<>>
           \/ \E n \in 1..Len(fl) :
                /\ ret.path = <<AtField(n - 1)>> /\ fails(fl[n])
                /\ \A i \in 1..(n - 1) : passes(fl[i])
                /\ call.helper = "StructColumnsAndValues" => encoded = SubSeq(Names(fl), 1, n)

\* The write and parameter helpers panic exactly when a column they are asked
\* for lies behind a nil embedded pointer; a mask that leaves such columns
\* out makes the struct usable.
PanicsOnWantedOnly ==
  Returned(MaskTaking) /\ structValueError(call.v) = "" /\ ~Mistaken =>
    (ret.kind = "panic" <=> \E n \in WantedAt : BehindNil(call.v, fl[n]))
=============================================================================
