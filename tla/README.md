# Verification of spanenc

`spanenc` turns Go values into Cloud Spanner values (`GenericColumnValue`: an
`sppb.Type` and a `structpb.Value`) with the encoding rules of the Spanner
client library, and adds what the client lacks: types derived from Go types
alone, encoders registered per call, row-shaped helpers for structs, and a
compiled `RowEncoder`. This directory holds TLA+ models of it, the TLC runs
that check them, and TLAPS proofs.

## Inventory

| Component | Source | State | Operations | What makes it correct |
|---|---|---|---|---|
| Type inference | `typeof.go` | static tables | `TypeFor`, `TypeFromGoType` | gives exactly the type `ValueOf` gives; answers (type or error) for every Go type |
| Value encoding | `encode.go` | `encodeConfig` of the call, the Go stack | `ValueOf`, `encodeValue` and the functions under it | the value is the one the Go value denotes; NULLs typed; errors name their place; no untyped result |
| Slice helpers | `slice.go` | none | `ValuesFromSlice`, `ArrayValueFromSlice` | homogeneous arrays, agreeing with `ValueOf` |
| Encode options | `options.go` | `encodeConfig`, built per call | `WithLossOfPrecisionHandling`, `WithValueEncoder`, `WithGoType` | override precedence at every depth; last registration wins; `ErrFallthrough` never surfaces |
| Column masks | `options.go` | `columnMaskConfig`, built per call | `WithColumns`, `WithoutColumns`, `validate`, `keep` | what is kept is what was asked; mistakes are errors |
| Row helpers | `struct.go` | process-wide field cache | `StructColumns`, `RowTypeFor`, `StructColumnsAndValues`, `MutationColumnsAndValues`, `ParamsMap`, `MutationMap` | columns and values stay aligned, in declaration order, read-only columns never written |
| `RowEncoder` | `rowencoder.go` | fields, columns, row type, compiled once and shared | `Columns`, `RowType`, `Values`, `Row`, `Rows` | immutable whatever callers do with its outputs; iteration lazy and stopped by the first error |
| NUMERIC validation | `encode.go`, `options.go` | none | `validateNumeric` | what Spanner can represent is accepted and written exactly; the rest is refused or, if asked for, rounded |
| Sentinels | `errors.go` | none | | used where documented |
| External | `gcvctor`, `typector`, `structfields`, the Spanner client | | constructors, field listing | modelled from their use here |

The package is sequential code. What outlives a call is the process-wide field
cache, the encoders compiled from it, the options and iterators a caller keeps,
and whatever was handed out; goroutines and callers share all of these. What
makes the encoding itself hard is recursion that re-enters itself with
values it made (conversions, `EncodeSpanner`, NullProto payloads, zero values of
structs), caller code that runs in the middle of it (registered encoders,
`EncodeSpanner` methods, the consumer of an iterator), two hand-kept copies of
the same rules (the type-only tables and the value switch), and panics,
overflows and errors out of the depth of a value.

## Modules

### Types and values

* `SpanTypes`: Spanner types, wire values, results, and the constructors of the
  external libraries. A result is a record with a kind: `ok`, `err` (with the
  path of `ArrayElementError` / `StructFieldError` wrappers), `panic`,
  `overflow`.
* `GoTypes`: the Go side. The constant `Go` maps type names to descriptions
  (kind, element, fields, interfaces implemented, conversions); the tables and
  predicates of `typeof.go` are operators over it.
* `EncodeValue`: the machine. `encodeValue` and `TypeFromGoType` with an
  explicit call stack; a frame is a Go function activation (`op` is which one,
  `pos` the loop index, `acc` what it has collected, `typ` its element type).
  One action per arm of the switch, hook, loop step and return. Caller code is a
  choice at each call: `Answers[f]` for registered encoder `f`,
  `EncodeSpanner[t]` for the method of type `t`, whose result a frame of its own
  (`encoder`) waits for while it is encoded in turn. `seen` is what happened on
  the way: the encoders that ran and those that fell through, the types
  built-in code encoded, at every depth (`mirrored`), and the types whose
  `EncodeSpanner` was called again inside its own result (`chased`). A session
  describes the Go type (`TypeFromGoType`), encodes, and forgets; a stack
  overflow ends the process, and the next session is one of a new process.
* `EncodeSession`: what a session promises when it has returned, as far as it can
  be said without looking inside values: types that agree, overrides, panics,
  termination. `EncodeProperties`: the rest, against reference definitions that
  recurse over values (`Denoted`, `Fits`, `HasBad`).
* `Numeric`: one NUMERIC through `validateNumeric` and the wire rendering, as
  digit arithmetic: a `big.Rat` is a fraction, what `FloatString` renders is a
  whole number of units of its last digit. `EncodeValue` takes its verdict as
  the literal `outOfRange`.

### Rows

* `StructFields`: the row-shaped field listing (`fieldCache` and the library
  behind it): flattening of embedded structs, tags, shadowing, declaration order,
  and `FieldByIndex` behind a nil embedded pointer.
* `ColumnMask`: `columnMaskConfig`: how options accumulate, `keep`, `validate`.
* `RowShapes`: the helpers of `struct.go`. A session makes mask options over name
  lists whose elements the caller goes on changing, and calls a helper, which
  applies the options (`ApplyOption`), lists and validates (`ListFields`) and goes
  through the fields, one action per loop step. `StructColumnsAndValues` also takes
  encode options, which may be refused (a panic) or bring an encoder that answers
  for a field with a type of its own. `RowProperties`: what they promise.
* `RowEncoder`: encoders of one struct type, compiled and used by goroutines.
  Every slice, row type and row is an object of a heap, named by a reference, so
  that sharing one where the code copies is visible; `held` are the objects
  callers have, and `Scribble` is a caller writing to one. `Values` and `Row`
  panic for refused options, and each column has an outcome: encoded, failed, or a
  panic, of the encode or behind a nil embedded pointer.
* `RowStream`: the abstract specification of `Rows`: each consumer gets the rows
  of the items one by one, a failure at most once and last. What it is given a
  consumer looks at and then asks for more or breaks (`Decide`): who asks after a
  row goes on (`GoOn`), who breaks or was given a failure is done (`Leave`), and
  the one is never allowed where the other is due. `RowIterator`: the iterator as written, with a range per consumer that reads an
  item, encodes it column by column and yields; it implements `RowStream` with
  `source <- captured` and the phase of a range read off its program counter and
  what `yield` returned.

`RowShapes`, `RowEncoder` and `RowIterator` take what encoding a field may give
(`Inference`, `Encoding`, `Encode`) as constants, for each of the encode options a
caller may pass: a value, an error or a panic. The loops tell no more apart; that
types and values agree is shown of `EncodeValue`, not here. A stack overflow in the
encode of a field ends the process and with it the helper, and is left out.

### Instances and proofs

`MCUniverse` and `MCEncode` (the universe of Go types, and the calls of each
run), `MCRows`, `MCRowEncoder`, `MCRowIterator`, `MCNumeric`; `EncodeProofs`,
`EncodeSessionProofs`, `NumericProofs`, `RowLemmas`, `RowProofs`,
`RowEncoderProofs`, `RowIteratorProofs`, `TypeAgreementProofs`.

## Runs

| Run | Shows |
|---|---|
| `EncodeSessions` | every type of the universe, plain and with caller code inside the encode. Types and values agree (`TypeAgreement`, `SliceHelperAgreement`), the value is the one denoted (`ValueMirrored`), errors name the first culprit, no untyped or ill-fitting result (`UsableType`, `ResultFitsType`, `HomogeneousElements`), the hook reaches every depth (`OverrideIsTotal`, `LastRegistrationWins`), `ErrFallthrough` stays inside, nothing panics but a refused option (`PanicsOnInterfaceEncoder`), and the stack overflows only when `EncodeSpanner` methods chase one another (`NoOverflow`) |
| `EncodeReturns` | `Returns`: calls that re-enter `encodeValue` come to an end, with a result or with the overflow of `NoOverflow` |
| `RowMasks` | every helper, struct and pair of mask options: the columns asked for are the ones given, mistakes are the documented errors, rows align with row types under any encode options, the first failure is named, panics only for columns wanted |
| `RowEncoderShared` | two goroutines and scribbling callers: `CacheIntact`, `EncodersIntact`, `ResultsIntact`; a row type that can not be inferred fails `RowType` and nothing else; failures name the masked column, and panics are those of options and of the encoder's own columns |
| `RowsFollowStream` | two consumers of one iterator: `FollowsStream` (refinement: nothing after a break or a failure, no early end) and `AnswersAsStream` (with liveness) |
| `NumericDigits` | representable values are exact, accepted ones fit |
| `InterfacePanics`, `NestedBytesPanics`, `RecursiveType`, `EnumEncoderSlice`, `NamedVariant`, `NumericInexact` | violated: see findings |

### Bounds

*Encoding.* Values nest four deep, slices have up to two elements (three in the
error-path values), and `StackLimit` is 8 frames, more than the universe
needs: `NoOverflow` would fail otherwise. `echo` returns its own receiver, `ping` and
`pong` each other: chains of these overflow any stack, and return when a method
answers something else. The walks treat an element or a field
by its type and literal alone, so two elements, one of them special, show every
order of success and failure; every arm of both switches is reached by some
type. Only `RecursiveType` has a type that nests without end, with `StackLimit`
12. Zero values are built six structs deep; that no struct nests deeper by value
is the named `NestingAssumption`, which TLC evaluates for the universe.
`EncodeReturns` takes only the calls that re-enter.

*Rows.* `MCRows` has one struct for each way a listing can differ from the
declaration (an embedded struct, by value, by pointer, unexported, tagged; a name
shadowed by depth and by tag; a tag `-`; a read-only field; no field), and fields
that encode, fail and panic. `MaxOptions` is 2: options act one after the other
on two lists, so that a pair has every combination of kinds and of a list used
twice, and an option made before and after another. There are three encode options: none,
an encoder for `string` that writes another type or fails, and a refused one.
`RowEncoderShared` allows 3 calls (`MaxCalls`): two constructions and a method,
or one construction and two methods at once by two goroutines, symmetric to one
another; sharing needs two uses of one object, and these are all the pairs. The
object a buffer pool or an uncopied slice would share shows in them (see the
mutants). `RowsFollowStream` has slices of up to 2 items (`MaxItems`), one column,
and the check of the item and options before it (column 0): a range can fail or
panic before, at and after its first row.

*Digits.* `Base` 10 with one digit on each side of the point; the values run from
below the smallest digit to past the largest, over ten denominators. The proofs
hold for any base, scale and fraction.

`CHECK_DEADLOCK FALSE` is set where a session ends: after `MaxCalls` calls in
`RowEncoderShared`, after the one value of `NumericDigits`.

### Fairness

The package is sequential code that runs until it returns, so its own steps are
weakly fair and the caller's are not: `EncodeValue` (`Package`), and in
`RowIterator` each consumer's `Step(c)`, since goroutines that can run are
scheduled. Encoders and `EncodeSpanner` methods are steps that return at once, and a
loop body of a consumer may never end. `RowShapes`, `RowEncoder` and `Numeric`
claim safety only: their loops range over finite listings.

## Findings

Each with a run TLC finds violated:

* `TypeFromGoType` panics for slices of `proto.Message` and `protoreflect.Enum`
  interfaces, documented to give `ErrTypeNotInferable` (`InterfacePanics`).
* `ValueOf` panics on `[][]myByte`, a type `TypeFor` accepts
  (`NestedBytesPanics`).
* `TypeFromGoType` never returns on a self-referential struct type
  (`RecursiveType`).
* A slice of enums that implement `spanner.Encoder` gets `ARRAY<ENUM>`, a type
  its values never encode to (`EnumEncoderSlice`).
* A registered encoder also fires for named variants, by re-encoding
  (`NamedVariant`).
* A NUMERIC whose first digit beyond the scale rounds to zero passes
  `NumericError` and is written rounded (`NumericInexact`).

Seen while modelling, without a run:

* A registered encoder's nil-`Type` answer is handed on to the caller of
  `ValueOf`: `UsableTypes` assumes typed answers.
* A registration for `[]T` hides the one for `T`, even when its encoder falls
  through: the built-in code then encodes the elements, although "a registered
  encoder for T also applies per element of []T" (`options.go:68`).
  `OverrideIsTotal` waives the elements of such a slice.
* `WithColumns()` with no names, or with an empty list, leaves the include list
  nil and restricts nothing.
* An `EncodeSpanner` method that returns its receiver, or two that return one
  another's, recurse until the stack overflows (`encode.go:400-405`); the
  documentation does not speak of it.
* The zero struct that stands for a nil `*S`, and the one an array of structs takes
  its type from, are encoded by the built-in code although an encoder is registered
  for `S` (`encode.go:479`, `525`): the NULL is a `STRUCT` whatever that encoder
  makes of an `S`. `OverrideIsTotal` is about the caller's values.
* `StructColumnsAndValues` "stays aligned with [StructColumns] and [RowTypeFor]"
  (`struct.go:158`) in columns and order; under `WithValueEncoder` the type of a
  value may be another than the row type's. `AlignedWithRowType` says which part
  holds.
* The listing of the library drops fields of one name, so the duplicate-column
  errors of `ParamsMap` and `MutationMap` (`struct.go:235`, `266`) never arise.

## Proofs

Proved by TLAPS for every value of the constants; assumptions are the named
`ASSUME`s of the modules, and those stated with a theorem.

**`EncodeProofs`**, for every Go universe, set of calls, stack limit and
behaviour of the caller's code: `TypeCorrectness`; `Homogeneity`; `UsableTypes`,
if registered encoders answer typed values (`TypedAnswers`); `SentinelConsumed`,
if no `EncodeSpanner` method returns `ErrFallthrough` (`QuietMethods`). The
invariants the runs check speak of results and of what frames have collected, and
are not inductive: a result becomes part of a frame, a frame's element type part
of a result, and a frame changes function. `IInv` says of each frame what it may
assume about itself (`FrameOK`: nothing collected before its loop starts, every
collected part typed, a loop that has started has its type, the slice helper's
parts are of its type) and of the result in flight `ResultOK`. Lemmas about
replacing, popping and pushing frames carry the stack. `StackAssumption` asks for
room for two frames, `AnswersAssumption` that caller code returns a value or an
error.

**`RowIteratorProofs`**: `TypeCorrectness`, and `Refinement`: `Spec =>
FollowsStream`, for any items, options, columns and consumers. The type invariant
does not say which values a range has collected, so the inductive invariant adds,
for a range between two rows' boundaries, that the item it holds is the one at its
place of the slice as it is now (the caller does not write while a range reads),
that every column before the current one encoded under the options as they are
now, and that the values collected are those of the abstract row. Each step then
maps to the stream's step of the same name or stutters: a yield to `GiveRow` or
`GiveFailure`, the end of a loop body to `Decide`, what `!yield(row, err) || err != nil`
makes of it to `GoOn` or `Leave`, the end of the slice to `End`, reading and encoding
to nothing.

**`NumericProofs`**: `TypeCorrectness`, `Exactness`, `Acceptance`.
The invariant is that the result is the one of the current value; the work is the
arithmetic of rounded quotients: a quotient is the only number within half a unit
of the fraction, so a carry, a sign or a trailing zero can not move it past a
limit. No bound on digits, unlike the run.

**`RowEncoderProofs`**: `CacheUntouched` (`CacheIntact`), `EncodersImmutable` (no
step rewrites a published encoder or what it refers to) and
`ResultsBelongToCallers` (no step but the caller's own rewrites what was handed
out), for any number of goroutines and calls. `CacheIntact` alone is not
inductive: nothing in it keeps a goroutine from filling the listing's array. The
invariant is ownership: every object but the listing belongs to published
encoders, to callers, or to the one goroutine that fills it, and these sets are
disjoint. Every step of a goroutine is shown to touch only what is its own
(`Touches`): it writes to private objects, makes new ones, and hands on what it
does not keep; one lemma then carries the invariant over any such step.

Its second part proves the remaining properties of `RowEncoderShared`:
`EncoderTypeCorrect`, `EncodersStayIntact`, `ResultsStayIntact`,
`RowTypeErrorsAreKept`, `FailuresNameColumns`. Ownership says who may write
what; the invariant here, `Sound`, says what the objects contain: a buffer under
construction the fields passed so far, an encoder what its mask asks for, a
result what its call promises. What one goroutine has filled in is still there
after any step of another because that step touches only what it owns.
`FailuresNameColumns` takes any options and any outcome of an encode, panics included,
and says which of a row's columns decides. `RowEncoderAssumption` excludes struct types
whose row type never returns (`RecursiveType`).

**`EncodeSessionProofs`**: `OverridesAreTotal`, `LastRegistrationsWin` and
`PanicsAreDocumented` (`PanicsOnInterfaceEncoder`), for every Go universe,
options, and behaviour of the caller's encoders. Where
built-in code encodes the elements of a slice in one go (`encodeSlice`), it has
looked at the slice's type only; that no element has an encoder of its own rests
on what Go guarantees of a value, that the elements of a `[]T` are `T`s. So the
invariant `SInv` says of every value on the stack that it is `WellFormed`: it and
everything in it is put together as its type says (`Shaped`). The hypothesis
`GoValues` asks that of the values the caller passes, and of those `EncodeSpanner`
methods return; those the package makes
itself, by conversion (`ConvertedWellFormed`) and as zero values of structs
(`ZeroWellFormed`), are proved to be. `Stacked` adds for each frame what its
function relies on, above all that a frame at the switch has been through the
hook (`Deferred`); `Ran` that what built-in code encoded had no encoder or one
that fell through, structs, protobuf and `Encoder` types included, and in the stack
as well as in the result; `Session` that the configuration is what the options applied
so far make. Well-formedness all the way down is membership in a set closed under
parts, so that no induction over values is needed. `BaseAssumption` says that the
types the package names are what Go, the client and protobuf make them (an untyped
nil has no kind, so it is no struct and no pointer), that a
conversion keeps a kind, and that only byte slices convert to `[]byte`;
`CallsAssumption` that options are those of `options.go` and that slice helpers
are given slices.

`PanicsAreDocumented` takes the universes without the two findings
`InterfacePanics` and `NestedBytesPanics` (`NoProtoInterfaces`, `NoNamedBytes`):
there no `reflect` call, conversion or type assertion panics. Its invariant `PInv`
says that a panic in flight was raised by a refused option, before anything ran,
and that the inference is only asked about types of the universe. That a
conversion element by element never panics is the interesting case: the base of
a slice type is chosen by its element type, and the elements are of that type
because a value is `WellFormed`. `ConversionAssumption` has the conversions Go
always allows.

**`RowProofs`** (with `RowLemmas`): the six safety properties of the `RowMasks`
run, for any struct types, lists, options and values: `RowTypeCorrect`,
`MasksKeptExactly`, `MistakesAlwaysReported`, `RowsAlignedWithType`,
`FirstFailureIsNamed`, `OnlyWantedPanic`. The properties speak of the result, the
invariant of how it comes about: `Masking`, that the mask is the union of the
lists, as they are now, of the options applied so far; `Walk`, that what the
loop has collected is the subsequence of wanted ones among the fields it has
passed, in step with the values; `Promises`, the properties themselves once a
helper has returned. A subsequence is defined by rank (the n-th of a set of
positions) and not by recursion, so that adding the next field is arithmetic.
`ListingAssumption` is that listed names are distinct, which the field library
guarantees; `RowShapesAssumption` types the constants. `RowsAlignedWithType` assumes
nothing of how the type and the value of a field relate: each is shown to be that of
its own field, in one order, whatever encoders the options bring.

**`TypeAgreementProofs`**: `TypesAgree` (`TypeAgreement`), for every Go universe,
value and options: what `ValueOf` encodes has the type `TypeFromGoType` infers for
its Go type, and of a type refused as unsupported nothing is encoded. The two walk
the same types in different orders and through different code (the inference has no
hook, no nil shortcuts and no conversion of values), so the theorem relates two
executions that share no state. The meeting point is `Inferred(t, a)`, the rules of
the inference as a relation: `a` is an answer for `t` if a set of pairs
`<type, answer>` that has the pair is grounded, that is, each of its members
follows by the rules from nothing in finitely many steps (only the whole set is
closed under them). Grounded sets are closed under union and under adding what
follows from them, so no induction over types is needed; a recursive type, on which
the walk overflows, has no answer. The inductive invariant `TInv` has a part for
each half: the inference's result is `Inferred` for the type it was called on and
each of its frames is part of such a walk (`Linked`); while no encoder of the
caller's has run, the encode's result and what its frames have collected agree with
every answer `Inferred` for their Go type (`Expected`). `TypeAgreement` itself
speaks only of the last state of the two calls, and nothing in it survives a step.

`SliceHelpersAgree` (`SliceHelperAgreement`), of the same invariant: what
`ArrayValueFromSlice` makes has the type `TypeFromGoType` infers for the slice
type, but where the inference sees structs and the elements alone are none
(`[]sql.NullString`). The helper asks for the element type and wraps it, the
inference may find the slice in a table, through its own base type, or by
reflection over its elements. The invariant says that the helper's array is one of
an answer for its element type; `SliceInferred`, that the slice type's answer is
the `ARRAY` of any such answer, is a fact of the tables and needs that a type has
one answer (`OneAnswer`: what follows from parts with one answer each has one).

Hypotheses: `GoValues`, as above, and `OneDescriptor`, that no Go type is a protobuf
message and an enum at once (the two functions would disagree on one: they ask in a
different order, and protobuf generates none). `SliceHelpersAgree` also rests on
`TableAssumption` (module `GoTypes`): that the client's structs for two Spanner
types differ in a field, so that none converts to the other. The client's source is
not part of the repository; `customStructBases` presupposes it, since it takes the
first base a type converts to, and `NullJSON` comes before `PGJsonB`.

Only model-checked: `ValueMirrored`, `FailureNamesFirstCulprit` and
`ResultFitsType`, which compare a whole walk with
a reference that recurses over a type or value, and the prover has no induction
over data; `NoOverflow`, which holds of the universe the run takes (one with a
recursive type overflows, see the findings) and bounds the depth of types and
values, again by induction; and all liveness (`Returns`, `AnswersAsStream`), since the
prover has neither `ENABLED` nor fairness. `Returns` says that a call ends, `NoOverflow`
how: without a result only where `EncodeSpanner` methods chase one another.

## Not modelled

* Payloads: a literal is a name, told apart only where the encoder does
  (`outOfRange`, `unmarshalable`, `CommitTimestamp`, `null`); a row's value is
  told by its field and item.
* Aliasing of protobuf messages below a result: types are values here, so that
  `ValuesFromSlice` handing out the caller's own `WithGoType` message is not seen.
* The text of errors, and what the external libraries do beyond their use here.
* Data races of the caller's own making: items written while a range reads them.
