------------------------- MODULE EncodeProperties -------------------------
(***************************************************************************)
(* What a whole session of EncodeValue promises about the value it gave.   *)
(* The reference definitions recurse over values and types, so this module *)
(* is for TLC; what can be said without them is in EncodeSession.          *)
(***************************************************************************)
EXTENDS EncodeSession, SequencesExt

(***************************************************************************)
(* References.                                                             *)
(***************************************************************************)

\* The exported fields of a struct, by index, in declaration order.
Exported(t) ==
  SelectSeq([i \in 1..Len(Fields(t)) |-> i], LAMBDA i : Fields(t)[i].exported)

\* The wire value that v denotes at type t: NULL for what is nil or invalid,
\* the elements or the exported fields in order, or the literal.
RECURSIVE Denoted(_, _)
Denoted(v, t) ==
  CASE v.nil -> NullWire
    [] ~v.nil /\ t.code = "ARRAY" ->
         ListWire([i \in 1..Len(v.parts) |-> Denoted(v.parts[i], t.elem[1])])
    [] ~v.nil /\ t.code = "STRUCT" ->
         LET fs == Exported(v.type)
         IN  ListWire([k \in 1..Len(fs) |-> Denoted(v.parts[fs[k]], t.fields[k].type)])
    [] OTHER ->
         IF v.lit = "null" THEN NullWire
         ELSE IF v.lit = "CommitTimestamp" THEN LitWire("spanner.commit_timestamp()")
         ELSE LitWire(v.lit)

\* A wire value has the shape its type calls for, at every depth, and every
\* type in it is complete.
RECURSIVE Fits(_, _)
Fits(w, t) ==
  /\ t.code # "NONE"
  /\ t.code = "ARRAY" => Len(t.elem) = 1 /\ t.elem[1].code # "NONE"
  /\ (t.code = "ARRAY" /\ ~w.null) =>
       \A i \in 1..Len(w.list) : Fits(w.list[i], t.elem[1])
  /\ (t.code = "STRUCT" /\ ~w.null) =>
       /\ Len(w.list) = Len(t.fields)
       /\ \A i \in 1..Len(w.list) : Fits(w.list[i], t.fields[i].type)
  /\ (t.code \notin {"ARRAY", "STRUCT"} /\ ~w.null) => w.list = <<>> /\ w.lit # ""

\* Where an error's wrappers lead: the component of v at the path.
Component(v, path) == FoldLeft(LAMBDA w, step : w.parts[step[2] + 1], v, path)

\* Literals no encoding exists for.
BadLiterals == {"outOfRange", "unmarshalable"}
RECURSIVE HasBad(_)
HasBad(v) ==
  \/ v.lit \in BadLiterals
  \/ \E i \in 1..Len(v.parts) :
       /\ Kind(StructBehind(v.type)) = "struct" => Fields(v.type)[i].exported
       /\ HasBad(v.parts[i])

(***************************************************************************)
(* Properties.                                                             *)
(***************************************************************************)

\* ValueOf under the built-in rules: nil pointers, nil slices and invalid
\* Null* wrappers become NULL and nothing else does, elements and exported
\* fields keep their order and number, through any depth of named variants,
\* pointers, slices and structs.  The one exception is the quirk the code
\* mirrors: a nil named slice of UUID arrays becomes an empty array.
ValueMirrored ==
  Plain("ValueOf") /\ ret.kind = "ok" =>
    ret.wire = IF call.v.nil /\ Kind(call.v.type) = "slice"
                  /\ Kind(Elem(call.v.type)) = "array" /\ exactGoType(call.v.type) = NoType
               THEN ListWire(<<>>)
               ELSE Denoted(call.v, schema.type)

\* A value whose Go type has an inferable Spanner type fails to encode only
\* for a literal that has no encoding, and the error's wrappers lead to the
\* first such literal in the value.
FailureNamesFirstCulprit ==
  Plain("ValueOf") /\ ret.kind = "err" =>
    /\ ret.err \in {"ErrNumericOutOfRange", "ErrMarshal"}
    /\ Component(call.v, ret.path).lit \in BadLiterals
    /\ \A k \in 1..Len(ret.path) :
         LET owner == Component(call.v, SubSeq(ret.path, 1, k - 1))
             at    == ret.path[k][2] + 1
             Part(j) == Kind(StructBehind(owner.type)) = "struct"
                          => Fields(owner.type)[j].exported
         IN  Part(at) /\ \A j \in 1..(at - 1) : Part(j) => ~HasBad(owner.parts[j])

\* doc.go: "malformed GCVs never enter the spanvalue stack".  Every value
\* handed out, with or without encoders of the caller's, has the shape of its
\* type.
ResultFitsType ==
  Returned /\ ret.kind = "ok" =>
    Fits(ret.wire, IF call.api = "ValuesFromSlice" THEN ArrayOf(ret.type) ELSE ret.type)

----------------------------------------------------------------------------
(* Promises of the documentation that the code does not keep.              *)

\* TypeFromGoType answers for every Go type: interface types get
\* ErrTypeNotInferable (typeof.go).
InferenceNeverPanics == pc = "options" => schema.kind # "panic"

\* TypeFromGoType returns the type "that ValueOf produces for values of the
\* given Go type": a Go type it accepts has values that encode.
InferableNeverPanics == Plain("ValueOf") => ret.kind # "panic"

\* TypeFromGoType "returns ErrUnsupportedType for Go types the client library
\* cannot encode" (typeof.go): it returns.
InferenceReturns == pc = "describe" => ret.kind # "overflow"

\* TypeFor "returns the sppb.Type that ValueOf would produce for a non-NULL
\* value of Go type T": the values of a Go type it accepts encode, unless a
\* literal among them has no encoding.
InferableEncodes == Plain("ValueOf") /\ ~HasBad(call.v) => ret.kind # "err"

\* "Matching is by exact dynamic type only" (options.go): an encoder runs for
\* values the caller's data holds at that type, not for named variants of it.
ExactTypeMatching == \A c \in seen.consulted : c[1] = c[3]
=============================================================================
