--------------------------- MODULE EncodeSession ---------------------------
(***************************************************************************)
(* What a whole session of EncodeValue promises, once it has returned, as  *)
(* far as it can be said without looking inside values: the types given,   *)
(* the caller's encoders that ran, panics and termination.                 *)
(***************************************************************************)
EXTENDS EncodeValue

Returned == pc = "returned"

\* No encoder of the caller's ran, and none of its types was registered.
Unhooked == seen.consulted = {} /\ cfg.goTypes = <<>>

\* The value is encoded by the built-in rules under an inferable type.
Plain(api) == Returned /\ call.api = api /\ Unhooked /\ schema.kind = "ok"

\* TypeFromGoType returns "the type that ValueOf produces for values of the
\* given Go type" (typeof.go): the two walks, over types and over values,
\* agree for every Go type, NULL or not; and what one calls unsupported the
\* other does not encode.
TypeAgreement ==
  /\ Plain("ValueOf") /\ ret.kind = "ok" => ret.type = schema.type
  /\ Returned /\ call.api = "ValueOf" /\ Unhooked
       /\ schema.err \in {"ErrUnsupportedType", "ErrEmbeddedStructField", "ErrUntypedNil"}
       => ret.kind # "ok"

\* ArrayValueFromSlice gives the ARRAY type that TypeFromGoType gives the
\* slice type, except for slices the mirror encodes as arrays of STRUCT
\* although their elements alone encode as scalars ([]sql.NullString).
SliceHelperAgreement ==
  Plain("ArrayValueFromSlice") /\ ret.kind = "ok" =>
    \/ ret.type = schema.type
    \/ /\ schema.type.elem[1].code = "STRUCT"
       /\ ret.type.code = "ARRAY" /\ ret.type.elem[1].code # "STRUCT"

\* A registration "overriding a built-in type bypasses ALL mirror handling
\* for it" (options.go), and "a registered encoder for T also applies per
\* element of []T": at no depth does built-in code encode a value of the
\* caller's, struct, protobuf and Encoder types included, that has the very
\* type an encoder is registered for, unless that encoder, or the one for the
\* slice type the value was an element of, left it to the built-in code.  The
\* zero struct the code itself makes up, for the type of a nil pointer or of
\* an array's elements, is no such value, and an encoder for its type does
\* not see it (encode.go:479, 525); nor is what a pointer points to, nor the
\* slice a slice helper takes apart.
OverrideIsTotal ==
  Returned =>
    \A t \in seen.mirrored \cap DOMAIN cfg.encoders :
      t \in seen.fell \/ \E s \in seen.fell : Kind(s) = "slice" /\ Elem(s) = t

\* o registers an encoder for type t.
Registers(o, t) == o.opt = "encoder" /\ o.type = t

\* "The last registration for a given T wins": an encoder that ran, at any
\* depth, is the last one the options name for the type.
LastRegistrationWins ==
  Returned =>
    \A c \in seen.consulted : \E i \in 1..Len(call.opts) :
      /\ Registers(call.opts[i], c[1]) /\ call.opts[i].name = c[2]
      /\ \A j \in (i + 1)..Len(call.opts) : ~Registers(call.opts[j], c[1])

\* Among Go types that are neither slices of protobuf interfaces nor nested
\* slices of a named byte type (InterfacePanics and NestedBytesPanics are runs
\* of those), the package panics on one thing only: an encoder registered for
\* an interface type (options.go:83).
PanicsOnInterfaceEncoder ==
  Returned /\ "panic" \in {ret.kind, schema.kind} =>
    \E i \in 1..Len(call.opts) :
      call.opts[i].opt = "encoder" /\ Kind(call.opts[i].type) = "interface"

\* Neither walk nests deeper than the Go type and value it is given and the
\* values EncodeSpanner methods return: the stack overflows, which ends the
\* process, only when a method was called to encode what one of the same type
\* had returned, which nothing stops from going on forever (encode.go:400).
NoOverflow == ret.kind = "overflow" => seen.chased # {}

\* A call of the package comes to an end, whatever the encoders it consults
\* answer: with a result, or else as NoOverflow says.  Conversions, NullProto
\* payloads and encoders never take turns forever on one frame.
Returns == (stack # <<>> \/ pc = "options") ~> (stack = <<>> /\ pc # "options")
=============================================================================
