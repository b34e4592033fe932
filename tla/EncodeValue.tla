---------------------------- MODULE EncodeValue ----------------------------
(***************************************************************************)
(* encodeValue and TypeFromGoType, the two mutually recursive walks of     *)
(* encode.go and typeof.go, as one machine with an explicit Go call stack. *)
(*                                                                         *)
(* A session of a caller: it derives the Spanner type of the Go type of a  *)
(* value (TypeFromGoType), as one does to announce a row type, and then    *)
(* encodes the value with ValueOf, ArrayValueFromSlice or ValuesFromSlice  *)
(* under some options.  The package runs the caller's code in the middle   *)
(* of an encode, at the encoders WithValueEncoder registered and at        *)
(* EncodeSpanner methods: what those return is a choice made at each call. *)
(*                                                                         *)
(* A frame's op says which function it is in and where:                    *)
(*   value, switch         encodeValue, before and after its encoder hook  *)
(*   struct, nilStruct     encodeStructValue; nilStruct awaits the encoded *)
(*                         zero value of a nil pointer's struct            *)
(*   structArray           encodeStructArrayValue; at pos 0 it awaits the  *)
(*                         encoded zero value of the element type          *)
(*   protoArray, customSlice, sliceElements    the functions of that name  *)
(*   encoder               encodeViaEncoder, awaiting the encoded result   *)
(*                         of EncodeSpanner                                *)
(*   typeOf, structType    TypeFromGoType, structTypeFromGoType            *)
(*   arrayType             TypeFromGoType, awaiting the element STRUCT     *)
(* Any other call in tail position replaces its frame.                     *)
(***************************************************************************)
EXTENDS GoTypes

CONSTANTS
  Calls,          \* what the caller asks: [api, v, opts]
  Answers,        \* Answers[f]: the results registered encoder f may give
  EncodeSpanner,  \* EncodeSpanner[t]: the [v, err] t's method may return
  StackLimit      \* frames the Go stack has room for

ASSUME StackAssumption == StackLimit \in Nat /\ StackLimit > 1

\* Code of the caller's returns a value or an error.
ASSUME AnswersAssumption ==
  \A f \in DOMAIN Answers : \A r \in Answers[f] :
    IsResult(r) /\ r.kind \in {"ok", "err"}

\* A caller's options are the three of options.go, and the slice helpers take
\* slices.
ASSUME CallsAssumption ==
  \A c \in Calls :
    /\ c.api # "ValueOf" => Kind(c.v.type) = "slice"
    /\ c.opts \in Seq({c.opts[i] : i \in DOMAIN c.opts})
    /\ \A i \in DOMAIN c.opts : c.opts[i].opt \in {"handling", "encoder", "goType"}

VARIABLES
  pc,        \* where the session is
  call,      \* the caller's request
  schema,    \* what TypeFromGoType answered for the value's Go type
  todo,      \* options not applied yet
  cfg,       \* the encodeConfig of the call
  stack,     \* the Go call stack, innermost frame last
  ret,       \* result on its way from a returned frame to its caller
  seen       \* what ran: see Nothing

vars == <<pc, call, schema, todo, cfg, stack, ret, seen>>

Ops == {"value", "switch", "struct", "nilStruct", "structArray", "protoArray",
        "customSlice", "sliceElements", "encoder", "typeOf", "structType", "arrayType"}

NoCall == [api |-> "none", v |-> NilValue(UntypedNil), opts |-> <<>>]

\* consulted: <<type, encoder, type of the value the caller's data held>> of
\* every registered encoder that ran; fell: the types whose encoder answered
\* ErrFallthrough; mirrored: the types of the values built-in code encoded;
\* chased: the types whose EncodeSpanner method was called to encode what one
\* of the same type had returned.
Nothing == [consulted |-> {}, fell |-> {}, mirrored |-> {}, chased |-> {}]

DefaultConfig == [handling |-> "NumericError", encoders |-> <<>>, goTypes |-> <<>>]

Frame(op, v) == [op |-> op, v |-> v, from |-> v.type,
                 typ |-> NoType, pos |-> 0, acc |-> <<>>]
TypeFrame(op, t) == [Frame(op, NilValue(t)) EXCEPT !.pos = 1]

top     == stack[Len(stack)]
Running == stack # <<>> /\ ret = NoResult       \* the top frame executes
Resumed == stack # <<>> /\ ret # NoResult       \* the top frame's callee returned
At(op)  == Running /\ top.op = op

\* Ways to continue: replace the top frame, call from it, return, unwind.
Below         == SubSeq(stack, 1, Len(stack) - 1)
Become(f)     == stack' = Append(Below, f) /\ ret' = NoResult
Return(r)     == stack' = Below /\ ret' = r
Abort(r)      == stack' = <<>> /\ ret' = r
ReturnOrPanic(r) == IF r.kind = "panic" THEN Abort(r) ELSE Return(r)
CallFrom(f, callee) ==
  IF Len(stack) >= StackLimit THEN Abort(StackOverflow)
  ELSE stack' = Append(Append(Below, f), callee) /\ ret' = NoResult

Outside  == UNCHANGED <<pc, call, schema, todo, cfg>>
Internal == Outside /\ UNCHANGED seen

----------------------------------------------------------------------------
(* The session.                                                            *)

\* Mutation: a registration that keeps the first encoder of a type.
AssignedOnce(m, k, x) ==
  [j \in DOMAIN m \cup {k} |-> IF j \in DOMAIN m THEN m[j] ELSE x]

\* m with x at key k, as a Go map assignment leaves it.
Assigned(m, k, x) == [j \in DOMAIN m \cup {k} |-> IF j = k THEN x ELSE m[j]]

Init ==
  /\ pc = "idle" /\ call = NoCall /\ schema = NoResult /\ todo = <<>>
  /\ cfg = DefaultConfig /\ stack = <<>> /\ ret = NoResult /\ seen = Nothing

\* The caller derives the type of its value's Go type: TypeFromGoType.
CallTypeFromGoType ==
  /\ pc = "idle"
  /\ \E c \in Calls :
       /\ call' = c
       /\ stack' = <<TypeFrame("typeOf", c.v.type)>>
  /\ pc' = "describe"
  /\ UNCHANGED <<schema, todo, cfg, ret, seen>>

\* It has the type, or the error, or recovered from a panic, and calls an
\* encoding function: the function starts from the default configuration
\* (newEncodeConfig).  A stack overflow ends the process.
CallEncode ==
  /\ pc = "describe" /\ stack = <<>> /\ ret.kind # "overflow"
  /\ schema' = ret /\ ret' = NoResult
  /\ todo' = call.opts /\ cfg' = DefaultConfig
  /\ pc' = "options"
  /\ UNCHANGED <<call, stack, seen>>

\* newEncodeConfig applies the next option; an encoder registered for an
\* interface type panics there.
ApplyOption ==
  /\ pc = "options" /\ todo # <<>>
  /\ LET o == Head(todo) IN
     IF o.opt = "encoder" /\ Kind(o.type) = "interface"
     THEN /\ ret' = Panic /\ todo' = <<>> /\ pc' = "encode" /\ UNCHANGED cfg
     ELSE /\ todo' = Tail(todo)
          /\ cfg' = CASE o.opt = "handling" -> [cfg EXCEPT !.handling = o.name]
                      [] o.opt = "encoder" ->
                           [cfg EXCEPT !.encoders = Assigned(@, o.type, o.name)]
                      [] o.opt = "goType" ->
                           [cfg EXCEPT !.goTypes = Assigned(@, o.type, o.styp)]
          /\ UNCHANGED <<ret, pc>>
  /\ UNCHANGED <<call, schema, stack, seen>>

\* cfg.goTypes[t]: the registered type, or nil.
goType(t) == IF t \in DOMAIN cfg.goTypes THEN cfg.goTypes[t] ELSE NoType

\* The options are applied: ValueOf encodes its argument, the slice helpers
\* start with the element type, registered or inferred.
Begin ==
  /\ pc = "options" /\ todo = <<>>
  /\ LET loop == Frame("sliceElements", call.v)
         et   == Elem(call.v.type)
     IN  stack' =
           IF call.api = "ValueOf" THEN <<Frame("value", call.v)>>
           ELSE IF goType(et) # NoType
           THEN <<[loop EXCEPT !.typ = goType(et), !.pos = 1]>>
           ELSE <<loop, TypeFrame("typeOf", et)>>
  /\ pc' = "encode"
  /\ UNCHANGED <<call, schema, todo, cfg, ret, seen>>

Finish ==
  /\ pc = "encode" /\ stack = <<>>
  /\ pc' = "returned"
  /\ UNCHANGED <<call, schema, todo, cfg, stack, ret, seen>>

\* The caller has its result and forgets it, or its process, which a stack
\* overflow ended, is started again; no state of the package is left.
Forget ==
  /\ pc = "returned"
  /\ pc' = "idle" /\ call' = NoCall /\ schema' = NoResult
  /\ cfg' = DefaultConfig /\ ret' = NoResult /\ seen' = Nothing
  /\ UNCHANGED <<todo, stack>>

----------------------------------------------------------------------------
(* TypeFromGoType.                                                         *)

\* The answer TypeFromGoType gives without looking inside t, or NoResult.
inferredDirectly(t) ==
  IF t = UntypedNil THEN Err("ErrUntypedNil")
  ELSE IF exactGoType(t) # NoType THEN OkType(exactGoType(t))
  ELSE IF t \in notInferableGoTypes \/ Implements(t, "Encoder")
  THEN Err("ErrTypeNotInferable")
  ELSE IF Implements(t, "Enum") THEN TypeFromDescriptor("ENUM", t)
  ELSE IF Implements(t, "Message") THEN TypeFromDescriptor("PROTO", t)
  ELSE NoResult

\* The same for a slice of protobuf values: its ARRAY type.
inferredProtoSlice(et) ==
  LET r == TypeFromDescriptor(IF Implements(et, "Enum") THEN "ENUM" ELSE "PROTO", et)
  IN  IF r.kind = "ok" THEN OkType(ArrayOf(r.type)) ELSE r

\* Which arm of TypeFromGoType decides on t.
InferCase(t) ==
  IF inferredDirectly(t) # NoResult THEN "direct"
  ELSE IF customBaseGoType(t) # NoGoType THEN "custom"
  ELSE IF IsStructOrStructPtr(t) THEN "struct"
  ELSE IF Kind(t) = "slice" /\ Go[Elem(t)].impl \cap {"Enum", "Message"} # {}
  THEN "protoSlice"
  ELSE IF Kind(t) = "slice" /\ IsStructOrStructPtr(Elem(t)) THEN "structSlice"
  ELSE IF Kind(t) = "interface" THEN "interface"
  ELSE "unsupported"

Infers(case) == At("typeOf") /\ InferCase(top.v.type) = case

InferDirectly ==
  \/ Infers("direct")      /\ ReturnOrPanic(inferredDirectly(top.v.type)) /\ Internal
  \/ Infers("protoSlice")  /\ ReturnOrPanic(inferredProtoSlice(Elem(top.v.type))) /\ Internal
  \/ Infers("interface")   /\ Return(Err("ErrTypeNotInferable")) /\ Internal
  \/ Infers("unsupported") /\ Return(Err("ErrUnsupportedType")) /\ Internal

InferInside ==
  \/ /\ Infers("custom")
     /\ Become(TypeFrame("typeOf", customBaseGoType(top.v.type)))
     /\ Internal
  \/ Infers("struct") /\ Become(TypeFrame("structType", top.v.type)) /\ Internal
  \/ /\ Infers("structSlice")
     /\ CallFrom([top EXCEPT !.op = "arrayType"], TypeFrame("structType", Elem(top.v.type)))
     /\ Internal

ArrayTypeDone ==
  /\ Resumed /\ top.op = "arrayType" /\ ret.kind = "ok"
  /\ Return(OkType(ArrayOf(ret.type)))
  /\ Internal

----------------------------------------------------------------------------
(* encodeValue: the encoder hook.                                          *)

HasEncoder(t) == t # UntypedNil /\ t \in DOMAIN cfg.encoders

\* Mutation: slices are not looked into.
HookOnWholeOnly(t) == FALSE

HookOnElems(t) == ~HasEncoder(t) /\ Kind(t) = "slice" /\ HasEncoder(Elem(t))

Mirror == Become([top EXCEPT !.op = "switch"])

SkipEncoders ==
  /\ At("value") /\ ~HasEncoder(top.v.type) /\ ~HookOnElems(top.v.type)
  /\ Mirror /\ Internal

\* Mutation: the sentinel is not told from other errors.
NeverFallsThrough(r) == FALSE

IsFallthrough(r) == r.err = "ErrFallthrough"

\* The encoder registered for the dynamic type runs; its answer stands
\* unless it is ErrFallthrough.
ConsultEncoder ==
  /\ At("value") /\ HasEncoder(top.v.type)
  /\ LET t == top.v.type
         f == cfg.encoders[t]
     IN  /\ f \in DOMAIN Answers
         /\ \E r \in Answers[f] :
              /\ IF IsFallthrough(r) THEN Mirror ELSE Return(r)
              /\ seen' = [seen EXCEPT
                   !.consulted = @ \cup {<<t, f, top.from>>},
                   !.fell = @ \cup (IF IsFallthrough(r) THEN {t} ELSE {})]
  /\ Outside

\* Mutation: a nil slice is answered before its element type is looked at.
encodeCustomSliceNilFirst ==
  /\ At("value") /\ HookOnElems(top.v.type)
  /\ LET et == goType(Elem(top.v.type)) IN
     IF top.v.nil THEN Return(NullArray(et))
     ELSE IF Len(top.v.parts) = 0 /\ et = NoType THEN Mirror
     ELSE Become([top EXCEPT !.op = "customSlice", !.typ = et, !.pos = 1])
  /\ Internal

\* encodeCustomSlice: a registration for the element type.
encodeCustomSlice ==
  /\ At("value") /\ HookOnElems(top.v.type)
  /\ LET et == goType(Elem(top.v.type)) IN
     IF Len(top.v.parts) = 0 /\ et = NoType THEN Mirror
     ELSE IF top.v.nil THEN Return(NullArray(et))
     ELSE Become([top EXCEPT !.op = "customSlice", !.typ = et, !.pos = 1])
  /\ Internal

----------------------------------------------------------------------------
(* encodeValue: the type switch.                                           *)

\* The concrete cases, one entry per Spanner type.
switchScalars ==
  [INTERVAL   |-> {"spanner.Interval", "spanner.NullInterval"},
   STRING     |-> {"string", "spanner.NullString", "sql.NullString", "*string"},
   BYTES      |-> {"[]byte"},
   INT64      |-> {"int", "int64", "spanner.NullInt64", "*int64"},
   BOOL       |-> {"bool", "spanner.NullBool", "*bool"},
   FLOAT64    |-> {"float64", "spanner.NullFloat64", "*float64"},
   FLOAT32    |-> {"float32", "spanner.NullFloat32", "*float32"},
   NUMERIC    |-> {"big.Rat", "spanner.NullNumeric", "*big.Rat"},
   PG_NUMERIC |-> {"spanner.PGNumeric"},
   JSON       |-> {"spanner.NullJSON"},
   PG_JSONB   |-> {"spanner.PGJsonB"},
   TIMESTAMP  |-> {"time.Time", "spanner.NullTime", "*time.Time"},
   DATE       |-> {"civil.Date", "spanner.NullDate", "*civil.Date"},
   UUID       |-> {"uuid.UUID", "spanner.NullUUID", "uuid.NullUUID",
                   "*uuid.UUID", "*spanner.NullUUID", "*uuid.NullUUID"}]

\* Mutation: every concrete case has a slice case.
switchElemsAll == switchScalars

switchElems ==
  [switchScalars EXCEPT
     !.STRING = {"string", "spanner.NullString", "*string"},
     !.UUID   = {"uuid.UUID", "*uuid.UUID", "spanner.NullUUID"}]

\* Which case of the switch takes a value of type t, in the code's order.
SwitchCase(t) ==
  IF t = UntypedNil THEN "nil"
  ELSE IF RowOf(switchScalars, t) # "NONE" THEN "leaf"
  ELSE IF ElemRowOf(switchElems, t) # "NONE" /\ t = SliceOf(Elem(t)) THEN "slice"
  ELSE IF t = "spanner.GenericColumnValue" THEN "gcv"
  ELSE IF t = "[]spanner.GenericColumnValue" THEN "unsupported"
  ELSE IF t \in {"spanner.NullProtoEnum", "spanner.NullProtoMessage"} THEN "nullProto"
  ELSE IF Implements(t, "Encoder") THEN "encoder"
  ELSE IF Implements(t, "Enum") \/ Implements(t, "Message") THEN "proto"
  ELSE IF customBaseGoType(t) # NoGoType THEN "custom"
  ELSE IF IsStructOrStructPtr(t) THEN "struct"
  ELSE IF Kind(t) = "slice" /\ Go[Elem(t)].impl \cap {"Enum", "Message"} # {}
  THEN "protoArray"
  ELSE IF Kind(t) = "slice" /\ IsStructOrStructPtr(Elem(t)) THEN "structArray"
  ELSE "unsupported"

Switches(case) == At("switch") /\ SwitchCase(top.v.type) = case

\* One value of a concrete case.  lit stands for what the case looks at: a
\* NUMERIC beyond precision or scale, a JSON payload that does not marshal,
\* the CommitTimestamp sentinel.
encodeLeaf(c, v) ==
  IF v.nil \/ v.lit = "null" THEN NullOf(Scalar(c))
  ELSE IF c = "NUMERIC" /\ v.lit = "outOfRange" /\ cfg.handling = "NumericError"
  THEN Err("ErrNumericOutOfRange")
  ELSE IF c \in {"JSON", "PG_JSONB"} /\ v.lit = "unmarshalable" THEN Err("ErrMarshal")
  ELSE IF c = "TIMESTAMP" /\ v.lit = "CommitTimestamp"
  THEN Ok(Scalar(c), LitWire("spanner.commit_timestamp()"))
  ELSE Ok(Scalar(c), LitWire(v.lit))

\* Mutation: the last failing element is reported.
encodeSliceLast(c, v) ==
  LET rs  == [i \in 1..Len(v.parts) |-> encodeLeaf(c, v.parts[i])]
      bad == {i \in 1..Len(rs) : rs[i].kind # "ok"}
  IN  IF v.nil THEN NullArray(Scalar(c))
      ELSE IF bad # {} THEN Wrap(rs[Max(bad)], AtElem(Max(bad) - 1))
      ELSE ArrayValueOf(Scalar(c), rs)

\* encodeSlice: a NULL array, the first element's error, or all elements.
encodeSlice(c, v) ==
  LET rs  == [i \in 1..Len(v.parts) |-> encodeLeaf(c, v.parts[i])]
      bad == {i \in 1..Len(rs) : rs[i].kind # "ok"}
  IN  IF v.nil THEN NullArray(Scalar(c))
      ELSE IF bad # {} THEN Wrap(rs[Min(bad)], AtElem(Min(bad) - 1))
      ELSE ArrayValueOf(Scalar(c), rs)

Mirrored(ts) == seen' = [seen EXCEPT !.mirrored = @ \cup ts] /\ Outside

EncodeConcrete ==
  \/ Switches("nil") /\ Return(Err("ErrUntypedNil")) /\ Internal
  \/ /\ Switches("leaf")
     /\ Return(encodeLeaf(RowOf(switchScalars, top.v.type), top.v))
     /\ Mirrored({top.v.type})
  \/ /\ Switches("slice")
     /\ Return(encodeSlice(ElemRowOf(switchElems, top.v.type), top.v))
     /\ Mirrored({top.v.type} \cup {top.v.parts[i].type : i \in 1..Len(top.v.parts)})
  \/ Switches("unsupported") /\ Return(Err("ErrUnsupportedType")) /\ Internal

\* Mutation: the client's lenient case.
PassAnyGCV ==
  /\ Switches("gcv")
  /\ Return(Ok(top.v.styp, IF top.v.lit = "null" THEN NullWire ELSE LitWire(top.v.lit)))
  /\ Mirrored({top.v.type})

\* A GenericColumnValue passes through as a deep copy, unless its Type is nil.
PassGCV ==
  /\ Switches("gcv")
  /\ Return(IF top.v.styp = NoType THEN Err("ErrUnsupportedType")
            ELSE Ok(top.v.styp, IF top.v.lit = "null" THEN NullWire ELSE LitWire(top.v.lit)))
  /\ Mirrored({top.v.type})

\* Encode another value in place of this one: encodeValue(cfg, w), with the
\* encoder hook.
Reencode(w) == Become(Frame("value", w))

\* NullProtoEnum and NullProtoMessage.
UnwrapNullProto ==
  /\ Switches("nullProto")
  /\ IF top.v.lit = "null" THEN Return(Err("ErrInvalidSource"))
     ELSE Reencode(top.v.parts[1])
  /\ Mirrored({top.v.type})

\* The types whose EncodeSpanner results are being encoded.
Answering == {stack[i].v.type : i \in {j \in 1..Len(stack) : stack[j].op = "encoder"}}

\* spanner.Encoder: encode what the value's own method returns.
encodeViaEncoder ==
  /\ Switches("encoder")
  /\ top.v.type \in DOMAIN EncodeSpanner
  /\ \E o \in EncodeSpanner[top.v.type] :
       IF o.err # "" THEN Return(Err(o.err))
       ELSE CallFrom([top EXCEPT !.op = "encoder"], Frame("value", o.v))
  /\ seen' = [seen EXCEPT !.mirrored = @ \cup {top.v.type},
                          !.chased = @ \cup ({top.v.type} \cap Answering)]
  /\ Outside

EncoderDone == Resumed /\ top.op = "encoder" /\ Return(ret) /\ Internal

\* encodeProtoEnum, encodeProtoMessage.
EncodeProto ==
  /\ Switches("proto")
  /\ LET code == IF Implements(top.v.type, "Enum") THEN "ENUM" ELSE "PROTO"
         typ  == NamedType(code, Go[top.v.type].fqn)
     IN  Return(IF top.v.nil THEN NullOf(typ)
                ELSE IF code = "PROTO" /\ top.v.lit = "unmarshalable" THEN Err("ErrMarshal")
                ELSE Ok(typ, LitWire(top.v.lit)))
  /\ Mirrored({top.v.type})

\* Mutations: the value is not converted; nil slices all become empty.
Unconverted(v, base) == v
ConvertedEmpty(v, base) ==
  IF Kind(v.type) # "slice" THEN [v EXCEPT !.type = base]
  ELSE Value(base, FALSE, [i \in 1..Len(v.parts) |-> [v.parts[i] EXCEPT !.type = Elem(base)]], v.lit)

\* The value converted to its base type; a nil slice of UUIDs becomes empty.
Converted(v, base) ==
  IF Kind(v.type) # "slice" THEN [v EXCEPT !.type = base]
  ELSE IF ~v.nil
  THEN [v EXCEPT !.type = base,
                 !.parts = [i \in 1..Len(@) |-> [@[i] EXCEPT !.type = Elem(base)]]]
  ELSE IF base = "[]uuid.UUID" THEN Value(base, FALSE, <<>>, "") ELSE NilValue(base)

\* Mutation: the slice is converted in one piece.
ConvertWhole(v, base) == Kind(v.type) = "slice" /\ ~ConvertibleTo(v.type, base)

\* reflect's Convert of a slice element panics where Go has no conversion.
ConvertPanics(v, base) ==
  /\ Kind(v.type) = "slice"
  /\ \E i \in 1..Len(v.parts) : ~ConvertibleTo(v.parts[i].type, Elem(base))

convertCustomValue ==
  /\ Switches("custom")
  /\ LET base == customBaseGoType(top.v.type) IN
     IF ConvertPanics(top.v, base) THEN Abort(Panic)
     ELSE Become([Frame("value", Converted(top.v, base)) EXCEPT !.from = top.from])
  /\ Mirrored({top.v.type})

----------------------------------------------------------------------------
(* Structs: encodeStructValue and structTypeFromGoType walk the fields     *)
(* alike, one encoding the values, the other inferring the types.          *)

EnterStruct ==
  /\ Switches("struct")
  /\ Become([top EXCEPT !.op = "struct"])
  /\ Mirrored({top.v.type})

StructFrame(v) == Frame("struct", v)

\* Mutation: the zero value is that of the pointer.
StructBodyOfPointer ==
  /\ At("struct") /\ top.pos = 0
  /\ IF top.v.nil
     THEN CallFrom([top EXCEPT !.op = "nilStruct"], StructFrame(Zero(top.v.type)))
     ELSE Become([top EXCEPT !.pos = 1])
  /\ Internal

\* A nil pointer: the type comes from encoding the zero value of its struct.
StructBody ==
  /\ At("struct") /\ top.pos = 0
  /\ IF top.v.nil
     THEN CallFrom([top EXCEPT !.op = "nilStruct"], StructFrame(Zero(Elem(top.v.type))))
     ELSE Become([top EXCEPT !.pos = 1])
  /\ Internal

InFields == Running /\ top.op \in {"struct", "structType"} /\ top.pos > 0
field    == Fields(top.v.type)[top.pos]

\* Mutation: the loop variable is not advanced.
NotAdvanced(f) == f

Advanced(f) == [f EXCEPT !.pos = @ + 1]

StructField ==
  /\ InFields /\ top.pos <= Len(Fields(top.v.type))
  /\ IF field.anon THEN Return(Err("ErrEmbeddedStructField"))
     ELSE IF ~field.exported THEN Become(Advanced(top))
     ELSE CallFrom(top, IF top.op = "struct" THEN Frame("value", top.v.parts[top.pos])
                        ELSE TypeFrame("typeOf", field.type))
  /\ Internal

StructFieldDone ==
  /\ Resumed /\ top.op \in {"struct", "structType"}
  /\ IF ret.kind = "ok"
     THEN Become([Advanced(top) EXCEPT
                    !.acc = Append(@, [name |-> field.name, type |-> ret.type, wire |-> ret.wire])])
     ELSE Return(IF top.op = "struct" THEN Wrap(ret, AtField(top.pos - 1)) ELSE ret)
  /\ Internal

StructDone ==
  /\ InFields /\ top.pos > Len(Fields(top.v.type))
  /\ Return(IF top.op = "struct" THEN StructValueOf(top.acc)
            ELSE OkType(StructTypeOf(top.acc)))
  /\ Internal

NilStructDone ==
  /\ Resumed /\ top.op = "nilStruct" /\ ret.kind = "ok"
  /\ Return(NullOf(ret.type))
  /\ Internal

----------------------------------------------------------------------------
(* Loops over the elements of a slice.                                     *)

Loops == {"structArray", "protoArray", "customSlice", "sliceElements"}

\* encodeStructArrayValue starts with the zero value of the element struct.
EnterStructArray ==
  /\ Switches("structArray")
  /\ CallFrom([top EXCEPT !.op = "structArray"],
              StructFrame(Zero(StructBehind(Elem(top.v.type)))))
  /\ Mirrored({top.v.type})

\* encodeProtoArrayValue takes the type from the element type's descriptor.
EnterProtoArray ==
  /\ Switches("protoArray")
  /\ LET et == Elem(top.v.type)
         r  == TypeFromDescriptor(IF Implements(et, "Message") THEN "PROTO" ELSE "ENUM", et)
     IN  IF r.kind = "panic" THEN Abort(r)
         ELSE IF top.v.nil THEN Return(NullArray(r.type))
         ELSE Become([top EXCEPT !.op = "protoArray", !.typ = r.type, !.pos = 1])
  /\ Mirrored({top.v.type})

\* The element type has come back: of the zero struct, or of TypeFor[T].
ElemTypeDone ==
  /\ Resumed /\ top.op \in Loops /\ top.pos = 0 /\ ret.kind = "ok"
  /\ IF top.op = "structArray" /\ top.v.nil THEN Return(NullArray(ret.type))
     ELSE Become([top EXCEPT !.typ = ret.type, !.pos = 1])
  /\ Internal

\* An error in what a frame needed before its loop goes up as it is.
PassErrorUp ==
  /\ Resumed /\ ret.kind # "ok"
  /\ \/ top.op \in {"nilStruct", "arrayType"}
     \/ top.op \in Loops /\ top.pos = 0
  /\ Return(ret)
  /\ Internal

InElems == Running /\ top.op \in Loops /\ top.pos > 0

\* The next element: by encodeValue, but by encodeStructValue in an array of
\* structs.
Element ==
  /\ InElems /\ top.pos <= Len(top.v.parts)
  /\ LET e == top.v.parts[top.pos] IN
     \/ top.op = "structArray" /\ CallFrom(top, StructFrame(e)) /\ Mirrored({e.type})
     \/ top.op # "structArray" /\ CallFrom(top, Frame("value", e)) /\ Internal

\* Mutation: the element's type is not compared.
AnyType(f, r) == FALSE

Mismatch(f, r) == f.op = "sliceElements" /\ r.type # f.typ

\* sliceElements checks each element's type against the static one.
ElementDone ==
  /\ Resumed /\ top.op \in Loops /\ top.pos > 0
  /\ IF ret.kind # "ok" THEN Return(Wrap(ret, AtElem(top.pos - 1)))
     ELSE IF Mismatch(top, ret)
     THEN Return(Wrap(Err("ErrTypeMismatch"), AtElem(top.pos - 1)))
     ELSE Become([Advanced(top) EXCEPT
                    !.acc = Append(@, [type |-> ret.type, wire |-> ret.wire])])
  /\ Internal

\* Mutation: a nil slice of a slice helper becomes a NULL of the element type.
NilLoopResult ==
  IF top.op = "sliceElements" /\ top.v.nil THEN NullOf(top.typ)
  ELSE ArrayValueOf(top.typ, top.acc)

\* What the function returns once every element is encoded.
LoopResult ==
  IF top.op = "customSlice" /\ top.typ = NoType
  THEN ArrayValueOf(top.acc[1].type, top.acc)
  ELSE IF top.op # "sliceElements" THEN ArrayValueOf(top.typ, top.acc)
  ELSE IF call.api = "ValuesFromSlice"
  THEN Ok(top.typ, IF top.v.nil THEN NullWire ELSE ListWire(Wires(top.acc)))
  ELSE IF top.v.nil THEN NullArray(top.typ) ELSE ArrayValueOf(top.typ, top.acc)

LoopDone ==
  /\ InElems /\ top.pos > Len(top.v.parts)
  /\ Return(LoopResult)
  /\ Internal

----------------------------------------------------------------------------
\* Steps the caller decides on, and steps of the package.
Caller  == CallTypeFromGoType \/ CallEncode \/ Forget
Options == ApplyOption \/ Begin \/ Finish

Inference == InferDirectly \/ InferInside \/ ArrayTypeDone

Encoding ==
  \/ SkipEncoders \/ ConsultEncoder \/ encodeCustomSlice
  \/ EncodeConcrete \/ PassGCV \/ UnwrapNullProto \/ encodeViaEncoder \/ EncoderDone
  \/ EncodeProto \/ convertCustomValue
  \/ EnterStruct \/ StructBody \/ StructField \/ StructFieldDone \/ StructDone
  \/ NilStructDone
  \/ EnterStructArray \/ EnterProtoArray \/ ElemTypeDone \/ PassErrorUp
  \/ Element \/ ElementDone \/ LoopDone

Package == Options \/ Inference \/ Encoding
Next    == Caller \/ Package

\* The package is sequential code: a function that was called takes steps
\* until it returns.  Nothing obliges the caller to call.
Spec == Init /\ [][Next]_vars /\ WF_vars(Package)

----------------------------------------------------------------------------
(* What holds at every step.                                               *)

\* The machine's control is well typed: there is a call stack only while a
\* function of the package runs, within its limit, and every frame of it is
\* in a known function with one result per element or field it has passed.
TypeOK ==
  /\ pc \in {"idle", "describe", "options", "encode", "returned"}
  /\ IsResult(ret)
  /\ stack # <<>> => pc \in {"describe", "encode"}
  /\ Len(stack) <= StackLimit
  /\ \A i \in 1..Len(stack) :
       stack[i].op \in Ops /\ stack[i].pos \in Nat /\ Len(stack[i].acc) <= stack[i].pos

\* "The spanvalue/gcvctor invariant that every GCV carries a usable Type"
\* (encode.go): no function of the package hands on a value whose Type is
\* nil, to the caller or to the function that called it, and no ARRAY or
\* STRUCT is put together from parts without a Type.
UsableType ==
  /\ ret.kind = "ok" => ret.type # NoType
  /\ \A i \in 1..Len(stack) :
       /\ \A j \in 1..Len(stack[i].acc) : stack[i].acc[j].type # NoType
       /\ stack[i].op \in Loops \ {"customSlice"} /\ stack[i].pos > 0
            => stack[i].typ # NoType

\* errors.go of ErrFallthrough: "It is never returned by this package's own
\* functions".  The answer of a registered encoder is consumed at the hook,
\* at whatever depth of slices, structs and conversions it was consulted.
FallthroughStaysInside == ret.err # "ErrFallthrough"

\* slice.go: "Each encoded element is additionally verified against the
\* inferred type".  What a slice helper has collected is homogeneous, though
\* encoders of the caller's produced it.
HomogeneousElements ==
  \A i \in 1..Len(stack) :
    stack[i].op = "sliceElements" =>
      \A j \in 1..Len(stack[i].acc) : stack[i].acc[j].type = stack[i].typ
=============================================================================
