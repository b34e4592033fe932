------------------------------ MODULE MCEncode ------------------------------
(***************************************************************************)
(* Instances of EncodeValue for TLC: the values and options of each run.   *)
(***************************************************************************)
EXTENDS MCUniverse, EncodeProperties

----------------------------------------------------------------------------
(* Values.                                                                 *)

\* A typical value of a type: non-nil, with two elements in each slice (the
\* second one the zero value), nested to depth d.
some[t \in DOMAIN Universe, d \in 0..4] ==
  LET k  == Universe[t].kind
      fs == IF k = "struct" THEN Universe[t].fields
            ELSE IF k = "ptr" /\ Universe[Universe[t].elem].kind = "struct"
            THEN Universe[Universe[t].elem].fields ELSE <<>>
  IN  IF k = "interface" THEN Value("string", FALSE, <<>>, "dynamic")
      ELSE IF d = 0 THEN NilValue(t)
      ELSE IF k = "slice"
      THEN Value(t, FALSE, <<some[Universe[t].elem, d - 1], Zero(Universe[t].elem)>>, "bytes")
      ELSE Value(t, FALSE, [i \in 1..Len(fs) |-> some[fs[i].type, d - 1]], "some")
Some(t) == some[t, 4]

\* The literals that encode differently from "some".
Special(t) ==
  IF t \in {"big.Rat", "*big.Rat", "spanner.NullNumeric", "myRat", "spanner.PGNumeric"} THEN {"outOfRange"}
  ELSE IF t \in {"time.Time", "*time.Time", "myTime", "spanner.NullTime"} THEN {"CommitTimestamp"}
  ELSE IF t \in {"spanner.NullJSON", "spanner.PGJsonB", "*pb.Msg"} THEN {"unmarshalable"}
  ELSE {}
Specials(t) == {[Some(t) EXCEPT !.lit = x] : x \in Special(t)}

Concrete == {t \in DOMAIN Universe : Universe[t].kind # "interface"}

\* Of every type: its zero value, a typical one, the special literals; and
\* slices: empty, of one zero element, and with a special element last.
Samples(t) ==
  {Zero(t), Some(t)} \cup Specials(t) \cup
  (IF Universe[t].kind # "slice" THEN {}
   ELSE LET e == Universe[t].elem IN
        {Value(t, FALSE, <<>>, "bytes"), Value(t, FALSE, <<Zero(e)>>, "bytes")} \cup
        {Value(t, FALSE, <<Some(e), x>>, "bytes") : x \in Specials(e)})

\* GenericColumnValues and NullProto* values hold other things.
GCVs == {[Value("spanner.GenericColumnValue", FALSE, <<>>, "some") EXCEPT !.styp = t] :
           t \in {NoType, Scalar("INT64")}}
NullProtos ==
  {Value("spanner.NullProtoEnum", FALSE, <<Some("pb.Color")>>, "some"),
   Value("spanner.NullProtoEnum", FALSE, <<Some("encEnum")>>, "some"),
   Value("spanner.NullProtoMessage", FALSE, <<Some("*pb.Msg")>>, "some"),
   Value("spanner.NullProtoMessage", FALSE, <<NilValue("*pb.Msg")>>, "some"),
   Value("spanner.NullProtoMessage", FALSE, <<NilValue("nil")>>, "some"),
   Zero("spanner.NullProtoEnum"), Zero("spanner.NullProtoMessage")}

\* Structs whose literals go wrong at several depths.
Bad(t) == [Some(t) EXCEPT !.lit = "outOfRange"]
priced(p) == [Some("Priced") EXCEPT !.parts = <<Some("myTime"), Bad("big.Rat"), p, Some("spanner.NullJSON")>>]
DeepValues ==
  {priced(Bad("big.Rat")), priced(Some("big.Rat")),
   Value("[]Priced", FALSE, <<priced(Some("big.Rat")), priced(Bad("big.Rat"))>>, "bytes"),
   Value("[]*Priced", FALSE, <<NilValue("*Priced"), [priced(Bad("big.Rat")) EXCEPT !.type = "*Priced"]>>, "bytes"),
   [Some("Outer") EXCEPT !.parts[4] = Value("[]*big.Rat", FALSE,
       <<NilValue("*big.Rat"), Bad("*big.Rat"), Bad("*big.Rat")>>, "bytes")],
   Value("[]any", FALSE, <<Some("string"), Some("int64")>>, "bytes")}

AllValues == UNION {Samples(t) : t \in Concrete \ {"spanner.NullProtoEnum", "spanner.NullProtoMessage", "spanner.GenericColumnValue"}}
               \cup GCVs \cup NullProtos \cup DeepValues

Ask(api, v, opts) == [api |-> api, v |-> v, opts |-> opts]

(* Types the documentation misdescribes: they have runs of their own.      *)
Misdescribed == {"[]proto.Message", "[]protoreflect.Enum", "[][]myByte", "[]encEnum"}

Slices(vs) == {v \in vs : Universe[v.type].kind = "slice"}
Round == [opt |-> "handling", type |-> "", name |-> "NumericRound", styp |-> NoType]

Encoder(t, f)  == [opt |-> "encoder", type |-> t, name |-> f, styp |-> NoType]
GoType(t, typ) == [opt |-> "goType", type |-> t, name |-> "", styp |-> typ]

PlainCalls ==
  LET vs      == {v \in AllValues : v.type \notin Misdescribed}
      values  == {Ask("ValueOf", v, <<>>) : v \in vs}
      rounded == {Ask("ValueOf", v, <<Round>>) : v \in DeepValues}
      slices  == {Ask(api, v, <<>>) :
                    api \in {"ArrayValueFromSlice", "ValuesFromSlice"}, v \in Slices(vs)}
      refused == Ask("ValueOf", Some("int64"),
                     <<Encoder("string", "picky"), Encoder("error", "first")>>)
  IN  values \cup rounded \cup slices \cup {refused}

----------------------------------------------------------------------------
(* User code.                                                              *)

Answer(v) == [v |-> v, err |-> ""]
Fails     == [v |-> NilValue(UntypedNil), err |-> "ErrEncoder"]
Encodes ==
  LET untyped == Some("spanner.GenericColumnValue")
      many    == {Answer(Some("string")), Answer(Some("myInt64")), Answer(NilValue("nil")),
                  Answer(untyped), Fails}
      few     == {Answer(Some("string")), Answer(Some("myEncoder"))}
      \* Methods that return their receiver, and each other's.
      chasing == [echo |-> {Answer(Some("echo")), Answer(Some("string"))},
                  ping |-> {Answer(Some("pong"))},
                  pong |-> {Answer(Some("ping")), Fails}]
  IN  [t \in {"myEncoder", "encString", "encEnum", "spanner.Encoder"} |->
         IF t = "myEncoder" THEN many ELSE few] @@ chasing

Fallthrough == Err("ErrFallthrough")
StringLit   == Ok(Scalar("STRING"), LitWire("custom"))
Int64Lit    == Ok(Scalar("INT64"), LitWire("7"))
EncoderAnswers ==
  LET str == StringLit
      int == Int64Lit
      fallthrough == Fallthrough
  IN  [picky |-> {str, fallthrough}, failing |-> {int, Err("ErrEncoder")},
       first |-> {str}, mixed |-> {int, str}, deferring |-> {fallthrough}]

\* Each sequence of options, with the Go types of the values it is tried on.
HookedOptions ==
  {<<<<Encoder("string", "picky")>>,
     {"string", "[]string", "myStrings", "Pair", "*Pair", "[]Pair", "[]*Pair", "Outer", "[]any"}>>,
   <<<<Encoder("uint32", "failing")>>, {"uint32", "[]uint32", "Widths", "[]Widths", "*Widths"}>>,
   <<<<Encoder("uint32", "first"), Encoder("uint32", "failing"), GoType("uint32", Scalar("INT64"))>>,
     {"uint32", "[]uint32"}>>,
   <<<<Encoder("uint32", "mixed"), GoType("uint32", Scalar("STRING"))>>, {"[]uint32", "[]Widths"}>>,
   <<<<Encoder("uint32", "mixed")>>, {"[]uint32"}>>,
   <<<<Encoder("time.Time", "picky"), Round>>, {"time.Time", "[]time.Time", "Priced", "*time.Time"}>>,
   <<<<Encoder("Pair", "picky")>>, {"Pair", "*Pair", "[]Pair", "Outer"}>>,
   <<<<Encoder("[]Pair", "deferring"), Encoder("Pair", "picky")>>, {"[]Pair", "myPairs", "Outer"}>>,
   <<<<Encoder("*pb.Msg", "picky")>>, {"*pb.Msg", "[]*pb.Msg", "Carrier"}>>,
   <<<<Encoder("[]byte", "deferring")>>, {"[]byte", "[][]byte", "myBlobs"}>>,
   <<<<Encoder("[]string", "deferring"), Encoder("string", "picky")>>, {"[]string", "myStrings", "[]myString"}>>,
   <<<<Encoder("byte", "failing")>>, {"[]byte", "[][]byte", "myBytes"}>>,
   <<<<Encoder("myEncoder", "picky")>>, {"myEncoder", "[]myEncoder", "Carrier", "*Pair"}>>,
   <<<<Encoder("string", "picky"), Encoder("error", "first"), Encoder("string", "first")>>, {"string", "Pair"}>>}

HookedCalls ==
  LET Tried(h)  == UNION {Samples(t) : t \in h[2]}
      Values(h) == {Ask("ValueOf", v, h[1]) : v \in Tried(h)}
      Loop(h)   == {Ask(api, v, h[1]) : api \in {"ArrayValueFromSlice", "ValuesFromSlice"},
                                        v \in Slices(Tried(h))}
      calls     == UNION {Values(h) \cup Loop(h) : h \in HookedOptions}
  IN  calls

\* Values whose encoding re-enters encodeValue: through conversions, through
\* EncodeSpanner, through NullProto* payloads and registered encoders.
ReenteringCalls ==
  LET types == {"myString", "myRat", "[]myString", "myStrings", "myEncoder", "encString",
                "encEnum", "[]myTime", "Carrier", "echo", "ping", "[]pong"}
      vs    == NullProtos \cup UNION {Samples(t) : t \in types}
  IN  {Ask("ValueOf", v, <<Encoder("string", "picky")>>) : v \in vs}

\* Every session with its calls, plain and hooked.
AllCalls == LET calls == PlainCalls \cup HookedCalls IN calls

----------------------------------------------------------------------------
(* Runs about one claim of the documentation each.                         *)

NodeUniverse ==
  LET node    == Struct(<<F("Next", "*Node")>>)
      pointer == [Pointer("Node") EXCEPT !.elem = "Node"]
  IN  Universe @@ ("Node" :> node @@ "*Node" :> pointer)
NodeCalls == {Ask("ValueOf", NilValue("*Node"), <<>>)}

\* ValueOf on each of vs under the options opts.
AskEach(vs, opts) == {Ask("ValueOf", v, opts) : v \in vs}

InterfaceCalls ==
  LET vs == UNION {Samples(t) : t \in {"[]string", "[]any", "[]proto.Message", "[]protoreflect.Enum"}}
  IN  AskEach(vs, <<>>)

NestedBytesCalls ==
  LET vs == UNION {Samples(t) : t \in {"[][]byte", "[][]myByte"}} IN AskEach(vs, <<>>)

EnumEncoderCalls ==
  LET vs == Samples("[]encEnum") \cup Samples("[]pb.Color") IN AskEach(vs, <<>>)

NamedStringCalls ==
  LET vs == {Some("string"), Some("myString")} IN AskEach(vs, <<Encoder("string", "picky")>>)
=============================================================================
