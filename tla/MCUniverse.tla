----------------------------- MODULE MCUniverse -----------------------------
(***************************************************************************)
(* A finite universe of Go types for TLC: every type the tables of         *)
(* typeof.go and encode.go list, with their slices and pointers, and one   *)
(* user-defined type for each way a type can differ from those: named      *)
(* variants of every base, structs with unexported, embedded, nested and   *)
(* unencodable fields, spanner.Encoder implementations, protobuf messages  *)
(* and enums, interfaces, and types no rule covers.                        *)
(***************************************************************************)
EXTENDS Naturals, Sequences, TLC

OfKind(kind) == [kind |-> kind, elem |-> "", fields |-> <<>>, impl |-> {},
                conv |-> {}, fqn |-> "", zero |-> "zero"]
Impl(d, is) == [d EXCEPT !.impl = is]
Null(d)     == [d EXCEPT !.zero = "null"]
Proto(d, n) == [d EXCEPT !.fqn = n]

F(name, type)      == [name |-> name, type |-> type, anon |-> FALSE, exported |-> TRUE]
Hidden(name, type) == [F(name, type) EXCEPT !.exported = FALSE]
Embedded(type)     == [F(type, type) EXCEPT !.anon = TRUE]
Struct(fs)         == [OfKind("struct") EXCEPT !.fields = fs]
Like(base, d)       == [d EXCEPT !.conv = {base}]
Wrapper(name, type) == Null(Struct(<<F(name, type), F("Valid", "bool")>>))

\* Types of the standard library, of cloud.google.com/go/spanner and uuid.
\* Their fields that nothing reads are left out, and what converts to what is told
\* by conv: the two NullUUIDs have the same fields, NullJSON and PGJsonB do not.
LibraryTypes ==
  [t \in {"int", "int64", "bool", "float64", "float32", "string", "uint32"} |-> OfKind(t)] @@
  [t \in {"big.Rat", "time.Time", "civil.Date"} |-> Struct(<<Hidden("a", "int64")>>)] @@
  ("nil" :> OfKind("invalid") @@
   "byte" :> OfKind("uint8") @@
   "uuid.UUID" :> OfKind("array") @@
   "spanner.Interval" :> Struct(<<F("Months", "uint32")>>) @@
   "spanner.NullInterval" :> Wrapper("Interval", "spanner.Interval") @@
   "spanner.NullString"  :> Wrapper("StringVal", "string") @@
   "sql.NullString"      :> Wrapper("String", "string") @@
   "spanner.NullInt64"   :> Wrapper("Int64", "int64") @@
   "spanner.NullBool"    :> Wrapper("Bool", "bool") @@
   "spanner.NullFloat64" :> Wrapper("Float64", "float64") @@
   "spanner.NullFloat32" :> Wrapper("Float32", "float32") @@
   "spanner.NullNumeric" :> Wrapper("Numeric", "big.Rat") @@
   "spanner.PGNumeric"   :> Wrapper("Numeric", "string") @@
   "spanner.NullJSON"    :> Wrapper("Value", "any") @@
   "spanner.PGJsonB"     :> Wrapper("Value", "any") @@
   "spanner.NullTime"    :> Wrapper("Time", "time.Time") @@
   "spanner.NullDate"    :> Wrapper("Date", "civil.Date") @@
   "spanner.NullUUID"    :> Like("uuid.NullUUID", Wrapper("UUID", "uuid.UUID")) @@
   "uuid.NullUUID"       :> Like("spanner.NullUUID", Wrapper("UUID", "uuid.UUID")) @@
   "spanner.NullProtoMessage" :> Wrapper("ProtoMessageVal", "any") @@
   "spanner.NullProtoEnum"    :> Wrapper("ProtoEnumVal", "any") @@
   "spanner.GenericColumnValue" :> Struct(<<F("Type", "*pb.Msg"), F("Value", "*pb.Msg")>>) @@
   "any" :> OfKind("interface") @@
   "error" :> OfKind("interface") @@
   "spanner.Encoder" :> Impl(OfKind("interface"), {"Encoder"}))

\* Named variants: each converts to the base it is declared from.
NamedVariants ==
  [myString |-> "string", myInt64 |-> "int64", myBool |-> "bool",
   myFloat64 |-> "float64", myFloat32 |-> "float32", myByte |-> "byte",
   myUUID |-> "uuid.UUID", myRat |-> "big.Rat", myTime |-> "time.Time",
   myDate |-> "civil.Date", myInterval |-> "spanner.Interval",
   myNullInterval |-> "spanner.NullInterval", myNullString |-> "spanner.NullString",
   myNullInt64 |-> "spanner.NullInt64", myNullBool |-> "spanner.NullBool",
   myNullFloat64 |-> "spanner.NullFloat64", myNullFloat32 |-> "spanner.NullFloat32",
   myNullTime |-> "spanner.NullTime", myNullDate |-> "spanner.NullDate",
   myNullNumeric |-> "spanner.NullNumeric", myNullJSON |-> "spanner.NullJSON",
   myNullUUID |-> "spanner.NullUUID", myPGNumeric |-> "spanner.PGNumeric",
   myPGJsonB |-> "spanner.PGJsonB"]
VariantTypes ==
  [t \in DOMAIN NamedVariants |->
     [LibraryTypes[NamedVariants[t]] EXCEPT !.conv = {NamedVariants[t]}]]

UserTypes ==
  [fourBytes |-> OfKind("array"),
   int32 |-> OfKind("int32"),
   myAlias |-> [Wrapper("String", "string") EXCEPT !.zero = "zero"],
   Pair |-> Struct(<<F("A", "string"), Hidden("b", "uint32"), F("C", "*int64")>>),
   Outer |-> Struct(<<F("P", "Pair"), F("Q", "*Pair"), F("R", "[]Pair"), F("", "[]*big.Rat")>>),
   Priced |-> Struct(<<F("At", "myTime"), Hidden("old", "big.Rat"), F("Price", "big.Rat"), F("Doc", "spanner.NullJSON")>>),
   Derived |-> Struct(<<Hidden("b", "uint32"), Embedded("Pair"), F("C", "int64")>>),
   Empty |-> Struct(<<>>),
   Loose |-> Struct(<<F("X", "any")>>),
   Widths |-> Struct(<<F("N", "int64"), F("U", "uint32")>>),
   Carrier |-> Struct(<<F("E", "myEncoder"), F("M", "*pb.Msg")>>),
   myEncoder |-> Impl(Struct(<<F("V", "string")>>), {"Encoder"}),
   echo |-> Impl(Struct(<<>>), {"Encoder"}),
   ping |-> Impl(Struct(<<>>), {"Encoder"}),
   pong |-> Impl(Struct(<<>>), {"Encoder"}),
   encString |-> [Impl(OfKind("string"), {"Encoder"}) EXCEPT !.conv = {"string"}],
   encEnum |-> Proto(Impl(OfKind("int32"), {"Encoder", "Enum"}), "pb.Enc")]

ProtoTypes ==
  "pb.Msg" :> Struct(<<Hidden("state", "int64")>>) @@
  "pb.Color" :> Proto(Impl(OfKind("int32"), {"Enum"}), "pb.Color") @@
  "proto.Message" :> Impl(OfKind("interface"), {"Message"}) @@
  "protoreflect.Enum" :> Impl(OfKind("interface"), {"Enum"})

BaseTypes == LibraryTypes @@ VariantTypes @@ UserTypes @@ ProtoTypes

\* Slices of every base type, of pointers, and of slices.
Pointees == {"string", "int64", "bool", "float64", "float32", "big.Rat", "time.Time",
             "civil.Date", "uuid.UUID", "spanner.NullUUID", "uuid.NullUUID",
             "spanner.NullString", "myString", "myTime", "Pair", "Outer", "Priced",
             "Derived", "Widths", "Loose", "pb.Msg", "pb.Color", "Empty"}
Pointer(e) == CASE e = "pb.Msg" -> Proto(Impl(OfKind("ptr"), {"Message"}), "pb.Msg")
                [] e = "pb.Color" -> Proto(Impl(OfKind("ptr"), {"Enum"}), "pb.Color")
                [] OTHER -> OfKind("ptr")
PointerTypes ==
  [t \in {"*" \o e : e \in Pointees} |->
     LET e == CHOOSE e \in Pointees : t = "*" \o e IN [Pointer(e) EXCEPT !.elem = e]]

SliceType(e) == [OfKind("slice") EXCEPT !.elem = e]
SliceElems   == (DOMAIN BaseTypes \cup DOMAIN PointerTypes) \ {"nil", "pb.Msg", "fourBytes"}
NestedElems  == {"[]byte", "myBytes", "[]myByte", "[]string", "[]Pair"}
SliceTypes ==
  [t \in {"[]" \o e : e \in SliceElems \cup NestedElems} |->
     SliceType(CHOOSE e \in SliceElems \cup NestedElems : t = "[]" \o e)]
NamedSlices ==
  [myStrings |-> SliceType("string"), myBytes |-> [SliceType("byte") EXCEPT !.conv = {"[]byte"}],
   myBlobs |-> SliceType("[]byte"), myUUIDs |-> SliceType("myUUID"),
   myPairs |-> SliceType("Pair"), myTimes |-> SliceType("time.Time"),
   myNullStrings |-> SliceType("spanner.NullString")]

Universe ==
  LET bases    == BaseTypes
      pointers == PointerTypes
      slices   == SliceTypes @@ NamedSlices
  IN  bases @@ pointers @@ slices
=============================================================================
