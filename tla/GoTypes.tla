------------------------------ MODULE GoTypes ------------------------------
(***************************************************************************)
(* The Go side: a universe of reflect.Types, the values an `any` can hold, *)
(* and the type-only tables and predicates of typeof.go.                   *)
(*                                                                         *)
(* A Go type is named as Go prints it ("[]*string"), so that forming a     *)
(* slice type is reflect.SliceOf.  Go[t] describes type t:                 *)
(*   kind    its reflect.Kind           elem  element or pointed-to type   *)
(*   fields  struct fields, each [name, type, anon, exported], name being  *)
(*           what the raw `spanner` tag lookup yields                      *)
(*   impl    which of Encoder, Enum, Message it implements                 *)
(*   conv    the other base types it is ConvertibleTo                      *)
(*   zero    the literal of its zero value                                 *)
(*   fqn     the protobuf name of its descriptor                           *)
(* The untyped nil is described like a type, under the name UntypedNil.    *)
(***************************************************************************)
EXTENDS SpanTypes

CONSTANT Go

UntypedNil == "nil"
NoGoType   == ""

ASSUME GoAssumption ==
  /\ UntypedNil \in DOMAIN Go
  /\ NoGoType \notin DOMAIN Go
  /\ \A t \in DOMAIN Go :
       /\ Go[t].kind \in {"slice", "ptr"} => Go[t].elem \in DOMAIN Go
       /\ Len(Go[t].fields) \in Nat
       /\ Go[t].kind # "struct" => Go[t].fields = <<>>
       /\ \A i \in 1..Len(Go[t].fields) : Go[t].fields[i].type \in DOMAIN Go

Kind(t)          == Go[t].kind
Elem(t)          == Go[t].elem
Implements(t, i) == i \in Go[t].impl
SliceOf(t)       == "[]" \o t

\* t.Kind() == Struct, or a pointer to one.
IsStructOrStructPtr(t) ==
  Kind(t) = "struct" \/ (Kind(t) = "ptr" /\ Kind(Elem(t)) = "struct")

\* The struct type behind a struct or pointer to struct, and its fields.
StructBehind(t) == IF Kind(t) = "ptr" THEN Elem(t) ELSE t
Fields(t)       == Go[StructBehind(t)].fields

(***************************************************************************)
(* Values.  parts are the elements of a slice, the fields of a struct (or  *)
(* of the struct a pointer points to), or the payload of a NullProto*.     *)
(* lit tells apart the literals that encode differently; "null" is a Null* *)
(* wrapper with Valid == false.  styp is the Type of a GenericColumnValue. *)
(***************************************************************************)
Value(t, isNil, parts, lit) ==
  [type |-> t, nil |-> isNil, parts |-> parts, lit |-> lit, styp |-> NoType]
NilValue(t) == Value(t, TRUE, <<>>, "")

(***************************************************************************)
(* Zero values (reflect.Zero).  A level gives the zero value of every type *)
(* from those of the level below, so that Zero is right for structs that   *)
(* nest by value up to six deep, the bound NestingAssumption names: in Go  *)
(* that nesting is finite.                                                 *)
(***************************************************************************)
SixTimes(Level(_), x) == Level(Level(Level(Level(Level(Level(x))))))

zeroLevel(below) ==
  [t \in DOMAIN Go |->
     IF Kind(t) = "interface" THEN NilValue(UntypedNil)
     ELSE IF Kind(t) \in {"slice", "ptr"} THEN NilValue(t)
     ELSE LET fs == Go[t].fields IN
          Value(t, FALSE, [i \in 1..Len(fs) |-> below[fs[i].type]], Go[t].zero)]
zeroValues == SixTimes(zeroLevel, [t \in DOMAIN Go |-> NilValue(t)])
Zero(t) == zeroValues[t]

\* The types whose structs by value are among ts.
NestingOver(ts) ==
  {t \in DOMAIN Go :
     Kind(t) = "struct" => \A i \in 1..Len(Go[t].fields) : Go[t].fields[i].type \in ts}

ASSUME NestingAssumption == DOMAIN Go \subseteq SixTimes(NestingOver, {})

(***************************************************************************)
(* exactGoTypes, one entry per Spanner type: the Go types that map to it,  *)
(* and the element types of the slices that map to an ARRAY of it.         *)
(***************************************************************************)
exactScalars ==
  [INTERVAL   |-> {"spanner.Interval", "spanner.NullInterval"},
   STRING     |-> {"string", "spanner.NullString", "sql.NullString", "*string"},
   BYTES      |-> {"[]byte"},
   INT64      |-> {"int", "int64", "spanner.NullInt64", "*int64"},
   BOOL       |-> {"bool", "spanner.NullBool", "*bool"},
   FLOAT64    |-> {"float64", "spanner.NullFloat64", "*float64"},
   FLOAT32    |-> {"float32", "spanner.NullFloat32", "*float32"},
   NUMERIC    |-> {"big.Rat", "spanner.NullNumeric", "*big.Rat"},
   PG_NUMERIC |-> {"spanner.PGNumeric"},
   JSON       |-> {"spanner.NullJSON"},
   PG_JSONB   |-> {"spanner.PGJsonB"},
   TIMESTAMP  |-> {"time.Time", "spanner.NullTime", "*time.Time"},
   DATE       |-> {"civil.Date", "spanner.NullDate", "*civil.Date"},
   UUID       |-> {"uuid.UUID", "spanner.NullUUID", "uuid.NullUUID",
                   "*uuid.UUID", "*spanner.NullUUID", "*uuid.NullUUID"}]
exactElems ==
  [exactScalars EXCEPT
     !.STRING = @ \ {"sql.NullString"},
     !.UUID   = {"uuid.UUID", "*uuid.UUID", "spanner.NullUUID"}]

\* The row of a table that lists t, or "NONE".
RowOf(table, t) ==
  IF \E c \in DOMAIN table : t \in table[c]
  THEN CHOOSE c \in DOMAIN table : t \in table[c]
  ELSE "NONE"
ElemRowOf(table, t) == IF Kind(t) = "slice" THEN RowOf(table, Elem(t)) ELSE "NONE"

\* exactGoTypes[t]: its type, or NoType.  The tables hold unnamed slice
\* types only, so t must be SliceOf its element to match one.
exactGoType(t) ==
  LET scalar == RowOf(exactScalars, t)
      array  == ElemRowOf(exactElems, t)
  IN  IF scalar # "NONE" THEN Scalar(scalar)
      ELSE IF array # "NONE" /\ t = SliceOf(Elem(t)) THEN ArrayOf(Scalar(array))
      ELSE NoType

notInferableGoTypes ==
  {"spanner.GenericColumnValue", "[]spanner.GenericColumnValue",
   "spanner.NullProtoMessage", "spanner.NullProtoEnum"}

(***************************************************************************)
(* Named variants of base types (customBaseGoType).                        *)
(***************************************************************************)
customStructBases ==
  <<"big.Rat", "time.Time", "civil.Date", "spanner.Interval",
    "spanner.NullString", "spanner.NullInt64", "spanner.NullBool",
    "spanner.NullFloat64", "spanner.NullFloat32", "spanner.NullTime",
    "spanner.NullDate", "spanner.NullNumeric", "spanner.NullJSON",
    "spanner.NullUUID", "spanner.PGNumeric", "spanner.PGJsonB",
    "spanner.NullInterval">>
customSliceStructBases ==
  <<"big.Rat", "time.Time", "civil.Date", "spanner.NullString",
    "spanner.NullInt64", "spanner.NullBool", "spanner.NullFloat64",
    "spanner.NullFloat32", "spanner.NullTime", "spanner.NullDate",
    "spanner.NullNumeric", "spanner.NullJSON", "spanner.PGNumeric",
    "spanner.PGJsonB", "spanner.NullUUID">>

\* The kinds whose every named variant converts to the predeclared type.
kindBase == [string |-> "string", int64 |-> "int64", bool |-> "bool",
             float32 |-> "float32", float64 |-> "float64"]

\* t.ConvertibleTo(base): every type converts to itself.
ConvertibleTo(t, base) == t = base \/ base \in Go[t].conv

\* The first base t is ConvertibleTo, or NoGoType.
firstConvertible(t, bases) ==
  LET hits == {i \in 1..Len(bases) : ConvertibleTo(t, bases[i])}
  IN  IF hits = {} THEN NoGoType
      ELSE bases[Min(hits)]

customSliceElemBase(et) ==
  IF Kind(et) \in DOMAIN kindBase THEN kindBase[Kind(et)]
  ELSE IF Kind(et) = "uint8" THEN "byte"
  ELSE IF Kind(et) = "array" THEN firstConvertible(et, <<"uuid.UUID">>)
  ELSE IF Kind(et) = "struct" THEN firstConvertible(et, customSliceStructBases)
  ELSE IF Kind(et) = "slice" /\ Kind(Elem(et)) = "uint8" THEN "[]byte"
  ELSE NoGoType

customBaseGoType(t) ==
  IF Kind(t) \in DOMAIN kindBase THEN kindBase[Kind(t)]
  ELSE IF Kind(t) = "array" THEN firstConvertible(t, <<"uuid.UUID">>)
  ELSE IF Kind(t) = "struct" THEN firstConvertible(t, customStructBases)
  ELSE IF Kind(t) = "slice" /\ customSliceElemBase(Elem(t)) # NoGoType
  THEN SliceOf(customSliceElemBase(Elem(t)))
  ELSE NoGoType

\* A universe holds the base types its types convert to, and the types this
\* package names are what Go, the client and protobuf make them: converting
\* keeps the kind, and a slice is convertible to []byte only when its elements
\* are bytes, not when they are of a named byte type.
ASSUME BaseAssumption ==
  /\ \A t \in DOMAIN Go : customBaseGoType(t) \in DOMAIN Go \cup {NoGoType}
  /\ \A t \in DOMAIN Go :
       /\ customBaseGoType(t) \in DOMAIN Go => Kind(customBaseGoType(t)) = Kind(t)
       /\ customSliceElemBase(t) \in DOMAIN Go => Kind(customSliceElemBase(t)) = Kind(t)
  /\ \A t \in DOMAIN Go :
       LET e == customSliceElemBase(t) IN
       SliceOf(e) \in DOMAIN Go => e \in DOMAIN Go /\ Elem(SliceOf(e)) = e
  /\ "byte" \in DOMAIN Go => Kind("byte") = "uint8"
  /\ "[]byte" \in DOMAIN Go => Elem("[]byte") = "byte"
  /\ \A t \in DOMAIN Go :
       Kind(t) = "slice" /\ ConvertibleTo(t, "[]byte") => Elem(t) = "byte"
  /\ \A t \in {"spanner.NullProtoMessage", "spanner.NullProtoEnum"} \cap DOMAIN Go :
       Kind(t) = "struct" /\ Go[t].zero = "null"
  /\ Kind(UntypedNil) \notin {"interface", "struct", "ptr"}
  /\ \A c \in DOMAIN exactScalars : \A t \in exactScalars[c] \cap DOMAIN Go :
       Kind(t) # "interface"

\* What the tables and lists of base types presuppose of Go, the client and
\* protobuf.  No type of exactGoTypes is a slice but []byte, or a protobuf type.
\* The client's structs for two Spanner types differ in a field: a type of the
\* tables converts to bases of its own row only, any other struct to bases of one
\* row, and the order of customStructBases never decides between two Spanner
\* types (were NullJSON's fields PGJsonB's, it would make every named PGJsonB a
\* JSON).  A protobuf message or enum is no slice and no struct itself.
ASSUME TableAssumption ==
  /\ SliceOf("byte") = "[]byte"
  /\ \A c \in DOMAIN exactScalars : \A t \in exactScalars[c] \cap DOMAIN Go :
       /\ Kind(t) = "slice" => t = "[]byte"
       /\ Go[t].impl = {}
       /\ customSliceElemBase(t) \in exactScalars[c] \cup {NoGoType}
  /\ \A t \in DOMAIN Go : Kind(t) = "struct" =>
       \A c, d \in DOMAIN exactScalars : \A a \in exactScalars[c], b \in exactScalars[d] :
         ConvertibleTo(t, a) /\ ConvertibleTo(t, b) => c = d
  /\ \A t \in DOMAIN Go :
       Go[t].impl \cap {"Enum", "Message"} # {} => Kind(t) \in {"int32", "ptr", "interface"}

\* Conversions Go always has: between types of the same basic kind, and of
\* byte slices.
ASSUME ConversionAssumption ==
  \A t \in DOMAIN Go :
    /\ Kind(t) \in DOMAIN kindBase => ConvertibleTo(t, kindBase[Kind(t)])
    /\ Kind(t) = "uint8" => ConvertibleTo(t, "byte")
    /\ Kind(t) = "slice" /\ Elem(t) = "byte" => ConvertibleTo(t, "[]byte")

(***************************************************************************)
(* enumFQNFromGoType / protoFQNFromGoType: the descriptor comes from the   *)
(* type's zero value.  The zero value of an interface type is nil, and the *)
(* type assertion on it panics.                                            *)
(***************************************************************************)
TypeFromDescriptor(code, t) ==
  IF Kind(t) = "interface" THEN Panic ELSE OkType(NamedType(code, Go[t].fqn))
=============================================================================
