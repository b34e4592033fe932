------------------------------- MODULE MCRows -------------------------------
(***************************************************************************)
(* Instances of RowShapes for TLC: one struct type for each way a listing  *)
(* can differ from the declaration, and the mask lists of a caller.        *)
(***************************************************************************)
EXTENDS RowProperties, TLC

F(name, type) ==
  [name |-> name, col |-> "", skip |-> FALSE, readOnly |-> FALSE, exported |-> TRUE,
   type |-> type, embeds |-> "", ptr |-> FALSE]
Tagged(d, col) == [d EXCEPT !.col = col]
ReadOnly(d)    == [d EXCEPT !.readOnly = TRUE]
Hidden(d)      == [d EXCEPT !.exported = FALSE]
Skipped(d)     == [d EXCEPT !.skip = TRUE]
Embed(s)       == [F(s, "struct") EXCEPT !.embeds = s]
EmbedPtr(s)    == [Embed(s) EXCEPT !.ptr = TRUE]

Structs ==
  LET decls ==
    [Base   |-> <<F("X", "string"), ReadOnly(F("Y", "int64"))>>,
     Other  |-> <<Tagged(F("A", "int64"), "X"), F("Z", "big.Rat")>>,
     \* an untagged shallower field hides the tagged deeper one
     Over   |-> <<F("X", "big.Rat"), Embed("Other"), Skipped(F("Y", "string"))>>,
     \* the tagged one of two equally deep ones wins
     Both   |-> <<Embed("Base"), EmbedPtr("Other")>>,
     \* promotion through an unexported embedded struct, two levels deep
     Deep   |-> <<Hidden(F("z", "string")), Hidden(Embed("Lower")), ReadOnly(Tagged(F("B", "string"), "Z"))>>,
     Lower  |-> <<EmbedPtr("Base"), F("W", "any")>>,
     \* a tagged embedded struct is a field like any other
     Named  |-> <<Tagged(Embed("Base"), "X"), F("Z", "[]proto.Message")>>,
     Loose  |-> <<F("X", "any"), F("Z", "big.Rat"), F("Y", "chan int")>>,
     Empty  |-> <<>>]
  IN  decls

OkType1(c) == OkType(Scalar(c))
FieldInference ==
  [string |-> OkType1("STRING"), int64 |-> OkType1("INT64"), struct |-> OkType(StructOf(<<>>)),
   any |-> Err("ErrTypeNotInferable")]
    @@ ("big.Rat" :> OkType1("NUMERIC") @@ "chan int" :> Err("ErrUnsupportedType")
        @@ "[]proto.Message" :> Panic)
BuiltIn ==
  [string |-> {OkType1("STRING")}, int64 |-> {OkType1("INT64")},
   struct |-> {OkType(StructOf(<<>>))},
   any |-> {OkType1("STRING"), OkType1("INT64"), Err("ErrUntypedNil")}]
    @@ ("big.Rat" :> {OkType1("NUMERIC"), Err("ErrNumericOutOfRange")}
        @@ "chan int" :> {Err("ErrUnsupportedType")} @@ "[]proto.Message" :> {Panic})

\* No options; WithValueEncoder for string, which writes some as an INT64 and
\* fails on others; and WithValueEncoder for an interface type.
FieldEncoding ==
  [none    |-> BuiltIn,
   hooked  |-> [BuiltIn EXCEPT !["string"] = {OkType1("INT64"), Err("ErrEncoder")}],
   refused |-> BuiltIn]

\* Every struct; nil embedded pointers where there are any; and no struct.
Args ==
  LET args == {Argument("struct", s, {}) : s \in DOMAIN Structs}
                \cup {Argument("struct", "Both", {<<2>>}), Argument("struct", "Deep", {<<2, 1>>}),
                      Argument("nilPtr", "Over", {}), Argument("nil", "", {}), Argument("other", "", {})}
  IN  args

Lists == LET lists == [mine  |-> {<<>>, <<"X">>, <<"Z", "X">>, <<"nope">>},
                       yours |-> {<<"Y">>, <<"X", "X">>, <<"W", "Z">>}]
         IN  lists
=============================================================================
