---------------------------- MODULE MCRowEncoder ----------------------------
(***************************************************************************)
(* An instance of RowEncoder for TLC: a struct with a field of each kind,  *)
(* promoted ones behind an embedded pointer among them.                    *)
(***************************************************************************)
EXTENDS RowEncoder, TLC

CONSTANTS g1, g2

F(name, type) ==
  [name |-> name, col |-> "", skip |-> FALSE, readOnly |-> FALSE, exported |-> TRUE,
   type |-> type, embeds |-> "", ptr |-> FALSE]

Structs ==
  LET decls ==
    [Row  |-> <<F("W", "any"), [F("Base", "struct") EXCEPT !.embeds = "Base", !.ptr = TRUE],
                [F("Z", "string") EXCEPT !.readOnly = TRUE], F("P", "[]proto.Message")>>,
     Base |-> <<F("X", "string")>>]
  IN  decls

FieldInference ==
  LET t == [string |-> OkType(Scalar("STRING")), struct |-> OkType(StructOf(<<>>)),
            any |-> Err("ErrTypeNotInferable")] @@ ("[]proto.Message" :> Panic)
  IN  t

MaskSet ==
  LET masks == {NoMask, [NoMask EXCEPT !.include = <<"Z", "X">>], [NoMask EXCEPT !.exclude = <<"X", "P">>],
                [NoMask EXCEPT !.include = <<"Q">>]}
  IN  masks

\* A struct all of whose columns encode, one with a nil embedded pointer, one
\* whose W holds a [][]myByte, and a nil pointer.
ItemMap ==
  LET items == [full |-> Argument("struct", "Row", {}), hollow |-> Argument("struct", "Row", {<<2>>}),
                nested |-> Argument("struct", "Row", {}), nil |-> Argument("nilPtr", "Row", {})]
  IN  items

\* No options; WithValueEncoder for string, which fails on some; and
\* WithValueEncoder for an interface type.
OptionSet == {"none", "hooked", "refused"}
Encodes ==
  LET outcome(i, o, c) == IF i = "nested" /\ c = "W" THEN "panic"
                          ELSE IF i \in {"hollow", "full"} /\ o = "hooked" /\ c = "Z" THEN "err" ELSE "ok"
  IN  [i \in DOMAIN ItemMap |-> [o \in OptionSet |-> [c \in {"W", "X", "Z", "P"} |-> outcome(i, o, c)]]]

Interchangeable == Permutations({g1, g2})
=============================================================================
