----------------------------- MODULE SpanTypes -----------------------------
(***************************************************************************)
(* Cloud Spanner data as the encoder produces it: types (sppb.Type), wire  *)
(* values (structpb.Value), the (GenericColumnValue, error) pair every     *)
(* operation returns, and the constructors of the two libraries that build *)
(* them (typector and gcvctor, which are not part of this repository and   *)
(* are modelled from how it uses them).                                    *)
(***************************************************************************)
EXTENDS Naturals, Sequences, FiniteSetsExt

(***************************************************************************)
(* Types.  Every type is the same record, so that any two can be compared: *)
(* elem holds the element type of an ARRAY, fields the <name, type> pairs  *)
(* of a STRUCT, fqn the name of a PROTO or ENUM.  NoType is the nil Type.   *)
(***************************************************************************)
NoType == [code |-> "NONE", elem |-> <<>>, fields |-> <<>>, fqn |-> ""]
Scalar(c)       == [NoType EXCEPT !.code = c]
ArrayOf(t)      == [NoType EXCEPT !.code = "ARRAY", !.elem = <<t>>]
StructOf(fs)    == [NoType EXCEPT !.code = "STRUCT", !.fields = fs]
NamedType(c, n) == [NoType EXCEPT !.code = c, !.fqn = n]

(***************************************************************************)
(* Wire values: a NULL, a literal, or a list.                              *)
(***************************************************************************)
NullWire     == [null |-> TRUE,  lit |-> "", list |-> <<>>]
LitWire(x)   == [null |-> FALSE, lit |-> x,  list |-> <<>>]
ListWire(ws) == [null |-> FALSE, lit |-> "", list |-> ws]

(***************************************************************************)
(* What an operation returns.  "none" is no result yet.  A Go panic and    *)
(* the runtime's fatal stack overflow are results too.  path is the chain  *)
(* of ArrayElementError / StructFieldError wrappers around err, outermost  *)
(* first, each with the index it names.                                    *)
(***************************************************************************)
NoResult      == [kind |-> "none", type |-> NoType, wire |-> NullWire,
                  err |-> "", path |-> <<>>]
Ok(t, w)      == [NoResult EXCEPT !.kind = "ok", !.type = t, !.wire = w]
OkType(t)     == Ok(t, NullWire)
Err(e)        == [NoResult EXCEPT !.kind = "err", !.err = e]
Wrap(r, step) == [r EXCEPT !.path = <<step>> \o @]
Panic         == [NoResult EXCEPT !.kind = "panic"]
StackOverflow == [NoResult EXCEPT !.kind = "overflow"]

ResultKinds == {"none", "ok", "err", "panic", "overflow"}
IsResult(r) == DOMAIN r = DOMAIN NoResult /\ r.kind \in ResultKinds

\* Error wrappers: an element of an array, a field of a struct.
AtElem(i)  == <<"elem", i>>
AtField(i) == <<"field", i>>

(***************************************************************************)
(* gcvctor: constructors of composite values from encoded parts.           *)
(***************************************************************************)
Wires(gs)    == [i \in 1..Len(gs) |-> gs[i].wire]
NullOf(t)    == Ok(t, NullWire)
NullArray(t) == Ok(ArrayOf(t), NullWire)

\* gcvctor.ArrayValueOf refuses an element whose type is not the array's.
ArrayValueOf(t, gs) ==
  LET bad == {i \in 1..Len(gs) : gs[i].type # t}
  IN  IF bad = {} THEN Ok(ArrayOf(t), ListWire(Wires(gs)))
      ELSE Wrap(Err("ErrTypeMismatch"), AtElem(Min(bad) - 1))

StructTypeOf(gs)  == StructOf([i \in 1..Len(gs) |-> [name |-> gs[i].name, type |-> gs[i].type]])
StructValueOf(gs) == Ok(StructTypeOf(gs), ListWire(Wires(gs)))
=============================================================================
