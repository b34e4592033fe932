----------------------------- MODULE RowShapes -----------------------------
(***************************************************************************)
(* The row-shaped helpers of struct.go.  A caller makes mask options over  *)
(* name lists of its own, which it goes on using and changing, and calls   *)
(* helpers with them.  A helper applies the options, lists the fields,     *)
(* checks the mask, and goes through the fields one by one.                *)
(*                                                                         *)
(* Inference[t] is what TypeFromGoType gives for a field of Go type t, and *)
(* Encoding[o][t] what encodeValue may give for its values under encode    *)
(* options o, which may answer by encoders of the caller's: EncodeValue is *)
(* the model of both.  A value is told by the field it was read from.      *)
(***************************************************************************)
EXTENDS ColumnMask

CONSTANTS
  Arguments,   \* the structs and types the caller has
  NameLists,   \* NameLists[l]: what the caller's list l may hold
  MaxOptions,  \* mask options the caller makes
  Inference, Encoding,
  Refused      \* the encode options that panic when they are applied

ASSUME RowShapesAssumption ==
  /\ \A l \in DOMAIN NameLists : NameLists[l] # {} /\ NameLists[l] \subseteq Seq(STRING)
  /\ MaxOptions \in Nat
  /\ \A s \in DOMAIN Decls : \A i \in 1..Len(listings[s]) :
       /\ listings[s][i].type \in DOMAIN Inference
       /\ \A o \in DOMAIN Encoding : listings[s][i].type \in DOMAIN Encoding[o]
  /\ Refused \subseteq DOMAIN Encoding
  /\ \A v \in Arguments :
       v.shape \in {"nil", "other"} \/ (v.shape \in {"struct", "nilPtr"} /\ v.struct \in DOMAIN Decls)

VARIABLES
  names,    \* the caller's name lists
  options,  \* mask options made: [kind, list], the list captured by reference
  pc,       \* where the session is
  call,     \* the call: [helper, v, opts]
  applied,  \* how many options newColumnMaskConfig has applied
  mask,     \* the columnMaskConfig of the call
  pos,      \* the loop index over the listed fields
  cols, vals,  \* what the loop has collected
  encoded,  \* the columns encodeValue was called for
  ret       \* the result: [kind, err, path, cols, vals]

vars == <<names, options, pc, call, applied, mask, pos, cols, vals, encoded, ret>>
caller == <<names, options, call>>

WriteShaped == {"MutationColumnsAndValues", "MutationMap"}
MaskTaking  == WriteShaped \cup {"ParamsMap"}
OfTypes     == {"StructColumns", "RowTypeFor"}
Helpers     == OfTypes \cup MaskTaking \cup {"StructColumnsAndValues"}

NoReturn == [kind |-> "none", err |-> "", path |-> <<>>, cols |-> <<>>, vals |-> <<>>]
NoHelper == [helper |-> "none", v |-> Argument("nil", "", {}), opts |-> "none"]

fl == listings[call.v.struct]
f  == fl[pos]

Init ==
  /\ names \in [DOMAIN NameLists -> UNION {NameLists[l] : l \in DOMAIN NameLists}]
  /\ \A l \in DOMAIN NameLists : names[l] \in NameLists[l]
  /\ options = <<>> /\ pc = "idle" /\ call = NoHelper /\ applied = 0
  /\ mask = NoMask /\ pos = 1 /\ cols = <<>> /\ vals = <<>> /\ encoded = <<>>
  /\ ret = NoReturn

----------------------------------------------------------------------------
(* The caller.                                                             *)

\* WithColumns(list...) or WithoutColumns(list...).
MakeOption ==
  /\ pc = "idle" /\ Len(options) < MaxOptions
  /\ \E kind \in {"WithColumns", "WithoutColumns"}, l \in DOMAIN NameLists :
       options' = Append(options, [kind |-> kind, list |-> l])
  /\ UNCHANGED <<names, pc, call, applied, mask, pos, cols, vals, encoded, ret>>

\* It writes other names into a list that options may have captured, which
\* leaves the list as long as it was.
ChangeList ==
  /\ pc = "idle" /\ options # <<>>
  /\ \E l \in DOMAIN NameLists : \E ns \in NameLists[l] :
       Len(ns) = Len(names[l]) /\ names' = [names EXCEPT ![l] = ns]
  /\ UNCHANGED <<options, pc, call, applied, mask, pos, cols, vals, encoded, ret>>

\* The encode options a helper may be given: only one takes any.
OptionsOf(helper) == IF helper = "StructColumnsAndValues" THEN DOMAIN Encoding ELSE {"none"}
Call ==
  /\ pc = "idle"
  /\ \E helper \in Helpers, v \in Arguments : \E o \in OptionsOf(helper) :
       call' = [helper |-> helper, v |-> v, opts |-> o]
  /\ pc' = IF call'.helper \in MaskTaking THEN "options" ELSE "list"
  /\ UNCHANGED <<names, options, applied, mask, pos, cols, vals, encoded, ret>>

Forget ==
  /\ pc = "returned"
  /\ pc' = "idle" /\ ret' = NoReturn /\ call' = NoHelper
  /\ mask' = NoMask /\ applied' = 0 /\ encoded' = <<>>
  /\ UNCHANGED <<names, options, pos, cols, vals>>

----------------------------------------------------------------------------
(* The helpers.                                                            *)

\* The loop index and what was collected go out of scope.
Return(r) ==
  /\ ret' = r /\ pc' = "returned"
  /\ pos' = 1 /\ cols' = <<>> /\ vals' = <<>>
  /\ UNCHANGED <<caller, applied, mask>>
Fail(err) == Return([NoReturn EXCEPT !.kind = "err", !.err = err])
Panics    == Return([NoReturn EXCEPT !.kind = "panic"])

\* The field is passed over; or, mutation, its column is added all the same.
PassOver == pos' = pos + 1 /\ UNCHANGED <<caller, pc, applied, mask, cols, vals, ret>>
NameOnly == /\ pos' = pos + 1 /\ cols' = Append(cols, f.name)
            /\ UNCHANGED <<caller, pc, applied, mask, vals, ret>>
Skip == PassOver

\* The error wrapped in the field it is about; mutation: in the next one.
FailAtNext(err) ==
  Return([NoReturn EXCEPT !.kind = "err", !.err = err, !.path = <<AtField(pos)>>])
FailAtField(err) ==
  Return([NoReturn EXCEPT !.kind = "err", !.err = err, !.path = <<AtField(pos - 1)>>])

\* The field's column and value are added to the result.
Collect(type) ==
  /\ cols' = Append(cols, f.name)
  /\ vals' = Append(vals, [index |-> f.index, type |-> type])
  /\ pos' = pos + 1 /\ UNCHANGED <<caller, pc, applied, mask, ret>>
\* What the field's type or value was turned into is, unless it failed.
CollectResult(r) ==
  CASE r.kind = "ok"  -> Collect(r.type)
    [] r.kind = "err" -> FailAtField(r.err)
    [] OTHER          -> Panics
\* The plain value of the field is.
CollectPlain == IF BehindNil(call.v, f) THEN Panics ELSE Collect(NoType)

\* newColumnMaskConfig: one option.
ApplyOption ==
  /\ pc = "options" /\ applied < Len(options)
  /\ LET o == options[applied + 1] IN mask' = Accumulated(mask, o.kind, names[o.list])
  /\ applied' = applied + 1
  /\ UNCHANGED <<caller, pc, pos, cols, vals, encoded, ret>>

\* newEncodeConfig panics on one of the options: an encoder of an interface.
Refuses == call.helper = "StructColumnsAndValues" /\ call.opts \in Refused

\* The encode options are applied, the argument's fields are listed, and the
\* mask is checked against them.
ListFields ==
  /\ pc = "list" \/ (pc = "options" /\ applied = Len(options))
  /\ LET err == IF call.helper \in OfTypes THEN structFieldsError(call.v)
                ELSE structValueError(call.v)
     IN  IF Refuses THEN Panics
         ELSE IF err # "" THEN Fail(err)
         ELSE IF call.helper \in MaskTaking /\ ~validate(mask, fl, call.helper \in WriteShaped)
         THEN Fail("ErrInvalidColumnMask")
         ELSE pc' = "fields" /\ UNCHANGED <<caller, applied, mask, pos, cols, vals, ret>>
  /\ UNCHANGED encoded

InFields(helpers) == pc = "fields" /\ call.helper \in helpers /\ pos <= Len(fl)

\* StructColumnsFromGoType.
NameField == InFields({"StructColumns"}) /\ Collect(NoType) /\ UNCHANGED encoded

\* RowTypeFromGoType, which ResultSetMetadataFromGoType wraps.
InferField ==
  InFields({"RowTypeFor"}) /\ CollectResult(Inference[f.type]) /\ UNCHANGED encoded

\* StructColumnsAndValues.
EncodeValueOfField ==
  IF BehindNil(call.v, f) THEN Panics /\ UNCHANGED encoded
  ELSE \E r \in Encoding[call.opts][f.type] : CollectResult(r) /\ encoded' = Append(encoded, f.name)
\* Mutation: the write-shaped listing.
EncodeWritableField ==
  /\ InFields({"StructColumnsAndValues"})
  /\ IF isReadOnlyField(f) THEN PassOver /\ UNCHANGED encoded ELSE EncodeValueOfField
EncodeField == InFields({"StructColumnsAndValues"}) /\ EncodeValueOfField

Written(x) == ~isReadOnlyField(x) /\ keep(mask, x.name)

\* MutationColumnsAndValues, which MutationMap calls.
MutateField ==
  /\ InFields(WriteShaped)
  /\ IF Written(f) THEN CollectPlain ELSE Skip
  /\ UNCHANGED encoded

\* ParamsMap, the map under construction being cols and vals; mutation: the
\* value is read before the mask is asked.
BindEagerly ==
  /\ InFields({"ParamsMap"})
  /\ IF BehindNil(call.v, f) THEN Panics
     ELSE IF keep(mask, f.name) THEN CollectPlain ELSE PassOver
  /\ UNCHANGED encoded
BindField ==
  /\ InFields({"ParamsMap"})
  /\ IF ~keep(mask, f.name) THEN PassOver
     ELSE IF Contains(cols, f.name) THEN Fail("duplicate") ELSE CollectPlain
  /\ UNCHANGED encoded

\* Every field is done; MutationMap turns what it collected into a map.
FieldsDone ==
  /\ pc = "fields" /\ pos > Len(fl)
  /\ IF call.helper = "MutationMap" /\ ~IsInjective(cols) THEN Fail("duplicate")
     ELSE Return([NoReturn EXCEPT !.kind = "ok", !.cols = cols, !.vals = vals])
  /\ UNCHANGED encoded

Helper == ApplyOption \/ ListFields \/ NameField \/ InferField \/ EncodeField
            \/ MutateField \/ BindField \/ FieldsDone
Next == MakeOption \/ ChangeList \/ Call \/ Helper \/ Forget

Spec == Init /\ [][Next]_vars
=============================================================================
