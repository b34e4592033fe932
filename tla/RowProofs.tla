----------------------------- MODULE RowProofs -----------------------------
(***************************************************************************)
(* The row-shaped helpers keep what RowProperties states, for any struct   *)
(* types, mask options, name lists and values.                             *)
(*                                                                         *)
(* The properties speak of the result.  The invariant says how it comes    *)
(* about: the mask is what the options applied so far ask for, and what    *)
(* the loop has collected is what the helper owes for the fields it has    *)
(* gone through.                                                           *)
(***************************************************************************)
EXTENDS RowProperties, RowLemmas

Option == [kind : {"WithColumns", "WithoutColumns"}, list : DOMAIN NameLists]
Mask   == [include : Seq(STRING), exclude : Seq(STRING)]

\* The names that the first n options of a kind ask for, and which of the
\* first n fields are wanted.
AskedUpto(kind, n) ==
  UNION {ToSet(names[options[i].list]) : i \in {j \in 1..n : options[j].kind = kind}}
WantedUpto(n) == {i \in 1..n : Wants(fl[i])}

Control ==
  /\ names \in [DOMAIN NameLists -> Seq(STRING)]
  /\ options \in Seq(Option) /\ Len(options) <= MaxOptions
  /\ pc \in {"idle", "options", "list", "fields", "returned"}
  /\ IF pc = "idle" THEN call = NoHelper ELSE call.helper \in Helpers /\ call.v \in Arguments
  /\ applied \in 0..Len(options)
  /\ pc = "options" => call.helper \in MaskTaking
  /\ pc = "list" => call.helper \notin MaskTaking
  /\ pc \in {"idle", "list"} => applied = 0
  /\ pc \in {"idle", "options", "list"} => encoded = <<>>
  /\ pc # "fields" => pos = 1 /\ cols = <<>> /\ vals = <<>>
  /\ IF pc = "returned" THEN ret.kind \in {"ok", "err", "panic"} /\ Len(ret.cols) = Len(ret.vals)
     ELSE ret = NoReturn

Masking ==
  /\ mask \in Mask
  /\ ToSet(mask.include) = AskedUpto("WithColumns", applied)
  /\ ToSet(mask.exclude) = AskedUpto("WithoutColumns", applied)

\* A mask-taking helper has collected the wanted ones of the fields it has
\* gone through, none of them twice or behind a nil pointer.
CollectedWanted ==
  LET sel == Subsequence(fl, WantedUpto(pos - 1)) IN
  /\ applied = Len(options) /\ ~Mistaken
  /\ Len(cols) = Len(sel)
  /\ \A i \in 1..Len(cols) : cols[i] = sel[i].name /\ vals[i].index = sel[i].index
  /\ \A i \in 1..Len(cols) : \E n \in 1..(pos - 1) : cols[i] = fl[n].name
  /\ \A i, j \in 1..Len(cols) : cols[i] = cols[j] => i = j
  /\ \A n \in WantedUpto(pos - 1) : ~BehindNil(call.v, fl[n])

\* The others all of them.
CollectedAll ==
  /\ Len(cols) = pos - 1
  /\ \A i \in 1..Len(cols) : cols[i] = fl[i].name /\ vals[i].index = fl[i].index
  /\ call.helper = "RowTypeFor" => \A i \in 1..(pos - 1) :
       Inference[fl[i].type].kind = "ok" /\ vals[i].type = Inference[fl[i].type].type
  /\ call.helper = "StructColumnsAndValues" =>
       /\ IsSeq(encoded) /\ Len(encoded) = pos - 1
       /\ \A i \in 1..(pos - 1) :
            /\ encoded[i] = fl[i].name
            /\ \E r \in Encoding[call.opts][fl[i].type] : r.kind = "ok" /\ vals[i].type = r.type

Walk ==
  pc = "fields" =>
    /\ structFieldsError(call.v) = ""
    /\ call.helper \notin OfTypes => structValueError(call.v) = ""
    /\ pos \in 1..(Len(fl) + 1)
    /\ IsSeq(cols) /\ IsSeq(vals) /\ Len(cols) = Len(vals) /\ Len(cols) < pos
    /\ IF call.helper \in MaskTaking THEN CollectedWanted ELSE CollectedAll

Promises ==
  /\ MaskKeptExactly /\ MistakesReported /\ AlignedWithRowType
  /\ FirstFailureNamed /\ PanicsOnWantedOnly

IInv == Control /\ Masking /\ Walk /\ Promises

----------------------------------------------------------------------------
(* What the invariant says of the state.                                   *)

\* A sequence whose elements are the names of another's is the names.
LEMMA NamesOf ==
  ASSUME NEW s, IsSeq(s), NEW xs, Len(xs) = Len(s), \A i \in 1..Len(s) : s[i] = xs[i].name
  PROVE  s = Names(xs)
<1>1. s \in Seq(Members(s))
  BY DEF IsSeq
<1>2. s = [i \in 1..Len(s) |-> s[i]]
  BY <1>1
<1> QED BY <1>2 DEF Names

LEMMA ListingTyped ==
  ASSUME IInv, call.v \in Arguments, structFieldsError(call.v) = ""
  PROVE  /\ Len(fl) \in Nat /\ DOMAIN fl = 1..Len(fl)
         /\ \A i, j \in 1..Len(fl) : fl[i].name = fl[j].name => i = j
<1>1. call.v.struct \in DOMAIN Decls
  BY RowShapesAssumption DEF structFieldsError
<1> QED BY <1>1, ListingAssumption DEF fl

LEMMA HelperKinds ==
  /\ MaskTaking \cap OfTypes = {} /\ "StructColumnsAndValues" \notin MaskTaking \cup OfTypes
  /\ MaskTaking \subseteq Helpers /\ WriteShaped \subseteq MaskTaking
  /\ OfTypes = {"StructColumns", "RowTypeFor"} /\ "none" \notin Helpers
  /\ "ParamsMap" \in MaskTaking \ WriteShaped /\ MaskTaking = WriteShaped \cup {"ParamsMap"}
BY DEF MaskTaking, OfTypes, Helpers, WriteShaped

\* The caller's part of the state decides what is asked for.
LEMMA SameCaller ==
  ASSUME UNCHANGED caller
  PROVE  /\ fl' = fl /\ Wanted' = Wanted /\ WantedAt' = WantedAt /\ Mistaken' = Mistaken
         /\ \A n : WantedUpto(n)' = WantedUpto(n)
         /\ \A kind, n : AskedUpto(kind, n)' = AskedUpto(kind, n)
<1>1. names' = names /\ options' = options /\ call' = call
  BY DEF caller
<1>2. fl' = fl
  BY <1>1 DEF fl
<1>3. \A kind : Asked(kind)' = Asked(kind)
  BY <1>1 DEF Asked
<1>4. \A x : (Wants(x)' <=> Wants(x))
  BY <1>1, <1>3 DEF Wants, Writable
<1>5. WantedAt' = WantedAt /\ \A n : WantedUpto(n)' = WantedUpto(n)
  BY <1>2, <1>4 DEF WantedAt, WantedUpto
<1>6. Wanted' = Wanted
  BY <1>2, <1>5 DEF Wanted
<1>7. Mistaken' = Mistaken
  BY <1>1, <1>2, <1>3 DEF Mistaken, Writable
<1>8. \A kind, n : AskedUpto(kind, n)' = AskedUpto(kind, n)
  BY <1>1 DEF AskedUpto
<1> QED BY <1>2, <1>5, <1>6, <1>7, <1>8

\* Once every option is applied the mask holds what the caller asked for.
LEMMA MaskAsAsked ==
  ASSUME IInv, applied = Len(options)
  PROVE  /\ mask.include \in Seq(STRING) /\ mask.exclude \in Seq(STRING)
         /\ ToSet(mask.include) = Asked("WithColumns") /\ ToSet(mask.exclude) = Asked("WithoutColumns")
         /\ (mask.include = <<>> <=> Asked("WithColumns") = {})
         /\ (mask.exclude = <<>> <=> Asked("WithoutColumns") = {})
         /\ \A x : Contains(mask.include, x) <=> x \in Asked("WithColumns")
         /\ \A x : Contains(mask.exclude, x) <=> x \in Asked("WithoutColumns")
<1>1. ASSUME NEW s \in Seq(STRING)
      PROVE  (s = <<>> <=> ToSet(s) = {}) /\ \A x : Contains(s, x) <=> x \in ToSet(s)
  <2>1. Len(s) \in Nat /\ DOMAIN s = 1..Len(s) /\ (s = <<>> <=> Len(s) = 0)
    OBVIOUS
  <2>2. ToSet(s) = {s[i] : i \in 1..Len(s)}
    BY <2>1 DEF ToSet
  <2>3. ToSet(s) = {} <=> 1..Len(s) = {}
    BY <2>2
  <2>4. \A x : Contains(s, x) <=> x \in ToSet(s)
    BY <2>2 DEF Contains
  <2> QED BY <2>1, <2>3, <2>4
<1>2. mask.include \in Seq(STRING) /\ mask.exclude \in Seq(STRING)
  BY DEF IInv, Masking, Mask
<1>3. ToSet(mask.include) = Asked("WithColumns") /\ ToSet(mask.exclude) = Asked("WithoutColumns")
  BY DEF IInv, Masking, AskedUpto, Asked
<1> QED BY <1>1, <1>2, <1>3

LEMMA ValidIsUnmistaken ==
  ASSUME IInv, applied = Len(options), call.v \in Arguments, structFieldsError(call.v) = ""
  PROVE  validate(mask, fl, call.helper \in WriteShaped) <=> ~Mistaken
<1>1. ToSet(fl) = {fl[i] : i \in 1..Len(fl)} /\ ToSet(Names(fl)) = {fl[i].name : i \in 1..Len(fl)}
  BY ListingTyped DEF ToSet, Names
<1> DEFINE in == Asked("WithColumns")
           out == Asked("WithoutColumns")
           W == call.helper \in WriteShaped
<1>2. /\ ToSet(mask.include) = in /\ ToSet(mask.exclude) = out
      /\ (mask.include = <<>> <=> in = {}) /\ (mask.exclude = <<>> <=> out = {})
  BY MaskAsAsked
<1> HIDE DEF in, out
<1>3. validate(mask, fl, W) <=>
        /\ in = {} \/ out = {}
        /\ \A name \in in : \E i \in 1..Len(fl) : fl[i].name = name /\ ~(W /\ isReadOnlyField(fl[i]))
        /\ \A name \in out : \E i \in 1..Len(fl) : fl[i].name = name
  <2> HIDE DEF W
  <2>1. \A name : (\E g \in ToSet(fl) : g.name = name /\ ~(W /\ isReadOnlyField(g)))
                    <=> (\E i \in 1..Len(fl) : fl[i].name = name /\ ~(W /\ isReadOnlyField(fl[i])))
    BY <1>1, ZenonT(30)
  <2>2. \A name : (\E g \in ToSet(fl) : g.name = name) <=> (\E i \in 1..Len(fl) : fl[i].name = name)
    BY <1>1
  <2> DEFINE Ins == \A name \in in : \E g \in ToSet(fl) : g.name = name /\ ~(W /\ isReadOnlyField(g))
             Outs == \A name \in out : \E g \in ToSet(fl) : g.name = name
  <2>3. validate(mask, fl, W) <=> (in = {} \/ out = {}) /\ Ins /\ Outs
    BY <1>2, Zenon DEF validate
  <2>4. Ins <=> \A name \in in : \E i \in 1..Len(fl) : fl[i].name = name /\ ~(W /\ isReadOnlyField(fl[i]))
    BY <2>1, Zenon
  <2>5. Outs <=> \A name \in out : \E i \in 1..Len(fl) : fl[i].name = name
    BY <2>2, Zenon
  <2> HIDE DEF Ins, Outs
  <2> QED BY <2>3, <2>4, <2>5, Zenon
<1>4. Mistaken <=>
        \/ in # {} /\ out # {}
        \/ \E name \in in \cup out : \A i \in 1..Len(fl) : fl[i].name # name
        \/ \E i \in 1..Len(fl) : fl[i].name \in in /\ W /\ isReadOnlyField(fl[i])
  BY <1>1 DEF Mistaken, Writable, in, out
<1>5. \A i, j \in 1..Len(fl) : fl[i].name = fl[j].name => i = j
  BY ListingTyped
<1> HIDE DEF W
<1> DEFINE Named(x) == \E i \in 1..Len(fl) : fl[i].name = x
           AllIn   == \A name \in in : Named(name)
           AllOut  == \A name \in out : Named(name)
           BothIn  == \A name \in in : \E i \in 1..Len(fl) : fl[i].name = name /\ ~(W /\ isReadOnlyField(fl[i]))
           Frozen  == \E i \in 1..Len(fl) : fl[i].name \in in /\ W /\ isReadOnlyField(fl[i])
<1>6. BothIn <=> AllIn /\ ~Frozen
  <2>1. ASSUME BothIn PROVE AllIn
    BY <2>1, Zenon
  <2>2. ASSUME BothIn, Frozen PROVE FALSE
    <3>1. PICK i \in 1..Len(fl) : fl[i].name \in in /\ W /\ isReadOnlyField(fl[i])
      BY <2>2, Zenon
    <3>2. PICK j \in 1..Len(fl) : fl[j].name = fl[i].name /\ ~(W /\ isReadOnlyField(fl[j]))
      BY <2>2, <3>1, Zenon
    <3>3. i = j
      BY <1>5, <3>2, Zenon
    <3> QED BY <3>1, <3>2, <3>3, Zenon
  <2>3. ASSUME AllIn, ~Frozen, NEW name \in in
        PROVE  \E i \in 1..Len(fl) : fl[i].name = name /\ ~(W /\ isReadOnlyField(fl[i]))
    <3>1. PICK i \in 1..Len(fl) : fl[i].name = name
      BY <2>3, Zenon
    <3> QED BY <2>3, <3>1, Zenon
  <2> QED BY <2>1, <2>2, <2>3, Zenon
<1>7. (\E name \in in \cup out : \A i \in 1..Len(fl) : fl[i].name # name) <=> ~AllIn \/ ~AllOut
  BY ZenonT(30)
<1>8. validate(mask, fl, W) <=> (in = {} \/ out = {}) /\ BothIn /\ AllOut
  BY <1>3
<1>9. Mistaken <=> ~(in = {} \/ out = {}) \/ ~AllIn \/ ~AllOut \/ Frozen
  BY <1>4, <1>7
<1> HIDE DEF AllIn, AllOut, BothIn, Frozen
<1>10. validate(mask, fl, W) <=> ~Mistaken
  BY <1>6, <1>8, <1>9, ZenonT(30)
<1> QED BY <1>10 DEF W

LEMMA WantedIsKept ==
  ASSUME IInv, applied = Len(options), NEW x
  PROVE  /\ call.helper \in WriteShaped => (Written(x) <=> Wants(x))
         /\ call.helper \notin WriteShaped => (keep(mask, x.name) <=> Wants(x))
BY MaskAsAsked DEF Written, Wants, Writable, keep

----------------------------------------------------------------------------
(* Returning: the promises are kept when what is returned settles them.    *)

Settles(r, enc) ==
  LET of(helpers) == call.helper \in helpers
      fails(x)  == IF of({"RowTypeFor"}) THEN Inference[x.type].kind = "err"
                   ELSE \E e \in Encoding[call.opts][x.type] : e.kind = "err"
      passes(x) == IF of({"RowTypeFor"}) THEN Inference[x.type].kind = "ok"
                   ELSE \E e \in Encoding[call.opts][x.type] : e.kind = "ok"
  IN  /\ of(MaskTaking) /\ r.kind = "ok" =>
           r.cols = Names(Wanted) /\ Indexes(r.vals) = Indexes(Wanted)
      /\ of(MaskTaking) /\ structValueError(call.v) = "" =>
           (r.err = "ErrInvalidColumnMask" <=> Mistaken)
      /\ of({"StructColumns", "RowTypeFor", "StructColumnsAndValues"}) /\ r.kind = "ok" =>
           /\ r.cols = Names(fl) /\ Indexes(r.vals) = Indexes(fl)
           /\ \A i \in 1..Len(fl) :
                /\ of({"RowTypeFor"}) => r.vals[i].type = Inference[fl[i].type].type
                /\ of({"StructColumnsAndValues"}) =>
                     \E e \in Encoding[call.opts][fl[i].type] :
                       e.kind = "ok" /\ r.vals[i].type = e.type
      /\ of({"RowTypeFor", "StructColumnsAndValues"}) /\ r.kind = "err" =>
           \/ r.err \in {"ErrNotStruct", "ErrNilStructPointer"} /\ r.path = <<>>
           \/ \E n \in 1..Len(fl) :
                /\ r.path = <<AtField(n - 1)>> /\ fails(fl[n])
                /\ \A i \in 1..(n - 1) : passes(fl[i])
                /\ of({"StructColumnsAndValues"}) => enc = SubSeq(Names(fl), 1, n)
      /\ of(MaskTaking) /\ structValueError(call.v) = "" /\ ~Mistaken =>
           (r.kind = "panic" <=> \E n \in WantedAt : BehindNil(call.v, fl[n]))

\* Nothing is promised of a call that has not returned.
LEMMA Unreturned == (pc # "returned" => Promises) /\ (pc' # "returned" => Promises')
BY DEF Promises, MaskKeptExactly, MistakesReported, AlignedWithRowType,
       FirstFailureNamed, PanicsOnWantedOnly, Succeeded, Returned

LEMMA Returns ==
  ASSUME IInv, pc \in {"options", "list", "fields"}, NEW r, Return(r),
         r.kind \in {"ok", "err", "panic"}, Len(r.cols) = Len(r.vals), Settles(r, encoded')
  PROVE  IInv'
<1>1. /\ ret' = r /\ pc' = "returned" /\ pos' = 1 /\ cols' = <<>> /\ vals' = <<>>
      /\ UNCHANGED <<caller, applied, mask>>
  BY DEF Return
<1>2. names' = names /\ options' = options /\ call' = call
  BY <1>1 DEF caller
<1>3. Control'
  BY <1>1, <1>2 DEF IInv, Control
<1>4. Masking'
  BY <1>1, <1>2, SameCaller DEF IInv, Masking
<1>5. Walk'
  BY <1>1 DEF Walk
<1>6. Promises'
  <2>1. MaskKeptExactly'
    BY <1>1, <1>2, SameCaller DEF Settles, MaskKeptExactly, Succeeded, Returned
  <2>2. MistakesReported'
    BY <1>1, <1>2, SameCaller DEF Settles, MistakesReported, Returned
  <2>3. AlignedWithRowType'
    <3>1. fl' = fl /\ ret' = r /\ call' = call
      BY <1>1, <1>2, SameCaller
    <3>2. call.helper \in {"StructColumns", "RowTypeFor", "StructColumnsAndValues"} /\ r.kind = "ok" =>
            /\ r.cols = Names(fl) /\ Indexes(r.vals) = Indexes(fl)
            /\ \A i \in 1..Len(fl) :
                 /\ call.helper = "RowTypeFor" => r.vals[i].type = Inference[fl[i].type].type
                 /\ call.helper = "StructColumnsAndValues" =>
                      \E e \in Encoding[call.opts][fl[i].type] :
                        e.kind = "ok" /\ r.vals[i].type = e.type
      BY DEF Settles
    <3>3. Names(fl)' = Names(fl) /\ Indexes(fl)' = Indexes(fl) /\ Indexes(ret.vals)' = Indexes(r.vals)
      BY <3>1 DEF Names, Indexes
    <3> QED BY <3>1, <3>2, <3>3 DEF AlignedWithRowType, Succeeded, Returned
  <2>4. FirstFailureNamed'
    BY <1>1, <1>2, SameCaller DEF Settles, FirstFailureNamed, Returned
  <2>5. PanicsOnWantedOnly'
    BY <1>1, <1>2, SameCaller DEF Settles, PanicsOnWantedOnly, Returned
  <2> QED BY <2>1, <2>2, <2>3, <2>4, <2>5 DEF Promises
<1> QED BY <1>3, <1>4, <1>5, <1>6 DEF IInv

\* A failure that is about no field, and a panic.
LEMMA Failures ==
  ASSUME NEW err
  PROVE  LET r == [NoReturn EXCEPT !.kind = "err", !.err = err]
             p == [NoReturn EXCEPT !.kind = "panic"]
         IN  /\ r.kind = "err" /\ r.err = err /\ r.path = <<>> /\ Len(r.cols) = Len(r.vals)
             /\ p.kind = "panic" /\ p.err = "" /\ Len(p.cols) = Len(p.vals)
<1>1. PICK a, b, c, d, e : /\ NoReturn = [kind |-> a, err |-> b, path |-> c, cols |-> d, vals |-> e]
                           /\ b = "" /\ c = <<>> /\ d = <<>> /\ e = <<>>
  BY ZenonT(30) DEF NoReturn
<1>2. LET r == [NoReturn EXCEPT !.kind = "err", !.err = err]
      IN  r.kind = "err" /\ r.err = err /\ r.path = c /\ r.cols = d /\ r.vals = e
  BY <1>1
<1>3. LET p == [NoReturn EXCEPT !.kind = "panic"]
      IN  p.kind = "panic" /\ p.err = b /\ p.cols = d /\ p.vals = e
  BY <1>1
<1> QED BY <1>1, <1>2, <1>3

----------------------------------------------------------------------------
(* The caller's steps.                                                     *)

LEMMA InitKeeps == Init => IInv
<1> SUFFICES ASSUME Init PROVE IInv
  OBVIOUS
<1>1. \A l \in DOMAIN NameLists : names[l] \in Seq(STRING)
  BY RowShapesAssumption DEF Init
<1>2. Control
  <2>1. names \in [DOMAIN NameLists -> Seq(STRING)]
    BY <1>1 DEF Init
  <2>2. options \in Seq(Option) /\ Len(options) <= MaxOptions /\ applied \in 0..Len(options)
    BY RowShapesAssumption DEF Init
  <2> QED BY <2>1, <2>2 DEF Init, Control
<1>3. Masking
  <2>1. mask \in Mask /\ ToSet(mask.include) = {} /\ ToSet(mask.exclude) = {}
    BY DEF Init, Mask, NoMask, ToSet
  <2>2. \A kind : AskedUpto(kind, applied) = {}
    BY DEF Init, AskedUpto
  <2> QED BY <2>1, <2>2 DEF Masking
<1>4. Walk /\ pc # "returned"
  BY DEF Init, Walk
<1> QED BY <1>2, <1>3, <1>4, Unreturned DEF IInv

\* Between calls the mask is as little asked of as the options applied.
LEMMA NothingApplied ==
  /\ applied = 0 => \A kind : AskedUpto(kind, applied) = {}
  /\ applied' = 0 => \A kind : AskedUpto(kind, applied)' = {}
BY DEF AskedUpto

LEMMA MakeOptionKeeps == IInv /\ MakeOption => IInv'
<1> SUFFICES ASSUME IInv, MakeOption PROVE IInv'
  OBVIOUS
<1>1. /\ pc = "idle" /\ pc' = "idle" /\ Len(options) < MaxOptions /\ applied = 0
      /\ UNCHANGED <<names, call, applied, mask, pos, cols, vals, encoded, ret>>
  BY DEF MakeOption, IInv, Control
<1>2. PICK o \in Option : options' = Append(options, o)
  BY DEF MakeOption, Option
<1>3. options' \in Seq(Option) /\ Len(options') = Len(options) + 1 /\ Len(options) \in Nat
  BY <1>2 DEF IInv, Control
<1>4. Control'
  BY <1>1, <1>3, RowShapesAssumption DEF IInv, Control
<1>5. Masking'
  BY <1>1, NothingApplied DEF IInv, Masking
<1>6. Walk' /\ Promises'
  BY <1>1, Unreturned DEF Walk
<1> QED BY <1>4, <1>5, <1>6 DEF IInv

LEMMA ChangeListKeeps == IInv /\ ChangeList => IInv'
<1> SUFFICES ASSUME IInv, ChangeList PROVE IInv'
  OBVIOUS
<1>1. /\ pc = "idle" /\ pc' = "idle" /\ applied = 0
      /\ UNCHANGED <<options, call, applied, mask, pos, cols, vals, encoded, ret>>
  BY DEF ChangeList, IInv, Control
<1>2. names' \in [DOMAIN NameLists -> Seq(STRING)]
  <2>1. PICK l \in DOMAIN NameLists : \E ns \in NameLists[l] : names' = [names EXCEPT ![l] = ns]
    BY DEF ChangeList
  <2>2. PICK ns \in NameLists[l] : names' = [names EXCEPT ![l] = ns]
    BY <2>1
  <2>3. ns \in Seq(STRING)
    BY RowShapesAssumption
  <2> QED BY <2>2, <2>3 DEF IInv, Control
<1>3. Control'
  BY <1>1, <1>2 DEF IInv, Control
<1>4. Masking'
  BY <1>1, NothingApplied DEF IInv, Masking
<1>5. Walk' /\ Promises'
  BY <1>1, Unreturned DEF Walk
<1> QED BY <1>3, <1>4, <1>5 DEF IInv

LEMMA CallKeeps == IInv /\ Call => IInv'
<1> SUFFICES ASSUME IInv, Call PROVE IInv'
  OBVIOUS
<1>1. /\ pc = "idle" /\ applied = 0
      /\ UNCHANGED <<names, options, applied, mask, pos, cols, vals, encoded, ret>>
  BY DEF Call, IInv, Control
<1>2. PICK helper \in Helpers, v \in Arguments :
        \E o \in OptionsOf(helper) : call' = [helper |-> helper, v |-> v, opts |-> o]
  BY DEF Call
<1>3. call'.helper \in Helpers /\ call'.v \in Arguments
  BY <1>2
<1>4. pc' = IF call'.helper \in MaskTaking THEN "options" ELSE "list"
  BY DEF Call
<1>5. Control'
  BY <1>1, <1>3, <1>4 DEF IInv, Control
<1>6. Masking'
  BY <1>1, NothingApplied DEF IInv, Masking
<1>7. Walk' /\ Promises'
  BY <1>4, Unreturned DEF Walk
<1> QED BY <1>5, <1>6, <1>7 DEF IInv

LEMMA ForgetKeeps == IInv /\ Forget => IInv'
<1> SUFFICES ASSUME IInv, Forget PROVE IInv'
  OBVIOUS
<1>1. /\ pc = "returned" /\ pc' = "idle" /\ ret' = NoReturn /\ call' = NoHelper
      /\ mask' = NoMask /\ applied' = 0 /\ encoded' = <<>>
      /\ UNCHANGED <<names, options, pos, cols, vals>>
  BY DEF Forget
<1>2. Control'
  <2>1. 0 \in 0..Len(options)
    BY DEF IInv, Control
  <2> QED BY <1>1, <2>1 DEF IInv, Control
<1>3. Masking'
  <2>1. mask' \in Mask /\ ToSet(mask'.include) = {} /\ ToSet(mask'.exclude) = {}
    BY <1>1 DEF Mask, NoMask, ToSet
  <2> QED BY <1>1, <2>1, NothingApplied DEF Masking
<1>4. Walk' /\ Promises'
  BY <1>1, Unreturned DEF Walk
<1> QED BY <1>2, <1>3, <1>4 DEF IInv

----------------------------------------------------------------------------
(* Before the fields.                                                      *)

\* The names asked for by the first options and by one more.
LEMMA AskedNext ==
  ASSUME NEW n \in Nat, NEW kind
  PROVE  AskedUpto(kind, n + 1) =
           IF options[n + 1].kind = kind THEN AskedUpto(kind, n) \cup ToSet(names[options[n + 1].list])
           ELSE AskedUpto(kind, n)
<1> DEFINE N(j) == ToSet(names[options[j].list])
           Has(j, x) == options[j].kind = kind /\ x \in N(j)
<1>1. \A m, x : x \in AskedUpto(kind, m) <=> \E j \in 1..m : Has(j, x)
  BY DEF AskedUpto
<1> HIDE DEF Has
<1>2. \A x : (\E j \in 1..(n + 1) : Has(j, x)) <=> (\E j \in 1..n : Has(j, x)) \/ Has(n + 1, x)
  <2>1. \A j : j \in 1..(n + 1) <=> j \in 1..n \/ j = n + 1
    OBVIOUS
  <2> QED BY <2>1
<1>3. \A x : x \in AskedUpto(kind, n + 1) <=> x \in AskedUpto(kind, n) \/ Has(n + 1, x)
  BY <1>1, <1>2
<1>4. CASE options[n + 1].kind = kind
  <2>1. \A x : Has(n + 1, x) <=> x \in N(n + 1)
    BY <1>4 DEF Has
  <2> HIDE DEF N
  <2>2. AskedUpto(kind, n + 1) = AskedUpto(kind, n) \cup N(n + 1)
    BY <1>3, <2>1
  <2> QED BY <1>4, <2>2 DEF N
<1>5. CASE options[n + 1].kind # kind
  <2>1. \A x : ~Has(n + 1, x)
    BY <1>5 DEF Has
  <2>2. AskedUpto(kind, n + 1) = AskedUpto(kind, n)
    BY <1>3, <2>1
  <2> QED BY <1>5, <2>2
<1> QED BY <1>4, <1>5

LEMMA ConcatMembers ==
  ASSUME NEW s \in Seq(STRING), NEW t \in Seq(STRING)
  PROVE  s \o t \in Seq(STRING) /\ ToSet(s \o t) = ToSet(s) \cup ToSet(t)
<1>1. /\ s \o t \in Seq(STRING) /\ Len(s \o t) = Len(s) + Len(t)
      /\ Len(s) \in Nat /\ Len(t) \in Nat
      /\ DOMAIN s = 1..Len(s) /\ DOMAIN t = 1..Len(t) /\ DOMAIN (s \o t) = 1..(Len(s) + Len(t))
  OBVIOUS
<1>2. \A i \in 1..Len(s) : (s \o t)[i] = s[i]
  OBVIOUS
<1>3. \A i \in 1..Len(t) : (s \o t)[Len(s) + i] = t[i]
  OBVIOUS
<1>4. ASSUME NEW i \in 1..(Len(s) + Len(t)), i \notin 1..Len(s)
      PROVE  \E j \in 1..Len(t) : i = Len(s) + j
  <2>1. i - Len(s) \in 1..Len(t) /\ i = Len(s) + (i - Len(s))
    BY <1>1, <1>4
  <2> QED BY <2>1
<1> DEFINE u == s \o t
<1> HIDE DEF u
<1>5. /\ DOMAIN u = 1..(Len(s) + Len(t)) /\ \A i \in 1..Len(s) : u[i] = s[i]
      /\ \A i \in 1..Len(t) : u[Len(s) + i] = t[i]
  BY <1>1, <1>2, <1>3 DEF u
<1>6. ToSet(u) \subseteq ToSet(s) \cup ToSet(t)
  <2> SUFFICES ASSUME NEW i \in 1..(Len(s) + Len(t)) PROVE u[i] \in ToSet(s) \cup ToSet(t)
    BY <1>5 DEF ToSet
  <2>1. CASE i \in 1..Len(s)
    <3>1. u[i] = s[i] /\ i \in DOMAIN s
      BY <1>1, <1>5, <2>1
    <3> QED BY <3>1 DEF ToSet
  <2>2. CASE i \notin 1..Len(s)
    <3>1. PICK j \in 1..Len(t) : i = Len(s) + j
      BY <1>4, <2>2
    <3>2. u[i] = t[j] /\ j \in DOMAIN t
      BY <1>1, <1>5, <3>1
    <3> QED BY <3>2 DEF ToSet
  <2> QED BY <2>1, <2>2
<1>7. /\ \A i \in 1..Len(s) : i \in 1..(Len(s) + Len(t))
      /\ \A i \in 1..Len(t) : Len(s) + i \in 1..(Len(s) + Len(t))
  BY <1>1
<1>8. ToSet(s) \cup ToSet(t) \subseteq ToSet(u)
  <2>1. ASSUME NEW i \in 1..Len(s) PROVE s[i] \in ToSet(u)
    <3>1. i \in DOMAIN u /\ u[i] = s[i]
      BY <1>5, <1>7
    <3> QED BY <3>1 DEF ToSet
  <2>2. ASSUME NEW i \in 1..Len(t) PROVE t[i] \in ToSet(u)
    <3>1. Len(s) + i \in DOMAIN u /\ u[Len(s) + i] = t[i]
      BY <1>5, <1>7
    <3> QED BY <3>1 DEF ToSet
  <2> QED BY <1>1, <2>1, <2>2 DEF ToSet
<1> QED BY <1>1, <1>6, <1>8 DEF u

LEMMA ApplyOptionKeeps == IInv /\ ApplyOption => IInv'
<1> SUFFICES ASSUME IInv, ApplyOption PROVE IInv'
  OBVIOUS
<1> DEFINE o == options[applied + 1]
           ns == names[o.list]
<1>1. /\ pc = "options" /\ pc' = "options" /\ applied < Len(options) /\ applied' = applied + 1
      /\ mask' = Accumulated(mask, o.kind, ns)
      /\ UNCHANGED <<caller, pos, cols, vals, encoded, ret>>
  BY DEF ApplyOption
<1>2. names' = names /\ options' = options /\ call' = call
  BY <1>1 DEF caller
<1>3. applied \in Nat /\ applied + 1 \in 1..Len(options) /\ o \in Option /\ ns \in Seq(STRING)
  <2>1. /\ options \in Seq(Option) /\ Len(options) \in Nat /\ applied \in 0..Len(options)
        /\ names \in [DOMAIN NameLists -> Seq(STRING)]
    BY DEF IInv, Control
  <2>2. applied \in Nat /\ applied + 1 \in 1..Len(options)
    BY <1>1, <2>1
  <2>3. o \in Option
    BY <2>1, <2>2
  <2>4. o.list \in DOMAIN NameLists
    BY <2>3 DEF Option
  <2> QED BY <2>1, <2>2, <2>3, <2>4
<1>4. Control'
  BY <1>1, <1>2, <1>3 DEF IInv, Control
<1>5. Masking'
  <2>1. o.kind \in {"WithColumns", "WithoutColumns"}
    BY <1>3 DEF Option
  <2>2. \A kind : AskedUpto(kind, applied)' = AskedUpto(kind, applied + 1)
    BY <1>1, <1>2 DEF AskedUpto
  <2>3. \A kind : AskedUpto(kind, applied + 1) =
                    IF o.kind = kind THEN AskedUpto(kind, applied) \cup ToSet(ns)
                    ELSE AskedUpto(kind, applied)
    BY <1>3, AskedNext
  <2>4. /\ mask \in Mask /\ mask.include \in Seq(STRING) /\ mask.exclude \in Seq(STRING)
        /\ ToSet(mask.include) = AskedUpto("WithColumns", applied)
        /\ ToSet(mask.exclude) = AskedUpto("WithoutColumns", applied)
    BY DEF IInv, Masking, Mask
  <2> HIDE DEF o, ns
  <2>5. CASE o.kind = "WithColumns"
    <3>1. /\ mask' \in Mask /\ mask'.include = mask.include \o ns /\ mask'.exclude = mask.exclude
      BY <1>1, <1>3, <2>4, <2>5, ConcatMembers DEF Accumulated, Mask
    <3>2. ToSet(mask'.include) = AskedUpto("WithColumns", applied) \cup ToSet(ns)
      BY <1>3, <2>4, <3>1, ConcatMembers
    <3> QED BY <2>2, <2>3, <2>4, <2>5, <3>1, <3>2 DEF Masking
  <2>6. CASE o.kind = "WithoutColumns"
    <3>1. /\ mask' \in Mask /\ mask'.exclude = mask.exclude \o ns /\ mask'.include = mask.include
      BY <1>1, <1>3, <2>4, <2>6, ConcatMembers DEF Accumulated, Mask
    <3>2. ToSet(mask'.exclude) = AskedUpto("WithoutColumns", applied) \cup ToSet(ns)
      BY <1>3, <2>4, <3>1, ConcatMembers
    <3> QED BY <2>2, <2>3, <2>4, <2>6, <3>1, <3>2 DEF Masking
  <2> QED BY <2>1, <2>5, <2>6
<1>6. Walk' /\ Promises'
  BY <1>1, Unreturned DEF Walk
<1> QED BY <1>4, <1>5, <1>6 DEF IInv

\* An argument that is no usable struct, and what the errors are called.
LEMMA ArgumentErrors ==
  /\ structValueError(call.v) = "" => structFieldsError(call.v) = ""
  /\ structFieldsError(call.v) \in {"", "ErrNotStruct"}
  /\ structValueError(call.v) \in {"", "ErrNotStruct", "ErrNilStructPointer"}
BY DEF structValueError, structFieldsError

LEMMA ListFieldsFails ==
  ASSUME IInv, pc \in {"options", "list"}, UNCHANGED encoded, call.helper \in MaskTaking => applied = Len(options),
         NEW err, Fail(err),
         \/ /\ err \in {"ErrNotStruct", "ErrNilStructPointer"}
            /\ call.helper \in MaskTaking => structValueError(call.v) # ""
         \/ /\ err = "ErrInvalidColumnMask" /\ call.helper \in MaskTaking
            /\ structValueError(call.v) = "" => Mistaken
  PROVE  IInv'
<1> DEFINE r == [NoReturn EXCEPT !.kind = "err", !.err = err]
<1>1. Return(r)
  BY DEF Fail
<1>2. r.kind = "err" /\ r.err = err /\ r.path = <<>> /\ Len(r.cols) = Len(r.vals)
  BY Failures
<1> HIDE DEF r
<1>3. Settles(r, encoded')
  BY <1>2, HelperKinds DEF Settles
<1> QED BY <1>1, <1>2, <1>3, Returns

LEMMA ListFieldsKeeps == IInv /\ ListFields => IInv'
<1> SUFFICES ASSUME IInv, ListFields PROVE IInv'
  OBVIOUS
<1> DEFINE err == IF call.helper \in OfTypes THEN structFieldsError(call.v)
                  ELSE structValueError(call.v)
           valid == validate(mask, fl, call.helper \in WriteShaped)
<1>1. /\ pc \in {"options", "list"} /\ UNCHANGED encoded /\ encoded = <<>>
      /\ call.helper \in Helpers /\ call.v \in Arguments /\ pos = 1 /\ cols = <<>> /\ vals = <<>>
      /\ call.helper \in MaskTaking => applied = Len(options)
  BY DEF ListFields, IInv, Control
<1>0. CASE Refuses
  <2>1. Panics
    BY <1>0 DEF ListFields
  <2>2. call.helper = "StructColumnsAndValues"
    BY <1>0 DEF Refuses
  <2> DEFINE r == [NoReturn EXCEPT !.kind = "panic"]
  <2>3. Return(r)
    BY <2>1 DEF Panics
  <2>4. r.kind = "panic" /\ r.err = "" /\ Len(r.cols) = Len(r.vals)
    BY Failures
  <2> HIDE DEF r, err, valid
  <2>5. Settles(r, encoded')
    BY <2>2, <2>4, HelperKinds DEF Settles
  <2> QED BY <1>1, <2>3, <2>4, <2>5, Returns
<1>2. CASE ~Refuses /\ err # ""
  <2>1. Fail(err)
    BY <1>2 DEF ListFields
  <2>2. err \in {"ErrNotStruct", "ErrNilStructPointer"}
    BY <1>2, ArgumentErrors
  <2>3. call.helper \in MaskTaking => structValueError(call.v) # ""
    BY <1>2, HelperKinds
  <2> HIDE DEF err
  <2> QED BY <1>1, <2>1, <2>2, <2>3, ListFieldsFails
<1>3. CASE ~Refuses /\ err = "" /\ call.helper \in MaskTaking /\ ~valid
  <2>1. Fail("ErrInvalidColumnMask")
    BY <1>3 DEF ListFields
  <2>2. structValueError(call.v) = "" => Mistaken
    BY <1>1, <1>3, ArgumentErrors, ValidIsUnmistaken
  <2> HIDE DEF valid, err
  <2> QED BY <1>1, <1>3, <2>1, <2>2, ListFieldsFails
<1>4. CASE ~Refuses /\ err = "" /\ (call.helper \in MaskTaking => valid)
  <2>1. pc' = "fields" /\ UNCHANGED <<caller, applied, mask, pos, cols, vals, ret>>
    BY <1>4 DEF ListFields
  <2>2. names' = names /\ options' = options /\ call' = call
    BY <2>1 DEF caller
  <2>3. structFieldsError(call.v) = "" /\ (call.helper \notin OfTypes => structValueError(call.v) = "")
    BY <1>4, ArgumentErrors
  <2>4. Control'
    BY <1>1, <2>1, <2>2 DEF IInv, Control
  <2>5. Masking'
    BY <2>1, <2>2, SameCaller DEF IInv, Masking
  <2>6. IsSeq(<<>>) /\ Len(<<>>) = 0 /\ Len(fl) \in Nat
    <3>1. <<>> \in Seq({})
      OBVIOUS
    <3> QED BY <1>1, <2>3, <3>1, SeqOfMembers, ListingTyped
  <2>9. ASSUME IF call.helper \in MaskTaking THEN CollectedWanted' ELSE CollectedAll'
        PROVE  IInv'
    <3>1. fl' = fl /\ structFieldsError(call.v)' = structFieldsError(call.v)
          /\ structValueError(call.v)' = structValueError(call.v)
      BY <2>1, <2>2, SameCaller
    <3>2. pos' = 1 /\ cols' = <<>> /\ vals' = <<>>
      BY <1>1, <2>1
    <3>3. pos' \in 1..(Len(fl') + 1) /\ Len(cols') < pos'
      BY <2>6, <3>1, <3>2
    <3>4. IsSeq(cols)' /\ IsSeq(vals)' /\ Len(cols') = Len(vals')
      BY <2>6, <3>2 DEF IsSeq, Members
    <3>5. Walk'
      BY <2>2, <2>3, <2>9, <3>1, <3>3, <3>4 DEF Walk
    <3> QED BY <2>1, <2>4, <2>5, <3>5, Unreturned DEF IInv
  <2>7. CASE call.helper \in MaskTaking
    <3>1. ~Mistaken
      BY <1>1, <1>4, <2>3, <2>7, ValidIsUnmistaken
    <3>2. WantedUpto(pos - 1) = {} /\ Subsequence(fl, {}) = <<>>
      BY <1>1, SelectNone DEF WantedUpto
    <3>3. CollectedWanted
      <4>1. 1..0 = {} /\ Len(<<>>) = 0
        OBVIOUS
      <4> QED BY <1>1, <2>7, <3>1, <3>2, <4>1 DEF CollectedWanted
    <3>4. CollectedWanted'
      BY <2>1, <2>2, <3>3, SameCaller DEF CollectedWanted
    <3> QED BY <2>7, <2>9, <3>4
  <2>8. CASE call.helper \notin MaskTaking
    <3>1. CollectedAll
      <4>1. 1..0 = {} /\ Len(<<>>) = 0
        OBVIOUS
      <4> QED BY <1>1, <2>6, <4>1 DEF CollectedAll
    <3>2. CollectedAll'
      BY <1>1, <2>1, <2>2, <3>1, SameCaller DEF CollectedAll
    <3> QED BY <2>8, <2>9, <3>2
  <2> QED BY <2>7, <2>8
<1> QED BY <1>0, <1>2, <1>3, <1>4

----------------------------------------------------------------------------
(* Going through the fields.                                               *)

AtAField == pc = "fields" /\ pos <= Len(fl)

LEMMA FieldFacts ==
  ASSUME IInv, pc = "fields"
  PROVE  /\ call.helper \in Helpers /\ call.v \in Arguments
         /\ structFieldsError(call.v) = "" /\ (call.helper \notin OfTypes => structValueError(call.v) = "")
         /\ Len(fl) \in Nat /\ DOMAIN fl = 1..Len(fl) /\ pos \in 1..(Len(fl) + 1) /\ pos \in Nat /\ pos >= 1
         /\ \A i, j \in 1..Len(fl) : fl[i].name = fl[j].name => i = j
         /\ IsSeq(cols) /\ IsSeq(vals) /\ Len(cols) = Len(vals) /\ Len(cols) \in Nat /\ Len(cols) < pos
         /\ call.helper \in MaskTaking => CollectedWanted
         /\ call.helper \notin MaskTaking => CollectedAll
<1>1. call.helper \in Helpers /\ call.v \in Arguments
  BY DEF IInv, Control
<1>2. /\ structFieldsError(call.v) = "" /\ (call.helper \notin OfTypes => structValueError(call.v) = "")
      /\ pos \in 1..(Len(fl) + 1)
      /\ IsSeq(cols) /\ IsSeq(vals) /\ Len(cols) = Len(vals) /\ Len(cols) < pos
      /\ call.helper \in MaskTaking => CollectedWanted
      /\ call.helper \notin MaskTaking => CollectedAll
  BY DEF IInv, Walk
<1>3. /\ Len(fl) \in Nat /\ DOMAIN fl = 1..Len(fl)
      /\ \A i, j \in 1..Len(fl) : fl[i].name = fl[j].name => i = j
  BY <1>1, <1>2, ListingTyped
<1>4. Len(cols) \in Nat
  BY <1>2, Appended
<1>5. pos \in Nat /\ pos >= 1
  <2>1. Len(fl) \in Nat
    BY <1>3
  <2>2. pos \in 1..(Len(fl) + 1)
    BY <1>2
  <2> QED BY <2>1, <2>2
<1> QED BY <1>1, <1>2, <1>3, <1>4, <1>5

LEMMA Continues ==
  ASSUME IInv, AtAField, pc' = "fields", pos' = pos + 1, UNCHANGED <<caller, applied, mask, ret>>,
         IsSeq(cols'), IsSeq(vals'), Len(cols') = Len(vals'), Len(cols') < pos',
         IF call.helper \in MaskTaking THEN CollectedWanted' ELSE CollectedAll'
  PROVE  IInv'
<1>1. names' = names /\ options' = options /\ call' = call
  BY DEF caller
<1>2. Control'
  BY <1>1 DEF AtAField, IInv, Control
<1>3. Masking'
  BY <1>1, SameCaller DEF IInv, Masking
<1>4. Walk'
  <2>1. /\ fl' = fl /\ structFieldsError(call.v)' = structFieldsError(call.v)
        /\ structValueError(call.v)' = structValueError(call.v)
    BY <1>1, SameCaller
  <2>2. pos' \in 1..(Len(fl') + 1)
    <3>1. pos \in Nat /\ Len(fl) \in Nat /\ pos <= Len(fl) /\ pos' = pos + 1
      BY FieldFacts DEF AtAField
    <3>2. pos' \in 1..(Len(fl) + 1)
      BY <3>1
    <3> QED BY <2>1, <3>2
  <2>3. IsSeq(cols)' /\ IsSeq(vals)'
    BY DEF IsSeq, Members
  <2> QED BY <1>1, <2>1, <2>2, <2>3, FieldFacts DEF AtAField, Walk
<1>5. Promises'
  BY Unreturned
<1> QED BY <1>2, <1>3, <1>4, <1>5 DEF IInv

\* The wanted fields of the first ones and of one more.
LEMMA WantedNext ==
  ASSUME IInv, AtAField
  PROVE  /\ WantedUpto(pos - 1) \in SUBSET (1..(pos - 1))
         /\ WantedUpto(pos) = IF Wants(f) THEN WantedUpto(pos - 1) \cup {pos} ELSE WantedUpto(pos - 1)
         /\ Wants(f) => /\ Subsequence(fl, WantedUpto(pos)) = Append(Subsequence(fl, WantedUpto(pos - 1)), f)
                        /\ IsSeq(Subsequence(fl, WantedUpto(pos - 1)))
<1>1. pos \in Nat /\ pos >= 1
  BY FieldFacts DEF AtAField
<1>2. WantedUpto(pos - 1) \in SUBSET (1..(pos - 1)) /\ pos - 1 \in Nat /\ (pos - 1) + 1 = pos
  BY <1>1 DEF WantedUpto
<1>3. WantedUpto(pos) = IF Wants(f) THEN WantedUpto(pos - 1) \cup {pos} ELSE WantedUpto(pos - 1)
  <2>1. \A i : i \in 1..pos <=> i \in 1..(pos - 1) \/ i = pos
    BY <1>1
  <2> QED BY <2>1 DEF WantedUpto, f
<1>4. ASSUME Wants(f)
      PROVE  /\ Subsequence(fl, WantedUpto(pos)) = Append(Subsequence(fl, WantedUpto(pos - 1)), f)
             /\ IsSeq(Subsequence(fl, WantedUpto(pos - 1)))
  <2> DEFINE P == WantedUpto(pos - 1)
             k == pos - 1
  <2>1. k \in Nat /\ P \in SUBSET (1..k) /\ k + 1 = pos
    BY <1>2
  <2>2. WantedUpto(pos) = P \cup {k + 1}
    BY <1>3, <1>4, <2>1
  <2> HIDE DEF P, k
  <2>3. Subsequence(fl, P \cup {k + 1}) = Append(Subsequence(fl, P), fl[k + 1])
    BY <2>1, SelectNext
  <2>4. IsSeq(Subsequence(fl, P))
    BY <2>1, SelectedIsSeq
  <2> QED BY <2>1, <2>2, <2>3, <2>4 DEF P, f
<1> QED BY <1>2, <1>3, <1>4

LEMMA PassOverKeeps ==
  ASSUME IInv, AtAField, call.helper \in MaskTaking, ~Wants(f), PassOver
  PROVE  IInv'
<1>1. /\ pos' = pos + 1 /\ pc' = "fields" /\ cols' = cols /\ vals' = vals
      /\ UNCHANGED <<caller, applied, mask, ret>>
  BY DEF PassOver, AtAField
<1>2. names' = names /\ options' = options /\ call' = call
  BY <1>1 DEF caller
<1>3. pos \in Nat /\ Len(cols) \in Nat /\ Len(cols) < pos
  BY FieldFacts DEF AtAField
<1>4. pos' - 1 = pos /\ Len(cols) < pos'
  BY <1>1, <1>3
<1>5. WantedUpto(pos) = WantedUpto(pos - 1)
  BY WantedNext
<1>6. WantedUpto(pos - 1)' = WantedUpto(pos - 1)
  BY <1>1, <1>2, <1>3, <1>5, <1>4, SameCaller
<1>7. CollectedWanted
  BY FieldFacts DEF AtAField
<1>9. fl' = fl /\ Mistaken' = Mistaken
  BY <1>1, SameCaller
<1>10. \A i \in 1..(pos - 1) : i \in 1..pos
  BY <1>3
<1>11. \A i \in 1..Len(cols) : \E n \in 1..pos : cols[i] = fl[n].name
  BY <1>7, <1>10 DEF CollectedWanted
<1>8. CollectedWanted'
  <2> DEFINE W == WantedUpto(pos - 1)
  <2>1. /\ applied = Len(options) /\ ~Mistaken
        /\ Len(cols) = Len(Subsequence(fl, W))
        /\ \A i \in 1..Len(cols) :
             /\ cols[i] = Subsequence(fl, W)[i].name
             /\ vals[i].index = Subsequence(fl, W)[i].index
        /\ \A i, j \in 1..Len(cols) : cols[i] = cols[j] => i = j
        /\ \A n \in W : ~BehindNil(call.v, fl[n])
    BY <1>7 DEF CollectedWanted
  <2>2. /\ W' = W /\ pos' - 1 = pos /\ cols' = cols /\ vals' = vals /\ applied' = applied
        /\ options' = options /\ call' = call
    BY <1>1, <1>2, <1>4, <1>6
  <2> HIDE DEF W
  <2> QED BY <1>9, <1>11, <2>1, <2>2 DEF CollectedWanted, W
<1> QED BY <1>1, <1>8, <1>4, FieldFacts, Continues DEF AtAField

\* What a field that is collected adds.
LEMMA Collected ==
  ASSUME IInv, AtAField, NEW type, Collect(type)
  PROVE  /\ pos' = pos + 1 /\ pc' = "fields" /\ UNCHANGED <<caller, applied, mask, ret>>
         /\ IsSeq(cols') /\ IsSeq(vals') /\ Len(cols') = Len(cols) + 1 /\ Len(vals') = Len(cols')
         /\ Len(cols') < pos' /\ Len(cols) \in Nat /\ pos' - 1 = pos
         /\ \A i \in 1..Len(cols) : cols'[i] = cols[i] /\ vals'[i] = vals[i]
         /\ cols'[Len(cols) + 1] = f.name
         /\ vals'[Len(cols) + 1].index = f.index /\ vals'[Len(cols) + 1].type = type
<1> DEFINE v == [index |-> f.index, type |-> type]
<1>1. /\ pos' = pos + 1 /\ pc' = "fields" /\ UNCHANGED <<caller, applied, mask, ret>>
      /\ cols' = Append(cols, f.name) /\ vals' = Append(vals, v)
  BY DEF Collect, AtAField
<1>2. v.index = f.index /\ v.type = type
  OBVIOUS
<1> HIDE DEF v
<1>3. /\ IsSeq(cols) /\ IsSeq(vals) /\ Len(cols) = Len(vals) /\ Len(cols) \in Nat
      /\ Len(cols) < pos /\ pos \in Nat
  BY FieldFacts DEF AtAField
<1>4. /\ IsSeq(cols') /\ Len(cols') = Len(cols) + 1 /\ \A i \in 1..Len(cols) : cols'[i] = cols[i]
      /\ cols'[Len(cols) + 1] = f.name
  BY <1>1, <1>3, Appended
<1>5. /\ IsSeq(vals') /\ Len(vals') = Len(vals) + 1 /\ \A i \in 1..Len(vals) : vals'[i] = vals[i]
      /\ vals'[Len(vals) + 1] = v
  BY <1>1, <1>3, Appended
<1>6. Len(cols') < pos' /\ pos' - 1 = pos
  BY <1>1, <1>3, <1>4
<1> QED BY <1>1, <1>2, <1>3, <1>4, <1>5, <1>6

LEMMA CollectWantedKeeps ==
  ASSUME IInv, AtAField, call.helper \in MaskTaking, Wants(f), ~BehindNil(call.v, f),
         NEW type, Collect(type)
  PROVE  IInv'
<1> DEFINE P == WantedUpto(pos - 1)
           sel == Subsequence(fl, P)
           k == Len(cols)
<1>1. /\ pos' = pos + 1 /\ pc' = "fields" /\ UNCHANGED <<caller, applied, mask, ret>>
      /\ IsSeq(cols') /\ IsSeq(vals') /\ Len(cols') = k + 1 /\ Len(vals') = Len(cols')
      /\ Len(cols') < pos' /\ k \in Nat /\ pos' - 1 = pos
  BY Collected
<1>2. /\ \A i \in 1..k : cols'[i] = cols[i] /\ vals'[i] = vals[i]
      /\ cols'[k + 1] = f.name /\ vals'[k + 1].index = f.index
  BY Collected
<1>3. names' = names /\ options' = options /\ call' = call
  BY <1>1 DEF caller
<1>4. /\ applied = Len(options) /\ ~Mistaken /\ k = Len(sel)
      /\ \A i \in 1..k : cols[i] = sel[i].name /\ vals[i].index = sel[i].index
      /\ \A i \in 1..k : \E n \in 1..(pos - 1) : cols[i] = fl[n].name
      /\ \A i, j \in 1..k : cols[i] = cols[j] => i = j
      /\ \A n \in P : ~BehindNil(call.v, fl[n])
  BY FieldFacts DEF AtAField, CollectedWanted
<1>5. pos \in Nat /\ pos \in 1..pos /\ pos \in 1..Len(fl) /\ \A n \in 1..(pos - 1) : n \in 1..pos /\ n \in 1..Len(fl) /\ n # pos
  <2>1. pos \in Nat /\ pos >= 1 /\ Len(fl) \in Nat /\ pos <= Len(fl)
    BY FieldFacts DEF AtAField
  <2> QED BY <2>1
<1>6. WantedUpto(pos) = P \cup {pos} /\ Subsequence(fl, WantedUpto(pos)) = Append(sel, f) /\ IsSeq(sel)
  BY WantedNext
<1> DEFINE sel2 == Subsequence(fl, WantedUpto(pos))
<1> HIDE DEF P, sel, sel2
<1>7. /\ Len(sel2) = k + 1 /\ \A i \in 1..k : sel2[i] = sel[i]
      /\ sel2[k + 1] = f
  <2>1. sel2 = Append(sel, f)
    BY <1>6 DEF sel2
  <2> QED BY <1>4, <1>6, <2>1, Appended
<1> HIDE DEF k
<1>8. \A i \in 1..(k + 1) : i \in 1..k \/ i = k + 1
  BY <1>1
<1>9. \A i \in 1..(k + 1) : cols'[i] = sel2[i].name /\ vals'[i].index = sel2[i].index
  <2>1. ASSUME NEW i \in 1..k PROVE cols'[i] = sel2[i].name /\ vals'[i].index = sel2[i].index
    <3>1. cols'[i] = cols[i] /\ vals'[i] = vals[i]
      BY <1>2
    <3>2. cols[i] = sel[i].name /\ vals[i].index = sel[i].index
      BY <1>4, Zenon
    <3>3. sel2[i] = sel[i]
      BY <1>7
    <3> QED BY <3>1, <3>2, <3>3
  <2>2. cols'[k + 1] = sel2[k + 1].name /\ vals'[k + 1].index = sel2[k + 1].index
    BY <1>2, <1>7
  <2> HIDE DEF f
  <2> QED BY <1>8, <2>1, <2>2, Zenon
<1>10. \A i \in 1..(k + 1) : \E n \in 1..pos : cols'[i] = fl[n].name
  <2>1. \A i \in 1..k : \E n \in 1..pos : cols'[i] = fl[n].name
    <3> SUFFICES ASSUME NEW i \in 1..k PROVE \E n \in 1..pos : cols'[i] = fl[n].name
      OBVIOUS
    <3>1. PICK n \in 1..(pos - 1) : cols[i] = fl[n].name
      BY <1>4, Zenon
    <3>2. n \in 1..pos /\ cols'[i] = fl[n].name
      BY <1>2, <1>5, <3>1, Zenon
    <3> QED BY <3>2
  <2>2. cols'[k + 1] = fl[pos].name
    BY <1>2 DEF f
  <2> QED BY <1>5, <1>8, <2>1, <2>2, Zenon
<1>11. \A i \in 1..k : cols[i] # f.name
  BY <1>4, <1>5, FieldFacts DEF AtAField, f
<1>12. \A i, j \in 1..(k + 1) : cols'[i] = cols'[j] => i = j
  <2>1. \A i \in 1..k : cols'[i] # cols'[k + 1]
    BY <1>2, <1>11
  <2>2. \A i, j \in 1..k : cols'[i] = cols'[j] => i = j
    <3> SUFFICES ASSUME NEW i \in 1..k, NEW j \in 1..k, cols'[i] = cols'[j] PROVE i = j
      OBVIOUS
    <3>1. cols'[i] = cols[i] /\ cols'[j] = cols[j]
      BY <1>2
    <3>2. cols[i] = cols[j] => i = j
      BY <1>4, Zenon
    <3> QED BY <3>1, <3>2
  <2> HIDE DEF f
  <2>3. ASSUME NEW i \in 1..(k + 1), NEW j \in 1..(k + 1), cols'[i] = cols'[j] PROVE i = j
    <3>1. CASE i \in 1..k /\ j \in 1..k
      BY <2>2, <2>3, <3>1, Zenon
    <3>2. CASE i = k + 1 /\ j \in 1..k
      BY <2>1, <2>3, <3>2, Zenon
    <3>3. CASE i \in 1..k /\ j = k + 1
      BY <2>1, <2>3, <3>3, Zenon
    <3> QED BY <1>8, <3>1, <3>2, <3>3, Zenon
  <2> QED BY <2>3, Zenon
<1>13. \A n \in WantedUpto(pos) : ~BehindNil(call.v, fl[n])
  BY <1>4, <1>6 DEF f
<1>14. WantedUpto(pos - 1)' = WantedUpto(pos) /\ fl' = fl /\ Mistaken' = Mistaken
  BY <1>1, SameCaller
<1>15. CollectedWanted'
  BY <1>1, <1>3, <1>4, <1>7, <1>9, <1>10, <1>12, <1>13, <1>14 DEF CollectedWanted, sel2
<1> QED BY <1>1, <1>15, Continues

\* A field that is collected whatever the mask, and what was encoded for it.
LEMMA CollectAnyKeeps ==
  ASSUME IInv, AtAField, call.helper \notin MaskTaking, NEW type, Collect(type),
         call.helper = "RowTypeFor" =>
           Inference[f.type].kind = "ok" /\ type = Inference[f.type].type,
         call.helper = "StructColumnsAndValues" =>
           /\ encoded' = Append(encoded, f.name)
           /\ \E r \in Encoding[call.opts][f.type] : r.kind = "ok" /\ type = r.type
  PROVE  IInv'
<1>1. /\ pos' = pos + 1 /\ pc' = "fields" /\ UNCHANGED <<caller, applied, mask, ret>>
      /\ IsSeq(cols') /\ IsSeq(vals') /\ Len(cols') = Len(cols) + 1 /\ Len(vals') = Len(cols')
      /\ Len(cols') < pos' /\ Len(cols) \in Nat /\ pos' - 1 = pos
  BY Collected
<1>2. CollectedAll /\ pos \in Nat /\ pos >= 1
  BY FieldFacts DEF AtAField
<1>3. Len(cols) = pos - 1 /\ Len(cols) + 1 = pos /\ \A i \in 1..pos : i \in 1..(pos - 1) \/ i = pos
  BY <1>1, <1>2 DEF CollectedAll
<1>4. /\ \A i \in 1..(pos - 1) : cols'[i] = cols[i] /\ vals'[i] = vals[i]
      /\ cols'[pos] = f.name /\ vals'[pos].index = f.index /\ vals'[pos].type = type
  BY <1>3, Collected
<1>5. \A i \in 1..pos : cols'[i] = fl[i].name /\ vals'[i].index = fl[i].index
  BY <1>2, <1>3, <1>4 DEF CollectedAll, f
<1>6. call.helper = "RowTypeFor" => \A i \in 1..pos :
        Inference[fl[i].type].kind = "ok" /\ vals'[i].type = Inference[fl[i].type].type
  BY <1>2, <1>3, <1>4 DEF CollectedAll, f
<1>7. ASSUME call.helper = "StructColumnsAndValues"
      PROVE  /\ IsSeq(encoded') /\ Len(encoded') = pos
             /\ \A i \in 1..pos :
                  /\ encoded'[i] = fl[i].name
                  /\ \E r \in Encoding[call.opts][fl[i].type] : r.kind = "ok" /\ vals'[i].type = r.type
  <2>1. /\ IsSeq(encoded) /\ Len(encoded) = pos - 1
        /\ \A i \in 1..(pos - 1) : encoded[i] = fl[i].name
        /\ \A i \in 1..(pos - 1) : \E r \in Encoding[call.opts][fl[i].type] : r.kind = "ok" /\ vals[i].type = r.type
    BY <1>2, <1>7 DEF CollectedAll
  <2>2. /\ IsSeq(encoded') /\ Len(encoded') = (pos - 1) + 1 /\ encoded'[(pos - 1) + 1] = f.name
        /\ \A i \in 1..(pos - 1) : encoded'[i] = encoded[i]
    <3>1. encoded' = Append(encoded, f.name) /\ IsSeq(encoded)
      BY <1>7, <2>1
    <3>2. /\ IsSeq(encoded') /\ Len(encoded') = Len(encoded) + 1 /\ encoded'[Len(encoded) + 1] = f.name
          /\ \A i \in 1..Len(encoded) : encoded'[i] = encoded[i]
      BY <3>1, Appended
    <3> QED BY <2>1, <3>2
  <2>3. (pos - 1) + 1 = pos
    BY <1>2
  <2>4. \A i \in 1..pos : encoded'[i] = fl[i].name
    BY <1>3, <2>1, <2>2, <2>3 DEF f
  <2>5. \A i \in 1..pos : \E r \in Encoding[call.opts][fl[i].type] : r.kind = "ok" /\ vals'[i].type = r.type
    BY <1>3, <1>4, <1>7, <2>1 DEF f
  <2> QED BY <2>2, <2>3, <2>4, <2>5
<1>8. fl' = fl /\ call' = call
  BY <1>1, SameCaller DEF caller
<1>9. CollectedAll'
  <2>1. IsSeq(encoded') <=> IsSeq(encoded)'
    BY DEF IsSeq, Members
  <2>2. Len(cols') = pos' - 1
    <3>1. Len(cols') = pos
      BY <1>1, <1>3
    <3> QED BY <1>1, <3>1
  <2> QED BY <1>1, <1>3, <1>5, <1>6, <1>7, <1>8, <2>1, <2>2 DEF CollectedAll
<1> QED BY <1>1, <1>9, Continues

\* A wanted field behind a nil embedded pointer.
LEMMA PanicWantedKeeps ==
  ASSUME IInv, AtAField, UNCHANGED encoded, Panics,
         call.helper \in MaskTaking, Wants(f), BehindNil(call.v, f)
  PROVE  IInv'
<1> DEFINE r == [NoReturn EXCEPT !.kind = "panic"]
<1>1. Return(r)
  BY DEF Panics
<1>2. r.kind = "panic" /\ r.err = "" /\ Len(r.cols) = Len(r.vals)
  BY Failures
<1> HIDE DEF r
<1>3. ~Mistaken
  BY FieldFacts DEF AtAField, CollectedWanted
<1>4. pos \in WantedAt
  <2>1. pos \in 1..Len(fl)
    <3>1. pos \in Nat /\ pos >= 1 /\ Len(fl) \in Nat /\ pos <= Len(fl)
      BY FieldFacts DEF AtAField
    <3> QED BY <3>1
  <2> QED BY <2>1 DEF WantedAt, f
<1>5. \E n \in WantedAt : BehindNil(call.v, fl[n])
  BY <1>4 DEF f
<1>6. Settles(r, encoded')
  BY <1>2, <1>3, <1>5, HelperKinds DEF Settles
<1> QED BY <1>1, <1>2, <1>6, Returns DEF AtAField

\* Of a helper without a mask nothing is promised that panicked.
LEMMA PanicAnyKeeps ==
  ASSUME IInv, AtAField, Panics, call.helper \notin MaskTaking
  PROVE  IInv'
<1> DEFINE r == [NoReturn EXCEPT !.kind = "panic"]
<1>1. Return(r)
  BY DEF Panics
<1>2. r.kind = "panic" /\ Len(r.cols) = Len(r.vals)
  BY Failures
<1> HIDE DEF r
<1>3. Settles(r, encoded')
  BY <1>2 DEF Settles
<1> QED BY <1>1, <1>2, <1>3, Returns DEF AtAField

LEMMA PlainKeeps ==
  ASSUME IInv, AtAField, UNCHANGED encoded, CollectPlain, call.helper \in MaskTaking, Wants(f)
  PROVE  IInv'
<1>1. CASE BehindNil(call.v, f)
  BY <1>1, PanicWantedKeeps DEF CollectPlain
<1>2. CASE ~BehindNil(call.v, f)
  BY <1>2, CollectWantedKeeps DEF CollectPlain
<1> QED BY <1>1, <1>2

LEMMA NameFieldKeeps == IInv /\ NameField => IInv'
<1> SUFFICES ASSUME IInv, NameField PROVE IInv'
  OBVIOUS
<1>1. AtAField /\ call.helper = "StructColumns" /\ Collect(NoType)
  BY DEF NameField, InFields, AtAField
<1> QED BY <1>1, HelperKinds, CollectAnyKeeps

\* The first field that fails is named.
LEMMA FailAtFieldKeeps ==
  ASSUME IInv, AtAField, NEW err, FailAtField(err),
         \/ /\ call.helper = "RowTypeFor" /\ Inference[f.type].kind = "err"
         \/ /\ call.helper = "StructColumnsAndValues" /\ encoded' = Append(encoded, f.name)
            /\ \E r \in Encoding[call.opts][f.type] : r.kind = "err"
  PROVE  IInv'
<1> DEFINE path == <<AtField(pos - 1)>>
           r == [NoReturn EXCEPT !.kind = "err", !.err = err, !.path = path]
<1>1. Return(r)
  BY DEF FailAtField
<1> HIDE DEF path
<1>2. r.kind = "err" /\ r.path = path /\ Len(r.cols) = Len(r.vals)
  <2>1. PICK a, b, c, d, e : /\ NoReturn = [kind |-> a, err |-> b, path |-> c, cols |-> d, vals |-> e]
                             /\ d = <<>> /\ e = <<>>
    BY ZenonT(30) DEF NoReturn
  <2>2. r.kind = "err" /\ r.path = path /\ r.cols = d /\ r.vals = e
    BY <2>1
  <2> HIDE DEF r
  <2> QED BY <2>1, <2>2
<1> HIDE DEF r
<1>3. call.helper \notin MaskTaking
  BY HelperKinds
<1>4. CollectedAll /\ pos \in Nat /\ pos >= 1 /\ pos \in 1..Len(fl) /\ Len(fl) \in Nat
  <2>1. /\ CollectedAll /\ pos \in Nat /\ pos >= 1 /\ Len(fl) \in Nat /\ pos <= Len(fl)
    BY <1>3, FieldFacts DEF AtAField
  <2> QED BY <2>1
<1>5. call.helper = "StructColumnsAndValues" => encoded' = SubSeq(Names(fl), 1, pos)
  <2> SUFFICES ASSUME call.helper = "StructColumnsAndValues" PROVE encoded' = SubSeq(Names(fl), 1, pos)
    OBVIOUS
  <2>1. IsSeq(encoded) /\ Len(encoded) = pos - 1 /\ \A i \in 1..(pos - 1) : encoded[i] = fl[i].name
    BY <1>4 DEF CollectedAll
  <2>2. encoded' = Append(encoded, f.name)
    BY HelperKinds
  <2>3. /\ IsSeq(encoded') /\ Len(encoded') = Len(encoded) + 1 /\ encoded'[Len(encoded) + 1] = f.name
        /\ \A i \in 1..Len(encoded) : encoded'[i] = encoded[i]
    BY <2>1, <2>2, Appended
  <2>4. Len(encoded') = pos /\ \A i \in 1..pos : encoded'[i] = fl[i].name
    BY <1>4, <2>1, <2>3 DEF f
  <2>5. Names(fl) \in Seq({fl[i].name : i \in 1..Len(fl)}) /\ Len(Names(fl)) = Len(fl)
    BY <1>4 DEF Names
  <2>6. /\ SubSeq(Names(fl), 1, pos) \in Seq({fl[i].name : i \in 1..Len(fl)})
        /\ Len(SubSeq(Names(fl), 1, pos)) = pos
        /\ \A i \in 1..pos : SubSeq(Names(fl), 1, pos)[i] = Names(fl)[i]
    BY <1>4, <2>5
  <2>7. \A i \in 1..pos : Names(fl)[i] = fl[i].name
    BY <1>4 DEF Names
  <2>8. IsSeq(SubSeq(Names(fl), 1, pos))
    BY <2>6, SeqOfMembers
  <2> QED BY <2>3, <2>4, <2>6, <2>7, <2>8, EqualSeqs
<1>6. Settles(r, encoded')
  <2>1. CASE call.helper = "RowTypeFor"
    <3>1. Inference[fl[pos].type].kind = "err" /\ \A i \in 1..(pos - 1) : Inference[fl[i].type].kind = "ok"
      BY <1>4, <2>1 DEF CollectedAll, f
    <3> QED BY <1>2, <1>3, <1>4, <2>1, <3>1 DEF Settles, path
  <2>2. CASE call.helper = "StructColumnsAndValues"
    <3>1. /\ \E e \in Encoding[call.opts][fl[pos].type] : e.kind = "err"
          /\ \A i \in 1..(pos - 1) : \E e \in Encoding[call.opts][fl[i].type] : e.kind = "ok"
      BY <1>4, <2>2 DEF CollectedAll, f
    <3> QED BY <1>2, <1>3, <1>4, <1>5, <2>2, <3>1 DEF Settles, path
  <2> QED BY <2>1, <2>2
<1> QED BY <1>1, <1>2, <1>6, Returns DEF AtAField

LEMMA InferFieldKeeps == IInv /\ InferField => IInv'
<1> SUFFICES ASSUME IInv, InferField PROVE IInv'
  OBVIOUS
<1> DEFINE r == Inference[f.type]
<1>1. AtAField /\ call.helper = "RowTypeFor" /\ CollectResult(r)
  <2>1. InFields({"RowTypeFor"}) /\ CollectResult(r)
    BY DEF InferField
  <2> QED BY <2>1 DEF InFields, AtAField
<1>2. call.helper \notin MaskTaking
  BY <1>1, HelperKinds
<1>3. CASE r.kind = "ok"
  <2>1. Collect(r.type)
    BY <1>1, <1>3 DEF CollectResult
  <2> QED BY <1>1, <1>2, <1>3, <2>1, CollectAnyKeeps
<1>4. CASE r.kind = "err"
  <2>1. FailAtField(r.err)
    BY <1>1, <1>4 DEF CollectResult
  <2> QED BY <1>1, <1>4, <2>1, FailAtFieldKeeps
<1>5. CASE r.kind \notin {"ok", "err"}
  <2>1. Panics
    BY <1>1, <1>5 DEF CollectResult
  <2> QED BY <1>1, <1>2, <2>1, PanicAnyKeeps
<1> QED BY <1>3, <1>4, <1>5

LEMMA EncodeFieldKeeps == IInv /\ EncodeField => IInv'
<1> SUFFICES ASSUME IInv, EncodeField PROVE IInv'
  OBVIOUS
<1>1. AtAField /\ call.helper = "StructColumnsAndValues" /\ EncodeValueOfField
  BY DEF EncodeField, InFields, AtAField
<1>2. call.helper \notin MaskTaking
  BY <1>1, HelperKinds
<1>3. CASE BehindNil(call.v, f)
  BY <1>1, <1>2, <1>3, PanicAnyKeeps DEF EncodeValueOfField
<1>4. CASE ~BehindNil(call.v, f)
  <2>1. PICK r \in Encoding[call.opts][f.type] : CollectResult(r) /\ encoded' = Append(encoded, f.name)
    BY <1>1, <1>4 DEF EncodeValueOfField
  <2>2. CASE r.kind = "ok"
    <3>1. Collect(r.type)
      BY <2>1, <2>2 DEF CollectResult
    <3> QED BY <1>1, <1>2, <2>1, <2>2, <3>1, CollectAnyKeeps
  <2>3. CASE r.kind = "err"
    <3>1. FailAtField(r.err)
      BY <2>1, <2>3 DEF CollectResult
    <3> QED BY <1>1, <2>1, <2>3, <3>1, FailAtFieldKeeps
  <2>4. CASE r.kind \notin {"ok", "err"}
    <3>1. Panics
      BY <2>1, <2>4 DEF CollectResult
    <3> QED BY <1>1, <1>2, <3>1, PanicAnyKeeps
  <2> QED BY <2>2, <2>3, <2>4
<1> QED BY <1>3, <1>4

LEMMA MutateFieldKeeps == IInv /\ MutateField => IInv'
<1> SUFFICES ASSUME IInv, MutateField PROVE IInv'
  OBVIOUS
<1>1. AtAField /\ call.helper \in WriteShaped /\ call.helper \in MaskTaking /\ UNCHANGED encoded
  BY HelperKinds DEF MutateField, InFields, AtAField
<1>2. applied = Len(options)
  BY <1>1, FieldFacts DEF AtAField, CollectedWanted
<1>3. Written(f) <=> Wants(f)
  BY <1>1, <1>2, WantedIsKept
<1>4. IF Written(f) THEN CollectPlain ELSE PassOver
  BY DEF MutateField, Skip
<1>5. CASE Wants(f)
  BY <1>1, <1>3, <1>4, <1>5, PlainKeeps
<1>6. CASE ~Wants(f)
  BY <1>1, <1>3, <1>4, <1>6, PassOverKeeps
<1> QED BY <1>5, <1>6

LEMMA BindFieldKeeps == IInv /\ BindField => IInv'
<1> SUFFICES ASSUME IInv, BindField PROVE IInv'
  OBVIOUS
<1>1. /\ AtAField /\ call.helper = "ParamsMap" /\ call.helper \in MaskTaking /\ call.helper \notin WriteShaped
      /\ UNCHANGED encoded
  BY HelperKinds DEF BindField, InFields, AtAField
<1>2. CollectedWanted /\ IsSeq(cols) /\ pos \in Nat /\ pos >= 1 /\ Len(fl) \in Nat /\ pos <= Len(fl)
  BY <1>1, FieldFacts DEF AtAField
<1>3. keep(mask, f.name) <=> Wants(f)
  BY <1>1, <1>2, WantedIsKept DEF CollectedWanted
\* The fields gone through have other names.
<1>4. ~Contains(cols, f.name)
  <2>1. \A n \in 1..(pos - 1) : fl[n].name # f.name
    <3>1. pos \in 1..Len(fl) /\ \A n \in 1..(pos - 1) : n \in 1..Len(fl) /\ n # pos
      BY <1>2
    <3>2. \A i, j \in 1..Len(fl) : fl[i].name = fl[j].name => i = j
      BY <1>1, FieldFacts DEF AtAField
    <3> QED BY <3>1, <3>2 DEF f
  <2>2. \A i \in 1..Len(cols) : cols[i] # f.name
    BY <1>2, <2>1 DEF CollectedWanted
  <2> QED BY <2>2 DEF Contains
<1>5. IF ~keep(mask, f.name) THEN PassOver ELSE CollectPlain
  BY <1>4 DEF BindField
<1>6. CASE Wants(f)
  BY <1>1, <1>3, <1>5, <1>6, PlainKeeps
<1>7. CASE ~Wants(f)
  BY <1>1, <1>3, <1>5, <1>7, PassOverKeeps
<1> QED BY <1>6, <1>7

LEMMA FieldsDoneKeeps == IInv /\ FieldsDone => IInv'
<1> SUFFICES ASSUME IInv, FieldsDone PROVE IInv'
  OBVIOUS
<1>1. pc = "fields" /\ pos > Len(fl) /\ UNCHANGED encoded
  BY DEF FieldsDone
<1>2. pos = Len(fl) + 1 /\ pos - 1 = Len(fl) /\ Len(fl) \in Nat
  <2>1. Len(fl) \in Nat /\ pos \in 1..(Len(fl) + 1)
    BY <1>1, FieldFacts
  <2> QED BY <1>1, <2>1
<1>3. IsSeq(cols) /\ IsSeq(vals) /\ Len(cols) = Len(vals) /\ Len(cols) \in Nat
  BY <1>1, FieldFacts
<1> DEFINE k == [NoReturn EXCEPT !.kind = "ok"]
           r == [NoReturn EXCEPT !.kind = "ok", !.cols = cols, !.vals = vals]
<1>4. r.kind = "ok" /\ r.err = "" /\ r.cols = cols /\ r.vals = vals
  <2>1. PICK a, b, c, d, e : /\ NoReturn = [kind |-> a, err |-> b, path |-> c, cols |-> d, vals |-> e]
                             /\ b = ""
    BY ZenonT(30) DEF NoReturn
  <2> QED BY <2>1
<1>5. Return(r)
  <2>1. ~(call.helper = "MutationMap" /\ ~IsInjective(cols))
    <3>1. ASSUME call.helper = "MutationMap" PROVE IsInjective(cols)
      <4>1. CollectedWanted
        BY <1>1, <3>1, FieldFacts, HelperKinds DEF WriteShaped
      <4>2. cols \in Seq(Members(cols))
        BY <1>3 DEF IsSeq
      <4>3. DOMAIN cols = 1..Len(cols)
        BY <4>2
      <4> QED BY <4>1, <4>3 DEF CollectedWanted, IsInjective
    <3> QED BY <3>1
  <2> QED BY <2>1 DEF FieldsDone
<1> HIDE DEF r
<1>6. Settles(r, encoded')
  <2>1. CASE call.helper \in MaskTaking
    <3>1. CollectedWanted
      BY <1>1, <2>1, FieldFacts
    <3>2. WantedUpto(pos - 1) = WantedAt /\ WantedAt \in SUBSET (1..Len(fl))
      BY <1>2 DEF WantedUpto, WantedAt
    <3>3. IsSeq(Wanted)
      BY <1>2, <3>2, SelectedIsSeq DEF Wanted
    <3>4. /\ ~Mistaken /\ Len(cols) = Len(Wanted)
          /\ \A i \in 1..Len(cols) : cols[i] = Wanted[i].name /\ vals[i].index = Wanted[i].index
          /\ \A n \in WantedAt : ~BehindNil(call.v, fl[n])
      BY <3>1, <3>2 DEF CollectedWanted, Wanted
    <3>5. cols = Names(Wanted)
      BY <1>3, <3>4, NamesOf
    <3>6. Indexes(vals) = Indexes(Wanted)
      BY <1>3, <3>4 DEF Indexes
    <3> QED BY <1>4, <2>1, <3>4, <3>5, <3>6, HelperKinds DEF Settles
  <2>2. CASE call.helper \notin MaskTaking
    <3>1. CollectedAll
      BY <1>1, <2>2, FieldFacts
    <3>2. /\ Len(cols) = Len(fl)
          /\ \A i \in 1..Len(cols) : cols[i] = fl[i].name /\ vals[i].index = fl[i].index
      BY <1>2, <3>1 DEF CollectedAll
    <3>3. cols = Names(fl) /\ Indexes(vals) = Indexes(fl)
      BY <1>3, <3>2, NamesOf DEF Indexes
    <3>4. /\ call.helper = "RowTypeFor" =>
               \A i \in 1..Len(fl) : vals[i].type = Inference[fl[i].type].type
          /\ call.helper = "StructColumnsAndValues" =>
               \A i \in 1..Len(fl) : \E e \in Encoding[call.opts][fl[i].type] :
                 e.kind = "ok" /\ vals[i].type = e.type
      BY <1>2, <3>1 DEF CollectedAll
    <3> QED BY <1>4, <2>2, <3>3, <3>4 DEF Settles
  <2> QED BY <2>1, <2>2
<1> QED BY <1>1, <1>3, <1>4, <1>5, <1>6, Returns

----------------------------------------------------------------------------
(* The theorems.                                                           *)

LEMMA NextKeeps == IInv /\ [Next]_vars => IInv'
<1> SUFFICES ASSUME IInv, [Next]_vars PROVE IInv'
  OBVIOUS
<1>1. CASE MakeOption
  BY <1>1, MakeOptionKeeps
<1>2. CASE ChangeList
  BY <1>2, ChangeListKeeps
<1>3. CASE Call
  BY <1>3, CallKeeps
<1>4. CASE Helper
  BY <1>4, ApplyOptionKeeps, ListFieldsKeeps, NameFieldKeeps, InferFieldKeeps, EncodeFieldKeeps,
     MutateFieldKeeps, BindFieldKeeps, FieldsDoneKeeps DEF Helper
<1>5. CASE Forget
  BY <1>5, ForgetKeeps
<1>6. CASE UNCHANGED vars
  <2>1. names' = names /\ options' = options /\ call' = call /\ UNCHANGED caller
    BY <1>6 DEF vars, caller
  <2>2. /\ pc' = pc /\ applied' = applied /\ mask' = mask /\ pos' = pos /\ cols' = cols /\ vals' = vals
        /\ encoded' = encoded /\ ret' = ret
    BY <1>6 DEF vars
  <2>3. Control' /\ Masking'
    BY <2>1, <2>2, SameCaller DEF IInv, Control, Masking
  <2>4. Walk'
    <3>1. CollectedWanted => CollectedWanted'
      BY <2>1, <2>2, SameCaller DEF CollectedWanted
    <3>2. CollectedAll => CollectedAll'
      BY <2>1, <2>2, SameCaller DEF CollectedAll, IsSeq, Members
    <3>3. IsSeq(cols)' <=> IsSeq(cols)
      BY <2>2 DEF IsSeq, Members
    <3>4. IsSeq(vals)' <=> IsSeq(vals)
      BY <2>2 DEF IsSeq, Members
    <3>5. Walk
      BY DEF IInv
    <3> HIDE DEF CollectedWanted, CollectedAll, IsSeq
    <3> QED BY <2>1, <2>2, <3>1, <3>2, <3>3, <3>4, <3>5, SameCaller DEF Walk
  <2>5. Promises'
    <3>1. Promises
      BY DEF IInv
    <3>2. MaskKeptExactly'
      BY <2>1, <2>2, <3>1, SameCaller DEF Promises, MaskKeptExactly, Succeeded, Returned
    <3>3. MistakesReported'
      BY <2>1, <2>2, <3>1, SameCaller DEF Promises, MistakesReported, Returned
    <3>4. AlignedWithRowType'
      BY <2>1, <2>2, <3>1, SameCaller DEF Promises, AlignedWithRowType, Succeeded, Returned
    <3>5. FirstFailureNamed'
      BY <2>1, <2>2, <3>1, SameCaller DEF Promises, FirstFailureNamed, Returned
    <3>6. PanicsOnWantedOnly'
      BY <2>1, <2>2, <3>1, SameCaller DEF Promises, PanicsOnWantedOnly, Returned
    <3> QED BY <3>2, <3>3, <3>4, <3>5, <3>6 DEF Promises
  <2> QED BY <2>3, <2>4, <2>5 DEF IInv
<1> QED BY <1>1, <1>2, <1>3, <1>4, <1>5, <1>6 DEF Next

LEMMA Invariance == Spec => []IInv
BY InitKeeps, NextKeeps, PTL DEF Spec

LEMMA Typed == IInv => TypeOK
<1> SUFFICES ASSUME IInv PROVE TypeOK
  OBVIOUS
<1>1. call.helper \in Helpers \cup {"none"}
  <2>1. NoHelper.helper = "none"
    BY DEF NoHelper
  <2> QED BY <2>1 DEF IInv, Control
<1>2. Len(cols) = Len(vals)
  BY FieldFacts DEF IInv, Control
<1>3. /\ Len(ret.cols) = Len(ret.vals) /\ ((ret.kind = "none") = (pc # "returned"))
      /\ ret.kind \in {"none", "ok", "err", "panic"}
  <2>1. NoReturn.kind = "none" /\ NoReturn.cols = <<>> /\ NoReturn.vals = <<>>
    BY DEF NoReturn
  <2>2. IF pc = "returned" THEN ret.kind \in {"ok", "err", "panic"} /\ Len(ret.cols) = Len(ret.vals)
        ELSE ret = NoReturn
    BY DEF IInv, Control
  <2>3. CASE pc = "returned"
    BY <2>2, <2>3
  <2>4. CASE pc # "returned"
    <3>1. ret.kind = "none" /\ ret.cols = <<>> /\ ret.vals = <<>>
      BY <2>1, <2>2, <2>4
    <3> QED BY <2>4, <3>1
  <2> QED BY <2>3, <2>4
<1>4. pos = 1 \/ (pc = "fields" /\ pos \in 1..(Len(fl) + 1) /\ Len(cols) < pos)
  BY FieldFacts DEF IInv, Control
<1> QED BY <1>1, <1>2, <1>3, <1>4 DEF IInv, Control, TypeOK

\* Type correctness: a helper's loop index stays within the field listing,
\* its columns and values grow in step, and it has a result when it returned.
THEOREM RowTypeCorrect == Spec => []TypeOK
BY Invariance, Typed, PTL

\* MutationColumnsAndValues, MutationMap and ParamsMap give the columns the
\* options asked for when they were applied, in declaration order and once
\* each, with the values of those fields, whatever struct types, options and
\* lists there are.
THEOREM MasksKeptExactly == Spec => []MaskKeptExactly
<1>1. IInv => MaskKeptExactly
  BY DEF IInv, Promises
<1> QED BY <1>1, Invariance, PTL

\* validate finds all documented mistakes in mask options, and no others.
THEOREM MistakesAlwaysReported == Spec => []MistakesReported
<1>1. IInv => MistakesReported
  BY DEF IInv, Promises
<1> QED BY <1>1, Invariance, PTL

\* StructColumns, RowTypeFor and StructColumnsAndValues list the same columns
\* in the same order, each with the inference and the encode of its own field,
\* for every struct type, encode options and masks made by the caller.
THEOREM RowsAlignedWithType == Spec => []AlignedWithRowType
<1>1. IInv => AlignedWithRowType
  BY DEF IInv, Promises
<1> QED BY <1>1, Invariance, PTL

\* RowTypeFor and StructColumnsAndValues stop at the first field that fails
\* and name that one.
THEOREM FirstFailureIsNamed == Spec => []FirstFailureNamed
<1>1. IInv => FirstFailureNamed
  BY DEF IInv, Promises
<1> QED BY <1>1, Invariance, PTL

\* The helpers that take a mask panic for columns behind nil embedded pointers
\* if, and only if, the mask asks for one.
THEOREM OnlyWantedPanic == Spec => []PanicsOnWantedOnly
<1>1. IInv => PanicsOnWantedOnly
  BY DEF IInv, Promises
<1> QED BY <1>1, Invariance, PTL
=============================================================================
