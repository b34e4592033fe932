------------------------ MODULE TypeAgreementProofs ------------------------
(***************************************************************************)
(* TypeAgreement and SliceHelperAgreement: TypeFromGoType, ValueOf and     *)
(* ArrayValueFromSlice give a Go type the same Spanner type, for every     *)
(* universe, value and options.  They walk the type in different orders and *)
(* share no state, so what each has found is compared with Inferred, the   *)
(* rules of the inference as a relation.                                   *)
(*                                                                         *)
(* 1. Inferred is closed under the rules (a type's answer follows from     *)
(*    those of its parts), as grounded sets are closed under union, and a  *)
(*    type has one answer: what follows from parts with one answer each    *)
(*    has one answer, and every pair of a grounded set is reached so.      *)
(* 2. A slice type's answer is the ARRAY of its elements' answer, whichever *)
(*    table, base type or reflection each is found by (SliceInferred).     *)
(* 3. TInv: the inference's result and frames follow those rules           *)
(*    (Linked), the encode's agree with every answer they allow for        *)
(*    their Go types as long as no encoder of the caller's ran (Expected). *)
(* 4. Init implies TInv, every step keeps it, and TInv gives both          *)
(*    properties once the calls have returned.                             *)
(***************************************************************************)
EXTENDS EncodeSessionProofs

(***************************************************************************)
(* What TypeFromGoType answers, as a relation.  A set I of <type, answer>  *)
(* pairs is grounded when each pair follows by the rules of the inference, *)
(* from nothing, in finitely many steps inside I; an answer is inferred    *)
(* when some grounded set has it.  (A recursive type has no answer: there  *)
(* the walk does not return.)                                              *)
(***************************************************************************)

\* The walk over the fields of t passes field i: from the fields x of the
\* STRUCT found so far to the fields y.
Passes(t, i, I, x, y) ==
  LET f == Fields(t)[i] IN
  /\ ~f.anon
  /\ IF f.exported
     THEN \E b : /\ <<f.type, b>> \in I /\ b.kind = "ok"
                 /\ y = Append(x, [name |-> f.name, type |-> b.type])
     ELSE y = x

\* The walk passes the first k fields: h[i] are those found after i fields.
Walks(h, t, k, I) == h[0] = <<>> /\ \A i \in 1..k : Passes(t, i, I, h[i - 1], h[i])

\* After k fields it ends with the answer a.
Stops(h, t, k, a, I) ==
  IF k = Len(Fields(t)) THEN a = OkType(StructOf(h[k]))
  ELSE LET f == Fields(t)[k + 1] IN
       IF f.anon THEN a = Err("ErrEmbeddedStructField")
       ELSE f.exported /\ <<f.type, a>> \in I /\ a.kind # "ok"

StructRule(t, a, I) ==
  \E h : \E k \in 0..Len(Fields(t)) : Walks(h, t, k, I) /\ Stops(h, t, k, a, I)

ArrayAnswer(b) == IF b.kind = "ok" THEN OkType(ArrayOf(b.type)) ELSE b

Rule(t, a, I) ==
  CASE InferCase(t) = "direct"      -> a = inferredDirectly(t)
    [] InferCase(t) = "custom"      -> <<customBaseGoType(t), a>> \in I
    [] InferCase(t) = "struct"      -> StructRule(t, a, I)
    [] InferCase(t) = "protoSlice"  -> a = inferredProtoSlice(Elem(t))
    [] InferCase(t) = "structSlice" -> \E b : StructRule(Elem(t), b, I) /\ a = ArrayAnswer(b)
    [] InferCase(t) = "interface"   -> a = Err("ErrTypeNotInferable")
    [] InferCase(t) = "unsupported" -> a = Err("ErrUnsupportedType")

\* J has every pair of I that follows from J.
ClosedIn(I, J) == \A t, a : <<t, a>> \in I /\ Rule(t, a, J) => <<t, a>> \in J

Grounded(I) == \A J \in SUBSET I : ClosedIn(I, J) => J = I

Inferred(t, a)       == \E I : Grounded(I) /\ <<t, a>> \in I
StructInferred(t, a) == \E I : Grounded(I) /\ StructRule(t, a, I)

LEMMA MorePasses ==
  ASSUME NEW I, NEW J, I \subseteq J, NEW t, NEW i, NEW x, NEW y, Passes(t, i, I, x, y)
  PROVE  Passes(t, i, J, x, y)
<1> DEFINE f == Fields(t)[i]
           e(b) == [name |-> f.name, type |-> b.type]
<1>1. ~f.anon
  BY DEF Passes
<1>2. CASE f.exported
  <2> HIDE DEF e
  <2>1. \E b : <<f.type, b>> \in I /\ b.kind = "ok" /\ y = Append(x, e(b))
    BY <1>2 DEF Passes, e
  <2>2. \E b : <<f.type, b>> \in J /\ b.kind = "ok" /\ y = Append(x, e(b))
    BY <2>1
  <2> QED BY <1>1, <1>2, <2>2 DEF Passes, e
<1>3. CASE ~f.exported
  <2>1. y = x
    BY <1>3 DEF Passes
  <2> QED BY <1>1, <1>3, <2>1 DEF Passes
<1> QED BY <1>2, <1>3

LEMMA MoreWalks ==
  ASSUME NEW I, NEW J, I \subseteq J, NEW h, NEW t, NEW k, Walks(h, t, k, I)
  PROVE  Walks(h, t, k, J)
  BY MorePasses DEF Walks

LEMMA MoreStructRule ==
  ASSUME NEW I, NEW J, I \subseteq J, NEW t, NEW a, StructRule(t, a, I)
  PROVE  StructRule(t, a, J)
<1>0. PICK h : \E k \in 0..Len(Fields(t)) : Walks(h, t, k, I) /\ Stops(h, t, k, a, I)
  BY DEF StructRule
<1>1. PICK k \in 0..Len(Fields(t)) : Walks(h, t, k, I) /\ Stops(h, t, k, a, I)
  BY <1>0
<1>2. Walks(h, t, k, J)
  BY <1>1, MoreWalks
<1>3. Stops(h, t, k, a, J)
  BY <1>1 DEF Stops
<1> QED BY <1>2, <1>3 DEF StructRule

LEMMA RuleOfCase ==
  ASSUME NEW t, NEW a, NEW I
  PROVE  /\ InferCase(t) = "direct" => (Rule(t, a, I) <=> a = inferredDirectly(t))
         /\ InferCase(t) = "custom" => (Rule(t, a, I) <=> <<customBaseGoType(t), a>> \in I)
         /\ InferCase(t) = "struct" => (Rule(t, a, I) <=> StructRule(t, a, I))
         /\ InferCase(t) = "protoSlice" => (Rule(t, a, I) <=> a = inferredProtoSlice(Elem(t)))
         /\ InferCase(t) = "structSlice" =>
              (Rule(t, a, I) <=> \E b : StructRule(Elem(t), b, I) /\ a = ArrayAnswer(b))
         /\ InferCase(t) = "interface" => (Rule(t, a, I) <=> a = Err("ErrTypeNotInferable"))
         /\ InferCase(t) = "unsupported" => (Rule(t, a, I) <=> a = Err("ErrUnsupportedType"))
         /\ InferCase(t) \in {"direct", "custom", "struct", "protoSlice", "structSlice",
                              "interface", "unsupported"}
<1>1. InferCase(t) \in {"direct", "custom", "struct", "protoSlice", "structSlice",
                        "interface", "unsupported"}
  BY DEF InferCase
<1>2. CASE InferCase(t) = "direct"
  BY <1>2 DEF Rule
<1>3. CASE InferCase(t) = "custom"
  BY <1>3 DEF Rule
<1>4. CASE InferCase(t) = "struct"
  BY <1>4 DEF Rule
<1>5. CASE InferCase(t) = "protoSlice"
  BY <1>5 DEF Rule
<1>6. CASE InferCase(t) = "structSlice"
  BY <1>6 DEF Rule
<1>7. CASE InferCase(t) = "interface"
  BY <1>7 DEF Rule
<1>8. CASE InferCase(t) = "unsupported"
  BY <1>8 DEF Rule
<1> QED BY <1>1, <1>2, <1>3, <1>4, <1>5, <1>6, <1>7, <1>8

LEMMA MoreRule ==
  ASSUME NEW I, NEW J, I \subseteq J, NEW t, NEW a, Rule(t, a, I)
  PROVE  Rule(t, a, J)
<1>1. CASE InferCase(t) = "custom"
  BY <1>1, RuleOfCase
<1>2. CASE InferCase(t) = "struct"
  BY <1>2, RuleOfCase, MoreStructRule
<1>3. CASE InferCase(t) = "structSlice"
  <2>1. PICK b : StructRule(Elem(t), b, I) /\ a = ArrayAnswer(b)
    BY <1>3, RuleOfCase
  <2>2. StructRule(Elem(t), b, J)
    BY <2>1, MoreStructRule
  <2> QED BY <1>3, <2>1, <2>2, RuleOfCase
<1>4. CASE InferCase(t) \in {"direct", "protoSlice", "interface", "unsupported"}
  BY <1>4, RuleOfCase
<1> QED BY <1>1, <1>2, <1>3, <1>4, RuleOfCase

\* Every pair of a grounded set follows from others.
LEMMA Follows ==
  ASSUME NEW I, Grounded(I), NEW t, NEW a, <<t, a>> \in I
  PROVE  Rule(t, a, I)
<1> DEFINE J == {p \in I : \E u, b : p = <<u, b>> /\ Rule(u, b, I)}
<1>1. J \subseteq I
  OBVIOUS
<1>2. \A u, b : <<u, b>> \in I /\ Rule(u, b, I) => <<u, b>> \in J
  OBVIOUS
<1>3. ASSUME <<t, a>> \in J PROVE Rule(t, a, I)
  <2>1. PICK u, b : <<t, a>> = <<u, b>> /\ Rule(u, b, I)
    BY <1>3
  <2> QED BY <2>1
<1> HIDE DEF J
<1>4. ClosedIn(I, J)
  BY <1>1, <1>2, MoreRule DEF ClosedIn
<1>5. J = I
  BY <1>1, <1>4 DEF Grounded
<1> QED BY <1>3, <1>5

\* A set closed in a larger one is closed in a grounded part of it, and so
\* contains it.
LEMMA ClosedInPart ==
  ASSUME NEW I, Grounded(I), NEW K, I \subseteq K, NEW J, ClosedIn(K, J)
  PROVE  I \subseteq J
<1> DEFINE L == I \cap J
<1>1. L \subseteq I /\ L \subseteq J
  OBVIOUS
<1>2. ASSUME NEW t, NEW a, <<t, a>> \in I, Rule(t, a, L) PROVE <<t, a>> \in L
  <2>1. Rule(t, a, J)
    <3> HIDE DEF L
    <3> QED BY <1>1, <1>2, MoreRule
  <2> QED BY <1>2, <2>1 DEF ClosedIn
<1> HIDE DEF L
<1>3. ClosedIn(I, L)
  BY <1>2 DEF ClosedIn
<1>4. L = I
  BY <1>1, <1>3 DEF Grounded
<1> QED BY <1>1, <1>4

\* Two grounded sets are grounded together.
LEMMA Together ==
  ASSUME NEW I, NEW J, Grounded(I), Grounded(J)
  PROVE  Grounded(I \cup J)
<1> DEFINE K == I \cup J
<1>1. I \subseteq K /\ J \subseteq K /\ \A p \in K : p \in I \/ p \in J
  OBVIOUS
<1> HIDE DEF K
<1>2. ASSUME NEW L \in SUBSET K, ClosedIn(K, L) PROVE L = K
  <2>1. I \subseteq L /\ J \subseteq L
    BY <1>1, <1>2, ClosedInPart
  <2> QED BY <1>1, <2>1
<1>3. Grounded(K)
  BY <1>2 DEF Grounded
<1> QED BY <1>3 DEF K

\* What follows by a rule is inferred, and conversely.
LEMMA Fold ==
  ASSUME NEW I, Grounded(I), NEW t, NEW a, Rule(t, a, I)
  PROVE  Inferred(t, a)
<1> DEFINE J == I \cup {<<t, a>>}
<1>1. I \subseteq J /\ <<t, a>> \in J /\ \A p \in J : p \in I \/ p = <<t, a>>
  OBVIOUS
<1> HIDE DEF J
<1>2. ASSUME NEW L \in SUBSET J, ClosedIn(J, L) PROVE L = J
  <2>1. I \subseteq L
    BY <1>1, <1>2, ClosedInPart
  <2>2. Rule(t, a, L)
    BY <2>1, MoreRule
  <2>3. <<t, a>> \in L
    BY <1>1, <1>2, <2>2 DEF ClosedIn
  <2> QED BY <1>1, <2>1, <2>3
<1>3. Grounded(J)
  BY <1>2 DEF Grounded
<1> QED BY <1>1, <1>3 DEF Inferred

LEMMA Unfold ==
  ASSUME NEW t, NEW a, Inferred(t, a)
  PROVE  \E I : Grounded(I) /\ Rule(t, a, I)
  BY Follows DEF Inferred

LEMMA NothingInferred == Grounded({})
  BY DEF Grounded

\* The answers, case by case.
LEMMA InferredAs ==
  ASSUME NEW t
  PROVE  /\ InferCase(t) = "direct" => \A a : Inferred(t, a) <=> a = inferredDirectly(t)
         /\ InferCase(t) = "custom" =>
              \A a : Inferred(t, a) <=> Inferred(customBaseGoType(t), a)
         /\ InferCase(t) = "struct" => \A a : Inferred(t, a) <=> StructInferred(t, a)
         /\ InferCase(t) = "protoSlice" =>
              \A a : Inferred(t, a) <=> a = inferredProtoSlice(Elem(t))
         /\ InferCase(t) = "structSlice" =>
              \A a : Inferred(t, a) <=> \E b : StructInferred(Elem(t), b) /\ a = ArrayAnswer(b)
         /\ InferCase(t) = "interface" =>
              \A a : Inferred(t, a) <=> a = Err("ErrTypeNotInferable")
         /\ InferCase(t) = "unsupported" =>
              \A a : Inferred(t, a) <=> a = Err("ErrUnsupportedType")
<1>1. ASSUME NEW a PROVE Inferred(t, a) <=> \E I : Grounded(I) /\ Rule(t, a, I)
  BY Fold, Unfold
<1>2. CASE InferCase(t) = "direct"
  BY <1>1, <1>2, RuleOfCase, NothingInferred
<1>3. CASE InferCase(t) = "custom"
  BY <1>1, <1>3, RuleOfCase DEF Inferred
<1>4. CASE InferCase(t) = "struct"
  BY <1>1, <1>4, RuleOfCase DEF StructInferred
<1>5. CASE InferCase(t) = "protoSlice"
  BY <1>1, <1>5, RuleOfCase, NothingInferred
<1>6. CASE InferCase(t) = "structSlice"
  BY <1>1, <1>6, RuleOfCase, ZenonT(60) DEF StructInferred
<1>7. CASE InferCase(t) = "interface"
  BY <1>1, <1>7, RuleOfCase, NothingInferred
<1>8. CASE InferCase(t) = "unsupported"
  BY <1>1, <1>8, RuleOfCase, NothingInferred
<1> QED BY <1>2, <1>3, <1>4, <1>5, <1>6, <1>7, <1>8

(***************************************************************************)
(* The cases of the inference and those of the type switch.                *)
(***************************************************************************)

LEMMA SameTables == exactScalars = switchScalars /\ exactElems = switchElems
<1>1. exactScalars = switchScalars
  BY DEF exactScalars, switchScalars
<1>2. exactScalars.STRING \ {"sql.NullString"} = {"string", "spanner.NullString", "*string"}
  BY DEF exactScalars
<1>3. exactElems = [exactScalars EXCEPT
         !.STRING = exactScalars.STRING \ {"sql.NullString"},
         !.UUID   = {"uuid.UUID", "*uuid.UUID", "spanner.NullUUID"}]
  BY DEF exactElems
<1> QED BY <1>1, <1>2, <1>3 DEF switchElems

LEMMA Answer ==
  /\ \A t : OkType(t).kind = "ok" /\ OkType(t).type = t /\ OkType(t).err = ""
  /\ \A e : Err(e).kind = "err" /\ Err(e).err = e
  /\ Panic.kind = "panic" /\ Panic.err = "" /\ NoResult.kind = "none"
  /\ \A t : OkType(t) # NoResult
  /\ \A e : Err(e) # NoResult
  /\ Panic # NoResult
<1>1. ASSUME NEW t PROVE OkType(t).kind = "ok" /\ OkType(t).type = t /\ OkType(t).err = ""
  BY DEF OkType, Ok, NoResult
<1>2. ASSUME NEW e PROVE Err(e).kind = "err" /\ Err(e).err = e
  BY ErrResult
<1>3. Panic.kind = "panic" /\ Panic.err = "" /\ NoResult.kind = "none"
  BY DEF Panic, NoResult
<1>4. "ok" # "none" /\ "err" # "none" /\ "panic" # "none"
  OBVIOUS
<1> QED BY <1>1, <1>2, <1>3, <1>4

\* The concrete cases: the tables of the two walks are the same.
LEMMA ConcreteInferred ==
  ASSUME NEW t
  PROVE  /\ SwitchCase(t) = "leaf" =>
              InferCase(t) = "direct" /\ inferredDirectly(t) = OkType(Scalar(RowOf(switchScalars, t)))
         /\ SwitchCase(t) = "slice" =>
              /\ InferCase(t) = "direct"
              /\ inferredDirectly(t) = OkType(ArrayOf(Scalar(ElemRowOf(switchElems, t))))
         /\ SwitchCase(t) \notin {"nil", "leaf", "slice"} =>
              t # UntypedNil /\ exactGoType(t) = NoType
<1> DEFINE scalar == RowOf(switchScalars, t)
           array  == ElemRowOf(switchElems, t)
<1>1. exactGoType(t) = IF scalar # "NONE" THEN Scalar(scalar)
                       ELSE IF array # "NONE" /\ t = SliceOf(Elem(t)) THEN ArrayOf(Scalar(array))
                       ELSE NoType
  BY SameTables DEF exactGoType
<1>2. SwitchCase(t) = "leaf" => t # UntypedNil /\ scalar # "NONE"
  BY DEF SwitchCase
<1>3. SwitchCase(t) = "slice" =>
        t # UntypedNil /\ scalar = "NONE" /\ array # "NONE" /\ t = SliceOf(Elem(t))
  BY DEF SwitchCase
<1>4. SwitchCase(t) \notin {"nil", "leaf", "slice"} =>
        t # UntypedNil /\ scalar = "NONE" /\ ~(array # "NONE" /\ t = SliceOf(Elem(t)))
  BY DEF SwitchCase
<1> HIDE DEF scalar, array
<1>5. ASSUME t # UntypedNil, exactGoType(t) # NoType
      PROVE  InferCase(t) = "direct" /\ inferredDirectly(t) = OkType(exactGoType(t))
  BY <1>5, Answer DEF InferCase, inferredDirectly
<1>6. ASSUME SwitchCase(t) = "leaf"
      PROVE  InferCase(t) = "direct" /\ inferredDirectly(t) = OkType(Scalar(scalar))
  BY <1>1, <1>2, <1>5, <1>6, Typed
<1>7. ASSUME SwitchCase(t) = "slice"
      PROVE  InferCase(t) = "direct" /\ inferredDirectly(t) = OkType(ArrayOf(Scalar(array)))
  BY <1>1, <1>3, <1>5, <1>7, Typed
<1> QED BY <1>1, <1>4, <1>6, <1>7 DEF scalar, array

LEMMA DescriptorAnswer ==
  \A code, t : TypeFromDescriptor(code, t) \in {Panic, OkType(NamedType(code, Go[t].fqn))}
  BY DEF TypeFromDescriptor

\* The other cases, in the code's order.
LEMMA SameCases ==
  ASSUME NEW t
  PROVE  /\ SwitchCase(t) \in {"gcv", "nullProto", "encoder"} =>
              InferCase(t) = "direct" /\ inferredDirectly(t) = Err("ErrTypeNotInferable")
         /\ SwitchCase(t) = "proto" =>
              /\ InferCase(t) = "direct"
              /\ inferredDirectly(t) =
                   TypeFromDescriptor(IF Implements(t, "Enum") THEN "ENUM" ELSE "PROTO", t)
         /\ SwitchCase(t) = "custom" => InferCase(t) = "custom"
         /\ SwitchCase(t) = "struct" => InferCase(t) = "struct"
         /\ SwitchCase(t) = "protoArray" => InferCase(t) = "protoSlice"
         /\ SwitchCase(t) = "structArray" => InferCase(t) = "structSlice"
<1> DEFINE c == SwitchCase(t)
<1>1. c \notin {"nil", "leaf", "slice"} => t # UntypedNil /\ exactGoType(t) = NoType
  BY ConcreteInferred
<1>2. ASSUME c \in {"gcv", "nullProto", "encoder"}
      PROVE  InferCase(t) = "direct" /\ inferredDirectly(t) = Err("ErrTypeNotInferable")
  <2>1. t \in notInferableGoTypes \/ Implements(t, "Encoder")
    BY <1>2 DEF SwitchCase, notInferableGoTypes
  <2>2. inferredDirectly(t) = Err("ErrTypeNotInferable")
    BY <1>1, <1>2, <2>1 DEF inferredDirectly
  <2> QED BY <2>2, Answer DEF InferCase
<1>3. c \notin {"nil", "leaf", "slice", "gcv", "unsupported", "nullProto", "encoder"} =>
        t \notin notInferableGoTypes /\ ~Implements(t, "Encoder")
  BY DEF SwitchCase, notInferableGoTypes
<1>4. ASSUME c = "proto"
      PROVE  /\ InferCase(t) = "direct"
             /\ inferredDirectly(t) =
                  TypeFromDescriptor(IF Implements(t, "Enum") THEN "ENUM" ELSE "PROTO", t)
  <2>1. Implements(t, "Enum") \/ Implements(t, "Message")
    BY <1>4 DEF SwitchCase
  <2>2. inferredDirectly(t) =
          TypeFromDescriptor(IF Implements(t, "Enum") THEN "ENUM" ELSE "PROTO", t)
    BY <1>1, <1>3, <1>4, <2>1 DEF inferredDirectly
  <2>3. inferredDirectly(t) # NoResult
    <3>1. \A code : TypeFromDescriptor(code, t) # NoResult
      <4> TAKE code
      <4>1. TypeFromDescriptor(code, t) = Panic \/ TypeFromDescriptor(code, t) = OkType(NamedType(code, Go[t].fqn))
        BY DescriptorAnswer
      <4> QED BY <4>1, Answer
    <3> QED BY <2>2, <3>1
  <2> QED BY <2>2, <2>3 DEF InferCase
<1>5. ASSUME c \in {"custom", "struct", "protoArray", "structArray"}
      PROVE  inferredDirectly(t) = NoResult
  <2>1. ~Implements(t, "Enum") /\ ~Implements(t, "Message")
    BY <1>5 DEF SwitchCase
  <2> QED BY <1>1, <1>3, <1>5, <2>1 DEF inferredDirectly
<1>6. ASSUME c = "custom" PROVE InferCase(t) = "custom"
  BY <1>5, <1>6, Cases DEF InferCase
<1>7. ASSUME c = "struct" PROVE InferCase(t) = "struct"
  <2>1. customBaseGoType(t) = NoGoType /\ IsStructOrStructPtr(t)
    BY <1>7 DEF SwitchCase
  <2> QED BY <1>5, <1>7, <2>1 DEF InferCase
<1>8. ASSUME c = "protoArray" PROVE InferCase(t) = "protoSlice"
  <2>1. /\ customBaseGoType(t) = NoGoType /\ ~IsStructOrStructPtr(t)
        /\ Kind(t) = "slice" /\ Go[Elem(t)].impl \cap {"Enum", "Message"} # {}
    BY <1>8 DEF SwitchCase
  <2> QED BY <1>5, <1>8, <2>1 DEF InferCase
<1>9. ASSUME c = "structArray" PROVE InferCase(t) = "structSlice"
  <2>1. /\ customBaseGoType(t) = NoGoType /\ ~IsStructOrStructPtr(t)
        /\ ~(Kind(t) = "slice" /\ Go[Elem(t)].impl \cap {"Enum", "Message"} # {})
        /\ Kind(t) = "slice" /\ IsStructOrStructPtr(Elem(t))
    BY <1>9 DEF SwitchCase
  <2> QED BY <1>5, <1>9, <2>1 DEF InferCase
<1> QED BY <1>2, <1>4, <1>6, <1>7, <1>8, <1>9

(***************************************************************************)
(* Agreement.                                                              *)
(***************************************************************************)

Refusals == {"ErrUnsupportedType", "ErrEmbeddedStructField", "ErrUntypedNil"}

\* The result r of an encode agrees with the answer a of the inference.
Agree(a, r) ==
  r.kind = "ok" => (a.kind = "ok" => r.type = a.type) /\ a.err \notin Refusals

AgreesAs(t, r)     == \A a : Inferred(t, a) => Agree(a, r)
AgreesStruct(t, r) == \A a : StructInferred(t, a) => Agree(a, r)

\* Errors agree with anything.
LEMMA FailureAgrees ==
  ASSUME NEW r, r.kind # "ok"
  PROVE  \A t : AgreesAs(t, r) /\ AgreesStruct(t, r)
  BY DEF AgreesAs, AgreesStruct, Agree

LEMMA ErrorsApart ==
  /\ "" \notin Refusals /\ "ErrTypeNotInferable" \notin Refusals
  /\ "ok" # "err" /\ "ok" # "panic"
  BY DEF Refusals

\* Anything agrees with what cannot be inferred.
LEMMA NotInferableAgrees ==
  ASSUME NEW t, \A a : Inferred(t, a) => a \in {Panic, Err("ErrTypeNotInferable")}
  PROVE  \A r : AgreesAs(t, r)
<1>1. ASSUME NEW a, Inferred(t, a) PROVE a.kind # "ok" /\ a.err \notin Refusals
  <2>1. CASE a = Panic
    BY <2>1, ErrorsApart, Answer
  <2>2. CASE a = Err("ErrTypeNotInferable")
    BY <2>2, ErrorsApart, Answer
  <2> QED BY <1>1, <2>1, <2>2
<1> QED BY <1>1 DEF AgreesAs, Agree

\* A result of the type the inference gives.
LEMMA SameTypeAgrees ==
  ASSUME NEW t, NEW x, \A a : Inferred(t, a) => a \in {Panic, OkType(x)},
         NEW r, r.kind = "ok" => r.type = x
  PROVE  AgreesAs(t, r)
<1>1. ASSUME NEW a, Inferred(t, a) PROVE (a.kind = "ok" => a.type = x) /\ a.err \notin Refusals
  <2>1. CASE a = Panic
    BY <2>1, ErrorsApart, Answer
  <2>2. CASE a = OkType(x)
    BY <2>2, ErrorsApart, Answer
  <2> QED BY <1>1, <2>1, <2>2
<1> QED BY <1>1 DEF AgreesAs, Agree

\* The same answers call for the same results.
LEMMA AgreesByCase ==
  ASSUME NEW t, NEW r
  PROVE  /\ SwitchCase(t) = "custom" /\ AgreesAs(customBaseGoType(t), r) => AgreesAs(t, r)
         /\ SwitchCase(t) = "struct" /\ AgreesStruct(t, r) => AgreesAs(t, r)
         /\ SwitchCase(t) \in {"gcv", "nullProto", "encoder"} => AgreesAs(t, r)
<1>1. ASSUME SwitchCase(t) = "custom", AgreesAs(customBaseGoType(t), r) PROVE AgreesAs(t, r)
  BY <1>1, SameCases, InferredAs DEF AgreesAs
<1>2. ASSUME SwitchCase(t) = "struct", AgreesStruct(t, r) PROVE AgreesAs(t, r)
  BY <1>2, SameCases, InferredAs DEF AgreesAs, AgreesStruct
<1>3. ASSUME SwitchCase(t) \in {"gcv", "nullProto", "encoder"} PROVE AgreesAs(t, r)
  <2>1. \A a : Inferred(t, a) => a = Err("ErrTypeNotInferable")
    BY <1>3, SameCases, InferredAs
  <2> QED BY <2>1, NotInferableAgrees
<1> QED BY <1>1, <1>2, <1>3

(***************************************************************************)
(* Results of the built-in code.                                           *)
(***************************************************************************)

LEMMA WrapKind ==
  ASSUME NEW r, NEW step, IsResult(r)
  PROVE  Wrap(r, step).kind = r.kind
  BY DEF Wrap, IsResult, NoResult

LEMMA ArrayKind ==
  ASSUME NEW t, NEW gs
  PROVE  /\ ArrayValueOf(t, gs).kind = "ok" => ArrayValueOf(t, gs).type = ArrayOf(t)
         /\ NullArray(t).kind = "ok" /\ NullArray(t).type = ArrayOf(t)
<1>1. \A step : Wrap(Err("ErrTypeMismatch"), step).kind # "ok"
  <2>1. IsResult(Err("ErrTypeMismatch")) /\ Err("ErrTypeMismatch").kind = "err"
    BY ErrResult DEF ResultOK
  <2> QED BY <2>1, WrapKind
<1>2. \A w : Ok(ArrayOf(t), w).kind = "ok" /\ Ok(ArrayOf(t), w).type = ArrayOf(t)
  BY OkResult
<1> QED BY <1>1, <1>2 DEF ArrayValueOf, NullArray

LEMMA LeafKind ==
  ASSUME NEW c, NEW v
  PROVE  IsResult(encodeLeaf(c, v)) /\ (encodeLeaf(c, v).kind = "ok" => encodeLeaf(c, v).type = Scalar(c))
<1>1. \A w : LET r == Ok(Scalar(c), w) IN IsResult(r) /\ r.type = Scalar(c)
  BY OkResult
<1>2. \A e : IsResult(Err(e)) /\ Err(e).kind # "ok"
  <2> TAKE e
  <2>1. Err(e).kind = "err" /\ IsResult(Err(e))
    BY DEF Err, NoResult, IsResult, ResultKinds
  <2> QED BY <2>1
<1>3. \/ \E w : encodeLeaf(c, v) = Ok(Scalar(c), w)
      \/ \E e : encodeLeaf(c, v) = Err(e)
  BY DEF encodeLeaf, NullOf
<1> QED BY <1>1, <1>2, <1>3

LEMMA SliceKind ==
  ASSUME NEW c, NEW v, encodeSlice(c, v).kind = "ok"
  PROVE  encodeSlice(c, v).type = ArrayOf(Scalar(c))
<1> DEFINE rs  == [i \in 1..Len(v.parts) |-> encodeLeaf(c, v.parts[i])]
           bad == {i \in 1..Len(rs) : rs[i].kind # "ok"}
<1>1. ASSUME bad # {} PROVE Wrap(rs[Min(bad)], AtElem(Min(bad) - 1)).kind # "ok"
  <2>1. bad \subseteq Nat /\ bad \subseteq DOMAIN rs /\ \A i \in bad : rs[i].kind # "ok"
    OBVIOUS
  <2>2. Min(bad) \in bad
    <3> HIDE DEF bad
    <3> QED BY <1>1, <2>1, FirstFailure
  <2>3. \A i \in DOMAIN rs : IsResult(rs[i])
    BY LeafKind
  <2> HIDE DEF bad, rs
  <2> QED BY <2>1, <2>2, <2>3, WrapKind
<1>2. encodeSlice(c, v) = IF v.nil THEN NullArray(Scalar(c))
                          ELSE IF bad # {} THEN Wrap(rs[Min(bad)], AtElem(Min(bad) - 1))
                          ELSE ArrayValueOf(Scalar(c), rs)
  BY DEF encodeSlice
<1> HIDE DEF bad, rs
<1> QED BY <1>1, <1>2, ArrayKind

\* Generated protobuf types are messages or enums, not both: of a type that
\* is both, TypeFromGoType would make an ENUM and encodeProtoArrayValue, which
\* asks in the other order, a PROTO.
OneDescriptor == \A t \in DOMAIN Go : ~({"Enum", "Message"} \subseteq Go[t].impl)

LEMMA ConcreteAgrees ==
  ASSUME NEW t, NEW v
  PROVE  /\ SwitchCase(t) = "leaf" => AgreesAs(t, encodeLeaf(RowOf(switchScalars, t), v))
         /\ SwitchCase(t) = "slice" => AgreesAs(t, encodeSlice(ElemRowOf(switchElems, t), v))
<1>1. ASSUME SwitchCase(t) = "leaf" PROVE AgreesAs(t, encodeLeaf(RowOf(switchScalars, t), v))
  <2>1. \A a : Inferred(t, a) => a = OkType(Scalar(RowOf(switchScalars, t)))
    BY <1>1, ConcreteInferred, InferredAs
  <2> QED BY <2>1, LeafKind, SameTypeAgrees
<1>2. ASSUME SwitchCase(t) = "slice" PROVE AgreesAs(t, encodeSlice(ElemRowOf(switchElems, t), v))
  <2>1. \A a : Inferred(t, a) => a = OkType(ArrayOf(Scalar(ElemRowOf(switchElems, t))))
    BY <1>2, ConcreteInferred, InferredAs
  <2> QED BY <2>1, SliceKind, SameTypeAgrees
<1> QED BY <1>1, <1>2

LEMMA ProtoAgrees ==
  ASSUME NEW t, SwitchCase(t) = "proto", NEW r,
         r.kind = "ok" =>
           r.type = NamedType(IF Implements(t, "Enum") THEN "ENUM" ELSE "PROTO", Go[t].fqn)
  PROVE  AgreesAs(t, r)
<1> DEFINE code == IF Implements(t, "Enum") THEN "ENUM" ELSE "PROTO"
<1>1. \A a : Inferred(t, a) => a = TypeFromDescriptor(code, t)
  BY SameCases, InferredAs
<1> HIDE DEF code
<1>2. \A a : Inferred(t, a) => a \in {Panic, OkType(NamedType(code, Go[t].fqn))}
  BY <1>1, DescriptorAnswer
<1>3. r.kind = "ok" => r.type = NamedType(code, Go[t].fqn)
  BY DEF code
<1> QED BY <1>2, <1>3, SameTypeAgrees

LEMMA ProtoArrayAgrees ==
  ASSUME OneDescriptor, NEW t \in DOMAIN Go, SwitchCase(t) = "protoArray", NEW d,
         d = TypeFromDescriptor(IF Implements(Elem(t), "Message") THEN "PROTO" ELSE "ENUM", Elem(t)),
         NEW r, r.kind = "ok" => r.type = ArrayOf(d.type)
  PROVE  AgreesAs(t, r)
<1> DEFINE et == Elem(t)
           inf == TypeFromDescriptor(IF Implements(et, "Enum") THEN "ENUM" ELSE "PROTO", et)
<1>1. Kind(t) = "slice" /\ Go[et].impl \cap {"Enum", "Message"} # {}
  BY DEF SwitchCase
<1>2. et \in DOMAIN Go
  BY <1>1, GoAssumption DEF Kind, Elem
<1>3. Implements(et, "Enum") <=> ~Implements(et, "Message")
  BY <1>1, <1>2 DEF OneDescriptor, Implements
<1>4. inf = d
  <2>1. CASE Implements(et, "Enum")
    BY <1>3, <2>1
  <2>2. CASE ~Implements(et, "Enum")
    BY <1>3, <2>2
  <2> QED BY <2>1, <2>2
<1>5. \A a : Inferred(t, a) => a = inferredProtoSlice(et)
  BY SameCases, InferredAs
<1>6. inferredProtoSlice(et) = IF d.kind = "ok" THEN OkType(ArrayOf(d.type)) ELSE d
  BY <1>4 DEF inferredProtoSlice
<1>7. d.kind = "ok" \/ d = Panic
  <2>1. d = Panic \/ \E x : d = OkType(x)
    BY DescriptorAnswer
  <2> QED BY <2>1, Answer
<1>8. \A a : Inferred(t, a) => a \in {Panic, OkType(ArrayOf(d.type))}
  BY <1>5, <1>6, <1>7
<1> QED BY <1>8, SameTypeAgrees

(***************************************************************************)
(* The walks over the fields of a struct.                                  *)
(***************************************************************************)

\* The fields of the STRUCT type that the collected parts make.
Signature(gs) == [i \in 1..Len(gs) |-> [name |-> gs[i].name, type |-> gs[i].type]]

LEMMA SignatureEmpty == ASSUME NEW gs, IsSequence(gs), Len(gs) = 0 PROVE Signature(gs) = <<>>
<1>1. Signature(gs) = [i \in 1..0 |-> [name |-> gs[i].name, type |-> gs[i].type]]
  BY DEF Signature
<1>2. \A s : DOMAIN s = {} /\ s = [i \in DOMAIN s |-> s[i]] => s = <<>>
  OBVIOUS
<1>3. 1..0 = {}
  OBVIOUS
<1> DEFINE s == Signature(gs)
<1>4. DOMAIN s = {} /\ s = [i \in DOMAIN s |-> s[i]]
  BY <1>1, <1>3
<1> HIDE DEF s
<1>5. s = <<>>
  BY <1>2, <1>4
<1> QED BY <1>5 DEF s

LEMMA SignatureAppend ==
  ASSUME NEW gs, IsSequence(gs), NEW x, NEW y, y = [name |-> x.name, type |-> x.type]
  PROVE  Signature(Append(gs, x)) = Append(Signature(gs), y)
<1> DEFINE hs == Append(gs, x)
           n  == Len(gs)
           sig(g) == [name |-> g.name, type |-> g.type]
           s  == [i \in 1..n |-> sig(gs[i])]
           S  == {sig(gs[i]) : i \in 1..n} \cup {y}
<1>1. /\ Len(hs) = n + 1 /\ \A i \in 1..n : hs[i] = gs[i]
      /\ hs[n + 1] = x
  BY AppendSequence
<1>2. n \in Nat
  BY SequenceLen
<1>3. s = Signature(gs) /\ Signature(hs) = [i \in 1..Len(hs) |-> sig(hs[i])]
  BY DEF Signature
<1>4. sig(x) = y
  OBVIOUS
<1>9. s \in [1..n -> S] /\ y \in S /\ \A i \in 1..n : s[i] = sig(gs[i])
  OBVIOUS
<1> HIDE DEF hs, n, sig, s, S
<1>5. s \in Seq(S) /\ Len(s) = n
  BY <1>2, <1>9
<1>6. /\ Append(s, y) = [i \in 1..(n + 1) |-> IF i = n + 1 THEN y ELSE s[i]]
  BY <1>2, <1>5, <1>9
<1>7. \A i \in 1..(n + 1) : sig(hs[i]) = IF i = n + 1 THEN y ELSE s[i]
  <2> TAKE i \in 1..(n + 1)
  <2>1. CASE i = n + 1
    BY <1>1, <1>4, <2>1
  <2>2. CASE i # n + 1
    <3>1. i \in 1..n
      BY <1>2, <2>2
    <3> QED BY <1>1, <1>9, <2>2, <3>1
  <2> QED BY <2>1, <2>2
<1>8. Signature(hs) = Append(s, y)
  BY <1>1, <1>3, <1>6, <1>7
<1> QED BY <1>3, <1>8 DEF hs

\* A field that is not exported is passed over, an exported one adds to the
\* STRUCT.
LEMMA PassesField ==
  ASSUME NEW t, NEW i, NEW I, NEW x, ~Fields(t)[i].anon
  PROVE  /\ ~Fields(t)[i].exported => Passes(t, i, I, x, x)
         /\ \A b : Fields(t)[i].exported /\ <<Fields(t)[i].type, b>> \in I /\ b.kind = "ok" =>
              Passes(t, i, I, x, Append(x, [name |-> Fields(t)[i].name, type |-> b.type]))
<1> DEFINE f == Fields(t)[i]
           e(b) == [name |-> f.name, type |-> b.type]
<1>1. ASSUME ~f.exported PROVE Passes(t, i, I, x, x)
  BY <1>1 DEF Passes
<1>2. ASSUME NEW b, f.exported, <<f.type, b>> \in I, b.kind = "ok"
      PROVE  Passes(t, i, I, x, Append(x, e(b)))
  <2> HIDE DEF e
  <2> DEFINE y == Append(x, e(b))
  <2>1. \E c : <<f.type, c>> \in I /\ c.kind = "ok" /\ y = Append(x, e(c))
    BY <1>2
  <2> HIDE DEF y
  <2>2. Passes(t, i, I, x, y)
    BY <1>2, <2>1 DEF Passes, e
  <2> QED BY <2>2 DEF y
<1> QED BY <1>1, <1>2

\* A walk goes on by one field.
LEMMA WalkOn ==
  ASSUME NEW I, NEW h, NEW t, NEW k \in Nat, Walks(h, t, k, I), NEW x,
         Passes(t, k + 1, I, h[k], x)
  PROVE  \E g : Walks(g, t, k + 1, I) /\ g[k + 1] = x
<1> DEFINE g == [i \in 0..(k + 1) |-> IF i = k + 1 THEN x ELSE h[i]]
<1>1. g[k + 1] = x /\ \A i \in 0..k : g[i] = h[i]
  OBVIOUS
<1> HIDE DEF g
<1>2. g[0] = <<>>
  BY <1>1 DEF Walks
<1>3. \A i \in 1..k : Passes(t, i, I, g[i - 1], g[i])
  <2> TAKE i \in 1..k
  <2>1. g[i] = h[i] /\ g[i - 1] = h[i - 1]
    BY <1>1
  <2> QED BY <2>1 DEF Walks
<1>4. Passes(t, k + 1, I, g[k + 1 - 1], g[k + 1])
  <2>1. g[k + 1 - 1] = h[k]
    BY <1>1
  <2> QED BY <1>1, <2>1
<1>5. \A i \in 1..(k + 1) : i \in 1..k \/ i = k + 1
  OBVIOUS
<1>6. Walks(g, t, k + 1, I)
  BY <1>2, <1>3, <1>4, <1>5 DEF Walks
<1> QED BY <1>1, <1>6

\* The inference of struct type t has passed all fields before pos and found
\* the fields gs.
InferredSoFar(t, pos, gs) ==
  /\ pos - 1 <= Len(Fields(t))
  /\ \E I, h : Grounded(I) /\ Walks(h, t, pos - 1, I) /\ Signature(gs) = h[pos - 1]

LEMMA InferenceBegins ==
  ASSUME NEW t, Len(Fields(t)) \in Nat, NEW gs, IsSequence(gs), Len(gs) = 0
  PROVE  InferredSoFar(t, 1, gs)
<1> DEFINE h == [i \in {0} |-> <<>>]
<1>1. h[0] = <<>>
  OBVIOUS
<1> HIDE DEF h
<1>2. Walks(h, t, 0, {})
  BY <1>1 DEF Walks
<1>3. Signature(gs) = h[0]
  BY <1>1, SignatureEmpty
<1>4. 1 - 1 = 0 /\ 0 <= Len(Fields(t))
  OBVIOUS
<1> QED BY <1>2, <1>3, <1>4, NothingInferred DEF InferredSoFar

LEMMA InferenceSkips ==
  ASSUME NEW t, NEW pos \in Nat \ {0}, NEW gs, InferredSoFar(t, pos, gs),
         Len(Fields(t)) \in Nat, pos <= Len(Fields(t)),
         ~Fields(t)[pos].anon, ~Fields(t)[pos].exported
  PROVE  InferredSoFar(t, pos + 1, gs)
<1> DEFINE k == pos - 1
<1>1. k \in Nat /\ k + 1 = pos /\ pos + 1 - 1 = pos
  OBVIOUS
<1>2. PICK I, h : Grounded(I) /\ Walks(h, t, k, I) /\ Signature(gs) = h[k]
  BY DEF InferredSoFar
<1> HIDE DEF k
<1>3. Passes(t, k + 1, I, h[k], h[k])
  <2>1. Passes(t, pos, I, h[k], h[k])
    BY PassesField
  <2> QED BY <1>1, <2>1
<1>4. PICK g : Walks(g, t, k + 1, I) /\ g[k + 1] = h[k]
  BY <1>1, <1>2, <1>3, WalkOn
<1>5. /\ Grounded(I) /\ Walks(g, t, pos + 1 - 1, I) /\ Signature(gs) = g[pos + 1 - 1]
      /\ pos + 1 - 1 <= Len(Fields(t))
  BY <1>1, <1>2, <1>4
<1> QED BY <1>5 DEF InferredSoFar

LEMMA InferenceAdds ==
  ASSUME NEW t, NEW pos \in Nat \ {0}, NEW gs, InferredSoFar(t, pos, gs), IsSequence(gs),
         Len(Fields(t)) \in Nat, pos <= Len(Fields(t)),
         ~Fields(t)[pos].anon, Fields(t)[pos].exported,
         NEW a, Inferred(Fields(t)[pos].type, a), a.kind = "ok",
         NEW x, x.name = Fields(t)[pos].name, x.type = a.type
  PROVE  InferredSoFar(t, pos + 1, Append(gs, x))
<1> DEFINE k == pos - 1
           f == Fields(t)[pos]
           y == [name |-> f.name, type |-> a.type]
<1>1. k \in Nat /\ k + 1 = pos /\ pos + 1 - 1 = pos
  OBVIOUS
<1>2. PICK I, h : Grounded(I) /\ Walks(h, t, k, I) /\ Signature(gs) = h[k]
  BY DEF InferredSoFar
<1>3. PICK J : Grounded(J) /\ <<f.type, a>> \in J
  BY DEF Inferred
<1>4. y = [name |-> x.name, type |-> x.type]
  OBVIOUS
<1>5. Signature(Append(gs, x)) = Append(h[k], y)
  <2> HIDE DEF k, f
  <2> QED BY <1>2, <1>4, SignatureAppend
<1>6. Grounded(I \cup J) /\ I \subseteq I \cup J /\ <<f.type, a>> \in I \cup J
  BY <1>2, <1>3, Together
<1> HIDE DEF k
<1> DEFINE K == I \cup J
<1>7. Passes(t, k + 1, K, h[k], Append(h[k], y))
  <2>1. Passes(t, pos, K, h[k], Append(h[k], y))
    <3> HIDE DEF K
    <3> QED BY <1>6, PassesField DEF K
  <2> QED BY <1>1, <2>1
<1>8. Walks(h, t, k, K) /\ Grounded(K)
  BY <1>2, <1>6, MoreWalks
<1> HIDE DEF K, y
<1>9. PICK g : Walks(g, t, k + 1, K) /\ g[k + 1] = Append(h[k], y)
  <2> DEFINE z == Append(h[k], y)
  <2>1. Passes(t, k + 1, K, h[k], z)
    BY <1>7
  <2> HIDE DEF z
  <2>2. \E g : Walks(g, t, k + 1, K) /\ g[k + 1] = z
    BY <1>1, <1>8, <2>1, WalkOn
  <2> QED BY <2>2 DEF z
<1>10. /\ Grounded(K) /\ Walks(g, t, pos + 1 - 1, K)
       /\ Signature(Append(gs, x)) = g[pos + 1 - 1]
       /\ pos + 1 - 1 <= Len(Fields(t))
  BY <1>1, <1>5, <1>8, <1>9
<1> QED BY <1>10 DEF InferredSoFar

\* Where the inference of a struct type ends.
LEMMA InferenceEnds ==
  ASSUME NEW t, NEW pos \in Nat \ {0}, NEW gs, InferredSoFar(t, pos, gs), Len(Fields(t)) \in Nat
  PROVE  /\ pos > Len(Fields(t)) => StructInferred(t, OkType(StructOf(Signature(gs))))
         /\ pos <= Len(Fields(t)) /\ Fields(t)[pos].anon =>
              StructInferred(t, Err("ErrEmbeddedStructField"))
         /\ pos <= Len(Fields(t)) /\ ~Fields(t)[pos].anon /\ Fields(t)[pos].exported =>
              \A a : Inferred(Fields(t)[pos].type, a) /\ a.kind # "ok" => StructInferred(t, a)
<1> DEFINE k == pos - 1
           n == Len(Fields(t))
<1>1. k \in Nat /\ k + 1 = pos /\ k <= n
  BY DEF InferredSoFar
<1>2. PICK I, h : Grounded(I) /\ Walks(h, t, k, I) /\ Signature(gs) = h[k]
  BY DEF InferredSoFar
<1>3. k \in 0..n /\ (k = n <=> pos > n)
  BY <1>1
<1> HIDE DEF k
<1>4. ASSUME pos > n PROVE StructInferred(t, OkType(StructOf(Signature(gs))))
  <2>1. Stops(h, t, k, OkType(StructOf(Signature(gs))), I)
    BY <1>2, <1>3, <1>4 DEF Stops
  <2> QED BY <1>2, <1>3, <2>1 DEF StructInferred, StructRule
<1>5. ASSUME pos <= n, Fields(t)[pos].anon PROVE StructInferred(t, Err("ErrEmbeddedStructField"))
  <2>1. k # n
    BY <1>1, <1>3, <1>5
  <2>2. Stops(h, t, k, Err("ErrEmbeddedStructField"), I)
    BY <1>1, <1>5, <2>1 DEF Stops
  <2> QED BY <1>2, <1>3, <2>2 DEF StructInferred, StructRule
<1>6. ASSUME pos <= n, ~Fields(t)[pos].anon, Fields(t)[pos].exported,
             NEW a, Inferred(Fields(t)[pos].type, a), a.kind # "ok"
      PROVE  StructInferred(t, a)
  <2>1. PICK J : Grounded(J) /\ <<Fields(t)[pos].type, a>> \in J
    BY <1>6 DEF Inferred
  <2>2. Grounded(I \cup J) /\ Walks(h, t, k, I \cup J)
    BY <1>2, <2>1, Together, MoreWalks
  <2>3. k # n
    BY <1>1, <1>3, <1>6
  <2>4. Stops(h, t, k, a, I \cup J)
    BY <1>1, <1>6, <2>1, <2>3 DEF Stops
  <2> QED BY <1>3, <2>2, <2>4 DEF StructInferred, StructRule
<1> QED BY <1>4, <1>5, <1>6

\* The encoder has passed all fields of t before pos and collected gs: none of
\* those fields makes the inference refuse t, and where it finds the types of
\* all of them, it finds the same fields.
AgreesSoFar(t, pos, gs) ==
  /\ pos - 1 <= Len(Fields(t))
  /\ \A i \in 1..(pos - 1) :
       /\ ~Fields(t)[i].anon
       /\ Fields(t)[i].exported =>
            \A a : Inferred(Fields(t)[i].type, a) => a.err \notin Refusals
  /\ \A I, h : Grounded(I) /\ Walks(h, t, pos - 1, I) => Signature(gs) = h[pos - 1]

LEMMA AgreementBegins ==
  ASSUME NEW t, Len(Fields(t)) \in Nat, NEW gs, IsSequence(gs), Len(gs) = 0
  PROVE  AgreesSoFar(t, 1, gs)
<1>1. 1 - 1 = 0 /\ 0 <= Len(Fields(t)) /\ 1..0 = {}
  OBVIOUS
<1>2. \A I, h : Walks(h, t, 0, I) => Signature(gs) = h[0]
  BY SignatureEmpty DEF Walks
<1> QED BY <1>1, <1>2 DEF AgreesSoFar

\* A walk up to a field passes it.
LEMMA WalksBack ==
  ASSUME NEW h, NEW t, NEW pos \in Nat \ {0}, NEW I, Walks(h, t, pos, I)
  PROVE  Walks(h, t, pos - 1, I) /\ Passes(t, pos, I, h[pos - 1], h[pos])
<1>1. pos \in 1..pos /\ \A i \in 1..(pos - 1) : i \in 1..pos
  OBVIOUS
<1> QED BY <1>1 DEF Walks

LEMMA AgreementSkips ==
  ASSUME NEW t, NEW pos \in Nat \ {0}, NEW gs, AgreesSoFar(t, pos, gs),
         Len(Fields(t)) \in Nat, pos <= Len(Fields(t)),
         ~Fields(t)[pos].anon, ~Fields(t)[pos].exported
  PROVE  AgreesSoFar(t, pos + 1, gs)
<1>1. pos + 1 - 1 = pos /\ \A i \in 1..pos : i \in 1..(pos - 1) \/ i = pos
  OBVIOUS
<1>2. ASSUME NEW I, NEW h, Grounded(I), Walks(h, t, pos, I) PROVE Signature(gs) = h[pos]
  <2>1. Walks(h, t, pos - 1, I) /\ Passes(t, pos, I, h[pos - 1], h[pos])
    BY <1>2, WalksBack
  <2>2. Signature(gs) = h[pos - 1]
    BY <1>2, <2>1 DEF AgreesSoFar
  <2>3. h[pos] = h[pos - 1]
    BY <2>1 DEF Passes
  <2> QED BY <2>2, <2>3
<1>3. \A i \in 1..pos :
        /\ ~Fields(t)[i].anon
        /\ Fields(t)[i].exported =>
             \A a : Inferred(Fields(t)[i].type, a) => a.err \notin Refusals
  BY <1>1 DEF AgreesSoFar
<1> QED BY <1>1, <1>2, <1>3 DEF AgreesSoFar

LEMMA AgreementAdds ==
  ASSUME NEW t, NEW pos \in Nat \ {0}, NEW gs, AgreesSoFar(t, pos, gs), IsSequence(gs),
         Len(Fields(t)) \in Nat, pos <= Len(Fields(t)),
         ~Fields(t)[pos].anon, Fields(t)[pos].exported,
         NEW r, AgreesAs(Fields(t)[pos].type, r), r.kind = "ok",
         NEW x, x.name = Fields(t)[pos].name, x.type = r.type
  PROVE  AgreesSoFar(t, pos + 1, Append(gs, x))
<1> DEFINE f == Fields(t)[pos]
           e(b) == [name |-> f.name, type |-> b.type]
<1>1. pos + 1 - 1 = pos /\ \A i \in 1..pos : i \in 1..(pos - 1) \/ i = pos
  OBVIOUS
<1>2. ASSUME NEW I, NEW h, Grounded(I), Walks(h, t, pos, I)
      PROVE  Signature(Append(gs, x)) = h[pos]
  <2>1. Walks(h, t, pos - 1, I) /\ Passes(t, pos, I, h[pos - 1], h[pos])
    BY <1>2, WalksBack
  <2>2. Signature(gs) = h[pos - 1]
    BY <1>2, <2>1 DEF AgreesSoFar
  <2>3. PICK b : <<f.type, b>> \in I /\ b.kind = "ok" /\ h[pos] = Append(h[pos - 1], e(b))
    BY <2>1 DEF Passes
  <2>4. r.type = b.type
    <3>1. Inferred(f.type, b)
      BY <1>2, <2>3 DEF Inferred
    <3> QED BY <2>3, <3>1 DEF AgreesAs, Agree
  <2>5. e(b) = [name |-> x.name, type |-> x.type]
    BY <2>4
  <2> HIDE DEF e
  <2>6. Signature(Append(gs, x)) = Append(Signature(gs), e(b))
    <3> DEFINE y == e(b)
    <3>1. y = [name |-> x.name, type |-> x.type]
      BY <2>5
    <3> HIDE DEF y
    <3>2. Signature(Append(gs, x)) = Append(Signature(gs), y)
      BY <3>1, SignatureAppend
    <3> QED BY <3>2 DEF y
  <2> QED BY <2>2, <2>3, <2>6
<1>3. \A a : Inferred(f.type, a) => a.err \notin Refusals
  BY DEF AgreesAs, Agree
<1>4. \A i \in 1..pos :
        /\ ~Fields(t)[i].anon
        /\ Fields(t)[i].exported =>
             \A a : Inferred(Fields(t)[i].type, a) => a.err \notin Refusals
  BY <1>1, <1>3 DEF AgreesSoFar
<1> HIDE DEF f
<1> QED BY <1>1, <1>2, <1>4 DEF AgreesSoFar

LEMMA AgreementEnds ==
  ASSUME NEW t, NEW pos \in Nat \ {0}, NEW gs, AgreesSoFar(t, pos, gs),
         Len(Fields(t)) \in Nat, pos > Len(Fields(t)),
         NEW r, r.kind = "ok" => r.type = StructOf(Signature(gs))
  PROVE  AgreesStruct(t, r)
<1> DEFINE n == Len(Fields(t))
<1>1. pos - 1 = n
  BY DEF AgreesSoFar
<1>2. SUFFICES ASSUME NEW a, StructInferred(t, a) PROVE Agree(a, r)
  BY DEF AgreesStruct
<1>3. PICK I : Grounded(I) /\ StructRule(t, a, I)
  BY <1>2 DEF StructInferred
<1>4. PICK h : \E k \in 0..n : Walks(h, t, k, I) /\ Stops(h, t, k, a, I)
  BY <1>3 DEF StructRule
<1>5. PICK k \in 0..n : Walks(h, t, k, I) /\ Stops(h, t, k, a, I)
  BY <1>4
<1>6. CASE k = n
  <2>1. a = OkType(StructOf(h[k]))
    BY <1>5, <1>6 DEF Stops
  <2>2. Signature(gs) = h[k]
    BY <1>1, <1>3, <1>5, <1>6 DEF AgreesSoFar
  <2>3. a.kind = "ok" /\ a.type = StructOf(Signature(gs)) /\ a.err = ""
    BY <2>1, <2>2, Answer
  <2> QED BY <2>3, ErrorsApart DEF Agree
<1>7. CASE k # n
  <2> DEFINE f == Fields(t)[k + 1]
  <2>1. k + 1 \in 1..(pos - 1)
    BY <1>1, <1>7
  <2>2. ~f.anon
    BY <2>1 DEF AgreesSoFar
  <2>3. f.exported /\ <<f.type, a>> \in I /\ a.kind # "ok"
    BY <1>5, <1>7, <2>2 DEF Stops
  <2>4. Inferred(f.type, a)
    BY <1>3, <2>3 DEF Inferred
  <2>5. a.err \notin Refusals
    BY <2>1, <2>3, <2>4 DEF AgreesSoFar
  <2> QED BY <2>3, <2>5 DEF Agree
<1> QED BY <1>6, <1>7

(***************************************************************************)
(* More about the answers.                                                 *)
(***************************************************************************)

\* A struct and a pointer to it have the same fields.
LEMMA SameFields ==
  ASSUME NEW t, NEW u, Fields(t) = Fields(u)
  PROVE  /\ \A a : StructInferred(t, a) => StructInferred(u, a)
         /\ \A r : AgreesStruct(u, r) => AgreesStruct(t, r)
<1>1. ASSUME NEW a, StructInferred(t, a) PROVE StructInferred(u, a)
  <2>1. PICK I : Grounded(I) /\ StructRule(t, a, I)
    BY <1>1 DEF StructInferred
  <2>2. PICK h : \E k \in 0..Len(Fields(t)) : Walks(h, t, k, I) /\ Stops(h, t, k, a, I)
    BY <2>1 DEF StructRule
  <2>3. PICK k \in 0..Len(Fields(t)) : Walks(h, t, k, I) /\ Stops(h, t, k, a, I)
    BY <2>2
  <2>4. Walks(h, u, k, I)
    <3>1. \A i, x, y : Passes(t, i, I, x, y) <=> Passes(u, i, I, x, y)
      BY Zenon DEF Passes
    <3> QED BY <2>3, <3>1 DEF Walks
  <2>5. Stops(h, u, k, a, I)
    BY <2>3 DEF Stops
  <2>6. StructRule(u, a, I)
    BY <2>4, <2>5 DEF StructRule
  <2> QED BY <2>1, <2>6 DEF StructInferred
<1> QED BY <1>1 DEF AgreesStruct

\* Of an interface type nothing is inferred.
LEMMA InterfaceAgrees ==
  ASSUME NEW t \in DOMAIN Go, Kind(t) = "interface"
  PROVE  \A r : AgreesAs(t, r)
<1>1. t # UntypedNil /\ exactGoType(t) = NoType
  <2>1. t # UntypedNil
    BY BaseAssumption
  <2>2. RowOf(exactScalars, t) = "NONE"
    <3>1. \A c \in DOMAIN exactScalars : t \notin exactScalars[c]
      BY BaseAssumption
    <3> QED BY <3>1 DEF RowOf
  <2>3. ElemRowOf(exactElems, t) = "NONE"
    BY DEF ElemRowOf
  <2> QED BY <2>1, <2>2, <2>3 DEF exactGoType
<1>2. inferredDirectly(t) \in {Err("ErrTypeNotInferable"), Panic, NoResult}
  <2>1. \A code : TypeFromDescriptor(code, t) = Panic
    BY DEF TypeFromDescriptor
  <2> QED BY <1>1, <2>1 DEF inferredDirectly
<1>3. customBaseGoType(t) = NoGoType /\ ~IsStructOrStructPtr(t)
  <2>1. Kind(t) \notin DOMAIN kindBase
    BY DEF kindBase
  <2> QED BY <2>1 DEF customBaseGoType, IsStructOrStructPtr
<1>4. InferCase(t) = IF inferredDirectly(t) # NoResult THEN "direct" ELSE "interface"
  BY <1>3 DEF InferCase
<1>5. \A a : Inferred(t, a) => a \in {Panic, Err("ErrTypeNotInferable")}
  BY <1>2, <1>4, InferredAs
<1> QED BY <1>5, NotInferableAgrees

\* What a field or an element holds agrees with its declared type.
LEMMA HeldAgrees ==
  ASSUME NEW t \in DOMAIN Go, NEW v, Holds(t, v), NEW r, AgreesAs(v.type, r)
  PROVE  AgreesAs(t, r)
  BY InterfaceAgrees DEF Holds

\* An ARRAY of the STRUCT of the elements.
LEMMA StructArrayAgrees ==
  ASSUME NEW t, SwitchCase(t) = "structArray", NEW b, AgreesStruct(Elem(t), b), b.kind = "ok",
         NEW r, r.kind = "ok" => r.type = ArrayOf(b.type)
  PROVE  AgreesAs(t, r)
<1> SUFFICES ASSUME NEW a, Inferred(t, a) PROVE Agree(a, r)
  BY DEF AgreesAs
<1>1. PICK c : StructInferred(Elem(t), c) /\ a = ArrayAnswer(c)
  BY SameCases, InferredAs
<1>2. (c.kind = "ok" => b.type = c.type) /\ c.err \notin Refusals
  BY <1>1 DEF AgreesStruct, Agree
<1>3. CASE c.kind = "ok"
  <2>1. a.kind = "ok" /\ a.type = ArrayOf(c.type) /\ a.err = ""
    BY <1>1, <1>3, Answer DEF ArrayAnswer
  <2> QED BY <1>2, <1>3, <2>1, ErrorsApart DEF Agree
<1>4. CASE c.kind # "ok"
  <2>1. a = c
    BY <1>1, <1>4 DEF ArrayAnswer
  <2> QED BY <1>2, <1>4, <2>1 DEF Agree
<1> QED BY <1>3, <1>4

\* Results of the same type agree with the same answers.
LEMMA AgreesAlike ==
  ASSUME NEW t, NEW q, q.kind = "ok", NEW r, r.kind = "ok" => r.type = q.type
  PROVE  /\ AgreesAs(t, q) => AgreesAs(t, r)
         /\ AgreesStruct(t, q) => AgreesStruct(t, r)
  BY DEF AgreesAs, AgreesStruct, Agree

\* What a walk gives without looking inside, when it panics.
LEMMA DirectPanics ==
  ASSUME NEW t
  PROVE  /\ inferredDirectly(t).kind = "panic" => inferredDirectly(t) = Panic
         /\ inferredProtoSlice(t).kind = "panic" => inferredProtoSlice(t) = Panic
         /\ \A code : TypeFromDescriptor(code, t).kind = "panic" =>
              TypeFromDescriptor(code, t) = Panic
<1>1. \A x : OkType(x).kind # "panic"
  BY Answer
<1>2. \A e : Err(e).kind # "panic"
  BY Answer
<1>3. ASSUME NEW code, TypeFromDescriptor(code, t).kind = "panic"
      PROVE  TypeFromDescriptor(code, t) = Panic
  BY <1>1, <1>3, DescriptorAnswer
<1>4. NoResult.kind # "panic"
  BY Answer
<1>5. inferredDirectly(t).kind = "panic" => inferredDirectly(t) = Panic
  BY <1>1, <1>2, <1>3, <1>4 DEF inferredDirectly
<1>6. inferredProtoSlice(t).kind = "panic" => inferredProtoSlice(t) = Panic
  BY <1>1, <1>3 DEF inferredProtoSlice
<1> QED BY <1>3, <1>5, <1>6

\* The fields of a struct type of the universe.
LEMMA FieldTypes ==
  ASSUME NEW t \in DOMAIN Go, IsStructOrStructPtr(t)
  PROVE  /\ Len(Fields(t)) \in Nat
         /\ \A i \in 1..Len(Fields(t)) : Fields(t)[i].type \in DOMAIN Go
         /\ StructBehind(t) \in DOMAIN Go /\ Kind(StructBehind(t)) = "struct"
         /\ Fields(StructBehind(t)) = Fields(t)
<1>1. StructBehind(t) \in DOMAIN Go /\ Kind(StructBehind(t)) = "struct"
  BY GoAssumption DEF IsStructOrStructPtr, StructBehind, Kind, Elem
<1>2. StructBehind(StructBehind(t)) = StructBehind(t)
  BY <1>1 DEF StructBehind
<1> QED BY <1>1, <1>2, GoAssumption DEF Fields

(***************************************************************************)
(* TypeFromGoType gives a type one answer.                                 *)
(***************************************************************************)

\* In J a type of the universe has no answer but the one it has in K.
Single(J, K) ==
  \A t \in DOMAIN Go : \A a, b : <<t, a>> \in J /\ <<t, b>> \in K => a = b

LEMMA SameStep ==
  ASSUME NEW J, NEW K, Single(J, K), NEW t, NEW i, Fields(t)[i].type \in DOMAIN Go, NEW x,
         NEW y, NEW z, Passes(t, i, J, x, y), Passes(t, i, K, x, z)
  PROVE  y = z
<1> DEFINE f == Fields(t)[i]
           e(b) == Append(x, [name |-> f.name, type |-> b.type])
<1>1. CASE f.exported
  <2> HIDE DEF e
  <2>1. PICK b : <<f.type, b>> \in J /\ y = e(b)
    BY <1>1 DEF Passes, e
  <2>2. PICK c : <<f.type, c>> \in K /\ z = e(c)
    BY <1>1 DEF Passes, e
  <2>3. b = c
    BY <2>1, <2>2 DEF Single
  <2> QED BY <2>1, <2>2, <2>3
<1>2. CASE ~f.exported
  BY <1>2 DEF Passes
<1> QED BY <1>1, <1>2

\* Two walks over a struct find the same fields as far as both go.
LEMMA SameWalk ==
  ASSUME NEW J, NEW K, Single(J, K), NEW t, NEW n \in Nat,
         \A i \in 1..n : Fields(t)[i].type \in DOMAIN Go,
         NEW g, NEW h, Walks(g, t, n, J), Walks(h, t, n, K)
  PROVE  \A i \in 0..n : g[i] = h[i]
<1> DEFINE D == {i \in 0..n : g[i] # h[i]}
<1> SUFFICES ASSUME D # {} PROVE FALSE
  OBVIOUS
<1>1. D \subseteq Nat /\ \A i \in D : i \in 0..n /\ g[i] # h[i]
  OBVIOUS
<1>2. \A i \in 0..n : g[i] # h[i] => i \in D
  OBVIOUS
<1> HIDE DEF D
<1>3. PICK i \in D : \A j \in D : i <= j
  BY <1>1, Least
<1>4. i # 0
  <2>1. g[0] = <<>> /\ h[0] = <<>>
    BY DEF Walks
  <2> QED BY <1>1, <2>1
<1>5. i \in 1..n /\ i - 1 \in 0..n /\ i - 1 \notin D
  <2>1. i \in 0..n /\ i \in Nat
    BY <1>1
  <2>2. i - 1 \notin D
    BY <1>3, <2>1
  <2> QED BY <1>4, <2>1, <2>2
<1>6. g[i - 1] = h[i - 1]
  BY <1>2, <1>5
<1>7. Passes(t, i, J, g[i - 1], g[i]) /\ Passes(t, i, K, h[i - 1], h[i])
  BY <1>5 DEF Walks
<1>8. g[i] = h[i]
  BY <1>5, <1>6, <1>7, SameStep
<1> QED BY <1>1, <1>8

\* Where one walk stops at a field, another does not pass.
LEMMA StopsThere ==
  ASSUME NEW J, NEW K, Single(J, K) \/ Single(K, J), NEW t, NEW k \in Nat, k # Len(Fields(t)),
         Fields(t)[k + 1].type \in DOMAIN Go, NEW h, NEW a, Stops(h, t, k, a, J)
  PROVE  \A x, y : ~Passes(t, k + 1, K, x, y)
<1> DEFINE f == Fields(t)[k + 1]
<1> SUFFICES ASSUME NEW x, NEW y, Passes(t, k + 1, K, x, y) PROVE FALSE
  OBVIOUS
<1>1. ~f.anon
  BY DEF Passes
<1>2. f.exported /\ <<f.type, a>> \in J /\ a.kind # "ok"
  BY <1>1 DEF Stops
<1>3. PICK b : <<f.type, b>> \in K /\ b.kind = "ok"
  BY <1>2 DEF Passes
<1>4. a = b
  BY <1>2, <1>3 DEF Single
<1> QED BY <1>2, <1>3, <1>4

LEMMA SameStop ==
  ASSUME NEW J, NEW K, Single(J, K), NEW t, NEW k \in 0..Len(Fields(t)),
         k # Len(Fields(t)) => Fields(t)[k + 1].type \in DOMAIN Go,
         NEW g, NEW h, g[k] = h[k], NEW a, NEW b, Stops(g, t, k, a, J), Stops(h, t, k, b, K)
  PROVE  a = b
<1> DEFINE f == Fields(t)[k + 1]
<1>1. CASE k = Len(Fields(t))
  BY <1>1 DEF Stops
<1>2. CASE k # Len(Fields(t)) /\ f.anon
  BY <1>2 DEF Stops
<1>3. CASE k # Len(Fields(t)) /\ ~f.anon
  <2>1. <<f.type, a>> \in J /\ <<f.type, b>> \in K
    BY <1>3 DEF Stops
  <2> QED BY <1>3, <2>1 DEF Single
<1> QED BY <1>1, <1>2, <1>3

LEMMA StructSingle ==
  ASSUME NEW J, NEW K, Single(J, K), NEW t \in DOMAIN Go, IsStructOrStructPtr(t),
         NEW a, NEW b, StructRule(t, a, J), StructRule(t, b, K)
  PROVE  a = b
<1> DEFINE n == Len(Fields(t))
<1>1. n \in Nat /\ \A i \in 1..n : Fields(t)[i].type \in DOMAIN Go
  BY FieldTypes
<1>2. PICK g : \E k \in 0..n : Walks(g, t, k, J) /\ Stops(g, t, k, a, J)
  BY DEF StructRule
<1>3. PICK k \in 0..n : Walks(g, t, k, J) /\ Stops(g, t, k, a, J)
  BY <1>2
<1>4. PICK h : \E m \in 0..n : Walks(h, t, m, K) /\ Stops(h, t, m, b, K)
  BY DEF StructRule
<1>5. PICK m \in 0..n : Walks(h, t, m, K) /\ Stops(h, t, m, b, K)
  BY <1>4
<1> HIDE DEF n
<1>6. k \in Nat /\ m \in Nat /\ k <= n /\ m <= n
  BY <1>1
<1>7. ~(k < m)
  <2> SUFFICES ASSUME k < m PROVE FALSE
    OBVIOUS
  <2>1. k # n /\ k + 1 \in 1..n /\ k + 1 \in 1..m
    BY <1>1, <1>6
  <2>2. \A x, y : ~Passes(t, k + 1, K, x, y)
    BY <1>1, <1>3, <1>6, <2>1, StopsThere DEF n
  <2> QED BY <1>5, <2>1, <2>2 DEF Walks
<1>8. ~(m < k)
  <2> SUFFICES ASSUME m < k PROVE FALSE
    OBVIOUS
  <2>1. m # n /\ m + 1 \in 1..n /\ m + 1 \in 1..k
    BY <1>1, <1>6
  <2>2. \A x, y : ~Passes(t, m + 1, J, x, y)
    BY <1>1, <1>5, <1>6, <2>1, StopsThere DEF n
  <2> QED BY <1>3, <2>1, <2>2 DEF Walks
<1>9. k = m
  BY <1>6, <1>7, <1>8
<1>10. g[k] = h[k]
  <2>1. \A i \in 1..k : Fields(t)[i].type \in DOMAIN Go
    BY <1>1, <1>6
  <2>2. \A i \in 0..k : g[i] = h[i]
    BY <1>3, <1>5, <1>6, <1>9, <2>1, SameWalk
  <2> QED BY <1>6, <2>2
<1>11. k # n => k + 1 \in 1..n
  BY <1>1, <1>6
<1> QED BY <1>1, <1>3, <1>5, <1>9, <1>10, <1>11, SameStop DEF n

LEMMA RuleSingle ==
  ASSUME NEW J, NEW K, Single(J, K), NEW t \in DOMAIN Go,
         NEW a, NEW b, Rule(t, a, J), Rule(t, b, K)
  PROVE  a = b
<1>1. CASE InferCase(t) = "custom"
  <2>1. <<customBaseGoType(t), a>> \in J /\ <<customBaseGoType(t), b>> \in K
    BY <1>1, RuleOfCase
  <2>2. customBaseGoType(t) \in DOMAIN Go
    BY <1>1, BaseAssumption DEF InferCase
  <2> QED BY <2>1, <2>2 DEF Single
<1>2. CASE InferCase(t) = "struct"
  <2>1. StructRule(t, a, J) /\ StructRule(t, b, K)
    BY <1>2, RuleOfCase
  <2>2. IsStructOrStructPtr(t)
    BY <1>2 DEF InferCase
  <2> QED BY <2>1, <2>2, StructSingle
<1>3. CASE InferCase(t) = "structSlice"
  <2>1. PICK c : StructRule(Elem(t), c, J) /\ a = ArrayAnswer(c)
    BY <1>3, RuleOfCase
  <2>2. PICK d : StructRule(Elem(t), d, K) /\ b = ArrayAnswer(d)
    BY <1>3, RuleOfCase
  <2>3. Kind(t) = "slice" /\ IsStructOrStructPtr(Elem(t))
    BY <1>3 DEF InferCase
  <2>4. Elem(t) \in DOMAIN Go
    BY <2>3, GoAssumption DEF Kind, Elem
  <2>5. c = d
    BY <2>1, <2>2, <2>3, <2>4, StructSingle
  <2> QED BY <2>1, <2>2, <2>5
<1>4. CASE InferCase(t) = "direct"
  <2>1. a = inferredDirectly(t) /\ b = inferredDirectly(t)
    BY <1>4, RuleOfCase
  <2> QED BY <2>1
<1>5. CASE InferCase(t) = "protoSlice"
  <2>1. a = inferredProtoSlice(Elem(t)) /\ b = inferredProtoSlice(Elem(t))
    BY <1>5, RuleOfCase
  <2> QED BY <2>1
<1>6. CASE InferCase(t) = "interface"
  <2>1. a = Err("ErrTypeNotInferable") /\ b = Err("ErrTypeNotInferable")
    BY <1>6, RuleOfCase
  <2> QED BY <2>1
<1>7. CASE InferCase(t) = "unsupported"
  <2>1. a = Err("ErrUnsupportedType") /\ b = Err("ErrUnsupportedType")
    BY <1>7, RuleOfCase
  <2> QED BY <2>1
<1> QED BY <1>1, <1>2, <1>3, <1>4, <1>5, <1>6, <1>7, RuleOfCase

LEMMA GroundedSingle ==
  ASSUME NEW K, Grounded(K)
  PROVE  Single(K, K)
<1> DEFINE J == {p \in K : \A t \in DOMAIN Go : \A a, b : p = <<t, a>> /\ <<t, b>> \in K => a = b}
<1>1. J \subseteq K
  OBVIOUS
<1>2. Single(J, K)
  BY DEF Single
<1>3. ASSUME NEW t, NEW a, <<t, a>> \in K, Rule(t, a, J) PROVE <<t, a>> \in J
  <2> SUFFICES ASSUME NEW u \in DOMAIN Go, NEW c, NEW b, <<t, a>> = <<u, c>>, <<u, b>> \in K
               PROVE  c = b
    BY <1>3
  <2>1. t = u /\ a = c
    OBVIOUS
  <2>2. Rule(u, b, K)
    BY Follows
  <2> HIDE DEF J
  <2> QED BY <1>2, <1>3, <2>1, <2>2, RuleSingle
<1> HIDE DEF J
<1>4. ClosedIn(K, J)
  BY <1>3 DEF ClosedIn
<1>5. J = K
  BY <1>1, <1>4 DEF Grounded
<1> QED BY <1>2, <1>5

LEMMA OneAnswer ==
  ASSUME NEW t \in DOMAIN Go, NEW a, NEW b
  PROVE  /\ Inferred(t, a) /\ Inferred(t, b) => a = b
         /\ IsStructOrStructPtr(t) /\ StructInferred(t, a) /\ StructInferred(t, b) => a = b
<1>1. ASSUME Inferred(t, a), Inferred(t, b) PROVE a = b
  <2>1. PICK I : Grounded(I) /\ <<t, a>> \in I
    BY <1>1 DEF Inferred
  <2>2. PICK J : Grounded(J) /\ <<t, b>> \in J
    BY <1>1 DEF Inferred
  <2> DEFINE K == I \cup J
  <2>3. <<t, a>> \in K /\ <<t, b>> \in K
    BY <2>1, <2>2
  <2>4. Grounded(K)
    BY <2>1, <2>2, Together
  <2> HIDE DEF K
  <2> QED BY <2>3, <2>4, GroundedSingle DEF Single
<1>2. ASSUME IsStructOrStructPtr(t), StructInferred(t, a), StructInferred(t, b) PROVE a = b
  <2>1. PICK I : Grounded(I) /\ StructRule(t, a, I)
    BY <1>2 DEF StructInferred
  <2>2. PICK J : Grounded(J) /\ StructRule(t, b, J)
    BY <1>2 DEF StructInferred
  <2> DEFINE K == I \cup J
  <2>3. I \subseteq K /\ J \subseteq K /\ Grounded(K)
    BY <2>1, <2>2, Together
  <2> HIDE DEF K
  <2>4. StructRule(t, a, K) /\ StructRule(t, b, K)
    BY <2>1, <2>2, <2>3, MoreStructRule
  <2> QED BY <1>2, <2>3, <2>4, GroundedSingle, StructSingle
<1> QED BY <1>1, <1>2

(***************************************************************************)
(* The answers for a slice type and for its element type.                  *)
(***************************************************************************)

\* No type is in two rows of the table.
LEMMA OneRow ==
  ASSUME NEW c \in DOMAIN exactScalars, NEW d \in DOMAIN exactScalars,
         NEW t, t \in exactScalars[c], t \in exactScalars[d]
  PROVE  c = d
<1>1. \A x \in {"INTERVAL", "STRING", "BYTES", "INT64"} : \A y \in DOMAIN exactScalars :
        x # y => exactScalars[x] \cap exactScalars[y] = {}
  BY DEF exactScalars
<1>2. \A x \in {"BOOL", "FLOAT64", "FLOAT32", "NUMERIC"} : \A y \in DOMAIN exactScalars :
        x # y => exactScalars[x] \cap exactScalars[y] = {}
  BY DEF exactScalars
<1>3. \A x \in {"PG_NUMERIC", "JSON", "PG_JSONB", "TIMESTAMP", "DATE", "UUID"} :
        \A y \in DOMAIN exactScalars : x # y => exactScalars[x] \cap exactScalars[y] = {}
  BY DEF exactScalars
<1>4. DOMAIN exactScalars \subseteq
        {"INTERVAL", "STRING", "BYTES", "INT64"} \cup {"BOOL", "FLOAT64", "FLOAT32", "NUMERIC"}
        \cup {"PG_NUMERIC", "JSON", "PG_JSONB", "TIMESTAMP", "DATE", "UUID"}
  BY DEF exactScalars
<1> QED BY <1>1, <1>2, <1>3, <1>4

LEMMA Rows ==
  /\ DOMAIN exactElems = DOMAIN exactScalars
  /\ \A c \in DOMAIN exactElems : exactElems[c] \subseteq exactScalars[c]
  /\ DOMAIN exactScalars \cap {"NONE", "STRUCT", "ARRAY", "ENUM", "PROTO"} = {}
  /\ \A c \in DOMAIN exactScalars : {"byte", UntypedNil, NoGoType} \cap exactScalars[c] = {}
<1>1. DOMAIN exactElems = DOMAIN exactScalars
  BY DEF exactElems
<1>2. \A c \in DOMAIN exactElems : exactElems[c] \subseteq exactScalars[c]
  <2> TAKE c \in DOMAIN exactElems
  <2>1. CASE c \notin {"STRING", "UUID"}
    <3>1. exactElems[c] = exactScalars[c]
      BY <1>1, <2>1 DEF exactElems
    <3> QED BY <3>1
  <2>2. CASE c = "STRING"
    <3>1. exactElems[c] = exactScalars[c] \ {"sql.NullString"}
      BY <1>1, <2>2 DEF exactElems
    <3> QED BY <3>1
  <2>3. CASE c = "UUID"
    <3>1. exactElems[c] = {"uuid.UUID", "*uuid.UUID", "spanner.NullUUID"}
      BY <1>1, <2>3 DEF exactElems
    <3>2. {"uuid.UUID", "*uuid.UUID", "spanner.NullUUID"} \subseteq exactScalars["UUID"]
      BY DEF exactScalars
    <3> QED BY <2>3, <3>1, <3>2
  <2> QED BY <2>1, <2>2, <2>3
<1>3. DOMAIN exactScalars \cap {"NONE", "STRUCT", "ARRAY", "ENUM", "PROTO"} = {}
  BY DEF exactScalars
<1>4. \A c \in DOMAIN exactScalars : {"byte", UntypedNil, NoGoType} \cap exactScalars[c] = {}
  <2> SUFFICES ASSUME NEW c \in DOMAIN exactScalars, NEW x \in {"byte", "nil", ""},
                      x \in exactScalars[c]
               PROVE  FALSE
    BY DEF UntypedNil, NoGoType
  <2>1. /\ x \notin exactScalars["INTERVAL"] /\ x \notin exactScalars["STRING"]
       /\ x \notin exactScalars["BYTES"] /\ x \notin exactScalars["INT64"]
    BY DEF exactScalars
  <2>2. /\ x \notin exactScalars["BOOL"] /\ x \notin exactScalars["FLOAT64"]
       /\ x \notin exactScalars["FLOAT32"] /\ x \notin exactScalars["NUMERIC"]
    BY DEF exactScalars
  <2>3. /\ x \notin exactScalars["PG_NUMERIC"] /\ x \notin exactScalars["JSON"]
       /\ x \notin exactScalars["PG_JSONB"]
    BY DEF exactScalars
  <2>4. /\ x \notin exactScalars["TIMESTAMP"] /\ x \notin exactScalars["DATE"]
       /\ x \notin exactScalars["UUID"]
    BY DEF exactScalars
  <2>5. DOMAIN exactScalars \subseteq
          {"INTERVAL", "STRING", "BYTES", "INT64"} \cup {"BOOL", "FLOAT64", "FLOAT32", "NUMERIC"}
          \cup {"PG_NUMERIC", "JSON", "PG_JSONB"} \cup {"TIMESTAMP", "DATE", "UUID"}
    BY DEF exactScalars
  <2> QED BY <2>1, <2>2, <2>3, <2>4, <2>5
<1> QED BY <1>1, <1>2, <1>3, <1>4

\* The row of a type.
LEMMA RowOfListed ==
  ASSUME NEW t
  PROVE  /\ \A c \in DOMAIN exactScalars : t \in exactScalars[c] => RowOf(exactScalars, t) = c
         /\ \A c \in DOMAIN exactElems : t \in exactElems[c] => RowOf(exactElems, t) = c
         /\ RowOf(exactScalars, t) # "NONE" =>
              /\ RowOf(exactScalars, t) \in DOMAIN exactScalars
              /\ t \in exactScalars[RowOf(exactScalars, t)]
         /\ RowOf(exactElems, t) # "NONE" =>
              /\ RowOf(exactElems, t) \in DOMAIN exactElems
              /\ t \in exactElems[RowOf(exactElems, t)]
<1>1. \A T : RowOf(T, t) # "NONE" => RowOf(T, t) \in DOMAIN T /\ t \in T[RowOf(T, t)]
  BY DEF RowOf
<1>2. ASSUME NEW T, NEW c \in DOMAIN T, t \in T[c], \A d \in DOMAIN T : t \in T[d] => c = d
      PROVE  RowOf(T, t) = c
  <2>1. RowOf(T, t) = CHOOSE d \in DOMAIN T : t \in T[d]
    BY <1>2 DEF RowOf
  <2> QED BY <1>2, <2>1
<1>3. ASSUME NEW c \in DOMAIN exactScalars, t \in exactScalars[c] PROVE RowOf(exactScalars, t) = c
  BY <1>2, <1>3, OneRow
<1>4. ASSUME NEW c \in DOMAIN exactElems, t \in exactElems[c] PROVE RowOf(exactElems, t) = c
  <2>1. \A d \in DOMAIN exactElems : t \in exactElems[d] => c = d
    BY <1>4, OneRow, Rows
  <2> QED BY <1>2, <1>4, <2>1
<1> QED BY <1>1, <1>3, <1>4

\* What is inferred for a type of the tables.
LEMMA ExactInferred ==
  ASSUME NEW t \in DOMAIN Go, NEW q, Inferred(t, q)
  PROVE  /\ \A c \in DOMAIN exactScalars : t \in exactScalars[c] => q = OkType(Scalar(c))
         /\ \A c \in DOMAIN exactElems :
              Kind(t) = "slice" /\ Elem(t) \in exactElems[c] /\ t = SliceOf(Elem(t))
                /\ t # "[]byte" /\ q.kind = "ok"
              => q = OkType(ArrayOf(Scalar(c)))
<1>1. ASSUME t # UntypedNil, exactGoType(t) # NoType PROVE q = OkType(exactGoType(t))
  <2>1. inferredDirectly(t) = OkType(exactGoType(t))
    BY <1>1 DEF inferredDirectly
  <2> QED BY <2>1, Answer, InferredAs DEF InferCase
<1>2. ASSUME NEW c \in DOMAIN exactScalars, t \in exactScalars[c] PROVE q = OkType(Scalar(c))
  <2>1. RowOf(exactScalars, t) = c /\ c # "NONE" /\ t # UntypedNil
    BY <1>2, RowOfListed, Rows
  <2>2. exactGoType(t) = Scalar(c)
    BY <2>1 DEF exactGoType
  <2> QED BY <1>1, <2>1, <2>2, Typed
<1>3. ASSUME NEW c \in DOMAIN exactElems, Kind(t) = "slice", Elem(t) \in exactElems[c],
             t = SliceOf(Elem(t)), t # "[]byte", q.kind = "ok"
      PROVE  q = OkType(ArrayOf(Scalar(c)))
  <2>1. RowOf(exactScalars, t) = "NONE"
    BY <1>3, RowOfListed, TableAssumption
  <2>2. ElemRowOf(exactElems, t) = c /\ c # "NONE"
    BY <1>3, RowOfListed, Rows DEF ElemRowOf
  <2>3. exactGoType(t) = ArrayOf(Scalar(c))
    BY <1>3, <2>1, <2>2 DEF exactGoType
  <2>4. t # UntypedNil
    <3>1. ASSUME t = UntypedNil PROVE FALSE
      <4>1. inferredDirectly(t) = Err("ErrUntypedNil")
        BY <3>1 DEF inferredDirectly
      <4>2. q = Err("ErrUntypedNil")
        BY <4>1, Answer, InferredAs DEF InferCase
      <4> QED BY <1>3, <4>2, Answer
    <3> QED BY <3>1
  <2> QED BY <1>1, <2>3, <2>4, Typed
<1>4. \A c \in DOMAIN exactScalars : t \in exactScalars[c] => q = OkType(Scalar(c))
  BY <1>2
<1>5. \A c \in DOMAIN exactElems :
        Kind(t) = "slice" /\ Elem(t) \in exactElems[c] /\ t = SliceOf(Elem(t))
          /\ t # "[]byte" /\ q.kind = "ok"
        => q = OkType(ArrayOf(Scalar(c)))
  BY <1>3
<1> QED BY <1>4, <1>5

\* The ways a type is inferred.
LEMMA WaysInferred ==
  ASSUME NEW t \in DOMAIN Go, NEW q, Inferred(t, q), q.kind = "ok"
  PROVE  \/ \E c \in DOMAIN exactScalars : t \in exactScalars[c] /\ q = OkType(Scalar(c))
         \/ /\ Kind(t) = "slice"
            /\ \E c \in DOMAIN exactElems : /\ Elem(t) \in exactElems[c]
                                           /\ q = OkType(ArrayOf(Scalar(c)))
         \/ /\ Go[t].impl \cap {"Enum", "Message"} # {}
            /\ q = TypeFromDescriptor(IF Implements(t, "Enum") THEN "ENUM" ELSE "PROTO", t)
         \/ customBaseGoType(t) # NoGoType /\ Inferred(customBaseGoType(t), q)
         \/ /\ customBaseGoType(t) = NoGoType /\ IsStructOrStructPtr(t)
            /\ Go[t].impl \cap {"Enum", "Message"} = {}
            /\ StructInferred(t, q)
         \/ /\ customBaseGoType(t) = NoGoType /\ Kind(t) = "slice"
            /\ Go[Elem(t)].impl \cap {"Enum", "Message"} # {}
            /\ q = inferredProtoSlice(Elem(t))
         \/ /\ customBaseGoType(t) = NoGoType /\ Kind(t) = "slice"
            /\ IsStructOrStructPtr(Elem(t))
            /\ \E x : StructInferred(Elem(t), x) /\ q = ArrayAnswer(x)
<1>0. InferCase(t) \in {"direct", "custom", "struct", "protoSlice", "structSlice",
                        "interface", "unsupported"}
  BY RuleOfCase
<1>1. CASE InferCase(t) = "direct"
  <2>1. q = inferredDirectly(t)
    BY <1>1, InferredAs
  <2>2. q # NoResult /\ \A e : q # Err(e)
    BY Answer
  <2>3. CASE exactGoType(t) # NoType
    <3>1. CASE RowOf(exactScalars, t) # "NONE"
      <4> DEFINE c == RowOf(exactScalars, t)
      <4>1. c \in DOMAIN exactScalars /\ t \in exactScalars[c]
        BY <3>1, RowOfListed
      <4> HIDE DEF c
      <4>2. q = OkType(Scalar(c))
        BY <4>1, ExactInferred
      <4> QED BY <4>1, <4>2
    <3>2. CASE RowOf(exactScalars, t) = "NONE"
      <4> DEFINE c == RowOf(exactElems, Elem(t))
      <4>1. /\ ElemRowOf(exactElems, t) # "NONE"
            /\ exactGoType(t) = ArrayOf(Scalar(ElemRowOf(exactElems, t)))
        BY <2>3, <3>2 DEF exactGoType
      <4>2. Kind(t) = "slice" /\ c # "NONE" /\ exactGoType(t) = ArrayOf(Scalar(c))
        BY <4>1 DEF ElemRowOf
      <4>3. c \in DOMAIN exactElems /\ Elem(t) \in exactElems[c]
        BY <4>2, RowOfListed
      <4> HIDE DEF c
      <4>4. q = OkType(exactGoType(t))
        BY <2>1, <2>2, <2>3 DEF inferredDirectly
      <4>5. q = OkType(ArrayOf(Scalar(c)))
        BY <4>2, <4>4
      <4> QED BY <4>2, <4>3, <4>5
    <3> QED BY <3>1, <3>2
  <2>4. CASE exactGoType(t) = NoType
    <3>1. CASE Implements(t, "Enum")
      <4>1. q = TypeFromDescriptor("ENUM", t)
        BY <2>1, <2>2, <2>4, <3>1 DEF inferredDirectly
      <4> QED BY <3>1, <4>1 DEF Implements
    <3>2. CASE ~Implements(t, "Enum")
      <4>1. Implements(t, "Message") /\ q = TypeFromDescriptor("PROTO", t)
        BY <2>1, <2>2, <2>4, <3>2 DEF inferredDirectly
      <4> QED BY <3>2, <4>1 DEF Implements
    <3> QED BY <3>1, <3>2
  <2> QED BY <2>3, <2>4
<1>2. CASE InferCase(t) = "custom"
  BY <1>2, InferredAs DEF InferCase
<1>3. CASE InferCase(t) = "struct"
  <2>1. /\ customBaseGoType(t) = NoGoType /\ IsStructOrStructPtr(t)
        /\ inferredDirectly(t) = NoResult
    BY <1>3 DEF InferCase
  <2>2. Go[t].impl \cap {"Enum", "Message"} = {}
    <3>1. ASSUME NEW code PROVE TypeFromDescriptor(code, t) # NoResult
      <4>1. \/ TypeFromDescriptor(code, t) = Panic
            \/ TypeFromDescriptor(code, t) = OkType(NamedType(code, Go[t].fqn))
        BY DescriptorAnswer
      <4> QED BY <4>1, Answer
    <3>2. ~Implements(t, "Enum") /\ ~Implements(t, "Message")
      BY <2>1, <3>1, Answer DEF inferredDirectly
    <3> QED BY <3>2 DEF Implements
  <2> QED BY <1>3, <2>1, <2>2, InferredAs
<1>4. CASE InferCase(t) = "protoSlice"
  <2>1. /\ customBaseGoType(t) = NoGoType /\ Kind(t) = "slice"
        /\ Go[Elem(t)].impl \cap {"Enum", "Message"} # {}
    BY <1>4 DEF InferCase
  <2> QED BY <1>4, <2>1, InferredAs
<1>5. CASE InferCase(t) = "structSlice"
  <2>1. customBaseGoType(t) = NoGoType /\ Kind(t) = "slice" /\ IsStructOrStructPtr(Elem(t))
    BY <1>5 DEF InferCase
  <2> QED BY <1>5, <2>1, InferredAs
<1>6. CASE InferCase(t) \in {"interface", "unsupported"}
  <2>1. \E e : q = Err(e)
    BY <1>6, InferredAs
  <2> QED BY <2>1, Answer
<1> QED BY <1>0, <1>1, <1>2, <1>3, <1>4, <1>5, <1>6

\* A struct's answer is a STRUCT.
LEMMA StructAnswer ==
  ASSUME NEW t, NEW q, StructInferred(t, q), q.kind = "ok"
  PROVE  \E fs : q = OkType(StructOf(fs))
<1>1. PICK I : StructRule(t, q, I)
  BY DEF StructInferred
<1>2. PICK h : \E k \in 0..Len(Fields(t)) : Stops(h, t, k, q, I)
  BY <1>1 DEF StructRule
<1>3. PICK k \in 0..Len(Fields(t)) : Stops(h, t, k, q, I)
  BY <1>2
<1>4. CASE k = Len(Fields(t))
  BY <1>3, <1>4 DEF Stops
<1>5. CASE k # Len(Fields(t))
  <2>1. q = Err("ErrEmbeddedStructField") \/ q.kind # "ok"
    BY <1>3, <1>5 DEF Stops
  <2> QED BY <2>1, Answer
<1> QED BY <1>4, <1>5

\* Bytes have no type of their own.
LEMMA ByteInferred ==
  ASSUME NEW t \in DOMAIN Go, Kind(t) = "uint8"
  PROVE  /\ customSliceElemBase(t) = "byte"
         /\ \A c \in DOMAIN exactScalars : t \notin exactScalars[c]
         /\ \A q : Inferred(t, q) => q.kind # "ok"
<1>1. {"uint8", "slice", "struct", "ptr", "array"} \cap DOMAIN kindBase = {}
  BY DEF kindBase
<1>2. customSliceElemBase(t) = "byte"
  BY <1>1 DEF customSliceElemBase
<1>3. \A c \in DOMAIN exactScalars : t \notin exactScalars[c]
  <2> SUFFICES ASSUME NEW c \in DOMAIN exactScalars, t \in exactScalars[c] PROVE FALSE
    OBVIOUS
  <2>1. customSliceElemBase(t) \in exactScalars[c] \cup {NoGoType}
    BY TableAssumption
  <2> QED BY <1>2, <2>1, Rows DEF NoGoType
<1>4. customBaseGoType(t) = NoGoType
  BY <1>1 DEF customBaseGoType
<1>5. ~IsStructOrStructPtr(t)
  BY DEF IsStructOrStructPtr
<1>6. Go[t].impl \cap {"Enum", "Message"} = {}
  BY TableAssumption
<1> QED BY <1>2, <1>3, <1>4, <1>5, <1>6, WaysInferred

\* What is inferred for the base of a slice type.
LEMMA BaseInferred ==
  ASSUME NEW s \in DOMAIN Go, Kind(s) = "slice", customBaseGoType(s) # NoGoType,
         NEW p, Inferred(customBaseGoType(s), p), p.kind = "ok"
  PROVE  \/ Kind(Elem(s)) = "uint8"
         \/ \E c \in DOMAIN exactScalars :
              customSliceElemBase(Elem(s)) \in exactScalars[c] /\ p = OkType(ArrayOf(Scalar(c)))
<1> DEFINE e == customSliceElemBase(Elem(s))
           b == customBaseGoType(s)
<1>1. e # NoGoType /\ b = SliceOf(e)
  <2>1. "slice" \notin DOMAIN kindBase
    BY DEF kindBase
  <2> QED BY <2>1 DEF customBaseGoType
<1>2. b \in DOMAIN Go /\ Kind(b) = "slice" /\ e \in DOMAIN Go /\ Elem(b) = e
  <2>1. b \in DOMAIN Go /\ Kind(b) = "slice"
    BY BaseAssumption
  <2>2. Elem(s) \in DOMAIN Go
    BY GoAssumption DEF Kind, Elem
  <2>3. SliceOf(e) \in DOMAIN Go => e \in DOMAIN Go /\ Elem(SliceOf(e)) = e
    BY <2>2, BaseAssumption
  <2> HIDE DEF e, b
  <2> QED BY <1>1, <2>1, <2>3
<1>3. e \in SliceBases \cup {"byte"}
  BY <1>1, ConvertTo
<1>4. CASE e = "byte"
  <2>1. Elem(s) \in DOMAIN Go
    BY GoAssumption DEF Kind, Elem
  <2>2. Kind(Elem(s)) = "uint8"
    BY <1>2, <1>4, <2>1, BaseAssumption
  <2> QED BY <2>2
<1>5. CASE e \in SliceBases
  <2> DEFINE c == RowOf(exactElems, e)
  <2>1. c # "NONE"
    BY <1>5, BasesListed, SameTables
  <2>2. c \in DOMAIN exactElems /\ e \in exactElems[c]
    BY <2>1, RowOfListed
  <2>3. b # "[]byte"
    <3>1. b = "[]byte" => e = "byte"
      BY <1>2, BaseAssumption
    <3>2. e # "byte"
      BY <1>5 DEF SliceBases
    <3> QED BY <3>1, <3>2
  <2> HIDE DEF c, b, e
  <2>4. p = OkType(ArrayOf(Scalar(c)))
    BY <1>1, <1>2, <2>2, <2>3, ExactInferred DEF b
  <2>5. c \in DOMAIN exactScalars /\ e \in exactScalars[c]
    BY <2>2, Rows
  <2> QED BY <2>4, <2>5 DEF e
<1> QED BY <1>3, <1>4, <1>5

\* The bases of a struct type are of one row.
LEMMA StructBase ==
  ASSUME NEW t \in DOMAIN Go, Kind(t) = "struct", customSliceElemBase(t) # NoGoType
  PROVE  /\ customBaseGoType(t) # NoGoType
         /\ \A c, d \in DOMAIN exactScalars :
              customSliceElemBase(t) \in exactScalars[c] /\ customBaseGoType(t) \in exactScalars[d]
                => c = d
<1> DEFINE e == customSliceElemBase(t)
           b == customBaseGoType(t)
<1>1. e = firstConvertible(t, customSliceStructBases) /\ b = firstConvertible(t, customStructBases)
  <2>1. "struct" \notin DOMAIN kindBase
    BY DEF kindBase
  <2> QED BY <2>1 DEF customSliceElemBase, customBaseGoType
<1>2. /\ ConvertibleTo(t, e)
      /\ \E i \in 1..Len(customSliceStructBases) : e = customSliceStructBases[i]
  BY <1>1, FirstConverts
<1>3. b # NoGoType
  <2> SUFFICES ASSUME b = NoGoType PROVE FALSE
    OBVIOUS
  <2> DEFINE hits == {i \in 1..Len(customStructBases) : ConvertibleTo(t, customStructBases[i])}
  <2>1. \A i \in 1..Len(customStructBases) : customStructBases[i] # NoGoType
    <3>1. \A i \in 1..Len(customStructBases) : customStructBases[i] \in Bases
      BY DEF customStructBases, SliceBases, Bases
    <3>2. NoGoType \notin Bases
      BY DEF SliceBases, Bases, NoGoType
    <3> QED BY <3>1, <3>2
  <2>2. hits \subseteq Nat /\ \A i \in hits : i \in 1..Len(customStructBases)
    OBVIOUS
  <2>3. firstConvertible(t, customStructBases) =
          IF hits = {} THEN NoGoType ELSE customStructBases[Min(hits)]
    BY DEF firstConvertible
  <2>4. PICK i \in 1..Len(customStructBases) : e = customStructBases[i]
    <3>1. \A j \in 1..Len(customSliceStructBases) :
            \E i \in 1..Len(customStructBases) : customSliceStructBases[j] = customStructBases[i]
      BY DEF customSliceStructBases, customStructBases
    <3> QED BY <1>2, <3>1
  <2>5. i \in hits
    BY <1>2, <2>4
  <2> HIDE DEF hits
  <2>6. Min(hits) \in hits
    BY <2>2, <2>5, FirstFailure
  <2> QED BY <1>1, <2>1, <2>2, <2>3, <2>5, <2>6
<1>4. ConvertibleTo(t, b)
  BY <1>1, <1>3, FirstConverts
<1> QED BY <1>2, <1>3, <1>4, TableAssumption

\* A type with a base for its elements has a base itself, of the same row.
LEMMA ElemBase ==
  ASSUME NEW t \in DOMAIN Go, NEW c \in DOMAIN exactScalars,
         customSliceElemBase(t) \in exactScalars[c]
  PROVE  customBaseGoType(t) \in DOMAIN Go /\ customBaseGoType(t) \in exactScalars[c]
<1> DEFINE e == customSliceElemBase(t)
           b == customBaseGoType(t)
<1>1. e # NoGoType /\ e # "byte"
  BY Rows
<1>2. e \in SliceBases
  BY <1>1, ConvertTo
<1>3. {"array", "struct", "slice", "uint8"} \cap DOMAIN kindBase = {}
  BY DEF kindBase
<1>4. ASSUME b = e PROVE b # NoGoType /\ b \in exactScalars[c]
  BY <1>1, <1>4
<1>5. b # NoGoType /\ b \in exactScalars[c]
  <2>1. CASE Kind(t) \in DOMAIN kindBase
    <3>1. b = e
      BY <2>1 DEF customSliceElemBase, customBaseGoType
    <3> QED BY <1>4, <3>1
  <2>2. CASE Kind(t) = "array"
    <3>1. b = e
      BY <1>3, <2>2 DEF customSliceElemBase, customBaseGoType
    <3> QED BY <1>4, <3>1
  <2>3. CASE Kind(t) = "struct"
    <3>1. b # NoGoType
      BY <1>1, <2>3, StructBase
    <3>2. b \in Bases
      BY <2>3, <3>1, ConvertTo
    <3> DEFINE d == RowOf(exactScalars, b)
    <3>3. d # "NONE"
      BY <3>2, BasesListed, SameTables
    <3>4. d \in DOMAIN exactScalars /\ b \in exactScalars[d]
      BY <3>3, RowOfListed
    <3> HIDE DEF d
    <3>5. c = d
      BY <1>1, <2>3, <3>4, StructBase
    <3> QED BY <3>1, <3>4, <3>5
  <2>4. CASE Kind(t) = "slice" /\ Kind(Elem(t)) = "uint8"
    <3>1. Elem(t) \in DOMAIN Go
      BY <2>4, GoAssumption DEF Kind, Elem
    <3>2. customSliceElemBase(Elem(t)) = "byte"
      BY <2>4, <3>1, ByteInferred
    <3>3. e = "[]byte"
      BY <1>3, <2>4 DEF customSliceElemBase
    <3>4. b = SliceOf("byte")
      <4>1. "byte" # NoGoType
        BY DEF NoGoType
      <4> QED BY <1>3, <2>4, <3>2, <4>1 DEF customBaseGoType
    <3> QED BY <1>4, <3>3, <3>4, TableAssumption
  <2>5. CASE /\ Kind(t) \notin DOMAIN kindBase /\ Kind(t) \notin {"array", "struct"}
             /\ ~(Kind(t) = "slice" /\ Kind(Elem(t)) = "uint8")
    BY <1>1, <2>5 DEF customSliceElemBase
  <2> QED BY <2>1, <2>2, <2>3, <2>4, <2>5
<1> QED BY <1>5, BaseAssumption

\* It is inferred like them.
LEMMA ElemInferred ==
  ASSUME NEW t \in DOMAIN Go, NEW c \in DOMAIN exactScalars,
         customSliceElemBase(t) \in exactScalars[c],
         NEW q, Inferred(t, q), q.kind = "ok"
  PROVE  q = OkType(Scalar(c))
<1> DEFINE e == customSliceElemBase(t)
           b == customBaseGoType(t)
<1>1. b \in DOMAIN Go /\ b \in exactScalars[c] /\ e # NoGoType /\ b # NoGoType
  BY ElemBase, Rows
<1>2. ASSUME NEW d \in DOMAIN exactScalars, t \in exactScalars[d], q = OkType(Scalar(d))
      PROVE  q = OkType(Scalar(c))
  <2>1. e \in exactScalars[d]
    BY <1>1, <1>2, TableAssumption
  <2>2. c = d
    BY <2>1, OneRow
  <2> QED BY <1>2, <2>2
<1>3. ASSUME Kind(t) = "slice", NEW d \in DOMAIN exactElems, Elem(t) \in exactElems[d]
      PROVE  FALSE
  <2>1. Elem(t) \in DOMAIN Go
    BY <1>3, GoAssumption DEF Kind, Elem
  <2>2. Kind(Elem(t)) = "uint8"
    <3>1. "slice" \notin DOMAIN kindBase
      BY DEF kindBase
    <3> QED BY <1>1, <1>3, <3>1 DEF customSliceElemBase
  <2> QED BY <1>3, <2>1, <2>2, ByteInferred, Rows
<1>4. ASSUME Go[t].impl \cap {"Enum", "Message"} # {} PROVE FALSE
  <2>1. Kind(t) \in {"int32", "ptr", "interface"}
    BY <1>4, TableAssumption
  <2>2. {"int32", "ptr", "interface"} \cap DOMAIN kindBase = {}
    BY DEF kindBase
  <2> QED BY <1>1, <2>1, <2>2 DEF customSliceElemBase
<1>5. ASSUME Inferred(b, q) PROVE q = OkType(Scalar(c))
  BY <1>1, <1>5, ExactInferred
<1> QED BY <1>1, <1>2, <1>3, <1>4, <1>5, WaysInferred

\* What the constructors of types put where.
LEMMA Shapes ==
  /\ \A t : ArrayOf(t).code = "ARRAY" /\ ArrayOf(t).elem = <<t>>
  /\ \A fs : StructOf(fs).code = "STRUCT"
  /\ \A c : Scalar(c).code = c
  /\ \A c, n : NamedType(c, n).code = c
<1>1. ASSUME NEW t PROVE ArrayOf(t).code = "ARRAY" /\ ArrayOf(t).elem = <<t>>
  BY DEF ArrayOf, NoType
<1>2. ASSUME NEW fs PROVE StructOf(fs).code = "STRUCT"
  BY DEF StructOf, NoType
<1>3. ASSUME NEW c PROVE Scalar(c).code = c
  BY DEF Scalar, NoType
<1>4. ASSUME NEW c, NEW n PROVE NamedType(c, n).code = c
  BY DEF NamedType, NoType
<1> QED BY <1>1, <1>2, <1>3, <1>4

\* A struct, or pointer to one, that is inferred alone is inferred like its
\* fields or is no STRUCT.
LEMMA StructElem ==
  ASSUME NEW t \in DOMAIN Go, IsStructOrStructPtr(t), NEW x, StructInferred(t, x),
         NEW q, Inferred(t, q), q.kind = "ok"
  PROVE  q = x \/ q.type.code # "STRUCT"
<1>0. Kind(t) # "slice"
  BY DEF IsStructOrStructPtr
<1>1. ASSUME NEW c \in DOMAIN exactScalars, q = OkType(Scalar(c)) PROVE q.type.code # "STRUCT"
  <2>1. q.type = Scalar(c) /\ c # "STRUCT"
    BY <1>1, Answer, Rows
  <2> QED BY <2>1, Shapes
<1>2. ASSUME q = TypeFromDescriptor(IF Implements(t, "Enum") THEN "ENUM" ELSE "PROTO", t)
      PROVE  q.type.code # "STRUCT"
  <2>1. PICK code \in {"ENUM", "PROTO"} : q = TypeFromDescriptor(code, t)
    BY <1>2
  <2>2. q = OkType(NamedType(code, Go[t].fqn))
    BY <2>1, DescriptorAnswer, Answer, ZenonT(60)
  <2>3. q.type = NamedType(code, Go[t].fqn) /\ code # "STRUCT"
    BY <2>2, Answer
  <2> QED BY <2>3, Shapes
<1>3. ASSUME customBaseGoType(t) # NoGoType, Inferred(customBaseGoType(t), q)
      PROVE  q.type.code # "STRUCT"
  <2> DEFINE b == customBaseGoType(t)
             c == RowOf(exactScalars, b)
  <2>1. b \in Bases /\ b \in DOMAIN Go
    BY <1>0, <1>3, ConvertTo, BaseAssumption
  <2>2. c # "NONE"
    BY <2>1, BasesListed, SameTables
  <2>3. c \in DOMAIN exactScalars /\ b \in exactScalars[c]
    BY <2>2, RowOfListed
  <2> HIDE DEF c
  <2>4. q = OkType(Scalar(c))
    BY <1>3, <2>1, <2>3, ExactInferred
  <2> QED BY <1>1, <2>3, <2>4
<1>4. ASSUME StructInferred(t, q) PROVE q = x
  BY <1>4, OneAnswer
<1> QED BY <1>0, <1>1, <1>2, <1>3, <1>4, WaysInferred

\* A slice type is inferred as an ARRAY of what its element type is, unless
\* that is a struct that is no STRUCT alone.
LEMMA SliceInferred ==
  ASSUME NEW s \in DOMAIN Go, Kind(s) = "slice", NEW p, Inferred(s, p), p.kind = "ok",
         NEW q, Inferred(Elem(s), q), q.kind = "ok"
  PROVE  \/ p.type = ArrayOf(q.type)
         \/ q.type.code # "STRUCT" /\ \E fs : p.type = ArrayOf(StructOf(fs))
<1> DEFINE e == Elem(s)
<1>0. e \in DOMAIN Go /\ Kind(e) # "uint8" /\ Inferred(e, q)
  <2>1. e \in DOMAIN Go
    BY GoAssumption DEF Kind, Elem
  <2> QED BY <2>1, ByteInferred
<1>1. ASSUME NEW c, p = OkType(ArrayOf(Scalar(c))), q = OkType(Scalar(c))
      PROVE  p.type = ArrayOf(q.type)
  <2>1. p.type = ArrayOf(Scalar(c)) /\ q.type = Scalar(c)
    BY <1>1, Answer
  <2> QED BY <2>1
<1>2. ASSUME NEW c \in DOMAIN exactScalars, s \in exactScalars[c] PROVE FALSE
  <2>1. s = "[]byte"
    BY <1>2, TableAssumption
  <2>2. e = "byte"
    BY <2>1, BaseAssumption
  <2>3. Kind(e) = "uint8"
    <3> HIDE DEF e
    <3> QED BY <1>0, <2>2, BaseAssumption
  <2> QED BY <1>0, <2>3
<1>3. ASSUME NEW c \in DOMAIN exactElems, e \in exactElems[c], p = OkType(ArrayOf(Scalar(c)))
      PROVE  p.type = ArrayOf(q.type)
  <2>1. c \in DOMAIN exactScalars /\ e \in exactScalars[c]
    BY <1>3, Rows
  <2>2. q = OkType(Scalar(c))
    BY <1>0, <2>1, ExactInferred
  <2> QED BY <1>1, <1>3, <2>2
<1>4. Go[s].impl \cap {"Enum", "Message"} = {}
  BY TableAssumption
<1>5. ASSUME customBaseGoType(s) # NoGoType, Inferred(customBaseGoType(s), p)
      PROVE  p.type = ArrayOf(q.type)
  <2>1. PICK c \in DOMAIN exactScalars :
          customSliceElemBase(e) \in exactScalars[c] /\ p = OkType(ArrayOf(Scalar(c)))
    BY <1>0, <1>5, BaseInferred
  <2>2. q = OkType(Scalar(c))
    BY <1>0, <2>1, ElemInferred
  <2> QED BY <1>1, <2>1, <2>2
<1>6. ~IsStructOrStructPtr(s)
  BY DEF IsStructOrStructPtr
<1>7. ASSUME Go[e].impl \cap {"Enum", "Message"} # {}, p = inferredProtoSlice(e)
      PROVE  p.type = ArrayOf(q.type)
  <2> DEFINE r == TypeFromDescriptor(IF Implements(e, "Enum") THEN "ENUM" ELSE "PROTO", e)
  <2>1. p = IF r.kind = "ok" THEN OkType(ArrayOf(r.type)) ELSE r
    BY <1>7 DEF inferredProtoSlice
  <2>2. q = r
    <3>1. Kind(e) \in {"int32", "ptr", "interface"}
      BY <1>0, <1>7, TableAssumption
    <3>2. customBaseGoType(e) = NoGoType
      <4>1. {"int32", "ptr", "interface"} \cap DOMAIN kindBase = {}
        BY DEF kindBase
      <4> QED BY <3>1, <4>1 DEF customBaseGoType
    <3>3. \A c \in DOMAIN exactScalars : e \notin exactScalars[c]
      BY <1>0, <1>7, TableAssumption
    <3> HIDE DEF e
    <3> QED BY <1>0, <1>7, <3>1, <3>2, <3>3, WaysInferred
  <2> HIDE DEF r
  <2>3. p = OkType(ArrayOf(q.type))
    BY <2>1, <2>2
  <2> QED BY <2>3, Answer
<1>8. ASSUME IsStructOrStructPtr(e), NEW x, StructInferred(e, x), p = ArrayAnswer(x)
      PROVE  \/ p.type = ArrayOf(q.type)
             \/ q.type.code # "STRUCT" /\ \E fs : p.type = ArrayOf(StructOf(fs))
  <2>1. x.kind = "ok" /\ p = OkType(ArrayOf(x.type))
    BY <1>8 DEF ArrayAnswer
  <2>2. p.type = ArrayOf(x.type)
    BY <2>1, Answer
  <2>3. PICK fs : x = OkType(StructOf(fs))
    BY <1>8, <2>1, StructAnswer
  <2>4. x.type = StructOf(fs)
    BY <2>3, Answer
  <2>5. q = x \/ q.type.code # "STRUCT"
    BY <1>0, <1>8, StructElem
  <2> QED BY <2>2, <2>4, <2>5
<1> HIDE DEF e
<1>9. CASE \E c \in DOMAIN exactElems : e \in exactElems[c] /\ p = OkType(ArrayOf(Scalar(c)))
  BY <1>3, <1>9
<1>10. CASE \E x : StructInferred(e, x) /\ p = ArrayAnswer(x) /\ IsStructOrStructPtr(e)
  BY <1>8, <1>10
<1>11. \/ \E c \in DOMAIN exactScalars : s \in exactScalars[c]
       \/ \E c \in DOMAIN exactElems : e \in exactElems[c] /\ p = OkType(ArrayOf(Scalar(c)))
       \/ customBaseGoType(s) # NoGoType /\ Inferred(customBaseGoType(s), p)
       \/ Go[e].impl \cap {"Enum", "Message"} # {} /\ p = inferredProtoSlice(e)
       \/ \E x : StructInferred(e, x) /\ p = ArrayAnswer(x) /\ IsStructOrStructPtr(e)
  BY <1>4, <1>6, WaysInferred DEF e
<1> QED BY <1>2, <1>5, <1>7, <1>9, <1>10, <1>11

(***************************************************************************)
(* The inductive invariant: what each frame promises to the one below it.  *)
(***************************************************************************)

\* x is the type inferred for the elements of slice type t.
ElemsHave(t, x) == \E a : Inferred(Elem(t), a) /\ a.kind = "ok" /\ x = a.type

\* r is a result of ArrayValueFromSlice for slice type t.
HelperAnswer(t, r) == r.kind = "ok" => \E x : ElemsHave(t, x) /\ r.type = ArrayOf(x)

\* r is a result frame f may return, R being the types with an encoder: one
\* of a type that has one is not encoded by the built-in code.
Delivers(f, r, R) ==
  /\ f.op \in {"typeOf", "arrayType"} => Inferred(f.v.type, r)
  /\ f.op = "structType" => StructInferred(f.v.type, r)
  /\ f.op \in {"struct", "nilStruct"} => AgreesStruct(f.v.type, r)
  /\ f.op \in {"value", "switch", "structArray", "protoArray"} => AgreesAs(f.v.type, r)
  /\ f.op = "value" => f.v.type \notin R
  /\ f.op = "sliceElements" => HelperAnswer(f.v.type, r)
  /\ f.op # "customSlice"

\* At an exported field, not embedded.
AtExported(f) ==
  /\ f.pos \in 1..Len(Fields(f.v.type))
  /\ ~Fields(f.v.type)[f.pos].anon /\ Fields(f.v.type)[f.pos].exported

\* r is a result of the function that frame f called.
Awaits(f, r) ==
  /\ f.op \in {"structType", "struct"} => AtExported(f)
  /\ f.op = "structType" => Inferred(Fields(f.v.type)[f.pos].type, r)
  /\ f.op = "struct" => AgreesAs(Fields(f.v.type)[f.pos].type, r)
  /\ f.op = "arrayType" => StructInferred(Elem(f.v.type), r)
  /\ f.op = "nilStruct" => AgreesStruct(f.v.type, r)
  /\ f.op = "structArray" /\ f.pos = 0 => AgreesStruct(Elem(f.v.type), r)
  /\ f.op = "sliceElements" /\ f.pos = 0 => Inferred(Elem(f.v.type), r)
  /\ f.op # "customSlice"

\* What frame f has found so far.
Knows(f, R) ==
  /\ f.op \in TypeOps => f.v.type \in DOMAIN Go
  /\ f.op = "arrayType" => InferCase(f.v.type) = "structSlice"
  /\ f.op = "structType" =>
       /\ IsStructOrStructPtr(f.v.type) /\ f.pos > 0
       /\ InferredSoFar(f.v.type, f.pos, f.acc)
  /\ f.op = "struct" /\ f.pos > 0 => AgreesSoFar(f.v.type, f.pos, f.acc)
  /\ f.op = "protoArray" => f.pos > 0
  /\ f.op \in {"structArray", "protoArray"} /\ f.pos > 0 =>
       AgreesAs(f.v.type, OkType(ArrayOf(f.typ)))
  /\ f.op = "customSlice" =>
       /\ f.pos = 1 /\ Len(f.v.parts) > 0
       /\ \A i \in 1..Len(f.v.parts) : f.v.parts[i].type \in R
  /\ f.op = "sliceElements" /\ f.pos > 0 => ElemsHave(f.v.type, f.typ)

\* The function the caller called.
Asked == IF pc = "describe" THEN "TypeFromGoType" ELSE call.api

\* r is a result of function p for type t.
Answered(r, p, t) ==
  /\ p = "TypeFromGoType" => Inferred(t, r)
  /\ p = "ValueOf" => AgreesAs(t, r)
  /\ p = "ArrayValueFromSlice" => HelperAnswer(t, r)

\* r is a result the innermost frame of s waits for, or the caller.
Awaited(s, r, p, t) == IF Len(s) = 0 THEN Answered(r, p, t) ELSE Awaits(s[Len(s)], r)

\* Every frame returns what the one below it awaits.
Linked(s, p, t, R) ==
  \A i \in 1..Len(s) :
    /\ Knows(s[i], R)
    /\ \A r : Delivers(s[i], r, R) => IF i = 1 THEN Answered(r, p, t) ELSE Awaits(s[i - 1], r)

\* A call that ended without an answer, or has not ended.
Unanswered(r) == r \in {NoResult, Panic, StackOverflow}

\* The result on its way is one that is awaited.
Expected(s, r, p, t) ==
  r = NoResult \/ (Len(s) = 0 /\ Unanswered(r)) \/ Awaited(s, r, p, t)

\* The walks that TypeAgreement and SliceHelperAgreement compare.
Watched ==
  \/ pc = "describe"
  \/ pc \in {"encode", "returned"} /\ Unhooked /\ call.api \in {"ValueOf", "ArrayValueFromSlice"}

TInv ==
  /\ pc \in {"idle", "options"} => ret = NoResult
  /\ pc \in {"options", "encode", "returned"} => Unanswered(schema) \/ Inferred(call.v.type, schema)
  /\ Watched => /\ Linked(stack, Asked, call.v.type, Hooked)
                /\ Expected(stack, ret, Asked, call.v.type)

(***************************************************************************)
(* Ways to continue.                                                       *)
(***************************************************************************)

LEMMA LinkedPopped ==
  ASSUME NEW s, NEW p, NEW t, NEW R, StackOK(s), s # <<>>, Linked(s, p, t, R)
  PROVE  /\ Linked(SubSeq(s, 1, Len(s) - 1), p, t, R)
         /\ Knows(s[Len(s)], R)
         /\ \A r : Delivers(s[Len(s)], r, R) => Awaited(SubSeq(s, 1, Len(s) - 1), r, p, t)
<1> DEFINE b == SubSeq(s, 1, Len(s) - 1)
           n == Len(s)
<1>1. /\ n \in Nat \ {0} /\ IsSequence(b) /\ Len(b) = n - 1
      /\ \A i \in 1..(n - 1) : b[i] = s[i]
  BY FrontSequence DEF StackOK
<1> HIDE DEF b
<1>2. \A i \in 1..Len(b) : i \in 1..n /\ b[i] = s[i] /\ (i # 1 => b[i - 1] = s[i - 1])
  BY <1>1
<1>3. Linked(b, p, t, R)
  <2>1. \A i \in 1..Len(b) :
          /\ Knows(b[i], R)
          /\ \A r : Delivers(b[i], r, R) => IF i = 1 THEN Answered(r, p, t) ELSE Awaits(b[i - 1], r)
    <3> TAKE i \in 1..Len(b)
    <3>1. /\ Knows(s[i], R)
          /\ \A r : Delivers(s[i], r, R) => IF i = 1 THEN Answered(r, p, t) ELSE Awaits(s[i - 1], r)
      BY <1>2 DEF Linked
    <3>2. CASE i = 1
      BY <1>2, <3>1, <3>2
    <3>3. CASE i # 1
      BY <1>2, <3>1, <3>3
    <3> QED BY <3>2, <3>3
  <2> QED BY <2>1 DEF Linked
<1>4. n \in 1..n
  BY <1>1
<1>5. Knows(s[n], R)
  BY <1>4 DEF Linked
<1>6. ASSUME NEW r, Delivers(s[n], r, R) PROVE Awaited(b, r, p, t)
  <2>1. CASE n = 1
    <3>1. Len(b) = 0 /\ Answered(r, p, t)
      BY <1>1, <1>4, <1>6, <2>1 DEF Linked
    <3> QED BY <3>1 DEF Awaited
  <2>2. CASE n # 1
    <3>1. Len(b) # 0 /\ b[Len(b)] = s[n - 1]
      BY <1>1, <2>2
    <3>2. Awaits(s[n - 1], r)
      BY <1>4, <1>6, <2>2 DEF Linked
    <3> QED BY <3>1, <3>2 DEF Awaited
  <2> QED BY <2>1, <2>2
<1> QED BY <1>3, <1>5, <1>6 DEF b

LEMMA LinkedPushed ==
  ASSUME NEW s, NEW f, NEW p, NEW t, NEW R, IsSequence(s), Linked(s, p, t, R),
         Knows(f, R), \A r : Delivers(f, r, R) => Awaited(s, r, p, t)
  PROVE  Linked(Append(s, f), p, t, R)
<1> DEFINE u == Append(s, f)
           n == Len(s)
<1>1. /\ IsSequence(u) /\ Len(u) = n + 1 /\ n \in Nat
      /\ \A i \in 1..n : u[i] = s[i]
      /\ u[n + 1] = f
  BY AppendSequence, SequenceLen
<1> HIDE DEF u
<1>2. ASSUME NEW i \in 1..n
      PROVE  /\ Knows(u[i], R)
             /\ \A r : Delivers(u[i], r, R) => IF i = 1 THEN Answered(r, p, t) ELSE Awaits(u[i - 1], r)
  <2>1. /\ Knows(s[i], R)
        /\ \A r : Delivers(s[i], r, R) => IF i = 1 THEN Answered(r, p, t) ELSE Awaits(s[i - 1], r)
    BY DEF Linked
  <2>2. u[i] = s[i] /\ (i # 1 => u[i - 1] = s[i - 1])
    BY <1>1
  <2>3. CASE i = 1
    BY <2>1, <2>2, <2>3
  <2>4. CASE i # 1
    BY <2>1, <2>2, <2>4
  <2> QED BY <2>3, <2>4
<1>3. \A r : Delivers(f, r, R) => IF n + 1 = 1 THEN Answered(r, p, t) ELSE Awaits(u[n], r)
  <2>1. CASE n = 0
    <3>1. n + 1 = 1
      BY <2>1
    <3> QED BY <2>1, <3>1 DEF Awaited
  <2>2. CASE n # 0
    <3>1. n + 1 # 1 /\ u[n] = s[n]
      BY <1>1, <2>2
    <3> QED BY <2>2, <3>1 DEF Awaited
  <2> QED BY <2>1, <2>2
<1>4. n + 1 - 1 = n /\ \A i \in 1..Len(u) : i \in 1..n \/ i = n + 1
  BY <1>1
<1>5. \A i \in 1..Len(u) :
        /\ Knows(u[i], R)
        /\ \A r : Delivers(u[i], r, R) => IF i = 1 THEN Answered(r, p, t) ELSE Awaits(u[i - 1], r)
  <2> TAKE i \in 1..Len(u)
  <2>1. CASE i \in 1..n
    BY <1>2, <2>1
  <2>2. CASE i = n + 1
    BY <1>1, <1>3, <1>4, <2>2
  <2> QED BY <1>4, <2>1, <2>2
<1>6. Linked(u, p, t, R)
  BY <1>5 DEF Linked
<1> QED BY <1>6 DEF u

LEMMA NoLinks == \A p, t, R : Linked(<<>>, p, t, R)
  BY EmptySequence DEF Linked

\* Steps inside a call.
LEMMA StillWatched ==
  ASSUME IInv, SInv, TInv, stack # <<>>, Outside, seen'.consulted = seen.consulted,
         Watched => /\ Linked(stack', Asked, call.v.type, Hooked)
                    /\ Expected(stack', ret', Asked, call.v.type)
  PROVE  TInv'
<1>1. /\ pc' = pc /\ call' = call /\ schema' = schema /\ cfg' = cfg /\ Hooked' = Hooked
      /\ pc \in {"describe", "encode"} /\ Asked' = Asked
  BY SameSession DEF Outside, IInv, Asked
<1>2. Watched' => Watched
  BY <1>1 DEF Watched, Unhooked
<1>3. Watched' => /\ Linked(stack', Asked', call'.v.type, Hooked')
                  /\ Expected(stack', ret', Asked', call'.v.type)
  BY <1>1, <1>2
<1> QED BY <1>1, <1>3 DEF TInv

\* What the top frame knows, and has been given.
LEMMA WatchedTop ==
  ASSUME IInv, SInv, TInv, Watched, stack # <<>>
  PROVE  /\ Knows(top, Hooked)
         /\ ret # NoResult => Awaits(top, ret)
         /\ Linked(Below, Asked, call.v.type, Hooked) /\ IsSequence(Below)
         /\ \A r : Delivers(top, r, Hooked) => Awaited(Below, r, Asked, call.v.type)
<1>1. Linked(stack, Asked, call.v.type, Hooked) /\ Expected(stack, ret, Asked, call.v.type)
  BY DEF TInv
<1>2. Len(stack) \in Nat \ {0} /\ IsSequence(Below)
  BY FrontSequence DEF IInv, StackOK, Below
<1>3. ret # NoResult => Awaits(top, ret)
  BY <1>1, <1>2 DEF Expected, Awaited, top
<1>4. /\ Knows(top, Hooked) /\ Linked(Below, Asked, call.v.type, Hooked)
      /\ \A r : Delivers(top, r, Hooked) => Awaited(Below, r, Asked, call.v.type)
  BY <1>1, LinkedPopped DEF IInv, top, Below
<1> QED BY <1>2, <1>3, <1>4

LEMMA TurnsTo ==
  ASSUME IInv, SInv, TInv, stack # <<>>, Outside, seen'.consulted = seen.consulted,
         NEW f, Become(f),
         Watched => /\ Knows(f, Hooked)
                    /\ \A r : Delivers(f, r, Hooked) => Delivers(top, r, Hooked)
  PROVE  TInv'
<1>1. stack' = Append(Below, f) /\ ret' = NoResult
  BY DEF Become
<1>2. ASSUME Watched PROVE Linked(stack', Asked, call.v.type, Hooked)
  BY <1>1, <1>2, WatchedTop, LinkedPushed
<1>3. Expected(stack', ret', Asked, call.v.type)
  BY <1>1 DEF Expected
<1> QED BY <1>2, <1>3, StillWatched

LEMMA Delivered ==
  ASSUME IInv, SInv, TInv, stack # <<>>, Outside, seen'.consulted = seen.consulted,
         NEW r, Return(r), Watched => Delivers(top, r, Hooked)
  PROVE  TInv'
<1>1. stack' = Below /\ ret' = r
  BY DEF Return
<1>2. ASSUME Watched
      PROVE  /\ Linked(stack', Asked, call.v.type, Hooked)
             /\ Expected(stack', ret', Asked, call.v.type)
  BY <1>1, <1>2, WatchedTop DEF Expected
<1> QED BY <1>2, StillWatched

LEMMA Aborted ==
  ASSUME IInv, SInv, TInv, stack # <<>>, Outside, seen'.consulted = seen.consulted,
         NEW r, Unanswered(r), Abort(r)
  PROVE  TInv'
<1>1. stack' = <<>> /\ ret' = r /\ Len(<<>>) = 0
  BY EmptySequence DEF Abort
<1>2. Linked(stack', Asked, call.v.type, Hooked) /\ Expected(stack', ret', Asked, call.v.type)
  BY <1>1, NoLinks DEF Expected
<1> QED BY <1>2, StillWatched

LEMMA CallsOn ==
  ASSUME IInv, SInv, TInv, stack # <<>>, Outside, seen'.consulted = seen.consulted,
         NEW f, NEW callee, CallFrom(f, callee),
         Watched => /\ Knows(f, Hooked) /\ Knows(callee, Hooked)
                    /\ \A r : Delivers(f, r, Hooked) => Delivers(top, r, Hooked)
                    /\ \A r : Delivers(callee, r, Hooked) => Awaits(f, r)
  PROVE  TInv'
<1>1. CASE Len(stack) >= StackLimit
  BY <1>1, Aborted DEF CallFrom, Unanswered
<1>2. CASE ~(Len(stack) >= StackLimit)
  <2>1. stack' = Append(Append(Below, f), callee) /\ ret' = NoResult
    BY <1>2 DEF CallFrom
  <2>2. ASSUME Watched PROVE Linked(stack', Asked, call.v.type, Hooked)
    <3> DEFINE s == Append(Below, f)
    <3>1. Linked(s, Asked, call.v.type, Hooked)
      BY <2>2, WatchedTop, LinkedPushed
    <3>2. IsSequence(s) /\ Len(s) = Len(Below) + 1 /\ s[Len(Below) + 1] = f
          /\ Len(Below) \in Nat
      BY <2>2, WatchedTop, AppendSequence, SequenceLen
    <3> HIDE DEF s
    <3>3. Len(s) # 0 /\ s[Len(s)] = f
      BY <3>2
    <3>4. \A r : Delivers(callee, r, Hooked) => Awaited(s, r, Asked, call.v.type)
      BY <2>2, <3>3 DEF Awaited
    <3>5. Linked(Append(s, callee), Asked, call.v.type, Hooked)
      BY <2>2, <3>1, <3>2, <3>4, LinkedPushed
    <3> QED BY <2>1, <3>5 DEF s
  <2>3. Expected(stack', ret', Asked, call.v.type)
    BY <2>1 DEF Expected
  <2> QED BY <2>2, <2>3, StillWatched
<1> QED BY <1>1, <1>2

(***************************************************************************)
(* TypeFromGoType.                                                         *)
(***************************************************************************)

LEMMA NewFrameOf ==
  ASSUME NEW op, NEW v
  PROVE  Frame(op, v).op = op /\ Frame(op, v).v = v /\ Frame(op, v).pos = 0
  BY DEF Frame

\* A frame that infers the type t.
LEMMA InferringFrame ==
  ASSUME NEW t \in DOMAIN Go, NEW R
  PROVE  /\ Knows(TypeFrame("typeOf", t), R)
         /\ IsStructOrStructPtr(t) => Knows(TypeFrame("structType", t), R)
         /\ \A r : Delivers(TypeFrame("typeOf", t), r, R) => Inferred(t, r)
         /\ \A r : Delivers(TypeFrame("structType", t), r, R) => StructInferred(t, r)
<1> DEFINE f == TypeFrame("typeOf", t)
           g == TypeFrame("structType", t)
<1>1. f.op = "typeOf" /\ f.v.type = t /\ g.op = "structType" /\ g.v.type = t
      /\ g.pos = 1 /\ g.acc = <<>>
  BY NewTypeFrame
<1> HIDE DEF f, g
<1>2. Knows(f, R) /\ \A r : Delivers(f, r, R) => Inferred(t, r)
  BY <1>1 DEF Knows, Delivers
<1>3. \A r : Delivers(g, r, R) => StructInferred(t, r)
  BY <1>1 DEF Delivers
<1>4. ASSUME IsStructOrStructPtr(t) PROVE Knows(g, R)
  <2>1. InferredSoFar(t, 1, g.acc)
    BY <1>1, <1>4, FieldTypes, EmptySequence, InferenceBegins
  <2> QED BY <1>1, <1>4, <2>1 DEF Knows
<1> QED BY <1>2, <1>3, <1>4 DEF f, g

LEMMA InferDirectlyAgrees == ASSUME IInv, SInv, TInv, InferDirectly PROVE TInv'
<1> DEFINE t == top.v.type
<1>1. /\ stack # <<>> /\ Outside /\ seen'.consulted = seen.consulted /\ top.op = "typeOf"
  BY DEF InferDirectly, Infers, At, Running, Internal
<1>2. ASSUME NEW r, Inferred(t, r) PROVE Delivers(top, r, Hooked)
  BY <1>1, <1>2 DEF Delivers
<1>3. ASSUME NEW r, Inferred(t, r), r.kind = "panic" => r = Panic, ReturnOrPanic(r) PROVE TInv'
  <2>1. CASE r.kind = "panic"
    <3>1. Unanswered(r) /\ Abort(r)
      BY <1>3, <2>1 DEF ReturnOrPanic, Unanswered
    <3> QED BY <1>1, <3>1, Aborted
  <2>2. CASE r.kind # "panic"
    <3>1. Return(r)
      BY <1>3, <2>2 DEF ReturnOrPanic
    <3> QED BY <1>1, <1>2, <1>3, <3>1, Delivered
  <2> QED BY <2>1, <2>2
<1>4. CASE Infers("direct") /\ ReturnOrPanic(inferredDirectly(t))
  BY <1>3, <1>4, InferredAs, DirectPanics DEF Infers
<1>5. CASE Infers("protoSlice") /\ ReturnOrPanic(inferredProtoSlice(Elem(t)))
  BY <1>3, <1>5, InferredAs, DirectPanics DEF Infers
<1>6. CASE Infers("interface") /\ Return(Err("ErrTypeNotInferable"))
  BY <1>1, <1>2, <1>6, InferredAs, Delivered DEF Infers
<1>7. CASE Infers("unsupported") /\ Return(Err("ErrUnsupportedType"))
  BY <1>1, <1>2, <1>7, InferredAs, Delivered DEF Infers
<1> QED BY <1>4, <1>5, <1>6, <1>7 DEF InferDirectly

LEMMA InferInsideAgrees == ASSUME IInv, SInv, TInv, InferInside PROVE TInv'
<1> DEFINE t == top.v.type
<1>1. /\ stack # <<>> /\ Outside /\ seen'.consulted = seen.consulted /\ top.op = "typeOf"
  BY DEF InferInside, Infers, At, Running, Internal
<1>2. Watched => t \in DOMAIN Go
  BY <1>1, WatchedTop DEF Knows, TypeOps
<1>3. \A r : Inferred(t, r) => Delivers(top, r, Hooked)
  BY <1>1 DEF Delivers
<1>4. CASE InferCase(t) = "custom" /\ Become(TypeFrame("typeOf", customBaseGoType(t)))
  <2> DEFINE b == customBaseGoType(t)
             f == TypeFrame("typeOf", b)
  <2>1. ASSUME Watched PROVE b \in DOMAIN Go
    <3>1. b # NoGoType
      BY <1>4 DEF InferCase
    <3> QED BY <1>2, <2>1, <3>1, BaseAssumption
  <2>2. \A r : Inferred(b, r) => Inferred(t, r)
    BY <1>4, InferredAs
  <2> HIDE DEF b
  <2>3. Watched => /\ Knows(f, Hooked)
                   /\ \A r : Delivers(f, r, Hooked) => Delivers(top, r, Hooked)
    BY <1>3, <2>1, <2>2, InferringFrame
  <2>4. Become(f)
    BY <1>4 DEF b
  <2> HIDE DEF f
  <2> QED BY <1>1, <2>3, <2>4, TurnsTo
<1>5. CASE InferCase(t) = "struct" /\ Become(TypeFrame("structType", t))
  <2> DEFINE f == TypeFrame("structType", t)
  <2>1. IsStructOrStructPtr(t)
    BY <1>5 DEF InferCase
  <2>2. \A r : StructInferred(t, r) => Inferred(t, r)
    BY <1>5, InferredAs
  <2>3. Watched => /\ Knows(f, Hooked)
                   /\ \A r : Delivers(f, r, Hooked) => Delivers(top, r, Hooked)
    BY <1>2, <1>3, <2>1, <2>2, InferringFrame
  <2>4. Become(f)
    BY <1>5
  <2> HIDE DEF f
  <2> QED BY <1>1, <2>3, <2>4, TurnsTo
<1>6. CASE InferCase(t) = "structSlice"
           /\ CallFrom([top EXCEPT !.op = "arrayType"], TypeFrame("structType", Elem(t)))
  <2> DEFINE f == [top EXCEPT !.op = "arrayType"]
             g == TypeFrame("structType", Elem(t))
  <2>1. f.op = "arrayType" /\ f.v = top.v
    BY <1>1, TopFrame DEF FrameOK
  <2>2. Kind(t) = "slice" /\ IsStructOrStructPtr(Elem(t))
    BY <1>6 DEF InferCase
  <2>3. Watched => Elem(t) \in DOMAIN Go
    BY <1>2, <2>2, GoAssumption DEF Kind, Elem
  <2>4. Watched => Knows(g, Hooked) /\ \A r : Delivers(g, r, Hooked) => StructInferred(Elem(t), r)
    BY <2>2, <2>3, InferringFrame
  <2>5. CallFrom(f, g)
    BY <1>6
  <2> HIDE DEF f, g
  <2>6. Watched => Knows(f, Hooked)
    BY <1>2, <1>6, <2>1 DEF Knows
  <2>7. \A r : Delivers(f, r, Hooked) => Delivers(top, r, Hooked)
    BY <1>3, <2>1 DEF Delivers
  <2>8. \A r : StructInferred(Elem(t), r) => Awaits(f, r)
    BY <2>1 DEF Awaits
  <2> QED BY <1>1, <2>4, <2>5, <2>6, <2>7, <2>8, CallsOn
<1> QED BY <1>4, <1>5, <1>6 DEF InferInside, Infers

LEMMA ArrayTypeDoneAgrees == ASSUME IInv, SInv, TInv, ArrayTypeDone PROVE TInv'
<1> DEFINE r == OkType(ArrayOf(ret.type))
<1>1. /\ stack # <<>> /\ Outside /\ seen'.consulted = seen.consulted /\ top.op = "arrayType"
      /\ ret # NoResult /\ ret.kind = "ok" /\ Return(r)
  BY DEF ArrayTypeDone, Resumed, Internal
<1>2. ASSUME Watched PROVE Delivers(top, r, Hooked)
  <2>1. InferCase(top.v.type) = "structSlice" /\ StructInferred(Elem(top.v.type), ret)
    BY <1>1, <1>2, WatchedTop DEF Knows, Awaits
  <2>2. r = ArrayAnswer(ret)
    BY <1>1 DEF ArrayAnswer
  <2> HIDE DEF r
  <2>3. Inferred(top.v.type, r)
    BY <2>1, <2>2, InferredAs
  <2> QED BY <1>1, <2>3 DEF Delivers
<1> HIDE DEF r
<1> QED BY <1>1, <1>2, Delivered

(***************************************************************************)
(* encodeValue.                                                            *)
(***************************************************************************)

\* A frame that encodes a value, or a struct, from the start.
LEMMA EncodingFrame ==
  ASSUME NEW v, NEW R
  PROVE  /\ Knows(Frame("value", v), R) /\ Knows(StructFrame(v), R)
         /\ \A r : Delivers(Frame("value", v), r, R) => AgreesAs(v.type, r) /\ v.type \notin R
         /\ \A r : Delivers(StructFrame(v), r, R) => AgreesStruct(v.type, r)
<1> DEFINE f == Frame("value", v)
           g == StructFrame(v)
<1>1. f.op = "value" /\ f.v = v /\ g.op = "struct" /\ g.v = v /\ ~(g.pos > 0)
  <2>1. ~(0 > 0)
    OBVIOUS
  <2> QED BY <2>1, NewFrameOf DEF StructFrame
<1> HIDE DEF f, g
<1>2. Knows(f, R) /\ \A r : Delivers(f, r, R) => AgreesAs(v.type, r) /\ v.type \notin R
  BY <1>1 DEF Knows, Delivers, TypeOps
<1>3. Knows(g, R) /\ \A r : Delivers(g, r, R) => AgreesStruct(v.type, r)
  BY <1>1 DEF Knows, Delivers, TypeOps
<1> QED BY <1>2, <1>3 DEF f, g

LEMMA MirrorAgrees ==
  ASSUME IInv, SInv, TInv, At("value"), Internal, Mirror, top.v.type \notin Hooked
  PROVE  TInv'
<1> DEFINE f == [top EXCEPT !.op = "switch"]
<1>1. /\ stack # <<>> /\ Outside /\ seen'.consulted = seen.consulted /\ top.op = "value"
      /\ f.op = "switch" /\ f.v = top.v /\ Become(f)
  BY AtValue DEF Internal, Mirror, FrameOK
<1> HIDE DEF f
<1>2. Knows(f, Hooked) /\ \A r : Delivers(f, r, Hooked) => Delivers(top, r, Hooked)
  BY <1>1 DEF Knows, Delivers, TypeOps
<1> QED BY <1>1, <1>2, TurnsTo

LEMMA SkipEncodersAgrees == ASSUME IInv, SInv, TInv, SkipEncoders PROVE TInv'
  BY MirrorAgrees, HasEncoderMeans DEF SkipEncoders

\* Once an encoder of the caller's has run, the two walks are not compared.
LEMMA ConsultEncoderAgrees == ASSUME IInv, SInv, TInv, ConsultEncoder PROVE TInv'
<1>1. At("value") /\ stack # <<>> /\ Outside /\ pc = "encode"
  BY AtValue DEF ConsultEncoder
<1>2. seen'.consulted # {}
  <2> DEFINE c == <<top.v.type, cfg.encoders[top.v.type], top.from>>
  <2>1. PICK x : seen' = [seen EXCEPT !.consulted = @ \cup {c}, !.fell = @ \cup x]
    BY DEF ConsultEncoder
  <2>2. DOMAIN seen = {"consulted", "fell", "mirrored", "chased"}
    BY DEF SInv, Ran
  <2> HIDE DEF c
  <2>3. seen'.consulted = seen.consulted \cup {c}
    BY <2>1, <2>2
  <2> QED BY <2>3
<1>3. /\ pc' = pc /\ call' = call /\ schema' = schema
  BY <1>1 DEF Outside
<1>4. ~Watched'
  BY <1>1, <1>2, <1>3 DEF Watched, Unhooked
<1> QED BY <1>1, <1>3, <1>4 DEF TInv

LEMMA encodeCustomSliceAgrees == ASSUME IInv, SInv, TInv, encodeCustomSlice PROVE TInv'
<1> DEFINE t  == top.v.type
           et == goType(Elem(t))
           f  == [top EXCEPT !.op = "customSlice", !.typ = et, !.pos = 1]
<1>1. /\ At("value") /\ stack # <<>> /\ Internal /\ FrameOK(top) /\ Shaped(top.v)
      /\ pc = "encode" /\ top.op = "value" /\ Outside /\ seen'.consulted = seen.consulted
  BY AtValue DEF encodeCustomSlice, Internal
<1>2. t \notin Hooked /\ Kind(t) = "slice" /\ Elem(t) \in Hooked
  BY HasEncoderMeans DEF encodeCustomSlice, HookOnElems
<1>3. CASE Len(top.v.parts) = 0 /\ et = NoType
  <2>1. Mirror
    BY <1>3 DEF encodeCustomSlice
  <2> QED BY <1>1, <1>2, <2>1, MirrorAgrees
<1>4. CASE ~(Len(top.v.parts) = 0 /\ et = NoType)
  <2>1. IF top.v.nil THEN Return(NullArray(et)) ELSE Become(f)
    BY <1>4 DEF encodeCustomSlice
  <2>2. ASSUME Watched PROVE Len(top.v.parts) # 0
    <3>1. cfg.goTypes = <<>>
      BY <1>1, <2>2 DEF Watched, Unhooked
    <3>2. et = NoType
      BY <3>1 DEF goType
    <3> QED BY <1>4, <3>2
  <2>3. /\ top.v.nil => Len(top.v.parts) = 0
        /\ \A i \in 1..Len(top.v.parts) : top.v.parts[i].type = Elem(t)
    <3>1. FullSlice(top.v)
      BY <1>1, <1>2 DEF Shaped
    <3>2. Kind(Elem(t)) # "interface"
      BY <1>2 DEF SInv, Session, Hooked
    <3> QED BY <3>1, <3>2 DEF FullSlice, Holds
  <2>4. CASE top.v.nil
    <3>1. Return(NullArray(et))
      BY <2>1, <2>4
    <3> QED BY <1>1, <2>2, <2>3, <2>4, <3>1, Delivered
  <2>5. CASE ~top.v.nil
    <3>1. Become(f)
      BY <2>1, <2>5
    <3> HIDE DEF et
    <3>2. f.op = "customSlice" /\ f.v = top.v /\ f.pos = 1
      BY <1>1 DEF FrameOK
    <3> HIDE DEF f
    <3>3. Len(top.v.parts) \in Nat
      BY <1>1, SequenceLen DEF Shaped
    <3>4. Watched => Len(top.v.parts) > 0
      BY <2>2, <3>3
    <3>5. Watched => Knows(f, Hooked)
      BY <1>2, <2>3, <3>2, <3>4 DEF Knows, TypeOps
    <3>6. \A r : ~Delivers(f, r, Hooked)
      BY <3>2 DEF Delivers
    <3> QED BY <1>1, <3>1, <3>5, <3>6, TurnsTo
  <2> QED BY <2>4, <2>5
<1> QED BY <1>3, <1>4

\* What a case of the switch answers.
LEMMA SwitchAnswers ==
  ASSUME IInv, SInv, TInv, NEW case, Switches(case), Outside, seen'.consulted = seen.consulted,
         NEW r, Return(r), AgreesAs(top.v.type, r)
  PROVE  TInv'
<1>1. stack # <<>> /\ top.op = "switch"
  BY DEF Switches, At, Running
<1>2. Delivers(top, r, Hooked)
  BY <1>1 DEF Delivers
<1> QED BY <1>1, <1>2, Delivered

LEMMA MirroredOutside ==
  ASSUME SInv, NEW ts, Mirrored(ts)
  PROVE  Outside /\ seen'.consulted = seen.consulted
  BY MirroredRecords DEF Recorded

LEMMA EncodeConcreteAgrees == ASSUME IInv, SInv, TInv, EncodeConcrete PROVE TInv'
<1> DEFINE t == top.v.type
           ts == {t} \cup {top.v.parts[i].type : i \in 1..Len(top.v.parts)}
<1>1. \A e : AgreesAs(t, Err(e))
  <2> TAKE e
  <2>1. Err(e).kind # "ok"
    BY Answer, ErrorsApart
  <2> QED BY <2>1, FailureAgrees
<1>2. CASE Switches("nil") /\ Return(Err("ErrUntypedNil")) /\ Internal
  BY <1>1, <1>2, SwitchAnswers DEF Internal
<1>3. CASE Switches("unsupported") /\ Return(Err("ErrUnsupportedType")) /\ Internal
  BY <1>1, <1>3, SwitchAnswers DEF Internal
<1>4. CASE Switches("leaf") /\ Return(encodeLeaf(RowOf(switchScalars, t), top.v)) /\ Mirrored({t})
  <2>1. AgreesAs(t, encodeLeaf(RowOf(switchScalars, t), top.v))
    BY <1>4, ConcreteAgrees DEF Switches
  <2> QED BY <1>4, <2>1, MirroredOutside, SwitchAnswers
<1>5. CASE Switches("slice") /\ Return(encodeSlice(ElemRowOf(switchElems, t), top.v)) /\ Mirrored(ts)
  <2>1. AgreesAs(t, encodeSlice(ElemRowOf(switchElems, t), top.v))
    BY <1>5, ConcreteAgrees DEF Switches
  <2> QED BY <1>5, <2>1, MirroredOutside, SwitchAnswers
<1> QED BY <1>2, <1>3, <1>4, <1>5 DEF EncodeConcrete

LEMMA PassGCVAgrees == ASSUME IInv, SInv, TInv, PassGCV PROVE TInv'
<1>1. Switches("gcv") /\ Outside /\ seen'.consulted = seen.consulted
  BY MirroredOutside DEF PassGCV
<1>2. PICK r : Return(r)
  BY DEF PassGCV
<1>3. AgreesAs(top.v.type, r)
  BY <1>1, AgreesByCase DEF Switches
<1> QED BY <1>1, <1>2, <1>3, SwitchAnswers

\* Another value encoded in place of one that agrees with whatever it gives.
LEMMA ReencodeAgrees ==
  ASSUME IInv, SInv, TInv, NEW case, Switches(case), Mirrored({top.v.type}),
         NEW w, NEW f, f.op = "value", f.v = w, Become(f),
         \A r : AgreesAs(w.type, r) => AgreesAs(top.v.type, r)
  PROVE  TInv'
<1>1. /\ stack # <<>> /\ top.op = "switch" /\ Outside /\ seen'.consulted = seen.consulted
  BY MirroredOutside DEF Switches, At, Running
<1>2. Knows(f, Hooked) /\ \A r : Delivers(f, r, Hooked) => AgreesAs(w.type, r)
  BY DEF Knows, Delivers, TypeOps
<1>3. \A r : AgreesAs(top.v.type, r) => Delivers(top, r, Hooked)
  BY <1>1 DEF Delivers
<1> QED BY <1>1, <1>2, <1>3, TurnsTo

LEMMA ReencodeFrame == \A w : Reencode(w) => \E f : f.op = "value" /\ f.v = w /\ Become(f)
  BY NewFrameOf DEF Reencode

LEMMA UnwrapNullProtoAgrees == ASSUME IInv, SInv, TInv, UnwrapNullProto PROVE TInv'
<1>1. /\ Switches("nullProto") /\ Mirrored({top.v.type}) /\ Outside
      /\ seen'.consulted = seen.consulted
  BY MirroredOutside DEF UnwrapNullProto
<1>2. \A r : AgreesAs(top.v.type, r)
  BY <1>1, AgreesByCase DEF Switches
<1>3. CASE top.v.lit = "null"
  <2>1. Return(Err("ErrInvalidSource"))
    BY <1>3 DEF UnwrapNullProto
  <2> QED BY <1>1, <1>2, <2>1, SwitchAnswers
<1>4. CASE top.v.lit # "null"
  <2>1. Reencode(top.v.parts[1])
    BY <1>4 DEF UnwrapNullProto
  <2> QED BY <1>1, <1>2, <2>1, ReencodeFrame, ReencodeAgrees
<1> QED BY <1>3, <1>4

LEMMA encodeViaEncoderAgrees == ASSUME IInv, SInv, TInv, encodeViaEncoder PROVE TInv'
<1> DEFINE f == [top EXCEPT !.op = "encoder"]
<1>1. /\ Switches("encoder") /\ stack # <<>> /\ top.op = "switch" /\ FrameOK(top)
  BY AtSwitch DEF encodeViaEncoder, Switches, At
<1>2. \A r : AgreesAs(top.v.type, r)
  BY <1>1, AgreesByCase DEF Switches
<1>3. Outside /\ seen'.consulted = seen.consulted
  <2> DEFINE t == {top.v.type}
             again == t \cap Answering
  <2>1. /\ seen' = [seen EXCEPT !.mirrored = @ \cup t, !.chased = @ \cup again]
        /\ DOMAIN seen = {"consulted", "fell", "mirrored", "chased"} /\ Outside
    BY DEF encodeViaEncoder, SInv, Ran
  <2> HIDE DEF t, again
  <2> QED BY <2>1
<1>4. PICK o : IF o.err # "" THEN Return(Err(o.err)) ELSE CallFrom(f, Frame("value", o.v))
  BY DEF encodeViaEncoder
<1>5. CASE o.err # ""
  <2>1. Return(Err(o.err))
    BY <1>4, <1>5
  <2> QED BY <1>1, <1>2, <1>3, <2>1, SwitchAnswers
<1>6. CASE o.err = ""
  <2>1. CallFrom(f, Frame("value", o.v)) /\ Knows(Frame("value", o.v), Hooked)
    BY <1>4, <1>6, EncodingFrame
  <2>2. f.op = "encoder"
    BY <1>1 DEF FrameOK
  <2> HIDE DEF f
  <2>3. Knows(f, Hooked) /\ \A r : Awaits(f, r)
    BY <2>2 DEF Knows, Awaits, TypeOps
  <2>4. \A r : Delivers(top, r, Hooked)
    BY <1>1, <1>2 DEF Delivers
  <2> QED BY <1>1, <1>3, <2>1, <2>3, <2>4, CallsOn
<1> QED BY <1>5, <1>6

\* What an EncodeSpanner method stands for agrees with whatever it gives.
LEMMA EncoderDoneAgrees == ASSUME IInv, SInv, TInv, EncoderDone PROVE TInv'
<1>1. /\ stack # <<>> /\ Outside /\ seen'.consulted = seen.consulted
      /\ top.op = "encoder" /\ Return(ret)
  BY DEF EncoderDone, Resumed, Internal
<1>2. Delivers(top, ret, Hooked)
  BY <1>1 DEF Delivers
<1> QED BY <1>1, <1>2, Delivered

LEMMA EncodeProtoAgrees == ASSUME IInv, SInv, TInv, EncodeProto PROVE TInv'
<1> DEFINE code == IF Implements(top.v.type, "Enum") THEN "ENUM" ELSE "PROTO"
           typ  == NamedType(code, Go[top.v.type].fqn)
<1>1. Switches("proto") /\ Outside /\ seen'.consulted = seen.consulted
  BY MirroredOutside DEF EncodeProto
<1>2. PICK r : /\ Return(r)
               /\ r = IF top.v.nil THEN NullOf(typ)
                      ELSE IF code = "PROTO" /\ top.v.lit = "unmarshalable" THEN Err("ErrMarshal")
                      ELSE Ok(typ, LitWire(top.v.lit))
  BY DEF EncodeProto
<1> HIDE DEF typ
<1>3. r.kind = "ok" => r.type = typ
  <2>1. r = Err("ErrMarshal") \/ \E x : r = Ok(typ, x)
    BY <1>2 DEF NullOf
  <2>2. CASE r = Err("ErrMarshal")
    BY <2>2, ErrResult
  <2>3. CASE \E x : r = Ok(typ, x)
    <3>1. PICK x : r = Ok(typ, x)
      BY <2>3
    <3> QED BY <3>1, OkResult
  <2> QED BY <2>1, <2>2, <2>3
<1>4. AgreesAs(top.v.type, r)
  BY <1>1, <1>3, ProtoAgrees DEF Switches, typ
<1> QED BY <1>1, <1>2, <1>4, SwitchAnswers

LEMMA convertCustomValueAgrees == ASSUME IInv, SInv, TInv, convertCustomValue PROVE TInv'
<1> DEFINE b == customBaseGoType(top.v.type)
           w == Converted(top.v, b)
           f == [Frame("value", w) EXCEPT !.from = top.from]
<1>1. /\ Switches("custom") /\ Mirrored({top.v.type}) /\ Outside
      /\ seen'.consulted = seen.consulted
      /\ stack # <<>> /\ Shaped(top.v) /\ SwitchCase(top.v.type) = "custom"
  BY AtSwitch, MirroredOutside DEF convertCustomValue
<1>2. CASE ConvertPanics(top.v, b)
  <2>1. Abort(Panic)
    BY <1>2 DEF convertCustomValue
  <2> QED BY <1>1, <2>1, Aborted DEF Unanswered
<1>3. CASE ~ConvertPanics(top.v, b)
  <2>1. Become(f)
    BY <1>3 DEF convertCustomValue
  <2>2. w.type = b
    <3>1. DOMAIN top.v = {"type", "nil", "parts", "lit", "styp"}
      BY <1>1 DEF Shaped
    <3> HIDE DEF b
    <3>2. \A x, n, p, l : Value(x, n, p, l).type = x
      BY DEF Value
    <3>3. \A p : [top.v EXCEPT !.type = b, !.parts = p].type = b
      BY <3>1
    <3>4. [top.v EXCEPT !.type = b].type = b
      BY <3>1
    <3>5. CASE Kind(top.v.type) # "slice"
      BY <3>4, <3>5 DEF Converted
    <3>6. CASE Kind(top.v.type) = "slice" /\ ~top.v.nil
      <4>1. PICK p : w = [top.v EXCEPT !.type = b, !.parts = p]
        BY <3>6 DEF Converted
      <4> QED BY <3>3, <4>1
    <3>7. CASE Kind(top.v.type) = "slice" /\ top.v.nil
      <4>1. CASE b = "[]uuid.UUID"
        <5>1. w = Value(b, FALSE, <<>>, "")
          BY <3>7, <4>1 DEF Converted
        <5> HIDE DEF w
        <5> QED BY <3>2, <5>1
      <4>2. CASE b # "[]uuid.UUID"
        <5>1. w = Value(b, TRUE, <<>>, "")
          BY <3>7, <4>2 DEF Converted, NilValue
        <5> HIDE DEF w
        <5> QED BY <3>2, <5>1
      <4> QED BY <4>1, <4>2
    <3> QED BY <3>5, <3>6, <3>7
  <2> HIDE DEF w
  <2>3. f.op = "value" /\ f.v = w
    BY DEF Frame
  <2> HIDE DEF f
  <2>4. \A r : AgreesAs(w.type, r) => AgreesAs(top.v.type, r)
    BY <1>1, <2>2, AgreesByCase
  <2> QED BY <1>1, <2>1, <2>3, <2>4, ReencodeAgrees
<1> QED BY <1>2, <1>3

(***************************************************************************)
(* Structs.                                                                *)
(***************************************************************************)

\* The top frame advanced by one field or element, and with x collected.
LEMMA AdvancedTop ==
  ASSUME NEW f, FrameOK(f)
  PROVE  /\ Advanced(f).op = f.op /\ Advanced(f).v = f.v /\ Advanced(f).pos = f.pos + 1
         /\ Advanced(f).acc = f.acc /\ Advanced(f).typ = f.typ
         /\ \A x : LET g == [Advanced(f) EXCEPT !.acc = Append(@, x)] IN
              /\ g.op = f.op /\ g.v = f.v /\ g.pos = f.pos + 1
              /\ g.acc = Append(f.acc, x) /\ g.typ = f.typ
<1> DEFINE a == Advanced(f)
<1>1. /\ a.op = f.op /\ a.v = f.v /\ a.pos = f.pos + 1 /\ a.acc = f.acc /\ a.typ = f.typ
      /\ DOMAIN a = {"op", "v", "from", "typ", "pos", "acc"}
  BY DEF FrameOK, Advanced
<1> HIDE DEF a
<1>2. ASSUME NEW x
      PROVE  LET g == [a EXCEPT !.acc = Append(@, x)] IN
             /\ g.op = f.op /\ g.v = f.v /\ g.pos = f.pos + 1
             /\ g.acc = Append(f.acc, x) /\ g.typ = f.typ
  BY <1>1
<1> QED BY <1>1, <1>2 DEF a

LEMMA EnterStructAgrees == ASSUME IInv, SInv, TInv, EnterStruct PROVE TInv'
<1> DEFINE f == [top EXCEPT !.op = "struct"]
<1>1. /\ stack # <<>> /\ FrameOK(top) /\ SwitchCase(top.v.type) = "struct" /\ top.op = "switch"
      /\ Outside /\ seen'.consulted = seen.consulted /\ Become(f) /\ top.pos = 0
  BY AtSwitch, MirroredOutside DEF EnterStruct, Switches, At, FrameOK
<1>2. f.op = "struct" /\ f.v = top.v /\ ~(f.pos > 0)
  BY <1>1 DEF FrameOK
<1> HIDE DEF f
<1>3. Knows(f, Hooked)
  BY <1>2 DEF Knows, TypeOps
<1>4. \A r : Delivers(f, r, Hooked) => Delivers(top, r, Hooked)
  BY <1>1, <1>2, AgreesByCase DEF Delivers
<1> QED BY <1>1, <1>3, <1>4, TurnsTo

LEMMA StructBodyAgrees == ASSUME IInv, SInv, TInv, StructBody PROVE TInv'
<1> DEFINE t == top.v.type
<1>1. /\ stack # <<>> /\ Outside /\ seen'.consulted = seen.consulted /\ top.op = "struct"
      /\ top.pos = 0
  BY DEF StructBody, Internal, At, Running
<1>2. /\ FrameOK(top) /\ Shaped(top.v) /\ IsStructOrStructPtr(t) /\ FullStruct(top.v)
      /\ t \in DOMAIN Go
  BY <1>1, TopSound, EncodingTop DEF FrameSound, TypeOps, Shaped
<1>3. CASE top.v.nil
  <2> DEFINE f == [top EXCEPT !.op = "nilStruct"]
             z == Zero(Elem(t))
  <2>1. CallFrom(f, StructFrame(z))
    BY <1>3 DEF StructBody
  <2>2. f.op = "nilStruct" /\ f.v = top.v
    BY <1>2 DEF FrameOK
  <2>3. z.type = Elem(t) /\ Fields(t) = Fields(Elem(t))
    <3>1. Kind(t) = "ptr"
      BY <1>2, <1>3 DEF FullStruct
    <3>2. Elem(t) = StructBehind(t)
      BY <3>1 DEF StructBehind
    <3>3. Elem(t) \in DOMAIN Go /\ Kind(Elem(t)) = "struct" /\ Fields(Elem(t)) = Fields(t)
      BY <1>2, <3>2, FieldTypes
    <3> QED BY <3>3, ZeroWellFormed DEF ZeroOK, Holds
  <2> HIDE DEF f, z
  <2>4. Knows(f, Hooked) /\ Knows(StructFrame(z), Hooked)
    BY <2>2, EncodingFrame DEF Knows, TypeOps
  <2>5. \A r : Delivers(f, r, Hooked) => Delivers(top, r, Hooked)
    BY <1>1, <2>2 DEF Delivers
  <2>6. \A r : Delivers(StructFrame(z), r, Hooked) => AgreesStruct(t, r)
    BY <2>3, EncodingFrame, SameFields
  <2>7. \A r : AgreesStruct(t, r) => Awaits(f, r)
    BY <2>2 DEF Awaits
  <2> QED BY <1>1, <2>1, <2>4, <2>5, <2>6, <2>7, CallsOn
<1>4. CASE ~top.v.nil
  <2> DEFINE f == [top EXCEPT !.pos = 1]
  <2>1. Become(f)
    BY <1>4 DEF StructBody
  <2>2. f.op = "struct" /\ f.v = top.v /\ f.pos = 1 /\ f.acc = top.acc
    BY <1>1, <1>2 DEF FrameOK
  <2> HIDE DEF f
  <2>3. AgreesSoFar(t, 1, f.acc)
    <3>1. IsSequence(f.acc) /\ Len(f.acc) = 0
      BY <1>1, <1>2, <2>2, SequenceLen DEF FrameOK
    <3> QED BY <1>2, <3>1, FieldTypes, AgreementBegins
  <2>4. Knows(f, Hooked)
    BY <2>2, <2>3 DEF Knows, TypeOps
  <2>5. \A r : Delivers(f, r, Hooked) => Delivers(top, r, Hooked)
    BY <1>1, <2>2 DEF Delivers
  <2> QED BY <1>1, <2>1, <2>4, <2>5, TurnsTo
<1> QED BY <1>3, <1>4

\* The top frame, when it walks fields.
LEMMA WatchedFields ==
  ASSUME IInv, SInv, TInv, Watched, stack # <<>>, top.op \in {"struct", "structType"},
         top.pos > 0 \/ ret # NoResult
  PROVE  /\ FrameOK(top) /\ IsSequence(top.acc) /\ top.pos \in Nat \ {0}
         /\ top.v.type \in DOMAIN Go /\ IsStructOrStructPtr(top.v.type)
         /\ Len(Fields(top.v.type)) \in Nat
         /\ \A i \in 1..Len(Fields(top.v.type)) : Fields(top.v.type)[i].type \in DOMAIN Go
         /\ top.op = "struct" => AgreesSoFar(top.v.type, top.pos, top.acc)
         /\ top.op = "structType" => InferredSoFar(top.v.type, top.pos, top.acc)
<1>1. FrameOK(top) /\ FrameSound(top) /\ Knows(top, Hooked)
  BY TopSound, WatchedTop
<1>2. top.pos > 0
  <2>1. top.op = "struct" /\ ret # NoResult => top.pos > 0
    BY SuspendedBelow DEF Suspended
  <2> QED BY <1>1, <2>1 DEF Knows
<1>3. top.v.type \in DOMAIN Go /\ IsStructOrStructPtr(top.v.type)
  <2>1. CASE top.op = "struct"
    BY <1>1, <2>1, EncodingTop DEF FrameSound, TypeOps, Shaped
  <2>2. CASE top.op = "structType"
    BY <1>1, <2>2 DEF Knows, TypeOps
  <2> QED BY <2>1, <2>2
<1>4. IsSequence(top.acc) /\ top.pos \in Nat \ {0}
  BY <1>1, <1>2 DEF FrameOK
<1> QED BY <1>1, <1>2, <1>3, <1>4, FieldTypes DEF Knows

LEMMA StructFieldAgrees == ASSUME IInv, SInv, TInv, StructField PROVE TInv'
<1> DEFINE t == top.v.type
<1>1. /\ stack # <<>> /\ Outside /\ seen'.consulted = seen.consulted
      /\ top.op \in {"struct", "structType"} /\ top.pos > 0 /\ top.pos <= Len(Fields(t))
      /\ field = Fields(t)[top.pos] /\ FrameOK(top)
  BY TopFrame DEF StructField, InFields, Running, Internal, field
<1>2. CASE field.anon
  <2> DEFINE e == Err("ErrEmbeddedStructField")
  <2>1. Return(e)
    BY <1>2 DEF StructField
  <2>2. CASE top.op = "struct"
    <3>1. AgreesStruct(t, e)
      BY ErrResult, ErrorsApart, FailureAgrees
    <3>2. Delivers(top, e, Hooked)
      BY <2>2, <3>1 DEF Delivers
    <3> QED BY <1>1, <2>1, <3>2, Delivered
  <2>3. CASE top.op = "structType"
    <3>1. ASSUME Watched PROVE StructInferred(t, e)
      BY <1>1, <1>2, <2>3, <3>1, WatchedFields, InferenceEnds
    <3>2. Watched => Delivers(top, e, Hooked)
      BY <2>3, <3>1 DEF Delivers
    <3> QED BY <1>1, <2>1, <3>2, Delivered
  <2> QED BY <1>1, <2>2, <2>3
<1>3. CASE ~field.anon /\ ~field.exported
  <2> DEFINE f == Advanced(top)
  <2>1. Become(f)
    BY <1>3 DEF StructField
  <2>2. f.op = top.op /\ f.v = top.v /\ f.pos = top.pos + 1 /\ f.acc = top.acc
    BY <1>1, AdvancedTop
  <2> HIDE DEF f
  <2>3. \A r : Delivers(f, r, Hooked) => Delivers(top, r, Hooked)
    BY <2>2 DEF Delivers
  <2>4. ASSUME Watched PROVE Knows(f, Hooked)
    <3>1. CASE top.op = "struct"
      <4>1. AgreesSoFar(t, top.pos + 1, top.acc)
        BY <1>1, <1>3, <2>4, <3>1, WatchedFields, AgreementSkips
      <4> QED BY <2>2, <3>1, <4>1 DEF Knows, TypeOps
    <3>2. CASE top.op = "structType"
      <4>1. InferredSoFar(t, top.pos + 1, top.acc)
        BY <1>1, <1>3, <2>4, <3>2, WatchedFields, InferenceSkips
      <4>2. /\ t \in DOMAIN Go /\ IsStructOrStructPtr(t) /\ top.pos \in Nat
        BY <1>1, <2>4, WatchedFields
      <4>3. f.pos > 0
        BY <2>2, <4>2
      <4> QED BY <2>2, <3>2, <4>1, <4>2, <4>3 DEF Knows, TypeOps
    <3> QED BY <1>1, <3>1, <3>2
  <2> QED BY <1>1, <2>1, <2>3, <2>4, TurnsTo
<1>4. CASE ~field.anon /\ field.exported
  <2>1. ASSUME Watched
        PROVE  /\ Knows(top, Hooked) /\ AtExported(top) /\ field.type \in DOMAIN Go
               /\ top.pos \in 1..Len(Fields(t))
    <3>1. top.pos \in 1..Len(Fields(t))
      BY <1>1, <2>1, WatchedFields
    <3> QED BY <1>1, <1>4, <2>1, <3>1, WatchedTop, WatchedFields DEF AtExported
  <2>2. CASE top.op = "struct"
    <3> DEFINE w == top.v.parts[top.pos]
               g == Frame("value", w)
    <3>1. CallFrom(top, g)
      BY <1>4, <2>2 DEF StructField
    <3>2. ASSUME Watched PROVE Holds(field.type, w)
      <4>1. FullStruct(top.v) /\ ~top.v.nil
        BY <1>1, <2>2, TopSound DEF FrameSound, TypeOps
      <4> QED BY <1>1, <2>1, <3>2, <4>1 DEF FullStruct
    <3> HIDE DEF w
    <3>3. Knows(g, Hooked) /\ \A r : Delivers(g, r, Hooked) => AgreesAs(w.type, r)
      BY EncodingFrame
    <3> HIDE DEF g
    <3>4. ASSUME Watched, NEW r, Delivers(g, r, Hooked) PROVE Awaits(top, r)
      <4>1. AgreesAs(field.type, r)
        BY <2>1, <3>2, <3>3, <3>4, HeldAgrees
      <4> QED BY <1>1, <2>1, <2>2, <3>4, <4>1 DEF Awaits
    <3> QED BY <1>1, <2>1, <3>1, <3>3, <3>4, CallsOn
  <2>3. CASE top.op = "structType"
    <3> DEFINE g == TypeFrame("typeOf", field.type)
    <3>1. CallFrom(top, g)
      BY <1>4, <2>3 DEF StructField
    <3>2. Watched => Knows(g, Hooked) /\ \A r : Delivers(g, r, Hooked) => Inferred(field.type, r)
      BY <2>1, InferringFrame
    <3> HIDE DEF g
    <3>3. ASSUME Watched, NEW r, Delivers(g, r, Hooked) PROVE Awaits(top, r)
      BY <1>1, <2>1, <2>3, <3>2, <3>3 DEF Awaits
    <3> QED BY <1>1, <2>1, <3>1, <3>2, <3>3, CallsOn
  <2> QED BY <1>1, <2>2, <2>3
<1> QED BY <1>2, <1>3, <1>4

LEMMA StructFieldDoneAgrees == ASSUME IInv, SInv, TInv, StructFieldDone PROVE TInv'
<1> DEFINE t == top.v.type
           x == [name |-> field.name, type |-> ret.type, wire |-> ret.wire]
           f == [Advanced(top) EXCEPT !.acc = Append(@, x)]
<1>1. /\ stack # <<>> /\ Outside /\ seen'.consulted = seen.consulted
      /\ top.op \in {"struct", "structType"} /\ ret # NoResult
      /\ field = Fields(t)[top.pos] /\ FrameOK(top) /\ IsResult(ret)
  BY TopFrame DEF StructFieldDone, Resumed, Internal, field, IInv, ResultOK
<1>2. ASSUME Watched
      PROVE  /\ Awaits(top, ret) /\ AtExported(top)
             /\ top.pos \in Nat \ {0} /\ top.pos <= Len(Fields(t))
             /\ ~field.anon /\ field.exported /\ IsSequence(top.acc)
             /\ t \in DOMAIN Go /\ IsStructOrStructPtr(t) /\ Len(Fields(t)) \in Nat
             /\ top.op = "struct" =>
                  AgreesSoFar(t, top.pos, top.acc) /\ AgreesAs(field.type, ret)
             /\ top.op = "structType" =>
                  InferredSoFar(t, top.pos, top.acc) /\ Inferred(field.type, ret)
  <2>1. Awaits(top, ret) /\ AtExported(top)
    BY <1>1, <1>2, WatchedTop DEF Awaits
  <2>2. /\ top.pos \in Nat \ {0} /\ IsSequence(top.acc)
        /\ t \in DOMAIN Go /\ IsStructOrStructPtr(t) /\ Len(Fields(t)) \in Nat
        /\ top.op = "struct" => AgreesSoFar(t, top.pos, top.acc)
        /\ top.op = "structType" => InferredSoFar(t, top.pos, top.acc)
    BY <1>1, <1>2, WatchedFields
  <2>3. top.pos <= Len(Fields(t)) /\ ~field.anon /\ field.exported
    BY <1>1, <2>1, <2>2 DEF AtExported
  <2> QED BY <1>1, <2>1, <2>2, <2>3 DEF Awaits
<1>3. CASE ret.kind = "ok"
  <2>1. Become(f)
    BY <1>3 DEF StructFieldDone
  <2>2. x.name = field.name /\ x.type = ret.type
    OBVIOUS
  <2> HIDE DEF x
  <2>3. /\ f.op = top.op /\ f.v = top.v /\ f.pos = top.pos + 1 /\ f.acc = Append(top.acc, x)
    BY <1>1, AdvancedTop
  <2> HIDE DEF f
  <2>4. \A r : Delivers(f, r, Hooked) => Delivers(top, r, Hooked)
    BY <2>3 DEF Delivers
  <2>5. ASSUME Watched PROVE Knows(f, Hooked)
    <3>1. CASE top.op = "struct"
      <4>1. AgreesSoFar(t, top.pos + 1, Append(top.acc, x))
        BY <1>1, <1>2, <1>3, <2>2, <2>5, <3>1, AgreementAdds
      <4> QED BY <2>3, <3>1, <4>1 DEF Knows, TypeOps
    <3>2. CASE top.op = "structType"
      <4>1. InferredSoFar(t, top.pos + 1, Append(top.acc, x))
        BY <1>1, <1>2, <1>3, <2>2, <2>5, <3>2, InferenceAdds
      <4>2. f.pos > 0
        BY <1>2, <2>3, <2>5
      <4> QED BY <1>2, <2>3, <2>5, <3>2, <4>1, <4>2 DEF Knows, TypeOps
    <3> QED BY <1>1, <3>1, <3>2
  <2> QED BY <1>1, <2>1, <2>4, <2>5, TurnsTo
<1>4. CASE ret.kind # "ok" /\ top.op = "struct"
  <2> DEFINE w == Wrap(ret, AtField(top.pos - 1))
  <2>1. Return(w)
    BY <1>4 DEF StructFieldDone
  <2>2. w.kind # "ok"
    BY <1>1, <1>4, WrapKind
  <2> HIDE DEF w
  <2>3. AgreesStruct(t, w)
    BY <2>2, FailureAgrees
  <2>4. Delivers(top, w, Hooked)
    BY <1>4, <2>3 DEF Delivers
  <2> QED BY <1>1, <2>1, <2>4, Delivered
<1>5. CASE ret.kind # "ok" /\ top.op = "structType"
  <2>1. Return(ret)
    BY <1>5 DEF StructFieldDone
  <2>2. ASSUME Watched PROVE StructInferred(t, ret)
    BY <1>1, <1>2, <1>5, <2>2, InferenceEnds
  <2>3. Watched => Delivers(top, ret, Hooked)
    BY <1>5, <2>2 DEF Delivers
  <2> QED BY <1>1, <2>1, <2>3, Delivered
<1> QED BY <1>1, <1>3, <1>4, <1>5

LEMMA StructDoneAgrees == ASSUME IInv, SInv, TInv, StructDone PROVE TInv'
<1> DEFINE t == top.v.type
           r == IF top.op = "struct" THEN StructValueOf(top.acc) ELSE OkType(StructTypeOf(top.acc))
<1>1. /\ stack # <<>> /\ Outside /\ seen'.consulted = seen.consulted /\ Return(r)
      /\ top.op \in {"struct", "structType"} /\ top.pos > 0 /\ top.pos > Len(Fields(t))
  BY DEF StructDone, InFields, Running, Internal
<1>2. StructTypeOf(top.acc) = StructOf(Signature(top.acc))
  BY DEF StructTypeOf, Signature
<1>3. CASE top.op = "struct"
  <2>1. r = StructValueOf(top.acc)
    BY <1>3
  <2> HIDE DEF r
  <2>2. r.type = StructOf(Signature(top.acc))
    BY <1>2, <2>1, OkResult DEF StructValueOf
  <2>3. ASSUME Watched PROVE AgreesStruct(t, r)
    BY <1>1, <1>3, <2>2, <2>3, WatchedFields, AgreementEnds
  <2>4. Watched => Delivers(top, r, Hooked)
    BY <1>3, <2>3 DEF Delivers
  <2> QED BY <1>1, <2>4, Delivered
<1>4. CASE top.op = "structType"
  <2>1. r = OkType(StructOf(Signature(top.acc)))
    BY <1>2, <1>4
  <2> HIDE DEF r
  <2>2. ASSUME Watched PROVE StructInferred(t, r)
    BY <1>1, <1>4, <2>1, <2>2, WatchedFields, InferenceEnds
  <2>3. Watched => Delivers(top, r, Hooked)
    BY <1>4, <2>2 DEF Delivers
  <2> QED BY <1>1, <2>3, Delivered
<1> QED BY <1>1, <1>3, <1>4

LEMMA NilStructDoneAgrees == ASSUME IInv, SInv, TInv, NilStructDone PROVE TInv'
<1> DEFINE r == NullOf(ret.type)
<1>1. /\ stack # <<>> /\ Outside /\ seen'.consulted = seen.consulted /\ top.op = "nilStruct"
      /\ ret # NoResult /\ ret.kind = "ok" /\ Return(r)
  BY DEF NilStructDone, Resumed, Internal
<1>2. r.type = ret.type
  BY OkResult DEF NullOf
<1> HIDE DEF r
<1>3. ASSUME Watched PROVE Delivers(top, r, Hooked)
  <2>1. AgreesStruct(top.v.type, ret)
    BY <1>1, <1>3, WatchedTop DEF Awaits
  <2>2. AgreesStruct(top.v.type, r)
    BY <1>1, <1>2, <2>1, AgreesAlike
  <2> QED BY <1>1, <2>2 DEF Delivers
<1> QED BY <1>1, <1>3, Delivered

(***************************************************************************)
(* Arrays of structs and of protobuf values, and the loops.                *)
(***************************************************************************)

LEMMA EnterStructArrayAgrees == ASSUME IInv, SInv, TInv, EnterStructArray PROVE TInv'
<1> DEFINE t == top.v.type
           e == StructBehind(Elem(t))
           z == Zero(e)
           f == [top EXCEPT !.op = "structArray"]
<1>1. /\ stack # <<>> /\ FrameOK(top) /\ Shaped(top.v) /\ SwitchCase(t) = "structArray"
      /\ top.op = "switch" /\ Outside /\ seen'.consulted = seen.consulted
      /\ CallFrom(f, StructFrame(z)) /\ top.pos = 0
  BY AtSwitch, MirroredOutside DEF EnterStructArray, Switches, At, FrameOK
<1>2. f.op = "structArray" /\ f.v = top.v /\ f.pos = 0 /\ ~(0 > 0)
  BY <1>1 DEF FrameOK
<1>3. z.type = e /\ Fields(e) = Fields(Elem(t))
  <2>1. t \in DOMAIN Go /\ Kind(t) = "slice" /\ IsStructOrStructPtr(Elem(t))
    BY <1>1, Cases DEF Shaped
  <2>2. Elem(t) \in DOMAIN Go
    BY <2>1, GoAssumption DEF Kind, Elem
  <2>3. e \in DOMAIN Go /\ Kind(e) = "struct" /\ Fields(e) = Fields(Elem(t))
    BY <2>1, <2>2, FieldTypes
  <2> HIDE DEF e
  <2> QED BY <2>3, ZeroWellFormed DEF ZeroOK, Holds
<1> HIDE DEF e, z, f
<1>4. Knows(f, Hooked) /\ Knows(StructFrame(z), Hooked)
  BY <1>2, EncodingFrame DEF Knows, TypeOps
<1>5. \A r : Delivers(f, r, Hooked) => Delivers(top, r, Hooked)
  BY <1>1, <1>2 DEF Delivers
<1>6. \A r : Delivers(StructFrame(z), r, Hooked) => AgreesStruct(Elem(t), r)
  BY <1>3, EncodingFrame, SameFields
<1>7. \A r : AgreesStruct(Elem(t), r) => Awaits(f, r)
  BY <1>2 DEF Awaits
<1> QED BY <1>1, <1>4, <1>5, <1>6, <1>7, CallsOn

LEMMA EnterProtoArrayAgrees ==
  ASSUME OneDescriptor, IInv, SInv, TInv, EnterProtoArray PROVE TInv'
<1> DEFINE t  == top.v.type
           et == Elem(t)
           d  == TypeFromDescriptor(IF Implements(et, "Message") THEN "PROTO" ELSE "ENUM", et)
           f  == [top EXCEPT !.op = "protoArray", !.typ = d.type, !.pos = 1]
<1>1. /\ stack # <<>> /\ FrameOK(top) /\ t \in DOMAIN Go /\ SwitchCase(t) = "protoArray"
      /\ top.op = "switch" /\ Outside /\ seen'.consulted = seen.consulted
  BY AtSwitch, MirroredOutside DEF EnterProtoArray, Switches, At, Shaped
<1>2. IF d.kind = "panic" THEN Abort(d)
      ELSE IF top.v.nil THEN Return(NullArray(d.type)) ELSE Become(f)
  BY DEF EnterProtoArray
<1>3. d.kind = "panic" => d = Panic
  BY DirectPanics
<1>4. ASSUME NEW r, r.kind = "ok" => r.type = ArrayOf(d.type) PROVE AgreesAs(t, r)
  BY <1>1, <1>4, ProtoArrayAgrees
<1> HIDE DEF d
<1>5. CASE d.kind = "panic"
  <2>1. Abort(d) /\ Unanswered(d)
    BY <1>2, <1>3, <1>5 DEF Unanswered
  <2> QED BY <1>1, <2>1, Aborted
<1>6. CASE d.kind # "panic" /\ top.v.nil
  <2> DEFINE r == NullArray(d.type)
  <2>1. Return(r)
    BY <1>2, <1>6
  <2>2. r.type = ArrayOf(d.type)
    BY ArrayKind
  <2> HIDE DEF r
  <2>3. Delivers(top, r, Hooked)
    BY <1>1, <1>4, <2>2 DEF Delivers
  <2> QED BY <1>1, <2>1, <2>3, Delivered
<1>7. CASE d.kind # "panic" /\ ~top.v.nil
  <2>1. Become(f)
    BY <1>2, <1>7
  <2>2. f.op = "protoArray" /\ f.v = top.v /\ f.typ = d.type /\ f.pos = 1 /\ 1 > 0
    BY <1>1 DEF FrameOK
  <2> HIDE DEF f
  <2>3. AgreesAs(t, OkType(ArrayOf(d.type)))
    BY <1>4, Answer
  <2>4. Knows(f, Hooked)
    BY <2>2, <2>3 DEF Knows, TypeOps
  <2>5. \A r : Delivers(f, r, Hooked) => Delivers(top, r, Hooked)
    BY <1>1, <2>2 DEF Delivers
  <2> QED BY <1>1, <2>1, <2>4, <2>5, TurnsTo
<1> QED BY <1>5, <1>6, <1>7

\* The top frame in a loop: of an array, or of a slice whose elements have an
\* encoder.
LEMMA WatchedLoop ==
  ASSUME IInv, SInv, TInv, Watched, stack # <<>>, top.op \in Loops
  PROVE  /\ top.pos = 0 => top.op \in {"structArray", "sliceElements"}
         /\ top.op = "structArray" => SwitchCase(top.v.type) = "structArray"
         /\ top.op = "structArray" /\ top.pos = 0 /\ ret # NoResult =>
              AgreesStruct(Elem(top.v.type), ret)
         /\ top.op = "sliceElements" /\ top.pos = 0 /\ ret # NoResult =>
              Inferred(Elem(top.v.type), ret)
         /\ top.op \in {"structArray", "protoArray"} /\ top.pos > 0 =>
              AgreesAs(top.v.type, OkType(ArrayOf(top.typ)))
         /\ top.op = "sliceElements" /\ top.pos > 0 => ElemsHave(top.v.type, top.typ)
         /\ ret # NoResult => top.op # "customSlice"
<1>1. Knows(top, Hooked) /\ (ret # NoResult => Awaits(top, ret))
  BY WatchedTop
<1>2. FrameSound(top) /\ top.op \notin TypeOps
  BY TopSound DEF Loops, TypeOps
<1>4. top.pos = 0 => top.op \in {"structArray", "sliceElements"}
  <2>1. ~(0 > 0) /\ 0 # 1
    OBVIOUS
  <2> QED BY <1>1, <2>1 DEF Knows, Loops
<1>5. top.op = "structArray" /\ top.pos = 0 /\ ret # NoResult =>
        AgreesStruct(Elem(top.v.type), ret)
  BY <1>1 DEF Awaits
<1>6. top.op = "sliceElements" /\ top.pos = 0 /\ ret # NoResult => Inferred(Elem(top.v.type), ret)
  BY <1>1 DEF Awaits
<1>7. top.op \in {"structArray", "protoArray"} /\ top.pos > 0 =>
        AgreesAs(top.v.type, OkType(ArrayOf(top.typ)))
  BY <1>1 DEF Knows
<1>8. top.op = "sliceElements" /\ top.pos > 0 => ElemsHave(top.v.type, top.typ)
  BY <1>1 DEF Knows
<1>9. ret # NoResult => top.op # "customSlice"
  BY <1>1 DEF Awaits
<1>10. top.op = "structArray" => SwitchCase(top.v.type) = "structArray"
  BY <1>2 DEF FrameSound
<1> QED BY <1>4, <1>5, <1>6, <1>7, <1>8, <1>9, <1>10

LEMMA ElemTypeDoneAgrees == ASSUME IInv, SInv, TInv, ElemTypeDone PROVE TInv'
<1> DEFINE t == top.v.type
           f == [top EXCEPT !.typ = ret.type, !.pos = 1]
<1>1. /\ stack # <<>> /\ Outside /\ seen'.consulted = seen.consulted /\ FrameOK(top)
      /\ top.op \in Loops /\ top.pos = 0 /\ ret # NoResult /\ ret.kind = "ok"
  BY AtLoop DEF ElemTypeDone, Resumed, Internal
<1>2. ASSUME Watched, top.op = "structArray", NEW r, r.kind = "ok" => r.type = ArrayOf(ret.type)
      PROVE  AgreesAs(t, r)
  <2>1. SwitchCase(t) = "structArray" /\ AgreesStruct(Elem(t), ret)
    BY <1>1, <1>2, WatchedLoop
  <2> QED BY <1>1, <1>2, <2>1, StructArrayAgrees
<1>3. CASE top.op = "structArray" /\ top.v.nil
  <2> DEFINE r == NullArray(ret.type)
  <2>1. Return(r)
    BY <1>3 DEF ElemTypeDone
  <2>2. r.type = ArrayOf(ret.type)
    BY ArrayKind
  <2> HIDE DEF r
  <2>3. Watched => Delivers(top, r, Hooked)
    BY <1>2, <1>3, <2>2 DEF Delivers
  <2> QED BY <1>1, <2>1, <2>3, Delivered
<1>4. CASE ~(top.op = "structArray" /\ top.v.nil)
  <2>1. Become(f)
    BY <1>4 DEF ElemTypeDone
  <2>2. f.op = top.op /\ f.v = top.v /\ f.typ = ret.type /\ f.pos = 1
    BY <1>1 DEF FrameOK
  <2> HIDE DEF f
  <2>3. \A r : Delivers(f, r, Hooked) => Delivers(top, r, Hooked)
    BY <2>2 DEF Delivers
  <2>4. ASSUME Watched PROVE Knows(f, Hooked)
    <3>1. CASE top.op = "structArray"
      <4>1. AgreesAs(t, OkType(ArrayOf(ret.type)))
        BY <1>2, <2>4, <3>1, Answer
      <4> QED BY <2>2, <3>1, <4>1 DEF Knows, TypeOps
    <3>2. CASE top.op = "sliceElements"
      <4>1. ElemsHave(t, ret.type)
        BY <1>1, <2>4, <3>2, WatchedLoop DEF ElemsHave
      <4> QED BY <2>2, <3>2, <4>1 DEF Knows, TypeOps
    <3> QED BY <1>1, <2>4, <3>1, <3>2, WatchedLoop
  <2> QED BY <1>1, <2>1, <2>3, <2>4, TurnsTo
<1> QED BY <1>3, <1>4

LEMMA PassErrorUpAgrees == ASSUME IInv, SInv, TInv, PassErrorUp PROVE TInv'
<1> DEFINE t == top.v.type
<1>1. /\ stack # <<>> /\ Outside /\ seen'.consulted = seen.consulted /\ Return(ret)
      /\ ret # NoResult /\ ret.kind # "ok"
      /\ top.op \in {"nilStruct", "arrayType"} \/ (top.op \in Loops /\ top.pos = 0)
  BY DEF PassErrorUp, Resumed, Internal
<1>2. AgreesAs(t, ret) /\ AgreesStruct(t, ret)
  BY <1>1, FailureAgrees
<1>3. CASE top.op = "nilStruct"
  <2>1. Delivers(top, ret, Hooked)
    BY <1>2, <1>3 DEF Delivers
  <2> QED BY <1>1, <2>1, Delivered
<1>4. CASE top.op = "arrayType"
  <2>1. ASSUME Watched PROVE Inferred(t, ret)
    <3>1. InferCase(t) = "structSlice" /\ StructInferred(Elem(t), ret)
      BY <1>1, <1>4, <2>1, WatchedTop DEF Knows, Awaits
    <3>2. ret = ArrayAnswer(ret)
      BY <1>1 DEF ArrayAnswer
    <3> QED BY <3>1, <3>2, InferredAs
  <2>2. Watched => Delivers(top, ret, Hooked)
    BY <1>4, <2>1 DEF Delivers
  <2> QED BY <1>1, <2>2, Delivered
<1>5. CASE top.op \in Loops /\ top.pos = 0
  <2>1. Watched => top.op \in {"structArray", "sliceElements"}
    BY <1>1, <1>5, WatchedLoop
  <2>2. Watched => Delivers(top, ret, Hooked)
    BY <1>1, <1>2, <2>1 DEF Delivers, HelperAnswer
  <2> QED BY <1>1, <2>2, Delivered
<1> QED BY <1>1, <1>3, <1>4, <1>5

LEMMA ElementAgrees == ASSUME IInv, SInv, TInv, Element PROVE TInv'
<1> DEFINE e == top.v.parts[top.pos]
<1>1. /\ stack # <<>> /\ Outside /\ seen'.consulted = seen.consulted /\ top.op \in Loops
      /\ top.pos > 0 /\ top.pos <= Len(top.v.parts) /\ FrameOK(top) /\ Shaped(top.v)
      /\ CallFrom(top, IF top.op = "structArray" THEN StructFrame(e) ELSE Frame("value", e))
  BY AtLoop, MirroredOutside DEF Element, InElems, Running, Internal
<1>2. top.pos \in 1..Len(top.v.parts) /\ top.pos # 0
  <2>1. top.pos \in Nat /\ Len(top.v.parts) \in Nat
    BY <1>1, SequenceLen DEF FrameOK, Shaped
  <2> QED BY <1>1, <2>1
<1>3. ASSUME Watched PROVE Knows(top, Hooked) /\ (top.op = "customSlice" => e.type \in Hooked)
  <2>1. Knows(top, Hooked)
    BY <1>1, <1>3, WatchedTop
  <2> QED BY <1>2, <2>1 DEF Knows
<1>4. \A r : top.op \in Loops \ {"customSlice"} => Awaits(top, r)
  BY <1>2 DEF Awaits, Loops
<1> HIDE DEF e
<1>5. CASE top.op = "structArray"
  <2>1. CallFrom(top, StructFrame(e))
    BY <1>1, <1>5
  <2>2. Knows(StructFrame(e), Hooked)
    BY EncodingFrame
  <2>3. \A r : Awaits(top, r)
    BY <1>1, <1>4, <1>5
  <2> QED BY <1>1, <1>3, <2>1, <2>2, <2>3, CallsOn
<1>6. CASE top.op # "structArray"
  <2>1. CallFrom(top, Frame("value", e))
    BY <1>1, <1>6
  <2>2. Knows(Frame("value", e), Hooked)
    BY EncodingFrame
  <2>3. ASSUME Watched, NEW r, Delivers(Frame("value", e), r, Hooked) PROVE Awaits(top, r)
    <3>1. e.type \notin Hooked
      BY <2>3, EncodingFrame
    <3> QED BY <1>1, <1>3, <1>4, <2>3, <3>1
  <2> QED BY <1>1, <1>3, <2>1, <2>2, <2>3, CallsOn
<1> QED BY <1>5, <1>6

LEMMA ElementDoneAgrees == ASSUME IInv, SInv, TInv, ElementDone PROVE TInv'
<1> DEFINE t == top.v.type
           x == [type |-> ret.type, wire |-> ret.wire]
           f == [Advanced(top) EXCEPT !.acc = Append(@, x)]
<1>1. /\ stack # <<>> /\ Outside /\ seen'.consulted = seen.consulted /\ top.op \in Loops
      /\ top.pos > 0 /\ ret # NoResult /\ FrameOK(top) /\ IsResult(ret)
  BY AtLoop DEF ElementDone, Resumed, Internal, IInv, ResultOK
<1>2. Watched => top.op \in {"structArray", "protoArray", "sliceElements"}
  BY <1>1, WatchedLoop DEF Loops
<1>3. ASSUME NEW r, r.kind # "ok", Return(r) PROVE TInv'
  <2>1. AgreesAs(t, r)
    BY <1>3, FailureAgrees
  <2>2. Watched => Delivers(top, r, Hooked)
    BY <1>2, <1>3, <2>1 DEF Delivers, HelperAnswer
  <2> QED BY <1>1, <1>3, <2>2, Delivered
<1>4. \A r, i : IsResult(r) /\ r.kind # "ok" => Wrap(r, i).kind # "ok"
  BY WrapKind
<1>5. CASE ret.kind # "ok"
  <2>1. Return(Wrap(ret, AtElem(top.pos - 1)))
    BY <1>5 DEF ElementDone
  <2> QED BY <1>1, <1>3, <1>4, <1>5, <2>1
<1>6. CASE ret.kind = "ok" /\ Mismatch(top, ret)
  <2>1. Return(Wrap(Err("ErrTypeMismatch"), AtElem(top.pos - 1)))
    BY <1>6 DEF ElementDone
  <2>2. IsResult(Err("ErrTypeMismatch")) /\ Err("ErrTypeMismatch").kind # "ok"
    <3>1. Err("ErrTypeMismatch").kind = "err"
      BY Answer
    <3> QED BY <3>1, ErrResult DEF ResultOK
  <2> QED BY <1>3, <1>4, <2>1, <2>2
<1>7. CASE ret.kind = "ok" /\ ~Mismatch(top, ret)
  <2>1. Become(f)
    BY <1>7 DEF ElementDone
  <2> HIDE DEF x
  <2>2. f.op = top.op /\ f.v = top.v /\ f.typ = top.typ /\ f.pos = top.pos + 1
    BY <1>1, AdvancedTop
  <2> HIDE DEF f
  <2>3. \A r : Delivers(f, r, Hooked) => Delivers(top, r, Hooked)
    BY <2>2 DEF Delivers
  <2>4. ASSUME Watched PROVE Knows(f, Hooked)
    <3>1. /\ top.op # "sliceElements" => AgreesAs(t, OkType(ArrayOf(top.typ)))
          /\ top.op = "sliceElements" => ElemsHave(t, top.typ)
      BY <1>1, <1>2, <2>4, WatchedLoop
    <3>2. f.pos > 0
      <4>1. top.pos \in Nat
        BY <1>1 DEF FrameOK
      <4> QED BY <2>2, <4>1
    <3> QED BY <1>2, <2>2, <2>4, <3>1, <3>2 DEF Knows, TypeOps
  <2> QED BY <1>1, <2>1, <2>3, <2>4, TurnsTo
<1> QED BY <1>5, <1>6, <1>7

LEMMA LoopDoneAgrees == ASSUME IInv, SInv, TInv, LoopDone PROVE TInv'
<1> DEFINE t == top.v.type
           r == ArrayValueOf(top.typ, top.acc)
           n == NullArray(top.typ)
           q == OkType(ArrayOf(top.typ))
           w == LoopResult
<1>1. /\ stack # <<>> /\ Outside /\ seen'.consulted = seen.consulted /\ top.op \in Loops
      /\ top.pos > 0 /\ top.pos > Len(top.v.parts) /\ FrameOK(top) /\ Shaped(top.v)
      /\ Return(w) /\ pc = "encode"
  BY AtLoop DEF LoopDone, InElems, Running, Internal
<1>2. Watched => top.op # "customSlice"
  <2> SUFFICES ASSUME Watched PROVE top.op # "customSlice"
    OBVIOUS
  <2>1. Len(top.v.parts) \in Nat
    BY <1>1, SequenceLen DEF Shaped
  <2>2. top.op = "customSlice" => top.pos = 1 /\ Len(top.v.parts) > 0
    BY <1>1, WatchedTop DEF Knows
  <2> QED BY <1>1, <2>1, <2>2
<1>3. /\ q.kind = "ok" /\ (r.kind = "ok" => r.type = q.type)
      /\ n.kind = "ok" /\ n.type = q.type /\ q.type = ArrayOf(top.typ)
  <2>1. q.kind = "ok" /\ q.type = ArrayOf(top.typ)
    BY Answer
  <2>2. r.kind = "ok" => r.type = ArrayOf(top.typ)
    BY ArrayKind
  <2>3. n.kind = "ok" /\ n.type = ArrayOf(top.typ)
    BY ArrayKind
  <2> HIDE DEF q, r, n
  <2> QED BY <2>1, <2>2, <2>3
<1>4. /\ top.op \in {"structArray", "protoArray"} => w = r
      /\ top.op = "sliceElements" /\ call.api # "ValuesFromSlice" => w \in {n, r}
  BY DEF LoopResult
<1> HIDE DEF q, r, n, w
<1>5. CASE Watched /\ top.op \in {"structArray", "protoArray"}
  <2>1. AgreesAs(t, q)
    BY <1>1, <1>5, WatchedLoop DEF q
  <2>2. AgreesAs(t, r)
    BY <1>3, <2>1, AgreesAlike
  <2>3. Delivers(top, w, Hooked)
    BY <1>4, <1>5, <2>2 DEF Delivers
  <2> QED BY <1>1, <2>3, Delivered
<1>6. CASE Watched /\ top.op = "sliceElements"
  <2>1. ElemsHave(t, top.typ)
    BY <1>1, <1>6, WatchedLoop
  <2>2. call.api # "ValuesFromSlice"
    BY <1>1, <1>6 DEF Watched
  <2>3. w.kind = "ok" => w.type = ArrayOf(top.typ)
    BY <1>3, <1>4, <1>6, <2>2
  <2>4. Delivers(top, w, Hooked)
    BY <1>6, <2>1, <2>3 DEF Delivers, HelperAnswer
  <2> QED BY <1>1, <2>4, Delivered
<1>7. CASE ~Watched
  BY <1>1, <1>7, Delivered
<1> QED BY <1>1, <1>2, <1>5, <1>6, <1>7 DEF Loops

LEMMA InferenceAgrees == ASSUME IInv, SInv, TInv, Inference PROVE TInv'
  BY InferDirectlyAgrees, InferInsideAgrees, ArrayTypeDoneAgrees DEF Inference

LEMMA EncodingAgrees == ASSUME OneDescriptor, IInv, SInv, TInv, Encoding PROVE TInv'
<1>1. ASSUME SkipEncoders \/ ConsultEncoder \/ encodeCustomSlice \/ EncodeConcrete
             \/ PassGCV \/ UnwrapNullProto \/ encodeViaEncoder \/ EncoderDone
             \/ EncodeProto \/ convertCustomValue
      PROVE  TInv'
  BY <1>1, SkipEncodersAgrees, ConsultEncoderAgrees, encodeCustomSliceAgrees,
     EncodeConcreteAgrees, PassGCVAgrees, UnwrapNullProtoAgrees, encodeViaEncoderAgrees,
     EncoderDoneAgrees, EncodeProtoAgrees, convertCustomValueAgrees
<1>2. ASSUME EnterStruct \/ StructBody \/ StructField \/ StructFieldDone \/ StructDone
             \/ NilStructDone \/ EnterStructArray \/ EnterProtoArray \/ ElemTypeDone
             \/ PassErrorUp \/ Element \/ ElementDone \/ LoopDone
      PROVE  TInv'
  BY <1>2, EnterStructAgrees, StructBodyAgrees, StructFieldAgrees, StructFieldDoneAgrees,
     StructDoneAgrees, NilStructDoneAgrees, EnterStructArrayAgrees, EnterProtoArrayAgrees,
     ElemTypeDoneAgrees, PassErrorUpAgrees, ElementAgrees, ElementDoneAgrees, LoopDoneAgrees
<1> QED BY <1>1, <1>2 DEF Encoding

(***************************************************************************)
(* The session.                                                            *)
(***************************************************************************)

LEMMA AgreementStarts == Init => TInv
  BY DEF Init, TInv, Watched

\* A stack of one frame.
LEMMA FirstLink ==
  ASSUME NEW f, NEW p, NEW t, NEW R, Knows(f, R), \A r : Delivers(f, r, R) => Answered(r, p, t)
  PROVE  Linked(<<f>>, p, t, R)
<1>1. Len(<<f>>) = 1 /\ <<f>>[1] = f
  BY FirstFrames
<1> DEFINE s == <<f>>
<1>2. Len(s) = 1 /\ s[1] = f
  BY <1>1
<1> HIDE DEF s
<1>3. \A i \in 1..Len(s) : i = 1
  BY <1>2
<1>4. Linked(s, p, t, R)
  BY <1>2, <1>3 DEF Linked
<1> QED BY <1>4 DEF s

LEMMA CallTypeFromGoTypeAgrees ==
  ASSUME GoValues, IInv, SInv, TInv, CallTypeFromGoType PROVE TInv'
<1>1. PICK c \in Calls : call' = c /\ stack' = <<TypeFrame("typeOf", c.v.type)>>
  BY DEF CallTypeFromGoType
<1>2. pc' = "describe" /\ ret' = NoResult
  BY DEF CallTypeFromGoType, TInv
<1>3. c.v.type \in DOMAIN Go
  BY Components DEF GoValues, Shaped
<1> DEFINE t == c.v.type
           f == TypeFrame("typeOf", t)
<1>4. \A R : Knows(f, R) /\ \A r : Delivers(f, r, R) => Inferred(t, r)
  BY <1>3, InferringFrame
<1>5. call'.v.type = t /\ stack' = <<f>>
  BY <1>1
<1> HIDE DEF f, t
<1>6. \A R : Linked(<<f>>, "TypeFromGoType", t, R)
  BY <1>4, FirstLink DEF Answered
<1>7. Linked(stack', Asked', call'.v.type, Hooked')
  BY <1>2, <1>5, <1>6 DEF Asked
<1>8. Expected(stack', ret', Asked', call'.v.type)
  BY <1>2 DEF Expected
<1> QED BY <1>2, <1>7, <1>8 DEF TInv

LEMMA CallEncodeAgrees == ASSUME IInv, SInv, TInv, CallEncode PROVE TInv'
<1>1. /\ pc = "describe" /\ pc' = "options" /\ stack = <<>> /\ call' = call
      /\ schema' = ret /\ ret' = NoResult
  BY DEF CallEncode
<1>2. Expected(stack, ret, Asked, call.v.type)
  BY <1>1 DEF TInv, Watched
<1>3. Unanswered(ret) \/ Inferred(call.v.type, ret)
  BY <1>1, <1>2, EmptySequence DEF Expected, Unanswered, Awaited, Answered, Asked
<1> QED BY <1>1, <1>3 DEF TInv, Watched

LEMMA ApplyOptionAgrees == ASSUME IInv, SInv, TInv, ApplyOption PROVE TInv'
<1>1. /\ pc = "options" /\ stack = <<>> /\ stack' = stack /\ call' = call
      /\ schema' = schema /\ ret = NoResult
  BY DEF ApplyOption, IInv, TInv
<1>2. Unanswered(schema') \/ Inferred(call'.v.type, schema')
  BY <1>1 DEF TInv
<1>3. \/ ret' = Panic /\ pc' = "encode"
      \/ ret' = ret /\ pc' = pc
  BY DEF ApplyOption
<1>4. CASE ret' = Panic /\ pc' = "encode"
  <2>1. /\ \A R : Linked(stack', Asked', call'.v.type, R)
        /\ Expected(stack', ret', Asked', call'.v.type)
    BY <1>1, <1>4, NoLinks, EmptySequence DEF Expected, Unanswered
  <2> QED BY <1>2, <1>4, <2>1 DEF TInv
<1>5. CASE ret' = ret /\ pc' = pc
  BY <1>1, <1>2, <1>5 DEF TInv, Watched
<1> QED BY <1>3, <1>4, <1>5

LEMMA BeginAgrees == ASSUME GoValues, IInv, SInv, TInv, Begin PROVE TInv'
<1> DEFINE t  == call.v.type
           et == Elem(t)
<1>1. /\ pc = "options" /\ pc' = "encode" /\ call' = call /\ schema' = schema /\ cfg' = cfg
      /\ ret' = NoResult
  BY DEF Begin, TInv
<1>2. Unanswered(schema') \/ Inferred(call'.v.type, schema')
  BY <1>1 DEF TInv
<1>3. Expected(stack', ret', Asked', call'.v.type) /\ Asked' = call.api
  BY <1>1 DEF Expected, Asked
<1>4. CASE call.api = "ValueOf"
  <2> DEFINE f == Frame("value", call.v)
  <2>1. stack' = <<f>>
    BY <1>4 DEF Begin
  <2>2. \A R : Knows(f, R) /\ \A r : Delivers(f, r, R) => AgreesAs(t, r)
    BY EncodingFrame
  <2> HIDE DEF f
  <2>3. \A R : Linked(<<f>>, "ValueOf", t, R)
    BY <2>2, FirstLink DEF Answered
  <2>4. Linked(stack', Asked', call'.v.type, Hooked')
    BY <1>1, <1>3, <1>4, <2>1, <2>3
  <2> QED BY <1>1, <1>2, <1>3, <2>4 DEF TInv
<1>5. CASE call.api # "ValueOf" /\ goType(et) # NoType
  <2>1. cfg.goTypes # <<>>
    <3>1. DOMAIN <<>> = {}
      OBVIOUS
    <3> QED BY <1>5, <3>1 DEF goType
  <2>2. ~Watched'
    BY <1>1, <2>1 DEF Watched, Unhooked
  <2> QED BY <1>1, <1>2, <2>2 DEF TInv
<1>6. CASE call.api = "ArrayValueFromSlice" /\ goType(et) = NoType
  <2> DEFINE f == Frame("sliceElements", call.v)
             g == TypeFrame("typeOf", et)
  <2>1. stack' = <<f, g>>
    BY <1>6 DEF Begin
  <2>2. f.op = "sliceElements" /\ f.v = call.v /\ f.pos = 0
    BY NewFrameOf
  <2>3. et \in DOMAIN Go
    <3>1. call \in Calls
      BY <1>1 DEF SInv, Session
    <3>2. t \in DOMAIN Go /\ Kind(t) = "slice"
      BY <1>6, <3>1, CallsAssumption, Components DEF GoValues, Shaped
    <3> HIDE DEF t
    <3> QED BY <3>2, GoAssumption DEF Kind, Elem
  <2>4. \A R : Knows(g, R) /\ \A r : Delivers(g, r, R) => Inferred(et, r)
    BY <2>3, InferringFrame
  <2> HIDE DEF f, g
  <2>5. \A R : Knows(f, R) /\ \A r : Delivers(f, r, R) => HelperAnswer(t, r)
    BY <2>2 DEF Knows, Delivers, TypeOps
  <2>6. \A r : Inferred(et, r) => Awaits(f, r)
    BY <2>2 DEF Awaits
  <2>7. \A R : Linked(<<f>>, "ArrayValueFromSlice", t, R)
    BY <2>5, FirstLink DEF Answered
  <2> DEFINE b == <<f>>
  <2>8. IsSequence(b) /\ Len(b) = 1 /\ b[1] = f
    <3>1. b = Append(<<>>, f)
      OBVIOUS
    <3>2. Len(b) = 1 /\ b[1] = f
      BY FirstFrames
    <3> HIDE DEF b
    <3>3. IsSequence(b)
      BY <3>1, EmptySequence, AppendSequence
    <3> QED BY <3>2, <3>3
  <2>9. stack' = Append(b, g)
    BY <2>1
  <2>10. \A R : Linked(b, "ArrayValueFromSlice", t, R)
    BY <2>7
  <2> HIDE DEF b, t, et
  <2>11. \A r, R : Delivers(g, r, R) => Awaited(b, r, "ArrayValueFromSlice", t)
    BY <2>4, <2>6, <2>8 DEF Awaited
  <2>12. \A R : Linked(Append(b, g), "ArrayValueFromSlice", t, R)
    BY <2>4, <2>8, <2>10, <2>11, LinkedPushed
  <2>13. Linked(stack', Asked', call'.v.type, Hooked')
    BY <1>1, <1>3, <1>6, <2>9, <2>12 DEF t
  <2> QED BY <1>1, <1>2, <1>3, <2>13 DEF TInv
<1>7. CASE call.api \notin {"ValueOf", "ArrayValueFromSlice"}
  BY <1>1, <1>2, <1>7 DEF TInv, Watched
<1> QED BY <1>4, <1>5, <1>6, <1>7

LEMMA FinishAgrees == ASSUME IInv, SInv, TInv, Finish PROVE TInv'
<1>1. /\ pc = "encode" /\ pc' = "returned" /\ stack = <<>> /\ stack' = stack /\ cfg' = cfg
      /\ call' = call /\ seen' = seen /\ schema' = schema /\ ret' = ret
  BY DEF Finish
<1>2. Watched' => Watched
  BY <1>1 DEF Watched, Unhooked
<1>3. Watched => Expected(stack', ret', Asked', call'.v.type)
  BY <1>1 DEF TInv, Expected, Awaited, Answered, Asked
<1>4. \A R : Linked(stack', Asked', call'.v.type, R)
  BY <1>1, NoLinks
<1> QED BY <1>1, <1>2, <1>3, <1>4 DEF TInv

LEMMA ForgetAgrees == ASSUME IInv, SInv, TInv, Forget PROVE TInv'
  BY DEF Forget, TInv, Watched

LEMMA StepAgrees ==
  ASSUME GoValues, OneDescriptor
  PROVE  IInv /\ SInv /\ TInv /\ [Next]_vars => TInv'
<1> SUFFICES ASSUME IInv, SInv, TInv, [Next]_vars PROVE TInv'
  OBVIOUS
<1>1. CASE Caller
  BY <1>1, CallTypeFromGoTypeAgrees, CallEncodeAgrees, ForgetAgrees DEF Caller
<1>2. CASE Options
  BY <1>2, ApplyOptionAgrees, BeginAgrees, FinishAgrees DEF Options
<1>3. CASE Inference
  BY <1>3, InferenceAgrees
<1>4. CASE Encoding
  BY <1>4, EncodingAgrees
<1>5. CASE UNCHANGED vars
  BY <1>5 DEF vars, TInv, Watched, Unhooked, Hooked, Asked
<1> QED BY <1>1, <1>2, <1>3, <1>4, <1>5 DEF Next, Package

LEMMA AgreementInvariance ==
  ASSUME GoValues, OneDescriptor
  PROVE  Spec => []TInv
<1>1. Init => TInv
  BY AgreementStarts
<1>2. IInv /\ SInv /\ TInv /\ [Next]_vars => TInv'
  BY StepAgrees
<1>3. Spec => []IInv
  BY Invariance
<1>4. Spec => []SInv
  BY SessionInvariance
<1> QED BY <1>1, <1>2, <1>3, <1>4, PTL DEF Spec

\* TypeFromGoType returns "the type that ValueOf produces for values of the
\* given Go type" (typeof.go): whatever the universe of Go types, the value
\* and the options, as long as no encoder of the caller's ran and no type was
\* registered, a value that ValueOf encodes gets the type inferred for its Go
\* type, at any depth of structs, slices and conversions, NULL or empty as it
\* may be; and of a type refused as unsupported it encodes no value.
THEOREM TypesAgree == ASSUME GoValues, OneDescriptor PROVE Spec => []TypeAgreement
<1>1. IInv /\ TInv => TypeAgreement
  <2> SUFFICES ASSUME IInv, TInv, Returned, call.api = "ValueOf", Unhooked, ret.kind = "ok"
               PROVE  /\ schema.kind = "ok" => ret.type = schema.type
                      /\ schema.err \notin Refusals
    BY DEF TypeAgreement, Plain, Refusals
  <2>1. Watched /\ stack = <<>> /\ pc = "returned"
    BY DEF Returned, Watched, IInv
  <2>2. Expected(stack, ret, Asked, call.v.type)
    BY <2>1 DEF TInv
  <2>3. NoResult.kind # "ok" /\ Panic.kind # "ok" /\ StackOverflow.kind # "ok"
    BY DEF NoResult, Panic, StackOverflow
  <2>4. AgreesAs(call.v.type, ret)
    BY <2>1, <2>2, <2>3, EmptySequence DEF Expected, Unanswered, Awaited, Answered,
     Asked
  <2>5. CASE Unanswered(schema)
    <3>1. /\ NoResult.err \notin Refusals /\ Panic.err \notin Refusals
          /\ StackOverflow.err \notin Refusals
      BY DEF NoResult, Panic, StackOverflow, Refusals
    <3> QED BY <2>3, <2>5, <3>1 DEF Unanswered
  <2>6. CASE Inferred(call.v.type, schema)
    BY <2>4, <2>6 DEF AgreesAs, Agree
  <2> QED BY <2>1, <2>5, <2>6 DEF TInv
<1>2. Spec => []IInv
  BY Invariance
<1>3. Spec => []TInv
  BY AgreementInvariance
<1> QED BY <1>1, <1>2, <1>3, PTL

\* ArrayValueFromSlice gives the ARRAY type that TypeFromGoType gives the
\* slice type, for every universe, value and options, as long as no encoder of
\* the caller's ran and no type was registered; only where TypeFromGoType
\* makes an ARRAY of STRUCT of a slice whose elements alone are no STRUCT
\* ([]sql.NullString) does it make an ARRAY of what the elements are.
THEOREM SliceHelpersAgree == ASSUME GoValues, OneDescriptor PROVE Spec => []SliceHelperAgreement
<1>1. IInv /\ SInv /\ TInv => SliceHelperAgreement
  <2> SUFFICES ASSUME IInv, SInv, TInv, Returned, call.api = "ArrayValueFromSlice", Unhooked,
                      schema.kind = "ok", ret.kind = "ok"
               PROVE  \/ ret.type = schema.type
                      \/ /\ schema.type.elem[1].code = "STRUCT"
                         /\ ret.type.code = "ARRAY" /\ ret.type.elem[1].code # "STRUCT"
    BY DEF SliceHelperAgreement, Plain
  <2> DEFINE t == call.v.type
  <2>1. Watched /\ stack = <<>> /\ pc = "returned" /\ Asked = "ArrayValueFromSlice"
    BY DEF Returned, Watched, IInv, Asked
  <2>2. Expected(stack, ret, Asked, t)
    BY <2>1 DEF TInv
  <2>3. NoResult.kind # "ok" /\ Panic.kind # "ok" /\ StackOverflow.kind # "ok"
    BY DEF NoResult, Panic, StackOverflow
  <2>4. HelperAnswer(t, ret)
    BY <2>1, <2>2, <2>3, EmptySequence DEF Expected, Unanswered, Awaited, Answered
  <2>5. PICK a : Inferred(Elem(t), a) /\ a.kind = "ok" /\ ret.type = ArrayOf(a.type)
    BY <2>4 DEF HelperAnswer, ElemsHave
  <2>6. Inferred(t, schema)
    BY <2>1, <2>3 DEF TInv, Unanswered
  <2>7. t \in DOMAIN Go /\ Kind(t) = "slice"
    <3>1. call \in Calls
      BY <2>1 DEF SInv, Session
    <3> QED BY <3>1, CallsAssumption, Components DEF GoValues, Shaped
  <2> HIDE DEF t
  <2>8. \/ schema.type = ArrayOf(a.type)
        \/ a.type.code # "STRUCT" /\ \E fs : schema.type = ArrayOf(StructOf(fs))
    BY <2>5, <2>6, <2>7, SliceInferred
  <2>9. \A x : ArrayOf(x).code = "ARRAY" /\ ArrayOf(x).elem[1] = x
    <3> TAKE x
    <3>1. ArrayOf(x).elem = <<x>>
      BY Shapes
    <3> QED BY <3>1, Shapes
  <2>10. ASSUME NEW fs, schema.type = ArrayOf(StructOf(fs)), a.type.code # "STRUCT"
         PROVE  /\ schema.type.elem[1].code = "STRUCT"
                /\ ret.type.code = "ARRAY" /\ ret.type.elem[1].code # "STRUCT"
    <3>1. schema.type.elem[1] = StructOf(fs)
      BY <2>9, <2>10
    <3>2. ret.type.code = "ARRAY" /\ ret.type.elem[1] = a.type
      BY <2>5, <2>9
    <3> QED BY <2>10, <3>1, <3>2, Shapes
  <2> QED BY <2>5, <2>8, <2>10
<1>2. Spec => []IInv
  BY Invariance
<1>3. Spec => []SInv
  BY SessionInvariance
<1>4. Spec => []TInv
  BY AgreementInvariance
<1> QED BY <1>1, <1>2, <1>3, <1>4, PTL
=============================================================================
