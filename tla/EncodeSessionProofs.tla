------------------------ MODULE EncodeSessionProofs ------------------------
(***************************************************************************)
(* Proofs about EncodeSession, for every universe of Go types, all options *)
(* and every behaviour of the caller's encoders: OverrideIsTotal and       *)
(* LastRegistrationWins, and at the end PanicsOnInterfaceEncoder.          *)
(*                                                                         *)
(* Where built-in code encodes the elements of a slice without looking at  *)
(* them again, that they have no encoder of their own rests on what Go     *)
(* guarantees of a value: the elements of a []T are Ts.  So the invariant  *)
(* says of every value on the stack that it is well formed, all the way    *)
(* down, and the values the package makes itself, by conversion and as     *)
(* zero values of structs, are proved to be.                               *)
(***************************************************************************)
EXTENDS EncodeSession, EncodeProofs

(***************************************************************************)
(* Go values.                                                              *)
(***************************************************************************)

\* v is what a field or an element declared with type t can hold: of an
\* interface type, values of any type.
Holds(t, v) == Kind(t) = "interface" \/ v.type = t

\* A struct, or a pointer to one: a nil pointer, or all its fields.
FullStruct(v) ==
  IF v.nil THEN Kind(v.type) = "ptr"
  ELSE /\ Len(v.parts) = Len(Fields(v.type))
       /\ \A i \in 1..Len(v.parts) : Holds(Fields(v.type)[i].type, v.parts[i])

\* A slice: a nil one has no elements.
FullSlice(v) ==
  /\ v.nil => Len(v.parts) = 0
  /\ \A i \in 1..Len(v.parts) : Holds(Elem(v.type), v.parts[i])

\* v is put together as its type says, as far as the encoder relies on it.
Shaped(v) ==
  /\ DOMAIN v = {"type", "nil", "parts", "lit", "styp"}
  /\ v.type \in DOMAIN Go /\ IsSequence(v.parts)
  /\ Kind(v.type) = "slice" => FullSlice(v)
  /\ SwitchCase(v.type) = "struct" => FullStruct(v)
  /\ SwitchCase(v.type) = "slice" =>
       \A i \in 1..Len(v.parts) : v.parts[i].type = Elem(v.type)
  /\ SwitchCase(v.type) = "structArray" =>
       \A i \in 1..Len(v.parts) :
         IsStructOrStructPtr(v.parts[i].type) /\ FullStruct(v.parts[i])
  /\ SwitchCase(v.type) = "nullProto" /\ v.lit # "null" => Len(v.parts) > 0

\* So is everything in it: it belongs to some set of such values that has the
\* parts of its members.
Closed(W) == \A w \in W : Shaped(w) /\ \A i \in 1..Len(w.parts) : w.parts[i] \in W

WellFormed(v) == \E W : v \in W /\ Closed(W)

LEMMA Components ==
  ASSUME NEW v, WellFormed(v)
  PROVE  Shaped(v) /\ \A i \in 1..Len(v.parts) : WellFormed(v.parts[i])
<1>1. PICK W : v \in W /\ Closed(W)
  BY DEF WellFormed
<1>2. ASSUME NEW i \in 1..Len(v.parts) PROVE WellFormed(v.parts[i])
  <2>1. v.parts[i] \in W
    BY <1>1 DEF Closed
  <2> QED BY <1>1, <2>1 DEF WellFormed
<1> QED BY <1>1, <1>2 DEF Closed

LEMMA Composed ==
  ASSUME NEW v, Shaped(v), \A i \in 1..Len(v.parts) : WellFormed(v.parts[i])
  PROVE  WellFormed(v)
<1> DEFINE Part(i) == CHOOSE W : v.parts[i] \in W /\ Closed(W)
           All == {v} \cup UNION {Part(i) : i \in 1..Len(v.parts)}
<1>1. \A i \in 1..Len(v.parts) : v.parts[i] \in Part(i) /\ Closed(Part(i))
  BY DEF WellFormed
<1> HIDE DEF Part
<1>2. ASSUME NEW w \in All
      PROVE  Shaped(w) /\ \A i \in 1..Len(w.parts) : w.parts[i] \in All
  <2>1. CASE w = v
    BY <1>1, <2>1
  <2>2. CASE w # v
    <3>1. PICK i \in 1..Len(v.parts) : w \in Part(i)
      BY <2>2
    <3>2. Shaped(w) /\ \A j \in 1..Len(w.parts) : w.parts[j] \in Part(i)
      BY <1>1, <3>1 DEF Closed
    <3> QED BY <3>2
  <2> QED BY <2>1, <2>2
<1>3. Closed(All)
  <2> HIDE DEF All
  <2> QED BY <1>2 DEF Closed
<1>4. v \in All
  OBVIOUS
<1> QED BY <1>3, <1>4 DEF WellFormed

\* A value without parts is well formed, unless its type calls for parts.
LEMMA Bare ==
  ASSUME NEW v, DOMAIN v = {"type", "nil", "parts", "lit", "styp"},
         v.type \in DOMAIN Go, v.parts = <<>>,
         SwitchCase(v.type) # "struct" \/ FullStruct(v),
         SwitchCase(v.type) # "nullProto" \/ v.lit = "null"
  PROVE  WellFormed(v)
<1>1. IsSequence(v.parts) /\ Len(v.parts) = 0
  BY EmptySequence
<1>2. FullSlice(v)
  BY <1>1 DEF FullSlice
<1>3. Shaped(v)
  BY <1>1, <1>2 DEF Shaped
<1> QED BY <1>1, <1>3, Composed

(***************************************************************************)
(* The cases of the switch.                                                *)
(***************************************************************************)

LEMMA Cases ==
  ASSUME NEW t
  PROVE  /\ RowOf(switchScalars, t) # "NONE" => SwitchCase(t) \in {"nil", "leaf"}
         /\ SwitchCase(t) = "leaf" => t # UntypedNil
         /\ SwitchCase(t) = "proto" => t # UntypedNil
         /\ SwitchCase(t) = "slice" =>
              t # UntypedNil /\ Kind(t) = "slice" /\ RowOf(switchElems, Elem(t)) # "NONE"
         /\ SwitchCase(t) = "struct" => IsStructOrStructPtr(t)
         /\ SwitchCase(t) = "structArray" => Kind(t) = "slice" /\ IsStructOrStructPtr(Elem(t))
         /\ SwitchCase(t) = "custom" => customBaseGoType(t) # NoGoType
         /\ SwitchCase(t) = "nullProto" =>
              t \in {"spanner.NullProtoEnum", "spanner.NullProtoMessage"}
  BY DEF SwitchCase, ElemRowOf

LEMMA NilIsNoElement == RowOf(switchElems, UntypedNil) = "NONE"
<1> DEFINE T == switchElems
<1>1. \A c \in DOMAIN T : UntypedNil \notin T[c]
  <2>1. DOMAIN T = DOMAIN switchScalars
    BY DEF switchElems
  <2>2. \A c \in DOMAIN switchScalars : UntypedNil \notin switchScalars[c]
    BY DEF switchScalars, UntypedNil
  <2>3. \A c \in DOMAIN T \ {"STRING", "UUID"} : T[c] = switchScalars[c]
    BY DEF switchElems
  <2>4. UntypedNil \notin T["STRING"] /\ UntypedNil \notin T["UUID"]
    BY DEF switchElems, switchScalars, UntypedNil
  <2> QED BY <2>1, <2>2, <2>3, <2>4
<1> HIDE DEF T
<1>2. RowOf(T, UntypedNil) = "NONE"
  BY <1>1 DEF RowOf
<1> QED BY <1>2 DEF T

(***************************************************************************)
(* Zero values.                                                            *)
(***************************************************************************)

\* z is a zero value of type t.
ZeroOK(z, t) ==
  /\ WellFormed(z) /\ Holds(t, z)
  /\ Kind(t) = "struct" => FullStruct(z)

LEMMA ZeroLevel ==
  ASSUME NEW T, NEW Z, \A t \in T : ZeroOK(Z[t], t)
  PROVE  \A t \in NestingOver(T) : ZeroOK(zeroLevel(Z)[t], t)
<1> TAKE t \in NestingOver(T)
<1> DEFINE z == zeroLevel(Z)[t]
           fs == Go[t].fields
<1>1. t \in DOMAIN Go
  BY DEF NestingOver
<1>2. UntypedNil \in DOMAIN Go /\ SwitchCase(UntypedNil) = "nil"
  BY GoAssumption DEF SwitchCase
<1>3. CASE Kind(t) = "interface"
  <2>1. z = NilValue(UntypedNil)
    BY <1>1, <1>3 DEF zeroLevel
  <2>2. WellFormed(NilValue(UntypedNil))
    <3> DEFINE v == NilValue(UntypedNil)
    <3>1. /\ DOMAIN v = {"type", "nil", "parts", "lit", "styp"}
          /\ v.type = UntypedNil /\ v.parts = <<>>
      BY DEF NilValue, Value
    <3> HIDE DEF v
    <3>2. WellFormed(v)
      BY <1>2, <3>1, Bare
    <3> QED BY <3>2 DEF v
  <2> QED BY <1>3, <2>1, <2>2 DEF ZeroOK, Holds
<1>4. CASE Kind(t) \in {"slice", "ptr"}
  <2>1. z = Value(t, TRUE, <<>>, "")
    BY <1>1, <1>4 DEF zeroLevel, NilValue
  <2> HIDE DEF z
  <2>2. /\ z.type = t /\ z.parts = <<>>
        /\ DOMAIN z = {"type", "nil", "parts", "lit", "styp"}
    BY <2>1 DEF Value
  <2>6. z.nil
    BY <2>1 DEF Value
  <2>3. SwitchCase(t) = "struct" => Kind(t) = "ptr"
    BY <1>4, Cases DEF IsStructOrStructPtr
  <2>4. SwitchCase(t) # "nullProto"
    BY <1>1, <1>4, Cases, BaseAssumption
  <2>5. WellFormed(z)
    BY <1>1, <2>2, <2>3, <2>4, <2>6, Bare DEF FullStruct
  <2> QED BY <1>4, <2>2, <2>5 DEF ZeroOK, Holds, z
<1>5. CASE Kind(t) \notin {"interface", "slice", "ptr"}
  <2> DEFINE ps == [i \in 1..Len(fs) |-> Z[fs[i].type]]
  <2>1. z = Value(t, FALSE, ps, Go[t].zero)
    BY <1>1, <1>5 DEF zeroLevel
  <2> HIDE DEF z
  <2>2. /\ z.type = t /\ z.parts = ps /\ z.lit = Go[t].zero
        /\ DOMAIN z = {"type", "nil", "parts", "lit", "styp"}
    <3> HIDE DEF ps
    <3> QED BY <2>1 DEF Value
  <2>12. ~z.nil
    BY <2>1 DEF Value
  <2>3. Len(fs) \in Nat /\ (Kind(t) # "struct" => fs = <<>>)
    BY <1>1, GoAssumption DEF Kind
  <2>4. IsSequence(ps) /\ Len(ps) = Len(fs)
    <3> DEFINE S == {Z[fs[i].type] : i \in 1..Len(fs)}
               n == Len(fs)
    <3>1. n \in Nat /\ ps \in [1..n -> S]
      BY <2>3
    <3> HIDE DEF S, n, ps
    <3>2. ps \in Seq(S) /\ Len(ps) = n
      BY <3>1
    <3> QED BY <3>2 DEF IsSequence, n
  <2>5. \A i \in 1..Len(ps) : WellFormed(ps[i])
    <3>1. CASE Kind(t) = "struct"
      <4>1. \A i \in 1..Len(fs) : fs[i].type \in T
        BY <3>1 DEF NestingOver
      <4>2. \A i \in 1..Len(fs) : WellFormed(Z[fs[i].type])
        BY <4>1 DEF ZeroOK
      <4>3. \A i \in 1..Len(fs) : ps[i] = Z[fs[i].type]
        OBVIOUS
      <4> HIDE DEF ps
      <4> QED BY <4>2, <4>3, <2>4
    <3>2. CASE Kind(t) # "struct"
      <4>1. Len(ps) = 0
        BY <2>3, <2>4, <3>2, EmptySequence
      <4> QED BY <4>1
    <3> QED BY <3>1, <3>2
  <2>6. Fields(t) = fs
    BY <1>5 DEF Fields, StructBehind
  <2>13. \A i \in 1..Len(ps) : Holds(fs[i].type, ps[i])
    <3>1. CASE Kind(t) = "struct"
      <4>1. \A i \in 1..Len(fs) : fs[i].type \in T
        BY <3>1 DEF NestingOver
      <4>2. \A i \in 1..Len(fs) : Holds(fs[i].type, Z[fs[i].type])
        BY <4>1 DEF ZeroOK
      <4>3. \A i \in 1..Len(fs) : ps[i] = Z[fs[i].type]
        OBVIOUS
      <4> HIDE DEF ps
      <4> QED BY <4>2, <4>3, <2>4
    <3>2. CASE Kind(t) # "struct"
      <4>1. Len(ps) = 0
        BY <2>3, <2>4, <3>2, EmptySequence
      <4> QED BY <4>1
    <3> QED BY <3>1, <3>2
  <2> HIDE DEF ps, fs
  <2>7. FullStruct(z)
    BY <2>2, <2>4, <2>6, <2>12, <2>13 DEF FullStruct
  <2>8. SwitchCase(t) # "slice" /\ SwitchCase(t) # "structArray"
    BY <1>5, Cases
  <2>9. SwitchCase(t) = "nullProto" => z.lit = "null"
    BY <1>1, <2>2, Cases, BaseAssumption
  <2>10. Shaped(z)
    BY <1>1, <1>5, <2>2, <2>4, <2>7, <2>8, <2>9 DEF Shaped
  <2>11. ZeroOK(z, t)
    BY <2>2, <2>5, <2>7, <2>10, Composed DEF ZeroOK, Holds
  <2> QED BY <2>11 DEF z
<1> QED BY <1>3, <1>4, <1>5

LEMMA ZeroWellFormed == \A t \in DOMAIN Go : ZeroOK(Zero(t), t)
<1> DEFINE W0 == [t \in DOMAIN Go |-> NilValue(t)]
           W1 == zeroLevel(W0)
           N1 == NestingOver({})
           W2 == zeroLevel(W1)
           N2 == NestingOver(N1)
           W3 == zeroLevel(W2)
           N3 == NestingOver(N2)
           W4 == zeroLevel(W3)
           N4 == NestingOver(N3)
           W5 == zeroLevel(W4)
           N5 == NestingOver(N4)
           W6 == zeroLevel(W5)
           N6 == NestingOver(N5)
<1>1. \A t \in {} : ZeroOK(W0[t], t)
  OBVIOUS
<1>2. zeroValues = W6 /\ DOMAIN Go \subseteq N6
  BY NestingAssumption DEF zeroValues, SixTimes
<1> HIDE DEF W0
<1>3. \A t \in N1 : ZeroOK(W1[t], t)
  BY <1>1, ZeroLevel
<1> HIDE DEF W1, N1
<1>4. \A t \in N2 : ZeroOK(W2[t], t)
  BY <1>3, ZeroLevel
<1> HIDE DEF W2, N2
<1>5. \A t \in N3 : ZeroOK(W3[t], t)
  BY <1>4, ZeroLevel
<1> HIDE DEF W3, N3
<1>6. \A t \in N4 : ZeroOK(W4[t], t)
  BY <1>5, ZeroLevel
<1> HIDE DEF W4, N4
<1>7. \A t \in N5 : ZeroOK(W5[t], t)
  BY <1>6, ZeroLevel
<1> HIDE DEF W5, N5
<1>8. \A t \in N6 : ZeroOK(W6[t], t)
  BY <1>7, ZeroLevel
<1> HIDE DEF W6, N6
<1> QED BY <1>2, <1>8 DEF Zero

(***************************************************************************)
(* Conversions.                                                            *)
(***************************************************************************)

Listed(T, t) == \E c \in DOMAIN T : t \in T[c]

LEMMA ListedRow ==
  ASSUME NEW T, NEW t, Listed(T, t), "NONE" \notin DOMAIN T
  PROVE  RowOf(T, t) # "NONE"
<1> DEFINE r == CHOOSE c \in DOMAIN T : t \in T[c]
<1>1. r \in DOMAIN T
  BY DEF Listed
<1>2. RowOf(T, t) = r
  BY DEF RowOf, Listed
<1> QED BY <1>1, <1>2

SliceBases ==
  {"string", "int64", "bool", "float32", "float64", "uuid.UUID", "[]byte",
   "big.Rat", "time.Time", "civil.Date", "spanner.NullString", "spanner.NullInt64",
   "spanner.NullBool", "spanner.NullFloat64", "spanner.NullFloat32", "spanner.NullTime",
   "spanner.NullDate", "spanner.NullNumeric", "spanner.NullJSON", "spanner.PGNumeric",
   "spanner.PGJsonB", "spanner.NullUUID"}
Bases == SliceBases \cup {"spanner.Interval", "spanner.NullInterval"}

LEMMA BasesListed ==
  /\ \A b \in Bases : RowOf(switchScalars, b) # "NONE"
  /\ \A b \in SliceBases : RowOf(switchElems, b) # "NONE"
<1>1. "NONE" \notin DOMAIN switchScalars
  BY DEF switchScalars
<1>2. DOMAIN switchElems = DOMAIN switchScalars
  BY DEF switchElems
<1>3. \A b \in Bases : Listed(switchScalars, b)
  <2>1. \A b \in Bases :
          \/ b \in switchScalars.STRING \/ b \in switchScalars.INT64
          \/ b \in switchScalars.BOOL \/ b \in switchScalars.FLOAT32
          \/ b \in switchScalars.FLOAT64 \/ b \in switchScalars.UUID
          \/ b \in switchScalars.BYTES \/ b \in switchScalars.NUMERIC
          \/ b \in switchScalars.TIMESTAMP \/ b \in switchScalars.DATE
          \/ b \in switchScalars.JSON \/ b \in switchScalars.PG_NUMERIC
          \/ b \in switchScalars.PG_JSONB \/ b \in switchScalars.INTERVAL
    BY DEF switchScalars, Bases, SliceBases
  <2>2. {"STRING", "INT64", "BOOL", "FLOAT32", "FLOAT64", "UUID", "BYTES", "NUMERIC",
         "TIMESTAMP", "DATE", "JSON", "PG_NUMERIC", "PG_JSONB", "INTERVAL"}
          \subseteq DOMAIN switchScalars
    BY DEF switchScalars
  <2> QED BY <2>1, <2>2 DEF Listed
<1>4. \A b \in SliceBases : Listed(switchElems, b)
  <2>1. \A c \in DOMAIN switchScalars \ {"STRING", "UUID"} : switchElems[c] = switchScalars[c]
    BY DEF switchElems
  <2>2. {"string", "spanner.NullString"} \subseteq switchElems["STRING"]
    BY DEF switchElems, switchScalars
  <2>3. {"uuid.UUID", "spanner.NullUUID"} \subseteq switchElems["UUID"]
    BY DEF switchElems, switchScalars
  <2>4. {"STRING", "UUID"} \subseteq DOMAIN switchScalars
    BY DEF switchScalars
  <2>5. \A b \in SliceBases \ {"string", "spanner.NullString", "uuid.UUID", "spanner.NullUUID"} :
          \E c \in DOMAIN switchScalars \ {"STRING", "UUID"} : b \in switchScalars[c]
    <3>1. \A b \in SliceBases \ {"string", "spanner.NullString", "uuid.UUID", "spanner.NullUUID"} :
          \/ b \in switchScalars.INT64
          \/ b \in switchScalars.BOOL \/ b \in switchScalars.FLOAT32
          \/ b \in switchScalars.FLOAT64
          \/ b \in switchScalars.BYTES \/ b \in switchScalars.NUMERIC
          \/ b \in switchScalars.TIMESTAMP \/ b \in switchScalars.DATE
          \/ b \in switchScalars.JSON \/ b \in switchScalars.PG_NUMERIC
          \/ b \in switchScalars.PG_JSONB
      BY DEF switchScalars, SliceBases
    <3>2. {"INT64", "BOOL", "FLOAT32", "FLOAT64", "BYTES", "NUMERIC", "TIMESTAMP", "DATE",
           "JSON", "PG_NUMERIC", "PG_JSONB"} \subseteq DOMAIN switchScalars \ {"STRING", "UUID"}
      BY DEF switchScalars
    <3> QED BY <3>1, <3>2
  <2> QED BY <1>2, <2>1, <2>2, <2>3, <2>4, <2>5 DEF Listed
<1> QED BY <1>1, <1>2, <1>3, <1>4, ListedRow

LEMMA FirstConvertible ==
  ASSUME NEW t, NEW bases, NEW S, \A i \in 1..Len(bases) : bases[i] \in S
  PROVE  firstConvertible(t, bases) \in S \cup {NoGoType}
<1> DEFINE hits == {i \in 1..Len(bases) : ConvertibleTo(t, bases[i])}
<1>1. CASE hits = {}
  BY <1>1 DEF firstConvertible
<1>2. CASE hits # {}
  <2>1. hits \subseteq Nat /\ hits \subseteq 1..Len(bases)
    OBVIOUS
  <2>2. firstConvertible(t, bases) = bases[Min(hits)]
    BY <1>2 DEF firstConvertible
  <2> HIDE DEF hits
  <2>3. Min(hits) \in hits
    BY <1>2, <2>1, FirstFailure
  <2> QED BY <2>1, <2>2, <2>3
<1> QED BY <1>1, <1>2

LEMMA FirstConverts ==
  ASSUME NEW t, NEW bases, firstConvertible(t, bases) # NoGoType
  PROVE  /\ ConvertibleTo(t, firstConvertible(t, bases))
         /\ \E i \in 1..Len(bases) : firstConvertible(t, bases) = bases[i]
<1> DEFINE hits == {i \in 1..Len(bases) : ConvertibleTo(t, bases[i])}
<1>1. hits # {} /\ firstConvertible(t, bases) = bases[Min(hits)]
  BY DEF firstConvertible
<1>2. hits \subseteq Nat /\ \A i \in hits : i \in 1..Len(bases) /\ ConvertibleTo(t, bases[i])
  OBVIOUS
<1> HIDE DEF hits
<1>3. Min(hits) \in hits
  BY <1>1, <1>2, FirstFailure
<1> QED BY <1>1, <1>2, <1>3

LEMMA ConvertTo ==
  ASSUME NEW t
  PROVE  /\ customSliceElemBase(t) \in SliceBases \cup {"byte", NoGoType}
         /\ Kind(t) # "slice" => customBaseGoType(t) \in Bases \cup {NoGoType}
<1>1. \A k \in DOMAIN kindBase : kindBase[k] \in SliceBases
  BY DEF kindBase, SliceBases
<1>2. firstConvertible(t, <<"uuid.UUID">>) \in SliceBases \cup {NoGoType}
  <2> DEFINE B == <<"uuid.UUID">>
  <2>1. \A i \in 1..Len(B) : B[i] \in SliceBases
    BY DEF SliceBases
  <2> HIDE DEF B
  <2>2. firstConvertible(t, B) \in SliceBases \cup {NoGoType}
    BY <2>1, FirstConvertible
  <2> QED BY <2>2 DEF B
<1>3. firstConvertible(t, customSliceStructBases) \in SliceBases \cup {NoGoType}
  <2>1. \A i \in 1..Len(customSliceStructBases) : customSliceStructBases[i] \in SliceBases
    BY DEF customSliceStructBases, SliceBases
  <2> QED BY <2>1, FirstConvertible
<1>4. firstConvertible(t, customStructBases) \in Bases \cup {NoGoType}
  <2>1. \A i \in 1..Len(customStructBases) : customStructBases[i] \in Bases
    BY DEF customStructBases, SliceBases, Bases
  <2> QED BY <2>1, FirstConvertible
<1>5. customSliceElemBase(t) \in SliceBases \cup {"byte", NoGoType}
  <2>1. "[]byte" \in SliceBases
    BY DEF SliceBases
  <2> QED BY <1>1, <1>2, <1>3, <2>1 DEF customSliceElemBase
<1>6. ASSUME Kind(t) # "slice" PROVE customBaseGoType(t) \in Bases \cup {NoGoType}
  BY <1>1, <1>2, <1>4, <1>6 DEF customBaseGoType, Bases
<1> QED BY <1>5, <1>6

\* A value renamed to a type the switch takes as it is stays well formed.
LEMMA Renamed ==
  ASSUME NEW v, WellFormed(v), NEW t \in DOMAIN Go,
         SwitchCase(t) \notin {"struct", "slice", "structArray", "nullProto"},
         Kind(t) = "slice" => Kind(v.type) = "slice" /\ Elem(t) = Elem(v.type)
  PROVE  WellFormed([v EXCEPT !.type = t])
<1> DEFINE w == [v EXCEPT !.type = t]
<1>1. Shaped(v) /\ \A i \in 1..Len(v.parts) : WellFormed(v.parts[i])
  BY Components
<1>2. DOMAIN v = {"type", "nil", "parts", "lit", "styp"}
  BY <1>1 DEF Shaped
<1>3. DOMAIN w = {"type", "nil", "parts", "lit", "styp"} /\ w.type = t /\ w.parts = v.parts
  BY <1>2
<1>6. w.nil = v.nil
  BY <1>2
<1> HIDE DEF w
<1>7. Kind(t) = "slice" => FullSlice(w)
  BY <1>1, <1>3, <1>6 DEF Shaped, FullSlice, Holds
<1>4. Shaped(w)
  BY <1>1, <1>3, <1>7 DEF Shaped
<1>5. WellFormed(w)
  BY <1>1, <1>3, <1>4, Composed
<1> QED BY <1>5 DEF w

LEMMA ConvertedWellFormed ==
  ASSUME NEW v, WellFormed(v), SwitchCase(v.type) = "custom",
         ~ConvertPanics(v, customBaseGoType(v.type))
  PROVE  WellFormed(Converted(v, customBaseGoType(v.type)))
<1> DEFINE t == v.type
           b == customBaseGoType(t)
           e == customSliceElemBase(Elem(t))
<1>1. /\ Shaped(v) /\ \A i \in 1..Len(v.parts) : WellFormed(v.parts[i])
      /\ t \in DOMAIN Go
      /\ DOMAIN v = {"type", "nil", "parts", "lit", "styp"}
  BY Components DEF Shaped
<1>2. b \in DOMAIN Go
  BY <1>1, Cases, BaseAssumption
<1>3. CASE Kind(t) # "slice"
  <2>1. Converted(v, b) = [v EXCEPT !.type = b]
    BY <1>3 DEF Converted
  <2>2. b \in Bases
    BY <1>2, <1>3, ConvertTo, GoAssumption
  <2>3. SwitchCase(b) \in {"nil", "leaf"}
    <3> HIDE DEF b
    <3> QED BY <2>2, BasesListed, Cases
  <2>4. Kind(b) # "slice"
    BY <1>1, <1>2, <1>3, BaseAssumption
  <2> QED BY <1>2, <2>1, <2>3, <2>4, Renamed
<1>4. CASE Kind(t) = "slice"
  <2>1. Kind(t) \notin DOMAIN kindBase /\ Kind(t) # "array" /\ Kind(t) # "struct"
    BY <1>4 DEF kindBase
  <2>2. b = SliceOf(e)
    <3>1. b # NoGoType
      BY <1>2, GoAssumption
    <3> QED BY <1>4, <2>1, <3>1 DEF customBaseGoType
  <2>3. Elem(t) \in DOMAIN Go
    BY <1>1, <1>4, GoAssumption DEF Kind, Elem
  <2>4. e \in DOMAIN Go /\ Kind(b) = "slice" /\ Elem(b) = e
    <3>1. SliceOf(e) \in DOMAIN Go
      BY <1>2, <2>2
    <3>2. Kind(b) = Kind(t)
      BY <1>1, <1>2, BaseAssumption
    <3> QED BY <1>4, <2>2, <2>3, <3>1, <3>2, BaseAssumption
  <2>10. Kind(e) = Kind(Elem(t))
    BY <2>3, <2>4, BaseAssumption
  <2>11. Kind(e) = "slice" => e = "[]byte" /\ Elem(e) = "byte"
    <3> SUFFICES ASSUME Kind(e) = "slice" PROVE e = "[]byte" /\ Elem(e) = "byte"
      OBVIOUS
    <3>1. Kind(Elem(t)) \notin DOMAIN kindBase \cup {"uint8", "array", "struct"}
      BY <2>10 DEF kindBase
    <3>2. e # NoGoType
      BY <2>4, GoAssumption
    <3>3. e = "[]byte"
      BY <3>1, <3>2 DEF customSliceElemBase
    <3> HIDE DEF e
    <3> QED BY <2>4, <3>3, BaseAssumption
  <2>5. e \in SliceBases \cup {"byte"}
    BY <2>4, ConvertTo, GoAssumption
  <2> HIDE DEF e, b
  <2>6. SwitchCase(e) \notin {"struct", "slice", "structArray", "nullProto"}
    <3>1. CASE e \in SliceBases
      BY <3>1, BasesListed, Cases DEF Bases
    <3>2. CASE e = "byte"
      <4>1. Kind(e) = "uint8"
        BY <2>4, <3>2, BaseAssumption
      <4>2. ~IsStructOrStructPtr(e)
        BY <4>1 DEF IsStructOrStructPtr
      <4>3. e \notin {"spanner.NullProtoEnum", "spanner.NullProtoMessage"}
        BY <3>2
      <4> QED BY <4>1, <4>2, <4>3, Cases
    <3> QED BY <2>5, <3>1, <3>2
  <2>7. SwitchCase(b) \notin {"struct", "structArray", "nullProto"}
    <3>1. ~IsStructOrStructPtr(b) /\ SwitchCase(b) # "nullProto"
      BY <1>2, <2>4, Cases, BaseAssumption DEF IsStructOrStructPtr
    <3>2. SwitchCase(b) # "structArray"
      <4>1. CASE e = "byte"
        <5>1. Kind(e) = "uint8"
          BY <2>4, <4>1, BaseAssumption
        <5> QED BY <2>4, <5>1, Cases DEF IsStructOrStructPtr
      <4>2. CASE e \in SliceBases
        <5>1. RowOf(switchElems, Elem(b)) # "NONE" /\ b = SliceOf(Elem(b))
          BY <2>2, <2>4, <4>2, BasesListed
        <5>2. ElemRowOf(switchElems, b) # "NONE"
          BY <2>4, <5>1 DEF ElemRowOf
        <5>3. SwitchCase(b) \in {"nil", "leaf", "slice"}
          BY <5>1, <5>2 DEF SwitchCase
        <5> QED BY <5>3
      <4> QED BY <2>5, <4>1, <4>2
    <3> QED BY <3>1, <3>2, Cases
  <2>8. CASE ~v.nil
    <3> DEFINE p(i) == [v.parts[i] EXCEPT !.type = e]
               ps == [i \in 1..Len(v.parts) |-> p(i)]
               w == [v EXCEPT !.type = b, !.parts = ps]
    <3>1. Converted(v, b) = w
      BY <1>4, <2>4, <2>8 DEF Converted
    <3>2. \A i \in 1..Len(v.parts) : WellFormed(p(i)) /\ p(i).type = e
      <4> TAKE i \in 1..Len(v.parts)
      <4>1. WellFormed(v.parts[i])
        BY <1>1
      <4>2. "type" \in DOMAIN v.parts[i]
        BY <4>1, Components DEF Shaped
      <4>3. p(i).type = e
        BY <4>2
      <4>5. Holds(Elem(t), v.parts[i])
        BY <1>1, <1>4 DEF Shaped, FullSlice
      <4>6. ConvertibleTo(v.parts[i].type, e)
        BY <1>4, <2>4 DEF ConvertPanics, b
      <4>7. Kind(e) = "slice" => Kind(v.parts[i].type) = "slice" /\ Elem(e) = Elem(v.parts[i].type)
        <5> SUFFICES ASSUME Kind(e) = "slice"
                     PROVE  Kind(v.parts[i].type) = "slice" /\ Elem(e) = Elem(v.parts[i].type)
          OBVIOUS
        <5>1. v.parts[i].type = Elem(t) /\ Kind(Elem(t)) = "slice"
          BY <2>10, <4>5 DEF Holds
        <5>3. Elem(Elem(t)) = "byte"
          BY <2>3, <2>11, <4>6, <5>1, BaseAssumption
        <5> QED BY <2>11, <5>1, <5>3
      <4>4. WellFormed(p(i))
        BY <2>4, <2>6, <4>1, <4>7, Renamed
      <4> QED BY <4>3, <4>4
    <3> HIDE DEF p
    <3>3. Len(v.parts) \in Nat
      BY <1>1, SequenceLen DEF Shaped
    <3>4. IsSequence(ps) /\ Len(ps) = Len(v.parts) /\ \A i \in 1..Len(v.parts) : ps[i] = p(i)
      <4> DEFINE S == {p(i) : i \in 1..Len(v.parts)}
                 n == Len(v.parts)
      <4>1. ps \in [1..n -> S] /\ \A i \in 1..n : ps[i] = p(i)
        OBVIOUS
      <4>2. n \in Nat
        BY <3>3
      <4> HIDE DEF S, n, ps
      <4>3. ps \in Seq(S) /\ Len(ps) = n
        BY <4>1, <4>2
      <4> QED BY <4>1, <4>3 DEF IsSequence, n
    <3> HIDE DEF ps
    <3>5. /\ DOMAIN w = {"type", "nil", "parts", "lit", "styp"}
          /\ w.type = b /\ w.parts = ps
      BY <1>1
    <3>8. ~w.nil
      BY <1>1, <2>8
    <3> HIDE DEF w
    <3>9. FullSlice(w)
      BY <2>4, <3>2, <3>4, <3>5, <3>8 DEF FullSlice, Holds
    <3>6. Shaped(w)
      BY <1>2, <2>4, <2>7, <3>2, <3>4, <3>5, <3>9 DEF Shaped
    <3>7. WellFormed(w)
      BY <3>2, <3>4, <3>5, <3>6, Composed
    <3> QED BY <3>1, <3>7 DEF b
  <2>9. CASE v.nil
    <3> DEFINE w == Converted(v, b)
    <3>1. w = Value(b, FALSE, <<>>, "") \/ w = Value(b, TRUE, <<>>, "")
      BY <1>4, <2>9 DEF Converted, NilValue
    <3>2. /\ DOMAIN w = {"type", "nil", "parts", "lit", "styp"}
          /\ w.type = b /\ w.parts = <<>>
      <4> HIDE DEF w
      <4>1. CASE w = Value(b, FALSE, <<>>, "")
        BY <4>1 DEF Value
      <4>2. CASE w = Value(b, TRUE, <<>>, "")
        BY <4>2 DEF Value
      <4> QED BY <3>1, <4>1, <4>2
    <3> HIDE DEF w
    <3>3. WellFormed(w)
      BY <1>2, <2>7, <3>2, Bare
    <3> QED BY <3>3 DEF w, b
  <2> QED BY <2>8, <2>9
<1> QED BY <1>3, <1>4

(***************************************************************************)
(* The inductive invariant.                                                *)
(***************************************************************************)

TypeOps == {"typeOf", "structType", "arrayType"}

\* The types an encoder can be consulted for.
Hooked == DOMAIN cfg.encoders \ {UntypedNil}

\* The built-in code may encode v, and its elements when v is a slice, once
\* the encoders registered for R have been asked and those of fell declined.
Deferred(v, R, fell) ==
  /\ v.type \in R => v.type \in fell
  /\ Kind(v.type) = "slice" /\ v.type \notin R /\ Elem(v.type) \in R => Len(v.parts) = 0

FrameSound(f) ==
  f.op \notin TypeOps =>
    /\ WellFormed(f.v)
    /\ f.op = "struct" =>
         IsStructOrStructPtr(f.v.type) /\ FullStruct(f.v) /\ (f.pos > 0 => ~f.v.nil)
    /\ f.op = "structArray" => SwitchCase(f.v.type) = "structArray"

Legit(f, p, R, fell) ==
  /\ FrameSound(f)
  /\ p = "describe" => f.op \in TypeOps
  /\ f.op \in {"switch", "structArray"} => Deferred(f.v, R, fell)

AllLegit(s, p, R, fell) == \A i \in 1..Len(s) : Legit(s[i], p, R, fell)

\* A frame that waits for the function it called.
Suspended(f) == f.op = "struct" => f.pos > 0

Stacked ==
  /\ AllLegit(stack, pc, Hooked, seen.fell)
  /\ \A i \in 1..Len(stack) : i < Len(stack) \/ ret # NoResult => Suspended(stack[i])

\* A type that built-in code may have encoded although it has an encoder.
Waived(t, fell) == t \in fell \/ \E s \in fell : Kind(s) = "slice" /\ Elem(s) = t

Ran ==
  /\ DOMAIN seen = {"consulted", "fell", "mirrored", "chased"}
  /\ pc \in {"idle", "describe", "options"} => seen = Nothing
  /\ \A c \in seen.consulted : c[1] \in DOMAIN cfg.encoders /\ c[2] = cfg.encoders[c[1]]
  /\ UntypedNil \notin seen.mirrored
  /\ \A t \in seen.mirrored \cap Hooked : Waived(t, seen.fell)

\* Encoder n is the last of the first k options for type t.
LastWithin(opts, k, t, n) ==
  \E i \in 1..k : /\ Registers(opts[i], t) /\ opts[i].name = n
                  /\ \A j \in (i + 1)..k : ~Registers(opts[j], t)

\* The options before todo have been applied.
Applied ==
  LET k == Len(call.opts) - Len(todo) IN
  /\ IsSequence(todo) /\ k \in Nat
  /\ \A i \in 1..Len(todo) : todo[i] = call.opts[k + i]
  /\ \A t \in DOMAIN cfg.encoders : LastWithin(call.opts, k, t, cfg.encoders[t])

Settled ==
  \A t \in DOMAIN cfg.encoders : LastWithin(call.opts, Len(call.opts), t, cfg.encoders[t])

Session ==
  /\ DOMAIN cfg = {"handling", "encoders", "goTypes"}
  /\ \A t \in DOMAIN cfg.encoders : Kind(t) # "interface"
  /\ pc # "idle" => call \in Calls
  /\ pc = "options" => Applied
  /\ pc \in {"encode", "returned"} => Settled \/ (stack = <<>> /\ seen = Nothing)

SInv == Stacked /\ Ran /\ Session

\* The values of the caller's, those it calls with and those its methods
\* return, are Go values.
GoValues ==
  /\ \A c \in Calls : WellFormed(c.v)
  /\ \A t \in DOMAIN EncodeSpanner : \A o \in EncodeSpanner[t] : WellFormed(o.v)

(***************************************************************************)
(* Frames and stacks.                                                      *)
(***************************************************************************)

LEMMA HasEncoderMeans == \A t : HasEncoder(t) <=> t \in Hooked
  BY DEF HasEncoder, Hooked

LEMMA StillLegit ==
  ASSUME NEW f, NEW p, NEW R, NEW fell, NEW fell2, Legit(f, p, R, fell), fell \subseteq fell2
  PROVE  Legit(f, p, R, fell2)
  BY DEF Legit, Deferred

LEMMA LegitPopped ==
  ASSUME NEW s, NEW p, NEW R, NEW fell, NEW fell2,
         StackOK(s), s # <<>>, AllLegit(s, p, R, fell), fell \subseteq fell2
  PROVE  /\ AllLegit(SubSeq(s, 1, Len(s) - 1), p, R, fell2)
         /\ Legit(s[Len(s)], p, R, fell)
         /\ IsSequence(SubSeq(s, 1, Len(s) - 1))
<1> DEFINE b == SubSeq(s, 1, Len(s) - 1)
<1>1. /\ Len(s) \in Nat \ {0} /\ IsSequence(b) /\ Len(b) = Len(s) - 1
      /\ \A i \in 1..(Len(s) - 1) : b[i] = s[i]
  BY FrontSequence DEF StackOK
<1> HIDE DEF b
<1>2. \A i \in 1..Len(b) : i \in 1..Len(s) /\ b[i] = s[i]
  BY <1>1
<1>3. AllLegit(b, p, R, fell2)
  BY <1>2, StillLegit DEF AllLegit
<1>4. Legit(s[Len(s)], p, R, fell)
  BY <1>1 DEF AllLegit
<1> QED BY <1>1, <1>3, <1>4 DEF b

LEMMA LegitPushed ==
  ASSUME NEW s, NEW f, NEW p, NEW R, NEW fell,
         IsSequence(s), AllLegit(s, p, R, fell), Legit(f, p, R, fell)
  PROVE  AllLegit(Append(s, f), p, R, fell) /\ IsSequence(Append(s, f))
<1>1. /\ IsSequence(Append(s, f)) /\ Len(Append(s, f)) = Len(s) + 1
      /\ \A i \in 1..Len(s) : Append(s, f)[i] = s[i]
      /\ Append(s, f)[Len(s) + 1] = f
  BY AppendSequence
<1>2. Len(s) \in Nat
  BY SequenceLen
<1>3. \A i \in 1..Len(Append(s, f)) : i \in 1..Len(s) \/ i = Len(s) + 1
  BY <1>1, <1>2
<1> QED BY <1>1, <1>3 DEF AllLegit

LEMMA NoFrames == \A p, R, fell : AllLegit(<<>>, p, R, fell)
  BY EmptySequence DEF AllLegit

LEMMA TypeFrameLegit ==
  ASSUME NEW f, f.op \in TypeOps
  PROVE  \A p, R, fell : Legit(f, p, R, fell)
  BY DEF Legit, FrameSound, TypeOps

LEMMA ValueFrameLegit ==
  ASSUME NEW f, WellFormed(f.v), f.op \in Ops \ (TypeOps \cup {"struct", "structArray", "switch"})
  PROVE  \A p, R, fell : p # "describe" => Legit(f, p, R, fell)
  BY DEF Legit, FrameSound

LEMMA StructFrameLegit ==
  ASSUME NEW v, WellFormed(v), IsStructOrStructPtr(v.type), FullStruct(v)
  PROVE  \A p, R, fell : p # "describe" => Legit(StructFrame(v), p, R, fell)
<1>1. StructFrame(v).op = "struct" /\ StructFrame(v).v = v /\ StructFrame(v).pos = 0
  BY DEF StructFrame, Frame
<1>2. ~(0 > 0)
  OBVIOUS
<1> QED BY <1>1, <1>2 DEF Legit, FrameSound

(***************************************************************************)
(* Ways to continue.                                                       *)
(***************************************************************************)

LEMMA TopSound ==
  ASSUME IInv, SInv, stack # <<>>
  PROVE  /\ FrameOK(top) /\ FrameSound(top)
         /\ top.op \notin TypeOps => pc = "encode"
         /\ top.op \in {"switch", "structArray"} => Deferred(top.v, Hooked, seen.fell)
<1>1. FrameOK(top) /\ Legit(top, pc, Hooked, seen.fell)
  BY TopFrame, LegitPopped DEF IInv, SInv, Stacked, top
<1>2. pc \in {"describe", "encode"}
  BY DEF IInv
<1> QED BY <1>1, <1>2 DEF Legit

\* What the package does next leaves the session as it is.
LEMMA SameSession ==
  ASSUME IInv, SInv, stack # <<>>, Outside
  PROVE  Session' /\ Hooked' = Hooked /\ pc' = pc /\ cfg' = cfg
<1>1. pc \in {"describe", "encode"} /\ (pc = "encode" => Settled)
  BY DEF IInv, SInv, Session
<1>2. Settled => Settled'
  BY DEF Outside, Settled
<1> QED BY <1>1, <1>2 DEF Outside, SInv, Session, Hooked

LEMMA Quiet ==
  ASSUME IInv, SInv, stack # <<>>, Internal, Stacked'
  PROVE  SInv'
<1>1. Session' /\ Hooked' = Hooked /\ pc' = pc /\ cfg' = cfg /\ seen' = seen
  BY SameSession DEF Internal
<1>2. Ran'
  BY <1>1 DEF SInv, Ran
<1> QED BY <1>1, <1>2 DEF SInv

LEMMA SuspendedBelow ==
  ASSUME IInv, SInv, stack # <<>>
  PROVE  /\ IsSequence(Below) /\ Len(Below) \in Nat
         /\ \A i \in 1..Len(Below) : Suspended(Below[i])
         /\ ret # NoResult => Suspended(top)
<1>1. /\ Len(stack) \in Nat \ {0} /\ IsSequence(Below) /\ Len(Below) = Len(stack) - 1
      /\ \A i \in 1..(Len(stack) - 1) : Below[i] = stack[i]
  BY FrontSequence DEF IInv, StackOK, Below
<1>2. \A i \in 1..Len(stack) : i < Len(stack) \/ ret # NoResult => Suspended(stack[i])
  BY DEF SInv, Stacked
<1>3. \A i \in 1..Len(Below) : i \in 1..Len(stack) /\ i < Len(stack) /\ Below[i] = stack[i]
  BY <1>1
<1>4. Len(stack) \in 1..Len(stack)
  BY <1>1
<1> QED BY <1>1, <1>2, <1>3, <1>4, SequenceLen DEF top

\* With one more frame on top, all below it still wait.
LEMMA SuspendedUnder ==
  ASSUME NEW s, IsSequence(s), NEW f, \A i \in 1..Len(s) : Suspended(s[i])
  PROVE  /\ \A i \in 1..Len(Append(s, f)) : i < Len(Append(s, f)) => Suspended(Append(s, f)[i])
         /\ Suspended(f) => \A i \in 1..Len(Append(s, f)) : Suspended(Append(s, f)[i])
<1>1. /\ Len(Append(s, f)) = Len(s) + 1 /\ Len(s) \in Nat
      /\ \A i \in 1..Len(s) : Append(s, f)[i] = s[i]
      /\ Append(s, f)[Len(s) + 1] = f
  BY AppendSequence, SequenceLen
<1>2. \A i \in 1..Len(Append(s, f)) :
        i \in 1..Len(s) \/ (i = Len(s) + 1 /\ ~(i < Len(Append(s, f))))
  BY <1>1
<1> QED BY <1>1, <1>2

LEMMA ToFrame ==
  ASSUME IInv, SInv, stack # <<>>, Outside, seen.fell \subseteq seen'.fell,
         NEW f, Legit(f, pc, Hooked, seen'.fell), Become(f)
  PROVE  Stacked'
<1> DEFINE F == seen'.fell
<1>1. AllLegit(Below, pc, Hooked, F) /\ IsSequence(Below)
  BY LegitPopped DEF IInv, SInv, Stacked, Below
<1>2. AllLegit(Append(Below, f), pc, Hooked, F)
  BY <1>1, LegitPushed
<1>3. Hooked' = Hooked /\ pc' = pc /\ stack' = Append(Below, f) /\ ret' = NoResult
  BY SameSession DEF Become
<1>4. \A i \in 1..Len(Append(Below, f)) : i < Len(Append(Below, f)) => Suspended(Append(Below, f)[i])
  BY SuspendedBelow, SuspendedUnder
<1> QED BY <1>2, <1>3, <1>4 DEF Stacked

LEMMA ToCaller ==
  ASSUME IInv, SInv, stack # <<>>, Outside, seen.fell \subseteq seen'.fell,
         stack' = Below \/ stack' = <<>>
  PROVE  Stacked'
<1> DEFINE F == seen'.fell
<1>1. AllLegit(Below, pc, Hooked, F)
  BY LegitPopped DEF IInv, SInv, Stacked, Below
<1>2. AllLegit(stack', pc, Hooked, F)
  BY <1>1, NoFrames
<1>3. Hooked' = Hooked /\ pc' = pc
  BY SameSession
<1>4. \A i \in 1..Len(stack') : Suspended(stack'[i])
  <2>1. CASE stack' = Below
    BY <2>1, SuspendedBelow
  <2>2. CASE stack' = <<>>
    BY <2>2, EmptySequence
  <2> QED BY <2>1, <2>2
<1> QED BY <1>2, <1>3, <1>4 DEF Stacked

LEMMA ToCallee ==
  ASSUME IInv, SInv, stack # <<>>, Outside, seen.fell \subseteq seen'.fell,
         NEW f, NEW callee, Legit(f, pc, Hooked, seen'.fell),
         Legit(callee, pc, Hooked, seen'.fell), Suspended(f), CallFrom(f, callee)
  PROVE  Stacked'
<1> DEFINE F == seen'.fell
<1>1. CASE Len(stack) >= StackLimit
  <2>1. stack' = <<>>
    BY <1>1 DEF CallFrom, Abort
  <2> QED BY <2>1, ToCaller
<1>2. CASE ~(Len(stack) >= StackLimit)
  <2>1. stack' = Append(Append(Below, f), callee) /\ ret' = NoResult
    BY <1>2 DEF CallFrom
  <2>2. AllLegit(Below, pc, Hooked, F) /\ IsSequence(Below)
    BY LegitPopped DEF IInv, SInv, Stacked, Below
  <2>3. AllLegit(Append(Below, f), pc, Hooked, F) /\ IsSequence(Append(Below, f))
    BY <2>2, LegitPushed
  <2>4. AllLegit(stack', pc, Hooked, F)
    BY <2>1, <2>3, LegitPushed
  <2>5. Hooked' = Hooked /\ pc' = pc
    BY SameSession
  <2>6. \A i \in 1..Len(stack') : i < Len(stack') => Suspended(stack'[i])
    <3>1. \A i \in 1..Len(Append(Below, f)) : Suspended(Append(Below, f)[i])
      BY SuspendedBelow, SuspendedUnder
    <3> QED BY <2>1, <2>3, <3>1, SuspendedUnder
  <2> QED BY <2>1, <2>4, <2>5, <2>6 DEF Stacked
<1> QED BY <1>1, <1>2

LEMMA Calling ==
  ASSUME IInv, SInv, stack # <<>>, Internal, NEW f, NEW callee,
         Legit(f, pc, Hooked, seen.fell), Legit(callee, pc, Hooked, seen.fell),
         Suspended(f), CallFrom(f, callee)
  PROVE  SInv'
<1>1. Outside /\ seen' = seen
  BY DEF Internal
<1>2. Stacked'
  BY <1>1, ToCallee
<1> QED BY <1>2, Quiet

LEMMA Moving ==
  ASSUME IInv, SInv, stack # <<>>, Internal,
         NEW f, Legit(f, pc, Hooked, seen.fell), Become(f)
  PROVE  SInv'
<1>1. Outside /\ seen' = seen
  BY DEF Internal
<1>2. Stacked'
  BY <1>1, ToFrame
<1> QED BY <1>2, Quiet

LEMMA Returning ==
  ASSUME IInv, SInv, stack # <<>>, Internal, stack' = Below \/ stack' = <<>>
  PROVE  SInv'
<1>1. Outside /\ seen' = seen
  BY DEF Internal
<1>2. Stacked'
  BY <1>1, ToCaller
<1> QED BY <1>2, Quiet

(***************************************************************************)
(* TypeFromGoType.                                                         *)
(***************************************************************************)

LEMMA InferenceKeeps == ASSUME IInv, SInv, Inference PROVE SInv'
<1>1. stack # <<>> /\ Internal
  BY DEF Inference, InferDirectly, InferInside, ArrayTypeDone, Infers, At, Running, Resumed
<1>2. CASE InferDirectly \/ ArrayTypeDone
  <2>1. stack' = Below \/ stack' = <<>>
    BY <1>2 DEF InferDirectly, ArrayTypeDone, ReturnOrPanic, Return, Abort
  <2> QED BY <1>1, <2>1, Returning
<1>3. CASE InferInside
  <2>1. \A op \in TypeOps : \A t : TypeFrame(op, t).op \in TypeOps
    BY DEF TypeFrame, Frame
  <2>2. \A op \in {"typeOf", "structType"} : \A t : Legit(TypeFrame(op, t), pc, Hooked, seen.fell)
    BY <2>1, TypeFrameLegit DEF TypeOps
  <2>3. /\ Legit([top EXCEPT !.op = "arrayType"], pc, Hooked, seen.fell)
        /\ Suspended([top EXCEPT !.op = "arrayType"])
    <3> DEFINE f == [top EXCEPT !.op = "arrayType"]
    <3>1. "op" \in DOMAIN top
      BY <1>1, TopFrame DEF FrameOK
    <3>2. f.op = "arrayType"
      BY <3>1
    <3> HIDE DEF f
    <3>3. Legit(f, pc, Hooked, seen.fell) /\ Suspended(f)
      BY <3>2, TypeFrameLegit DEF TypeOps, Suspended
    <3> QED BY <3>3 DEF f
  <2>4. \/ \E op \in {"typeOf", "structType"} : \E t : Become(TypeFrame(op, t))
        \/ CallFrom([top EXCEPT !.op = "arrayType"], TypeFrame("structType", Elem(top.v.type)))
    BY <1>3 DEF InferInside
  <2> QED BY <1>1, <2>2, <2>3, <2>4, Moving, Calling
<1> QED BY <1>2, <1>3 DEF Inference

(***************************************************************************)
(* encodeValue: the encoder hook.                                          *)
(***************************************************************************)

\* A frame that encodes a value.
LEMMA EncodingTop ==
  ASSUME IInv, SInv, stack # <<>>, top.op \notin TypeOps
  PROVE  /\ FrameOK(top) /\ WellFormed(top.v) /\ Shaped(top.v) /\ pc = "encode"
         /\ \A i \in 1..Len(top.v.parts) : WellFormed(top.v.parts[i])
         /\ \A op : [top EXCEPT !.op = op].op = op /\ [top EXCEPT !.op = op].v = top.v
<1>1. FrameOK(top) /\ WellFormed(top.v) /\ pc = "encode"
  BY TopSound DEF FrameSound
<1>2. \A op : [top EXCEPT !.op = op].op = op /\ [top EXCEPT !.op = op].v = top.v
  BY <1>1 DEF FrameOK
<1> QED BY <1>1, <1>2, Components

LEMMA AtValue ==
  ASSUME IInv, SInv, At("value")
  PROVE  /\ stack # <<>> /\ FrameOK(top) /\ WellFormed(top.v) /\ Shaped(top.v)
         /\ pc = "encode" /\ top.op = "value"
<1>1. stack # <<>> /\ top.op \notin TypeOps /\ top.op = "value"
  BY DEF At, Running, TypeOps
<1> QED BY <1>1, EncodingTop

LEMMA MirrorLegit ==
  ASSUME IInv, SInv, At("value"), NEW fell, Deferred(top.v, Hooked, fell)
  PROVE  Legit([top EXCEPT !.op = "switch"], pc, Hooked, fell)
<1> DEFINE f == [top EXCEPT !.op = "switch"]
<1>1. f.op = "switch" /\ f.v = top.v /\ WellFormed(top.v) /\ pc = "encode"
  BY AtValue DEF FrameOK
<1> HIDE DEF f
<1>2. Legit(f, pc, Hooked, fell)
  BY <1>1 DEF Legit, FrameSound
<1> QED BY <1>2 DEF f

LEMMA SkipEncodersKeeps == ASSUME IInv, SInv, SkipEncoders PROVE SInv'
<1>1. At("value") /\ stack # <<>> /\ Internal /\ Become([top EXCEPT !.op = "switch"])
  BY AtValue DEF SkipEncoders, Mirror
<1>2. top.v.type \notin Hooked /\ ~HookOnElems(top.v.type)
  BY HasEncoderMeans DEF SkipEncoders
<1>3. Deferred(top.v, Hooked, seen.fell)
  BY <1>2, HasEncoderMeans DEF Deferred, HookOnElems
<1> QED BY <1>1, <1>3, MirrorLegit, Moving

LEMMA ConsultEncoderKeeps == ASSUME IInv, SInv, ConsultEncoder PROVE SInv'
<1> DEFINE t == top.v.type
           c == <<t, cfg.encoders[t], top.from>>
<1>1. At("value") /\ stack # <<>> /\ Outside /\ t \in Hooked /\ pc = "encode"
  BY AtValue, HasEncoderMeans DEF ConsultEncoder
<1>2. PICK r : /\ IF IsFallthrough(r) THEN Mirror ELSE Return(r)
               /\ seen' = [seen EXCEPT
                    !.consulted = @ \cup {c},
                    !.fell = @ \cup (IF IsFallthrough(r) THEN {t} ELSE {})]
  BY DEF ConsultEncoder
<1>3. DOMAIN seen = {"consulted", "fell", "mirrored", "chased"}
  BY DEF SInv, Ran
<1> DEFINE new == IF IsFallthrough(r) THEN {t} ELSE {}
<1>4. /\ DOMAIN seen' = {"consulted", "fell", "mirrored", "chased"}
      /\ seen'.consulted = seen.consulted \cup {c}
      /\ seen'.fell = seen.fell \cup new
      /\ seen'.mirrored = seen.mirrored
  BY <1>2, <1>3
<1>5. Session' /\ Hooked' = Hooked /\ pc' = pc /\ cfg' = cfg
  BY <1>1, SameSession
<1>6. Stacked'
  <2>1. CASE IsFallthrough(r)
    <3>1. t \in seen'.fell /\ Become([top EXCEPT !.op = "switch"])
      BY <1>2, <1>4, <2>1 DEF Mirror
    <3>2. Deferred(top.v, Hooked, seen'.fell)
      BY <1>1, <3>1 DEF Deferred
    <3> QED BY <1>1, <1>4, <3>1, <3>2, MirrorLegit, ToFrame
  <2>2. CASE ~IsFallthrough(r)
    <3>1. stack' = Below
      BY <1>2, <2>2 DEF Return
    <3> QED BY <1>1, <1>4, <3>1, ToCaller
  <2> QED BY <2>1, <2>2
<1>7. \A d \in seen'.consulted : d[1] \in DOMAIN cfg.encoders /\ d[2] = cfg.encoders[d[1]]
  <2>1. c[1] = t /\ c[2] = cfg.encoders[t] /\ t \in DOMAIN cfg.encoders
    BY <1>1 DEF Hooked
  <2> QED BY <1>4, <2>1 DEF SInv, Ran
<1>8. \A u \in seen'.mirrored \cap Hooked : Waived(u, seen'.fell)
  BY <1>4 DEF SInv, Ran, Waived
<1>9. Ran'
  BY <1>1, <1>4, <1>5, <1>7, <1>8 DEF Ran, SInv
<1> QED BY <1>5, <1>6, <1>9 DEF SInv

LEMMA encodeCustomSliceKeeps == ASSUME IInv, SInv, encodeCustomSlice PROVE SInv'
<1> DEFINE et == goType(Elem(top.v.type))
           f  == [top EXCEPT !.op = "customSlice", !.typ = et, !.pos = 1]
<1>1. /\ At("value") /\ stack # <<>> /\ Internal /\ FrameOK(top) /\ WellFormed(top.v)
      /\ pc = "encode"
  BY AtValue DEF encodeCustomSlice
<1>2. top.v.type \notin Hooked
  BY HasEncoderMeans DEF encodeCustomSlice, HookOnElems
<1>3. CASE Len(top.v.parts) = 0 /\ et = NoType
  <2>1. Become([top EXCEPT !.op = "switch"])
    BY <1>3 DEF encodeCustomSlice, Mirror
  <2>2. Deferred(top.v, Hooked, seen.fell)
    BY <1>2, <1>3 DEF Deferred
  <2> QED BY <1>1, <2>1, <2>2, MirrorLegit, Moving
<1>4. CASE ~(Len(top.v.parts) = 0 /\ et = NoType)
  <2>1. stack' = Below \/ Become(f)
    BY <1>4 DEF encodeCustomSlice, Return
  <2>2. Legit(f, pc, Hooked, seen.fell)
    <3>1. f.op = "customSlice" /\ f.v = top.v
      BY <1>1 DEF FrameOK
    <3> HIDE DEF f
    <3> QED BY <1>1, <3>1, ValueFrameLegit DEF Ops, TypeOps
  <2> HIDE DEF f
  <2> QED BY <1>1, <2>1, <2>2, Moving, Returning
<1> QED BY <1>3, <1>4

(***************************************************************************)
(* encodeValue: the type switch.                                           *)
(***************************************************************************)

LEMMA AtSwitch ==
  ASSUME IInv, SInv, NEW case, Switches(case)
  PROVE  /\ stack # <<>> /\ FrameOK(top) /\ WellFormed(top.v) /\ Shaped(top.v)
         /\ \A i \in 1..Len(top.v.parts) : WellFormed(top.v.parts[i])
         /\ pc = "encode" /\ SwitchCase(top.v.type) = case
         /\ Deferred(top.v, Hooked, seen.fell)
<1>1. /\ stack # <<>> /\ top.op \notin TypeOps /\ top.op = "switch"
      /\ SwitchCase(top.v.type) = case
  BY DEF Switches, At, Running, TypeOps
<1>2. Deferred(top.v, Hooked, seen.fell)
  BY <1>1, TopSound
<1> QED BY <1>1, <1>2, EncodingTop

\* The record of what ran gains the types of values built-in code encodes.
Recorded(ts) ==
  /\ Outside
  /\ DOMAIN seen' = {"consulted", "fell", "mirrored", "chased"}
  /\ seen'.consulted = seen.consulted /\ seen'.fell = seen.fell
  /\ seen'.mirrored = seen.mirrored \cup ts

LEMMA MirroredRecords == ASSUME SInv, NEW ts, Mirrored(ts) PROVE Recorded(ts)
<1>1. /\ seen' = [seen EXCEPT !.mirrored = @ \cup ts] /\ Outside
      /\ DOMAIN seen = {"consulted", "fell", "mirrored", "chased"}
  BY DEF Mirrored, SInv, Ran
<1> QED BY <1>1 DEF Recorded

LEMMA RecordedKeeps ==
  ASSUME IInv, SInv, stack # <<>>, pc = "encode", NEW ts, Recorded(ts), Stacked',
         UntypedNil \notin ts, \A t \in ts \cap Hooked : Waived(t, seen.fell)
  PROVE  SInv'
<1>1. /\ DOMAIN seen' = {"consulted", "fell", "mirrored", "chased"}
      /\ seen'.consulted = seen.consulted /\ seen'.fell = seen.fell
      /\ seen'.mirrored = seen.mirrored \cup ts
  BY DEF Recorded
<1>2. Session' /\ Hooked' = Hooked /\ pc' = pc /\ cfg' = cfg
  BY SameSession DEF Recorded
<1>3. \A t \in seen'.mirrored \cap Hooked : Waived(t, seen'.fell)
  BY <1>1 DEF SInv, Ran
<1>4. Ran'
  BY <1>1, <1>2, <1>3 DEF Ran, SInv
<1> QED BY <1>2, <1>4 DEF SInv

\* The value the switch is on has been offered to the encoder of its type.
LEMMA SwitchedKeeps ==
  ASSUME IInv, SInv, NEW case, case # "nil", Switches(case), Recorded({top.v.type}), Stacked'
  PROVE  SInv'
<1>1. /\ stack # <<>> /\ pc = "encode" /\ SwitchCase(top.v.type) = case
      /\ Deferred(top.v, Hooked, seen.fell)
  BY AtSwitch
<1>2. top.v.type # UntypedNil
  BY <1>1 DEF SwitchCase
<1>3. \A t \in {top.v.type} \cap Hooked : Waived(t, seen.fell)
  BY <1>1 DEF Deferred, Waived
<1> QED BY <1>1, <1>2, <1>3, RecordedKeeps

\* It is encoded on the spot.
LEMMA AnsweredKeeps ==
  ASSUME IInv, SInv, NEW case, case # "nil", Switches(case), Mirrored({top.v.type}),
         stack' = Below \/ stack' = <<>>
  PROVE  SInv'
<1>1. Recorded({top.v.type}) /\ stack # <<>>
  BY MirroredRecords, AtSwitch
<1>2. Stacked'
  BY <1>1, ToCaller DEF Recorded
<1> QED BY <1>1, <1>2, SwitchedKeeps

LEMMA EncodeConcreteKeeps == ASSUME IInv, SInv, EncodeConcrete PROVE SInv'
<1> DEFINE v  == top.v
           ts == {v.parts[i].type : i \in 1..Len(v.parts)}
<1>1. PICK case : Switches(case)
  BY DEF EncodeConcrete
<1>2. stack # <<>> /\ pc = "encode" /\ stack' = Below
  BY <1>1, AtSwitch DEF EncodeConcrete, Return
<1>3. CASE Internal
  BY <1>2, <1>3, Returning
<1>4. CASE Switches("leaf") /\ Mirrored({v.type})
  BY <1>2, <1>4, AnsweredKeeps
<1>5. CASE Switches("slice") /\ Mirrored({v.type} \cup ts)
  <2>1. SwitchCase(v.type) = "slice" /\ Deferred(v, Hooked, seen.fell) /\ Shaped(v)
    BY <1>5, AtSwitch
  <2>2. v.type # UntypedNil /\ Kind(v.type) = "slice" /\ Elem(v.type) # UntypedNil
    BY <2>1, Cases, NilIsNoElement
  <2>3. \A i \in 1..Len(v.parts) : v.parts[i].type = Elem(v.type)
    BY <2>1 DEF Shaped
  <2>4. \A t \in {v.type} \cap Hooked : Waived(t, seen.fell)
    BY <2>1 DEF Deferred, Waived
  <2>5. \A i \in 1..Len(v.parts) : v.parts[i].type \in Hooked => Waived(v.parts[i].type, seen.fell)
    <3> TAKE i \in 1..Len(v.parts)
    <3> HAVE v.parts[i].type \in Hooked
    <3>1. Elem(v.type) \in Hooked /\ v.parts[i].type = Elem(v.type)
      BY <2>3
    <3>2. Len(v.parts) # 0
      OBVIOUS
    <3>3. v.type \in seen.fell
      BY <2>1, <2>2, <3>1, <3>2 DEF Deferred
    <3> QED BY <2>2, <3>1, <3>3 DEF Waived
  <2>6. UntypedNil \notin {v.type} \cup ts
    BY <2>2, <2>3
  <2>7. \A t \in ({v.type} \cup ts) \cap Hooked : Waived(t, seen.fell)
    BY <2>4, <2>5
  <2> HIDE DEF ts
  <2>8. Recorded({v.type} \cup ts)
    BY <1>5, MirroredRecords
  <2>9. Stacked'
    BY <1>2, <2>8, ToCaller DEF Recorded
  <2> QED BY <1>2, <2>6, <2>7, <2>8, <2>9, RecordedKeeps
<1> QED BY <1>3, <1>4, <1>5 DEF EncodeConcrete

LEMMA PassGCVKeeps == ASSUME IInv, SInv, PassGCV PROVE SInv'
<1>1. Switches("gcv") /\ Mirrored({top.v.type}) /\ stack' = Below
  BY DEF PassGCV, Return
<1> QED BY <1>1, AnsweredKeeps

LEMMA ReencodeKeeps ==
  ASSUME IInv, SInv, NEW case, case # "nil", Switches(case), Mirrored({top.v.type}),
         NEW w, WellFormed(w), Reencode(w)
  PROVE  SInv'
<1> DEFINE f == Frame("value", w)
<1>1. f.op = "value" /\ f.v = w
  BY DEF Frame
<1>2. Become(f)
  BY DEF Reencode
<1> HIDE DEF f
<1>3. Recorded({top.v.type}) /\ stack # <<>> /\ pc = "encode"
  BY MirroredRecords, AtSwitch
<1>4. Legit(f, pc, Hooked, seen'.fell)
  BY <1>1, <1>3, ValueFrameLegit DEF Ops, TypeOps
<1>5. Stacked'
  BY <1>2, <1>3, <1>4, ToFrame DEF Recorded
<1> QED BY <1>3, <1>5, SwitchedKeeps

LEMMA UnwrapNullProtoKeeps == ASSUME IInv, SInv, UnwrapNullProto PROVE SInv'
<1>1. /\ Switches("nullProto") /\ Mirrored({top.v.type}) /\ Shaped(top.v)
      /\ \A i \in 1..Len(top.v.parts) : WellFormed(top.v.parts[i])
      /\ SwitchCase(top.v.type) = "nullProto"
  BY AtSwitch DEF UnwrapNullProto
<1>2. CASE top.v.lit = "null"
  <2>1. stack' = Below
    BY <1>2 DEF UnwrapNullProto, Return
  <2> QED BY <1>1, <2>1, AnsweredKeeps
<1>3. CASE top.v.lit # "null"
  <2>1. Reencode(top.v.parts[1])
    BY <1>3 DEF UnwrapNullProto
  <2>2. Len(top.v.parts) \in Nat
    BY <1>1, SequenceLen DEF Shaped
  <2>3. Len(top.v.parts) > 0
    BY <1>1, <1>3 DEF Shaped
  <2>4. 1 \in 1..Len(top.v.parts)
    BY <2>2, <2>3
  <2>5. WellFormed(top.v.parts[1])
    BY <1>1, <2>4
  <2> QED BY <1>1, <2>1, <2>5, ReencodeKeeps
<1> QED BY <1>2, <1>3

LEMMA encodeViaEncoderKeeps == ASSUME GoValues, IInv, SInv, encodeViaEncoder PROVE SInv'
<1> DEFINE f == [top EXCEPT !.op = "encoder"]
<1>1. /\ Switches("encoder") /\ stack # <<>> /\ pc = "encode" /\ FrameOK(top)
      /\ WellFormed(top.v)
  BY AtSwitch DEF encodeViaEncoder
<1>2. PICK o : /\ WellFormed(o.v)
               /\ IF o.err # "" THEN Return(Err(o.err))
                  ELSE CallFrom(f, Frame("value", o.v))
  BY DEF encodeViaEncoder, GoValues
<1>3. Recorded({top.v.type})
  <2> DEFINE t == {top.v.type}
             again == t \cap Answering
  <2>1. /\ seen' = [seen EXCEPT !.mirrored = @ \cup t, !.chased = @ \cup again]
        /\ DOMAIN seen = {"consulted", "fell", "mirrored", "chased"} /\ Outside
    BY DEF encodeViaEncoder, SInv, Ran
  <2> HIDE DEF t, again
  <2>2. Recorded(t)
    BY <2>1 DEF Recorded
  <2> QED BY <2>2 DEF t
<1>4. CASE o.err # ""
  <2>1. stack' = Below
    BY <1>2, <1>4 DEF Return
  <2>2. Stacked'
    BY <1>1, <1>3, <2>1, ToCaller DEF Recorded
  <2> QED BY <1>1, <1>3, <2>2, SwitchedKeeps
<1>5. CASE o.err = ""
  <2> DEFINE g == Frame("value", o.v)
  <2>1. g.op = "value" /\ g.v = o.v
    BY DEF Frame
  <2>2. f.op = "encoder" /\ f.v = top.v
    BY <1>1 DEF FrameOK
  <2>3. CallFrom(f, g)
    BY <1>2, <1>5
  <2> HIDE DEF f, g
  <2>4. /\ Legit(f, pc, Hooked, seen'.fell) /\ Legit(g, pc, Hooked, seen'.fell)
        /\ Suspended(f)
    BY <1>1, <1>2, <2>1, <2>2, ValueFrameLegit DEF Ops, TypeOps, Suspended
  <2>5. Stacked'
    BY <1>1, <1>3, <2>3, <2>4, ToCallee DEF Recorded
  <2> QED BY <1>1, <1>3, <2>5, SwitchedKeeps
<1> QED BY <1>4, <1>5

LEMMA EncoderDoneKeeps == ASSUME IInv, SInv, EncoderDone PROVE SInv'
<1>1. stack # <<>> /\ Internal /\ stack' = Below
  BY DEF EncoderDone, Resumed, Return
<1> QED BY <1>1, Returning

LEMMA EncodeProtoKeeps == ASSUME IInv, SInv, EncodeProto PROVE SInv'
<1>1. Switches("proto") /\ Mirrored({top.v.type}) /\ stack' = Below
  BY DEF EncodeProto, Return
<1> QED BY <1>1, AnsweredKeeps

LEMMA convertCustomValueKeeps == ASSUME IInv, SInv, convertCustomValue PROVE SInv'
<1> DEFINE w == Converted(top.v, customBaseGoType(top.v.type))
           f == [Frame("value", w) EXCEPT !.from = top.from]
<1>1. /\ Switches("custom") /\ Mirrored({top.v.type}) /\ stack # <<>>
      /\ pc = "encode" /\ WellFormed(top.v) /\ SwitchCase(top.v.type) = "custom"
  BY AtSwitch DEF convertCustomValue
<1>2. CASE ConvertPanics(top.v, customBaseGoType(top.v.type))
  <2>1. stack' = <<>>
    BY <1>2 DEF convertCustomValue, Abort
  <2> QED BY <1>1, <2>1, AnsweredKeeps
<1>3. CASE ~ConvertPanics(top.v, customBaseGoType(top.v.type))
  <2>1. Become(f)
    BY <1>3 DEF convertCustomValue
  <2>2. WellFormed(w)
    BY <1>1, <1>3, ConvertedWellFormed
  <2> HIDE DEF w
  <2>3. f.op = "value" /\ f.v = w
    BY DEF Frame
  <2> HIDE DEF f
  <2>4. Legit(f, pc, Hooked, seen'.fell)
    BY <1>1, <2>2, <2>3, ValueFrameLegit DEF Ops, TypeOps
  <2>5. Recorded({top.v.type})
    BY <1>1, MirroredRecords
  <2>6. Stacked'
    BY <1>1, <2>1, <2>4, <2>5, ToFrame DEF Recorded
  <2> QED BY <1>1, <2>5, <2>6, SwitchedKeeps
<1> QED BY <1>2, <1>3

(***************************************************************************)
(* Structs.                                                                *)
(***************************************************************************)

\* A frame that goes on in its function with the same value.
LEMMA SameFunction ==
  ASSUME NEW f, NEW g, NEW p, NEW R, NEW fell, Legit(f, p, R, fell),
         g.op = f.op, g.v = f.v, f.op = "struct" => ~f.v.nil
  PROVE  Legit(g, p, R, fell)
  BY DEF Legit, FrameSound

\* A frame that no longer looks at its value.
LEMMA MovedLegit ==
  ASSUME NEW f, FrameOK(f), WellFormed(f.v), NEW op \in {"nilStruct", "protoArray"}
  PROVE  /\ \A p, R, fell : p # "describe" => Legit([f EXCEPT !.op = op], p, R, fell)
         /\ Suspended([f EXCEPT !.op = op])
<1> DEFINE g == [f EXCEPT !.op = op]
<1>1. g.op = op /\ g.v = f.v
  BY DEF FrameOK
<1> HIDE DEF g
<1>2. /\ \A p, R, fell : p # "describe" => Legit(g, p, R, fell)
      /\ Suspended(g)
  BY <1>1, ValueFrameLegit DEF Ops, TypeOps, Suspended
<1> QED BY <1>2 DEF g

LEMMA EnterStructKeeps == ASSUME IInv, SInv, EnterStruct PROVE SInv'
<1> DEFINE f == [top EXCEPT !.op = "struct"]
<1>1. /\ stack # <<>> /\ FrameOK(top) /\ WellFormed(top.v) /\ Shaped(top.v)
      /\ pc = "encode" /\ SwitchCase(top.v.type) = "struct" /\ Switches("struct")
  BY AtSwitch DEF EnterStruct
<1>2. top.op = "switch" /\ top.pos = 0 /\ Become(f)
  BY <1>1 DEF EnterStruct, Switches, At, FrameOK
<1>3. f.op = "struct" /\ f.v = top.v /\ f.pos = 0
  BY <1>1, <1>2 DEF FrameOK
<1> HIDE DEF f
<1>4. IsStructOrStructPtr(top.v.type) /\ FullStruct(top.v)
  BY <1>1, Cases DEF Shaped
<1>5. Legit(f, pc, Hooked, seen'.fell)
  <2>1. ~(f.pos > 0)
    BY <1>3
  <2> QED BY <1>1, <1>3, <1>4, <2>1 DEF Legit, FrameSound
<1>6. Recorded({top.v.type})
  BY MirroredRecords DEF EnterStruct
<1>7. Stacked'
  BY <1>1, <1>2, <1>5, <1>6, ToFrame DEF Recorded
<1> QED BY <1>1, <1>6, <1>7, SwitchedKeeps

LEMMA ZeroStructLegit ==
  ASSUME NEW t \in DOMAIN Go, Kind(t) = "struct"
  PROVE  \A p, R, fell : p # "describe" => Legit(StructFrame(Zero(t)), p, R, fell)
<1> DEFINE z == Zero(t)
<1>1. WellFormed(z) /\ z.type = t /\ FullStruct(z)
  BY ZeroWellFormed DEF ZeroOK, Holds
<1> HIDE DEF z
<1>2. \A p, R, fell : p # "describe" => Legit(StructFrame(z), p, R, fell)
  BY <1>1, StructFrameLegit DEF IsStructOrStructPtr
<1> QED BY <1>2 DEF z

LEMMA StructBodyKeeps == ASSUME IInv, SInv, StructBody PROVE SInv'
<1>1. stack # <<>> /\ Internal /\ top.op = "struct"
  BY DEF StructBody, At, Running
<1>2. /\ FrameOK(top) /\ FrameSound(top) /\ WellFormed(top.v) /\ Shaped(top.v) /\ pc = "encode"
      /\ Legit(top, pc, Hooked, seen.fell)
  <2>1. Legit(top, pc, Hooked, seen.fell)
    BY <1>1, LegitPopped DEF IInv, SInv, Stacked, top
  <2> QED BY <1>1, <2>1, TopSound, EncodingTop DEF TypeOps
<1>3. IsStructOrStructPtr(top.v.type) /\ FullStruct(top.v) /\ top.v.type \in DOMAIN Go
  BY <1>1, <1>2 DEF FrameSound, TypeOps, Shaped
<1>4. CASE top.v.nil
  <2> DEFINE e == Elem(top.v.type)
  <2>1. CallFrom([top EXCEPT !.op = "nilStruct"], StructFrame(Zero(e)))
    BY <1>4 DEF StructBody
  <2>2. Kind(top.v.type) = "ptr"
    BY <1>3, <1>4 DEF FullStruct
  <2>3. e \in DOMAIN Go /\ Kind(e) = "struct"
    BY <1>3, <2>2, GoAssumption DEF IsStructOrStructPtr, Kind, Elem
  <2> HIDE DEF e
  <2>4. Legit(StructFrame(Zero(e)), pc, Hooked, seen.fell)
    BY <1>2, <2>3, ZeroStructLegit
  <2>5. /\ Legit([top EXCEPT !.op = "nilStruct"], pc, Hooked, seen.fell)
        /\ Suspended([top EXCEPT !.op = "nilStruct"])
    BY <1>2, MovedLegit
  <2> QED BY <1>1, <2>1, <2>4, <2>5, Calling
<1>5. CASE ~top.v.nil
  <2> DEFINE f == [top EXCEPT !.pos = 1]
  <2>1. Become(f)
    BY <1>5 DEF StructBody
  <2>2. f.op = top.op /\ f.v = top.v
    BY <1>2 DEF FrameOK
  <2> HIDE DEF f
  <2>3. Legit(f, pc, Hooked, seen.fell)
    BY <1>1, <1>2, <1>5, <2>2, SameFunction
  <2> QED BY <1>1, <2>1, <2>3, Moving
<1> QED BY <1>4, <1>5

\* The top frame, when it walks the fields of a struct.
LEMMA AtFields ==
  ASSUME IInv, SInv, stack # <<>>, top.op \in {"struct", "structType"}
  PROVE  /\ FrameOK(top) /\ Legit(top, pc, Hooked, seen.fell)
         /\ Advanced(top).op = top.op /\ Advanced(top).v = top.v
         /\ \A x : [Advanced(top) EXCEPT !.acc = Append(@, x)].op = top.op
         /\ \A x : [Advanced(top) EXCEPT !.acc = Append(@, x)].v = top.v
<1>1. FrameOK(top) /\ Legit(top, pc, Hooked, seen.fell)
  BY TopFrame, LegitPopped DEF IInv, SInv, Stacked, top
<1>2. Advanced(top).op = top.op /\ Advanced(top).v = top.v /\ DOMAIN Advanced(top) = DOMAIN top
  BY <1>1 DEF FrameOK, Advanced
<1> DEFINE a == Advanced(top)
<1>3. a.op = top.op /\ a.v = top.v
  BY <1>2
<1>4. \A x : [a EXCEPT !.acc = Append(@, x)].op = a.op /\ [a EXCEPT !.acc = Append(@, x)].v = a.v
  BY <1>1, <1>2 DEF FrameOK
<1> QED BY <1>1, <1>2, <1>3, <1>4

LEMMA StructFieldKeeps == ASSUME IInv, SInv, StructField PROVE SInv'
<1>1. /\ stack # <<>> /\ Internal /\ top.op \in {"struct", "structType"} /\ top.pos > 0
      /\ top.pos <= Len(Fields(top.v.type))
  BY DEF StructField, InFields, Running
<1>2. /\ FrameOK(top) /\ Legit(top, pc, Hooked, seen.fell) /\ Suspended(top)
  BY <1>1, AtFields DEF Suspended
<1>3. top.op = "struct" =>
        ~top.v.nil /\ FullStruct(top.v) /\ pc = "encode"
          /\ \A i \in 1..Len(top.v.parts) : WellFormed(top.v.parts[i])
  BY <1>1, <1>2, TopSound, EncodingTop DEF FrameSound, TypeOps
<1>4. CASE field.anon
  <2>1. stack' = Below
    BY <1>4 DEF StructField, Return
  <2> QED BY <1>1, <2>1, Returning
<1>5. CASE ~field.anon /\ ~field.exported
  <2>1. Become(Advanced(top))
    BY <1>5 DEF StructField
  <2>2. Legit(Advanced(top), pc, Hooked, seen.fell)
    BY <1>1, <1>2, <1>3, AtFields, SameFunction
  <2> QED BY <1>1, <2>1, <2>2, Moving
<1>6. CASE ~field.anon /\ field.exported /\ top.op = "struct"
  <2> DEFINE w == top.v.parts[top.pos]
             f == Frame("value", w)
  <2>1. CallFrom(top, f)
    BY <1>6 DEF StructField
  <2>2. top.pos \in 1..Len(top.v.parts)
    <3>1. Len(top.v.parts) = Len(Fields(top.v.type)) /\ top.pos \in Nat
      BY <1>2, <1>3, <1>6 DEF FullStruct, FrameOK
    <3>2. Len(top.v.parts) \in Nat
      BY <1>1, <1>6, EncodingTop, SequenceLen DEF TypeOps, Shaped
    <3> QED BY <1>1, <3>1, <3>2
  <2>3. WellFormed(w) /\ pc = "encode"
    BY <1>3, <1>6, <2>2
  <2> HIDE DEF w
  <2>4. f.op = "value" /\ f.v = w
    BY DEF Frame
  <2> HIDE DEF f
  <2>5. Legit(f, pc, Hooked, seen.fell)
    BY <2>3, <2>4, ValueFrameLegit DEF Ops, TypeOps
  <2> QED BY <1>1, <1>2, <2>1, <2>5, Calling
<1>7. CASE ~field.anon /\ field.exported /\ top.op = "structType"
  <2> DEFINE f == TypeFrame("typeOf", field.type)
  <2>1. CallFrom(top, f)
    BY <1>7 DEF StructField
  <2>2. f.op = "typeOf"
    BY DEF TypeFrame, Frame
  <2> HIDE DEF f
  <2>3. Legit(f, pc, Hooked, seen.fell)
    BY <2>2, TypeFrameLegit DEF TypeOps
  <2> QED BY <1>1, <1>2, <2>1, <2>3, Calling
<1> QED BY <1>1, <1>4, <1>5, <1>6, <1>7

LEMMA StructFieldDoneKeeps == ASSUME IInv, SInv, StructFieldDone PROVE SInv'
<1> DEFINE x == [name |-> field.name, type |-> ret.type, wire |-> ret.wire]
           f == [Advanced(top) EXCEPT !.acc = Append(@, x)]
<1>1. stack # <<>> /\ Internal /\ top.op \in {"struct", "structType"}
  BY DEF StructFieldDone, Resumed
<1>2. stack' = Below \/ Become(f)
  BY DEF StructFieldDone, Return
<1> HIDE DEF x
<1>3. /\ f.op = top.op /\ f.v = top.v /\ FrameOK(top)
      /\ Legit(top, pc, Hooked, seen.fell)
  BY <1>1, AtFields
<1> HIDE DEF f
<1>4. top.op = "struct" => ~top.v.nil
  <2>1. ret # NoResult
    BY DEF StructFieldDone, Resumed
  <2>2. Suspended(top)
    BY <1>1, <2>1, SuspendedBelow
  <2> QED BY <1>3, <2>2 DEF Suspended, Legit, FrameSound, TypeOps
<1>5. Legit(f, pc, Hooked, seen.fell)
  BY <1>3, <1>4, SameFunction
<1> QED BY <1>1, <1>2, <1>5, Moving, Returning

LEMMA StructDoneKeeps == ASSUME IInv, SInv, StructDone \/ NilStructDone PROVE SInv'
<1>1. stack # <<>> /\ Internal /\ stack' = Below
  BY DEF StructDone, NilStructDone, InFields, Running, Resumed, Return
<1> QED BY <1>1, Returning

(***************************************************************************)
(* Loops over the elements of a slice.                                     *)
(***************************************************************************)

LEMMA EnterStructArrayKeeps == ASSUME IInv, SInv, EnterStructArray PROVE SInv'
<1> DEFINE t == top.v.type
           e == StructBehind(Elem(t))
           f == [top EXCEPT !.op = "structArray"]
<1>1. /\ stack # <<>> /\ FrameOK(top) /\ WellFormed(top.v) /\ Shaped(top.v)
      /\ pc = "encode" /\ SwitchCase(t) = "structArray" /\ Switches("structArray")
      /\ Deferred(top.v, Hooked, seen.fell)
  BY AtSwitch DEF EnterStructArray
<1>2. CallFrom(f, StructFrame(Zero(e)))
  BY DEF EnterStructArray
<1>3. f.op = "structArray" /\ f.v = top.v
  BY <1>1 DEF FrameOK
<1> HIDE DEF f
<1>7. Recorded({top.v.type})
  BY MirroredRecords DEF EnterStructArray
<1>4. Legit(f, pc, Hooked, seen'.fell) /\ Suspended(f)
  BY <1>1, <1>3, <1>7 DEF Legit, FrameSound, Suspended, Recorded
<1>5. e \in DOMAIN Go /\ Kind(e) = "struct"
  <2>1. t \in DOMAIN Go /\ Kind(t) = "slice" /\ IsStructOrStructPtr(Elem(t))
    BY <1>1, Cases DEF Shaped
  <2>2. Elem(t) \in DOMAIN Go
    BY <2>1, GoAssumption DEF Kind, Elem
  <2> QED BY <2>1, <2>2, GoAssumption DEF IsStructOrStructPtr, StructBehind, Kind, Elem
<1> HIDE DEF e
<1>6. Legit(StructFrame(Zero(e)), pc, Hooked, seen'.fell)
  BY <1>1, <1>5, ZeroStructLegit
<1>8. Stacked'
  BY <1>1, <1>2, <1>4, <1>6, <1>7, ToCallee DEF Recorded
<1> QED BY <1>1, <1>7, <1>8, SwitchedKeeps

LEMMA EnterProtoArrayKeeps == ASSUME IInv, SInv, EnterProtoArray PROVE SInv'
<1> DEFINE et == Elem(top.v.type)
           r  == TypeFromDescriptor(IF Implements(et, "Message") THEN "PROTO" ELSE "ENUM", et)
           f  == [top EXCEPT !.op = "protoArray", !.typ = r.type, !.pos = 1]
<1>1. /\ stack # <<>> /\ FrameOK(top) /\ WellFormed(top.v) /\ pc = "encode"
      /\ Switches("protoArray") /\ Mirrored({top.v.type})
  BY AtSwitch DEF EnterProtoArray
<1>2. stack' = <<>> \/ stack' = Below \/ Become(f)
  BY DEF EnterProtoArray, Abort, Return
<1> HIDE DEF r
<1>3. f.op = "protoArray" /\ f.v = top.v
  BY <1>1 DEF FrameOK
<1> HIDE DEF f
<1>4. Legit(f, pc, Hooked, seen'.fell)
  BY <1>1, <1>3, ValueFrameLegit DEF Ops, TypeOps
<1>5. CASE stack' = <<>> \/ stack' = Below
  BY <1>1, <1>5, AnsweredKeeps
<1>6. CASE Become(f)
  <2>1. Recorded({top.v.type})
    BY <1>1, MirroredRecords
  <2>2. Stacked'
    BY <1>1, <1>4, <1>6, <2>1, ToFrame DEF Recorded
  <2> QED BY <1>1, <2>1, <2>2, SwitchedKeeps
<1> QED BY <1>2, <1>5, <1>6

\* The top frame, when it is in a loop.
LEMMA AtLoop ==
  ASSUME IInv, SInv, stack # <<>>, top.op \in Loops
  PROVE  /\ FrameOK(top) /\ FrameSound(top) /\ Legit(top, pc, Hooked, seen.fell) /\ pc = "encode"
         /\ WellFormed(top.v) /\ Shaped(top.v) /\ Suspended(top)
         /\ \A i \in 1..Len(top.v.parts) : WellFormed(top.v.parts[i])
         /\ \A f : f.op = top.op /\ f.v = top.v => Legit(f, pc, Hooked, seen.fell)
         /\ top.op = "structArray" => Deferred(top.v, Hooked, seen.fell)
<1>1. FrameOK(top) /\ Legit(top, pc, Hooked, seen.fell)
  BY TopFrame, LegitPopped DEF IInv, SInv, Stacked, top
<1>2. top.op \notin TypeOps \cup {"struct"}
  BY DEF Loops, TypeOps
<1> QED BY <1>1, <1>2, EncodingTop, SameFunction DEF Suspended, Legit

LEMMA ElemTypeDoneKeeps == ASSUME IInv, SInv, ElemTypeDone PROVE SInv'
<1> DEFINE f == [top EXCEPT !.typ = ret.type, !.pos = 1]
<1>1. stack # <<>> /\ Internal /\ top.op \in Loops /\ FrameOK(top)
  BY AtLoop DEF ElemTypeDone, Resumed
<1>2. stack' = Below \/ Become(f)
  BY DEF ElemTypeDone, Return
<1>3. f.op = top.op /\ f.v = top.v
  BY <1>1 DEF FrameOK
<1> HIDE DEF f
<1>4. Legit(f, pc, Hooked, seen.fell)
  BY <1>1, <1>3, AtLoop
<1> QED BY <1>1, <1>2, <1>4, Moving, Returning

LEMMA PassErrorUpKeeps == ASSUME IInv, SInv, PassErrorUp PROVE SInv'
<1>1. stack # <<>> /\ Internal /\ stack' = Below
  BY DEF PassErrorUp, Resumed, Return
<1> QED BY <1>1, Returning

LEMMA ElementKeeps == ASSUME IInv, SInv, Element PROVE SInv'
<1> DEFINE e == top.v.parts[top.pos]
<1>1. /\ stack # <<>> /\ top.op \in Loops /\ top.pos > 0
      /\ top.pos <= Len(top.v.parts)
  BY DEF Element, InElems, Running
<1>2. /\ FrameOK(top) /\ FrameSound(top) /\ Legit(top, pc, Hooked, seen.fell) /\ pc = "encode"
      /\ Shaped(top.v) /\ Suspended(top)
      /\ \A i \in 1..Len(top.v.parts) : WellFormed(top.v.parts[i])
  BY <1>1, AtLoop
<1>3. top.pos \in 1..Len(top.v.parts)
  <2>1. top.pos \in Nat /\ Len(top.v.parts) \in Nat
    BY <1>2, SequenceLen DEF FrameOK, Shaped
  <2> QED BY <1>1, <2>1
<1>4. WellFormed(e)
  BY <1>2, <1>3
<1>5. CASE top.op = "structArray"
  <2>1. CallFrom(top, StructFrame(e)) /\ Mirrored({e.type})
    BY <1>5 DEF Element
  <2>2. /\ IsStructOrStructPtr(e.type) /\ FullStruct(e)
        /\ SwitchCase(top.v.type) = "structArray"
    BY <1>2, <1>3, <1>5 DEF FrameSound, TypeOps, Shaped
  <2>3. Kind(top.v.type) = "slice" /\ e.type = Elem(top.v.type)
    <3>1. Kind(top.v.type) = "slice" /\ IsStructOrStructPtr(Elem(top.v.type))
      BY <2>2, Cases
    <3>2. Holds(Elem(top.v.type), e)
      BY <1>2, <1>3, <3>1 DEF Shaped, FullSlice
    <3> QED BY <3>1, <3>2 DEF Holds, IsStructOrStructPtr
  <2>4. e.type # UntypedNil
    <3>1. Kind(UntypedNil) \notin {"struct", "ptr"}
      BY BaseAssumption
    <3> QED BY <2>2, <3>1 DEF IsStructOrStructPtr
  <2>5. \A t \in {e.type} \cap Hooked : Waived(t, seen.fell)
    <3>1. Deferred(top.v, Hooked, seen.fell) /\ Len(top.v.parts) # 0
      BY <1>1, <1>3, <1>5, AtLoop
    <3> QED BY <2>3, <3>1 DEF Deferred, Waived
  <2> HIDE DEF e
  <2>6. Recorded({e.type})
    BY <2>1, MirroredRecords
  <2>7. Legit(StructFrame(e), pc, Hooked, seen'.fell)
    BY <1>2, <1>4, <2>2, StructFrameLegit
  <2>8. Legit(top, pc, Hooked, seen'.fell)
    BY <1>2, <2>6 DEF Recorded
  <2>9. Stacked'
    BY <1>1, <1>2, <2>1, <2>6, <2>7, <2>8, ToCallee DEF Recorded
  <2> QED BY <1>1, <1>2, <2>4, <2>5, <2>6, <2>9, RecordedKeeps
<1>6. CASE top.op # "structArray"
  <2> DEFINE f == Frame("value", e)
  <2>1. CallFrom(top, f) /\ Internal
    BY <1>6 DEF Element
  <2> HIDE DEF e
  <2>2. f.op = "value" /\ f.v = e
    BY DEF Frame
  <2> HIDE DEF f
  <2>3. Legit(f, pc, Hooked, seen.fell)
    BY <1>2, <1>4, <2>2, ValueFrameLegit DEF Ops, TypeOps
  <2> QED BY <1>1, <1>2, <2>1, <2>3, Calling
<1> QED BY <1>5, <1>6

LEMMA ElementDoneKeeps == ASSUME IInv, SInv, ElementDone PROVE SInv'
<1> DEFINE x == [type |-> ret.type, wire |-> ret.wire]
           a == Advanced(top)
           f == [a EXCEPT !.acc = Append(@, x)]
<1>1. stack # <<>> /\ Internal /\ top.op \in Loops /\ FrameOK(top)
  BY AtLoop DEF ElementDone, Resumed
<1>2. stack' = Below \/ Become(f)
  BY DEF ElementDone, Return
<1> HIDE DEF x
<1>3. a.op = top.op /\ a.v = top.v /\ DOMAIN a = DOMAIN top
  BY <1>1 DEF FrameOK, Advanced
<1> HIDE DEF a
<1>4. f.op = top.op /\ f.v = top.v
  BY <1>1, <1>3 DEF FrameOK
<1> HIDE DEF f
<1>5. Legit(f, pc, Hooked, seen.fell)
  BY <1>1, <1>4, AtLoop
<1> QED BY <1>1, <1>2, <1>5, Moving, Returning

LEMMA LoopDoneKeeps == ASSUME IInv, SInv, LoopDone PROVE SInv'
<1>1. stack # <<>> /\ Internal /\ stack' = Below
  BY DEF LoopDone, InElems, Running, Return
<1> QED BY <1>1, Returning

LEMMA EncodingKeeps == ASSUME GoValues, IInv, SInv, Encoding PROVE SInv'
<1>1. ASSUME SkipEncoders \/ ConsultEncoder \/ encodeCustomSlice \/ EncodeConcrete
             \/ PassGCV \/ UnwrapNullProto \/ encodeViaEncoder \/ EncoderDone
             \/ EncodeProto \/ convertCustomValue
      PROVE  SInv'
  BY <1>1, SkipEncodersKeeps, ConsultEncoderKeeps, encodeCustomSliceKeeps,
     EncodeConcreteKeeps, PassGCVKeeps, UnwrapNullProtoKeeps, encodeViaEncoderKeeps,
     EncoderDoneKeeps, EncodeProtoKeeps, convertCustomValueKeeps
<1>2. ASSUME EnterStruct \/ StructBody \/ StructField \/ StructFieldDone \/ StructDone
             \/ NilStructDone \/ EnterStructArray \/ EnterProtoArray \/ ElemTypeDone
             \/ PassErrorUp \/ Element \/ ElementDone \/ LoopDone
      PROVE  SInv'
  BY <1>2, EnterStructKeeps, StructBodyKeeps, StructFieldKeeps, StructFieldDoneKeeps,
     StructDoneKeeps, EnterStructArrayKeeps, EnterProtoArrayKeeps, ElemTypeDoneKeeps,
     PassErrorUpKeeps, ElementKeeps, ElementDoneKeeps, LoopDoneKeeps
<1> QED BY <1>1, <1>2 DEF Encoding

(***************************************************************************)
(* The session.                                                            *)
(***************************************************************************)

\* A session that has done nothing yet.
LEMMA Fresh ==
  /\ DOMAIN DefaultConfig = {"handling", "encoders", "goTypes"}
  /\ DOMAIN DefaultConfig.encoders = {}
  /\ DOMAIN Nothing = {"consulted", "fell", "mirrored", "chased"}
  /\ Nothing.consulted = {} /\ Nothing.fell = {} /\ Nothing.mirrored = {}
  BY DEF DefaultConfig, Nothing

LEMMA NothingRan ==
  ASSUME seen = Nothing PROVE Ran
  BY Fresh DEF Ran

LEMMA NoStack ==
  ASSUME stack = <<>> PROVE Stacked
  BY NoFrames, EmptySequence DEF Stacked

LEMMA SessionStarts == Init => SInv
<1> SUFFICES ASSUME Init PROVE SInv
  OBVIOUS
<1>1. stack = <<>> /\ seen = Nothing /\ pc = "idle" /\ cfg = DefaultConfig
  BY DEF Init
<1>2. Session
  BY <1>1, Fresh DEF Session
<1> QED BY <1>1, <1>2, NoStack, NothingRan DEF SInv

\* One frame, or two, on a stack.
LEMMA FirstFrames ==
  /\ \A f : Len(<<f>>) = 1 /\ <<f>>[1] = f
  /\ \A f, g : Len(<<f, g>>) = 2 /\ <<f, g>>[1] = f /\ <<f, g>>[2] = g
  OBVIOUS

LEMMA CallTypeFromGoTypeKeeps == ASSUME IInv, SInv, CallTypeFromGoType PROVE SInv'
<1>1. PICK c \in Calls : call' = c /\ stack' = <<TypeFrame("typeOf", c.v.type)>>
  BY DEF CallTypeFromGoType
<1>2. /\ pc = "idle" /\ pc' = "describe" /\ cfg' = cfg /\ seen' = seen /\ Hooked' = Hooked
      /\ ret' = ret
  BY DEF CallTypeFromGoType, Hooked
<1>3. /\ seen = Nothing /\ DOMAIN cfg = {"handling", "encoders", "goTypes"}
      /\ \A t \in DOMAIN cfg.encoders : Kind(t) # "interface"
  BY <1>2 DEF SInv, Ran, Session
<1>4. Ran'
  BY <1>2, <1>3, Fresh DEF Ran
<1>5. Session'
  BY <1>1, <1>2, <1>3 DEF Session
<1>6. Stacked'
  <2> DEFINE f == TypeFrame("typeOf", c.v.type)
  <2>1. f.op = "typeOf"
    BY DEF TypeFrame, Frame
  <2> HIDE DEF f
  <2>2. \A p, R, fell : Legit(f, p, R, fell) /\ Suspended(f)
    BY <2>1, TypeFrameLegit DEF TypeOps, Suspended
  <2>3. stack' = <<f>>
    BY <1>1 DEF f
  <2> QED BY <2>2, <2>3, FirstFrames DEF Stacked, AllLegit
<1> QED BY <1>4, <1>5, <1>6 DEF SInv

LEMMA CallEncodeKeeps == ASSUME IInv, SInv, CallEncode PROVE SInv'
<1>1. /\ pc = "describe" /\ pc' = "options" /\ stack = <<>> /\ stack' = stack
      /\ todo' = call.opts /\ cfg' = DefaultConfig /\ call' = call /\ seen' = seen
  BY DEF CallEncode
<1>2. call \in Calls /\ seen = Nothing
  BY <1>1 DEF SInv, Session, Ran
<1>3. IsSequence(call.opts) /\ Len(call.opts) \in Nat
  BY <1>2, CallsAssumption, SequenceLen DEF IsSequence
<1>4. Len(call.opts) - Len(call.opts) = 0 /\ \A i \in 1..Len(call.opts) : 0 + i = i
  BY <1>3
<1>5. Applied'
  BY <1>1, <1>3, <1>4, Fresh DEF Applied
<1>6. Session'
  BY <1>1, <1>2, <1>5, Fresh DEF Session
<1> QED BY <1>1, <1>2, <1>6, Fresh, NoFrames, EmptySequence DEF SInv, Ran, Stacked

LEMMA LastOfNext ==
  ASSUME NEW opts, NEW k \in Nat, NEW t, NEW n
  PROVE  /\ Registers(opts[k + 1], t) /\ opts[k + 1].name = n => LastWithin(opts, k + 1, t, n)
         /\ ~Registers(opts[k + 1], t) /\ LastWithin(opts, k, t, n)
              => LastWithin(opts, k + 1, t, n)
<1>1. ASSUME Registers(opts[k + 1], t), opts[k + 1].name = n
      PROVE  LastWithin(opts, k + 1, t, n)
  <2>1. k + 1 \in 1..(k + 1) /\ \A j \in (k + 1 + 1)..(k + 1) : FALSE
    OBVIOUS
  <2> QED BY <1>1, <2>1 DEF LastWithin
<1>2. ASSUME ~Registers(opts[k + 1], t), LastWithin(opts, k, t, n)
      PROVE  LastWithin(opts, k + 1, t, n)
  <2>1. PICK i \in 1..k : /\ Registers(opts[i], t) /\ opts[i].name = n
                          /\ \A j \in (i + 1)..k : ~Registers(opts[j], t)
    BY <1>2 DEF LastWithin
  <2>2. i \in 1..(k + 1) /\ \A j \in (i + 1)..(k + 1) : j \in (i + 1)..k \/ j = k + 1
    OBVIOUS
  <2> QED BY <1>2, <2>1, <2>2 DEF LastWithin
<1> QED BY <1>1, <1>2

LEMMA ApplyOptionKeeps == ASSUME IInv, SInv, ApplyOption PROVE SInv'
<1> DEFINE o == Head(todo)
           k == Len(call.opts) - Len(todo)
<1>1. /\ pc = "options" /\ stack = <<>> /\ stack' = stack /\ seen' = seen /\ call' = call
      /\ todo # <<>>
  BY DEF ApplyOption, IInv
<1>2. /\ call \in Calls /\ seen = Nothing /\ Applied
      /\ DOMAIN cfg = {"handling", "encoders", "goTypes"}
      /\ \A t \in DOMAIN cfg.encoders : Kind(t) # "interface"
  BY <1>1 DEF SInv, Session, Ran
<1>3. Stacked'
  BY <1>1, NoFrames, EmptySequence DEF Stacked
<1>4. CASE o.opt = "encoder" /\ Kind(o.type) = "interface"
  <2>1. pc' = "encode" /\ cfg' = cfg
    BY <1>4 DEF ApplyOption
  <2>2. Session'
    BY <1>1, <1>2, <2>1 DEF Session
  <2>3. Ran'
    BY <1>1, <1>2, <2>1, Fresh DEF Ran
  <2> QED BY <1>3, <2>2, <2>3 DEF SInv
<1>5. CASE ~(o.opt = "encoder" /\ Kind(o.type) = "interface")
  <2>1. pc' = pc /\ todo' = Tail(todo)
    BY <1>5 DEF ApplyOption
  <2>2. /\ IsSequence(todo) /\ k \in Nat /\ Len(call.opts) \in Nat
        /\ \A i \in 1..Len(todo) : todo[i] = call.opts[k + i]
        /\ \A t \in DOMAIN cfg.encoders : LastWithin(call.opts, k, t, cfg.encoders[t])
    BY <1>2, CallsAssumption DEF Applied
  <2>3. /\ Len(todo) \in Nat \ {0} /\ Len(todo') = Len(todo) - 1 /\ IsSequence(todo')
        /\ \A i \in 1..Len(todo') : todo'[i] = todo[i + 1] /\ i + 1 \in 1..Len(todo)
        /\ 1 \in 1..Len(todo) /\ o = todo[1]
    <3>1. PICK S : todo \in Seq(S)
      BY <2>2 DEF IsSequence
    <3>2. /\ Len(todo) \in Nat \ {0} /\ Tail(todo) \in Seq(S) /\ Len(Tail(todo)) = Len(todo) - 1
          /\ \A i \in 1..Len(Tail(todo)) : Tail(todo)[i] = todo[i + 1]
      BY <1>1, <3>1, HeadTailProperties
    <3>3. o = todo[1]
      BY <3>1
    <3> QED BY <2>1, <3>2, <3>3 DEF IsSequence
  <2> HIDE DEF o
  <2>4. o = call.opts[k + 1] /\ k + 1 \in 1..Len(call.opts) /\ k + 1 \in Nat
        /\ Len(call.opts) - Len(todo') = k + 1
    <3>1. Len(call.opts) = k + Len(todo)
      BY <2>2, <2>3
    <3>2. k \in Nat /\ o = call.opts[k + 1]
      BY <2>2, <2>3
    <3> HIDE DEF k
    <3>3. k + 1 \in 1..Len(call.opts) /\ k + 1 \in Nat
      BY <2>3, <3>1, <3>2
    <3>4. Len(call.opts) - Len(todo') = k + 1
      BY <2>3, <3>1, <3>2
    <3> QED BY <3>2, <3>3, <3>4
  <2>5. \A i \in 1..Len(todo') : todo'[i] = call.opts[k + 1 + i]
    <3> TAKE i \in 1..Len(todo')
    <3> DEFINE j == i + 1
    <3>0. todo'[i] = todo[j] /\ j \in 1..Len(todo)
      BY <2>3
    <3> HIDE DEF j, k
    <3>3. todo'[i] = call.opts[k + j]
      BY <2>2, <3>0
    <3>1. todo'[i] = call.opts[k + (i + 1)]
      BY <3>3 DEF j
    <3>2. k + (i + 1) = k + 1 + i
      BY <2>2
    <3> QED BY <3>1, <3>2
  <2>6. /\ DOMAIN cfg' = {"handling", "encoders", "goTypes"}
        /\ cfg'.encoders = IF o.opt = "encoder" THEN Assigned(cfg.encoders, o.type, o.name)
                           ELSE cfg.encoders
    <3>1. o.opt \in {"handling", "encoder", "goType"}
      <4> DEFINE S == {call.opts[i] : i \in DOMAIN call.opts}
      <4>1. /\ call.opts \in Seq(S)
            /\ \A i \in DOMAIN call.opts :
                 call.opts[i].opt \in {"handling", "encoder", "goType"}
        BY <1>2, CallsAssumption
      <4> HIDE DEF S, k
      <4>2. DOMAIN call.opts = 1..Len(call.opts)
        BY <4>1
      <4>3. k + 1 \in DOMAIN call.opts
        BY <2>4, <4>2
      <4> QED BY <2>4, <4>1, <4>3
    <3>2. cfg' = CASE o.opt = "handling" -> [cfg EXCEPT !.handling = o.name]
                   [] o.opt = "encoder" ->
                        [cfg EXCEPT !.encoders = Assigned(@, o.type, o.name)]
                   [] o.opt = "goType" ->
                        [cfg EXCEPT !.goTypes = Assigned(@, o.type, o.styp)]
      BY <1>5 DEF ApplyOption, o
    <3>3. CASE o.opt = "handling"
      <4>1. cfg' = [cfg EXCEPT !.handling = o.name]
        BY <3>2, <3>3
      <4> QED BY <1>2, <3>3, <4>1
    <3>4. CASE o.opt = "encoder"
      <4>1. cfg' = [cfg EXCEPT !.encoders = Assigned(@, o.type, o.name)]
        BY <3>2, <3>4
      <4> QED BY <1>2, <3>4, <4>1
    <3>5. CASE o.opt = "goType"
      <4>1. cfg' = [cfg EXCEPT !.goTypes = Assigned(@, o.type, o.styp)]
        BY <3>2, <3>5
      <4> QED BY <1>2, <3>5, <4>1
    <3> QED BY <3>1, <3>3, <3>4, <3>5
  <2> HIDE DEF k
  <2>7. \A t \in DOMAIN cfg'.encoders : LastWithin(call.opts, k + 1, t, cfg'.encoders[t])
    <3>1. CASE o.opt = "encoder"
      <4> DEFINE m == Assigned(cfg.encoders, o.type, o.name)
      <4>1. /\ DOMAIN m = DOMAIN cfg.encoders \cup {o.type} /\ m[o.type] = o.name
            /\ \A t \in DOMAIN m \ {o.type} : m[t] = cfg.encoders[t]
        BY DEF Assigned
      <4> HIDE DEF m
      <4>2. \A t \in DOMAIN m \ {o.type} : LastWithin(call.opts, k + 1, t, m[t])
        BY <2>2, <2>4, <4>1, LastOfNext DEF Registers
      <4>3. LastWithin(call.opts, k + 1, o.type, m[o.type])
        BY <2>2, <2>4, <3>1, <4>1, LastOfNext DEF Registers
      <4> QED BY <2>6, <3>1, <4>2, <4>3 DEF m
    <3>2. CASE o.opt # "encoder"
      BY <2>2, <2>4, <2>6, <3>2, LastOfNext DEF Registers
    <3> QED BY <3>1, <3>2
  <2>8. Applied'
    BY <1>1, <2>3, <2>4, <2>5, <2>7 DEF Applied
  <2>11. \A t \in DOMAIN cfg'.encoders : Kind(t) # "interface"
    <3> DEFINE m == Assigned(cfg.encoders, o.type, o.name)
    <3>1. DOMAIN m = DOMAIN cfg.encoders \cup {o.type}
      BY DEF Assigned
    <3>2. o.opt = "encoder" => Kind(o.type) # "interface"
      BY <1>5 DEF o
    <3> HIDE DEF m
    <3> QED BY <1>2, <2>6, <3>1, <3>2 DEF m
  <2>9. Session'
    BY <1>1, <1>2, <2>1, <2>6, <2>8, <2>11 DEF Session
  <2>10. Ran'
    BY <1>1, <1>2, Fresh DEF Ran
  <2> QED BY <1>3, <2>9, <2>10 DEF SInv
<1> QED BY <1>4, <1>5

LEMMA BeginKeeps == ASSUME GoValues, IInv, SInv, Begin PROVE SInv'
<1> DEFINE loop == Frame("sliceElements", call.v)
           et   == Elem(call.v.type)
           whole == Frame("value", call.v)
           given == [loop EXCEPT !.typ = goType(et), !.pos = 1]
           infer == TypeFrame("typeOf", et)
<1>1. /\ pc = "options" /\ pc' = "encode" /\ todo = <<>> /\ call' = call /\ cfg' = cfg
      /\ seen' = seen /\ ret' = ret /\ Hooked' = Hooked
  BY DEF Begin, Hooked
<1>2. /\ call \in Calls /\ seen = Nothing /\ Applied
      /\ DOMAIN cfg = {"handling", "encoders", "goTypes"}
      /\ \A t \in DOMAIN cfg.encoders : Kind(t) # "interface"
  BY <1>1 DEF SInv, Session, Ran
<1>3. Settled
  <2>1. Len(todo) = 0 /\ Len(call.opts) \in Nat
    BY <1>1, <1>2, EmptySequence, CallsAssumption
  <2>2. Len(call.opts) - Len(todo) = Len(call.opts)
    BY <2>1
  <2> QED BY <1>2, <2>2 DEF Applied, Settled
<1>4. Session'
  BY <1>1, <1>2, <1>3 DEF Session, Settled
<1>5. Ran'
  BY <1>1, <1>2, Fresh DEF Ran
<1>6. WellFormed(call.v)
  BY <1>2 DEF GoValues
<1>7. /\ whole.op = "value" /\ whole.v = call.v
      /\ loop.op = "sliceElements" /\ loop.v = call.v
      /\ given.op = "sliceElements" /\ given.v = call.v
      /\ infer.op = "typeOf"
  BY DEF Frame, TypeFrame
<1>8. \/ stack' = <<whole>> \/ stack' = <<given>> \/ stack' = <<loop, infer>>
  BY DEF Begin
<1> HIDE DEF loop, whole, given, infer
<1>9. /\ \A f \in {whole, given, loop, infer} :
           Legit(f, "encode", Hooked, seen.fell) /\ Suspended(f)
  BY <1>6, <1>7, TypeFrameLegit, ValueFrameLegit DEF Ops, TypeOps, Suspended
<1>10. \A i \in 1..Len(stack') : stack'[i] \in {whole, given, loop, infer}
  BY <1>8, FirstFrames
<1>11. Stacked'
  BY <1>1, <1>9, <1>10 DEF Stacked, AllLegit
<1> QED BY <1>4, <1>5, <1>11 DEF SInv

LEMMA FinishKeeps == ASSUME IInv, SInv, Finish PROVE SInv'
<1>1. /\ pc = "encode" /\ pc' = "returned" /\ stack = <<>> /\ stack' = stack /\ cfg' = cfg
      /\ call' = call /\ seen' = seen
  BY DEF Finish
<1>2. Session'
  BY <1>1 DEF SInv, Session, Settled
<1>3. Ran'
  BY <1>1 DEF SInv, Ran, Hooked
<1> QED BY <1>1, <1>2, <1>3, NoFrames, EmptySequence DEF SInv, Stacked

LEMMA ForgetKeeps == ASSUME IInv, SInv, Forget PROVE SInv'
<1>1. stack = <<>> /\ stack' = stack /\ pc' = "idle" /\ cfg' = DefaultConfig /\ seen' = Nothing
  BY DEF Forget, IInv
<1>2. Session'
  BY <1>1, Fresh DEF Session
<1>3. Ran'
  BY <1>1, Fresh DEF Ran
<1> QED BY <1>1, <1>2, <1>3, NoFrames, EmptySequence DEF SInv, Stacked

(***************************************************************************)
(* The theorems.                                                           *)
(***************************************************************************)

LEMMA StepKeeps == ASSUME GoValues PROVE IInv /\ SInv /\ [Next]_vars => SInv'
<1> SUFFICES ASSUME IInv, SInv, [Next]_vars PROVE SInv'
  OBVIOUS
<1>1. CASE Caller
  BY <1>1, CallTypeFromGoTypeKeeps, CallEncodeKeeps, ForgetKeeps DEF Caller
<1>2. CASE Options
  BY <1>2, ApplyOptionKeeps, BeginKeeps, FinishKeeps DEF Options
<1>3. CASE Inference
  BY <1>3, InferenceKeeps
<1>4. CASE Encoding
  BY <1>4, EncodingKeeps
<1>5. CASE UNCHANGED vars
  BY <1>5 DEF vars, SInv, Stacked, Ran, Session, Applied, Settled, Hooked
<1> QED BY <1>1, <1>2, <1>3, <1>4, <1>5 DEF Next, Package

LEMMA SessionInvariance == ASSUME GoValues PROVE Spec => []SInv
<1>1. Init => SInv
  BY SessionStarts
<1>2. IInv /\ SInv /\ [Next]_vars => SInv'
  BY StepKeeps
<1>3. Spec => []IInv
  BY Invariance
<1> QED BY <1>1, <1>2, <1>3, PTL DEF Spec

\* "Overriding a built-in type bypasses ALL mirror handling for it"
\* (WithValueEncoder, options.go): whatever the caller's types, options and
\* encoders, built-in code encodes no value, at any depth of structs, slices,
\* conversions and EncodeSpanner results, whose type has a registered encoder
\* that did not leave it to built-in code.  That is said of the values of the
\* caller's and what they are converted to, not of the zero structs the code
\* makes up for types, which it encodes past their encoder.
THEOREM OverridesAreTotal == ASSUME GoValues PROVE Spec => []OverrideIsTotal
<1>1. SInv => OverrideIsTotal
  <2> SUFFICES ASSUME SInv, Returned, NEW t \in seen.mirrored \cap DOMAIN cfg.encoders
               PROVE  Waived(t, seen.fell)
    BY DEF OverrideIsTotal, Waived
  <2>1. t \in Hooked
    BY DEF SInv, Ran, Hooked
  <2> QED BY <2>1 DEF SInv, Ran
<1>2. Spec => []SInv
  BY SessionInvariance
<1> QED BY <1>1, <1>2, PTL

\* "The last registration for a given T wins" (WithValueEncoder, options.go):
\* an encoder that ran, for the value itself or deep inside it, is the last
\* one the options of the call name for the type.
THEOREM LastRegistrationsWin == ASSUME GoValues PROVE Spec => []LastRegistrationWins
<1>1. SInv => LastRegistrationWins
  <2> SUFFICES ASSUME SInv, Returned, NEW c \in seen.consulted
               PROVE  LastWithin(call.opts, Len(call.opts), c[1], c[2])
    BY DEF LastRegistrationWins, LastWithin
  <2>1. seen # Nothing
    BY Fresh
  <2>2. Settled
    BY <2>1 DEF SInv, Session, Returned
  <2>3. c[1] \in DOMAIN cfg.encoders /\ c[2] = cfg.encoders[c[1]]
    BY DEF SInv, Ran
  <2> QED BY <2>2, <2>3 DEF Settled
<1>2. Spec => []SInv
  BY SessionInvariance
<1> QED BY <1>1, <1>2, PTL

(***************************************************************************)
(* Panics.                                                                 *)
(***************************************************************************)

\* The documentation overlooks two panics (see the runs InterfacePanics and
\* NestedBytesPanics).  Here are the universes of Go types that have neither:
\* no interface type includes the protobuf interfaces, and no slice holds
\* slices of a named byte type.
NoProtoInterfaces ==
  \A t \in DOMAIN Go : Kind(t) = "interface" => Go[t].impl \cap {"Enum", "Message"} = {}
NoNamedBytes ==
  \A t \in DOMAIN Go :
    Kind(t) = "slice" /\ Kind(Elem(t)) = "slice" /\ Kind(Elem(Elem(t))) = "uint8"
      => Elem(Elem(t)) = "byte"

Calm(r) == IsResult(r) /\ r.kind # "panic"

\* An option names an encoder for an interface type.
Refused ==
  \E i \in 1..Len(call.opts) :
    call.opts[i].opt = "encoder" /\ Kind(call.opts[i].type) = "interface"

\* What the inference looks at.
Known(f) ==
  f.op \in TypeOps =>
    f.v.type \in DOMAIN Go /\ (f.op = "structType" => IsStructOrStructPtr(f.v.type))

PInv ==
  /\ schema.kind # "panic"
  /\ ret.kind = "panic" => stack = <<>> /\ pc \in {"encode", "returned"} /\ Refused
  /\ \A i \in 1..Len(stack) : Known(stack[i])

LEMMA CalmResults ==
  /\ Calm(NoResult) /\ Calm(StackOverflow)
  /\ \A e : Calm(Err(e))
  /\ \A t, w : Calm(Ok(t, w)) /\ Calm(OkType(t)) /\ Calm(NullOf(t)) /\ Calm(NullArray(t))
<1>1. Calm(NoResult) /\ Calm(StackOverflow)
  BY DEF Calm, StackOverflow, NoResult, IsResult, ResultKinds
<1>2. \A e : Calm(Err(e))
  BY DEF Calm, Err, NoResult, IsResult, ResultKinds
<1>3. \A t, w : Calm(Ok(t, w))
  BY DEF Calm, Ok, NoResult, IsResult, ResultKinds
<1> QED BY <1>1, <1>2, <1>3 DEF OkType, NullOf, NullArray

LEMMA CalmWrap ==
  ASSUME NEW r, NEW step, Calm(r)
  PROVE  Calm(Wrap(r, step))
  BY DEF Calm, Wrap, IsResult, NoResult

LEMMA CalmArray == \A t, gs : Calm(ArrayValueOf(t, gs))
<1>1. \A step : Calm(Wrap(Err("ErrTypeMismatch"), step))
  BY CalmResults, CalmWrap
<1> QED BY <1>1, CalmResults DEF ArrayValueOf

LEMMA CalmLeaf == \A c, v : Calm(encodeLeaf(c, v))
  BY CalmResults DEF encodeLeaf

LEMMA CalmSlice ==
  ASSUME NEW c, NEW v
  PROVE  Calm(encodeSlice(c, v))
<1> DEFINE rs  == [i \in 1..Len(v.parts) |-> encodeLeaf(c, v.parts[i])]
           bad == {i \in 1..Len(rs) : rs[i].kind # "ok"}
<1>1. ASSUME bad # {} PROVE Calm(Wrap(rs[Min(bad)], AtElem(Min(bad) - 1)))
  <2>1. bad \subseteq Nat /\ bad \subseteq DOMAIN rs
    OBVIOUS
  <2>2. Min(bad) \in bad
    <3> HIDE DEF bad
    <3> QED BY <1>1, <2>1, FirstFailure
  <2>3. \A i \in DOMAIN rs : Calm(rs[i])
    BY CalmLeaf
  <2> HIDE DEF bad, rs
  <2> QED BY <2>1, <2>2, <2>3, CalmWrap
<1> QED BY <1>1, CalmResults, CalmArray DEF encodeSlice

LEMMA CalmLoop == stack # <<>> => Calm(LoopResult)
  BY CalmResults, CalmArray DEF LoopResult

(***************************************************************************)
(* Ways to continue without a panic.                                       *)
(***************************************************************************)

LEMMA Known1 ==
  ASSUME IInv, PInv, stack # <<>>
  PROVE  /\ FrameOK(top) /\ Known(top) /\ Calm(ret)
         /\ IsSequence(Below) /\ \A i \in 1..Len(Below) : Known(Below[i])
<1>1. /\ Len(stack) \in Nat \ {0} /\ IsSequence(Below) /\ Len(Below) = Len(stack) - 1
      /\ \A i \in 1..(Len(stack) - 1) : Below[i] = stack[i]
  BY FrontSequence DEF IInv, StackOK, Below
<1>2. \A i \in 1..Len(Below) : i \in 1..Len(stack) /\ Below[i] = stack[i]
  BY <1>1
<1>3. Len(stack) \in 1..Len(stack)
  BY <1>1
<1>4. FrameOK(top) /\ Calm(ret)
  BY TopFrame DEF IInv, PInv, ResultOK, Calm
<1> QED BY <1>1, <1>2, <1>3, <1>4 DEF PInv, top

LEMMA KnownPushed ==
  ASSUME NEW s, NEW f, IsSequence(s), \A i \in 1..Len(s) : Known(s[i]), Known(f)
  PROVE  IsSequence(Append(s, f)) /\ \A i \in 1..Len(Append(s, f)) : Known(Append(s, f)[i])
<1>1. /\ IsSequence(Append(s, f)) /\ Len(Append(s, f)) = Len(s) + 1 /\ Len(s) \in Nat
      /\ \A i \in 1..Len(s) : Append(s, f)[i] = s[i]
      /\ Append(s, f)[Len(s) + 1] = f
  BY AppendSequence, SequenceLen
<1>2. \A i \in 1..Len(Append(s, f)) : i \in 1..Len(s) \/ i = Len(s) + 1
  BY <1>1
<1> QED BY <1>1, <1>2

LEMMA CalmReturn ==
  ASSUME IInv, PInv, stack # <<>>, Outside, NEW r, Calm(r), Return(r)
  PROVE  PInv'
<1>1. \A i \in 1..Len(Below) : Known(Below[i])
  BY Known1
<1>2. stack' = Below /\ ret'.kind # "panic" /\ schema' = schema
  BY DEF Return, Calm, Outside
<1> QED BY <1>1, <1>2 DEF PInv

LEMMA CalmBecome ==
  ASSUME IInv, PInv, stack # <<>>, Outside, NEW f, Known(f), Become(f)
  PROVE  PInv'
<1>1. \A i \in 1..Len(Append(Below, f)) : Known(Append(Below, f)[i])
  BY Known1, KnownPushed
<1>2. stack' = Append(Below, f) /\ ret'.kind # "panic" /\ schema' = schema
  BY CalmResults DEF Become, Calm, Outside
<1> QED BY <1>1, <1>2 DEF PInv

LEMMA CalmCall ==
  ASSUME IInv, PInv, stack # <<>>, Outside, NEW f, NEW callee, Known(f), Known(callee),
         CallFrom(f, callee)
  PROVE  PInv'
<1>1. schema' = schema
  BY DEF Outside
<1>2. CASE Len(stack) >= StackLimit
  <2>1. stack' = <<>> /\ ret'.kind # "panic"
    BY <1>2, CalmResults DEF CallFrom, Abort, Calm
  <2> QED BY <1>1, <2>1, EmptySequence DEF PInv
<1>3. CASE ~(Len(stack) >= StackLimit)
  <2> DEFINE s == Append(Append(Below, f), callee)
  <2>1. stack' = s /\ ret'.kind # "panic"
    BY <1>3, CalmResults DEF CallFrom, Calm
  <2>2. \A i \in 1..Len(s) : Known(s[i])
    BY Known1, KnownPushed
  <2> HIDE DEF s
  <2> QED BY <1>1, <2>1, <2>2 DEF PInv
<1> QED BY <1>2, <1>3

\* Frames that encode a value.
LEMMA EncodingKnown ==
  /\ \A f : f.op \notin TypeOps => Known(f)
  /\ \A v : Known(Frame("value", v)) /\ Known(StructFrame(v))
<1>1. \A f : f.op \notin TypeOps => Known(f)
  BY DEF Known
<1>2. \A v : Frame("value", v).op = "value" /\ StructFrame(v).op = "struct"
  BY DEF StructFrame, Frame
<1> QED BY <1>1, <1>2 DEF TypeOps

\* A frame that goes on as it is, or in another function of the encode.
LEMMA MovedKnown ==
  ASSUME NEW f, FrameOK(f), Known(f)
  PROVE  /\ \A op \in Ops \ TypeOps : Known([f EXCEPT !.op = op])
         /\ \A op \in Ops \ TypeOps : \A t, n : Known([f EXCEPT !.op = op, !.typ = t, !.pos = n])
         /\ \A t, n : Known([f EXCEPT !.typ = t, !.pos = n])
         /\ \A n : Known([f EXCEPT !.pos = n])
         /\ Known(Advanced(f))
         /\ \A x : Known([Advanced(f) EXCEPT !.acc = Append(@, x)])
<1>1. \A op \in Ops \ TypeOps : [f EXCEPT !.op = op].op = op
  BY DEF FrameOK
<1>2. \A op \in Ops \ TypeOps : \A t, n : [f EXCEPT !.op = op, !.typ = t, !.pos = n].op = op
  BY DEF FrameOK
<1>3. \A t, n : /\ [f EXCEPT !.typ = t, !.pos = n].op = f.op
                /\ [f EXCEPT !.typ = t, !.pos = n].v = f.v
  BY DEF FrameOK
<1>4. \A n : [f EXCEPT !.pos = n].op = f.op /\ [f EXCEPT !.pos = n].v = f.v
  BY DEF FrameOK
<1> DEFINE a == Advanced(f)
<1>5. a.op = f.op /\ a.v = f.v /\ DOMAIN a = DOMAIN f
  BY DEF FrameOK, Advanced
<1> HIDE DEF a
<1>6. \A x : [a EXCEPT !.acc = Append(@, x)].op = f.op /\ [a EXCEPT !.acc = Append(@, x)].v = f.v
  BY <1>5 DEF FrameOK
<1> QED BY <1>1, <1>2, <1>3, <1>4, <1>5, <1>6, EncodingKnown DEF Known, a

(***************************************************************************)
(* Each step.                                                              *)
(***************************************************************************)

LEMMA DescriptorCalm ==
  ASSUME NoProtoInterfaces, NEW t \in DOMAIN Go, Go[t].impl \cap {"Enum", "Message"} # {}, NEW code
  PROVE  Calm(TypeFromDescriptor(code, t))
<1>1. Kind(t) # "interface"
  BY DEF NoProtoInterfaces
<1>2. TypeFromDescriptor(code, t) = OkType(NamedType(code, Go[t].fqn))
  BY <1>1 DEF TypeFromDescriptor
<1> QED BY <1>2, CalmResults

LEMMA DirectCalm ==
  ASSUME NoProtoInterfaces, NEW t \in DOMAIN Go
  PROVE  /\ Calm(inferredDirectly(t))
         /\ Go[t].impl \cap {"Enum", "Message"} # {} => Calm(inferredProtoSlice(t))
<1>1. Implements(t, "Enum") => Calm(TypeFromDescriptor("ENUM", t))
  BY DescriptorCalm DEF Implements
<1>2. Implements(t, "Message") => Calm(TypeFromDescriptor("PROTO", t))
  BY DescriptorCalm DEF Implements
<1>3. Calm(inferredDirectly(t))
  BY <1>1, <1>2, CalmResults DEF inferredDirectly
<1>4. ASSUME Go[t].impl \cap {"Enum", "Message"} # {} PROVE Calm(inferredProtoSlice(t))
  BY <1>4, DescriptorCalm, CalmResults DEF inferredProtoSlice
<1> QED BY <1>3, <1>4

LEMMA NewTypeFrame ==
  ASSUME NEW op, NEW t
  PROVE  /\ TypeFrame(op, t).op = op /\ TypeFrame(op, t).v.type = t
         /\ TypeFrame(op, t).pos = 1 /\ TypeFrame(op, t).acc = <<>>
  BY DEF TypeFrame, Frame, NilValue, Value

LEMMA NewTypeKnown ==
  ASSUME NEW t \in DOMAIN Go
  PROVE  /\ Known(TypeFrame("typeOf", t))
         /\ IsStructOrStructPtr(t) => Known(TypeFrame("structType", t))
<1>1. \A op : TypeFrame(op, t).op = op /\ TypeFrame(op, t).v.type = t
  BY NewTypeFrame
<1> QED BY <1>1 DEF Known

LEMMA InferDirectlyCalm == ASSUME NoProtoInterfaces, IInv, PInv, InferDirectly PROVE PInv'
<1> DEFINE t == top.v.type
<1>1. stack # <<>> /\ Outside /\ top.op = "typeOf"
  BY DEF InferDirectly, Infers, At, Running, Internal
<1>2. t \in DOMAIN Go
  BY <1>1, Known1 DEF Known, TypeOps
<1>3. \A r : Calm(r) /\ ReturnOrPanic(r) => PInv'
  BY <1>1, CalmReturn DEF ReturnOrPanic, Calm
<1>4. CASE ReturnOrPanic(inferredDirectly(t))
  BY <1>2, <1>3, <1>4, DirectCalm
<1>5. CASE Infers("protoSlice") /\ ReturnOrPanic(inferredProtoSlice(Elem(t)))
  <2>1. Kind(t) = "slice" /\ Go[Elem(t)].impl \cap {"Enum", "Message"} # {}
    BY <1>5 DEF Infers, InferCase
  <2>2. Elem(t) \in DOMAIN Go
    BY <1>2, <2>1, GoAssumption DEF Kind, Elem
  <2> QED BY <1>3, <1>5, <2>1, <2>2, DirectCalm
<1>6. CASE Return(Err("ErrTypeNotInferable")) \/ Return(Err("ErrUnsupportedType"))
  BY <1>1, <1>6, CalmResults, CalmReturn
<1> QED BY <1>4, <1>5, <1>6 DEF InferDirectly

LEMMA InferInsideCalm == ASSUME IInv, PInv, InferInside PROVE PInv'
<1> DEFINE t == top.v.type
<1>1. stack # <<>> /\ Outside /\ top.op = "typeOf"
  BY DEF InferInside, Infers, At, Running, Internal
<1>2. t \in DOMAIN Go /\ FrameOK(top)
  BY <1>1, Known1 DEF Known, TypeOps
<1>3. CASE Infers("custom") /\ Become(TypeFrame("typeOf", customBaseGoType(t)))
  <2>1. customBaseGoType(t) # NoGoType
    BY <1>3 DEF Infers, InferCase
  <2>2. customBaseGoType(t) \in DOMAIN Go
    BY <1>2, <2>1, BaseAssumption
  <2> QED BY <1>1, <1>3, <2>2, NewTypeKnown, CalmBecome
<1>4. CASE Infers("struct") /\ Become(TypeFrame("structType", t))
  <2>1. IsStructOrStructPtr(t)
    BY <1>4 DEF Infers, InferCase
  <2> QED BY <1>1, <1>2, <1>4, <2>1, NewTypeKnown, CalmBecome
<1>5. CASE /\ Infers("structSlice")
           /\ CallFrom([top EXCEPT !.op = "arrayType"], TypeFrame("structType", Elem(t)))
  <2> DEFINE f == [top EXCEPT !.op = "arrayType"]
  <2>1. Kind(t) = "slice" /\ IsStructOrStructPtr(Elem(t))
    BY <1>5 DEF Infers, InferCase
  <2>2. Elem(t) \in DOMAIN Go
    BY <1>2, <2>1, GoAssumption DEF Kind, Elem
  <2>3. f.op = "arrayType" /\ f.v = top.v
    BY <1>2 DEF FrameOK
  <2> HIDE DEF f
  <2>4. Known(f)
    BY <1>2, <2>3 DEF Known
  <2>5. Known(TypeFrame("structType", Elem(t)))
    BY <2>1, <2>2, NewTypeKnown
  <2> QED BY <1>1, <1>5, <2>4, <2>5, CalmCall DEF f
<1> QED BY <1>3, <1>4, <1>5 DEF InferInside

LEMMA ArrayTypeDoneCalm == ASSUME IInv, PInv, ArrayTypeDone PROVE PInv'
<1>1. stack # <<>> /\ Outside /\ Return(OkType(ArrayOf(ret.type)))
  BY DEF ArrayTypeDone, Resumed, Internal
<1> QED BY <1>1, CalmResults, CalmReturn

LEMMA EncodingCalm ==
  ASSUME IInv, PInv, stack # <<>>, Outside, NEW f, f.op \notin TypeOps, Become(f)
  PROVE  PInv'
  BY EncodingKnown, CalmBecome

LEMMA MirrorCalm == ASSUME IInv, PInv, stack # <<>>, Outside, Mirror PROVE PInv'
<1> DEFINE f == [top EXCEPT !.op = "switch"]
<1>1. f.op = "switch"
  BY Known1 DEF FrameOK
<1>2. Become(f)
  BY DEF Mirror
<1> HIDE DEF f
<1> QED BY <1>1, <1>2, EncodingCalm DEF TypeOps

LEMMA SkipEncodersCalm == ASSUME IInv, PInv, SkipEncoders PROVE PInv'
<1>1. stack # <<>> /\ Outside /\ Mirror
  BY DEF SkipEncoders, At, Running, Internal
<1> QED BY <1>1, MirrorCalm

LEMMA ConsultEncoderCalm == ASSUME IInv, PInv, ConsultEncoder PROVE PInv'
<1>1. stack # <<>> /\ Outside
  BY DEF ConsultEncoder, At, Running
<1> DEFINE R == Answers[cfg.encoders[top.v.type]]
           d == [seen EXCEPT
                   !.consulted = @ \cup {<<top.v.type, cfg.encoders[top.v.type], top.from>>}]
<1>2. PICK r \in R : /\ IF IsFallthrough(r) THEN Mirror ELSE Return(r)
                     /\ cfg.encoders[top.v.type] \in DOMAIN Answers
  BY DEF ConsultEncoder
<1>3. Calm(r)
  BY <1>2, AnswersAssumption DEF Calm
<1> HIDE DEF R
<1> QED BY <1>1, <1>2, <1>3, CalmReturn, MirrorCalm

LEMMA encodeCustomSliceCalm == ASSUME IInv, PInv, encodeCustomSlice PROVE PInv'
<1> DEFINE et == goType(Elem(top.v.type))
           f  == [top EXCEPT !.op = "customSlice", !.typ = et, !.pos = 1]
<1>1. stack # <<>> /\ Outside
  BY DEF encodeCustomSlice, At, Running, Internal
<1>2. Mirror \/ Return(NullArray(et)) \/ Become(f)
  BY DEF encodeCustomSlice
<1>3. Become(f) => PInv'
  <2> HIDE DEF et
  <2>1. f.op = "customSlice"
    BY <1>1, Known1 DEF FrameOK
  <2> HIDE DEF f
  <2> QED BY <1>1, <2>1, EncodingCalm DEF TypeOps
<1> HIDE DEF et
<1>4. Return(NullArray(et)) => PInv'
  BY <1>1, CalmResults, CalmReturn
<1> QED BY <1>1, <1>2, <1>3, <1>4, MirrorCalm

LEMMA ReencodeCalm == ASSUME IInv, PInv, stack # <<>>, Outside, NEW w, Reencode(w) PROVE PInv'
  BY EncodingKnown, CalmBecome DEF Reencode

LEMMA EncodeConcreteCalm == ASSUME IInv, PInv, EncodeConcrete PROVE PInv'
<1>1. stack # <<>>
  BY DEF EncodeConcrete, Switches, At, Running
<1>2. Outside
  BY DEF EncodeConcrete, Internal, Mirrored
<1>3. \/ \E e : Return(Err(e))
      \/ \E c, v : Return(encodeLeaf(c, v)) \/ Return(encodeSlice(c, v))
  BY DEF EncodeConcrete
<1>4. \A r : Calm(r) /\ Return(r) => PInv'
  BY <1>1, <1>2, CalmReturn
<1> QED BY <1>3, <1>4, CalmResults, CalmLeaf, CalmSlice

LEMMA PassGCVCalm == ASSUME IInv, PInv, PassGCV PROVE PInv'
<1>1. stack # <<>> /\ Outside
  BY DEF PassGCV, Switches, At, Running, Mirrored
<1>2. (\E e : Return(Err(e))) \/ (\E t, w : Return(Ok(t, w)))
  BY DEF PassGCV
<1> QED BY <1>1, <1>2, CalmResults, CalmReturn

LEMMA UnwrapNullProtoCalm == ASSUME IInv, PInv, UnwrapNullProto PROVE PInv'
<1>1. stack # <<>> /\ Outside
  BY DEF UnwrapNullProto, Switches, At, Running, Mirrored
<1>2. Return(Err("ErrInvalidSource")) \/ Reencode(top.v.parts[1])
  BY DEF UnwrapNullProto
<1> QED BY <1>1, <1>2, CalmResults, CalmReturn, ReencodeCalm

LEMMA encodeViaEncoderCalm == ASSUME IInv, PInv, encodeViaEncoder PROVE PInv'
<1> DEFINE f == [top EXCEPT !.op = "encoder"]
<1>1. stack # <<>> /\ Outside
  BY DEF encodeViaEncoder, Switches, At, Running
<1>2. PICK o : IF o.err # "" THEN Return(Err(o.err)) ELSE CallFrom(f, Frame("value", o.v))
  BY DEF encodeViaEncoder
<1>3. f.op = "encoder"
  BY <1>1, Known1 DEF FrameOK
<1> HIDE DEF f
<1>4. Known(f) /\ Known(Frame("value", o.v))
  BY <1>3, EncodingKnown DEF TypeOps
<1> QED BY <1>1, <1>2, <1>4, CalmResults, CalmReturn, CalmCall

LEMMA EncoderDoneCalm == ASSUME IInv, PInv, EncoderDone PROVE PInv'
<1>1. stack # <<>> /\ Outside /\ Return(ret)
  BY DEF EncoderDone, Resumed, Internal
<1> QED BY <1>1, Known1, CalmReturn

LEMMA EncodeProtoCalm == ASSUME IInv, PInv, EncodeProto PROVE PInv'
<1>1. stack # <<>> /\ Outside
  BY DEF EncodeProto, Switches, At, Running, Mirrored
<1>2. \/ \E e : Return(Err(e))
      \/ \E t : Return(NullOf(t))
      \/ \E t, w : Return(Ok(t, w))
  BY DEF EncodeProto
<1> QED BY <1>1, <1>2, CalmResults, CalmReturn

\* The elements of a slice that has a base have the base's element type.
LEMMA NoElementPanics ==
  ASSUME NoNamedBytes, NEW v, Shaped(v), SwitchCase(v.type) = "custom"
  PROVE  ~ConvertPanics(v, customBaseGoType(v.type))
<1> SUFFICES ASSUME Kind(v.type) = "slice", NEW i \in 1..Len(v.parts)
             PROVE  ConvertibleTo(v.parts[i].type, Elem(customBaseGoType(v.type)))
  BY DEF ConvertPanics
<1> DEFINE e == Elem(v.type)
           b == customSliceElemBase(e)
<1>1. v.type \in DOMAIN Go /\ e \in DOMAIN Go
  BY GoAssumption DEF Shaped, Kind, Elem
<1>2. customBaseGoType(v.type) # NoGoType
  BY Cases
<1>3. b # NoGoType /\ customBaseGoType(v.type) = SliceOf(b)
  <2>1. "slice" \notin DOMAIN kindBase
    BY DEF kindBase
  <2> QED BY <1>2, <2>1 DEF customBaseGoType
<1>4. Elem(customBaseGoType(v.type)) = b
  BY <1>1, <1>2, <1>3, BaseAssumption
<1>5. v.parts[i].type = e
  <2>1. Holds(e, v.parts[i])
    BY DEF Shaped, FullSlice
  <2>2. Kind(e) # "interface"
    <3>1. "interface" \notin DOMAIN kindBase
      BY DEF kindBase
    <3> QED BY <1>3, <3>1 DEF customSliceElemBase
  <2> QED BY <2>1, <2>2 DEF Holds
<1>6. \A bases : firstConvertible(e, bases) # NoGoType => ConvertibleTo(e, firstConvertible(e, bases))
  BY FirstConverts
<1> HIDE DEF e
<1>7. ConvertibleTo(e, b)
  <2>1. CASE Kind(e) \in DOMAIN kindBase
    BY <1>1, <2>1, ConversionAssumption DEF customSliceElemBase
  <2>2. CASE Kind(e) \notin DOMAIN kindBase /\ Kind(e) = "uint8"
    BY <1>1, <2>2, ConversionAssumption DEF customSliceElemBase
  <2>3. CASE Kind(e) \notin DOMAIN kindBase /\ Kind(e) \in {"array", "struct"}
    <3>1. \/ b = firstConvertible(e, <<"uuid.UUID">>)
          \/ b = firstConvertible(e, customSliceStructBases)
      BY <2>3 DEF customSliceElemBase
    <3> QED BY <1>3, <1>6, <3>1
  <2>4. CASE Kind(e) = "slice" /\ Kind(Elem(e)) = "uint8"
    <3>1. b = "[]byte"
      <4>1. "slice" \notin DOMAIN kindBase
        BY DEF kindBase
      <4> QED BY <2>4, <4>1 DEF customSliceElemBase
    <3>2. Elem(e) = "byte"
      BY <1>1, <2>4 DEF NoNamedBytes, e
    <3> QED BY <1>1, <2>4, <3>1, <3>2, ConversionAssumption
  <2> QED BY <1>3, <2>1, <2>2, <2>3, <2>4 DEF customSliceElemBase
<1> QED BY <1>4, <1>5, <1>7

LEMMA convertCustomValueCalm ==
  ASSUME NoNamedBytes, IInv, SInv, PInv, convertCustomValue
  PROVE  PInv'
<1> DEFINE w == Converted(top.v, customBaseGoType(top.v.type))
           g == Frame("value", w)
           f == [g EXCEPT !.from = top.from]
<1>1. stack # <<>> /\ Outside /\ Shaped(top.v) /\ SwitchCase(top.v.type) = "custom"
  BY AtSwitch DEF convertCustomValue, Mirrored
<1>2. Become(f)
  BY <1>1, NoElementPanics DEF convertCustomValue
<1> HIDE DEF w
<1>3. f.op = "value"
  BY DEF Frame
<1> HIDE DEF f
<1>4. Known(f)
  BY <1>3, EncodingKnown DEF TypeOps
<1> QED BY <1>1, <1>2, <1>4, CalmBecome

LEMMA EnterStructCalm == ASSUME IInv, PInv, EnterStruct \/ StructBody PROVE PInv'
<1>1. stack # <<>> /\ Outside
  BY DEF EnterStruct, StructBody, Switches, At, Running, Internal, Mirrored
<1>2. FrameOK(top)
  BY <1>1, Known1
<1>3. ASSUME EnterStruct PROVE PInv'
  <2> DEFINE f == [top EXCEPT !.op = "struct"]
  <2>1. f.op = "struct" /\ Become(f)
    BY <1>2, <1>3 DEF EnterStruct, FrameOK
  <2> HIDE DEF f
  <2> QED BY <1>1, <2>1, EncodingCalm DEF TypeOps
<1>4. ASSUME StructBody, top.v.nil PROVE PInv'
  <2> DEFINE f == [top EXCEPT !.op = "nilStruct"]
             z == Zero(Elem(top.v.type))
  <2>1. f.op = "nilStruct" /\ CallFrom(f, StructFrame(z))
    BY <1>2, <1>4 DEF StructBody, FrameOK
  <2> HIDE DEF f, z
  <2>2. Known(f) /\ Known(StructFrame(z))
    BY <2>1, EncodingKnown DEF TypeOps
  <2> QED BY <1>1, <2>1, <2>2, CalmCall
<1>5. ASSUME StructBody, ~top.v.nil PROVE PInv'
  <2> DEFINE f == [top EXCEPT !.pos = 1]
  <2>1. f.op = top.op /\ Become(f) /\ top.op = "struct"
    BY <1>2, <1>5 DEF StructBody, At, FrameOK
  <2> HIDE DEF f
  <2> QED BY <1>1, <2>1, EncodingCalm DEF TypeOps
<1> QED BY <1>3, <1>4, <1>5

LEMMA FieldKnown ==
  ASSUME NEW t \in DOMAIN Go, IsStructOrStructPtr(t), NEW i \in 1..Len(Fields(t))
  PROVE  Fields(t)[i].type \in DOMAIN Go
<1>1. StructBehind(t) \in DOMAIN Go
  BY GoAssumption DEF IsStructOrStructPtr, StructBehind, Kind, Elem
<1> QED BY <1>1, GoAssumption DEF Fields

LEMMA StructFieldCalm == ASSUME IInv, PInv, StructField PROVE PInv'
<1> DEFINE w == top.v.parts[top.pos]
<1>1. /\ stack # <<>> /\ Outside /\ top.op \in {"struct", "structType"} /\ top.pos > 0
      /\ top.pos <= Len(Fields(top.v.type))
  BY DEF StructField, InFields, Running, Internal
<1>2. FrameOK(top) /\ Known(top)
  BY <1>1, Known1
<1>3. CASE Return(Err("ErrEmbeddedStructField"))
  BY <1>1, <1>3, CalmResults, CalmReturn
<1>4. CASE Become(Advanced(top))
  <2>1. Known(Advanced(top))
    BY <1>2, MovedKnown
  <2> QED BY <1>1, <1>4, <2>1, CalmBecome
<1>5. CASE CallFrom(top, Frame("value", w))
  <2> HIDE DEF w
  <2> QED BY <1>1, <1>2, <1>5, EncodingKnown, CalmCall
<1>6. CASE top.op = "structType" /\ CallFrom(top, TypeFrame("typeOf", field.type))
  <2>1. top.v.type \in DOMAIN Go /\ IsStructOrStructPtr(top.v.type)
    BY <1>2, <1>6 DEF Known, TypeOps
  <2>2. Len(Fields(top.v.type)) \in Nat /\ top.pos \in Nat
    <3>1. StructBehind(top.v.type) \in DOMAIN Go
      BY <2>1, GoAssumption DEF IsStructOrStructPtr, StructBehind, Kind, Elem
    <3> QED BY <1>2, <3>1, GoAssumption DEF Fields, FrameOK
  <2>3. top.pos \in 1..Len(Fields(top.v.type))
    BY <1>1, <2>2
  <2>4. field.type \in DOMAIN Go
    BY <2>1, <2>3, FieldKnown DEF field
  <2> QED BY <1>1, <1>2, <1>6, <2>4, NewTypeKnown, CalmCall
<1> QED BY <1>1, <1>3, <1>4, <1>5, <1>6 DEF StructField

LEMMA StructFieldDoneCalm == ASSUME IInv, PInv, StructFieldDone PROVE PInv'
<1> DEFINE x == [name |-> field.name, type |-> ret.type, wire |-> ret.wire]
           f == [Advanced(top) EXCEPT !.acc = Append(@, x)]
           s == AtField(top.pos - 1)
<1>1. stack # <<>> /\ Outside
  BY DEF StructFieldDone, Resumed, Internal
<1>2. Become(f) \/ Return(Wrap(ret, s)) \/ Return(ret)
  BY DEF StructFieldDone
<1> HIDE DEF x, s
<1>3. FrameOK(top) /\ Known(top) /\ Calm(ret)
  BY <1>1, Known1
<1>4. Known(f)
  BY <1>3, MovedKnown
<1> HIDE DEF f
<1> QED BY <1>1, <1>2, <1>3, <1>4, CalmBecome, CalmWrap, CalmReturn

LEMMA StructDoneCalm == ASSUME IInv, PInv, StructDone \/ NilStructDone PROVE PInv'
<1>1. stack # <<>> /\ Outside
  BY DEF StructDone, NilStructDone, InFields, Running, Resumed, Internal
<1>2. \E t, w : Return(Ok(t, w)) \/ Return(OkType(t)) \/ Return(NullOf(t))
  BY DEF StructDone, NilStructDone, StructValueOf
<1> QED BY <1>1, <1>2, CalmResults, CalmReturn

LEMMA EnterStructArrayCalm == ASSUME IInv, PInv, EnterStructArray PROVE PInv'
<1> DEFINE f == [top EXCEPT !.op = "structArray"]
           z == Zero(StructBehind(Elem(top.v.type)))
<1>1. stack # <<>> /\ Outside /\ CallFrom(f, StructFrame(z))
  BY DEF EnterStructArray, Switches, At, Running, Mirrored
<1>2. f.op = "structArray"
  BY <1>1, Known1 DEF FrameOK
<1> HIDE DEF f, z
<1>3. Known(f) /\ Known(StructFrame(z))
  BY <1>2, EncodingKnown DEF TypeOps
<1> QED BY <1>1, <1>3, CalmCall

LEMMA EnterProtoArrayCalm ==
  ASSUME NoProtoInterfaces, IInv, SInv, PInv, EnterProtoArray
  PROVE  PInv'
<1> DEFINE et == Elem(top.v.type)
           code == IF Implements(et, "Message") THEN "PROTO" ELSE "ENUM"
           r  == TypeFromDescriptor(code, et)
           f  == [top EXCEPT !.op = "protoArray", !.typ = r.type, !.pos = 1]
<1>1. stack # <<>> /\ Outside /\ Shaped(top.v) /\ SwitchCase(top.v.type) = "protoArray"
  BY AtSwitch DEF EnterProtoArray, Mirrored
<1>2. Kind(top.v.type) = "slice" /\ Go[et].impl \cap {"Enum", "Message"} # {}
  BY <1>1 DEF SwitchCase
<1>3. et \in DOMAIN Go
  BY <1>1, <1>2, GoAssumption DEF Shaped, Kind, Elem
<1>4. Calm(r)
  BY <1>2, <1>3, DescriptorCalm
<1>5. IF r.kind = "panic" THEN Abort(r)
      ELSE IF top.v.nil THEN Return(NullArray(r.type)) ELSE Become(f)
  BY DEF EnterProtoArray
<1>6. Return(NullArray(r.type)) \/ Become(f)
  <2> HIDE DEF r, f
  <2> QED BY <1>4, <1>5 DEF Calm
<1> HIDE DEF r
<1>7. f.op = "protoArray"
  BY <1>1, Known1 DEF FrameOK
<1> HIDE DEF f
<1> QED BY <1>1, <1>6, <1>7, CalmResults, CalmReturn, EncodingCalm DEF TypeOps

LEMMA ElemTypeDoneCalm == ASSUME IInv, PInv, ElemTypeDone PROVE PInv'
<1> DEFINE f == [top EXCEPT !.typ = ret.type, !.pos = 1]
<1>1. stack # <<>> /\ Outside /\ top.op \in Loops
  BY DEF ElemTypeDone, Resumed, Internal
<1>2. Return(NullArray(ret.type)) \/ Become(f)
  BY DEF ElemTypeDone
<1>3. f.op = top.op
  BY <1>1, Known1 DEF FrameOK
<1> HIDE DEF f
<1> QED BY <1>1, <1>2, <1>3, CalmResults, CalmReturn, EncodingCalm DEF Loops, TypeOps

LEMMA PassErrorUpCalm == ASSUME IInv, PInv, PassErrorUp PROVE PInv'
<1>1. stack # <<>> /\ Outside /\ Return(ret)
  BY DEF PassErrorUp, Resumed, Internal
<1> QED BY <1>1, Known1, CalmReturn

LEMMA ElementCalm == ASSUME IInv, PInv, Element PROVE PInv'
<1> DEFINE e == top.v.parts[top.pos]
<1>1. stack # <<>> /\ Outside
  BY DEF Element, InElems, Running, Internal, Mirrored
<1>2. CallFrom(top, StructFrame(e)) \/ CallFrom(top, Frame("value", e))
  BY DEF Element
<1> HIDE DEF e
<1> QED BY <1>1, <1>2, Known1, EncodingKnown, CalmCall

LEMMA ElementDoneCalm == ASSUME IInv, PInv, ElementDone PROVE PInv'
<1> DEFINE x == [type |-> ret.type, wire |-> ret.wire]
           f == [Advanced(top) EXCEPT !.acc = Append(@, x)]
           s == AtElem(top.pos - 1)
<1>1. stack # <<>> /\ Outside
  BY DEF ElementDone, Resumed, Internal
<1>2. \/ Become(f)
      \/ \E r \in {ret, Err("ErrTypeMismatch")} : Return(Wrap(r, s))
  BY DEF ElementDone
<1> HIDE DEF x, s
<1>3. FrameOK(top) /\ Known(top) /\ Calm(ret)
  BY <1>1, Known1
<1>4. Known(f)
  BY <1>3, MovedKnown
<1> HIDE DEF f
<1>5. \A r \in {ret, Err("ErrTypeMismatch")} : Calm(Wrap(r, s))
  BY <1>3, CalmResults, CalmWrap
<1> QED BY <1>1, <1>2, <1>4, <1>5, CalmBecome, CalmReturn

LEMMA LoopDoneCalm == ASSUME IInv, PInv, LoopDone PROVE PInv'
<1>1. stack # <<>> /\ Outside /\ Return(LoopResult)
  BY DEF LoopDone, InElems, Running, Internal
<1> QED BY <1>1, CalmLoop, CalmReturn

LEMMA EncodingStepCalm ==
  ASSUME NoProtoInterfaces, NoNamedBytes, IInv, SInv, PInv, Encoding
  PROVE  PInv'
<1>1. ASSUME SkipEncoders \/ ConsultEncoder \/ encodeCustomSlice \/ EncodeConcrete
             \/ PassGCV \/ UnwrapNullProto \/ encodeViaEncoder \/ EncoderDone
             \/ EncodeProto \/ convertCustomValue
      PROVE  PInv'
  BY <1>1, SkipEncodersCalm, ConsultEncoderCalm, encodeCustomSliceCalm, EncodeConcreteCalm,
     PassGCVCalm, UnwrapNullProtoCalm, encodeViaEncoderCalm, EncoderDoneCalm,
     EncodeProtoCalm, convertCustomValueCalm
<1>2. ASSUME EnterStruct \/ StructBody \/ StructField \/ StructFieldDone \/ StructDone
             \/ NilStructDone \/ EnterStructArray \/ EnterProtoArray \/ ElemTypeDone
             \/ PassErrorUp \/ Element \/ ElementDone \/ LoopDone
      PROVE  PInv'
  BY <1>2, EnterStructCalm, StructFieldCalm, StructFieldDoneCalm, StructDoneCalm,
     EnterStructArrayCalm, EnterProtoArrayCalm, ElemTypeDoneCalm, PassErrorUpCalm,
     ElementCalm, ElementDoneCalm, LoopDoneCalm
<1> QED BY <1>1, <1>2 DEF Encoding

LEMMA CallerCalm == ASSUME GoValues, IInv, PInv, Caller PROVE PInv'
<1>1. CASE CallTypeFromGoType
  <2>1. PICK c \in Calls : stack' = <<TypeFrame("typeOf", c.v.type)>>
    BY <1>1 DEF CallTypeFromGoType
  <2> DEFINE f == TypeFrame("typeOf", c.v.type)
  <2>2. c.v.type \in DOMAIN Go
    BY Components DEF GoValues, Shaped
  <2>3. Known(f)
    BY <2>2, NewTypeKnown
  <2>4. schema' = schema /\ ret' = ret /\ pc = "idle"
    BY <1>1 DEF CallTypeFromGoType
  <2> HIDE DEF f
  <2>5. Len(<<f>>) = 1 /\ <<f>>[1] = f
    OBVIOUS
  <2> QED BY <2>1, <2>3, <2>4, <2>5 DEF PInv, f
<1>2. CASE CallEncode
  <2>1. schema' = ret /\ ret' = NoResult /\ stack' = <<>> /\ pc = "describe"
    BY <1>2 DEF CallEncode
  <2> QED BY <2>1, CalmResults, EmptySequence DEF PInv, Calm
<1>3. CASE Forget
  <2>1. schema' = NoResult /\ ret' = NoResult /\ stack' = stack
    BY <1>3 DEF Forget
  <2> QED BY <2>1, CalmResults DEF PInv, Calm
<1> QED BY <1>1, <1>2, <1>3 DEF Caller

LEMMA ApplyOptionCalm == ASSUME IInv, SInv, PInv, ApplyOption PROVE PInv'
<1> DEFINE k == Len(call.opts) - Len(todo)
<1>1. /\ pc = "options" /\ stack = <<>> /\ stack' = stack /\ call' = call /\ schema' = schema
      /\ todo # <<>>
  BY DEF ApplyOption, IInv
<1>2. CASE Head(todo).opt = "encoder" /\ Kind(Head(todo).type) = "interface"
  <2>1. pc' = "encode"
    BY <1>2 DEF ApplyOption
  <2>2. /\ call \in Calls /\ IsSequence(todo) /\ k \in Nat
        /\ \A i \in 1..Len(todo) : todo[i] = call.opts[k + i]
    BY <1>1 DEF SInv, Session, Applied
  <2>3. Len(todo) \in Nat \ {0} /\ Len(call.opts) \in Nat /\ Head(todo) = todo[1]
    <3>1. PICK S : todo \in Seq(S)
      BY <2>2 DEF IsSequence
    <3>2. Len(todo) \in Nat \ {0}
      BY <1>1, <3>1, HeadTailProperties
    <3> QED BY <2>2, <3>1, <3>2, CallsAssumption
  <2>4. k + 1 \in 1..Len(call.opts) /\ todo[1] = call.opts[k + 1]
    BY <2>2, <2>3
  <2> HIDE DEF k
  <2>5. Refused
    BY <1>2, <2>3, <2>4 DEF Refused
  <2>6. Refused'
    BY <1>1, <2>5 DEF Refused
  <2> QED BY <1>1, <2>1, <2>6, EmptySequence DEF PInv
<1>3. CASE ~(Head(todo).opt = "encoder" /\ Kind(Head(todo).type) = "interface")
  <2>1. ret' = ret
    BY <1>3 DEF ApplyOption
  <2> QED BY <1>1, <2>1, EmptySequence DEF PInv
<1> QED BY <1>2, <1>3

LEMMA BeginCalm == ASSUME GoValues, IInv, SInv, PInv, Begin PROVE PInv'
<1> DEFINE loop == Frame("sliceElements", call.v)
           et   == Elem(call.v.type)
           whole == Frame("value", call.v)
           given == [loop EXCEPT !.typ = goType(et), !.pos = 1]
           infer == TypeFrame("typeOf", et)
<1>1. pc = "options" /\ schema' = schema /\ ret' = ret /\ call \in Calls
  BY DEF Begin, SInv, Session
<1>2. \/ stack' = <<whole>> \/ stack' = <<given>>
      \/ call.api # "ValueOf" /\ stack' = <<loop, infer>>
  BY DEF Begin
<1>3. whole.op = "value" /\ loop.op = "sliceElements" /\ given.op = "sliceElements"
  BY DEF Frame
<1>4. Known(whole) /\ Known(loop) /\ Known(given)
  <2> HIDE DEF whole, loop, given
  <2> QED BY <1>3, EncodingKnown DEF TypeOps
<1>5. ASSUME call.api # "ValueOf" PROVE Known(infer)
  <2>1. call.v.type \in DOMAIN Go
    BY <1>1, Components DEF GoValues, Shaped
  <2>2. et \in DOMAIN Go
    BY <1>1, <1>5, <2>1, CallsAssumption, GoAssumption DEF Kind, Elem
  <2> QED BY <2>2, NewTypeKnown
<1> HIDE DEF loop, whole, given, infer
<1>6. \A i \in 1..Len(stack') : Known(stack'[i])
  BY <1>2, <1>4, <1>5, FirstFrames
<1> QED BY <1>1, <1>6 DEF PInv

LEMMA FinishCalm == ASSUME PInv, Finish PROVE PInv'
  BY DEF Finish, PInv, Refused

LEMMA StepCalm ==
  ASSUME GoValues, NoProtoInterfaces, NoNamedBytes
  PROVE  IInv /\ SInv /\ PInv /\ [Next]_vars => PInv'
<1> SUFFICES ASSUME IInv, SInv, PInv, [Next]_vars PROVE PInv'
  OBVIOUS
<1>1. CASE Caller
  BY <1>1, CallerCalm
<1>2. CASE Options
  BY <1>2, ApplyOptionCalm, BeginCalm, FinishCalm DEF Options
<1>3. CASE Inference
  BY <1>3, InferDirectlyCalm, InferInsideCalm, ArrayTypeDoneCalm DEF Inference
<1>4. CASE Encoding
  BY <1>4, EncodingStepCalm
<1>5. CASE UNCHANGED vars
  BY <1>5 DEF vars, PInv, Refused
<1> QED BY <1>1, <1>2, <1>3, <1>4, <1>5 DEF Next, Package

\* "T must not be an interface type (the returned option panics when applied"
\* (WithValueEncoder, options.go), and nothing else in the package panics, in a
\* universe of Go types without the two exceptions above: no reflect call,
\* conversion or type assertion does on any type, value and options, at any
\* depth.
THEOREM PanicsAreDocumented ==
  ASSUME GoValues, NoProtoInterfaces, NoNamedBytes
  PROVE  Spec => []PanicsOnInterfaceEncoder
<1>1. Init => PInv
  BY CalmResults, EmptySequence DEF Init, PInv, Calm
<1>2. IInv /\ SInv /\ PInv /\ [Next]_vars => PInv'
  BY StepCalm
<1>3. PInv => PanicsOnInterfaceEncoder
  BY DEF PInv, Refused, PanicsOnInterfaceEncoder
<1>4. Spec => []IInv
  BY Invariance
<1>5. Spec => []SInv
  BY SessionInvariance
<1> QED BY <1>1, <1>2, <1>3, <1>4, <1>5, PTL DEF Spec
=============================================================================
