-------------------------- MODULE RowEncoderProofs --------------------------
(***************************************************************************)
(* Who may write what, for any struct type, masks, items and number of     *)
(* goroutines and calls: nobody writes to the cached listing, nobody to a  *)
(* published encoder, and only its holder to what was handed out.  And, in *)
(* the second half, what RowEncoders promise of what they hand out.        *)
(*                                                                         *)
(* The argument is ownership.  Every object is the cached listing, or part *)
(* of one encoder, or held by callers, or private to the one goroutine     *)
(* that fills it; a step writes only to private objects or, if it is the   *)
(* caller's, to held ones, and passes objects on without sharing them.     *)
(***************************************************************************)
EXTENDS RowEncoder, RowLemmas, TLAPS

Ops     == {""} \cup Constructors \cup TypeMethods \cup ValueMethods \cup {"Columns"}
CallSet ==
  [op : Ops, shape : {"struct", "other"}, mask : Masks \cup {NoMask}, enc : Nat,
   item : DOMAIN Items \cup {""}, opts : Options \cup {""}]
Frames  ==
  [pc : {"idle", "list", "keep", "method", "item", "values"}, call : CallSet,
   pos : Nat, n : Nat, arr : Nat, columns : Nat]

\* The objects a frame fills, and those of an encoder.
PrivateOf(a) ==
  IF a.pc = "keep" THEN {a.arr, a.columns} ELSE IF a.pc = "values" THEN {a.arr} ELSE {}
Private(g) == PrivateOf(at[g])
Owned(c)   == {c.fields, c.columns, c.rowType}
Compiled   == UNION {Owned(encoders[e]) : e \in 1..Len(encoders)}

\* Every object but the listing, up to n.
Upto(n) == 2..n
UsesEncoder(a) == a.pc \in {"method", "item", "values"} => a.call.enc \in 1..Len(encoders)

Ownership ==
  /\ IsSeq(heap) /\ Len(heap) >= 1 /\ IsSeq(encoders)
  /\ at \in [Goroutines -> Frames]
  /\ held \subseteq Upto(Len(heap))
  /\ Compiled \subseteq Upto(Len(heap)) /\ Compiled \cap held = {}
  /\ \A g \in Goroutines :
       /\ Private(g) \subseteq Upto(Len(heap))
       /\ Private(g) \cap held = {} /\ Private(g) \cap Compiled = {}
       /\ \A h \in Goroutines : h # g => Private(g) \cap Private(h) = {}
       /\ UsesEncoder(at[g])

IInv == Ownership /\ CacheIntact

----------------------------------------------------------------------------
(* What a step of g may do: it writes to objects private to g, makes new   *)
(* ones, keeps some of both private, and passes others on, either to the   *)
(* callers or to an encoder.                                               *)

Mine(g) == Private(g) \cup (Len(heap) + 1)..Len(heap')

Writes(g) ==
  /\ IsSeq(heap') /\ Len(heap') >= Len(heap)
  /\ \A o \in 1..Len(heap) : o \notin Private(g) => heap'[o] = heap[o]

HandsOn(g) ==
  /\ IsSeq(encoders') /\ Len(encoders') >= Len(encoders)
  /\ \A e \in 1..Len(encoders) : encoders'[e] = encoders[e]
  /\ \E X, Y \in SUBSET (Mine(g) \ Private(g)') :
       /\ X \cap Y = {}
       /\ held' \subseteq held \cup X /\ Compiled' \subseteq Compiled \cup Y

Touches(g) ==
  /\ Writes(g) /\ HandsOn(g)
  /\ \E f \in Frames : at' = [at EXCEPT ![g] = f]
  /\ UsesEncoder(at[g])' /\ Private(g)' \subseteq Mine(g)

LEMMA TouchesKeepsInv ==
  ASSUME IInv, NEW g \in Goroutines, Touches(g) PROVE IInv'
<1> DEFINE n == Len(heap)
           m == Len(heap')
<1>1. n \in Nat /\ m \in Nat /\ n >= 1 /\ m >= n /\ IsSeq(heap')
  BY DEF IInv, Ownership, Touches, Writes, IsSeq
<1>2. /\ at' \in [Goroutines -> Frames]
      /\ \A h \in Goroutines : h # g => at'[h] = at[h]
  BY DEF IInv, Ownership, Touches
<1>3. PICK X, Y \in SUBSET (Mine(g) \ Private(g)') :
        /\ X \cap Y = {}
        /\ held' \subseteq held \cup X /\ Compiled' \subseteq Compiled \cup Y
  BY DEF Touches, HandsOn
<1>4. Private(g) \subseteq Upto(n) /\ Mine(g) \subseteq Upto(m) /\ Private(g)' \subseteq Mine(g)
  BY <1>1 DEF IInv, Ownership, Mine, Upto, Touches
<1>5. CacheIntact'
  <2>1. 1 \notin Private(g)
    BY <1>4 DEF Upto
  <2> QED BY <1>1, <2>1 DEF IInv, CacheIntact, Cached, Touches, Writes
\* What others have is none of what g's step disposes of.
<1>6. ASSUME NEW S, S \subseteq Upto(n), S \cap Private(g) = {}
      PROVE  S \subseteq Upto(m) /\ S \cap Mine(g) = {}
  BY <1>1, <1>6 DEF Mine, Upto
<1>7. held \subseteq Upto(m) /\ held \cap Mine(g) = {} /\ Compiled \subseteq Upto(m)
      /\ Compiled \cap Mine(g) = {} /\ Compiled \cap held = {}
  BY <1>6 DEF IInv, Ownership
<1>8. held' \subseteq Upto(m) /\ Compiled' \subseteq Upto(m) /\ Compiled' \cap held' = {}
  BY <1>3, <1>4, <1>7
<1>9. ASSUME NEW h \in Goroutines, h # g
      PROVE  /\ Private(h)' = Private(h) /\ Private(h) \subseteq Upto(m)
             /\ Private(h) \cap Mine(g) = {}
             /\ Private(h) \cap held' = {} /\ Private(h) \cap Compiled' = {}
             /\ UsesEncoder(at[h])'
  <2>1. Private(h)' = Private(h)
    BY <1>2, <1>9 DEF Private
  <2>2. /\ Private(h) \subseteq Upto(n) /\ Private(h) \cap Private(g) = {}
        /\ Private(h) \cap held = {} /\ Private(h) \cap Compiled = {}
    BY <1>9 DEF IInv, Ownership
  <2>3. Private(h) \subseteq Upto(m) /\ Private(h) \cap Mine(g) = {}
    BY <1>6, <2>2
  <2>4. Private(h) \cap held' = {} /\ Private(h) \cap Compiled' = {}
    BY <1>3, <2>2, <2>3
  <2>5. UsesEncoder(at[h])'
    <3>1. UsesEncoder(at[h])
      BY DEF IInv, Ownership
    <3>2. at'[h] = at[h] /\ Len(encoders') >= Len(encoders)
          /\ Len(encoders') \in Nat /\ Len(encoders) \in Nat
      BY <1>2, <1>9 DEF Touches, HandsOn, IInv, Ownership, IsSeq
    <3> QED BY <3>1, <3>2 DEF UsesEncoder
  <2> QED BY <2>1, <2>2, <2>3, <2>4, <2>5
<1>10. Private(g)' \subseteq Upto(m) /\ Private(g)' \cap held' = {} /\ Private(g)' \cap Compiled' = {}
  BY <1>3, <1>4, <1>7
<1>11. ASSUME NEW h \in Goroutines
       PROVE  /\ Private(h)' \subseteq Upto(m)
              /\ Private(h)' \cap held' = {} /\ Private(h)' \cap Compiled' = {}
              /\ \A k \in Goroutines : k # h => Private(h)' \cap Private(k)' = {}
              /\ UsesEncoder(at[h])'
  <2>1. CASE h = g
    <3>1. \A k \in Goroutines : k # g => Private(g)' \cap Private(k)' = {}
      BY <1>4, <1>9
    <3> QED BY <1>10, <2>1, <3>1 DEF Touches
  <2>2. CASE h # g
    <3>1. ASSUME NEW k \in Goroutines, k # h PROVE Private(h)' \cap Private(k)' = {}
      <4>1. CASE k = g
        BY <1>4, <1>9, <2>2, <4>1
      <4>2. CASE k # g
        <5>1. Private(h) \cap Private(k) = {}
          BY <3>1 DEF IInv, Ownership
        <5> QED BY <1>9, <2>2, <4>2, <5>1
      <4> QED BY <4>1, <4>2
    <3> QED BY <1>9, <2>2, <3>1
  <2> QED BY <2>1, <2>2
<1>12. IsSeq(encoders') /\ Len(heap') >= 1
  BY <1>1 DEF Touches, HandsOn
<1>13. Ownership'
  BY <1>1, <1>2, <1>8, <1>11, <1>12 DEF Ownership, IsSeq, Members
<1> QED BY <1>5, <1>13 DEF IInv

----------------------------------------------------------------------------
(* Ways to move.                                                           *)

LEMMA SameHeap == ASSUME IInv, NEW g \in Goroutines, heap' = heap PROVE Writes(g)
BY DEF IInv, Ownership, Writes, IsSeq

LEMMA OneMade ==
  ASSUME IInv, NEW g \in Goroutines, NEW x, heap' = Append(heap, x)
  PROVE  Writes(g) /\ Fresh(1) \in Mine(g) /\ Fresh(1) \notin Private(g)
         /\ Fresh(1) \in Nat /\ Fresh(1) \notin held /\ Fresh(1) \notin Compiled
<1>1. IsSeq(heap) /\ Private(g) \cup held \cup Compiled \subseteq Upto(Len(heap))
  BY DEF IInv, Ownership
<1>2. /\ IsSeq(heap') /\ Len(heap') = Len(heap) + 1 /\ Len(heap) \in Nat
      /\ \A i \in 1..Len(heap) : heap'[i] = heap[i]
  BY <1>1, Appended
<1> QED BY <1>1, <1>2 DEF Writes, Fresh, Mine, Upto

LEMMA IdleTyped ==
  /\ NoCall \in CallSet /\ NoCall.enc = 0 /\ NoCall.op = ""
  /\ Idle \in Frames /\ Idle.pc = "idle"
<1>1. NoCall \in CallSet /\ NoCall.enc = 0 /\ NoCall.op = ""
  BY DEF NoCall, CallSet, Ops
<1>2. Idle \in Frames /\ Idle.pc = "idle"
  BY <1>1 DEF Idle, Frames
<1> QED BY <1>1, <1>2

LEMMA FrameTyped ==
  ASSUME IInv, NEW g \in Goroutines
  PROVE  /\ at[g] \in Frames /\ UsesEncoder(at[g])
         /\ Idle \in Frames /\ PrivateOf(Idle) = {} /\ UsesEncoder(Idle)
BY IdleTyped DEF IInv, Ownership, PrivateOf, UsesEncoder

\* A step that leaves the encoders, and hands on X at most.
LEMMA Moves ==
  ASSUME IInv, NEW g \in Goroutines, NEW f \in Frames, NEW X,
         at' = [at EXCEPT ![g] = f], Writes(g), encoders' = encoders, held' \subseteq held \cup X,
         X \subseteq Mine(g) \ PrivateOf(f), PrivateOf(f) \subseteq Mine(g), UsesEncoder(f)
  PROVE  Touches(g)
<1>1. at'[g] = f
  BY DEF IInv, Ownership
<1>2. Private(g)' = PrivateOf(f)
  BY <1>1 DEF Private, PrivateOf
<1>3. IsSeq(encoders) /\ Len(encoders) \in Nat
  BY DEF IInv, Ownership, IsSeq
<1>4. Compiled' = Compiled /\ IsSeq(encoders')
  BY <1>3 DEF Compiled
<1>5. HandsOn(g)
  <2>1. X \in SUBSET (Mine(g) \ Private(g)') /\ {} \in SUBSET (Mine(g) \ Private(g)') /\ X \cap {} = {}
    BY <1>2
  <2>2. held' \subseteq held \cup X /\ Compiled' \subseteq Compiled \cup {}
    BY <1>4
  <2>3. \E A, B \in SUBSET (Mine(g) \ Private(g)') :
          A \cap B = {} /\ held' \subseteq held \cup A /\ Compiled' \subseteq Compiled \cup B
    BY <2>1, <2>2
  <2>4. Len(encoders') >= Len(encoders) /\ \A e \in 1..Len(encoders) : encoders'[e] = encoders[e]
    BY <1>3
  <2> QED BY <1>4, <2>3, <2>4 DEF HandsOn
<1>6. UsesEncoder(at[g])'
  BY <1>1 DEF UsesEncoder
<1> QED BY <1>2, <1>5, <1>6 DEF Touches

\* A step that shares nothing new and writes nothing.
LEMMA MovesSilently ==
  ASSUME IInv, NEW g \in Goroutines, NEW f \in Frames, at' = [at EXCEPT ![g] = f],
         UNCHANGED <<heap, encoders, held>>, PrivateOf(f) \subseteq Private(g), UsesEncoder(f)
  PROVE  Touches(g)
<1>1. Writes(g)
  BY SameHeap
<1>2. PrivateOf(f) \subseteq Mine(g) /\ {} \subseteq Mine(g) \ PrivateOf(f) /\ held' \subseteq held \cup {}
  BY DEF Mine
<1> QED BY <1>1, <1>2, Moves

LEMMA FinishIdles == ASSUME NEW g, NEW r, Finish(g, r) PROVE at' = [at EXCEPT ![g] = Idle]
BY DEF Finish

LEMMA FailTouches ==
  ASSUME IInv, NEW g \in Goroutines, NEW err, NEW path, Fail(g, err, path)
  PROVE  Touches(g)
<1>1. at' = [at EXCEPT ![g] = Idle] /\ UNCHANGED <<heap, encoders, held>>
  BY FinishIdles DEF Fail
<1> QED BY <1>1, FrameTyped, MovesSilently

LEMMA PanicsTouches == ASSUME IInv, NEW g \in Goroutines, Panics(g) PROVE Touches(g)
<1>1. at' = [at EXCEPT ![g] = Idle] /\ UNCHANGED <<heap, encoders, held>>
  BY FinishIdles DEF Panics
<1> QED BY <1>1, FrameTyped, MovesSilently

LEMMA CopyTouches ==
  ASSUME IInv, NEW g \in Goroutines, NEW data, HandOutCopy(g, data) PROVE Touches(g)
<1>1. heap' = Append(heap, Object(at[g].call, data)) /\ encoders' = encoders
      /\ held' = held \cup {Fresh(1)} /\ at' = [at EXCEPT ![g] = Idle]
  BY FinishIdles DEF HandOutCopy, HandOut
<1>2. Writes(g) /\ Fresh(1) \in Mine(g)
  BY <1>1, OneMade
<1>3. {Fresh(1)} \subseteq Mine(g) \ PrivateOf(Idle) /\ PrivateOf(Idle) \subseteq Mine(g)
  BY <1>2, FrameTyped
<1> QED BY <1>1, <1>2, <1>3, FrameTyped, Moves

----------------------------------------------------------------------------
(* The steps.                                                              *)

\* A goroutine enters a call.
LEMMA EnterTouches ==
  ASSUME IInv, NEW g \in Goroutines, NEW pc \in {"list", "method", "item"}, NEW call \in CallSet,
         Enter(g, pc, call), UNCHANGED <<heap, encoders, held>>,
         pc # "list" => call.enc \in 1..Len(encoders)
  PROVE  Touches(g)
<1> DEFINE f == [Idle EXCEPT !.pc = pc, !.call = call]
<1>1. at' = [at EXCEPT ![g] = f]
  BY DEF Enter
<1>2. f \in Frames /\ f.pc = pc /\ f.call = call
  BY IdleTyped DEF Frames
<1> HIDE DEF f
<1>3. PrivateOf(f) = {} /\ UsesEncoder(f)
  BY <1>2 DEF PrivateOf, UsesEncoder
<1> QED BY <1>1, <1>2, <1>3, MovesSilently

LEMMA CallNewTouches == ASSUME IInv, NEW g \in Goroutines, CallNew(g) PROVE Touches(g)
<1>1. UNCHANGED <<heap, encoders, held>>
  BY ZenonT(30) DEF CallNew
<1>2. PICK op \in Constructors, m \in Masks, shape \in {"struct", "other"} :
        Enter(g, "list", [NoCall EXCEPT !.op = op, !.mask = m, !.shape = shape])
  BY DEF CallNew
<1> DEFINE c1 == [NoCall EXCEPT !.op = op]
           c2 == [c1 EXCEPT !.mask = m]
           c3 == [c2 EXCEPT !.shape = shape]
<1>3. c1 \in CallSet
  BY IdleTyped DEF CallSet, Ops
<1>4. c2 \in CallSet
  <2> HIDE DEF c1
  <2> QED BY <1>3 DEF CallSet
<1>5. c3 \in CallSet
  <2> HIDE DEF c2
  <2> QED BY <1>4 DEF CallSet
<1>6. Enter(g, "list", c3)
  BY <1>2
<1> HIDE DEF c3
<1> QED BY <1>5, <1>6, <1>1, EnterTouches

LEMMA CallMethodTouches == ASSUME IInv, NEW g \in Goroutines, CallMethod(g) PROVE Touches(g)
<1>1. PICK e \in 1..Len(encoders) :
        \/ \E op \in TypeMethods \cup {"Columns"} :
             Enter(g, "method", [NoCall EXCEPT !.op = op, !.enc = e])
        \/ \E op \in ValueMethods, i \in DOMAIN Items, o \in Options :
             Enter(g, "item", [NoCall EXCEPT !.op = op, !.enc = e, !.item = i, !.opts = o])
  BY DEF CallMethod
<1>2. e \in Nat /\ UNCHANGED <<heap, encoders, held>>
  <2>1. UNCHANGED <<heap, encoders, held>>
    BY ZenonT(30) DEF CallMethod
  <2>2. e \in Nat
    BY DEF IInv, Ownership, IsSeq
  <2> QED BY <2>1, <2>2
<1>3. ASSUME NEW op \in TypeMethods \cup {"Columns"},
             Enter(g, "method", [NoCall EXCEPT !.op = op, !.enc = e])
      PROVE  Touches(g)
  <2> DEFINE c1 == [NoCall EXCEPT !.op = op]
             c2 == [c1 EXCEPT !.enc = e]
  <2>1. c1 \in CallSet
    BY IdleTyped DEF CallSet, Ops
  <2>2. c2 \in CallSet /\ c2.enc = e
    <3> HIDE DEF c1
    <3> QED BY <1>2, <2>1 DEF CallSet
  <2>3. Enter(g, "method", c2)
    BY <1>3
  <2> QED BY <1>2, <2>2, <2>3, EnterTouches
<1>4. ASSUME NEW op \in ValueMethods, NEW i \in DOMAIN Items, NEW o \in Options,
             Enter(g, "item", [NoCall EXCEPT !.op = op, !.enc = e, !.item = i, !.opts = o])
      PROVE  Touches(g)
  <2> DEFINE c1 == [NoCall EXCEPT !.op = op]
             c2 == [c1 EXCEPT !.enc = e]
             c3 == [c2 EXCEPT !.item = i]
             c4 == [c3 EXCEPT !.opts = o]
  <2>1. c1 \in CallSet
    BY IdleTyped DEF CallSet, Ops
  <2>2. c2 \in CallSet /\ c2.enc = e
    <3> HIDE DEF c1
    <3> QED BY <1>2, <2>1 DEF CallSet
  <2>3. c3 \in CallSet /\ c3.enc = e
    <3> HIDE DEF c2
    <3> QED BY <2>2 DEF CallSet
  <2>4. c4 \in CallSet /\ c4.enc = e
    <3> HIDE DEF c3
    <3> QED BY <2>3 DEF CallSet
  <2>5. Enter(g, "item", c4)
    BY <1>4
  <2> HIDE DEF c4
  <2> QED BY <1>2, <2>4, <2>5, EnterTouches
<1> QED BY <1>1, <1>3, <1>4

\* A step whose goroutine goes on with what it fills, and no more of it.
LEMMA ContinueTouches ==
  ASSUME IInv, NEW g \in Goroutines, NEW f \in Frames, Continue(g, f), Writes(g),
         UNCHANGED <<encoders, held>>, PrivateOf(f) \subseteq Mine(g), UsesEncoder(f)
  PROVE  Touches(g)
<1>1. at' = [at EXCEPT ![g] = f] /\ held' \subseteq held \cup {}
  BY DEF Continue
<1> QED BY <1>1, Moves

\* Two objects made at once.
LEMMA TwoMade ==
  ASSUME IInv, NEW g \in Goroutines, NEW x, NEW y, heap' = heap \o <<x, y>>
  PROVE  Writes(g) /\ {Fresh(1), Fresh(2)} \subseteq Mine(g)
         /\ Fresh(1) \in Nat /\ Fresh(2) \in Nat
<1> DEFINE h1 == Append(heap, x)
           h2 == Append(h1, y)
<1>1. IsSeq(heap)
  BY DEF IInv, Ownership
<1>2. IsSeq(h1) /\ Len(h1) = Len(heap) + 1 /\ Len(heap) \in Nat
      /\ \A i \in 1..Len(heap) : h1[i] = heap[i]
  BY <1>1, Appended
<1>3. IsSeq(h2) /\ Len(h2) = Len(h1) + 1 /\ \A i \in 1..Len(h1) : h2[i] = h1[i]
  <2> HIDE DEF h1
  <2> QED BY <1>2, Appended
<1>4. heap' = h2
  <2> DEFINE S == Members(heap) \cup {x, y}
  <2>1. heap \in Seq(Members(heap))
    BY <1>1 DEF IsSeq
  <2>2. heap \in Seq(S) /\ x \in S /\ y \in S
    <3>1. \A i \in 1..Len(heap) : heap[i] \in S
      BY <2>1
    <3> QED BY <2>1, <3>1
  <2> HIDE DEF S
  <2>3. h2 \in Seq(S) /\ Len(h2) = Len(heap) + 2
    BY <2>2
  <2>4. <<x, y>> \in Seq(S) /\ Len(<<x, y>>) = 2
    BY <2>2
  <2>5. heap \o <<x, y>> \in Seq(S) /\ Len(heap \o <<x, y>>) = Len(heap) + 2
    BY <2>2, <2>4
  <2>6. ASSUME NEW i \in 1..(Len(heap) + 2) PROVE (heap \o <<x, y>>)[i] = h2[i]
    <3>1. CASE i \in 1..Len(heap)
      BY <2>2, <2>4, <3>1
    <3>2. CASE i = Len(heap) + 1
      BY <2>2, <2>4, <3>2
    <3>3. CASE i = Len(heap) + 2
      BY <2>2, <2>4, <3>3
    <3> QED BY <2>2, <3>1, <3>2, <3>3
  <2> DEFINE z == heap \o <<x, y>>
  <2>7. z \in Seq(S) /\ Len(z) = Len(h2) /\ \A i \in 1..Len(z) : z[i] = h2[i]
    BY <2>3, <2>5, <2>6
  <2> HIDE DEF h2, z
  <2>8. z = h2
    BY <2>3, <2>7, SameElements
  <2> QED BY <2>8 DEF z
<1> HIDE DEF h1, h2
<1>5. IsSeq(heap') /\ Len(heap') = Len(heap) + 2 /\ Len(heap) \in Nat
      /\ \A i \in 1..Len(heap) : heap'[i] = heap[i]
  <2>1. \A i \in 1..Len(heap) : i \in 1..Len(h1)
    BY <1>2
  <2>2. \A i \in 1..Len(heap) : h2[i] = heap[i]
    BY <1>2, <1>3, <2>1
  <2>3. IsSeq(h2) /\ Len(h2) = Len(heap) + 2
    BY <1>2, <1>3
  <2> QED BY <1>2, <1>4, <2>2, <2>3
<1> QED BY <1>5 DEF Writes, Fresh, Mine

LEMMA ListFieldsTouches == ASSUME IInv, NEW g \in Goroutines, ListFields(g) PROVE Touches(g)
<1> DEFINE fl == heap[Cached].data
           a == [i \in 1..Len(fl) |-> Zero]
           f1 == [at[g] EXCEPT !.pc = "keep"]
           f2 == [f1 EXCEPT !.arr = Fresh(1)]
           f3 == [f2 EXCEPT !.columns = Fresh(2)]
<1>1. CASE \/ Fail(g, "ErrNotStruct", <<>>) \/ Fail(g, "ErrInvalidColumnMask", <<>>)
  BY <1>1, FailTouches
<1>2. CASE /\ heap' = heap \o EmptyArrays(fl) /\ UNCHANGED <<encoders, held>>
           /\ Continue(g, [at[g] EXCEPT !.pc = "keep", !.arr = KeptArray(g), !.columns = Fresh(2)])
  <2>1. heap' = heap \o <<Object(Part("fields"), a), Object(Part("columns"), a)>>
    BY <1>2 DEF EmptyArrays
  <2>2. Writes(g) /\ {Fresh(1), Fresh(2)} \subseteq Mine(g) /\ Fresh(1) \in Nat /\ Fresh(2) \in Nat
    <3> HIDE DEF a
    <3> QED BY <2>1, TwoMade
  <2>3. f1 \in Frames /\ f1.pc = "keep"
    BY FrameTyped DEF Frames
  <2>4. f2 \in Frames /\ f2.pc = "keep" /\ f2.arr = Fresh(1)
    <3> HIDE DEF f1
    <3> QED BY <2>2, <2>3 DEF Frames
  <2>5. f3 \in Frames /\ f3.pc = "keep" /\ f3.arr = Fresh(1) /\ f3.columns = Fresh(2)
    <3> HIDE DEF f2
    <3> QED BY <2>2, <2>4 DEF Frames
  <2>6. Continue(g, f3) /\ UNCHANGED <<encoders, held>>
    BY <1>2 DEF KeptArray
  <2> HIDE DEF f3
  <2>7. PrivateOf(f3) \subseteq Mine(g) /\ UsesEncoder(f3)
    BY <2>2, <2>5 DEF PrivateOf, UsesEncoder
  <2> QED BY <2>2, <2>5, <2>6, <2>7, ContinueTouches
<1> QED BY <1>1, <1>2 DEF ListFields

LEMMA KeepFieldTouches == ASSUME IInv, NEW g \in Goroutines, KeepField(g) PROVE Touches(g)
<1> DEFINE a == at[g]
           f == heap[Cached].data[a.pos]
           x1 == [heap[a.arr] EXCEPT !.data[a.n + 1] = f]
           h1 == [heap EXCEPT ![a.arr] = x1]
           x2 == [h1[a.columns] EXCEPT !.data[a.n + 1] = f.name]
           h2 == [h1 EXCEPT ![a.columns] = x2]
<1>1. a \in Frames /\ a.pc = "keep" /\ IsSeq(heap)
  BY FrameTyped DEF KeepField, IInv, Ownership
<1>2. /\ Private(g) = {a.arr, a.columns}
      /\ a.arr \in 1..Len(heap) /\ a.columns \in 1..Len(heap) /\ Len(heap) \in Nat
  <2>1. Private(g) = {a.arr, a.columns}
    BY <1>1 DEF Private, PrivateOf
  <2>2. Private(g) \subseteq 2..Len(heap)
    BY DEF IInv, Ownership, Upto
  <2>3. Len(heap) \in Nat
    BY <1>1 DEF IsSeq
  <2> HIDE DEF a
  <2> QED BY <2>1, <2>2, <2>3
<1>3. CASE keep(a.call.mask, f.name)
  <2>1. heap' = h2
    BY <1>3 DEF KeepField
  <2>2. IsSeq(h1) /\ Len(h1) = Len(heap) /\ Len(heap) \in Nat
        /\ \A i \in 1..Len(heap) : i # a.arr => h1[i] = heap[i]
    <3> DEFINE S == Members(heap) \cup {x1}
    <3>1. heap \in Seq(S) /\ x1 \in S
      BY <1>1, SeqOfMore
    <3> HIDE DEF S, x1, a
    <3>2. h1 \in Seq(S) /\ Len(h1) = Len(heap)
      BY <1>2, <3>1
    <3>3. \A i \in 1..Len(heap) : i # a.arr => h1[i] = heap[i]
      BY <1>2, <3>1
    <3> QED BY <1>2, <3>2, <3>3, SeqOfMembers
  <2>3. IsSeq(h2) /\ Len(h2) = Len(h1) /\ \A i \in 1..Len(h1) : i # a.columns => h2[i] = h1[i]
    <3> DEFINE S == Members(h1) \cup {x2}
    <3>1. h1 \in Seq(S) /\ x2 \in S /\ a.columns \in 1..Len(h1)
      BY <1>2, <2>2, SeqOfMore
    <3> HIDE DEF S, h1, x2, a
    <3>2. h2 \in Seq(S) /\ Len(h2) = Len(h1)
      BY <3>1
    <3>3. \A i \in 1..Len(h1) : i # a.columns => h2[i] = h1[i]
      BY <3>1
    <3> QED BY <3>2, <3>3, SeqOfMembers
  <2> HIDE DEF h1, h2
  <2>4. Writes(g)
    BY <1>2, <2>1, <2>2, <2>3 DEF Writes
  <2> DEFINE f1 == [a EXCEPT !.pos = a.pos + 1]
             f2 == [f1 EXCEPT !.n = a.n + 1]
  <2>5. f1 \in Frames /\ f1.pc = "keep" /\ f1.arr = a.arr /\ f1.columns = a.columns
    BY <1>1 DEF Frames
  <2>6. f2 \in Frames /\ f2.pc = "keep" /\ f2.arr = a.arr /\ f2.columns = a.columns
    <3>1. a.n + 1 \in Nat
      BY <1>1 DEF Frames
    <3> HIDE DEF f1
    <3> QED BY <2>5, <3>1 DEF Frames
  <2>7. Continue(g, f2) /\ UNCHANGED <<encoders, held>>
    BY <1>3 DEF KeepField
  <2> HIDE DEF f2
  <2>8. PrivateOf(f2) \subseteq Mine(g) /\ UsesEncoder(f2)
    BY <1>2, <2>6 DEF PrivateOf, UsesEncoder, Mine
  <2> QED BY <2>4, <2>6, <2>7, <2>8, ContinueTouches
<1>4. CASE ~keep(a.call.mask, f.name)
  <2> DEFINE f1 == [a EXCEPT !.pos = a.pos + 1]
  <2>1. f1 \in Frames /\ f1.pc = "keep" /\ f1.arr = a.arr /\ f1.columns = a.columns
    BY <1>1 DEF Frames
  <2>2. at' = [at EXCEPT ![g] = f1] /\ UNCHANGED <<heap, encoders, held>>
    BY <1>4 DEF KeepField, Continue
  <2> HIDE DEF f1
  <2>3. PrivateOf(f1) \subseteq Private(g) /\ UsesEncoder(f1)
    BY <1>2, <2>1 DEF PrivateOf, UsesEncoder
  <2> QED BY <2>1, <2>2, <2>3, MovesSilently
<1> QED BY <1>3, <1>4

LEMMA FieldsKeptTouches == ASSUME IInv, NEW g \in Goroutines, FieldsKept(g) PROVE Touches(g)
<1> DEFINE a == at[g]
           r == rowTypeOfFields(Contents(a.arr, a.n))
           c == [mask |-> a.call.mask, fields |-> a.arr, columns |-> a.columns, n |-> a.n,
                 rowType |-> Fresh(1), rowTypeErr |-> r]
           x == Object(Part("rowType"), r.type.fields)
<1>1. CASE Panics(g) \/ Fail(g, r.err, r.path)
  BY <1>1, PanicsTouches, FailTouches
<1>2. CASE /\ heap' = Append(heap, x) /\ encoders' = Append(encoders, c)
           /\ Finish(g, [NoReturn EXCEPT !.kind = "ok"]) /\ UNCHANGED held
  <2>1. Writes(g) /\ Fresh(1) \in Mine(g)
    <3> HIDE DEF x
    <3> QED BY <1>2, OneMade
  <2>2. Owned(c) \subseteq Mine(g)
    <3>1. a.pc = "keep"
      BY DEF FieldsKept
    <3>2. {a.arr, a.columns} \subseteq Mine(g)
      BY <3>1 DEF Mine, Private, PrivateOf
    <3>3. Owned(c) = {a.arr, a.columns, Fresh(1)}
      BY DEF Owned
    <3> QED BY <2>1, <3>2, <3>3
  <2> HIDE DEF c, x
  <2>3. at' = [at EXCEPT ![g] = Idle] /\ Idle \in Frames
    BY <1>2, FinishIdles, FrameTyped
  <2>4. at'[g] = Idle /\ Private(g)' = {} /\ UsesEncoder(at[g])'
    <3>1. at'[g] = Idle
      BY <2>3 DEF IInv, Ownership
    <3> QED BY <3>1, IdleTyped DEF Private, PrivateOf, UsesEncoder
  <2>5. IsSeq(encoders)
    BY DEF IInv, Ownership
  <2>6. /\ IsSeq(encoders') /\ Len(encoders') = Len(encoders) + 1 /\ Len(encoders) \in Nat
        /\ \A e \in 1..Len(encoders) : encoders'[e] = encoders[e]
        /\ encoders'[Len(encoders) + 1] = c
    BY <1>2, <2>5, Appended
  <2>7. Compiled' \subseteq Compiled \cup Owned(c)
    <3>1. ASSUME NEW e \in 1..Len(encoders')
          PROVE  Owned(encoders'[e]) \subseteq Compiled \cup Owned(c)
      <4>1. CASE e \in 1..Len(encoders)
        BY <2>6, <4>1 DEF Compiled
      <4>2. CASE e = Len(encoders) + 1
        BY <2>6, <4>2
      <4> QED BY <2>6, <4>1, <4>2
    <3>2. Compiled' = UNION {Owned(encoders'[e]) : e \in 1..Len(encoders')}
      BY DEF Compiled, Owned
    <3> QED BY <3>1, <3>2
  <2>8. HandsOn(g)
    <3>1. held' \subseteq held \cup {} /\ {} \cap Owned(c) = {}
      BY <1>2
    <3>2. {} \in SUBSET (Mine(g) \ Private(g)') /\ Owned(c) \in SUBSET (Mine(g) \ Private(g)')
      BY <2>2, <2>4
    <3>3. \E X, Y \in SUBSET (Mine(g) \ Private(g)') :
            X \cap Y = {} /\ held' \subseteq held \cup X /\ Compiled' \subseteq Compiled \cup Y
      BY <2>7, <3>1, <3>2
    <3>4. Len(encoders') >= Len(encoders)
      BY <2>6
    <3> HIDE DEF a, r
    <3> QED BY ZenonT(30), <2>6, <3>3, <3>4 DEF HandsOn
  <2> QED BY <2>1, <2>3, <2>4, <2>8 DEF Touches
<1> QED BY <1>1, <1>2 DEF FieldsKept

LEMMA ColumnsTouches == ASSUME IInv, NEW g \in Goroutines, Columns(g) PROVE Touches(g)
BY CopyTouches DEF Columns

LEMMA RowTypeTouches == ASSUME IInv, NEW g \in Goroutines, RowType(g) PROVE Touches(g)
BY CopyTouches, FailTouches DEF RowType

LEMMA BeginItemTouches == ASSUME IInv, NEW g \in Goroutines, BeginItem(g) PROVE Touches(g)
<1> DEFINE a == at[g]
           x == Object(a.call, [i \in 1..BufferLength(g) |-> Zero])
           f1 == [a EXCEPT !.pc = "values"]
           f2 == [f1 EXCEPT !.arr = Fresh(1)]
<1>1. CASE Panics(g) \/ Fail(g, "ErrNilStructPointer", <<>>)
  BY <1>1, PanicsTouches, FailTouches
<1>2. CASE /\ heap' = Append(heap, x) /\ UNCHANGED <<encoders, held>>
           /\ Continue(g, [a EXCEPT !.pc = "values", !.arr = Buffer(g)])
  <2>1. Writes(g) /\ Fresh(1) \in Mine(g) /\ Fresh(1) \in Nat
    <3> HIDE DEF x
    <3> QED BY <1>2, OneMade
  <2>2. f1 \in Frames /\ f1.pc = "values" /\ f1.call = a.call
    BY FrameTyped DEF Frames
  <2>3. f2 \in Frames /\ f2.pc = "values" /\ f2.arr = Fresh(1) /\ f2.call = a.call
    <3> HIDE DEF f1
    <3> QED BY <2>1, <2>2 DEF Frames
  <2>4. Continue(g, f2) /\ UNCHANGED <<encoders, held>>
    BY <1>2 DEF Buffer
  <2>5. a.call.enc \in 1..Len(encoders)
    <3>1. a.pc = "item"
      BY DEF BeginItem
    <3> QED BY <3>1, FrameTyped DEF UsesEncoder
  <2> HIDE DEF f2
  <2>6. PrivateOf(f2) \subseteq Mine(g) /\ UsesEncoder(f2)
    BY <2>1, <2>3, <2>5 DEF PrivateOf, UsesEncoder
  <2> QED BY <2>1, <2>3, <2>4, <2>6, ContinueTouches
<1> QED BY <1>1, <1>2 DEF BeginItem

\* A step of a goroutine that fills or returns a buffer.
LEMMA Filling ==
  ASSUME IInv, NEW g \in Goroutines, at[g].pc = "values"
  PROVE  /\ at[g] \in Frames /\ at[g].call.enc \in 1..Len(encoders)
         /\ Private(g) = {at[g].arr} /\ at[g].arr \in 1..Len(heap) /\ Len(heap) \in Nat
<1>1. at[g] \in Frames /\ at[g].call.enc \in 1..Len(encoders)
  BY FrameTyped DEF UsesEncoder
<1>2. Private(g) = {at[g].arr}
  BY DEF Private, PrivateOf
<1>3. Private(g) \subseteq 2..Len(heap) /\ Len(heap) \in Nat
  BY DEF IInv, Ownership, Upto, IsSeq
<1> QED BY <1>1, <1>2, <1>3

LEMMA EncodeFieldTouches == ASSUME IInv, NEW g \in Goroutines, EncodeField(g) PROVE Touches(g)
<1> DEFINE a == at[g]
           f == heap[enc(g).fields].data[a.pos]
           v == ValueOfField(a.call, f)
           path == <<AtField(IndexInColumns(a, f))>>
           x1 == [heap[a.arr] EXCEPT !.data[a.pos] = v]
           h1 == [heap EXCEPT ![a.arr] = x1]
<1>1. CASE Panics(g) \/ Fail(g, "ErrEncode", path)
  <2> HIDE DEF path
  <2> QED BY <1>1, PanicsTouches, FailTouches
<1>2. CASE /\ heap' = [heap EXCEPT ![a.arr].data[a.pos] = v]
           /\ Continue(g, [a EXCEPT !.pos = @ + 1]) /\ UNCHANGED <<encoders, held>>
  <2>1. a.pc = "values"
    BY DEF EncodeField
  <2>2. /\ a \in Frames /\ a.call.enc \in 1..Len(encoders)
        /\ Private(g) = {a.arr} /\ a.arr \in 1..Len(heap) /\ Len(heap) \in Nat
    BY <2>1, Filling
  <2>3. Writes(g)
    <3>1. IsSeq(heap) /\ heap' = h1
      BY <1>2 DEF IInv, Ownership
    <3> DEFINE S == Members(heap) \cup {x1}
    <3>2. heap \in Seq(S) /\ x1 \in S
      BY <3>1, SeqOfMore
    <3> HIDE DEF S, x1, a
    <3>3. h1 \in Seq(S) /\ Len(h1) = Len(heap) /\ \A i \in 1..Len(heap) : i # a.arr => h1[i] = heap[i]
      BY <2>2, <3>2
    <3> HIDE DEF h1
    <3>4. IsSeq(h1)
      BY <3>3, SeqOfMembers
    <3> QED BY <2>2, <3>1, <3>3, <3>4 DEF Writes
  <2> DEFINE f1 == [a EXCEPT !.pos = a.pos + 1]
  <2>4. f1 \in Frames /\ f1.pc = "values" /\ f1.arr = a.arr /\ f1.call = a.call
    BY <2>1, <2>2 DEF Frames
  <2>5. Continue(g, f1) /\ UNCHANGED <<encoders, held>>
    BY <1>2
  <2> HIDE DEF f1
  <2>6. PrivateOf(f1) \subseteq Mine(g) /\ UsesEncoder(f1)
    BY <2>2, <2>4 DEF PrivateOf, UsesEncoder, Mine
  <2> QED BY <2>3, <2>4, <2>5, <2>6, ContinueTouches
<1> QED BY <1>1, <1>2 DEF EncodeField

LEMMA ReturnValuesTouches == ASSUME IInv, NEW g \in Goroutines, ReturnValues(g) PROVE Touches(g)
<1> DEFINE o == at[g].arr
<1>1. CASE HandOut(g, o) /\ UNCHANGED heap
  <2>1. at[g].pc = "values"
    BY DEF ReturnValues
  <2>2. {o} \subseteq Mine(g)
    BY <2>1, Filling DEF Mine
  <2>3. /\ at' = [at EXCEPT ![g] = Idle] /\ encoders' = encoders /\ held' = held \cup {o}
        /\ heap' = heap
    BY <1>1, FinishIdles DEF HandOut
  <2>4. Writes(g)
    BY <2>3, SameHeap
  <2>5. /\ {o} \subseteq Mine(g) \ PrivateOf(Idle) /\ PrivateOf(Idle) \subseteq Mine(g)
        /\ Idle \in Frames /\ UsesEncoder(Idle)
    BY <2>2, FrameTyped
  <2> QED BY <2>3, <2>4, <2>5, Moves
<1>2. ASSUME NEW data, HandOutCopy(g, data) PROVE Touches(g)
  BY <1>2, CopyTouches
<1> QED BY <1>1, <1>2 DEF ReturnValues

\* Every step of a goroutine keeps to what is its own.
LEMMA StepTouches ==
  ASSUME IInv, NEW g \in Goroutines, CallNew(g) \/ CallMethod(g) \/ Step(g) PROVE Touches(g)
BY CallNewTouches, CallMethodTouches, ListFieldsTouches, KeepFieldTouches, FieldsKeptTouches,
   ColumnsTouches, RowTypeTouches, BeginItemTouches, EncodeFieldTouches, ReturnValuesTouches
   DEF Step

----------------------------------------------------------------------------
(* The theorems.                                                           *)

\* What a caller writes to is its own.
LEMMA ScribbleKeeps ==
  ASSUME IInv, Scribble
  PROVE  /\ IInv' /\ UNCHANGED <<encoders, at, held>>
         /\ \A o \in 1..Len(heap) : o \notin held => heap'[o] = heap[o]
<1>1. UNCHANGED <<encoders, at, held>>
  BY DEF Scribble
<1>2. PICK o \in held : heap' = [heap EXCEPT ![o].data = Scribbled(@)]
  BY DEF Scribble
<1> DEFINE x == [heap[o] EXCEPT !.data = Scribbled(heap[o].data)]
           h1 == [heap EXCEPT ![o] = x]
           S  == Members(heap) \cup {x}
<1>3. IsSeq(heap) /\ heap \in Seq(S) /\ x \in S /\ Len(heap) \in Nat /\ o \in 2..Len(heap)
  <2>1. IsSeq(heap) /\ Len(heap) \in Nat /\ o \in 2..Len(heap)
    BY DEF IInv, Ownership, IsSeq, Upto
  <2> HIDE DEF x
  <2> QED BY <2>1, SeqOfMore
<1>4. heap' = h1
  BY <1>2
<1>5. /\ IsSeq(h1) /\ Len(h1) = Len(heap)
      /\ \A i \in 1..Len(heap) : i # o => h1[i] = heap[i]
  <2> HIDE DEF S, x
  <2>1. h1 \in Seq(S) /\ Len(h1) = Len(heap) /\ \A i \in 1..Len(heap) : i # o => h1[i] = heap[i]
    BY <1>3
  <2> HIDE DEF h1
  <2> QED BY <2>1, SeqOfMembers
<1> HIDE DEF h1
<1>6. /\ IsSeq(heap') /\ Len(heap') = Len(heap)
      /\ \A i \in 1..Len(heap) : i \notin held => heap'[i] = heap[i]
  BY <1>4, <1>5
<1>7. Compiled' = Compiled /\ IsSeq(encoders')
  BY <1>1 DEF Compiled, IInv, Ownership, IsSeq, Members
<1>8. \A g \in Goroutines : Private(g)' = Private(g) /\ (UsesEncoder(at[g])' <=> UsesEncoder(at[g]))
  BY <1>1 DEF Private, PrivateOf, UsesEncoder
<1>9. Ownership'
  BY <1>1, <1>6, <1>7, <1>8 DEF IInv, Ownership
<1>10. CacheIntact'
  <2>1. 1 \in 1..Len(heap) /\ 1 \notin held
    BY DEF IInv, Ownership, Upto
  <2> QED BY <1>6, <2>1 DEF IInv, CacheIntact, Cached
<1> QED BY <1>1, <1>6, <1>9, <1>10 DEF IInv

LEMMA InitOwned == Init => IInv
<1> SUFFICES ASSUME Init PROVE IInv
  OBVIOUS
<1> DEFINE x == Object(Part("listing"), listings[T])
<1>1. heap = <<x>> /\ encoders = <<>> /\ held = {} /\ at = [g \in Goroutines |-> Idle]
  BY DEF Init
<1>2. CacheIntact
  BY <1>1 DEF CacheIntact, Cached, Object
<1> HIDE DEF x
<1>3. IsSeq(heap) /\ Len(heap) = 1
  <2>1. <<x>> \in Seq({x})
    OBVIOUS
  <2> QED BY <1>1, <2>1, SeqOfMembers
<1>4. IsSeq(encoders) /\ Compiled = {}
  <2>1. <<>> \in Seq({})
    OBVIOUS
  <2>2. IsSeq(encoders)
    BY <1>1, <2>1, SeqOfMembers
  <2>3. 1..Len(encoders) = {}
    BY <1>1
  <2>4. Compiled = {}
    BY <2>3, ZenonT(30) DEF Compiled
  <2> QED BY <2>2, <2>4
<1>5. \A g \in Goroutines : at[g] = Idle /\ Private(g) = {} /\ UsesEncoder(at[g])
  BY <1>1, IdleTyped DEF Private, PrivateOf, UsesEncoder
<1>6. at \in [Goroutines -> Frames]
  BY <1>1, IdleTyped
<1> QED BY <1>1, <1>2, <1>3, <1>4, <1>5, <1>6 DEF IInv, Ownership

LEMMA NextKeepsOwned == IInv /\ [Next]_vars => IInv'
<1> SUFFICES ASSUME IInv, [Next]_vars PROVE IInv'
  OBVIOUS
<1>1. CASE Scribble
  BY <1>1, ScribbleKeeps
<1>2. ASSUME NEW g \in Goroutines, CallNew(g) \/ CallMethod(g) \/ Step(g) PROVE IInv'
  BY <1>2, StepTouches, TouchesKeepsInv
<1>3. CASE UNCHANGED vars
  <2>1. UNCHANGED <<heap, encoders, at, held>>
    BY <1>3 DEF vars
  <2>2. Compiled' = Compiled /\ IsSeq(heap') /\ IsSeq(encoders')
    BY <2>1 DEF Compiled, IInv, Ownership, IsSeq, Members
  <2>3. \A g \in Goroutines : Private(g)' = Private(g) /\ (UsesEncoder(at[g])' <=> UsesEncoder(at[g]))
    BY <2>1 DEF Private, PrivateOf, UsesEncoder
  <2>4. Ownership'
    BY <2>1, <2>2, <2>3 DEF IInv, Ownership
  <2>5. CacheIntact'
    BY <2>1 DEF IInv, CacheIntact
  <2> QED BY <2>4, <2>5 DEF IInv
<1> QED BY <1>1, <1>2, <1>3 DEF Next

LEMMA OwnershipHolds == Spec => []IInv
<1> QED BY InitOwned, NextKeepsOwned, PTL DEF Spec

\* The field listing that every encoder of the process is compiled from is
\* never written to, whatever is compiled, called and scribbled over
\* (rowencoder.go:44).
THEOREM CacheUntouched == Spec => []CacheIntact
<1>1. IInv => CacheIntact
  BY DEF IInv
<1> QED BY <1>1, OwnershipHolds, PTL

\* The encoders published so far, and what they refer to, stay as they are.
EncodersUntouched ==
  \A e \in 1..Len(encoders) :
    /\ encoders'[e] = encoders[e]
    /\ \A o \in Owned(encoders[e]) : heap'[o] = heap[o]

\* No step rewrites a published encoder or an object it refers to, so that
\* goroutines may use it together (rowencoder.go:53).
THEOREM EncodersImmutable == Spec => [][EncodersUntouched]_vars
<1>1. ASSUME IInv, [Next]_vars PROVE EncodersUntouched \/ UNCHANGED vars
  <2>1. ASSUME NEW e \in 1..Len(encoders), NEW o \in Owned(encoders[e])
        PROVE  o \in 1..Len(heap) /\ o \notin held /\ \A g \in Goroutines : o \notin Private(g)
    <3>1. o \in Compiled
      BY DEF Compiled
    <3> QED BY <1>1, <3>1 DEF IInv, Ownership, Upto
  <2>2. CASE Scribble
    <3>1. /\ encoders' = encoders
          /\ \A o \in 1..Len(heap) : o \notin held => heap'[o] = heap[o]
      BY <1>1, <2>2, ScribbleKeeps
    <3> QED BY <2>1, <3>1 DEF EncodersUntouched
  <2>3. ASSUME NEW g \in Goroutines, CallNew(g) \/ CallMethod(g) \/ Step(g)
        PROVE  EncodersUntouched
    <3>1. Touches(g)
      BY <1>1, <2>3, StepTouches
    <3> QED BY <2>1, <3>1 DEF EncodersUntouched, Touches, Writes, HandsOn
  <2> QED BY <1>1, <2>2, <2>3 DEF Next
<1>2. IInv /\ [Next]_vars => [EncodersUntouched]_vars
  BY <1>1
<1> QED BY <1>2, OwnershipHolds, PTL DEF Spec

\* Only its holder writes to what was handed out.
ResultsUntouched == Scribble \/ \A o \in held : heap'[o] = heap[o]

\* No step of NewRowEncoder or of an encoder's methods writes to a slice, a
\* row type or a row that an earlier call returned (rowencoder.go:91, 101, 143).
THEOREM ResultsBelongToCallers == Spec => [][ResultsUntouched]_vars
<1>1. ASSUME IInv, [Next]_vars PROVE ResultsUntouched \/ UNCHANGED vars
  <2>1. ASSUME NEW g \in Goroutines, CallNew(g) \/ CallMethod(g) \/ Step(g)
        PROVE  ResultsUntouched
    <3>1. Touches(g)
      BY <1>1, <2>1, StepTouches
    <3>2. \A o \in held : o \in 1..Len(heap) /\ o \notin Private(g)
      BY <1>1 DEF IInv, Ownership, Upto
    <3> QED BY <3>1, <3>2 DEF ResultsUntouched, Touches, Writes
  <2> QED BY <1>1, <2>1 DEF Next, ResultsUntouched
<1>2. IInv /\ [Next]_vars => [ResultsUntouched]_vars
  BY <1>1
<1> QED BY <1>2, OwnershipHolds, PTL DEF Spec

(***************************************************************************)
(* What RowEncoders promise.  What a goroutine has filled in, and what is  *)
(* in an encoder or was handed out, is still there after the steps of the  *)
(* others, by ownership: the invariant here says what that is.             *)
(***************************************************************************)
L == listings[T]

\* An array with a place for every listed field, to which xs was appended.
Places(xs) == [i \in 1..Len(L) |-> IF i <= Len(xs) THEN xs[i] ELSE Zero]

\* The values of the first n fields of fs, in a buffer for all of them.
ValuesUpto(n, call, fs) ==
  [i \in 1..Len(fs) |-> IF i <= n THEN ValueOfField(call, fs[i]) ELSE Zero]

Stops(call, x) == Outcome(call, x) \in {"err", "panic"}

\* A call in progress has what its loop has come to.
KeepSound(a) ==
  LET fs == Subsequence(L, KeptAt(a.call.mask, a.pos - 1)) IN
  /\ a.pos \in 1..(Len(L) + 1) /\ a.n = Len(fs) /\ a.n < a.pos /\ a.arr # a.columns
  /\ \A i \in 1..Len(fs) : \E n \in 1..Len(L) : fs[i] = L[n]
  /\ heap[a.arr] = Object(Part("fields"), Places(fs))
  /\ heap[a.columns] = Object(Part("columns"), Places(Names(fs)))
ValuesSound(a) ==
  LET fs == Kept(encoders[a.call.enc].mask) IN
  /\ a.call.opts \notin Refused /\ structValueError(Items[a.call.item]) = ""
  /\ a.pos \in 1..(Len(fs) + 1)
  /\ heap[a.arr] = Object(a.call, ValuesUpto(a.pos - 1, a.call, fs))
  /\ \A i \in 1..(a.pos - 1) : ~Stops(a.call, fs[i])
FrameSound(a) ==
  /\ a.pc \in {"list", "keep"} => a.call.op \in Constructors
  /\ a.pc = "method" => a.call.op \in TypeMethods \cup {"Columns"}
  /\ a.pc \in {"item", "values"} => a.call.op \in ValueMethods
  /\ a.pc \in {"idle", "list", "keep"} => a.call.enc = 0
  /\ a.pc \in {"list", "method", "item"} => a.pos = 1 /\ a.n = 0
  /\ a.pc # "keep" => a.columns = 0
  /\ a.pc \notin {"keep", "values"} => a.arr = 0
  /\ a.pc = "keep" => KeepSound(a)
  /\ a.pc = "values" => ValuesSound(a)

EncoderSound(c) ==
  LET fs == Kept(c.mask) IN
  /\ c.n = Len(fs)
  /\ heap[c.fields].data = Places(fs) /\ heap[c.columns].data = Places(Names(fs))
  /\ c.rowTypeErr = rowTypeOfFields(fs) /\ c.rowTypeErr.kind \in {"ok", "err"}
  /\ c.rowTypeErr.kind = "ok" => c.rowTypeErr.err = "" /\ c.rowTypeErr.path = <<>>
  /\ heap[c.rowType].data = c.rowTypeErr.type.fields

HeldSound(x) ==
  /\ x = Object(x.made, x.data)
  /\ x.made.enc \in 1..Len(encoders)
  /\ x.data = Scribbled(x.data) \/ x.data = Promised(x.made)

\* A result is what the call promised.
TypeMethodSettled(r) ==
  LET t == rowTypeOfFields(Kept(encoders[r.call.enc].mask))
  IN  r.kind = t.kind /\ r.err = t.err /\ r.path = t.path
ValueMethodSettled(r) ==
  LET fs == Kept(encoders[r.call.enc].mask)
      c  == r.call
  IN  IF c.opts \in Refused THEN r.kind = "panic"
      ELSE IF structValueError(Items[c.item]) # "" THEN r.err = "ErrNilStructPointer"
      ELSE \/ r.kind = "ok" /\ \A n \in 1..Len(fs) : ~Stops(c, fs[n])
           \/ \E n \in 1..Len(fs) :
                /\ Stops(c, fs[n]) /\ \A m \in 1..(n - 1) : ~Stops(c, fs[m])
                /\ IF Outcome(c, fs[n]) = "panic" THEN r.kind = "panic"
                   ELSE r.err = "ErrEncode" /\ r.path = <<AtField(n - 1)>>
Settled(r) ==
  /\ r.kind = "ok" => r.ref \in held \cup {0}
  /\ r.call.op \in TypeMethods \cup ValueMethods => r.call.enc \in 1..Len(encoders)
  /\ r.call.op = "NewRowEncoder" /\ r.kind = "err" => r.err \in {"ErrNotStruct", "ErrInvalidColumnMask"}
  /\ r.call.op \in {"RowType", "ResultSetMetadata"} => TypeMethodSettled(r)
  /\ r.call.op \in ValueMethods => ValueMethodSettled(r)

Sound ==
  /\ calls \in 0..MaxCalls /\ DOMAIN ret = Goroutines
  /\ \A g \in Goroutines : FrameSound(at[g]) /\ Settled(ret[g])
  /\ \A e \in 1..Len(encoders) : EncoderSound(encoders[e])
  /\ \A o \in held : HeldSound(heap[o])

----------------------------------------------------------------------------
(* Listings and arrays.                                                    *)

LEMMA Listing == Len(L) \in Nat /\ DOMAIN L = 1..Len(L)
BY ListingAssumption, RowEncoderAssumption DEF L

\* The kept ones of the first k fields.
LEMMA KeptFields ==
  ASSUME NEW m, NEW k \in Nat
  PROVE  LET fs == Subsequence(L, KeptAt(m, k)) IN
         IsSeq(fs) /\ Len(fs) \in Nat /\ Len(fs) <= k
<1> DEFINE P == KeptAt(m, k)
<1>1. P \in SUBSET (1..k)
  BY DEF KeptAt
<1> HIDE DEF P
<1>2. IsFiniteSet(1..k) /\ Cardinality(1..k) = k
  BY FS_Interval
<1>3. Cardinality(P) <= k /\ Cardinality(P) \in Nat
  BY <1>1, <1>2, FS_Subset, Positions
<1>4. IsSeq(Subsequence(L, P)) /\ Len(Subsequence(L, P)) = Cardinality(P)
  BY <1>1, SelectedIsSeq
<1> QED BY <1>3, <1>4 DEF P

LEMMA KeptNext ==
  ASSUME NEW m, NEW k \in Nat
  PROVE  Subsequence(L, KeptAt(m, k + 1)) =
           IF keep(m, L[k + 1].name) THEN Append(Subsequence(L, KeptAt(m, k)), L[k + 1])
           ELSE Subsequence(L, KeptAt(m, k))
<1>1. KeptAt(m, k) \in SUBSET (1..k) /\ \A i : i \in 1..(k + 1) <=> i \in 1..k \/ i = k + 1
  BY DEF KeptAt
<1>2. CASE keep(m, L[k + 1].name)
  <2>1. KeptAt(m, k + 1) = KeptAt(m, k) \cup {k + 1}
    BY <1>1, <1>2 DEF KeptAt, L
  <2>2. Subsequence(L, KeptAt(m, k) \cup {k + 1}) = Append(Subsequence(L, KeptAt(m, k)), L[k + 1])
    BY <1>1, SelectNext
  <2> QED BY <1>2, <2>1, <2>2
<1>3. CASE ~keep(m, L[k + 1].name)
  <2>1. KeptAt(m, k + 1) = KeptAt(m, k)
    BY <1>1, <1>3 DEF KeptAt, L
  <2> QED BY <1>3, <2>1
<1> QED BY <1>2, <1>3

LEMMA AllKept ==
  ASSUME NEW m
  PROVE  /\ Kept(m) = Subsequence(L, KeptAt(m, Len(L)))
         /\ IsSeq(Kept(m)) /\ Len(Kept(m)) \in Nat /\ Len(Kept(m)) <= Len(L)
<1>1. Kept(m) = Subsequence(L, KeptAt(m, Len(L)))
  BY DEF Kept, L
<1> QED BY <1>1, Listing, KeptFields

LEMMA NamesTyped ==
  ASSUME NEW fs, Len(fs) \in Nat
  PROVE  IsSeq(Names(fs)) /\ Len(Names(fs)) = Len(fs) /\ \A i \in 1..Len(fs) : Names(fs)[i] = fs[i].name
<1> DEFINE S == {fs[i].name : i \in 1..Len(fs)}
<1>1. Names(fs) \in [1..Len(fs) -> S]
  BY DEF Names
<1> HIDE DEF S
<1>2. Names(fs) \in Seq(S) /\ Len(Names(fs)) = Len(fs)
  BY <1>1
<1>3. \A i \in 1..Len(fs) : Names(fs)[i] = fs[i].name
  BY DEF Names
<1> QED BY <1>2, <1>3, SeqOfMembers

LEMMA NamesNext ==
  ASSUME NEW fs, IsSeq(fs), NEW x
  PROVE  Names(Append(fs, x)) = Append(Names(fs), x.name)
<1> DEFINE gs == Append(fs, x)
           a  == Names(gs)
           b  == Append(Names(fs), x.name)
<1>1. /\ IsSeq(gs) /\ Len(gs) = Len(fs) + 1 /\ Len(fs) \in Nat
      /\ \A i \in 1..Len(fs) : gs[i] = fs[i]
      /\ gs[Len(fs) + 1] = x
  BY Appended
<1> HIDE DEF gs
<1>2. IsSeq(Names(fs)) /\ Len(Names(fs)) = Len(fs) /\ \A i \in 1..Len(fs) : Names(fs)[i] = fs[i].name
  BY <1>1, NamesTyped
<1>3. IsSeq(a) /\ Len(a) = Len(gs) /\ \A i \in 1..Len(gs) : a[i] = gs[i].name
  BY <1>1, NamesTyped
<1>4. /\ IsSeq(b) /\ Len(b) = Len(Names(fs)) + 1
      /\ \A i \in 1..Len(Names(fs)) : b[i] = Names(fs)[i]
      /\ b[Len(Names(fs)) + 1] = x.name
  BY <1>2, Appended
<1> HIDE DEF a, b
<1>5. \A i \in 1..Len(a) : a[i] = b[i]
  BY <1>1, <1>2, <1>3, <1>4
<1>6. a = b
  BY <1>1, <1>2, <1>3, <1>4, <1>5, EqualSeqs
<1> QED BY <1>6 DEF a, b, gs

\* What was appended to an array is read back, and can be appended to.
LEMMA ReadBack ==
  ASSUME NEW xs, IsSeq(xs), Len(xs) <= Len(L)
  PROVE  SubSeq(Places(xs), 1, Len(xs)) = xs
<1> DEFINE e(i) == IF i <= Len(xs) THEN xs[i] ELSE Zero
           S == {e(i) : i \in 1..Len(L)}
           p == Places(xs)
           t == SubSeq(p, 1, Len(xs))
<1>1. Len(L) \in Nat /\ Len(xs) \in Nat
  BY Listing, Appended
<1>2. p \in [1..Len(L) -> S] /\ \A i \in 1..Len(L) : p[i] = e(i)
  BY DEF Places
<1> HIDE DEF S, p
<1>3. p \in Seq(S) /\ Len(p) = Len(L)
  BY <1>1, <1>2
<1>4. t \in Seq(S) /\ Len(t) = Len(xs) /\ \A i \in 1..Len(xs) : t[i] = p[i]
  BY <1>1, <1>3
<1> HIDE DEF t
<1>5. \A i \in 1..Len(t) : t[i] = xs[i]
  BY <1>1, <1>2, <1>4
<1>6. t = xs
  BY <1>4, <1>5, SeqOfMembers, EqualSeqs
<1> QED BY <1>6 DEF t, p

LEMMA AppendPlace ==
  ASSUME NEW xs, IsSeq(xs), Len(xs) < Len(L), NEW x
  PROVE  [Places(xs) EXCEPT ![Len(xs) + 1] = x] = Places(Append(xs, x))
<1> DEFINE ys == Append(xs, x)
<1>1. /\ Len(L) \in Nat /\ Len(xs) \in Nat /\ Len(ys) = Len(xs) + 1
      /\ \A i \in 1..Len(xs) : ys[i] = xs[i]
      /\ ys[Len(xs) + 1] = x
  BY Listing, Appended
<1> HIDE DEF ys
<1>2. ASSUME NEW i \in 1..Len(L)
      PROVE  (IF i = Len(xs) + 1 THEN x ELSE IF i <= Len(xs) THEN xs[i] ELSE Zero)
               = (IF i <= Len(ys) THEN ys[i] ELSE Zero)
  BY <1>1
<1>3. [Places(xs) EXCEPT ![Len(xs) + 1] = x] =
        [i \in 1..Len(L) |-> IF i = Len(xs) + 1 THEN x ELSE IF i <= Len(xs) THEN xs[i] ELSE Zero]
  BY <1>1 DEF Places
<1>4. Places(ys) = [i \in 1..Len(L) |-> IF i <= Len(ys) THEN ys[i] ELSE Zero]
  BY DEF Places
<1> QED BY <1>2, <1>3, <1>4 DEF ys

LEMMA NextValue ==
  ASSUME NEW n \in Nat, NEW call, NEW fs, Len(fs) \in Nat, n < Len(fs)
  PROVE  [ValuesUpto(n, call, fs) EXCEPT ![n + 1] = ValueOfField(call, fs[n + 1])]
           = ValuesUpto(n + 1, call, fs)
<1> DEFINE v(i) == ValueOfField(call, fs[i])
<1>1. ASSUME NEW i \in 1..Len(fs)
      PROVE  (IF i = n + 1 THEN v(n + 1) ELSE IF i <= n THEN v(i) ELSE Zero)
               = (IF i <= n + 1 THEN v(i) ELSE Zero)
  OBVIOUS
<1>2. [ValuesUpto(n, call, fs) EXCEPT ![n + 1] = v(n + 1)] =
        [i \in 1..Len(fs) |-> IF i = n + 1 THEN v(n + 1) ELSE IF i <= n THEN v(i) ELSE Zero]
  BY DEF ValuesUpto
<1>3. ValuesUpto(n + 1, call, fs) = [i \in 1..Len(fs) |-> IF i <= n + 1 THEN v(i) ELSE Zero]
  BY DEF ValuesUpto
<1> QED BY <1>1, <1>2, <1>3

----------------------------------------------------------------------------
(* What stays as it was under a step that writes to none of it.            *)

\* Encoders are only added, and nothing is taken back from callers.
Grows ==
  /\ Len(encoders) \in Nat /\ Len(encoders') \in Nat /\ Len(encoders') >= Len(encoders)
  /\ \A e \in 1..Len(encoders) : encoders'[e] = encoders[e]
  /\ held \subseteq held'

LEMMA FrameStays ==
  ASSUME NEW a, FrameSound(a), UsesEncoder(a), Grows,
         \A o \in PrivateOf(a) : heap'[o] = heap[o]
  PROVE  FrameSound(a)'
<1>1. a.pc = "keep" => KeepSound(a)'
  BY DEF FrameSound, KeepSound, PrivateOf
<1>2. a.pc = "values" => ValuesSound(a)'
  <2> SUFFICES ASSUME a.pc = "values" PROVE ValuesSound(a)'
    OBVIOUS
  <2>1. ValuesSound(a) /\ heap'[a.arr] = heap[a.arr]
    BY DEF FrameSound, PrivateOf
  <2>2. encoders'[a.call.enc] = encoders[a.call.enc]
    BY DEF UsesEncoder, Grows
  <2> QED BY <2>1, <2>2 DEF ValuesSound
<1> QED BY <1>1, <1>2 DEF FrameSound

LEMMA EncoderStays ==
  ASSUME NEW c, EncoderSound(c), \A o \in Owned(c) : heap'[o] = heap[o]
  PROVE  EncoderSound(c)'
BY DEF EncoderSound, Owned

LEMMA PromisedStays ==
  ASSUME NEW made, made.enc \in 1..Len(encoders), Grows
  PROVE  Promised(made)' = Promised(made) /\ made.enc \in 1..Len(encoders')
<1>1. encoders'[made.enc] = encoders[made.enc] /\ made.enc \in 1..Len(encoders')
  BY DEF Grows
<1> QED BY <1>1 DEF Promised

LEMMA HeldStays == ASSUME NEW x, HeldSound(x), Grows PROVE HeldSound(x)'
BY PromisedStays DEF HeldSound

LEMMA SettledStays == ASSUME NEW r, Settled(r), Grows PROVE Settled(r)'
<1>1. r.call.op \in TypeMethods \cup ValueMethods =>
        r.call.enc \in 1..Len(encoders') /\ encoders'[r.call.enc] = encoders[r.call.enc]
  BY DEF Settled, Grows
<1>2. {"RowType", "ResultSetMetadata"} \subseteq TypeMethods
  BY DEF TypeMethods
<1>3. r.call.op \in {"RowType", "ResultSetMetadata"} => TypeMethodSettled(r)'
  BY <1>1, <1>2 DEF Settled, TypeMethodSettled
<1>4. r.call.op \in ValueMethods => ValueMethodSettled(r)'
  BY <1>1 DEF Settled, ValueMethodSettled
<1> QED BY <1>1, <1>3, <1>4 DEF Settled, Grows

LEMMA TouchesGrow ==
  ASSUME IInv, NEW g \in Goroutines, Touches(g), held \subseteq held' PROVE Grows
<1>1. IsSeq(encoders) /\ IsSeq(encoders') /\ Len(encoders') >= Len(encoders)
  BY DEF Touches, HandsOn, IInv, Ownership
<1>2. Len(encoders) \in Nat /\ Len(encoders') \in Nat
  BY <1>1, Appended
<1> QED BY <1>1, <1>2 DEF Touches, HandsOn, Grows

\* A step of g leaves sound what it leaves alone.
LEMMA StepKeeps ==
  ASSUME IInv, Sound, NEW g \in Goroutines, Touches(g), held \subseteq held', calls' \in 0..MaxCalls,
         DOMAIN ret' = Goroutines, \A h \in Goroutines : h # g => ret'[h] = ret[h],
         FrameSound(at[g])', Settled(ret[g])',
         \A o \in held' \ held : HeldSound(heap[o])',
         \A e \in 1..Len(encoders') : e \notin 1..Len(encoders) => EncoderSound(encoders[e])'
  PROVE  Sound'
<1>1. Grows
  BY TouchesGrow
<1>2. \A o \in 1..Len(heap) : o \notin Private(g) => heap'[o] = heap[o]
  BY DEF Touches, Writes
<1>3. ASSUME NEW h \in Goroutines PROVE FrameSound(at[h])' /\ Settled(ret[h])'
  <2>1. CASE h # g
    <3>1. PICK a, r : a = at[h] /\ r = ret[h]
      OBVIOUS
    <3>2. at'[h] = a /\ ret'[h] = r
      BY <2>1, <3>1 DEF Touches, IInv, Ownership
    <3>3. /\ PrivateOf(a) \subseteq 1..Len(heap) /\ PrivateOf(a) \cap Private(g) = {}
          /\ UsesEncoder(a)
      BY <2>1, <3>1 DEF IInv, Ownership, Private, Upto
    <3>4. FrameSound(a) /\ Settled(r)
      BY <3>1 DEF Sound
    <3>5. FrameSound(a)'
      BY <1>1, <1>2, <3>3, <3>4, FrameStays
    <3>6. Settled(r)'
      BY <1>1, <3>4, SettledStays
    <3>7. FrameSound(at[h])'
      BY <3>2, <3>5 DEF FrameSound, KeepSound, ValuesSound
    <3>8. Settled(ret[h])'
      BY <3>2, <3>6 DEF Settled, TypeMethodSettled, ValueMethodSettled
    <3> QED BY <3>7, <3>8
  <2> QED BY <2>1
<1>4. ASSUME NEW e \in 1..Len(encoders') PROVE EncoderSound(encoders[e])'
  <2>1. CASE e \in 1..Len(encoders)
    <3>1. PICK c : c = encoders[e]
      OBVIOUS
    <3>2. Owned(c) \subseteq 1..Len(heap) /\ Owned(c) \cap Private(g) = {}
      <4>1. Compiled \subseteq Upto(Len(heap)) /\ Private(g) \cap Compiled = {}
        BY DEF IInv, Ownership
      <4>2. Owned(c) \subseteq Compiled
        BY <2>1, <3>1 DEF Compiled
      <4>3. Upto(Len(heap)) \subseteq 1..Len(heap)
        BY DEF Upto
      <4> QED BY <4>1, <4>2, <4>3
    <3>3. EncoderSound(c)'
      BY <1>2, <2>1, <3>1, <3>2, EncoderStays DEF Sound
    <3>4. encoders'[e] = c
      BY <1>1, <2>1, <3>1 DEF Grows
    <3> QED BY <3>3, <3>4 DEF EncoderSound
  <2> QED BY <2>1
<1>5. ASSUME NEW o \in held' PROVE HeldSound(heap[o])'
  <2>1. CASE o \in held
    <3>1. PICK x : x = heap[o]
      OBVIOUS
    <3>2. o \in 1..Len(heap) /\ o \notin Private(g)
      BY <2>1 DEF IInv, Ownership, Upto
    <3>3. heap'[o] = x
      BY <1>2, <3>1, <3>2
    <3>4. HeldSound(x)'
      BY <1>1, <2>1, <3>1, HeldStays DEF Sound
    <3> QED BY <3>3, <3>4 DEF HeldSound
  <2> QED BY <2>1
<1> QED BY <1>3, <1>4, <1>5 DEF Sound

----------------------------------------------------------------------------
(* Returning.                                                              *)

LEMMA OpKinds ==
  /\ \A op \in Constructors : op \notin TypeMethods \cup ValueMethods \cup {"Columns", "RowType", "ResultSetMetadata"}
  /\ \A op \in TypeMethods : op \notin ValueMethods \cup {"Columns", "NewRowEncoder"}
  /\ \A op \in ValueMethods : op \notin TypeMethods \cup Must \cup {"Columns", "NewRowEncoder", "RowType", "ResultSetMetadata"}
  /\ "Columns" \notin {"NewRowEncoder", "RowType", "ResultSetMetadata"}
  /\ \A op \in {"RowType", "ResultSetMetadata", "NewRowEncoder", "Columns"} : op \notin Must
BY DEF Constructors, TypeMethods, ValueMethods, Must

\* The ways to write a result.
LEMMA NoReturnAs ==
  /\ [NoReturn EXCEPT !.kind = "panic"] =
       [kind |-> "panic", err |-> "", path |-> <<>>, ref |-> 0, call |-> NoCall]
  /\ [NoReturn EXCEPT !.kind = "ok"] =
       [kind |-> "ok", err |-> "", path |-> <<>>, ref |-> 0, call |-> NoCall]
  /\ \A ref : [NoReturn EXCEPT !.kind = "ok", !.ref = ref] =
       [kind |-> "ok", err |-> "", path |-> <<>>, ref |-> ref, call |-> NoCall]
  /\ \A err, path : [NoReturn EXCEPT !.kind = "err", !.err = err, !.path = path] =
       [kind |-> "err", err |-> err, path |-> path, ref |-> 0, call |-> NoCall]
<1>1. PICK a, b, c, d, e : /\ NoReturn = [kind |-> a, err |-> b, path |-> c, ref |-> d, call |-> e]
                           /\ b = "" /\ c = <<>> /\ d = 0 /\ e = NoCall
  BY ZenonT(30) DEF NoReturn
<1>2. NoReturn = [kind |-> a, err |-> b, path |-> c, ref |-> d, call |-> e]
  BY <1>1
<1>3. b = "" /\ c = <<>> /\ d = 0 /\ e = NoCall
  BY <1>1
<1>4. [NoReturn EXCEPT !.kind = "panic"] = [kind |-> "panic", err |-> b, path |-> c, ref |-> d, call |-> e]
  BY <1>2
<1>5. [NoReturn EXCEPT !.kind = "ok"] = [kind |-> "ok", err |-> b, path |-> c, ref |-> d, call |-> e]
  BY <1>2
<1>6. ASSUME NEW ref
      PROVE  [NoReturn EXCEPT !.kind = "ok", !.ref = ref] = [kind |-> "ok", err |-> b, path |-> c, ref |-> ref, call |-> e]
  <2> DEFINE k == [NoReturn EXCEPT !.kind = "ok"]
  <2>1. k = [kind |-> "ok", err |-> b, path |-> c, ref |-> d, call |-> e]
    BY <1>5
  <2> HIDE DEF k
  <2>2. [k EXCEPT !.ref = ref] = [kind |-> "ok", err |-> b, path |-> c, ref |-> ref, call |-> e]
    BY <2>1
  <2> QED BY <2>2 DEF k
<1>7. ASSUME NEW err, NEW path
      PROVE  [NoReturn EXCEPT !.kind = "err", !.err = err, !.path = path] =
               [kind |-> "err", err |-> err, path |-> path, ref |-> d, call |-> e]
  <2> DEFINE k == [NoReturn EXCEPT !.kind = "err"]
             l == [k EXCEPT !.err = err]
  <2>1. k = [kind |-> "err", err |-> b, path |-> c, ref |-> d, call |-> e]
    BY <1>2
  <2> HIDE DEF k
  <2>2. l = [kind |-> "err", err |-> err, path |-> c, ref |-> d, call |-> e]
    BY <2>1
  <2> HIDE DEF l
  <2>3. [l EXCEPT !.path = path] = [kind |-> "err", err |-> err, path |-> path, ref |-> d, call |-> e]
    BY <2>2
  <2> QED BY <2>3 DEF k, l
<1> QED BY <1>3, <1>4, <1>5, <1>6, <1>7, ZenonT(30)

Result(g, kind, err, path, ref) ==
  [kind |-> kind, err |-> err, path |-> path, ref |-> ref, call |-> at[g].call]

LEMMA Finished ==
  ASSUME IInv, Sound, NEW g \in Goroutines, NEW k, NEW e, NEW p, NEW f, NEW c,
         Finish(g, [kind |-> k, err |-> e, path |-> p, ref |-> f, call |-> c])
  PROVE  /\ ret'[g] = Result(g, k, e, p, f) /\ DOMAIN ret' = Goroutines
         /\ \A h \in Goroutines : h # g => ret'[h] = ret[h]
         /\ at'[g] = Idle /\ calls' = calls
<1> DEFINE r == [kind |-> k, err |-> e, path |-> p, ref |-> f, call |-> c]
           q == [r EXCEPT !.call = at[g].call]
<1>1. ret' = [ret EXCEPT ![g] = q] /\ at' = [at EXCEPT ![g] = Idle] /\ calls' = calls
  BY DEF Finish
<1>2. q = Result(g, k, e, p, f)
  BY DEF Result
<1> HIDE DEF q
<1>3. DOMAIN ret = Goroutines
  BY DEF Sound
<1>4. ret'[g] = q /\ DOMAIN ret' = Goroutines /\ \A h \in Goroutines : h # g => ret'[h] = ret[h]
  BY <1>1, <1>3
<1>5. at'[g] = Idle
  BY <1>1 DEF IInv, Ownership
<1> QED BY <1>1, <1>2, <1>4, <1>5

LEMMA IdleSound == ASSUME NEW g, at'[g] = Idle PROVE FrameSound(at[g])'
<1>1. Idle.pc = "idle" /\ Idle.arr = 0 /\ Idle.columns = 0 /\ Idle.call.enc = 0
  BY DEF Idle, NoCall
<1>2. at'[g].pc = "idle" /\ at'[g].arr = 0 /\ at'[g].columns = 0 /\ at'[g].call.enc = 0
  BY <1>1
<1> QED BY <1>2 DEF FrameSound

\* A call that returns r, and hands on what is sound.
LEMMA FinishKeeps ==
  ASSUME IInv, Sound, NEW g \in Goroutines, Touches(g), held \subseteq held',
         NEW k, NEW e, NEW p, NEW f, NEW c,
         Finish(g, [kind |-> k, err |-> e, path |-> p, ref |-> f, call |-> c]),
         Settled(Result(g, k, e, p, 0)), k = "ok" => f \in held' \cup {0},
         \A o \in held' \ held : HeldSound(heap[o])',
         \A n \in 1..Len(encoders') : n \notin 1..Len(encoders) => EncoderSound(encoders[n])'
  PROVE  Sound'
<1>1. /\ ret'[g] = Result(g, k, e, p, f) /\ DOMAIN ret' = Goroutines
      /\ \A h \in Goroutines : h # g => ret'[h] = ret[h]
      /\ at'[g] = Idle /\ calls' = calls
  BY Finished
<1>2. calls' \in 0..MaxCalls
  BY <1>1 DEF Sound
<1>3. FrameSound(at[g])'
  BY <1>1, IdleSound
<1>4. Grows
  BY TouchesGrow
<1>5. Settled(ret[g])'
  <2>1. PICK q : q = Result(g, k, e, p, 0)
    OBVIOUS
  <2>2. Settled(q)'
    BY <1>4, <2>1, SettledStays
  <2>3. /\ q.kind = k /\ q.err = e /\ q.path = p /\ q.call = at[g].call
        /\ ret'[g].kind = k /\ ret'[g].err = e /\ ret'[g].path = p /\ ret'[g].call = at[g].call
        /\ ret'[g].ref = f
    BY <1>1, <2>1 DEF Result
  <2>4. TypeMethodSettled(q)' => TypeMethodSettled(ret[g])'
    BY <2>3 DEF TypeMethodSettled
  <2>5. ValueMethodSettled(q)' => ValueMethodSettled(ret[g])'
    BY <2>3 DEF ValueMethodSettled
  <2> QED BY <2>2, <2>3, <2>4, <2>5 DEF Settled
<1> QED BY <1>1, <1>2, <1>3, <1>5, StepKeeps

LEMMA FailKeeps ==
  ASSUME IInv, Sound, NEW g \in Goroutines, NEW err, NEW path, Fail(g, err, path),
         at[g].call.op \in Must => Settled(Result(g, "panic", "", <<>>, 0)),
         at[g].call.op \notin Must => Settled(Result(g, "err", err, path, 0))
  PROVE  Sound'
<1>1. Touches(g) /\ UNCHANGED <<heap, encoders, held>>
  BY FailTouches DEF Fail
<1>2. held \subseteq held' /\ held' \ held = {} /\ \A n \in 1..Len(encoders') : n \in 1..Len(encoders)
  BY <1>1
<1>3. CASE at[g].call.op \in Must
  <2>1. Finish(g, [NoReturn EXCEPT !.kind = "panic"])
    BY <1>3 DEF Fail
  <2>2. Finish(g, [kind |-> "panic", err |-> "", path |-> <<>>, ref |-> 0, call |-> NoCall])
    BY <2>1, NoReturnAs
  <2> QED BY <1>1, <1>2, <1>3, <2>2, FinishKeeps
<1>4. CASE at[g].call.op \notin Must
  <2> DEFINE r == [NoReturn EXCEPT !.kind = "err", !.err = err, !.path = path]
  <2>1. Finish(g, r)
    BY <1>4 DEF Fail
  <2>3. r = [kind |-> "err", err |-> err, path |-> path, ref |-> 0, call |-> NoCall]
    BY NoReturnAs
  <2> HIDE DEF r
  <2>2. Finish(g, [kind |-> "err", err |-> err, path |-> path, ref |-> 0, call |-> NoCall])
    BY <2>1, <2>3
  <2> QED BY <1>1, <1>2, <1>4, <2>2, FinishKeeps
<1> QED BY <1>3, <1>4

LEMMA PanicsKeeps ==
  ASSUME IInv, Sound, NEW g \in Goroutines, Panics(g), Settled(Result(g, "panic", "", <<>>, 0))
  PROVE  Sound'
<1>1. Touches(g) /\ UNCHANGED <<heap, encoders, held>>
  BY PanicsTouches DEF Panics
<1>2. held \subseteq held' /\ held' \ held = {} /\ \A n \in 1..Len(encoders') : n \in 1..Len(encoders)
  BY <1>1
<1>3. Finish(g, [NoReturn EXCEPT !.kind = "panic"])
  BY DEF Panics
<1>4. Finish(g, [kind |-> "panic", err |-> "", path |-> <<>>, ref |-> 0, call |-> NoCall])
  BY <1>3, NoReturnAs
<1> QED BY <1>1, <1>2, <1>4, FinishKeeps

----------------------------------------------------------------------------
(* Calls begin.                                                            *)

LEMMA EnterKeeps ==
  ASSUME IInv, Sound, NEW g \in Goroutines, NEW pc \in {"list", "method", "item"}, NEW call,
         Enter(g, pc, call), UNCHANGED <<heap, encoders, held>>, Touches(g),
         pc = "list" => call.op \in Constructors /\ call.enc = 0,
         pc = "method" => call.op \in TypeMethods \cup {"Columns"},
         pc = "item" => call.op \in ValueMethods
  PROVE  Sound'
<1> DEFINE f == [Idle EXCEPT !.pc = pc, !.call = call]
<1>1. /\ at[g] = Idle /\ calls < MaxCalls /\ calls' = calls + 1
      /\ at' = [at EXCEPT ![g] = f] /\ ret' = [ret EXCEPT ![g] = NoReturn]
  BY DEF Enter
<1>2. f.pc = pc /\ f.call = call /\ f.pos = 1 /\ f.n = 0 /\ f.arr = 0 /\ f.columns = 0
  BY DEF Idle
<1> HIDE DEF f
<1>3. DOMAIN ret = Goroutines /\ calls \in 0..MaxCalls /\ MaxCalls \in Nat
  BY RowEncoderAssumption DEF Sound
<1>4. /\ DOMAIN ret' = Goroutines /\ \A h \in Goroutines : h # g => ret'[h] = ret[h]
      /\ ret'[g] = NoReturn /\ calls' \in 0..MaxCalls
  BY <1>1, <1>3
<1>5. at'[g] = f
  BY <1>1 DEF IInv, Ownership
<1>6. FrameSound(at[g])'
  BY <1>2, <1>5 DEF FrameSound
<1>7. Settled(ret[g])'
  <2>1. NoReturn.kind = "none" /\ NoReturn.call.op = ""
    BY DEF NoReturn, NoCall
  <2>2. "" \notin TypeMethods \cup ValueMethods
    BY DEF TypeMethods, ValueMethods
  <2> QED BY <1>4, <2>1, <2>2 DEF Settled
<1>8. /\ held \subseteq held' /\ held' \ held = {}
      /\ \A e \in 1..Len(encoders') : e \in 1..Len(encoders)
  OBVIOUS
<1> QED BY <1>4, <1>6, <1>7, <1>8, StepKeeps

LEMMA CallNewKeeps ==
  ASSUME IInv, Sound, NEW g \in Goroutines, CallNew(g) PROVE Sound'
<1>1. UNCHANGED <<heap, encoders, held>>
  BY ZenonT(30) DEF CallNew
<1>2. PICK op \in Constructors, m \in Masks, shape \in {"struct", "other"} :
        Enter(g, "list", [NoCall EXCEPT !.op = op, !.mask = m, !.shape = shape])
  BY DEF CallNew
<1> DEFINE c1 == [NoCall EXCEPT !.op = op]
           c2 == [c1 EXCEPT !.mask = m]
           c3 == [c2 EXCEPT !.shape = shape]
<1>3. c1 \in CallSet /\ c1.op = op /\ c1.enc = 0
  BY IdleTyped DEF CallSet, Ops
<1>4. c2 \in CallSet /\ c2.op = op /\ c2.enc = 0
  <2> HIDE DEF c1
  <2> QED BY <1>3 DEF CallSet
<1>5. c3.op = op /\ c3.enc = 0
  <2> HIDE DEF c2
  <2> QED BY <1>4 DEF CallSet
<1>6. Enter(g, "list", c3)
  BY <1>2
<1> HIDE DEF c3
<1>7. Touches(g)
  BY CallNewTouches
<1> QED BY <1>1, <1>5, <1>6, <1>7, EnterKeeps

LEMMA CallMethodKeeps ==
  ASSUME IInv, Sound, NEW g \in Goroutines, CallMethod(g) PROVE Sound'
<1>1. UNCHANGED <<heap, encoders, held>>
  BY ZenonT(30) DEF CallMethod
<1>2. Touches(g)
  BY CallMethodTouches
<1>3. PICK e \in 1..Len(encoders) :
        \/ \E op \in TypeMethods \cup {"Columns"} :
             Enter(g, "method", [NoCall EXCEPT !.op = op, !.enc = e])
        \/ \E op \in ValueMethods, i \in DOMAIN Items, o \in Options :
             Enter(g, "item", [NoCall EXCEPT !.op = op, !.enc = e, !.item = i, !.opts = o])
  BY DEF CallMethod
<1>4. e \in Nat
  BY DEF IInv, Ownership, IsSeq
<1>5. ASSUME NEW op \in TypeMethods \cup {"Columns"},
             Enter(g, "method", [NoCall EXCEPT !.op = op, !.enc = e])
      PROVE  Sound'
  <2> DEFINE c1 == [NoCall EXCEPT !.op = op]
             c2 == [c1 EXCEPT !.enc = e]
  <2>1. c1 \in CallSet /\ c1.op = op
    BY IdleTyped DEF CallSet, Ops
  <2>2. c2.op = op
    <3> HIDE DEF c1
    <3> QED BY <1>4, <2>1 DEF CallSet
  <2>3. Enter(g, "method", c2)
    BY <1>5
  <2> HIDE DEF c2
  <2> QED BY <1>1, <1>2, <2>2, <2>3, EnterKeeps
<1>6. ASSUME NEW op \in ValueMethods, NEW i \in DOMAIN Items, NEW o \in Options,
             Enter(g, "item", [NoCall EXCEPT !.op = op, !.enc = e, !.item = i, !.opts = o])
      PROVE  Sound'
  <2> DEFINE c1 == [NoCall EXCEPT !.op = op]
             c2 == [c1 EXCEPT !.enc = e]
             c3 == [c2 EXCEPT !.item = i]
             c4 == [c3 EXCEPT !.opts = o]
  <2>1. c1 \in CallSet /\ c1.op = op
    BY IdleTyped DEF CallSet, Ops
  <2>2. c2 \in CallSet /\ c2.op = op
    <3> HIDE DEF c1
    <3> QED BY <1>4, <2>1 DEF CallSet
  <2>3. c3 \in CallSet /\ c3.op = op
    <3> HIDE DEF c2
    <3> QED BY <2>2 DEF CallSet
  <2>4. c4.op = op
    <3> HIDE DEF c3
    <3> QED BY <2>3 DEF CallSet
  <2>5. Enter(g, "item", c4)
    BY <1>6
  <2> HIDE DEF c4
  <2> QED BY <1>1, <1>2, <2>4, <2>5, EnterKeeps
<1> QED BY <1>3, <1>5, <1>6

----------------------------------------------------------------------------
(* Construction.                                                           *)

\* A goroutine goes on within its call.
LEMMA MoveKeeps ==
  ASSUME IInv, Sound, NEW g \in Goroutines, Touches(g), UNCHANGED <<encoders, ret, held, calls>>,
         FrameSound(at[g])'
  PROVE  Sound'
<1>1. Grows
  BY TouchesGrow
<1>2. PICK r : r = ret[g]
  OBVIOUS
<1>3. Settled(r)'
  BY <1>1, <1>2, SettledStays DEF Sound
<1>4. Settled(ret[g])'
  BY <1>2, <1>3 DEF Settled, TypeMethodSettled, ValueMethodSettled
<1>5. DOMAIN ret' = Goroutines /\ calls' \in 0..MaxCalls /\ \A h \in Goroutines : ret'[h] = ret[h]
  BY DEF Sound
<1>6. /\ held \subseteq held' /\ held' \ held = {}
      /\ \A e \in 1..Len(encoders') : e \in 1..Len(encoders)
  OBVIOUS
<1> QED BY <1>4, <1>5, <1>6, StepKeeps

\* A constructor may return any error of its own, and panic.
LEMMA ConstructorSettles ==
  ASSUME NEW g, at[g].call.op \in Constructors, NEW kind, NEW err, NEW path,
         kind = "err" => err \in {"ErrNotStruct", "ErrInvalidColumnMask"}
  PROVE  Settled(Result(g, kind, err, path, 0))
<1> DEFINE r == Result(g, kind, err, path, 0)
<1>1. r.kind = kind /\ r.err = err /\ r.ref = 0 /\ r.call.op = at[g].call.op
  BY DEF Result
<1> HIDE DEF r
<1>2. r.call.op \notin TypeMethods \cup ValueMethods \cup {"RowType", "ResultSetMetadata"}
  BY <1>1, OpKinds
<1>3. Settled(r)
  BY <1>1, <1>2 DEF Settled
<1> QED BY <1>3 DEF r

LEMMA NothingPlaced ==
  ASSUME NEW xs, Len(xs) = 0 PROVE Places(xs) = [i \in 1..Len(L) |-> Zero]
<1>1. \A i \in 1..Len(L) : ~(i <= Len(xs))
  BY Listing
<1> QED BY <1>1 DEF Places

\* What the two objects made at once are.
LEMMA TwoMadeAre ==
  ASSUME IsSeq(heap), NEW x, NEW y, heap' = heap \o <<x, y>>
  PROVE  heap'[Fresh(1)] = x /\ heap'[Fresh(2)] = y /\ Fresh(1) # Fresh(2)
<1> DEFINE S == Members(heap) \cup {x, y}
<1>1. heap \in Seq(Members(heap)) /\ Len(heap) \in Nat
  BY DEF IsSeq
<1>2. heap \in Seq(S) /\ x \in S /\ y \in S
  <2>1. \A i \in 1..Len(heap) : heap[i] \in S
    BY <1>1
  <2> QED BY <1>1, <2>1
<1> HIDE DEF S
<1>3. <<x, y>> \in Seq(S) /\ Len(<<x, y>>) = 2
  BY <1>2
<1>4. heap'[Len(heap) + 1] = x /\ heap'[Len(heap) + 2] = y
  BY <1>1, <1>2, <1>3
<1> QED BY <1>1, <1>4 DEF Fresh

LEMMA ListFieldsKeeps ==
  ASSUME IInv, Sound, NEW g \in Goroutines, ListFields(g) PROVE Sound'
<1> DEFINE a  == [i \in 1..Len(L) |-> Zero]
           f1 == [at[g] EXCEPT !.pc = "keep"]
           f2 == [f1 EXCEPT !.arr = Fresh(1)]
           f3 == [f2 EXCEPT !.columns = Fresh(2)]
<1>1. heap[Cached].data = L
  BY DEF IInv, CacheIntact, L
<1>2. /\ at[g] \in Frames /\ at[g].pc = "list" /\ at[g].call.op \in Constructors
      /\ at[g].call.enc = 0 /\ at[g].pos = 1 /\ at[g].n = 0
  BY FrameTyped DEF ListFields, Sound, FrameSound
<1>3. Touches(g)
  BY ListFieldsTouches
<1>4. ASSUME NEW err \in {"ErrNotStruct", "ErrInvalidColumnMask"}, Fail(g, err, <<>>) PROVE Sound'
  <2>1. PICK path : path = <<>>
    OBVIOUS
  <2>2. Fail(g, err, path)
    BY <1>4, <2>1
  <2>3. Settled(Result(g, "err", err, path, 0)) /\ Settled(Result(g, "panic", "", <<>>, 0))
    BY <1>2, ConstructorSettles
  <2> QED BY <2>2, <2>3, FailKeeps
<1>5. ASSUME heap' = heap \o EmptyArrays(L), UNCHANGED <<encoders, held>>,
             Continue(g, [at[g] EXCEPT !.pc = "keep", !.arr = KeptArray(g), !.columns = Fresh(2)])
      PROVE  Sound'
  <2>1. heap' = heap \o <<Object(Part("fields"), a), Object(Part("columns"), a)>> /\ IsSeq(heap)
    BY <1>5 DEF EmptyArrays, IInv, Ownership
  <2>2. /\ Fresh(1) \in Nat /\ Fresh(2) \in Nat /\ Fresh(1) # Fresh(2)
        /\ heap'[Fresh(1)] = Object(Part("fields"), a)
        /\ heap'[Fresh(2)] = Object(Part("columns"), a)
    <3> DEFINE x == Object(Part("fields"), a)
               y == Object(Part("columns"), a)
    <3>1. heap' = heap \o <<x, y>>
      BY <2>1
    <3> HIDE DEF x, y
    <3>2. heap'[Fresh(1)] = x /\ heap'[Fresh(2)] = y /\ Fresh(1) # Fresh(2)
      BY <2>1, <3>1, TwoMadeAre
    <3>3. Fresh(1) \in Nat /\ Fresh(2) \in Nat
      BY <3>1, TwoMade
    <3> QED BY <3>2, <3>3 DEF x, y
  <2>3. f1 \in Frames /\ f1.pc = "keep" /\ f1.call = at[g].call /\ f1.pos = 1 /\ f1.n = 0
    BY <1>2 DEF Frames
  <2>4. /\ f2 \in Frames /\ f2.pc = "keep" /\ f2.call = at[g].call /\ f2.pos = 1 /\ f2.n = 0
        /\ f2.arr = Fresh(1)
    <3> HIDE DEF f1
    <3> QED BY <2>2, <2>3 DEF Frames
  <2>5. /\ f3.pc = "keep" /\ f3.call = at[g].call /\ f3.pos = 1 /\ f3.n = 0
        /\ f3.arr = Fresh(1) /\ f3.columns = Fresh(2)
    <3> HIDE DEF f2
    <3> QED BY <2>2, <2>4 DEF Frames
  <2>6. at' = [at EXCEPT ![g] = f3] /\ UNCHANGED <<ret, calls>>
    BY <1>5 DEF Continue, KeptArray
  <2> HIDE DEF f3
  <2>7. PICK f : f = f3
    OBVIOUS
  <2>8. /\ f.pc = "keep" /\ f.call = at[g].call /\ f.pos = 1 /\ f.n = 0
        /\ f.arr # f.columns
        /\ heap'[f.arr] = Object(Part("fields"), a) /\ heap'[f.columns] = Object(Part("columns"), a)
    BY <2>2, <2>5, <2>7
  <2>9. at'[g] = f
    BY <2>6, <2>7 DEF IInv, Ownership
  <2>10. KeepSound(f)'
    <3> DEFINE fs == Subsequence(L, KeptAt(f.call.mask, 0))
    <3>1. KeptAt(f.call.mask, 0) = {}
      BY DEF KeptAt
    <3>2. fs = <<>>
      BY <3>1, SelectNone
    <3>3. Len(fs) = 0
      BY <3>2
    <3>4. Len(Names(fs)) = 0
      BY <3>3, NamesTyped
    <3>5. Places(fs) = a /\ Places(Names(fs)) = a
      BY <3>3, <3>4, NothingPlaced
    <3>6. f.pos - 1 = 0 /\ f.pos \in 1..(Len(L) + 1) /\ f.n = Len(fs) /\ f.n < f.pos
      BY <2>8, <3>3, Listing
    <3>7. /\ heap'[f.arr] = Object(Part("fields"), Places(fs))
          /\ heap'[f.columns] = Object(Part("columns"), Places(Names(fs)))
      BY <2>8, <3>5
    <3>8. \A i \in 1..Len(fs) : FALSE
      BY <3>3
    <3>9. fs = Subsequence(L, KeptAt(f.call.mask, f.pos - 1))
      BY <3>6
    <3> HIDE DEF fs
    <3> QED BY <2>8, <3>6, <3>7, <3>8, <3>9 DEF KeepSound
  <2>11. FrameSound(f)'
    BY <1>2, <2>8, <2>10 DEF FrameSound
  <2>12. FrameSound(at[g])'
    BY <2>9, <2>11 DEF FrameSound, KeepSound, ValuesSound
  <2> QED BY <1>3, <1>5, <2>6, <2>12, MoveKeeps
<1> QED BY <1>1, <1>4, <1>5 DEF ListFields

\* A place of an object is written.
Put(h, o, k, v) == [h EXCEPT ![o].data[k] = v]
PutAt(data, k, v) == [data EXCEPT ![k] = v]

LEMMA Written ==
  ASSUME NEW h, IsSeq(h), NEW o \in 1..Len(h), NEW made, NEW data, h[o] = Object(made, data),
         NEW k, NEW v, NEW h1, h1 = Put(h, o, k, v)
  PROVE  /\ h1[o] = Object(made, PutAt(data, k, v))
         /\ IsSeq(h1) /\ Len(h1) = Len(h) /\ \A i \in 1..Len(h) : i # o => h1[i] = h[i]
<1> DEFINE d == [data EXCEPT ![k] = v]
           x == h[o]
           y == Object(made, d)
<1>1. x = [made |-> made, data |-> data]
  BY DEF Object
<1>2. h1 = [h EXCEPT ![o] = [x EXCEPT !.data = [x.data EXCEPT ![k] = v]]]
  BY DEF Put
<1>3. x.data = data
  BY <1>1
<1>4. h1 = [h EXCEPT ![o] = [x EXCEPT !.data = d]]
  BY <1>2, <1>3
<1>5. [x EXCEPT !.data = d] = y
  <2> HIDE DEF d, x
  <2> QED BY <1>1 DEF Object
<1>6. h1 = [h EXCEPT ![o] = y]
  BY <1>4, <1>5
<1> HIDE DEF d, x, y
<1> DEFINE S == Members(h) \cup {y}
<1>7. h \in Seq(S) /\ y \in S
  BY SeqOfMore
<1> HIDE DEF S
<1>8. h1 \in Seq(S) /\ Len(h1) = Len(h) /\ h1[o] = y /\ \A i \in 1..Len(h) : i # o => h1[i] = h[i]
  BY <1>6, <1>7
<1> QED BY <1>8, SeqOfMembers DEF y, d, PutAt

LEMMA KeepFieldKeeps ==
  ASSUME IInv, Sound, NEW g \in Goroutines, KeepField(g) PROVE Sound'
<1>1. PICK a : a = at[g]
  OBVIOUS
<1> DEFINE k  == a.pos - 1
           fs == Subsequence(L, KeptAt(a.call.mask, k))
           gs == Subsequence(L, KeptAt(a.call.mask, k + 1))
           x  == L[a.pos]
<1>2. /\ a \in Frames /\ a.pc = "keep" /\ a.call.op \in Constructors /\ a.call.enc = 0
      /\ KeepSound(a) /\ heap[Cached].data = L /\ a.pos <= Len(L)
  BY <1>1, FrameTyped DEF KeepField, Sound, FrameSound, IInv, CacheIntact, L
<1>3. Touches(g)
  BY KeepFieldTouches
<1>4. /\ IsSeq(heap) /\ a.arr \in 1..Len(heap) /\ a.columns \in 1..Len(heap) /\ a.arr # a.columns
  <2>1. IsSeq(heap) /\ Len(heap) \in Nat /\ {a.arr, a.columns} \subseteq 2..Len(heap)
    BY <1>1, <1>2 DEF IInv, Ownership, Private, PrivateOf, Upto, IsSeq
  <2>2. a.arr # a.columns
    BY <1>2 DEF KeepSound
  <2> QED BY <2>1, <2>2
<1>5. k \in Nat /\ k + 1 = a.pos /\ a.pos + 1 \in 1..(Len(L) + 1) /\ (a.pos + 1) - 1 = k + 1
      /\ a.pos \in 1..Len(L) /\ a.n = Len(fs) /\ a.n \in Nat /\ a.n < a.pos
  BY <1>2, Listing DEF KeepSound, Frames
<1>6. IsSeq(fs) /\ Len(fs) \in Nat /\ Len(fs) <= k
  BY <1>5, KeptFields
<1>7. gs = IF keep(a.call.mask, x.name) THEN Append(fs, x) ELSE fs
  BY <1>5, KeptNext
<1>8. /\ heap[a.arr] = Object(Part("fields"), Places(fs))
      /\ heap[a.columns] = Object(Part("columns"), Places(Names(fs)))
      /\ \A i \in 1..Len(fs) : \E n \in 1..Len(L) : fs[i] = L[n]
  BY <1>2 DEF KeepSound
<1>9. CASE keep(a.call.mask, x.name)
  <2>0. PICK h1 : h1 = [heap EXCEPT ![a.arr].data[a.n + 1] = x]
    OBVIOUS
  <2> DEFINE f1 == [a EXCEPT !.pos = a.pos + 1]
             f2 == [f1 EXCEPT !.n = a.n + 1]
  <2>1. heap' = [h1 EXCEPT ![a.columns].data[a.n + 1] = x.name] /\ Continue(g, f2)
        /\ UNCHANGED <<encoders, held>>
    BY <1>1, <1>2, <1>9, <2>0 DEF KeepField
  <2>2. /\ h1[a.arr] = Object(Part("fields"), PutAt(Places(fs), a.n + 1, x))
        /\ IsSeq(h1) /\ Len(h1) = Len(heap) /\ \A i \in 1..Len(heap) : i # a.arr => h1[i] = heap[i]
    <3> DEFINE made == Part("fields")
               data == Places(fs)
    <3>1. heap[a.arr] = Object(made, data)
      BY <1>8
    <3>p. PICK o, n : o = a.arr /\ n = a.n + 1
      OBVIOUS
    <3> HIDE DEF made, data, fs, k, x
    <3>q. h1 = Put(heap, o, n, x) /\ heap[o] = Object(made, data) /\ o \in 1..Len(heap)
      BY <1>4, <2>0, <3>p, <3>1 DEF Put
    <3>r. /\ h1[o] = Object(made, PutAt(data, n, x))
          /\ IsSeq(h1) /\ Len(h1) = Len(heap) /\ \A i \in 1..Len(heap) : i # o => h1[i] = heap[i]
      BY <1>4, <3>q, Written
    <3> QED BY <3>p, <3>r DEF made, data
  <2>3. /\ heap'[a.columns] = Object(Part("columns"), PutAt(Places(Names(fs)), a.n + 1, x.name))
        /\ \A i \in 1..Len(h1) : i # a.columns => heap'[i] = h1[i]
    <3> DEFINE made == Part("columns")
               data == Places(Names(fs))
               v == x.name
    <3>1. h1[a.columns] = Object(made, data) /\ a.columns \in 1..Len(h1)
      BY <1>4, <1>8, <2>2
    <3>2. heap' = [h1 EXCEPT ![a.columns].data[a.n + 1] = v]
      BY <2>1
    <3>p. PICK o, n, h2 : o = a.columns /\ n = a.n + 1 /\ h2 = heap'
      OBVIOUS
    <3> HIDE DEF made, data, fs, k, v
    <3>q. h2 = Put(h1, o, n, v) /\ h1[o] = Object(made, data) /\ o \in 1..Len(h1)
      BY <3>p, <3>1, <3>2 DEF Put
    <3>3. /\ heap'[a.columns] = Object(made, PutAt(data, a.n + 1, v))
          /\ \A i \in 1..Len(h1) : i # a.columns => heap'[i] = h1[i]
      <4>1. /\ h2[o] = Object(made, PutAt(data, n, v))
            /\ \A i \in 1..Len(h1) : i # o => h2[i] = h1[i]
        BY <2>2, <3>q, Written
      <4> QED BY <4>1, <3>p
    <3> QED BY <3>3 DEF made, data, v
  <2>4. f1 \in Frames /\ f1.pos = a.pos + 1 /\ f1.pc = "keep" /\ f1.call = a.call
        /\ f1.arr = a.arr /\ f1.columns = a.columns
    BY <1>2 DEF Frames
  <2>5. f2.pos = a.pos + 1 /\ f2.n = a.n + 1 /\ f2.pc = "keep" /\ f2.call = a.call
        /\ f2.arr = a.arr /\ f2.columns = a.columns
    <3> HIDE DEF f1
    <3> QED BY <2>4 DEF Frames
  <2> HIDE DEF f2, k, fs, gs, x
  <2>6. PICK f : f = f2
    OBVIOUS
  <2>7. gs = Append(fs, x) /\ Names(gs) = Append(Names(fs), x.name)
    <3>1. gs = Append(fs, x)
      BY <1>7, <1>9
    <3> QED BY <1>6, <3>1, NamesNext
  <2>8. /\ Len(gs) = Len(fs) + 1 /\ \A i \in 1..Len(fs) : gs[i] = fs[i]
        /\ gs[Len(fs) + 1] = x
    BY <1>6, <2>7, Appended
  <2>9. IsSeq(Names(fs)) /\ Len(Names(fs)) = Len(fs)
    BY <1>6, NamesTyped
  <2>10. Len(fs) < Len(L)
    BY <1>5, <1>6, Listing
  <2>11. heap'[a.arr] = Object(Part("fields"), Places(gs))
    <3>1. heap'[a.arr] = h1[a.arr]
      BY <1>4, <2>2, <2>3
    <3>2. PutAt(Places(fs), Len(fs) + 1, x) = Places(gs)
      BY <1>6, <2>7, <2>10, AppendPlace DEF PutAt
    <3> QED BY <1>5, <2>2, <3>1, <3>2
  <2>12. heap'[a.columns] = Object(Part("columns"), Places(Names(gs)))
    <3> DEFINE ns == Names(fs)
               c  == x.name
    <3>1. IsSeq(ns) /\ Len(ns) < Len(L)
      BY <2>9, <2>10
    <3>2. Names(gs) = Append(ns, c)
      BY <2>7
    <3>3. heap'[a.columns] = Object(Part("columns"), PutAt(Places(ns), Len(ns) + 1, c))
      BY <1>5, <2>3, <2>9
    <3> HIDE DEF ns, c
    <3>4. PutAt(Places(ns), Len(ns) + 1, c) = Places(Append(ns, c))
      BY <3>1, AppendPlace DEF PutAt
    <3> QED BY <3>2, <3>3, <3>4
  <2>13. \A i \in 1..Len(gs) : \E n \in 1..Len(L) : gs[i] = L[n]
    <3>1. x = L[a.pos]
      BY DEF x
    <3>2. \A i \in 1..Len(gs) : i \in 1..Len(fs) \/ i = Len(fs) + 1
      BY <1>6, <2>8
    <3> QED BY <1>5, <1>8, <2>8, <3>1, <3>2
  <2>14. gs = Subsequence(L, KeptAt(f.call.mask, f.pos - 1))
    BY <1>5, <2>5, <2>6 DEF gs
  <2>15. /\ f.pos \in 1..(Len(L) + 1) /\ f.n = Len(gs) /\ f.n < f.pos /\ f.arr # f.columns
         /\ f.arr = a.arr /\ f.columns = a.columns
    BY <1>4, <1>5, <2>5, <2>6, <2>8
  <2>16. KeepSound(f)'
    BY <2>11, <2>12, <2>13, <2>14, <2>15 DEF KeepSound
  <2>17. FrameSound(f)'
    BY <1>2, <2>5, <2>6, <2>16 DEF FrameSound
  <2>18. at'[g] = f /\ UNCHANGED <<ret, calls>>
    BY <2>1, <2>6 DEF Continue, IInv, Ownership
  <2>19. FrameSound(at[g])'
    BY <2>17, <2>18 DEF FrameSound, KeepSound, ValuesSound
  <2> QED BY <1>3, <2>1, <2>18, <2>19, MoveKeeps
<1>10. CASE ~keep(a.call.mask, x.name)
  <2> DEFINE f1 == [a EXCEPT !.pos = a.pos + 1]
  <2>1. heap' = heap /\ Continue(g, f1) /\ UNCHANGED <<encoders, held>>
    BY <1>1, <1>2, <1>10 DEF KeepField
  <2>2. f1.pos = a.pos + 1 /\ f1.n = a.n /\ f1.pc = "keep" /\ f1.call = a.call
        /\ f1.arr = a.arr /\ f1.columns = a.columns
    BY <1>2 DEF Frames
  <2> HIDE DEF f1, k, fs, gs, x
  <2>3. PICK f : f = f1
    OBVIOUS
  <2>4. gs = fs
    BY <1>7, <1>10
  <2>5. fs = Subsequence(L, KeptAt(f.call.mask, f.pos - 1))
    BY <1>5, <2>2, <2>3, <2>4 DEF gs
  <2>6. /\ f.pos \in 1..(Len(L) + 1) /\ f.n = Len(fs) /\ f.n < f.pos /\ f.arr # f.columns
        /\ heap'[f.arr] = heap[a.arr] /\ heap'[f.columns] = heap[a.columns]
    <3>1. f.pos = a.pos + 1 /\ f.n = a.n /\ f.arr = a.arr /\ f.columns = a.columns
      BY <2>2, <2>3
    <3>2. f.n = Len(fs) /\ f.arr # f.columns /\ heap'[f.arr] = heap[a.arr] /\ heap'[f.columns] = heap[a.columns]
      BY <1>4, <1>5, <2>1, <3>1
    <3>3. f.n < f.pos /\ f.pos \in 1..(Len(L) + 1)
      BY <1>5, <3>1, Listing
    <3> QED BY <3>2, <3>3
  <2>7. KeepSound(f)'
    BY <1>8, <2>5, <2>6 DEF KeepSound
  <2>8. FrameSound(f)'
    BY <1>2, <2>2, <2>3, <2>7 DEF FrameSound
  <2>9. at'[g] = f /\ UNCHANGED <<ret, calls>>
    BY <2>1, <2>3 DEF Continue, IInv, Ownership
  <2>10. FrameSound(at[g])'
    BY <2>8, <2>9 DEF FrameSound, KeepSound, ValuesSound
  <2> QED BY <1>3, <2>1, <2>9, <2>10, MoveKeeps
<1> QED BY <1>9, <1>10

\* A row type, or the error or panic of a column.
LEMMA OkTypeIs ==
  ASSUME NEW t
  PROVE  OkType(t).kind = "ok" /\ OkType(t).err = "" /\ OkType(t).path = <<>> /\ OkType(t).type = t
<1>1. PICK a, b, c, d, e : /\ NoResult = [kind |-> a, type |-> b, wire |-> c, err |-> d, path |-> e]
                           /\ d = "" /\ e = <<>>
  BY ZenonT(30) DEF NoResult
<1>2. NoResult = [kind |-> a, type |-> b, wire |-> c, err |-> d, path |-> e]
  BY <1>1
<1>3. d = "" /\ e = <<>>
  BY <1>1
<1> DEFINE k1 == [NoResult EXCEPT !.kind = "ok"]
           k2 == [k1 EXCEPT !.type = t]
           k3 == [k2 EXCEPT !.wire = NullWire]
<1>4. k1 = [kind |-> "ok", type |-> b, wire |-> c, err |-> d, path |-> e]
  BY <1>2
<1>5. k2 = [kind |-> "ok", type |-> t, wire |-> c, err |-> d, path |-> e]
  <2> HIDE DEF k1
  <2> QED BY <1>4
<1>6. k3 = [kind |-> "ok", type |-> t, wire |-> NullWire, err |-> d, path |-> e]
  <2> HIDE DEF k2
  <2> QED BY <1>5
<1>7. OkType(t) = k3
  BY DEF OkType, Ok
<1> HIDE DEF k3
<1>8. OkType(t).kind = "ok" /\ OkType(t).err = d /\ OkType(t).path = e /\ OkType(t).type = t
  BY <1>6, <1>7
<1> QED BY <1>3, <1>8, ZenonT(30)

LEMMA WrapKeeps == ASSUME NEW r, IsResult(r), NEW step PROVE Wrap(r, step).kind = r.kind
<1>1. DOMAIN NoResult = {"kind", "type", "wire", "err", "path"}
  BY DEF NoResult
<1>2. "kind" \in DOMAIN r
  BY <1>1 DEF IsResult
<1> QED BY <1>2 DEF Wrap

LEMMA RowTypeKinds ==
  ASSUME NEW fs, Len(fs) \in Nat, \A i \in 1..Len(fs) : \E n \in 1..Len(L) : fs[i] = L[n]
  PROVE  LET r == rowTypeOfFields(fs) IN
         /\ r.kind \in {"ok", "err", "panic"}
         /\ r.kind = "ok" => r.err = "" /\ r.path = <<>>
<1> DEFINE bad == {i \in 1..Len(fs) : Inference[fs[i].type].kind # "ok"}
           r   == rowTypeOfFields(fs)
<1>1. CASE bad = {}
  <2> DEFINE t == StructOf([i \in 1..Len(fs) |->
                     [name |-> fs[i].name, type |-> Inference[fs[i].type].type]])
  <2>1. r = OkType(t)
    BY <1>1 DEF rowTypeOfFields
  <2> HIDE DEF t, r
  <2>2. r.kind = "ok" /\ r.err = "" /\ r.path = <<>>
    BY <2>1, OkTypeIs
  <2> QED BY <2>2 DEF r
<1>2. CASE bad # {}
  <2> DEFINE m == Min(bad)
             q == Inference[fs[m].type]
  <2>1. m \in bad
    <3>1. bad \subseteq Nat
      OBVIOUS
    <3> HIDE DEF bad
    <3> QED BY <1>2, <3>1, FirstOf
  <2>2. m \in 1..Len(fs) /\ q.kind # "ok"
    <3> HIDE DEF m
    <3> QED BY <2>1
  <2>3. IsResult(q) /\ q.kind \in {"ok", "err", "panic"}
    <3> HIDE DEF m, bad
    <3>1. PICK n \in 1..Len(L) : fs[m] = L[n]
      BY <2>2
    <3> QED BY <3>1, RowEncoderAssumption DEF L
  <2>4. r = Wrap(q, AtField(m - 1))
    BY <1>2 DEF rowTypeOfFields
  <2> HIDE DEF m, q, bad, r
  <2>5. r.kind = q.kind
    BY <2>3, <2>4, WrapKeeps
  <2> QED BY <2>2, <2>3, <2>5 DEF r
<1> QED BY <1>1, <1>2

LEMMA FieldsKeptKeeps ==
  ASSUME IInv, Sound, NEW g \in Goroutines, FieldsKept(g) PROVE Sound'
<1>1. PICK a : a = at[g]
  OBVIOUS
<1> DEFINE fs == Kept(a.call.mask)
           r  == rowTypeOfFields(Contents(a.arr, a.n))
           c  == [mask |-> a.call.mask, fields |-> a.arr, columns |-> a.columns, n |-> a.n,
                  rowType |-> Fresh(1), rowTypeErr |-> r]
           x  == Object(Part("rowType"), r.type.fields)
<1>2. /\ a \in Frames /\ a.pc = "keep" /\ a.call.op \in Constructors /\ a.call.enc = 0
      /\ KeepSound(a) /\ heap[Cached].data = L /\ a.pos > Len(L)
  BY <1>1, FrameTyped DEF FieldsKept, Sound, FrameSound, IInv, CacheIntact, L
<1>3. Touches(g)
  BY FieldsKeptTouches
<1>4. /\ fs = Subsequence(L, KeptAt(a.call.mask, a.pos - 1)) /\ a.n = Len(fs)
      /\ IsSeq(fs) /\ Len(fs) \in Nat /\ Len(fs) <= Len(L)
  <2>1. a.pos \in 1..(Len(L) + 1) /\ Len(L) \in Nat
    BY <1>2, Listing DEF KeepSound
  <2>2. a.pos - 1 = Len(L)
    BY <1>2, <2>1
  <2>3. fs = Subsequence(L, KeptAt(a.call.mask, a.pos - 1))
    BY <2>2, AllKept
  <2> HIDE DEF fs
  <2>4. a.n = Len(fs)
    BY <1>2, <2>3 DEF KeepSound
  <2> QED BY <2>3, <2>4, AllKept DEF fs
<1> HIDE DEF fs
<1>5. /\ heap[a.arr] = Object(Part("fields"), Places(fs))
      /\ heap[a.columns] = Object(Part("columns"), Places(Names(fs)))
      /\ \A i \in 1..Len(fs) : \E n \in 1..Len(L) : fs[i] = L[n]
  BY <1>2, <1>4 DEF KeepSound
<1>6. r = rowTypeOfFields(fs)
  <2>1. heap[a.arr].data = Places(fs)
    BY <1>5 DEF Object
  <2>2. Contents(a.arr, a.n) = fs
    BY <1>4, <2>1, ReadBack DEF Contents
  <2> QED BY <2>2
<1>7. r.kind \in {"ok", "err", "panic"} /\ (r.kind = "ok" => r.err = "" /\ r.path = <<>>)
  <2> HIDE DEF r
  <2> QED BY <1>4, <1>5, <1>6, RowTypeKinds
<1>8. CASE r.kind = "panic"
  <2>1. Panics(g)
    BY <1>1, <1>8 DEF FieldsKept
  <2>2. Settled(Result(g, "panic", "", <<>>, 0))
    BY <1>1, <1>2, ConstructorSettles
  <2> QED BY <2>1, <2>2, PanicsKeeps
<1>9. CASE r.kind # "panic"
  <2>1. /\ heap' = Append(heap, x) /\ encoders' = Append(encoders, c)
        /\ Finish(g, [NoReturn EXCEPT !.kind = "ok"]) /\ UNCHANGED held
    BY <1>1, <1>9 DEF FieldsKept, NewFailsOn
  <2>2. Finish(g, [kind |-> "ok", err |-> "", path |-> <<>>, ref |-> 0, call |-> NoCall])
    BY <2>1, NoReturnAs
  <2>3. Settled(Result(g, "ok", "", <<>>, 0))
    BY <1>1, <1>2, ConstructorSettles
  <2>4. PICK d : d = c
    OBVIOUS
  <2>5. /\ d.mask = a.call.mask /\ d.fields = a.arr /\ d.columns = a.columns /\ d.n = a.n
        /\ d.rowType = Fresh(1) /\ d.rowTypeErr = r
    BY <2>4
  <2> HIDE DEF c, r
  <2>6. /\ a.arr \in 1..Len(heap) /\ a.columns \in 1..Len(heap)
        /\ heap'[a.arr] = heap[a.arr] /\ heap'[a.columns] = heap[a.columns]
        /\ heap'[d.rowType] = x
    <3>1. IsSeq(heap) /\ {a.arr, a.columns} \subseteq 2..Len(heap)
      BY <1>1, <1>2 DEF IInv, Ownership, Private, PrivateOf, Upto
    <3> HIDE DEF x
    <3>2. /\ Len(heap) \in Nat /\ \A i \in 1..Len(heap) : heap'[i] = heap[i]
          /\ heap'[Len(heap) + 1] = x
      BY <2>1, <3>1, Appended
    <3> QED BY <2>5, <3>1, <3>2 DEF Fresh
  <2>7. EncoderSound(d)'
    <3>1. /\ heap'[d.fields].data = Places(fs) /\ heap'[d.columns].data = Places(Names(fs))
          /\ heap'[d.rowType].data = r.type.fields
      BY <1>5, <2>5, <2>6 DEF Object
    <3>2. d.n = Len(fs) /\ fs = Kept(d.mask) /\ d.rowTypeErr = rowTypeOfFields(fs)
      BY <1>4, <1>6, <2>5 DEF fs
    <3> QED BY <1>7, <1>9, <2>5, <3>1, <3>2 DEF EncoderSound
  <2>8. ASSUME NEW e \in 1..Len(encoders'), e \notin 1..Len(encoders) PROVE EncoderSound(encoders[e])'
    <3>1. IsSeq(encoders)
      BY DEF IInv, Ownership
    <3>2. /\ Len(encoders) \in Nat /\ Len(encoders') = Len(encoders) + 1
          /\ encoders'[Len(encoders) + 1] = d
      BY <2>1, <2>4, <3>1, Appended
    <3>3. encoders'[e] = d
      BY <2>8, <3>2
    <3> QED BY <2>7, <3>3 DEF EncoderSound
  <2>9. held \subseteq held' /\ held' \ held = {} /\ 0 \in held' \cup {0}
    BY <2>1
  <2>10. PICK p : p = <<>>
    OBVIOUS
  <2>11. /\ Finish(g, [kind |-> "ok", err |-> "", path |-> p, ref |-> 0, call |-> NoCall])
         /\ Settled(Result(g, "ok", "", p, 0))
    BY <2>2, <2>3, <2>10
  <2> QED BY <1>3, <2>8, <2>9, <2>11, FinishKeeps
<1> QED BY <1>8, <1>9

----------------------------------------------------------------------------
(* Methods.                                                                *)

\* A published encoder has the columns its mask asks for.
LEMMA EncoderReads ==
  ASSUME NEW c, EncoderSound(c)
  PROVE  LET fs == Kept(c.mask) IN
         /\ IsSeq(fs) /\ Len(fs) \in Nat /\ Len(fs) <= Len(L) /\ c.n = Len(fs)
         /\ Contents(c.fields, c.n) = fs /\ Contents(c.columns, c.n) = Names(fs)
         /\ \A i \in 1..Len(fs) : heap[c.fields].data[i] = fs[i]
<1> DEFINE fs == Kept(c.mask)
<1>1. IsSeq(fs) /\ Len(fs) \in Nat /\ Len(fs) <= Len(L)
  BY AllKept
<1>2. c.n = Len(fs) /\ heap[c.fields].data = Places(fs) /\ heap[c.columns].data = Places(Names(fs))
  BY DEF EncoderSound
<1> HIDE DEF fs
<1>3. IsSeq(Names(fs)) /\ Len(Names(fs)) = Len(fs)
  BY <1>1, NamesTyped
<1>4. Contents(c.fields, c.n) = fs
  BY <1>1, <1>2, ReadBack DEF Contents
<1>5. Contents(c.columns, c.n) = Names(fs)
  <2> DEFINE ns == Names(fs)
  <2>1. IsSeq(ns) /\ Len(ns) <= Len(L) /\ c.n = Len(ns) /\ heap[c.columns].data = Places(ns)
    BY <1>1, <1>2, <1>3
  <2> HIDE DEF ns
  <2>2. SubSeq(Places(ns), 1, Len(ns)) = ns
    BY <2>1, ReadBack
  <2> QED BY <2>1, <2>2 DEF Contents, ns
<1>6. \A i \in 1..Len(fs) : heap[c.fields].data[i] = fs[i]
  <2>1. \A i \in 1..Len(fs) : i \in 1..Len(L) /\ i <= Len(fs)
    BY <1>1, Listing
  <2> QED BY <1>2, <2>1 DEF Places
<1> QED BY <1>1, <1>2, <1>4, <1>5, <1>6 DEF fs

\* The encoder a method is called on.
LEMMA InMethod ==
  ASSUME IInv, Sound, NEW g \in Goroutines, at[g].pc \in {"method", "item", "values"}
  PROVE  /\ at[g] \in Frames /\ at[g].call.enc \in 1..Len(encoders)
         /\ enc(g) = encoders[at[g].call.enc] /\ EncoderSound(enc(g))
BY FrameTyped DEF UsesEncoder, enc, Sound

\* A method that succeeds, with ref, which is what the call promised.
LEMMA HandOutKeeps ==
  ASSUME IInv, Sound, NEW g \in Goroutines, Touches(g), NEW ref, HandOut(g, ref),
         Settled(Result(g, "ok", "", <<>>, 0)), NEW x, heap'[ref] = x, HeldSound(x)
  PROVE  Sound'
<1>1. Finish(g, [NoReturn EXCEPT !.kind = "ok", !.ref = ref]) /\ held' = held \cup {ref}
      /\ encoders' = encoders
  BY DEF HandOut
<1>2. PICK p : p = <<>>
  OBVIOUS
<1>3. Finish(g, [kind |-> "ok", err |-> "", path |-> p, ref |-> ref, call |-> NoCall])
  <2> DEFINE r == [NoReturn EXCEPT !.kind = "ok", !.ref = ref]
  <2>1. Finish(g, r)
    BY <1>1
  <2>2. r = [kind |-> "ok", err |-> "", path |-> p, ref |-> ref, call |-> NoCall]
    BY <1>2, NoReturnAs
  <2> HIDE DEF r
  <2> QED BY <2>1, <2>2
<1>4. Settled(Result(g, "ok", "", p, 0)) /\ ref \in held' \cup {0}
  BY <1>1, <1>2
<1>5. held \subseteq held' /\ \A n \in 1..Len(encoders') : n \in 1..Len(encoders)
  BY <1>1
<1>6. Grows
  BY <1>5, TouchesGrow
<1>7. HeldSound(x)'
  BY <1>6, HeldStays
<1>8. ASSUME NEW o \in held' \ held PROVE HeldSound(heap[o])'
  <2>1. heap'[o] = x
    BY <1>1
  <2> QED BY <1>7, <2>1 DEF HeldSound
<1> QED BY <1>3, <1>4, <1>5, <1>8, FinishKeeps

LEMMA CopyKeeps ==
  ASSUME IInv, Sound, NEW g \in Goroutines, NEW data, HandOutCopy(g, data),
         at[g].call.enc \in 1..Len(encoders), data = Promised(at[g].call),
         Settled(Result(g, "ok", "", <<>>, 0))
  PROVE  Sound'
<1>1. PICK x : x = Object(at[g].call, data)
  OBVIOUS
<1>2. heap' = Append(heap, x) /\ HandOut(g, Fresh(1))
  BY <1>1 DEF HandOutCopy
<1>3. heap'[Fresh(1)] = x
  BY <1>2, Appended DEF Fresh, IInv, Ownership
<1>4. x.made = at[g].call /\ x.data = data
  BY <1>1 DEF Object
<1>5. HeldSound(x)
  BY <1>1, <1>4 DEF HeldSound
<1>6. Touches(g)
  BY CopyTouches
<1> QED BY <1>2, <1>3, <1>5, <1>6, HandOutKeeps

LEMMA ColumnsKeeps == ASSUME IInv, Sound, NEW g \in Goroutines, Columns(g) PROVE Sound'
<1> DEFINE call == at[g].call
           data == Contents(enc(g).columns, enc(g).n)
<1>1. at[g].pc = "method" /\ call.op = "Columns" /\ HandOutCopy(g, data)
  BY DEF Columns, Method
<1>2. call.enc \in 1..Len(encoders) /\ enc(g) = encoders[call.enc] /\ EncoderSound(enc(g))
  BY <1>1, InMethod
<1>3. data = Names(Kept(enc(g).mask))
  BY <1>2, EncoderReads
<1>4. Promised(call) = Names(Kept(encoders[call.enc].mask))
  BY <1>1 DEF Promised
<1>5. Settled(Result(g, "ok", "", <<>>, 0))
  <2> DEFINE r == Result(g, "ok", "", <<>>, 0)
  <2>1. r.kind = "ok" /\ r.ref = 0 /\ r.call = call
    BY DEF Result
  <2> HIDE DEF r
  <2>2. Settled(r)
    BY <1>1, <2>1, OpKinds DEF Settled
  <2> QED BY <2>2 DEF r
<1> QED BY <1>1, <1>2, <1>3, <1>4, <1>5, CopyKeeps

LEMMA TypeMethodSettles ==
  ASSUME NEW g, at[g].call.op \in TypeMethods, at[g].call.enc \in 1..Len(encoders),
         NEW kind, NEW err, NEW path,
         at[g].call.op \in {"RowType", "ResultSetMetadata"} =>
           LET t == rowTypeOfFields(Kept(encoders[at[g].call.enc].mask))
           IN  kind = t.kind /\ err = t.err /\ path = t.path
  PROVE  Settled(Result(g, kind, err, path, 0))
<1> DEFINE r == Result(g, kind, err, path, 0)
<1>1. r.kind = kind /\ r.err = err /\ r.path = path /\ r.ref = 0 /\ r.call = at[g].call
  BY DEF Result
<1> HIDE DEF r
<1>2. r.call.op \in {"RowType", "ResultSetMetadata"} => TypeMethodSettled(r)
  BY <1>1 DEF TypeMethodSettled
<1>3. Settled(r)
  BY <1>1, <1>2, OpKinds DEF Settled
<1> QED BY <1>3 DEF r

LEMMA RowTypeKeeps == ASSUME IInv, Sound, NEW g \in Goroutines, RowType(g) PROVE Sound'
<1> DEFINE call == at[g].call
           t == enc(g).rowTypeErr
           data == heap[enc(g).rowType].data
<1>1. at[g].pc = "method" /\ call.op \in TypeMethods
      /\ IF t.kind = "err" THEN Fail(g, t.err, t.path) ELSE HandOutCopy(g, data)
  BY DEF RowType, Method
<1>2. call.enc \in 1..Len(encoders) /\ enc(g) = encoders[call.enc] /\ EncoderSound(enc(g))
  BY <1>1, InMethod
<1>3. /\ t = rowTypeOfFields(Kept(encoders[call.enc].mask)) /\ t.kind \in {"ok", "err"}
      /\ t.kind = "ok" => t.err = "" /\ t.path = <<>>
      /\ data = t.type.fields
  BY <1>2 DEF EncoderSound
<1> HIDE DEF t, data
<1>4. CASE t.kind = "err"
  <2>1. Fail(g, t.err, t.path)
    BY <1>1, <1>4
  <2>2. Settled(Result(g, "err", t.err, t.path, 0))
    BY <1>1, <1>2, <1>3, <1>4, TypeMethodSettles
  <2>3. ASSUME call.op \in Must PROVE Settled(Result(g, "panic", "", <<>>, 0))
    <3>1. call.op \notin {"RowType", "ResultSetMetadata"}
      BY <2>3, OpKinds
    <3> QED BY <1>1, <1>2, <3>1, TypeMethodSettles
  <2> QED BY <2>1, <2>2, <2>3, FailKeeps
<1>5. CASE t.kind = "ok"
  <2>1. HandOutCopy(g, data)
    BY <1>1, <1>5
  <2>2. Settled(Result(g, "ok", "", <<>>, 0))
    <3>1. PICK p : p = <<>>
      OBVIOUS
    <3>2. Settled(Result(g, "ok", "", p, 0))
      BY <1>1, <1>2, <1>3, <1>5, <3>1, TypeMethodSettles
    <3> QED BY <3>1, <3>2
  <2>3. Promised(call) = data
    <3>1. call.op \notin {"Columns", "Values", "Row"}
      BY <1>1, OpKinds DEF TypeMethods
    <3> QED BY <1>3, <3>1 DEF Promised
  <2> QED BY <1>2, <2>1, <2>2, <2>3, CopyKeeps
<1> QED BY <1>3, <1>4, <1>5

\* Values and Row, column by column.
LEMMA ValueMethodSettles ==
  ASSUME NEW g, at[g].call.op \in ValueMethods, at[g].call.enc \in 1..Len(encoders),
         NEW kind, NEW err, NEW path,
         ValueMethodSettled(Result(g, kind, err, path, 0))
  PROVE  Settled(Result(g, kind, err, path, 0))
<1> DEFINE r == Result(g, kind, err, path, 0)
<1>1. r.kind = kind /\ r.ref = 0 /\ r.call = at[g].call
  BY DEF Result
<1> HIDE DEF r
<1>2. Settled(r)
  <2>1. ValueMethodSettled(r)
    BY DEF r
  <2> QED BY <1>1, <2>1, OpKinds DEF Settled
<1> QED BY <1>2 DEF r

LEMMA BeginItemKeeps ==
  ASSUME IInv, Sound, NEW g \in Goroutines, BeginItem(g) PROVE Sound'
<1>1. PICK a : a = at[g]
  OBVIOUS
<1> DEFINE fs == Kept(encoders[a.call.enc].mask)
           e  == structValueError(Items[a.call.item])
           zs == [i \in 1..BufferLength(g) |-> Zero]
           f1 == [a EXCEPT !.pc = "values"]
           f2 == [f1 EXCEPT !.arr = Fresh(1)]
<1>2. /\ a \in Frames /\ a.pc = "item" /\ a.call.op \in ValueMethods /\ a.pos = 1 /\ a.n = 0
      /\ a.columns = 0 /\ a.call.enc \in 1..Len(encoders)
      /\ enc(g) = encoders[a.call.enc] /\ EncoderSound(enc(g))
  BY <1>1, InMethod DEF BeginItem, Sound, FrameSound
<1>3. Len(fs) \in Nat /\ BufferLength(g) = Len(fs)
  BY <1>2, EncoderReads DEF BufferLength
<1>4. Touches(g)
  BY BeginItemTouches
<1> HIDE DEF fs
<1>7. CASE a.call.opts \in Refused
  <2>1. Panics(g)
    BY <1>1, <1>7 DEF BeginItem
  <2>2. PICK p : p = <<>>
    OBVIOUS
  <2>3. ValueMethodSettled(Result(g, "panic", "", p, 0))
    <3> DEFINE r == Result(g, "panic", "", p, 0)
    <3>1. r.kind = "panic" /\ r.call = a.call
      BY <1>1 DEF Result
    <3> HIDE DEF r
    <3>2. ValueMethodSettled(r)
      BY <1>7, <3>1 DEF ValueMethodSettled
    <3> QED BY <3>2 DEF r
  <2>4. Settled(Result(g, "panic", "", p, 0))
    BY <1>1, <1>2, <2>3, ValueMethodSettles
  <2> QED BY <2>1, <2>2, <2>4, PanicsKeeps
<1>5. CASE a.call.opts \notin Refused /\ e # ""
  <2>1. PICK p, err : p = <<>> /\ err = "ErrNilStructPointer"
    OBVIOUS
  <2>2. Fail(g, err, p)
    BY <1>1, <1>5, <2>1 DEF BeginItem
  <2>3. ValueMethodSettled(Result(g, "err", err, p, 0))
    <3> DEFINE r == Result(g, "err", err, p, 0)
    <3>1. r.err = err /\ r.call = a.call
      BY <1>1 DEF Result
    <3> HIDE DEF r
    <3>2. ValueMethodSettled(r)
      BY <1>5, <2>1, <3>1 DEF ValueMethodSettled
    <3> QED BY <3>2 DEF r
  <2>4. Settled(Result(g, "err", err, p, 0)) /\ at[g].call.op \notin Must
    BY <1>1, <1>2, <2>3, ValueMethodSettles, OpKinds
  <2> QED BY <2>2, <2>4, FailKeeps
<1>6. CASE a.call.opts \notin Refused /\ e = ""
  <2>1. /\ heap' = Append(heap, Object(a.call, zs)) /\ Continue(g, f2)
        /\ UNCHANGED <<encoders, held>>
    BY <1>1, <1>6 DEF BeginItem, Buffer
  <2>2. Fresh(1) \in Nat /\ heap'[Fresh(1)] = Object(a.call, zs)
    <3> DEFINE x == Object(a.call, zs)
    <3>1. heap' = Append(heap, x) /\ IsSeq(heap)
      BY <2>1 DEF IInv, Ownership
    <3> HIDE DEF x
    <3>2. Len(heap) \in Nat /\ heap'[Len(heap) + 1] = x
      BY <3>1, Appended
    <3> QED BY <3>2 DEF Fresh, x
  <2>3. f1 \in Frames /\ f1.pc = "values" /\ f1.call = a.call /\ f1.pos = 1 /\ f1.columns = 0
    BY <1>2 DEF Frames
  <2>4. f2.pc = "values" /\ f2.call = a.call /\ f2.pos = 1 /\ f2.columns = 0 /\ f2.arr = Fresh(1)
    <3> HIDE DEF f1
    <3> QED BY <2>2, <2>3 DEF Frames
  <2> HIDE DEF f2, e
  <2>5. PICK f : f = f2
    OBVIOUS
  <2>6. zs = ValuesUpto(0, a.call, fs)
    <3>1. \A i \in 1..Len(fs) : ~(i <= 0)
      BY <1>3
    <3> QED BY <1>3, <3>1 DEF ValuesUpto
  <2> HIDE DEF zs
  <2>7. /\ f.pc = "values" /\ f.call = a.call /\ f.pos = 1 /\ f.columns = 0
        /\ heap'[f.arr] = Object(f.call, ValuesUpto(f.pos - 1, f.call, fs))
    <3>1. f.pc = "values" /\ f.call = a.call /\ f.pos = 1 /\ f.columns = 0 /\ f.pos - 1 = 0
          /\ f.arr = Fresh(1)
      BY <2>4, <2>5
    <3> QED BY <2>2, <2>6, <3>1
  <2>8. /\ f.pos \in 1..(Len(fs) + 1) /\ \A i \in 1..(f.pos - 1) : FALSE
    BY <1>3, <2>7
  <2>9. f.call.opts \notin Refused /\ structValueError(Items[f.call.item]) = "" /\ encoders'[f.call.enc] = encoders[f.call.enc]
        /\ fs = Kept(encoders[f.call.enc].mask)
    BY <1>6, <2>1, <2>7 DEF e, fs
  <2>10. ValuesSound(f)'
    <3>1. Kept(encoders'[f.call.enc].mask) = fs
      BY <2>9
    <3> QED BY <2>7, <2>8, <2>9, <3>1 DEF ValuesSound
  <2>11. FrameSound(f)'
    BY <1>2, <2>7, <2>10 DEF FrameSound
  <2>12. at'[g] = f /\ UNCHANGED <<ret, calls>>
    BY <2>1, <2>5 DEF Continue, IInv, Ownership
  <2>13. FrameSound(at[g])'
    BY <2>11, <2>12 DEF FrameSound, KeepSound, ValuesSound
  <2> QED BY <1>4, <2>1, <2>12, <2>13, MoveKeeps
<1> QED BY <1>5, <1>6, <1>7

LEMMA EncodeFieldKeeps ==
  ASSUME IInv, Sound, NEW g \in Goroutines, EncodeField(g) PROVE Sound'
<1>1. PICK a : a = at[g]
  OBVIOUS
<1> DEFINE fs == Kept(encoders[a.call.enc].mask)
           k  == a.pos - 1
           x  == fs[a.pos]
           c  == a.call
<1>2. /\ a \in Frames /\ a.pc = "values" /\ a.call.op \in ValueMethods /\ a.columns = 0
      /\ a.call.enc \in 1..Len(encoders) /\ ValuesSound(a)
      /\ enc(g) = encoders[a.call.enc] /\ EncoderSound(enc(g)) /\ a.pos <= enc(g).n
  BY <1>1, InMethod DEF EncodeField, Sound, FrameSound
<1>3. Len(fs) \in Nat /\ enc(g).n = Len(fs)
      /\ \A n \in 1..Len(fs) : heap[enc(g).fields].data[n] = fs[n]
  BY <1>2, EncoderReads
<1> HIDE DEF fs
<1>4. /\ c.opts \notin Refused /\ structValueError(Items[c.item]) = "" /\ a.pos \in 1..(Len(fs) + 1)
      /\ heap[a.arr] = Object(a.call, ValuesUpto(k, c, fs))
      /\ \A n \in 1..k : ~Stops(c, fs[n])
  BY <1>2 DEF ValuesSound, fs
<1>5. /\ a.pos \in 1..Len(fs) /\ k \in Nat /\ k + 1 = a.pos /\ k < Len(fs)
      /\ heap[enc(g).fields].data[a.pos] = x
      /\ a.pos + 1 \in 1..(Len(fs) + 1) /\ (a.pos + 1) - 1 = k + 1
  <2>1. a.pos <= Len(fs) /\ a.pos \in 1..(Len(fs) + 1) /\ Len(fs) \in Nat
    BY <1>2, <1>3, <1>4
  <2>2. /\ a.pos \in 1..Len(fs) /\ k \in Nat /\ k + 1 = a.pos /\ k < Len(fs)
        /\ a.pos + 1 \in 1..(Len(fs) + 1) /\ (a.pos + 1) - 1 = k + 1
    BY <2>1
  <2> QED BY <1>3, <2>2
<1>6. Touches(g)
  BY EncodeFieldTouches
<1>7. IF Outcome(c, x) = "panic" THEN Panics(g)
      ELSE IF Outcome(c, x) = "err" THEN Fail(g, "ErrEncode", <<AtField(k)>>)
      ELSE /\ heap' = [heap EXCEPT ![a.arr].data[a.pos] = ValueOfField(c, x)]
           /\ Continue(g, [a EXCEPT !.pos = a.pos + 1]) /\ UNCHANGED <<encoders, held>>
  BY <1>1, <1>5 DEF EncodeField, IndexInColumns
<1> HIDE DEF x, k
\* The column that is refused, and how.
<1>8. ASSUME NEW kind, NEW err, NEW path, Stops(c, x),
             IF Outcome(c, x) = "panic" THEN kind = "panic"
             ELSE err = "ErrEncode" /\ path = <<AtField(k)>>
      PROVE  Settled(Result(g, kind, err, path, 0))
  <2> DEFINE r == Result(g, kind, err, path, 0)
  <2>1. r.kind = kind /\ r.err = err /\ r.path = path /\ r.call = a.call
    BY <1>1 DEF Result
  <2> HIDE DEF r
  <2>2. x = fs[a.pos] /\ k = a.pos - 1
    BY DEF x, k
  <2>3. ValueMethodSettled(r)
    <3>1. /\ a.pos \in 1..Len(fs) /\ Stops(c, fs[a.pos])
          /\ \A m \in 1..(a.pos - 1) : ~Stops(c, fs[m])
          /\ IF Outcome(c, fs[a.pos]) = "panic" THEN r.kind = "panic"
             ELSE r.err = "ErrEncode" /\ r.path = <<AtField(a.pos - 1)>>
      BY <1>4, <1>5, <1>8, <2>1, <2>2
    <3>2. fs = Kept(encoders[r.call.enc].mask) /\ c = r.call
      BY <2>1 DEF fs
    <3> QED BY <1>4, <3>1, <3>2 DEF ValueMethodSettled
  <2>4. ValueMethodSettled(Result(g, kind, err, path, 0))
    BY <2>3 DEF r
  <2> QED BY <1>1, <1>2, <2>4, ValueMethodSettles
<1>9. CASE Outcome(c, x) = "panic"
  <2>1. Panics(g) /\ Stops(c, x)
    BY <1>7, <1>9 DEF Stops
  <2>2. Settled(Result(g, "panic", "", <<>>, 0))
    <3>1. PICK p : p = <<>>
      OBVIOUS
    <3>2. Settled(Result(g, "panic", "", p, 0))
      BY <1>8, <1>9, <2>1
    <3> QED BY <3>1, <3>2
  <2> QED BY <2>1, <2>2, PanicsKeeps
<1>10. CASE Outcome(c, x) # "panic" /\ Outcome(c, x) = "err"
  <2>1. PICK p, err : p = <<AtField(k)>> /\ err = "ErrEncode"
    OBVIOUS
  <2>2. Fail(g, err, p) /\ Stops(c, x)
    BY <1>7, <1>10, <2>1 DEF Stops
  <2>3. Settled(Result(g, "err", err, p, 0)) /\ at[g].call.op \notin Must
    BY <1>1, <1>2, <1>8, <1>10, <2>1, <2>2, OpKinds
  <2> QED BY <2>2, <2>3, FailKeeps
<1>11. CASE Outcome(c, x) \notin {"err", "panic"}
  <2> DEFINE f1 == [a EXCEPT !.pos = a.pos + 1]
             v  == ValueOfField(c, x)
             d  == ValuesUpto(k, c, fs)
  <2>1. /\ heap' = [heap EXCEPT ![a.arr].data[a.pos] = v] /\ Continue(g, f1)
        /\ UNCHANGED <<encoders, held>>
    BY <1>7, <1>11
  <2>2. f1.pos = a.pos + 1 /\ f1.pc = "values" /\ f1.call = a.call
        /\ f1.arr = a.arr /\ f1.columns = 0
    BY <1>2 DEF Frames
  <2> HIDE DEF f1
  <2>3. PICK f : f = f1
    OBVIOUS
  <2>4. heap'[a.arr] = Object(a.call, ValuesUpto(k + 1, c, fs))
    <3>1. IsSeq(heap) /\ a.arr \in 1..Len(heap)
      BY <1>1, <1>2, Filling DEF IInv, Ownership
    <3> HIDE DEF v, d
    <3>2. PICK h : h = heap'
      OBVIOUS
    <3>3. h = Put(heap, a.arr, a.pos, v) /\ heap[a.arr] = Object(a.call, d)
      BY <1>4, <2>1, <3>2 DEF Put, d
    <3>4. h[a.arr] = Object(a.call, PutAt(d, a.pos, v))
      BY <3>1, <3>3, Written
    <3>5. PutAt(d, a.pos, v) = ValuesUpto(k + 1, c, fs)
      <4>1. [d EXCEPT ![k + 1] = ValueOfField(c, fs[k + 1])] = ValuesUpto(k + 1, c, fs)
        BY <1>3, <1>5, NextValue DEF d
      <4>2. a.pos = k + 1 /\ v = ValueOfField(c, fs[k + 1])
        BY <1>5 DEF v, x
      <4> QED BY <4>1, <4>2 DEF PutAt
    <3> QED BY <3>2, <3>4, <3>5
  <2> HIDE DEF v, d
  <2>5. /\ f.pos = a.pos + 1 /\ f.pc = "values" /\ f.call = a.call /\ f.arr = a.arr /\ f.columns = 0
        /\ f.pos \in 1..(Len(fs) + 1) /\ f.pos - 1 = k + 1
    BY <1>5, <2>2, <2>3
  <2>6. \A n \in 1..(k + 1) : ~Stops(c, fs[n])
    <3>1. ~Stops(c, fs[k + 1])
      BY <1>5, <1>11 DEF Stops, x
    <3>2. \A n \in 1..(k + 1) : n \in 1..k \/ n = k + 1
      BY <1>5
    <3> QED BY <1>4, <3>1, <3>2
  <2>7. fs = Kept(encoders'[f.call.enc].mask) /\ c = f.call
    BY <2>1, <2>5 DEF fs
  <2>8. ValuesSound(f)'
    BY <1>4, <2>4, <2>5, <2>6, <2>7 DEF ValuesSound
  <2>9. FrameSound(f)'
    BY <1>2, <2>5, <2>8 DEF FrameSound
  <2>10. at'[g] = f /\ UNCHANGED <<ret, calls>>
    BY <2>1, <2>3 DEF Continue, IInv, Ownership
  <2>11. FrameSound(at[g])'
    BY <2>9, <2>10 DEF FrameSound, KeepSound, ValuesSound
  <2> QED BY <1>6, <2>1, <2>10, <2>11, MoveKeeps
<1> QED BY <1>9, <1>10, <1>11

LEMMA ReturnValuesKeeps ==
  ASSUME IInv, Sound, NEW g \in Goroutines, ReturnValues(g) PROVE Sound'
<1>1. PICK a : a = at[g]
  OBVIOUS
<1> DEFINE fs == Kept(encoders[a.call.enc].mask)
           c  == a.call
           vs == [n \in 1..Len(fs) |-> ValueOfField(c, fs[n])]
<1>2. /\ a.pc = "values" /\ a.call.op \in ValueMethods
      /\ a.call.enc \in 1..Len(encoders) /\ ValuesSound(a)
      /\ enc(g) = encoders[a.call.enc] /\ EncoderSound(enc(g)) /\ a.pos > enc(g).n
  BY <1>1, InMethod DEF ReturnValues, Sound, FrameSound
<1>3. Len(fs) \in Nat /\ enc(g).n = Len(fs) /\ Contents(enc(g).columns, enc(g).n) = Names(fs)
  BY <1>2, EncoderReads
<1>4. /\ c.opts \notin Refused /\ structValueError(Items[c.item]) = "" /\ a.pos \in 1..(Len(fs) + 1)
      /\ heap[a.arr] = Object(a.call, ValuesUpto(a.pos - 1, c, fs))
      /\ \A n \in 1..(a.pos - 1) : ~Stops(c, fs[n])
  BY <1>2 DEF ValuesSound
<1>5. /\ Promised(a.call) = IF a.call.op = "Values" THEN vs ELSE <<Names(fs), vs>>
  BY <1>2 DEF Promised, ValueMethods
<1> HIDE DEF fs
<1>6. a.pos - 1 = Len(fs)
  <2>1. a.pos > Len(fs) /\ a.pos \in 1..(Len(fs) + 1) /\ Len(fs) \in Nat
    BY <1>2, <1>3, <1>4
  <2> QED BY <2>1
<1>7. heap[a.arr] = Object(a.call, vs)
  <2>1. \A n \in 1..Len(fs) : n <= Len(fs)
    BY <1>3
  <2>2. ValuesUpto(Len(fs), c, fs) = vs
    BY <2>1 DEF ValuesUpto
  <2> QED BY <1>4, <1>6, <2>2
<1> HIDE DEF vs
<1>8. Settled(Result(g, "ok", "", <<>>, 0))
  <2>1. PICK p : p = <<>>
    OBVIOUS
  <2> DEFINE r == Result(g, "ok", "", p, 0)
  <2>2. r.kind = "ok" /\ r.call = a.call
    BY <1>1 DEF Result
  <2> HIDE DEF r
  <2>3. ValueMethodSettled(r)
    <3>1. \A n \in 1..Len(fs) : ~Stops(c, fs[n])
      BY <1>4, <1>6
    <3> QED BY <1>4, <2>2, <3>1 DEF ValueMethodSettled, fs
  <2>4. ValueMethodSettled(Result(g, "ok", "", p, 0))
    BY <2>3 DEF r
  <2>5. Settled(Result(g, "ok", "", p, 0))
    BY <1>1, <1>2, <2>4, ValueMethodSettles
  <2> QED BY <2>1, <2>5
<1>9. IF a.call.op = "Values" THEN HandOut(g, a.arr) /\ UNCHANGED heap
      ELSE HandOutCopy(g, <<Names(fs), heap[a.arr].data>>)
  BY <1>1, <1>3 DEF ReturnValues
<1>10. CASE a.call.op = "Values"
  <2>1. HandOut(g, a.arr) /\ heap' = heap
    BY <1>9, <1>10
  <2>2. PICK x : x = heap[a.arr]
    OBVIOUS
  <2>3. x.made = a.call /\ x.data = vs /\ x = Object(x.made, x.data)
    BY <1>7, <2>2 DEF Object
  <2>4. HeldSound(x)
    BY <1>2, <1>5, <1>10, <2>3 DEF HeldSound
  <2>5. Touches(g) /\ heap'[a.arr] = x
    BY <2>1, <2>2, ReturnValuesTouches
  <2> QED BY <1>8, <2>1, <2>4, <2>5, HandOutKeeps
<1>11. CASE a.call.op # "Values"
  <2> DEFINE data == <<Names(fs), heap[a.arr].data>>
  <2>1. HandOutCopy(g, data)
    BY <1>9, <1>11
  <2>2. data = Promised(at[g].call)
    <3>1. heap[a.arr].data = vs
      BY <1>7 DEF Object
    <3> QED BY <1>1, <1>5, <1>11, <3>1
  <2> HIDE DEF data
  <2> QED BY <1>1, <1>2, <1>8, <2>1, <2>2, CopyKeeps
<1> QED BY <1>10, <1>11

----------------------------------------------------------------------------
(* Every step.                                                             *)

\* A caller that writes leaves what is another's, and what it wrote is seen.
LEMMA ScribbleSound == ASSUME IInv, Sound, Scribble PROVE Sound'
<1>1. /\ UNCHANGED <<encoders, at, ret, held, calls>> /\ IsSeq(encoders) /\ IsSeq(heap)
      /\ \A o \in 1..Len(heap) : o \notin held => heap'[o] = heap[o]
      /\ held \subseteq 2..Len(heap)
  BY ScribbleKeeps DEF Scribble, IInv, Ownership, Upto
<1>2. Grows
  BY <1>1 DEF Grows, IsSeq
<1>3. ASSUME NEW g \in Goroutines PROVE FrameSound(at[g])' /\ Settled(ret[g])'
  <2>1. PICK a, r : a = at[g] /\ r = ret[g]
    OBVIOUS
  <2>2. UsesEncoder(a) /\ PrivateOf(a) \subseteq 1..Len(heap) /\ PrivateOf(a) \cap held = {}
    BY <2>1 DEF IInv, Ownership, Private, Upto
  <2>3. FrameSound(a) /\ Settled(r)
    BY <2>1 DEF Sound
  <2>4. FrameSound(a)'
    BY <1>1, <1>2, <2>2, <2>3, FrameStays
  <2>5. Settled(r)'
    BY <1>2, <2>3, SettledStays
  <2>6. at'[g] = a /\ ret'[g] = r
    BY <1>1, <2>1
  <2>7. FrameSound(at[g])'
    BY <2>4, <2>6 DEF FrameSound, KeepSound, ValuesSound
  <2>8. Settled(ret[g])'
    BY <2>5, <2>6 DEF Settled, TypeMethodSettled, ValueMethodSettled
  <2> QED BY <2>7, <2>8
<1>4. ASSUME NEW e \in 1..Len(encoders') PROVE EncoderSound(encoders[e])'
  <2>1. PICK c : c = encoders[e]
    OBVIOUS
  <2>2. e \in 1..Len(encoders) /\ encoders'[e] = c
    BY <1>1, <2>1
  <2>3. Owned(c) \subseteq 1..Len(heap) /\ Owned(c) \cap held = {}
    BY <2>1, <2>2 DEF IInv, Ownership, Compiled, Upto
  <2>4. EncoderSound(c)'
    BY <1>1, <2>1, <2>2, <2>3, EncoderStays DEF Sound
  <2> QED BY <2>2, <2>4 DEF EncoderSound
<1>5. ASSUME NEW o \in held' PROVE HeldSound(heap[o])'
  <2>1. PICK w \in held : heap' = [heap EXCEPT ![w].data = Scribbled(@)]
    BY DEF Scribble
  <2>2. PICK x, y : x = heap[o] /\ y = heap'[o]
    OBVIOUS
  <2>3. o \in held /\ o \in DOMAIN heap
    BY <1>1 DEF IsSeq
  <2>4. HeldSound(x)
    BY <2>2, <2>3 DEF Sound
  <2>5. y = x \/ y = [x EXCEPT !.data = Scribbled(x.data)]
    BY <2>1, <2>2, <2>3
  <2>6. HeldSound(y)
    <3>1. CASE y = [x EXCEPT !.data = Scribbled(x.data)]
      <4>1. PICK m, d, s : m = x.made /\ d = x.data /\ s = Scribbled(d)
        OBVIOUS
      <4>2. x = [made |-> m, data |-> d]
        BY <2>4, <4>1 DEF HeldSound, Object
      <4>3. y = [x EXCEPT !.data = s]
        BY <3>1, <4>1
      <4>4. y = [made |-> m, data |-> s]
        BY <4>2, <4>3
      <4>5. y.made = m /\ y.data = s /\ y = Object(y.made, y.data)
        BY <4>4 DEF Object
      <4>6. s = Scribbled(s)
        BY <4>1 DEF Scribbled
      <4> QED BY <2>4, <4>1, <4>5, <4>6 DEF HeldSound
    <3> QED BY <2>4, <2>5, <3>1
  <2>7. HeldSound(y)'
    BY <1>2, <2>6, HeldStays
  <2> QED BY <2>2, <2>7 DEF HeldSound
<1> QED BY <1>1, <1>3, <1>4, <1>5 DEF Sound

LEMMA InitSound == Init => Sound
<1> SUFFICES ASSUME Init PROVE Sound
  OBVIOUS
<1>1. /\ encoders = <<>> /\ held = {} /\ calls = 0
      /\ at = [g \in Goroutines |-> Idle] /\ ret = [g \in Goroutines |-> NoReturn]
  BY DEF Init
<1>2. ASSUME NEW g \in Goroutines PROVE FrameSound(at[g]) /\ Settled(ret[g])
  <2>1. at[g] = Idle /\ ret[g] = NoReturn
    BY <1>1
  <2>2. Idle.pc = "idle" /\ Idle.arr = 0 /\ Idle.columns = 0 /\ Idle.call.enc = 0
    BY DEF Idle, NoCall
  <2>3. FrameSound(at[g])
    <3>1. at[g].pc = "idle" /\ at[g].arr = 0 /\ at[g].columns = 0 /\ at[g].call.enc = 0
      BY <2>1, <2>2
    <3> QED BY <3>1 DEF FrameSound
  <2>4. NoReturn.kind = "none" /\ NoReturn.call.op = ""
    BY DEF NoReturn, NoCall
  <2>5. "" \notin TypeMethods \cup ValueMethods
    BY DEF TypeMethods, ValueMethods
  <2>6. Settled(ret[g])
    BY <2>1, <2>4, <2>5 DEF Settled
  <2> QED BY <2>3, <2>6
<1>3. 1..Len(encoders) = {}
  BY <1>1
<1>4. DOMAIN ret = Goroutines /\ calls \in 0..MaxCalls
  BY <1>1, RowEncoderAssumption
<1> QED BY <1>1, <1>2, <1>3, <1>4 DEF Sound

LEMMA NextKeepsSound == ASSUME IInv, Sound, [Next]_vars PROVE Sound'
<1>1. CASE Scribble
  BY <1>1, ScribbleSound
<1>2. ASSUME NEW g \in Goroutines, CallNew(g) \/ CallMethod(g) \/ Step(g) PROVE Sound'
  BY <1>2, CallNewKeeps, CallMethodKeeps, ListFieldsKeeps, KeepFieldKeeps, FieldsKeptKeeps,
     ColumnsKeeps, RowTypeKeeps, BeginItemKeeps, EncodeFieldKeeps, ReturnValuesKeeps DEF Step
<1>3. CASE UNCHANGED vars
  <2>1. UNCHANGED <<heap, encoders, at, ret, held, calls>>
    BY <1>3 DEF vars
  <2>2. \A g \in Goroutines : FrameSound(at[g])' /\ Settled(ret[g])'
    <3>1. ASSUME NEW g \in Goroutines PROVE FrameSound(at[g])'
      <4>1. PICK a : a = at[g] /\ a = at'[g]
        BY <2>1
      <4>2. FrameSound(a)
        BY <4>1 DEF Sound
      <4>3. KeepSound(a)' = KeepSound(a)
        BY <2>1 DEF KeepSound
      <4>4. ValuesSound(a)' = ValuesSound(a)
        BY <2>1 DEF ValuesSound
      <4>5. FrameSound(a)'
        BY <4>2, <4>3, <4>4 DEF FrameSound
      <4> QED BY <4>1, <4>5 DEF FrameSound
    <3>2. ASSUME NEW g \in Goroutines PROVE Settled(ret[g])'
      <4>1. PICK r : r = ret[g] /\ r = ret'[g]
        BY <2>1
      <4>2. Settled(r)
        BY <4>1 DEF Sound
      <4>3. TypeMethodSettled(r)' = TypeMethodSettled(r) /\ ValueMethodSettled(r)' = ValueMethodSettled(r)
        BY <2>1 DEF TypeMethodSettled, ValueMethodSettled
      <4>4. Settled(r)'
        BY <2>1, <4>2, <4>3 DEF Settled
      <4> QED BY <4>1, <4>4 DEF Settled
    <3> QED BY <3>1, <3>2
  <2>3. \A e \in 1..Len(encoders') : EncoderSound(encoders[e])'
    <3> SUFFICES ASSUME NEW e \in 1..Len(encoders) PROVE EncoderSound(encoders[e])'
      BY <2>1
    <3>1. PICK c : c = encoders[e] /\ c = encoders'[e]
      BY <2>1
    <3>2. EncoderSound(c)
      BY <3>1 DEF Sound
    <3>3. EncoderSound(c)'
      BY <2>1, <3>2 DEF EncoderSound
    <3> QED BY <3>1, <3>3 DEF EncoderSound
  <2>4. \A o \in held' : HeldSound(heap[o])'
    <3> SUFFICES ASSUME NEW o \in held PROVE HeldSound(heap[o])'
      BY <2>1
    <3>1. PICK x : x = heap[o] /\ x = heap'[o]
      BY <2>1
    <3>2. HeldSound(x)
      BY <3>1 DEF Sound
    <3>3. Promised(x.made)' = Promised(x.made)
      BY <2>1 DEF Promised
    <3>4. HeldSound(x)'
      BY <2>1, <3>2, <3>3 DEF HeldSound
    <3> QED BY <3>1, <3>4 DEF HeldSound
  <2> QED BY <2>1, <2>2, <2>3, <2>4 DEF Sound
<1> QED BY <1>1, <1>2, <1>3 DEF Next

LEMMA SoundHolds == Spec => [](IInv /\ Sound)
<1>1. Init => IInv /\ Sound
  BY InitOwned, InitSound
<1>2. IInv /\ Sound /\ [Next]_vars => IInv' /\ Sound'
  BY NextKeepsOwned, NextKeepsSound
<1> QED BY <1>1, <1>2, PTL DEF Spec

----------------------------------------------------------------------------
(* The theorems.                                                           *)

LEMMA SoundTyped == ASSUME IInv, Sound PROVE TypeOK
<1>1. Len(heap) \in Nat /\ Len(encoders) \in Nat /\ held \subseteq 1..Len(heap)
  BY DEF IInv, Ownership, IsSeq, Upto
<1>2. ASSUME NEW g \in Goroutines
      PROVE  /\ at[g].pc \in {"idle", "list", "keep", "method", "item", "values"}
             /\ at[g].arr \in 0..Len(heap) /\ at[g].columns \in 0..Len(heap)
             /\ at[g].call.enc \in 0..Len(encoders)
  <2>1. PICK a : a = at[g]
    OBVIOUS
  <2>2. /\ a \in Frames /\ UsesEncoder(a) /\ PrivateOf(a) \subseteq 2..Len(heap) /\ FrameSound(a)
    BY <2>1, FrameTyped DEF IInv, Ownership, Private, Upto, Sound
  <2>3. a.pc \in {"idle", "list", "keep", "method", "item", "values"}
    BY <2>2 DEF Frames
  <2>4. a.arr \in 0..Len(heap)
    <3>1. CASE a.pc \in {"keep", "values"}
      <4>1. a.arr \in PrivateOf(a)
        BY <3>1 DEF PrivateOf
      <4> QED BY <1>1, <2>2, <4>1
    <3>2. CASE a.pc \notin {"keep", "values"}
      BY <1>1, <2>2, <3>2 DEF FrameSound
    <3> QED BY <3>1, <3>2
  <2>5. a.columns \in 0..Len(heap)
    <3>1. CASE a.pc = "keep"
      BY <1>1, <2>2, <3>1 DEF PrivateOf
    <3>2. CASE a.pc # "keep"
      BY <1>1, <2>2, <3>2 DEF FrameSound
    <3> QED BY <3>1, <3>2
  <2>6. a.call.enc \in 0..Len(encoders)
    BY <1>1, <2>2, <2>3 DEF UsesEncoder, FrameSound
  <2> QED BY <2>1, <2>3, <2>4, <2>5, <2>6
<1>3. ASSUME NEW g \in Goroutines, at[g].pc = "keep"
      PROVE  at[g].n < at[g].pos /\ at[g].pos <= Len(listings[T]) + 1
  <2>1. KeepSound(at[g])
    BY <1>3 DEF Sound, FrameSound
  <2> QED BY <2>1, Listing DEF KeepSound, L
<1>4. ASSUME NEW g \in Goroutines, at[g].pc = "values"
      PROVE  at[g].pos <= enc(g).n + 1 /\ Len(heap[at[g].arr].data) = enc(g).n
  <2> DEFINE a  == at[g]
             fs == Kept(enc(g).mask)
             v(i) == IF i <= a.pos - 1 THEN ValueOfField(a.call, fs[i]) ELSE Zero
             V  == {v(i) : i \in 1..Len(fs)}
             d  == [i \in 1..Len(fs) |-> v(i)]
  <2>1. enc(g) = encoders[a.call.enc] /\ EncoderSound(enc(g)) /\ ValuesSound(a)
    BY <1>4, InMethod DEF Sound, FrameSound
  <2>2. Len(fs) \in Nat /\ enc(g).n = Len(fs)
    BY <2>1, EncoderReads
  <2>3. heap[a.arr].data = d /\ a.pos \in 1..(Len(fs) + 1)
    <3>1. /\ heap[a.arr] = Object(a.call, ValuesUpto(a.pos - 1, a.call, fs))
          /\ a.pos \in 1..(Len(fs) + 1)
      BY <2>1 DEF ValuesSound
    <3>2. ValuesUpto(a.pos - 1, a.call, fs) = d
      BY DEF ValuesUpto
    <3> HIDE DEF d, fs, a
    <3> QED BY <3>1, <3>2 DEF Object
  <2>4. d \in [1..Len(fs) -> V]
    OBVIOUS
  <2> HIDE DEF d, V, fs
  <2>5. Len(d) = Len(fs)
    BY <2>2, <2>4
  <2>6. a.pos <= Len(fs) + 1
    BY <2>2, <2>3
  <2> QED BY <2>2, <2>3, <2>5, <2>6
<1>5. \A g \in Goroutines : ret[g].kind = "ok" => ret[g].ref \in held \cup {0}
  BY DEF Sound, Settled
<1>6. calls \in 0..MaxCalls
  BY DEF Sound
<1> QED BY <1>1, <1>2, <1>3, <1>4, <1>5, <1>6 DEF TypeOK

\* Every goroutine is at a place of its call, over objects that exist, and
\* encodes into a buffer with one place per column of its encoder, never
\* past its end (rowencoder.go:152-159).
THEOREM EncoderTypeCorrect == Spec => []TypeOK
<1> QED BY SoundTyped, SoundHolds, PTL

LEMMA SoundEncoders == ASSUME Sound PROVE EncodersIntact
<1>1. ASSUME NEW e \in 1..Len(encoders)
      PROVE  LET c == encoders[e] IN
             /\ Contents(c.fields, c.n) = Kept(c.mask)
             /\ Contents(c.columns, c.n) = Names(Kept(c.mask))
             /\ c.rowTypeErr.kind = "ok" => heap[c.rowType].data = rowTypeOfFields(Kept(c.mask)).type.fields
  <2>1. PICK c : c = encoders[e]
    OBVIOUS
  <2>2. EncoderSound(c)
    BY <2>1 DEF Sound
  <2>3. Contents(c.fields, c.n) = Kept(c.mask) /\ Contents(c.columns, c.n) = Names(Kept(c.mask))
    BY <2>2, EncoderReads
  <2>4. heap[c.rowType].data = rowTypeOfFields(Kept(c.mask)).type.fields
    BY <2>2 DEF EncoderSound
  <2> QED BY <2>1, <2>3, <2>4
<1> QED BY <1>1 DEF EncodersIntact

\* A published encoder has the columns and the row type its mask asks for,
\* and keeps them, whatever callers write to what its methods returned and
\* whatever other goroutines compile and encode (rowencoder.go:53-56, 91, 101).
THEOREM EncodersStayIntact == Spec => []EncodersIntact
<1> QED BY SoundEncoders, SoundHolds, PTL

LEMMA SoundResults == ASSUME Sound PROVE ResultsIntact
BY DEF Sound, HeldSound, ResultsIntact

\* A slice of columns, a row type, the values and the row a call returned
\* read as it promised until their holder writes to them: no later call and
\* no other goroutine gets to them (rowencoder.go:91, 101, 152, 185).
THEOREM ResultsStayIntact == Spec => []ResultsIntact
<1> QED BY SoundResults, SoundHolds, PTL

LEMMA SoundErrors == ASSUME Sound PROVE CompilesWithoutRowType
BY DEF Sound, Settled, TypeMethodSettled, CompilesWithoutRowType

\* Construction fails for a mistaken mask or type alone; what RowType says,
\* again and again, is the row type of the columns, or the error of the
\* first that has none (rowencoder.go:54, 72-82, 101-106).
THEOREM RowTypeErrorsAreKept == Spec => []CompilesWithoutRowType
<1> QED BY SoundErrors, SoundHolds, PTL

LEMMA SoundFailures == ASSUME Sound PROVE FailureNamesColumn
<1> SUFFICES ASSUME NEW g \in Goroutines, ret[g].call.op \in ValueMethods
             PROVE  LET fs == Kept(encoders[ret[g].call.enc].mask)
                        c  == ret[g].call
                        bad == {n \in 1..Len(fs) : Outcome(c, fs[n]) \in {"err", "panic"}}
                    IN  IF c.opts \in Refused THEN ret[g].kind = "panic"
                        ELSE IF structValueError(Items[c.item]) # "" THEN ret[g].err = "ErrNilStructPointer"
                        ELSE IF bad = {} THEN ret[g].kind = "ok"
                        ELSE IF Outcome(c, fs[Min(bad)]) = "panic" THEN ret[g].kind = "panic"
                        ELSE ret[g].err = "ErrEncode" /\ ret[g].path = <<AtField(Min(bad) - 1)>>
  BY DEF FailureNamesColumn
<1>1. PICK r : r = ret[g]
  OBVIOUS
<1> DEFINE fs  == Kept(encoders[r.call.enc].mask)
           c   == r.call
           bad == {n \in 1..Len(fs) : Outcome(c, fs[n]) \in {"err", "panic"}}
           usable == c.opts \notin Refused /\ structValueError(Items[c.item]) = ""
<1>2. ValueMethodSettled(r) /\ Len(fs) \in Nat
  BY <1>1, AllKept DEF Sound, Settled
<1> HIDE DEF fs
<1>3. bad \subseteq Nat /\ \A n \in 1..Len(fs) : n \in bad <=> Stops(c, fs[n])
  BY DEF Stops
<1>4. CASE ~usable
  <2>1. IF c.opts \in Refused THEN r.kind = "panic" ELSE r.err = "ErrNilStructPointer"
    BY <1>2, <1>4 DEF ValueMethodSettled
  <2> QED BY <1>1, <1>4, <2>1
<1>5. CASE usable /\ r.kind = "ok" /\ \A n \in 1..Len(fs) : ~Stops(c, fs[n])
  <2>1. bad = {}
    BY <1>3, <1>5
  <2> QED BY <1>1, <1>5, <2>1 DEF fs
<1>6. ASSUME usable,
             NEW n \in 1..Len(fs), Stops(c, fs[n]), \A m \in 1..(n - 1) : ~Stops(c, fs[m]),
             IF Outcome(c, fs[n]) = "panic" THEN r.kind = "panic"
             ELSE r.err = "ErrEncode" /\ r.path = <<AtField(n - 1)>>
      PROVE  /\ bad # {}
             /\ IF Outcome(c, fs[Min(bad)]) = "panic" THEN r.kind = "panic"
                ELSE r.err = "ErrEncode" /\ r.path = <<AtField(Min(bad) - 1)>>
  <2>1. n \in bad
    BY <1>3, <1>6
  <2>2. Min(bad) = n
    <3>1. \A m \in bad : m \in 1..Len(fs) /\ Stops(c, fs[m])
      BY <1>3
    <3> HIDE DEF bad
    <3>2. Min(bad) \in bad /\ \A y \in bad : Min(bad) <= y
      BY <1>3, <2>1, FirstOf
    <3> DEFINE m == Min(bad)
    <3>3. m \in bad /\ m <= n
      BY <2>1, <3>2
    <3> HIDE DEF m
    <3>4. m \in 1..Len(fs) /\ n \in 1..Len(fs)
      BY <3>1, <3>3
    <3>5. m \notin 1..(n - 1)
      BY <1>6, <3>1, <3>3
    <3>6. m = n
      BY <1>2, <3>3, <3>4, <3>5
    <3> QED BY <3>6 DEF m
  <2> HIDE DEF bad
  <2> QED BY <1>6, <2>1, <2>2
<1>7. \/ ~usable
      \/ usable /\ r.kind = "ok" /\ \A n \in 1..Len(fs) : ~Stops(c, fs[n])
      \/ /\ usable
         /\ \E n \in 1..Len(fs) :
              /\ Stops(c, fs[n]) /\ \A m \in 1..(n - 1) : ~Stops(c, fs[m])
              /\ IF Outcome(c, fs[n]) = "panic" THEN r.kind = "panic"
                 ELSE r.err = "ErrEncode" /\ r.path = <<AtField(n - 1)>>
  BY <1>2 DEF ValueMethodSettled, fs
<1>8. CASE /\ usable /\ bad # {}
           /\ IF Outcome(c, fs[Min(bad)]) = "panic" THEN r.kind = "panic"
              ELSE r.err = "ErrEncode" /\ r.path = <<AtField(Min(bad) - 1)>>
  BY <1>1, <1>8 DEF fs
<1> QED BY <1>4, <1>5, <1>6, <1>7, <1>8

\* Values and Row panic for options that do and fail on a nil pointer; else
\* they succeed on every item whose columns all encode, and on any other do
\* what its first column does that does not: fail, named by its index in
\* Columns, or panic (rowencoder.go:143-161).
THEOREM FailuresNameColumns == Spec => []FailureNamesColumn
<1> QED BY SoundFailures, SoundHolds, PTL
=============================================================================
