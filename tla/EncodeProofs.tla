---------------------------- MODULE EncodeProofs ----------------------------
(***************************************************************************)
(* Proofs about EncodeValue, for every universe of Go types, every set of  *)
(* calls and every behaviour of the caller's encoders: TypeOK,             *)
(* HomogeneousElements, and, as far as the caller's code allows,           *)
(* UsableType and FallthroughStaysInside.                                  *)
(*                                                                         *)
(* The inductive invariant IInv is about frames and results one at a time: *)
(* a frame keeps its promise (FrameOK) when a step replaces it, and a step *)
(* returns only what keeps its own (ResultOK).  So each action needs one   *)
(* fact about the frame or the result it makes, and the lemmas about       *)
(* Become, Return, CallFrom and Abort do the rest.                         *)
(***************************************************************************)
EXTENDS EncodeValue, SequenceTheorems, WellFoundedInduction, TLAPS

(***************************************************************************)
(* What the caller's code is assumed to do, where a theorem needs it.      *)
(***************************************************************************)

\* Registered encoders answer values with a Type.
TypedAnswers ==
  \A f \in DOMAIN Answers : \A r \in Answers[f] : r.kind = "ok" => r.type # NoType

\* EncodeSpanner methods do not return ErrFallthrough, which is the answer of
\* registered encoders.
QuietMethods ==
  \A t \in DOMAIN EncodeSpanner : \A o \in EncodeSpanner[t] : o.err # "ErrFallthrough"

(***************************************************************************)
(* The inductive invariant.                                                *)
(***************************************************************************)

\* A result on its way: typed, and not the sentinel.
ResultOK(r) ==
  /\ IsResult(r)
  /\ TypedAnswers => (r.kind = "ok" => r.type # NoType)
  /\ QuietMethods => r.err # "ErrFallthrough"

IsSequence(s) == \E S : s \in Seq(S)

\* A frame: at the start of its function it has collected nothing, and never
\* more than it has passed.
FrameOK(f) ==
  /\ DOMAIN f = {"op", "v", "from", "typ", "pos", "acc"}
  /\ f.op \in Ops /\ f.pos \in Nat
  /\ IsSequence(f.acc) /\ Len(f.acc) <= f.pos
  /\ f.op \in {"value", "switch"} => f.pos = 0
  /\ TypedAnswers =>
       /\ \A j \in 1..Len(f.acc) : f.acc[j].type # NoType
       /\ f.op \in Loops \ {"customSlice"} /\ f.pos > 0 => f.typ # NoType
  /\ f.op = "sliceElements" => \A j \in 1..Len(f.acc) : f.acc[j].type = f.typ

StackOK(s) ==
  /\ IsSequence(s) /\ Len(s) <= StackLimit
  /\ \A i \in 1..Len(s) : FrameOK(s[i])

IInv ==
  /\ pc \in {"idle", "describe", "options", "encode", "returned"}
  /\ stack # <<>> => pc \in {"describe", "encode"}
  /\ StackOK(stack)
  /\ ResultOK(ret)

(***************************************************************************)
(* Sequences.                                                              *)
(***************************************************************************)

LEMMA SequenceLen == ASSUME NEW s, IsSequence(s) PROVE Len(s) \in Nat
  BY DEF IsSequence

LEMMA EmptySequence == IsSequence(<<>>) /\ Len(<<>>) = 0
<1>1. <<>> \in Seq({})
  OBVIOUS
<1> QED  BY <1>1 DEF IsSequence

LEMMA AppendSequence ==
  ASSUME NEW s, NEW x, IsSequence(s)
  PROVE  /\ IsSequence(Append(s, x))
         /\ Len(Append(s, x)) = Len(s) + 1
         /\ \A i \in 1..Len(s) : Append(s, x)[i] = s[i]
         /\ Append(s, x)[Len(s) + 1] = x
<1>1. PICK S : s \in Seq(S)
  BY DEF IsSequence
<1>2. s \in Seq(S \cup {x})
  BY <1>1
<1>3. x \in S \cup {x}
  OBVIOUS
<1> QED  BY <1>2, <1>3, AppendProperties DEF IsSequence

LEMMA FrontSequence ==
  ASSUME NEW s, IsSequence(s), s # <<>>
  PROVE  /\ Len(s) \in Nat \ {0}
         /\ IsSequence(SubSeq(s, 1, Len(s) - 1))
         /\ Len(SubSeq(s, 1, Len(s) - 1)) = Len(s) - 1
         /\ \A i \in 1..(Len(s) - 1) : SubSeq(s, 1, Len(s) - 1)[i] = s[i]
<1>1. PICK S : s \in Seq(S)
  BY DEF IsSequence
<1>2. Len(s) \in Nat \ {0}
  BY <1>1
<1> DEFINE n == Len(s) - 1
<1>3. n \in Nat /\ \A i \in 1..n : s[i] \in S
  BY <1>1, <1>2
<1>4. /\ SubSeq(s, 1, n) \in Seq(S)
      /\ Len(SubSeq(s, 1, n)) = IF 1 <= n THEN n - 1 + 1 ELSE 0
      /\ \A i \in 1..(n - 1 + 1) : SubSeq(s, 1, n)[i] = s[1 + i - 1]
  BY <1>3, SubSeqProperties, 1 \in Int
<1> HIDE DEF n
<1>5. Len(SubSeq(s, 1, n)) = n
  BY <1>3, <1>4
<1>6. ASSUME NEW i \in 1..n PROVE SubSeq(s, 1, n)[i] = s[i]
  <2>1. 1 + i - 1 = i /\ i \in 1..(n - 1 + 1)
    BY <1>3
  <2> QED  BY <2>1, <1>4
<1> QED  BY <1>2, <1>4, <1>5, <1>6 DEF IsSequence, n

(***************************************************************************)
(* Types and results.                                                      *)
(***************************************************************************)

LEMMA Typed ==
  /\ \A t : ArrayOf(t) # NoType
  /\ \A fs : StructOf(fs) # NoType
  /\ \A c : c # "NONE" => Scalar(c) # NoType
  /\ \A c, n : c # "NONE" => NamedType(c, n) # NoType
<1>1. ASSUME NEW t PROVE ArrayOf(t) # NoType
  BY DEF ArrayOf, NoType
<1>2. ASSUME NEW fs PROVE StructOf(fs) # NoType
  BY DEF StructOf, NoType
<1>3. ASSUME NEW c, c # "NONE" PROVE Scalar(c) # NoType
  BY <1>3 DEF Scalar, NoType
<1>4. ASSUME NEW c, NEW n, c # "NONE" PROVE NamedType(c, n) # NoType
  BY <1>4 DEF NamedType, NoType
<1> QED  BY <1>1, <1>2, <1>3, <1>4

LEMMA OkResult ==
  ASSUME NEW t, NEW w
  PROVE  /\ IsResult(Ok(t, w)) /\ Ok(t, w).kind = "ok"
         /\ Ok(t, w).type = t /\ Ok(t, w).err = ""
         /\ (TypedAnswers => t # NoType) => ResultOK(Ok(t, w))
  BY DEF Ok, NoResult, IsResult, ResultKinds, ResultOK

LEMMA OkTypeResult ==
  ASSUME NEW t
  PROVE  /\ OkType(t).kind = "ok" /\ OkType(t).type = t
         /\ t # NoType => ResultOK(OkType(t))
<1>1. OkType(t) = Ok(t, NullWire)
  BY DEF OkType
<1>2. /\ Ok(t, NullWire).kind = "ok" /\ Ok(t, NullWire).type = t
      /\ t # NoType => ResultOK(Ok(t, NullWire))
  BY OkResult
<1> QED  BY <1>1, <1>2

LEMMA ErrResult ==
  ASSUME NEW e
  PROVE  /\ Err(e).kind = "err" /\ Err(e).err = e
         /\ (QuietMethods => e # "ErrFallthrough") => ResultOK(Err(e))
  BY DEF Err, NoResult, IsResult, ResultKinds, ResultOK

LEMMA Aborts == ResultOK(NoResult) /\ ResultOK(Panic) /\ ResultOK(StackOverflow)
  BY DEF Panic, StackOverflow, NoResult, IsResult, ResultKinds, ResultOK

LEMMA WrapResult ==
  ASSUME NEW r, NEW step, ResultOK(r)
  PROVE  ResultOK(Wrap(r, step))
  BY DEF Wrap, NoResult, IsResult, ResultOK

LEMMA ArrayResult ==
  ASSUME NEW t, NEW gs
  PROVE  ResultOK(ArrayValueOf(t, gs)) /\ ResultOK(NullArray(t))
<1>1. ResultOK(Err("ErrTypeMismatch"))
  BY ErrResult
<1> QED  BY <1>1, Typed, OkResult, WrapResult DEF ArrayValueOf, NullArray

(***************************************************************************)
(* Frames.                                                                 *)
(***************************************************************************)

LEMMA NewFrame ==
  /\ \A op \in Ops : \A v : FrameOK(Frame(op, v))
  /\ \A op \in {"typeOf", "structType"} : \A t : FrameOK(TypeFrame(op, t))
<1>1. ASSUME NEW op \in Ops, NEW v PROVE FrameOK(Frame(op, v))
  <2>1. Frame(op, v).acc = <<>> /\ Frame(op, v).pos = 0 /\ Frame(op, v).op = op
    BY DEF Frame
  <2> QED  BY <2>1, EmptySequence DEF Frame, FrameOK
<1>2. ASSUME NEW op \in {"typeOf", "structType"}, NEW t PROVE FrameOK(TypeFrame(op, t))
  <2> DEFINE f == TypeFrame(op, t)
  <2>1. /\ f.acc = <<>> /\ f.pos = 1 /\ f.op = op
        /\ DOMAIN f = {"op", "v", "from", "typ", "pos", "acc"}
    BY DEF Frame, TypeFrame
  <2>2. op \in Ops /\ op \notin Loops
    BY DEF Ops, Loops
  <2> HIDE DEF f
  <2>3. FrameOK(f)
    BY <2>1, <2>2, EmptySequence DEF FrameOK, Loops
  <2> QED  BY <2>3 DEF f
<1> QED  BY <1>1, <1>2

\* A frame that has collected nothing may move to another function, and start
\* a loop when it has the type the loop needs.
LEMMA MovedFrame ==
  ASSUME NEW f, FrameOK(f), NEW op \in Ops
  PROVE  /\ f.pos = 0 => FrameOK([f EXCEPT !.op = op])
         /\ op \notin {"value", "switch"} \cup Loops => FrameOK([f EXCEPT !.op = op])
         /\ f.pos = 0 /\ op = f.op /\ op \notin {"value", "switch"} \cup Loops
              => FrameOK([f EXCEPT !.pos = 1])
<1>1. ASSUME f.pos = 0 PROVE Len(f.acc) = 0
  BY <1>1, SequenceLen DEF FrameOK
<1>2. ASSUME f.pos = 0 PROVE FrameOK([f EXCEPT !.op = op])
  <2> DEFINE g == [f EXCEPT !.op = op]
  <2>1. /\ DOMAIN g = DOMAIN f /\ g.op = op /\ g.pos = 0
        /\ g.acc = f.acc /\ Len(g.acc) = 0
    BY <1>1, <1>2 DEF FrameOK
  <2> HIDE DEF g
  <2>2. FrameOK(g)
    BY <2>1 DEF FrameOK
  <2> QED  BY <2>2 DEF g
<1>3. ASSUME op \notin {"value", "switch"} \cup Loops
      PROVE  FrameOK([f EXCEPT !.op = op])
  <2> DEFINE g == [f EXCEPT !.op = op]
  <2>1. DOMAIN g = DOMAIN f /\ g.op = op /\ g.pos = f.pos /\ g.acc = f.acc
    BY DEF FrameOK
  <2>2. op # "sliceElements"
    BY <1>3 DEF Loops
  <2> HIDE DEF g
  <2>3. FrameOK(g)
    BY <2>1, <2>2, <1>3 DEF FrameOK
  <2> QED  BY <2>3 DEF g
<1>4. ASSUME f.pos = 0, op = f.op, op \notin {"value", "switch"} \cup Loops
      PROVE  FrameOK([f EXCEPT !.pos = 1])
  <2> DEFINE g == [f EXCEPT !.pos = 1]
  <2>1. /\ DOMAIN g = DOMAIN f /\ g.op = op /\ g.pos = 1
        /\ g.acc = f.acc /\ Len(g.acc) = 0
    BY <1>1, <1>4 DEF FrameOK
  <2> HIDE DEF g
  <2>2. FrameOK(g)
    BY <2>1, <1>4 DEF FrameOK
  <2> QED  BY <2>2 DEF g
<1> QED  BY <1>2, <1>3, <1>4

LEMMA LoopFrame ==
  ASSUME NEW f, FrameOK(f), f.pos = 0, NEW op \in Loops, NEW t,
         op = "customSlice" \/ (TypedAnswers => t # NoType)
  PROVE  /\ FrameOK([f EXCEPT !.op = op, !.typ = t, !.pos = 1])
         /\ f.op = op => FrameOK([f EXCEPT !.typ = t, !.pos = 1])
<1> DEFINE g == [f EXCEPT !.op = op, !.typ = t, !.pos = 1]
<1>0. f.op = op => [f EXCEPT !.typ = t, !.pos = 1] = g
  BY DEF FrameOK
<1>1. /\ DOMAIN g = DOMAIN f /\ g.op = op /\ g.pos = 1 /\ g.typ = t
      /\ g.acc = f.acc
  BY DEF FrameOK
<1>2. Len(f.acc) = 0
  BY SequenceLen DEF FrameOK
<1>3. op \in Ops /\ op \notin {"value", "switch"}
  BY DEF Ops, Loops
<1> HIDE DEF g
<1>4. FrameOK(g)
  BY <1>1, <1>2, <1>3 DEF FrameOK
<1> QED  BY <1>0, <1>4 DEF g

\* A loop that passes an element or a field keeps what it has collected.
LEMMA AdvancedFrame ==
  ASSUME NEW f, FrameOK(f), f.pos > 0 \/ f.op \in {"struct", "structType"}
  PROVE  /\ FrameOK(Advanced(f))
         /\ \A x : (TypedAnswers => x.type # NoType) /\ (f.op = "sliceElements" => x.type = f.typ)
              => FrameOK([Advanced(f) EXCEPT !.acc = Append(@, x)])
<1>1. /\ Len(f.acc) \in Nat /\ f.pos \in Nat /\ Len(f.acc) <= f.pos
      /\ f.op \notin {"value", "switch"}
      /\ f.op \in Loops => f.pos > 0
  BY SequenceLen DEF FrameOK, Loops
<1>2. FrameOK(Advanced(f))
  <2> DEFINE g == Advanced(f)
  <2>1. /\ DOMAIN g = DOMAIN f /\ g.op = f.op /\ g.pos = f.pos + 1 /\ g.typ = f.typ
        /\ g.acc = f.acc
    BY DEF FrameOK, Advanced
  <2> HIDE DEF g
  <2>2. FrameOK(g)
    BY <1>1, <2>1 DEF FrameOK
  <2> QED  BY <2>2 DEF g
<1>3. ASSUME NEW x, TypedAnswers => x.type # NoType, f.op = "sliceElements" => x.type = f.typ
      PROVE  FrameOK([Advanced(f) EXCEPT !.acc = Append(@, x)])
  <2> DEFINE g == [Advanced(f) EXCEPT !.acc = Append(@, x)]
  <2>1. /\ DOMAIN g = DOMAIN f /\ g.op = f.op /\ g.pos = f.pos + 1 /\ g.typ = f.typ
        /\ g.acc = Append(f.acc, x)
    BY DEF FrameOK, Advanced
  <2> HIDE DEF g
  <2>2. /\ IsSequence(g.acc) /\ Len(g.acc) = Len(f.acc) + 1
        /\ \A j \in 1..Len(f.acc) : g.acc[j] = f.acc[j]
        /\ g.acc[Len(f.acc) + 1] = x
    BY <2>1, AppendSequence DEF FrameOK
  <2>3. \A j \in 1..Len(g.acc) : j \in 1..Len(f.acc) \/ j = Len(f.acc) + 1
    BY <1>1, <2>2
  <2>4. TypedAnswers => \A j \in 1..Len(g.acc) : g.acc[j].type # NoType
    BY <2>2, <2>3, <1>3 DEF FrameOK
  <2>5. g.op = "sliceElements" => \A j \in 1..Len(g.acc) : g.acc[j].type = g.typ
    BY <2>1, <2>2, <2>3, <1>3 DEF FrameOK
  <2>6. Len(g.acc) <= g.pos /\ g.pos \in Nat /\ g.pos > 0
    BY <1>1, <2>1, <2>2
  <2>7. FrameOK(g)
    BY <1>1, <2>1, <2>2, <2>4, <2>5, <2>6 DEF FrameOK
  <2> QED  BY <2>7 DEF g
<1> QED  BY <1>2, <1>3

(***************************************************************************)
(* Ways to continue.                                                       *)
(***************************************************************************)

LEMMA Popped ==
  ASSUME NEW s, StackOK(s), s # <<>>
  PROVE  /\ FrameOK(s[Len(s)])
         /\ StackOK(SubSeq(s, 1, Len(s) - 1))
         /\ Len(SubSeq(s, 1, Len(s) - 1)) = Len(s) - 1
         /\ Len(s) \in Nat \ {0}
<1> DEFINE b == SubSeq(s, 1, Len(s) - 1)
<1>1. /\ Len(s) \in Nat \ {0} /\ IsSequence(b) /\ Len(b) = Len(s) - 1
      /\ \A i \in 1..(Len(s) - 1) : b[i] = s[i]
  BY FrontSequence DEF StackOK
<1> HIDE DEF b
<1>2. StackOK(b)
  BY <1>1, StackAssumption DEF StackOK
<1>3. FrameOK(s[Len(s)])
  BY <1>1 DEF StackOK
<1> QED  BY <1>1, <1>2, <1>3 DEF b

LEMMA Pushed ==
  ASSUME NEW s, NEW f, StackOK(s), FrameOK(f), Len(s) < StackLimit
  PROVE  StackOK(Append(s, f)) /\ Len(Append(s, f)) = Len(s) + 1
<1>1. /\ IsSequence(Append(s, f)) /\ Len(Append(s, f)) = Len(s) + 1
      /\ \A i \in 1..Len(s) : Append(s, f)[i] = s[i]
      /\ Append(s, f)[Len(s) + 1] = f
  BY AppendSequence DEF StackOK
<1>2. Len(s) \in Nat
  BY SequenceLen DEF StackOK
<1>3. \A i \in 1..Len(Append(s, f)) : i \in 1..Len(s) \/ i = Len(s) + 1
  BY <1>1, <1>2
<1> QED  BY <1>1, <1>2, <1>3, StackAssumption DEF StackOK

LEMMA EmptyStack == StackOK(<<>>)
  BY EmptySequence, StackAssumption DEF StackOK

LEMMA Replaced ==
  ASSUME NEW s, NEW f, StackOK(s), s # <<>>, FrameOK(f)
  PROVE  StackOK(Append(SubSeq(s, 1, Len(s) - 1), f))
<1> DEFINE b == SubSeq(s, 1, Len(s) - 1)
<1>1. StackOK(b) /\ Len(b) = Len(s) - 1 /\ Len(s) \in Nat /\ Len(s) <= StackLimit
  BY Popped DEF StackOK
<1> HIDE DEF b
<1>2. Len(b) < StackLimit
  BY <1>1, StackAssumption
<1> QED  BY <1>1, <1>2, Pushed DEF b

LEMMA StepBecome ==
  ASSUME IInv, stack # <<>>, Outside, NEW f, FrameOK(f), Become(f)
  PROVE  IInv'
<1>1. StackOK(stack')
  BY Replaced DEF IInv, Become, Below
<1>2. ResultOK(ret')
  BY Aborts DEF Become
<1> QED  BY <1>1, <1>2 DEF IInv, Outside

LEMMA StepReturn ==
  ASSUME IInv, stack # <<>>, Outside, NEW r, ResultOK(r), Return(r)
  PROVE  IInv'
<1>1. StackOK(stack')
  BY Popped DEF IInv, Return, Below
<1>2. ResultOK(ret')
  BY DEF Return
<1> QED  BY <1>1, <1>2 DEF IInv, Outside

LEMMA StepAbort ==
  ASSUME IInv, Outside, NEW r, ResultOK(r), Abort(r)
  PROVE  IInv'
  BY EmptyStack DEF IInv, Outside, Abort

LEMMA StepCallFrom ==
  ASSUME IInv, stack # <<>>, Outside, NEW f, NEW callee, FrameOK(f), FrameOK(callee),
         CallFrom(f, callee)
  PROVE  IInv'
<1>1. CASE Len(stack) >= StackLimit
  <2>1. Abort(StackOverflow)
    BY <1>1 DEF CallFrom
  <2> QED  BY <2>1, StepAbort, Aborts
<1>2. CASE ~(Len(stack) >= StackLimit)
  <2>1. stack' = Append(Append(Below, f), callee) /\ ret' = NoResult
    BY <1>2 DEF CallFrom
  <2>2. StackOK(Append(Below, f)) /\ Len(Append(Below, f)) = Len(stack)
    <3>1. /\ StackOK(Below) /\ Len(Below) = Len(stack) - 1
          /\ Len(stack) \in Nat \ {0} /\ Len(stack) <= StackLimit
      BY Popped DEF IInv, Below, StackOK
    <3>2. Len(Below) < StackLimit
      BY <3>1, StackAssumption
    <3>3. StackOK(Append(Below, f)) /\ Len(Append(Below, f)) = Len(Below) + 1
      BY <3>1, <3>2, Pushed
    <3> QED  BY <3>1, <3>3
  <2>3. Len(stack) \in Nat
    BY Popped DEF IInv
  <2>4. Len(Append(Below, f)) < StackLimit
    BY <1>2, <2>2, <2>3, StackAssumption
  <2>5. StackOK(stack')
    BY <2>1, <2>2, <2>4, Pushed
  <2> QED  BY <2>1, <2>5, Aborts DEF IInv, Outside
<1> QED  BY <1>1, <1>2

LEMMA TopFrame == ASSUME IInv, stack # <<>> PROVE FrameOK(top)
  BY Popped DEF IInv, top

(***************************************************************************)
(* The session.                                                            *)
(***************************************************************************)

LEMMA InitOK == Init => IInv
  BY EmptyStack, Aborts DEF Init, IInv

LEMMA CallTypeFromGoTypeOK == ASSUME IInv, CallTypeFromGoType PROVE IInv'
<1>1. PICK c \in Calls : stack' = <<TypeFrame("typeOf", c.v.type)>>
  BY DEF CallTypeFromGoType
<1>2. FrameOK(TypeFrame("typeOf", c.v.type))
  BY NewFrame
<1>3. stack' = Append(<<>>, TypeFrame("typeOf", c.v.type))
  BY <1>1
<1>4. Len(<<>>) < StackLimit
  BY EmptySequence, StackAssumption
<1>5. StackOK(stack')
  BY <1>2, <1>3, <1>4, EmptyStack, Pushed
<1> QED  BY <1>5 DEF IInv, CallTypeFromGoType

LEMMA CallEncodeOK == ASSUME IInv, CallEncode PROVE IInv'
  BY Aborts DEF IInv, CallEncode

LEMMA ApplyOptionOK == ASSUME IInv, ApplyOption PROVE IInv'
<1>1. stack = <<>> /\ stack' = stack
  BY DEF IInv, ApplyOption
<1>2. \/ ret' = Panic /\ pc' = "encode"
      \/ ret' = ret /\ pc' = pc
  BY DEF ApplyOption
<1> QED  BY <1>1, <1>2, Aborts DEF IInv

LEMMA BeginOK == ASSUME IInv, Begin PROVE IInv'
<1> DEFINE loop == Frame("sliceElements", call.v)
           et   == Elem(call.v.type)
<1>1. /\ FrameOK(Frame("value", call.v)) /\ FrameOK(loop)
      /\ FrameOK(TypeFrame("typeOf", et))
  BY NewFrame DEF Ops
<1>2. ASSUME goType(et) # NoType
      PROVE  FrameOK([loop EXCEPT !.typ = goType(et), !.pos = 1])
  <2>1. loop.pos = 0 /\ loop.op = "sliceElements" /\ "sliceElements" \in Loops
    BY DEF Frame, Loops
  <2> HIDE DEF loop
  <2> QED  BY <2>1, <1>1, <1>2, LoopFrame
<1>3. \A f : FrameOK(f) => StackOK(<<f>>) /\ Len(<<f>>) = 1
  <2>1. \A f : <<f>> = Append(<<>>, f)
    OBVIOUS
  <2>2. Len(<<>>) < StackLimit /\ Len(<<>>) + 1 = 1
    BY EmptySequence, StackAssumption
  <2>3. ASSUME NEW f, FrameOK(f)
        PROVE  StackOK(Append(<<>>, f)) /\ Len(Append(<<>>, f)) = 1
    BY <2>2, <2>3, EmptyStack, Pushed
  <2> QED  BY <2>1, <2>3
<1>4. \A f, g : FrameOK(f) /\ FrameOK(g) => StackOK(<<f, g>>)
  <2>1. \A f, g : <<f, g>> = Append(<<f>>, g)
    OBVIOUS
  <2> QED  BY <2>1, <1>3, Pushed, StackAssumption
<1>5. \/ stack' = <<Frame("value", call.v)>>
      \/ goType(et) # NoType /\ stack' = <<[loop EXCEPT !.typ = goType(et), !.pos = 1]>>
      \/ stack' = <<loop, TypeFrame("typeOf", et)>>
  BY DEF Begin
<1> HIDE DEF loop, et
<1>6. StackOK(stack')
  BY <1>1, <1>2, <1>3, <1>4, <1>5
<1> QED  BY <1>6 DEF IInv, Begin

LEMMA FinishOK == ASSUME IInv, Finish PROVE IInv'
  BY DEF IInv, Finish

LEMMA ForgetOK == ASSUME IInv, Forget PROVE IInv'
<1>1. stack = <<>> /\ stack' = stack
  BY DEF IInv, Forget
<1> QED  BY <1>1, Aborts DEF IInv, Forget

(***************************************************************************)
(* TypeFromGoType.                                                         *)
(***************************************************************************)

LEMMA DescriptorResult ==
  ASSUME NEW code \in {"ENUM", "PROTO"}, NEW t
  PROVE  /\ ResultOK(TypeFromDescriptor(code, t))
         /\ TypeFromDescriptor(code, t).kind # "panic" => TypeFromDescriptor(code, t).type # NoType
<1>1. NamedType(code, Go[t].fqn) # NoType
  BY Typed
<1>2. Panic.kind = "panic"
  BY DEF Panic, NoResult
<1>3. CASE Kind(t) = "interface"
  <2>1. TypeFromDescriptor(code, t) = Panic
    BY <1>3 DEF TypeFromDescriptor
  <2> QED  BY <2>1, <1>2, Aborts
<1>4. CASE Kind(t) # "interface"
  <2>1. TypeFromDescriptor(code, t) = OkType(NamedType(code, Go[t].fqn))
    BY <1>4 DEF TypeFromDescriptor
  <2> QED  BY <2>1, <1>1, OkTypeResult
<1> QED  BY <1>3, <1>4

LEMMA DirectResult ==
  ASSUME NEW t
  PROVE  ResultOK(inferredDirectly(t)) /\ ResultOK(inferredProtoSlice(t))
<1>1. ResultOK(inferredDirectly(t))
  BY OkTypeResult, ErrResult, Aborts, DescriptorResult DEF inferredDirectly
<1>2. ResultOK(inferredProtoSlice(t))
  <2> DEFINE r == TypeFromDescriptor(IF Implements(t, "Enum") THEN "ENUM" ELSE "PROTO", t)
  <2>1. ResultOK(r)
    BY DescriptorResult
  <2>2. ResultOK(OkType(ArrayOf(r.type)))
    <3>1. ArrayOf(r.type) # NoType
      BY Typed
    <3> QED  BY <3>1, OkTypeResult
  <2> QED  BY <2>1, <2>2 DEF inferredProtoSlice
<1> QED  BY <1>1, <1>2

LEMMA InferDirectlyOK == ASSUME IInv, InferDirectly PROVE IInv'
<1>1. ASSUME NEW r, ResultOK(r), ReturnOrPanic(r), stack # <<>>, Outside PROVE IInv'
  BY <1>1, StepReturn, StepAbort DEF ReturnOrPanic
<1>2. stack # <<>> /\ Outside
  BY DEF InferDirectly, Infers, At, Running, Internal
<1>3. CASE ReturnOrPanic(inferredDirectly(top.v.type))
  BY <1>1, <1>2, <1>3, DirectResult
<1>4. CASE ReturnOrPanic(inferredProtoSlice(Elem(top.v.type)))
  BY <1>1, <1>2, <1>4, DirectResult
<1>5. CASE Return(Err("ErrTypeNotInferable")) \/ Return(Err("ErrUnsupportedType"))
  BY <1>2, <1>5, ErrResult, StepReturn
<1> QED  BY <1>3, <1>4, <1>5 DEF InferDirectly

LEMMA InferInsideOK == ASSUME IInv, InferInside PROVE IInv'
<1>1. stack # <<>> /\ Outside /\ FrameOK(top)
  BY TopFrame DEF InferInside, Infers, At, Running, Internal
<1>2. CASE Become(TypeFrame("typeOf", customBaseGoType(top.v.type)))
  BY <1>1, <1>2, NewFrame, StepBecome
<1>3. CASE Become(TypeFrame("structType", top.v.type))
  BY <1>1, <1>3, NewFrame, StepBecome
<1>4. CASE CallFrom([top EXCEPT !.op = "arrayType"], TypeFrame("structType", Elem(top.v.type)))
  <2>1. FrameOK([top EXCEPT !.op = "arrayType"])
    BY <1>1, MovedFrame DEF Ops, Loops
  <2> QED  BY <1>1, <1>4, <2>1, NewFrame, StepCallFrom
<1> QED  BY <1>2, <1>3, <1>4 DEF InferInside

LEMMA ArrayTypeDoneOK == ASSUME IInv, ArrayTypeDone PROVE IInv'
<1>1. stack # <<>> /\ Outside /\ Return(OkType(ArrayOf(ret.type)))
  BY DEF ArrayTypeDone, Resumed, Internal
<1>2. ResultOK(OkType(ArrayOf(ret.type)))
  BY Typed, OkTypeResult
<1> QED  BY <1>1, <1>2, StepReturn

(***************************************************************************)
(* encodeValue: the encoder hook.                                          *)
(***************************************************************************)

\* An action of a frame in op "value" or "switch": the frame has passed
\* nothing.
LEMMA ValueTop ==
  ASSUME IInv, At("value") \/ At("switch")
  PROVE  /\ stack # <<>> /\ FrameOK(top) /\ top.pos = 0
         /\ \A op \in Ops : FrameOK([top EXCEPT !.op = op])
<1>1. stack # <<>> /\ top.op \in {"value", "switch"}
  BY DEF At, Running
<1>2. FrameOK(top)
  BY <1>1, TopFrame
<1>3. top.pos = 0
  BY <1>1, <1>2 DEF FrameOK
<1> QED  BY <1>1, <1>2, <1>3, MovedFrame

LEMMA MirrorOK ==
  ASSUME IInv, At("value"), Mirror, Outside
  PROVE  IInv'
<1>1. stack # <<>> /\ FrameOK([top EXCEPT !.op = "switch"])
  BY ValueTop DEF Ops
<1> QED  BY <1>1, StepBecome DEF Mirror

LEMMA SkipEncodersOK == ASSUME IInv, SkipEncoders PROVE IInv'
  BY MirrorOK DEF SkipEncoders, Internal

LEMMA ConsultEncoderOK == ASSUME IInv, ConsultEncoder PROVE IInv'
<1>1. At("value") /\ Outside /\ stack # <<>>
  BY DEF ConsultEncoder, At, Running
<1>2. PICK r : /\ \E f \in DOMAIN Answers : r \in Answers[f]
               /\ IF IsFallthrough(r) THEN Mirror ELSE Return(r)
  BY DEF ConsultEncoder
<1>3. CASE IsFallthrough(r)
  BY <1>1, <1>2, <1>3, MirrorOK
<1>4. CASE ~IsFallthrough(r)
  <2>1. ResultOK(r)
    BY <1>2, <1>4, AnswersAssumption DEF ResultOK, IsFallthrough, TypedAnswers
  <2> QED  BY <1>1, <1>2, <1>4, <2>1, StepReturn
<1> QED  BY <1>3, <1>4

LEMMA encodeCustomSliceOK == ASSUME IInv, encodeCustomSlice PROVE IInv'
<1> DEFINE et == goType(Elem(top.v.type))
<1>1. At("value") /\ Outside /\ stack # <<>> /\ FrameOK(top) /\ top.pos = 0
  BY ValueTop DEF encodeCustomSlice, Internal
<1>2. \/ Mirror
      \/ Return(NullArray(et))
      \/ Become([top EXCEPT !.op = "customSlice", !.typ = et, !.pos = 1])
  BY DEF encodeCustomSlice
<1> HIDE DEF et
<1>3. CASE Mirror
  BY <1>1, <1>3, MirrorOK
<1>4. CASE Return(NullArray(et))
  BY <1>1, <1>4, ArrayResult, StepReturn
<1>5. CASE Become([top EXCEPT !.op = "customSlice", !.typ = et, !.pos = 1])
  <2>1. FrameOK([top EXCEPT !.op = "customSlice", !.typ = et, !.pos = 1])
    BY <1>1, LoopFrame DEF Loops
  <2> QED  BY <1>1, <1>5, <2>1, StepBecome
<1> QED  BY <1>2, <1>3, <1>4, <1>5

(***************************************************************************)
(* encodeValue: the type switch.                                           *)
(***************************************************************************)

LEMMA SwitchTop ==
  ASSUME IInv, NEW case, Switches(case)
  PROVE  /\ At("switch") /\ stack # <<>> /\ FrameOK(top) /\ top.pos = 0
         /\ SwitchCase(top.v.type) = case
<1>1. At("switch") /\ SwitchCase(top.v.type) = case
  BY DEF Switches
<1> QED  BY <1>1, ValueTop

LEMMA LeafResult ==
  ASSUME NEW c, NEW v, c # "NONE"
  PROVE  ResultOK(encodeLeaf(c, v))
<1>1. Scalar(c) # NoType
  BY Typed
<1>2. ResultOK(NullOf(Scalar(c)))
  BY <1>1, OkResult DEF NullOf
<1>3. ResultOK(Err("ErrNumericOutOfRange")) /\ ResultOK(Err("ErrMarshal"))
  BY ErrResult
<1>4. \A w : ResultOK(Ok(Scalar(c), w))
  BY <1>1, OkResult
<1> QED  BY <1>2, <1>3, <1>4 DEF encodeLeaf

\* < is well-founded on Nat.
LEMMA Least ==
  ASSUME NEW S, S \subseteq Nat, S # {}
  PROVE  \E x \in S : \A y \in S : x <= y
<1> DEFINE R == {ss \in Nat \X Nat : ss[1] < ss[2]}
<1>1. IsWellFoundedOn(R, Nat)
  BY NatLessThanWellFounded DEF OpToRel
<1>2. PICK x \in S : \A y \in S : ~(<<y, x>> \in R)
  <2> HIDE DEF R
  <2> QED  BY <1>1, WFMin
<1>3. ASSUME NEW y \in S PROVE x <= y
  <2>1. x \in Nat /\ y \in Nat
    OBVIOUS
  <2>2. ~(y < x)
    <3>1. ASSUME y < x PROVE <<y, x>> \in R
      BY <2>1, <3>1
    <3> QED  BY <1>2, <3>1
  <2> QED  BY <2>1, <2>2
<1> QED  BY <1>3

\* The first failing element of a slice exists.
LEMMA FirstFailure ==
  ASSUME NEW bad, bad \subseteq Nat, bad # {}
  PROVE  Min(bad) \in bad
  BY Least DEF Min

LEMMA SliceResult ==
  ASSUME NEW c, NEW v, c # "NONE"
  PROVE  ResultOK(encodeSlice(c, v))
<1> DEFINE rs  == [i \in 1..Len(v.parts) |-> encodeLeaf(c, v.parts[i])]
           bad == {i \in 1..Len(rs) : rs[i].kind # "ok"}
<1>1. ResultOK(NullArray(Scalar(c))) /\ ResultOK(ArrayValueOf(Scalar(c), rs))
  BY ArrayResult
<1>2. ASSUME bad # {} PROVE ResultOK(Wrap(rs[Min(bad)], AtElem(Min(bad) - 1)))
  <2>1. bad \subseteq Nat /\ bad \subseteq DOMAIN rs
    OBVIOUS
  <2>2. Min(bad) \in DOMAIN rs
    <3> HIDE DEF bad
    <3> QED  BY <1>2, <2>1, FirstFailure
  <2>3. \A i \in DOMAIN rs : ResultOK(rs[i])
    BY LeafResult
  <2>4. ResultOK(rs[Min(bad)])
    BY <2>2, <2>3
  <2> QED  BY <2>4, WrapResult
<1> QED  BY <1>1, <1>2 DEF encodeSlice

LEMMA CaseRow ==
  ASSUME NEW t
  PROVE  /\ SwitchCase(t) = "leaf" => RowOf(switchScalars, t) # "NONE"
         /\ SwitchCase(t) = "slice" => ElemRowOf(switchElems, t) # "NONE"
  BY DEF SwitchCase

LEMMA EncodeConcreteOK == ASSUME IInv, EncodeConcrete PROVE IInv'
<1>1. Outside
  BY DEF EncodeConcrete, Internal, Mirrored
<1>2. ASSUME NEW case, Switches(case), NEW r, ResultOK(r), Return(r) PROVE IInv'
  BY <1>1, <1>2, SwitchTop, StepReturn
<1>3. CASE Switches("nil") /\ Return(Err("ErrUntypedNil"))
  BY <1>2, <1>3, ErrResult
<1>4. CASE Switches("leaf") /\ Return(encodeLeaf(RowOf(switchScalars, top.v.type), top.v))
  <2>1. RowOf(switchScalars, top.v.type) # "NONE"
    BY <1>4, SwitchTop, CaseRow
  <2> QED  BY <1>2, <1>4, <2>1, LeafResult
<1>5. CASE Switches("slice") /\ Return(encodeSlice(ElemRowOf(switchElems, top.v.type), top.v))
  <2>1. ElemRowOf(switchElems, top.v.type) # "NONE"
    BY <1>5, SwitchTop, CaseRow
  <2> QED  BY <1>2, <1>5, <2>1, SliceResult
<1>6. CASE Switches("unsupported") /\ Return(Err("ErrUnsupportedType"))
  BY <1>2, <1>6, ErrResult
<1> QED  BY <1>3, <1>4, <1>5, <1>6 DEF EncodeConcrete

LEMMA PassGCVOK == ASSUME IInv, PassGCV PROVE IInv'
<1> DEFINE w == IF top.v.lit = "null" THEN NullWire ELSE LitWire(top.v.lit)
           r == IF top.v.styp = NoType THEN Err("ErrUnsupportedType") ELSE Ok(top.v.styp, w)
<1>1. Outside /\ stack # <<>> /\ Return(r)
  BY SwitchTop DEF PassGCV, Mirrored
<1>2. CASE top.v.styp = NoType
  BY <1>1, <1>2, ErrResult, StepReturn
<1>3. CASE top.v.styp # NoType
  <2>1. Return(Ok(top.v.styp, w))
    BY <1>1, <1>3
  <2> HIDE DEF w
  <2> QED  BY <1>1, <1>3, <2>1, OkResult, StepReturn
<1> QED  BY <1>2, <1>3

LEMMA ReencodeOK ==
  ASSUME IInv, stack # <<>>, Outside, NEW w, Reencode(w)
  PROVE  IInv'
<1>1. FrameOK(Frame("value", w))
  BY NewFrame DEF Ops
<1> QED  BY <1>1, StepBecome DEF Reencode

LEMMA UnwrapNullProtoOK == ASSUME IInv, UnwrapNullProto PROVE IInv'
<1>1. Outside /\ stack # <<>>
  BY SwitchTop DEF UnwrapNullProto, Mirrored
<1>2. Return(Err("ErrInvalidSource")) \/ Reencode(top.v.parts[1])
  BY DEF UnwrapNullProto
<1> QED  BY <1>1, <1>2, ErrResult, StepReturn, ReencodeOK

LEMMA encodeViaEncoderOK == ASSUME IInv, encodeViaEncoder PROVE IInv'
<1> DEFINE waiting == [top EXCEPT !.op = "encoder"]
<1>1. Outside /\ stack # <<>> /\ FrameOK(top)
  BY SwitchTop DEF encodeViaEncoder
<1>2. PICK o : /\ \E t \in DOMAIN EncodeSpanner : o \in EncodeSpanner[t]
               /\ IF o.err # "" THEN Return(Err(o.err))
                  ELSE CallFrom(waiting, Frame("value", o.v))
  BY DEF encodeViaEncoder
<1>3. CASE o.err # ""
  <2>1. QuietMethods => o.err # "ErrFallthrough"
    BY <1>2 DEF QuietMethods
  <2> QED  BY <1>1, <1>2, <1>3, <2>1, ErrResult, StepReturn
<1>4. CASE o.err = ""
  <2>1. FrameOK(waiting) /\ FrameOK(Frame("value", o.v))
    BY <1>1, MovedFrame, NewFrame DEF Ops, Loops
  <2> HIDE DEF waiting
  <2> QED  BY <1>1, <1>2, <1>4, <2>1, StepCallFrom
<1> QED  BY <1>3, <1>4

LEMMA EncoderDoneOK == ASSUME IInv, EncoderDone PROVE IInv'
<1>1. Outside /\ stack # <<>> /\ ResultOK(ret) /\ Return(ret)
  BY DEF EncoderDone, Internal, Resumed, IInv
<1> QED  BY <1>1, StepReturn

LEMMA EncodeProtoOK == ASSUME IInv, EncodeProto PROVE IInv'
<1> DEFINE code == IF Implements(top.v.type, "Enum") THEN "ENUM" ELSE "PROTO"
           typ  == NamedType(code, Go[top.v.type].fqn)
<1>1. Outside /\ stack # <<>>
  BY SwitchTop DEF EncodeProto, Mirrored
<1>2. typ # NoType
  BY Typed
<1>3. \/ Return(NullOf(typ)) \/ Return(Err("ErrMarshal"))
      \/ Return(Ok(typ, LitWire(top.v.lit)))
  BY DEF EncodeProto
<1> HIDE DEF typ
<1>4. ResultOK(NullOf(typ)) /\ ResultOK(Ok(typ, LitWire(top.v.lit)))
  BY <1>2, OkResult DEF NullOf
<1> QED  BY <1>1, <1>3, <1>4, ErrResult, StepReturn

LEMMA convertCustomValueOK == ASSUME IInv, convertCustomValue PROVE IInv'
<1> DEFINE f == Frame("value", Converted(top.v, customBaseGoType(top.v.type)))
<1>1. Outside /\ stack # <<>>
  BY SwitchTop DEF convertCustomValue, Mirrored
<1>2. Abort(Panic) \/ Become([f EXCEPT !.from = top.from])
  BY DEF convertCustomValue
<1>3. FrameOK([f EXCEPT !.from = top.from])
  BY EmptySequence DEF Frame, FrameOK, Ops
<1> QED  BY <1>1, <1>2, <1>3, Aborts, StepAbort, StepBecome

(***************************************************************************)
(* Structs.                                                                *)
(***************************************************************************)

LEMMA EnterStructOK == ASSUME IInv, EnterStruct PROVE IInv'
<1>1. Outside /\ stack # <<>> /\ FrameOK(top) /\ top.pos = 0
  BY SwitchTop DEF EnterStruct, Mirrored
<1>2. FrameOK([top EXCEPT !.op = "struct"])
  BY <1>1, MovedFrame DEF Ops
<1> QED  BY <1>1, <1>2, StepBecome DEF EnterStruct

LEMMA StructBodyOK == ASSUME IInv, StructBody PROVE IInv'
<1>1. /\ Outside /\ stack # <<>> /\ FrameOK(top) /\ top.pos = 0 /\ top.op = "struct"
      /\ "nilStruct" \in Ops /\ "struct" \in Ops /\ "struct" \notin {"value", "switch"} \cup Loops
  BY TopFrame DEF StructBody, Internal, At, Running, Ops, Loops
<1>2. CASE CallFrom([top EXCEPT !.op = "nilStruct"], StructFrame(Zero(Elem(top.v.type))))
  <2>1. FrameOK([top EXCEPT !.op = "nilStruct"]) /\ FrameOK(StructFrame(Zero(Elem(top.v.type))))
    BY <1>1, MovedFrame, NewFrame DEF StructFrame
  <2> QED  BY <1>1, <1>2, <2>1, StepCallFrom
<1>3. CASE Become([top EXCEPT !.pos = 1])
  <2>1. FrameOK([top EXCEPT !.pos = 1])
    BY <1>1, MovedFrame
  <2> QED  BY <1>1, <1>3, <2>1, StepBecome
<1> QED  BY <1>2, <1>3 DEF StructBody

LEMMA StructFieldOK == ASSUME IInv, StructField PROVE IInv'
<1>1. Outside /\ stack # <<>> /\ FrameOK(top) /\ top.pos > 0
  BY TopFrame DEF StructField, Internal, InFields, Running
<1>2. CASE Return(Err("ErrEmbeddedStructField"))
  BY <1>1, <1>2, ErrResult, StepReturn
<1>3. CASE Become(Advanced(top))
  BY <1>1, <1>3, AdvancedFrame, StepBecome
<1>4. CASE CallFrom(top, Frame("value", top.v.parts[top.pos]))
  BY <1>1, <1>4, NewFrame, StepCallFrom DEF Ops
<1>5. CASE CallFrom(top, TypeFrame("typeOf", field.type))
  BY <1>1, <1>5, NewFrame, StepCallFrom
<1> QED  BY <1>2, <1>3, <1>4, <1>5 DEF StructField

LEMMA StructFieldDoneOK == ASSUME IInv, StructFieldDone PROVE IInv'
<1> DEFINE x == [name |-> field.name, type |-> ret.type, wire |-> ret.wire]
<1>1. /\ Outside /\ stack # <<>> /\ FrameOK(top) /\ ResultOK(ret)
      /\ top.op \in {"struct", "structType"}
  BY TopFrame DEF StructFieldDone, Internal, Resumed, IInv
<1>2. CASE ret.kind = "ok"
  <2>1. Become([Advanced(top) EXCEPT !.acc = Append(@, x)])
    BY <1>2 DEF StructFieldDone
  <2>2. TypedAnswers => x.type # NoType
    BY <1>1, <1>2 DEF ResultOK
  <2> HIDE DEF x
  <2>3. FrameOK([Advanced(top) EXCEPT !.acc = Append(@, x)])
    BY <1>1, <2>2, AdvancedFrame
  <2> QED  BY <1>1, <2>1, <2>3, StepBecome
<1>3. CASE ret.kind # "ok"
  <2>1. Return(Wrap(ret, AtField(top.pos - 1))) \/ Return(ret)
    BY <1>3 DEF StructFieldDone
  <2> QED  BY <1>1, <2>1, WrapResult, StepReturn
<1> QED  BY <1>2, <1>3

LEMMA StructDoneOK == ASSUME IInv, StructDone PROVE IInv'
<1>1. Outside /\ stack # <<>>
  BY DEF StructDone, Internal, InFields, Running
<1>2. Return(StructValueOf(top.acc)) \/ Return(OkType(StructTypeOf(top.acc)))
  BY DEF StructDone
<1>3. StructTypeOf(top.acc) # NoType
  BY Typed DEF StructTypeOf
<1>4. ResultOK(StructValueOf(top.acc)) /\ ResultOK(OkType(StructTypeOf(top.acc)))
  BY <1>3, OkResult, OkTypeResult DEF StructValueOf
<1> QED  BY <1>1, <1>2, <1>4, StepReturn

LEMMA NilStructDoneOK == ASSUME IInv, NilStructDone PROVE IInv'
<1>1. Outside /\ stack # <<>> /\ ResultOK(ret) /\ ret.kind = "ok" /\ Return(NullOf(ret.type))
  BY DEF NilStructDone, Internal, Resumed, IInv
<1>2. ResultOK(NullOf(ret.type))
  <2>1. TypedAnswers => ret.type # NoType
    BY <1>1 DEF ResultOK
  <2> QED  BY <2>1, OkResult DEF NullOf
<1> QED  BY <1>1, <1>2, StepReturn

(***************************************************************************)
(* Loops over the elements of a slice.                                     *)
(***************************************************************************)

LEMMA EnterStructArrayOK == ASSUME IInv, EnterStructArray PROVE IInv'
<1> DEFINE z == Zero(StructBehind(Elem(top.v.type)))
<1>1. Outside /\ stack # <<>> /\ FrameOK(top) /\ top.pos = 0
  BY SwitchTop DEF EnterStructArray, Mirrored
<1>2. CallFrom([top EXCEPT !.op = "structArray"], StructFrame(z))
  BY DEF EnterStructArray
<1> HIDE DEF z
<1>3. FrameOK([top EXCEPT !.op = "structArray"]) /\ FrameOK(StructFrame(z))
  BY <1>1, MovedFrame, NewFrame DEF StructFrame, Ops
<1> QED  BY <1>1, <1>2, <1>3, StepCallFrom

LEMMA EnterProtoArrayOK == ASSUME IInv, EnterProtoArray PROVE IInv'
<1> DEFINE et == Elem(top.v.type)
           r  == TypeFromDescriptor(IF Implements(et, "Message") THEN "PROTO" ELSE "ENUM", et)
<1>1. Outside /\ stack # <<>> /\ FrameOK(top) /\ top.pos = 0
  BY SwitchTop DEF EnterProtoArray, Mirrored
<1>2. ResultOK(r) /\ (r.kind # "panic" => r.type # NoType)
  BY DescriptorResult
<1>3. \/ r.kind = "panic" /\ Abort(r)
      \/ Return(NullArray(r.type))
      \/ r.kind # "panic" /\ Become([top EXCEPT !.op = "protoArray", !.typ = r.type, !.pos = 1])
  BY DEF EnterProtoArray
<1> HIDE DEF r
<1>4. CASE Become([top EXCEPT !.op = "protoArray", !.typ = r.type, !.pos = 1]) /\ r.kind # "panic"
  <2>1. FrameOK([top EXCEPT !.op = "protoArray", !.typ = r.type, !.pos = 1])
    BY <1>1, <1>2, <1>4, LoopFrame DEF Loops
  <2> QED  BY <1>1, <1>4, <2>1, StepBecome
<1> QED  BY <1>1, <1>2, <1>3, <1>4, ArrayResult, StepAbort, StepReturn

LEMMA ElemTypeDoneOK == ASSUME IInv, ElemTypeDone PROVE IInv'
<1>1. /\ Outside /\ stack # <<>> /\ FrameOK(top) /\ top.pos = 0 /\ top.op \in Loops
      /\ ResultOK(ret) /\ ret.kind = "ok"
  BY TopFrame DEF ElemTypeDone, Internal, Resumed, IInv
<1>2. CASE Return(NullArray(ret.type))
  BY <1>1, <1>2, ArrayResult, StepReturn
<1>3. CASE Become([top EXCEPT !.typ = ret.type, !.pos = 1])
  <2>1. TypedAnswers => ret.type # NoType
    BY <1>1 DEF ResultOK
  <2>2. FrameOK([top EXCEPT !.typ = ret.type, !.pos = 1])
    BY <1>1, <2>1, LoopFrame
  <2> QED  BY <1>1, <1>3, <2>2, StepBecome
<1> QED  BY <1>2, <1>3 DEF ElemTypeDone

LEMMA PassErrorUpOK == ASSUME IInv, PassErrorUp PROVE IInv'
<1>1. Outside /\ stack # <<>> /\ ResultOK(ret) /\ Return(ret)
  BY DEF PassErrorUp, Internal, Resumed, IInv
<1> QED  BY <1>1, StepReturn

LEMMA ElementOK == ASSUME IInv, Element PROVE IInv'
<1> DEFINE e == top.v.parts[top.pos]
<1>1. Outside /\ stack # <<>> /\ FrameOK(top)
  BY TopFrame DEF Element, Internal, Mirrored, InElems, Running
<1>2. FrameOK(StructFrame(e)) /\ FrameOK(Frame("value", e))
  BY NewFrame DEF StructFrame, Ops
<1>3. CallFrom(top, StructFrame(e)) \/ CallFrom(top, Frame("value", e))
  BY DEF Element
<1> QED  BY <1>1, <1>2, <1>3, StepCallFrom

LEMMA ElementDoneOK == ASSUME IInv, ElementDone PROVE IInv'
<1> DEFINE x == [type |-> ret.type, wire |-> ret.wire]
<1>1. /\ Outside /\ stack # <<>> /\ FrameOK(top) /\ ResultOK(ret) /\ top.pos > 0
  BY TopFrame DEF ElementDone, Internal, Resumed, IInv
<1>2. CASE Return(Wrap(ret, AtElem(top.pos - 1)))
  BY <1>1, <1>2, WrapResult, StepReturn
<1>3. CASE Return(Wrap(Err("ErrTypeMismatch"), AtElem(top.pos - 1)))
  <2>1. ResultOK(Wrap(Err("ErrTypeMismatch"), AtElem(top.pos - 1)))
    BY ErrResult, WrapResult
  <2> QED  BY <1>1, <1>3, <2>1, StepReturn
<1>4. CASE /\ Become([Advanced(top) EXCEPT !.acc = Append(@, x)])
           /\ ret.kind = "ok" /\ ~Mismatch(top, ret)
  <2>1. (TypedAnswers => x.type # NoType) /\ (top.op = "sliceElements" => x.type = top.typ)
    BY <1>1, <1>4 DEF ResultOK, Mismatch
  <2> HIDE DEF x
  <2>2. FrameOK([Advanced(top) EXCEPT !.acc = Append(@, x)])
    BY <1>1, <2>1, AdvancedFrame
  <2> QED  BY <1>1, <1>4, <2>2, StepBecome
<1> QED  BY <1>2, <1>3, <1>4 DEF ElementDone

LEMMA LoopDoneOK == ASSUME IInv, LoopDone PROVE IInv'
<1> DEFINE w == IF top.v.nil THEN NullWire ELSE ListWire(Wires(top.acc))
<1>1. Outside /\ stack # <<>> /\ FrameOK(top) /\ top.pos > 0 /\ Return(LoopResult)
  BY TopFrame DEF LoopDone, Internal, InElems, Running
<1>2. \/ \E t : LoopResult = ArrayValueOf(t, top.acc) \/ LoopResult = NullArray(t)
      \/ top.op = "sliceElements" /\ LoopResult = Ok(top.typ, w)
  BY DEF LoopResult
<1> HIDE DEF w
<1>3. ASSUME top.op = "sliceElements" PROVE ResultOK(Ok(top.typ, w))
  <2>1. TypedAnswers => top.typ # NoType
    BY <1>1, <1>3 DEF FrameOK, Loops
  <2> QED  BY <2>1, OkResult
<1> QED  BY <1>1, <1>2, <1>3, ArrayResult, StepReturn

(***************************************************************************)
(* The theorems.                                                           *)
(***************************************************************************)

LEMMA StepOK == IInv /\ [Next]_vars => IInv'
<1> SUFFICES ASSUME IInv, [Next]_vars PROVE IInv'
  OBVIOUS
<1>1. CASE Caller
  BY <1>1, CallTypeFromGoTypeOK, CallEncodeOK, ForgetOK DEF Caller
<1>2. CASE Options
  BY <1>2, ApplyOptionOK, BeginOK, FinishOK DEF Options
<1>3. CASE Inference
  BY <1>3, InferDirectlyOK, InferInsideOK, ArrayTypeDoneOK DEF Inference
<1>4. CASE Encoding
  BY <1>4, SkipEncodersOK, ConsultEncoderOK, encodeCustomSliceOK, EncodeConcreteOK,
     PassGCVOK, UnwrapNullProtoOK, encodeViaEncoderOK, EncoderDoneOK, EncodeProtoOK,
     convertCustomValueOK, EnterStructOK, StructBodyOK, StructFieldOK,
     StructFieldDoneOK, StructDoneOK, NilStructDoneOK, EnterStructArrayOK,
     EnterProtoArrayOK, ElemTypeDoneOK, PassErrorUpOK, ElementOK, ElementDoneOK,
     LoopDoneOK DEF Encoding
<1>5. CASE UNCHANGED vars
  BY <1>5 DEF vars, IInv
<1> QED  BY <1>1, <1>2, <1>3, <1>4, <1>5 DEF Next, Package

LEMMA Invariance == Spec => []IInv
  BY InitOK, StepOK, PTL DEF Spec

\* The control of the machine is well typed at every step, whatever the
\* caller's code answers.
THEOREM TypeCorrectness == Spec => []TypeOK
<1>1. IInv => TypeOK
  BY DEF IInv, StackOK, FrameOK, ResultOK, TypeOK
<1> QED  BY <1>1, Invariance, PTL

\* The slice helpers collect elements of one type only, whatever the caller's
\* encoders answer (slice.go: each element is verified).
THEOREM Homogeneity == Spec => []HomogeneousElements
<1>1. IInv => HomogeneousElements
  BY DEF IInv, StackOK, FrameOK, HomogeneousElements
<1> QED  BY <1>1, Invariance, PTL

\* No value with a nil Type is handed on, provided that the caller's encoders
\* do not make one: the package itself never does, from no Go value at all.
THEOREM UsableTypes == ASSUME TypedAnswers PROVE Spec => []UsableType
<1>1. IInv => UsableType
  BY DEF IInv, StackOK, FrameOK, ResultOK, UsableType
<1> QED  BY <1>1, Invariance, PTL

\* ErrFallthrough reaches neither the caller nor another function of the
\* package, provided that no EncodeSpanner method returns it: every answer of
\* a registered encoder is taken at the hook.
THEOREM SentinelConsumed == ASSUME QuietMethods PROVE Spec => []FallthroughStaysInside
<1>1. IInv => FallthroughStaysInside
  BY DEF IInv, ResultOK, FallthroughStaysInside
<1> QED  BY <1>1, Invariance, PTL
=============================================================================
