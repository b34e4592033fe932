---------------------------- MODULE StructFields ----------------------------
(***************************************************************************)
(* The row-shaped field listing of a struct type: the structfields library *)
(* behind fieldCache, modelled from how struct.go uses and its tests pin   *)
(* it, and reading a listed field of a value.                              *)
(*                                                                         *)
(* Decls[s] is what struct type s declares, in order.  Of each field:      *)
(*   name       the Go name          col   the column its tag names, or "" *)
(*   skip       tagged "-"           readOnly   tagged read-only           *)
(*   exported   its Go name is       type  its Go type                     *)
(*   embeds     the struct type it embeds, or ""                           *)
(*   ptr        it embeds a pointer to that struct                         *)
(***************************************************************************)
EXTENDS SpanTypes

CONSTANT Decls

\* Embedding nests no deeper than the struct types there are: a struct type
\* that embeds itself through a pointer is not in Decls.
MaxEmbedding == Cardinality(DOMAIN Decls)

\* The exported fields of s and of the structs it embeds: the column name,
\* whether a tag gave it, and the index path from s.
flattened[s \in DOMAIN Decls, depth \in 0..MaxEmbedding] ==
  UNION {
    LET f == Decls[s][i] IN
    IF f.skip \/ (~f.exported /\ f.embeds = "") THEN {}
    ELSE IF f.embeds # "" /\ f.col = ""
    THEN IF depth = 0 THEN {}
         ELSE {[g EXCEPT !.index = <<i>> \o @] : g \in flattened[f.embeds, depth - 1]}
    ELSE IF ~f.exported THEN {}
    ELSE {[name |-> IF f.col = "" THEN f.name ELSE f.col, tagged |-> f.col # "",
           index |-> <<i>>, readOnly |-> f.readOnly, type |-> f.type]}
    : i \in 1..Len(Decls[s])}

\* Go's shadowing rules: of the fields of one name the shallowest counts,
\* among those the tagged one, and none when that leaves two.
Shadows(f, g) ==
  \/ Len(f.index) < Len(g.index)
  \/ Len(f.index) = Len(g.index) /\ f.tagged /\ ~g.tagged
Visible(f, fs) == \A g \in fs \ {f} : g.name = f.name => Shadows(f, g)

\* Declaration order: the index paths, lexicographically.
DeclaredBefore(f, g) ==
  \E n \in 1..Len(f.index) :
    /\ n <= Len(g.index) /\ f.index[n] < g.index[n]
    /\ SubSeq(f.index, 1, n - 1) = SubSeq(g.index, 1, n - 1)

\* fieldCache.Fields(s).
listings ==
  [s \in DOMAIN Decls |->
     LET all == flattened[s, MaxEmbedding]
         fs  == {f \in all : Visible(f, all)}
     IN  [k \in 1..Cardinality(fs) |->
            CHOOSE f \in fs : Cardinality({g \in fs : DeclaredBefore(g, f)}) = k - 1]]

\* A listing is finite, and shadowing leaves one field of a name.
ASSUME ListingAssumption ==
  \A s \in DOMAIN Decls :
    /\ Len(listings[s]) \in Nat /\ DOMAIN listings[s] = 1..Len(listings[s])
    /\ \A i, j \in 1..Len(listings[s]) : listings[s][i].name = listings[s][j].name => i = j

isReadOnlyField(f) == f.readOnly

(***************************************************************************)
(* What callers hand to the helpers: an untyped nil, something that is no  *)
(* struct, a nil pointer to a struct, or a struct, by value or pointer.    *)
(* nils are the index paths of the embedded pointers that are nil in it.   *)
(***************************************************************************)
Argument(shape, s, nils) == [shape |-> shape, struct |-> s, nils |-> nils]

\* structFields and structValue: the error for an argument, or "".
structFieldsError(v) == IF v.shape \in {"nil", "other"} THEN "ErrNotStruct" ELSE ""
structValueError(v) ==
  IF v.shape = "nilPtr" THEN "ErrNilStructPointer" ELSE structFieldsError(v)

\* v.FieldByIndex(f.Index) panics on the way through a nil embedded pointer.
BehindNil(v, f) == \E n \in 1..(Len(f.index) - 1) : SubSeq(f.index, 1, n) \in v.nils
=============================================================================
