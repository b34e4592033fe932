----------------------------- MODULE ColumnMask -----------------------------
(***************************************************************************)
(* Column masks: options.go's columnMaskConfig.  append makes a nil slice  *)
(* non-nil only by adding a name to it, so the empty sequence stands for   *)
(* the nil slice.                                                          *)
(***************************************************************************)
EXTENDS StructFields, SequencesExt

\* The elements of s at the positions P, in order.
Nth(P, i) == CHOOSE n \in P : Cardinality({m \in P : m < n}) = i - 1
Subsequence(s, P) == [i \in 1..Cardinality(P) |-> s[Nth(P, i)]]

Names(fs) == [i \in 1..Len(fs) |-> fs[i].name]

NoMask == [include |-> <<>>, exclude |-> <<>>]

\* Mutation: the last option of a kind counts.
Replaced(mask, kind, columns) ==
  IF kind = "WithColumns" THEN [mask EXCEPT !.include = columns]
  ELSE [mask EXCEPT !.exclude = columns]

\* An option applied to the configuration.
Accumulated(mask, kind, columns) ==
  IF kind = "WithColumns" THEN [mask EXCEPT !.include = @ \o columns]
  ELSE [mask EXCEPT !.exclude = @ \o columns]

keep(mask, name) ==
  IF mask.include # <<>> THEN Contains(mask.include, name)
  ELSE ~Contains(mask.exclude, name)

\* Mutation: a name of an exclude list may be unknown.
ValidIncludeOnly(mask, fl, requireWritable) ==
  /\ mask.include = <<>> \/ mask.exclude = <<>>
  /\ \A name \in ToSet(mask.include) :
       \E f \in ToSet(fl) : f.name = name /\ ~(requireWritable /\ isReadOnlyField(f))

\* No error: not both kinds, every name listed, and those included writable
\* where that is required.
validate(mask, fl, requireWritable) ==
  /\ mask.include = <<>> \/ mask.exclude = <<>>
  /\ \A name \in ToSet(mask.include) :
       \E f \in ToSet(fl) : f.name = name /\ ~(requireWritable /\ isReadOnlyField(f))
  /\ \A name \in ToSet(mask.exclude) : \E f \in ToSet(fl) : f.name = name
=============================================================================
