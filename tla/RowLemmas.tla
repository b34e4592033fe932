----------------------------- MODULE RowLemmas -----------------------------
(***************************************************************************)
(* Facts the proofs about rows share: sequences whose elements are of no   *)
(* particular set, and the elements of a sequence at chosen positions.     *)
(***************************************************************************)
EXTENDS ColumnMask, FiniteSetTheorems, WellFoundedInduction, TLAPS

Members(s) == {s[i] : i \in 1..Len(s)}
IsSeq(s)   == s \in Seq(Members(s))

----------------------------------------------------------------------------
(* Sequences of anything.                                                  *)

LEMMA SeqOfMembers == ASSUME NEW S, NEW s \in Seq(S) PROVE IsSeq(s)
<1>1. Len(s) \in Nat /\ s = [i \in 1..Len(s) |-> s[i]]
  OBVIOUS
<1>2. \A i \in 1..Len(s) : s[i] \in Members(s)
  BY DEF Members
<1> QED BY <1>1, <1>2 DEF IsSeq

LEMMA SameElements ==
  ASSUME NEW S, NEW s \in Seq(S), NEW t \in Seq(S), Len(s) = Len(t),
         \A i \in 1..Len(s) : s[i] = t[i]
  PROVE  s = t
<1>1. s = [i \in 1..Len(s) |-> s[i]] /\ t = [i \in 1..Len(t) |-> t[i]]
  OBVIOUS
<1> QED BY <1>1

LEMMA EqualSeqs ==
  ASSUME NEW s, IsSeq(s), NEW t, IsSeq(t), Len(s) = Len(t), \A i \in 1..Len(s) : s[i] = t[i]
  PROVE  s = t
<1>1. s \in Seq(Members(s)) /\ t \in Seq(Members(t))
  BY DEF IsSeq
<1>2. s = [i \in 1..Len(s) |-> s[i]] /\ t = [i \in 1..Len(t) |-> t[i]]
  BY <1>1
<1> QED BY <1>2

\* An object more at the end changes none before it.
LEMMA Appended ==
  ASSUME NEW s, IsSeq(s), NEW x
  PROVE  /\ IsSeq(Append(s, x)) /\ Len(Append(s, x)) = Len(s) + 1 /\ Len(s) \in Nat
         /\ \A i \in 1..Len(s) : Append(s, x)[i] = s[i]
         /\ Append(s, x)[Len(s) + 1] = x
<1> DEFINE S == Members(s) \cup {x}
<1>1. s \in Seq(Members(s))
  BY DEF IsSeq
<1>2. s \in Seq(S) /\ x \in S
  <2>1. \A i \in 1..Len(s) : s[i] \in S
    BY <1>1
  <2> QED BY <1>1, <2>1
<1> HIDE DEF S
<1>3. Append(s, x) \in Seq(S)
  BY <1>2
<1>4. IsSeq(Append(s, x))
  BY <1>3, SeqOfMembers
<1>5. Len(s) \in Nat /\ Len(Append(s, x)) = Len(s) + 1
  BY <1>2
<1>6. \A i \in 1..Len(s) : Append(s, x)[i] = s[i]
  BY <1>2
<1>7. Append(s, x)[Len(s) + 1] = x
  BY <1>2
<1> QED BY <1>4, <1>5, <1>6, <1>7

\* A sequence of one set is one of any larger set.
LEMMA SeqOfMore == ASSUME NEW s, IsSeq(s), NEW x PROVE s \in Seq(Members(s) \cup {x})
<1> DEFINE S == Members(s) \cup {x}
<1>1. s \in Seq(Members(s))
  BY DEF IsSeq
<1>2. \A i \in 1..Len(s) : s[i] \in S
  BY <1>1
<1> QED BY <1>1, <1>2

----------------------------------------------------------------------------
(* Positions.                                                              *)

LEMMA Positions ==
  ASSUME NEW k \in Nat, NEW P \in SUBSET (1..k)
  PROVE  IsFiniteSet(P) /\ Cardinality(P) \in Nat
<1>1. IsFiniteSet(1..k)
  BY FS_Interval
<1> QED BY <1>1, FS_Subset, FS_CardinalityType

\* The elements at P, and one after them.
LEMMA SelectNone == ASSUME NEW s PROVE Cardinality({}) = 0 /\ Subsequence(s, {}) = <<>>
<1>1. Cardinality({}) = 0
  BY FS_EmptySet
<1> QED BY <1>1 DEF Subsequence

LEMMA SelectedIsSeq ==
  ASSUME NEW s, NEW k \in Nat, NEW P \in SUBSET (1..k)
  PROVE  /\ IsSeq(Subsequence(s, P)) /\ Len(Subsequence(s, P)) = Cardinality(P)
         /\ \A i \in 1..Cardinality(P) : Subsequence(s, P)[i] = s[Nth(P, i)]
<1> DEFINE n == Cardinality(P)
           e(i) == s[Nth(P, i)]
           S == {e(i) : i \in 1..n}
           t == [i \in 1..n |-> e(i)]
<1>1. n \in Nat
  BY Positions
<1>2. t \in [1..n -> S]
  OBVIOUS
<1> HIDE DEF n, S, t
<1>3. t \in Seq(S) /\ Len(t) = n
  BY <1>1, <1>2
<1>4. IsSeq(t)
  BY <1>3, SeqOfMembers
<1> QED BY <1>3, <1>4 DEF t, n, Subsequence

LEMMA RankOf ==
  ASSUME NEW k \in Nat, NEW P \in SUBSET (1..k), NEW n \in P
  PROVE  LET below == {m \in P : m < n} IN Cardinality(below) \in Nat /\ Cardinality(below) < Cardinality(P)
<1> DEFINE below == {m \in P : m < n}
<1>1. below \in SUBSET P /\ below # P /\ IsFiniteSet(P)
  BY Positions
<1> HIDE DEF below
<1>2. IsFiniteSet(below) /\ Cardinality(below) <= Cardinality(P) /\ Cardinality(below) # Cardinality(P)
  BY <1>1, FS_Subset
<1>3. Cardinality(below) \in Nat /\ Cardinality(P) \in Nat
  BY <1>1, <1>2, FS_CardinalityType
<1> QED BY <1>2, <1>3 DEF below

LEMMA SelectNext ==
  ASSUME NEW s, NEW k \in Nat, NEW P \in SUBSET (1..k)
  PROVE  /\ Cardinality(P \cup {k + 1}) = Cardinality(P) + 1
         /\ Subsequence(s, P \cup {k + 1}) = Append(Subsequence(s, P), s[k + 1])
<1> DEFINE Q == P \cup {k + 1}
           n == Cardinality(P)
<1>1. n \in Nat /\ IsFiniteSet(P) /\ k + 1 \notin P /\ k + 1 \in Nat
  <2>1. \A m \in P : m \in Nat /\ m < k + 1
    OBVIOUS
  <2>2. IsFiniteSet(P) /\ n \in Nat
    BY Positions
  <2> QED BY <2>1, <2>2
<1>2. Cardinality(Q) = n + 1
  BY <1>1, FS_AddElement
<1>3. Q \in SUBSET (1..(k + 1))
  OBVIOUS
\* The positions in P keep their ranks, below that of k + 1.
<1>4. ASSUME NEW m \in P PROVE {x \in Q : x < m} = {x \in P : x < m}
  OBVIOUS
<1>5. {x \in Q : x < k + 1} = P
  <2>1. \A x \in P : x \in Nat /\ x < k + 1
    OBVIOUS
  <2>2. ~(k + 1 < k + 1)
    OBVIOUS
  <2> QED BY <2>1, <2>2
<1>6. ASSUME NEW i \in 1..n PROVE Nth(Q, i) = Nth(P, i)
  <2> DEFINE R(S, m) == Cardinality({x \in S : x < m}) = i - 1
  <2>1. ~R(Q, k + 1)
    <3>1. Cardinality({x \in Q : x < k + 1}) = n
      BY <1>5
    <3>2. n # i - 1
      <4> HIDE DEF n
      <4> QED BY <1>1
    <3> QED BY <3>1, <3>2
  <2>2. \A m : (m \in Q /\ R(Q, m)) <=> (m \in P /\ R(P, m))
    <3> SUFFICES ASSUME NEW m PROVE (m \in Q /\ R(Q, m)) <=> (m \in P /\ R(P, m))
      OBVIOUS
    <3>1. CASE m = k + 1
      <4>1. m \notin P
        BY <1>1, <3>1
      <4> QED BY <2>1, <3>1, <4>1
    <3>2. CASE m # k + 1
      <4>1. m \in Q <=> m \in P
        BY <3>2
      <4>2. m \in P => (R(Q, m) <=> R(P, m))
        BY <1>4
      <4> QED BY <4>1, <4>2
    <3> QED BY <3>1, <3>2
  <2>3. (CHOOSE m : m \in Q /\ R(Q, m)) = (CHOOSE m : m \in P /\ R(P, m))
    <3> DEFINE A(m) == m \in Q /\ R(Q, m)
               B(m) == m \in P /\ R(P, m)
    <3>1. \A m : A(m) <=> B(m)
      BY <2>2
    <3> HIDE DEF A, B
    <3>2. (CHOOSE m : A(m)) = (CHOOSE m : B(m))
      BY <3>1
    <3> QED BY <3>2, Zenon DEF A, B
  <2>4. Nth(Q, i) = CHOOSE m : m \in Q /\ R(Q, m)
    <3> HIDE DEF Q
    <3> QED BY DEF Nth
  <2>5. Nth(P, i) = CHOOSE m : m \in P /\ R(P, m)
    BY DEF Nth
  <2> HIDE DEF R, Q
  <2> QED BY <2>3, <2>4, <2>5
<1>7. Nth(Q, n + 1) = k + 1
  <2> DEFINE R(m) == Cardinality({x \in Q : x < m}) = n
  <2>1. R(k + 1)
    BY <1>5
  <2>2. ASSUME NEW m \in P PROVE ~R(m)
    <3>1. Cardinality({x \in P : x < m}) < n /\ Cardinality({x \in P : x < m}) \in Nat
      BY RankOf
    <3>2. {x \in Q : x < m} = {x \in P : x < m}
      BY <1>4
    <3> HIDE DEF n
    <3>3. Cardinality({x \in P : x < m}) # n
      BY <1>1, <3>1
    <3> QED BY <3>2, <3>3
  <2>3. \A m \in Q : R(m) => m = k + 1
    BY <2>2
  <2> HIDE DEF R
  <2>4. (CHOOSE m \in Q : R(m)) = k + 1
    BY <2>1, <2>3
  <2>5. Nth(Q, n + 1) = CHOOSE m \in Q : R(m)
    <3>1. (n + 1) - 1 = n
      <4> HIDE DEF n
      <4> QED BY <1>1
    <3> QED BY <3>1 DEF Nth, R
  <2> QED BY <2>4, <2>5
<1> DEFINE a == Subsequence(s, P)
           b == Subsequence(s, Q)
<1>8. IsSeq(a) /\ Len(a) = n /\ \A i \in 1..n : a[i] = s[Nth(P, i)]
  BY SelectedIsSeq
<1>9. IsSeq(b) /\ Len(b) = n + 1 /\ \A i \in 1..(n + 1) : b[i] = s[Nth(Q, i)]
  <2> HIDE DEF Q
  <2>1. k + 1 \in Nat
    OBVIOUS
  <2>2. /\ IsSeq(b) /\ Len(b) = Cardinality(Q)
        /\ \A i \in 1..Cardinality(Q) : b[i] = s[Nth(Q, i)]
    BY <2>1, <1>3, SelectedIsSeq
  <2> HIDE DEF b
  <2> QED BY <1>2, <2>2
<1> DEFINE c == Append(a, s[k + 1])
<1> HIDE DEF a, b
<1>10. IsSeq(c) /\ Len(c) = n + 1 /\ c[n + 1] = s[k + 1] /\ \A i \in 1..n : c[i] = a[i]
  BY <1>8, Appended
<1> HIDE DEF c, n, Q
<1>11. \A i \in 1..(n + 1) : b[i] = c[i]
  <2>1. ASSUME NEW i \in 1..n PROVE b[i] = c[i]
    BY <1>1, <1>6, <1>8, <1>9, <1>10
  <2>2. b[n + 1] = c[n + 1]
    BY <1>1, <1>7, <1>9, <1>10
  <2> QED BY <1>1, <2>1, <2>2
<1>12. b = c
  BY <1>9, <1>10, <1>11, EqualSeqs
<1> QED BY <1>2, <1>12 DEF a, b, c, n, Q

----------------------------------------------------------------------------
(* The first of a set of numbers: < is well-founded on Nat.                *)

LEMMA FirstOf ==
  ASSUME NEW S, S \subseteq Nat, S # {}
  PROVE  Min(S) \in S /\ \A y \in S : Min(S) <= y
<1> DEFINE R == {p \in Nat \X Nat : p[1] < p[2]}
<1>1. IsWellFoundedOn(R, Nat)
  BY NatLessThanWellFounded DEF OpToRel
<1>2. PICK x \in S : \A y \in S : ~(<<y, x>> \in R)
  <2> HIDE DEF R
  <2> QED BY <1>1, WFMin
<1>3. ASSUME NEW y \in S PROVE x <= y
  <2>1. x \in Nat /\ y \in Nat
    OBVIOUS
  <2>2. ~(y < x)
    <3>1. ASSUME y < x PROVE <<y, x>> \in R
      BY <2>1, <3>1
    <3> QED BY <1>2, <3>1
  <2> QED BY <2>1, <2>2
<1> QED BY <1>3 DEF Min
=============================================================================
