--------------------------- MODULE SequenceLemmas ---------------------------
(***************************************************************************)
(* Facts about sequences that the proofs of several components need: the    *)
(* least position of an entry, taking an entry out of a waiter list, a      *)
(* table or a queue, and how many entries of a kind a sequence has.         *)
(***************************************************************************)
EXTENDS SequencesExt, SequenceTheorems, FiniteSetTheorems, TLAPS

\* A set of naturals that is not empty has a least element.
LEMMA LeastElement ==
  ASSUME NEW T, T \subseteq Nat, T # {}
  PROVE  \E m \in T : \A n \in T : m <= n
<1> DEFINE R == OpToRel(<, Nat)
<1>1. IsWellFoundedOn(R, Nat)
  BY NatLessThanWellFounded
<1>2. \A x, y \in Nat : x < y => <<x, y>> \in R
  BY DEF OpToRel
<1> HIDE DEF R
<1>3. PICK x \in T : \A y \in T : ~ (<<y, x>> \in R)
  BY <1>1, WFMin
<1>4. \A n \in T : ~ (n < x)
  BY <1>2, <1>3
<1>5. \A n \in T : x <= n
  BY <1>4
<1> QED
  BY <1>5

-----------------------------------------------------------------------------
(* Taking an entry out                                                      *)

\* What precedes position i stays, what follows moves up by one.
LEMMA RemoveAtProperties ==
  ASSUME NEW S, NEW s \in Seq(S), NEW i \in 1 .. Len(s)
  PROVE  /\ RemoveAt(s, i) \in Seq(S)
         /\ Len(RemoveAt(s, i)) = Len(s) - 1
         /\ \A j \in 1 .. Len(s) - 1 :
              RemoveAt(s, i)[j] = s[IF j < i THEN j ELSE j + 1]
<1> DEFINE u == SubSeq(s, 1, i - 1)
           v == SubSeq(s, i + 1, Len(s))
<1>1. u \in Seq(S) /\ Len(u) = i - 1 /\ \A j \in 1 .. i - 1 : u[j] = s[j]
  OBVIOUS
<1>2. v \in Seq(S) /\ Len(v) = Len(s) - i /\ \A j \in 1 .. Len(s) - i : v[j] = s[i + j]
  OBVIOUS
<1>3. RemoveAt(s, i) = u \o v
  BY DEF RemoveAt
<1>4. Len(s) \in Nat /\ i \in Nat /\ 1 <= i /\ i <= Len(s)
  OBVIOUS
<1> HIDE DEF u, v
<1>5. u \o v \in Seq(S) /\ Len(u \o v) = Len(s) - 1
  <2>1. u \o v \in Seq(S) /\ Len(u \o v) = Len(u) + Len(v)
    BY <1>1, <1>2, ConcatProperties
  <2> QED
    BY <1>1, <1>2, <1>4, <2>1
<1>6. ASSUME NEW j \in 1 .. Len(s) - 1
      PROVE  (u \o v)[j] = s[IF j < i THEN j ELSE j + 1]
  <2>1. j \in Nat /\ 1 <= j /\ j <= Len(s) - 1
    BY <1>4
  <2>2. CASE j < i
    BY <1>1, <1>2, <1>4, <2>1, <2>2
  <2>3. CASE ~ (j < i)
    <3>1. j - (i - 1) \in 1 .. Len(s) - i /\ i + (j - (i - 1)) = j + 1
      BY <1>4, <2>1, <2>3
    <3>2. (u \o v)[j] = v[j - (i - 1)]
      BY <1>1, <1>2, <1>4, <2>1, <2>3
    <3> QED
      BY <1>2, <2>3, <3>1, <3>2
  <2> QED
    BY <2>2, <2>3
<1> QED
  BY <1>3, <1>5, <1>6

\* RemoveFirst takes one entry e out, if there is one.
LEMMA RemoveFirstCases ==
  ASSUME NEW S, NEW s \in Seq(S), NEW e
  PROVE  \/ RemoveFirst(s, e) = s /\ \A i \in 1 .. Len(s) : s[i] # e
         \/ \E i \in 1 .. Len(s) : s[i] = e /\ RemoveFirst(s, e) = RemoveAt(s, i)
<1>1. CASE \A i \in 1 .. Len(s) : s[i] # e
  BY <1>1 DEF RemoveFirst
<1>2. CASE \E i \in 1 .. Len(s) : s[i] = e
  <2> DEFINE at == {i \in 1 .. Len(s) : s[i] = e}
  <2>1. at # {} /\ at \subseteq Nat
    BY <1>2
  <2>2. SelectInSeq(s, LAMBDA v : v = e) = Min(at)
    BY <2>1 DEF SelectInSeq
  <2>3. Min(at) \in at
    BY <2>1, LeastElement DEF Min
  <2> QED
    BY <1>2, <2>2, <2>3 DEF RemoveFirst
<1> QED
  BY <1>1, <1>2

\* Where no entry is listed twice, RemoveFirst leaves the entries other than e, and
\* none of them twice.
LEMMA RemoveFirstUnique ==
  ASSUME NEW S, NEW s \in Seq(S), NEW e, NEW r, r = RemoveFirst(s, e),
         \A i, j \in 1 .. Len(s) : s[i] = s[j] => i = j
  PROVE  /\ r \in Seq(S)
         /\ \A i \in 1 .. Len(r) : r[i] # e /\ \E j \in 1 .. Len(s) : r[i] = s[j]
         /\ \A i, j \in 1 .. Len(r) : r[i] = r[j] => i = j
         /\ \A j \in 1 .. Len(s) : s[j] # e => \E i \in 1 .. Len(r) : r[i] = s[j]
<1>1. CASE r = s /\ \A i \in 1 .. Len(s) : s[i] # e
  BY <1>1
<1>2. ASSUME NEW n \in 1 .. Len(s), s[n] = e, r = RemoveAt(s, n)
      PROVE  /\ r \in Seq(S)
             /\ \A i \in 1 .. Len(r) : r[i] # e /\ \E j \in 1 .. Len(s) : r[i] = s[j]
             /\ \A i, j \in 1 .. Len(r) : r[i] = r[j] => i = j
             /\ \A j \in 1 .. Len(s) : s[j] # e => \E i \in 1 .. Len(r) : r[i] = s[j]
  <2> DEFINE at(i) == IF i < n THEN i ELSE i + 1
  <2>1. /\ r \in Seq(S) /\ Len(r) = Len(s) - 1
        /\ \A i \in 1 .. Len(s) - 1 : r[i] = s[at(i)]
    BY <1>2, RemoveAtProperties
  <2>2. Len(s) \in Nat /\ n \in Nat /\ n <= Len(s) /\ 1 <= n
    OBVIOUS
  <2>3. \A i \in 1 .. Len(s) - 1 : at(i) \in 1 .. Len(s) /\ at(i) # n
    BY <2>2
  <2>4. \A i, j \in 1 .. Len(s) - 1 : at(i) = at(j) => i = j
    BY <2>2
  <2>5. ASSUME NEW j \in 1 .. Len(s), s[j] # e
        PROVE  \E i \in 1 .. Len(s) - 1 : at(i) = j
    <3>1. j # n
      BY <1>2, <2>5
    <3>2. CASE j < n
      <4>1. j \in 1 .. Len(s) - 1 /\ at(j) = j
        BY <2>2, <3>2
      <4> QED
        BY <4>1
    <3>3. CASE ~ (j < n)
      <4>1. j - 1 \in 1 .. Len(s) - 1 /\ at(j - 1) = j
        BY <2>2, <3>1, <3>3
      <4> QED
        BY <4>1
    <3> QED
      BY <3>2, <3>3
  <2> HIDE DEF at
  <2>6. \A i \in 1 .. Len(r) : r[i] # e
    BY <1>2, <2>1, <2>3
  <2>7. \A i, j \in 1 .. Len(r) : r[i] = r[j] => i = j
    BY <2>1, <2>3, <2>4, SMTT(30)
  <2>8. \A j \in 1 .. Len(s) : s[j] # e => \E i \in 1 .. Len(r) : r[i] = s[j]
    BY <2>1, <2>5, ZenonT(30)
  <2> QED
    BY <2>1, <2>3, <2>6, <2>7, <2>8
<1>3. \/ r = s /\ \A i \in 1 .. Len(s) : s[i] # e
      \/ \E n \in 1 .. Len(s) : s[n] = e /\ r = RemoveAt(s, n)
  BY RemoveFirstCases
<1> QED
  BY <1>1, <1>2, <1>3

-----------------------------------------------------------------------------
(* Counting entries                                                         *)

\* The positions of the entries of s that are in S.
Positions(s, S) == {i \in 1 .. Len(s) : s[i] \in S}

\* A sequence has finitely many such positions.
LEMMA PositionsFinite ==
  ASSUME NEW T, NEW s \in Seq(T), NEW S
  PROVE  IsFiniteSet(Positions(s, S)) /\ Cardinality(Positions(s, S)) \in Nat
<1>1. Positions(s, S) \in SUBSET Nat /\ Len(s) \in Nat /\ \A i \in Positions(s, S) : i <= Len(s)
  BY DEF Positions
<1> QED
  BY <1>1, FS_BoundedSetOfNaturals, FS_CardinalityType

\* One more entry at the end.
LEMMA CountAppend ==
  ASSUME NEW T, NEW s \in Seq(T), NEW x \in T, NEW S
  PROVE  /\ x \in S =>
              Cardinality(Positions(Append(s, x), S)) = Cardinality(Positions(s, S)) + 1
         /\ x \notin S => Positions(Append(s, x), S) = Positions(s, S)
<1>1. Len(s) \in Nat /\ Len(s) + 1 \notin Positions(s, S)
  BY DEF Positions
<1>2. CASE x \in S
  <2>1. Positions(Append(s, x), S) = Positions(s, S) \cup {Len(s) + 1}
    BY <1>2 DEF Positions
  <2> QED
    BY <1>1, <1>2, <2>1, PositionsFinite, FS_AddElement
<1>3. CASE x \notin S
  <2>1. Positions(Append(s, x), S) = Positions(s, S)
    BY <1>3 DEF Positions
  <2> QED
    BY <1>3, <2>1
<1> QED
  BY <1>2, <1>3

\* One entry less.
LEMMA CountRemoveAt ==
  ASSUME NEW T, NEW s \in Seq(T), NEW i \in 1 .. Len(s), NEW S
  PROVE  /\ s[i] \in S =>
              Cardinality(Positions(RemoveAt(s, i), S)) = Cardinality(Positions(s, S)) - 1
         /\ s[i] \notin S =>
              Cardinality(Positions(RemoveAt(s, i), S)) = Cardinality(Positions(s, S))
<1> DEFINE A == Positions(RemoveAt(s, i), S)
           B == Positions(s, S) \ {i}
           f == [j \in A |-> IF j < i THEN j ELSE j + 1]
<1>1. /\ RemoveAt(s, i) \in Seq(T) /\ Len(RemoveAt(s, i)) = Len(s) - 1
      /\ \A j \in 1 .. Len(s) - 1 : RemoveAt(s, i)[j] = s[IF j < i THEN j ELSE j + 1]
  BY RemoveAtProperties
<1>2. Len(s) \in Nat /\ i \in Nat /\ 1 <= i /\ i <= Len(s)
  OBVIOUS
<1>3. A = {j \in 1 .. Len(s) - 1 : s[IF j < i THEN j ELSE j + 1] \in S}
  BY <1>1 DEF Positions
<1>4. \A j \in A : f[j] \in B
  BY <1>2, <1>3 DEF Positions
<1>5. \A j, k \in A : f[j] = f[k] => j = k
  BY <1>2, <1>3
<1>6. ASSUME NEW b \in B PROVE \E j \in A : f[j] = b
  <2>1. b \in Nat /\ 1 <= b /\ b <= Len(s) /\ b # i /\ s[b] \in S
    BY <1>2 DEF Positions
  <2>2. CASE b < i
    <3>1. b \in A
      BY <1>2, <1>3, <2>1, <2>2
    <3> QED
      BY <3>1, <2>2
  <2>3. CASE ~ (b < i)
    <3>1. b - 1 \in A
      BY <1>2, <1>3, <2>1, <2>3
    <3>2. ~ (b - 1 < i)
      BY <1>2, <2>1, <2>3
    <3> QED
      BY <3>1, <3>2, <2>1
  <2> QED
    BY <2>2, <2>3
<1>7. IsFiniteSet(A) /\ IsFiniteSet(Positions(s, S)) /\ Cardinality(Positions(s, S)) \in Nat
  BY <1>1, PositionsFinite
<1>8. ExistsBijection(A, B)
  <2>1. f \in [A -> B]
    BY <1>4
  <2> HIDE DEF f, A, B
  <2> QED
    BY <1>5, <1>6, <2>1 DEF ExistsBijection, Bijection, Injection, Surjection, IsInjective
<1>9. Cardinality(B) = Cardinality(A)
  BY <1>7, <1>8, FS_Bijection
<1>10. i \in Positions(s, S) <=> s[i] \in S
  BY DEF Positions
<1>11. /\ s[i] \in S => Cardinality(B) = Cardinality(Positions(s, S)) - 1
       /\ s[i] \notin S => Cardinality(B) = Cardinality(Positions(s, S))
  <2> DEFINE P == Positions(s, S)
  <2>1. Cardinality(P \ {i}) = IF i \in P THEN Cardinality(P) - 1 ELSE Cardinality(P)
    BY <1>7, FS_RemoveElement
  <2> QED
    BY <1>7, <1>10, <2>1
<1> QED
  BY <1>9, <1>11

\* The first entry leaves,
LEMMA CountTail ==
  ASSUME NEW T, NEW s \in Seq(T), s # << >>, NEW S
  PROVE  /\ Head(s) \in S =>
              Cardinality(Positions(Tail(s), S)) = Cardinality(Positions(s, S)) - 1
         /\ Head(s) \notin S =>
              Cardinality(Positions(Tail(s), S)) = Cardinality(Positions(s, S))
<1>1. 1 \in 1 .. Len(s) /\ Head(s) = s[1] /\ Tail(s) \in Seq(T) /\ Len(Tail(s)) = Len(s) - 1
  OBVIOUS
<1>2. \A j \in 1 .. Len(s) - 1 : Tail(s)[j] = s[j + 1]
  BY SMTT(30)
<1>3. /\ RemoveAt(s, 1) \in Seq(T) /\ Len(RemoveAt(s, 1)) = Len(s) - 1
      /\ \A j \in 1 .. Len(s) - 1 : RemoveAt(s, 1)[j] = s[IF j < 1 THEN j ELSE j + 1]
  BY <1>1, RemoveAtProperties
<1>4. \A j \in 1 .. Len(s) - 1 : RemoveAt(s, 1)[j] = s[j + 1]
  BY <1>1, <1>3
<1>5. Tail(s) = RemoveAt(s, 1)
  BY <1>1, <1>2, <1>3, <1>4, SeqEqual
<1>6. /\ s[1] \in S =>
           Cardinality(Positions(RemoveAt(s, 1), S)) = Cardinality(Positions(s, S)) - 1
      /\ s[1] \notin S =>
           Cardinality(Positions(RemoveAt(s, 1), S)) = Cardinality(Positions(s, S))
  BY <1>1, CountRemoveAt
<1> QED
  BY <1>1, <1>5, <1>6

\* or a new first entry is put before the others.
LEMMA CountCons ==
  ASSUME NEW T, NEW s \in Seq(T), NEW x \in T, NEW S
  PROVE  /\ x \in S =>
              Cardinality(Positions(<<x>> \o s, S)) = Cardinality(Positions(s, S)) + 1
         /\ x \notin S =>
              Cardinality(Positions(<<x>> \o s, S)) = Cardinality(Positions(s, S))
<1> DEFINE t == <<x>> \o s
<1>1. t \in Seq(T) /\ t # << >> /\ Head(t) = x /\ Len(t) = Len(s) + 1
  OBVIOUS
<1>2. Tail(t) = s
  <2>1. Tail(t) \in Seq(T) /\ Len(Tail(t)) = Len(s)
    BY <1>1
  <2>2. \A j \in 1 .. Len(s) : Tail(t)[j] = s[j]
    OBVIOUS
  <2> QED
    BY <2>1, <2>2, SeqEqual
<1> HIDE DEF t
<1>3. /\ x \in S => Cardinality(Positions(s, S)) = Cardinality(Positions(t, S)) - 1
      /\ x \notin S => Cardinality(Positions(s, S)) = Cardinality(Positions(t, S))
  BY <1>1, <1>2, CountTail
<1>4. Cardinality(Positions(t, S)) \in Nat
  BY <1>1, PositionsFinite
<1>5. /\ x \in S => Cardinality(Positions(t, S)) = Cardinality(Positions(s, S)) + 1
      /\ x \notin S => Cardinality(Positions(t, S)) = Cardinality(Positions(s, S))
  BY <1>3, <1>4
<1> QED
  BY <1>5 DEF t

\* Entries that are not in S do not count.
LEMMA CountConcat ==
  ASSUME NEW T, NEW s \in Seq(T), NEW t \in Seq(T), NEW S,
         \A i \in 1 .. Len(t) : t[i] \notin S
  PROVE  Positions(s \o t, S) = Positions(s, S)
<1>1. Len(s) \in Nat /\ Len(t) \in Nat /\ Len(s \o t) = Len(s) + Len(t)
  BY ConcatProperties
<1>2. ASSUME NEW i \in 1 .. Len(s \o t)
      PROVE  (s \o t)[i] \in S <=> i \in 1 .. Len(s) /\ s[i] \in S
  <2>1. CASE i <= Len(s)
    BY <1>1, <2>1
  <2>2. CASE ~ (i <= Len(s))
    <3>1. i - Len(s) \in 1 .. Len(t)
      BY <1>1, <2>2
    <3>2. (s \o t)[i] = t[i - Len(s)]
      BY <1>1, <2>2
    <3> QED
      BY <1>1, <2>2, <3>1, <3>2
  <2> QED
    BY <2>1, <2>2
<1>3. \A i \in 1 .. Len(s) : i \in 1 .. Len(s \o t)
  BY <1>1
<1> QED
  BY <1>2, <1>3 DEF Positions
=============================================================================
