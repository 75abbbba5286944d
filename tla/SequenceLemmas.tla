-------------------------- MODULE SequenceLemmas --------------------------
(***************************************************************************)
(* How many elements of a queue are of a kind, and which elements it has,  *)
(* after the operations that the event loops apply to their queues; and    *)
(* two facts about natural numbers.                                        *)
(***************************************************************************)
EXTENDS Integers, Sequences, FiniteSets, SequencesExt, SequenceTheorems,
        FiniteSetTheorems, WellFoundedInduction, TLAPS

(* The places of s that hold an element of P, and how many there are. *)
Places(s, P) == {i \in DOMAIN s : s[i] \in P}
Num(s, P) == Cardinality(Places(s, P))

One(x, P) == IF x \in P THEN 1 ELSE 0

(* A shifted set of places has as many. *)
LEMMA Shifted ==
  ASSUME NEW A, IsFiniteSet(A), A \subseteq Int, NEW d \in Int
  PROVE  /\ IsFiniteSet({i + d : i \in A})
         /\ Cardinality({i + d : i \in A}) = Cardinality(A)
<1> DEFINE B == {i + d : i \in A}
           f == [i \in A |-> i + d]
<1>1. f \in [A -> B] /\ (\A x, y \in A : f[x] = f[y] => x = y)
  OBVIOUS
<1>2. \A b \in B : \E x \in A : f[x] = b
  OBVIOUS
<1>3. f \in Bijection(A, B)
  BY <1>1, <1>2 DEF Bijection, Injection, Surjection, IsInjective
<1> HIDE DEF f, B
<1>4. ExistsBijection(A, B)
  BY <1>3 DEF ExistsBijection
<1>5. IsFiniteSet(B) /\ Cardinality(B) = Cardinality(A)
  BY <1>4, FS_Bijection
<1> QED
  BY <1>5 DEF B

(* A number is a natural number, and 0 when no element is in P. *)
LEMMA NumType ==
  ASSUME NEW S, NEW s \in Seq(S), NEW P
  PROVE  /\ IsFiniteSet(Places(s, P))
         /\ Num(s, P) \in Nat
         /\ Num(s, P) = 0 <=> \A x \in ToSet(s) : x \notin P
<1>1. DOMAIN s = 1..Len(s) /\ Len(s) \in Nat
  OBVIOUS
<1>2. IsFiniteSet(DOMAIN s)
  BY <1>1, FS_Interval
<1>3. IsFiniteSet(Places(s, P))
  BY <1>2, FS_Subset DEF Places
<1>4. Num(s, P) \in Nat
  BY <1>3, FS_CardinalityType DEF Num
<1>5. Num(s, P) = 0 <=> Places(s, P) = {}
  BY <1>3, FS_EmptySet DEF Num
<1> QED
  BY <1>3, <1>4, <1>5 DEF ToSet, Places

(* The empty sequence has no elements. *)
LEMMA NumEmpty == \A P : Num(<<>>, P) = 0 /\ ToSet(<<>>) = {}
<1> SUFFICES ASSUME NEW P PROVE Num(<<>>, P) = 0 /\ ToSet(<<>>) = {}
  OBVIOUS
<1>1. <<>> \in Seq({})
  OBVIOUS
<1>2. ToSet(<<>>) = {}
  BY DEF ToSet
<1> QED
  BY <1>1, <1>2, NumType

(* Concatenation adds up. *)
LEMMA NumConcat ==
  ASSUME NEW S, NEW s \in Seq(S), NEW t \in Seq(S), NEW P
  PROVE  /\ s \o t \in Seq(S)
         /\ Num(s \o t, P) = Num(s, P) + Num(t, P)
         /\ ToSet(s \o t) = ToSet(s) \cup ToSet(t)
<1> DEFINE A == Places(s, P)
           B == Places(t, P)
           C == {i + Len(s) : i \in B}
           D == Places(s \o t, P)
<1>1. /\ DOMAIN s = 1..Len(s) /\ DOMAIN t = 1..Len(t) /\ Len(s) \in Nat /\ Len(t) \in Nat
      /\ s \o t \in Seq(S) /\ DOMAIN (s \o t) = 1..(Len(s) + Len(t))
      /\ \A i \in 1..Len(s) : (s \o t)[i] = s[i]
      /\ \A i \in 1..Len(t) : (s \o t)[i + Len(s)] = t[i]
  OBVIOUS
<1>2. ASSUME NEW i \in 1..(Len(s) + Len(t)), i \notin 1..Len(s)
      PROVE  i - Len(s) \in 1..Len(t) /\ i = (i - Len(s)) + Len(s)
  BY <1>1, <1>2
<1>3. A \cup C = D
  <2>1. A \subseteq D
    BY <1>1 DEF Places
  <2>2. C \subseteq D
    BY <1>1 DEF Places
  <2>3. ASSUME NEW i \in D, i \notin A PROVE i \in C
    BY <1>1, <1>2, <2>3 DEF Places
  <2> QED
    BY <2>1, <2>2, <2>3
<1>4. A \cap C = {}
  BY <1>1 DEF Places
<1>5. B \subseteq Int
  BY <1>1 DEF Places
<1>6. IsFiniteSet(A) /\ IsFiniteSet(B)
  BY NumType
<1> HIDE DEF A, B, D
<1>9. Cardinality(A) \in Nat /\ Cardinality(B) \in Nat
  BY <1>6, FS_CardinalityType
<1>10. IsFiniteSet(C) /\ Cardinality(C) = Cardinality(B)
  <2>1. Len(s) \in Int
    BY <1>1
  <2> QED
    BY <1>5, <1>6, <2>1, Shifted
<1> HIDE DEF C
<1>7. Cardinality(D) = Cardinality(A) + Cardinality(B)
  <2>1. Cardinality(D) = Cardinality(A) + Cardinality(C) - Cardinality(A \cap C)
    BY <1>3, <1>6, <1>10, FS_Union
  <2>2. Cardinality(A \cap C) = 0
    BY <1>4, FS_EmptySet
  <2> QED
    BY <1>9, <1>10, <2>1, <2>2
<1>8. ToSet(s \o t) = ToSet(s) \cup ToSet(t)
  <2>1. \A i \in DOMAIN (s \o t) : (s \o t)[i] \in ToSet(s) \cup ToSet(t)
    <3> SUFFICES ASSUME NEW i \in 1..(Len(s) + Len(t))
                 PROVE  (s \o t)[i] \in ToSet(s) \cup ToSet(t)
      BY <1>1
    <3>1. CASE i \in 1..Len(s)
      BY <1>1, <3>1 DEF ToSet
    <3>2. CASE i \notin 1..Len(s)
      BY <1>1, <1>2, <3>2 DEF ToSet
    <3> QED
      BY <3>1, <3>2
  <2>2. \A i \in 1..Len(s) : s[i] \in ToSet(s \o t)
    BY <1>1 DEF ToSet
  <2>3. \A i \in 1..Len(t) : t[i] \in ToSet(s \o t)
    <3> SUFFICES ASSUME NEW i \in 1..Len(t) PROVE t[i] \in ToSet(s \o t)
      OBVIOUS
    <3>1. i + Len(s) \in DOMAIN (s \o t) /\ (s \o t)[i + Len(s)] = t[i]
      BY <1>1
    <3> QED
      BY <3>1 DEF ToSet
  <2> QED
    BY <1>1, <2>1, <2>2, <2>3 DEF ToSet
<1> QED
  BY <1>1, <1>7, <1>8 DEF Num, A, B, D

(* A sequence of one element counts that element. *)
LEMMA NumOne ==
  ASSUME NEW x, NEW P
  PROVE  /\ Num(<<x>>, P) = One(x, P) /\ ToSet(<<x>>) = {x}
<1>1. DOMAIN <<x>> = {1} /\ <<x>>[1] = x
  OBVIOUS
<1>2. ToSet(<<x>>) = {x}
  BY <1>1 DEF ToSet
<1>3. Places(<<x>>, P) = IF x \in P THEN {1} ELSE {}
  BY <1>1 DEF Places
<1>4. Cardinality({1}) = 1 /\ Cardinality({}) = 0
  BY FS_Singleton, FS_EmptySet
<1> QED
  BY <1>2, <1>3, <1>4 DEF Num, One

(* An element more at the end. *)
LEMMA NumAppend ==
  ASSUME NEW S, NEW s \in Seq(S), NEW x \in S, NEW P
  PROVE  /\ Append(s, x) \in Seq(S)
         /\ Num(Append(s, x), P) = Num(s, P) + One(x, P)
         /\ ToSet(Append(s, x)) = ToSet(s) \cup {x}
<1> DEFINE t == <<x>>
<1>1. Append(s, x) = s \o t /\ t \in Seq(S)
  BY AppendIsConcat
<1>2. Num(t, P) = One(x, P) /\ ToSet(t) = {x}
  BY NumOne
<1> HIDE DEF t
<1> QED
  BY <1>1, <1>2, NumConcat

(* The first element and the rest. *)
LEMMA NumTail ==
  ASSUME NEW S, NEW s \in Seq(S), s # <<>>, NEW P
  PROVE  /\ Head(s) \in S /\ Tail(s) \in Seq(S)
         /\ Num(s, P) = One(Head(s), P) + Num(Tail(s), P)
         /\ ToSet(s) = {Head(s)} \cup ToSet(Tail(s))
<1> DEFINE t == <<Head(s)>>
           u == Tail(s)
<1>1. s = t \o u /\ Head(s) \in S /\ u \in Seq(S) /\ t \in Seq(S)
  OBVIOUS
<1>2. Num(t, P) = One(Head(s), P) /\ ToSet(t) = {Head(s)}
  BY NumOne
<1> HIDE DEF t, u
<1>3. Num(t \o u, P) = Num(t, P) + Num(u, P) /\ ToSet(t \o u) = ToSet(t) \cup ToSet(u)
  <2>1. t \in Seq(S) /\ u \in Seq(S)
    BY <1>1
  <2> QED
    BY <2>1, NumConcat
<1> QED
  BY <1>1, <1>2, <1>3 DEF u

(* An element taken out of the middle. *)
LEMMA NumRemoveAt ==
  ASSUME NEW S, NEW s \in Seq(S), NEW i \in DOMAIN s, NEW P
  PROVE  /\ RemoveAt(s, i) \in Seq(S)
         /\ Num(s, P) = Num(RemoveAt(s, i), P) + One(s[i], P)
         /\ ToSet(RemoveAt(s, i)) \subseteq ToSet(s)
         /\ s[i] \in S /\ s[i] \in ToSet(s)
<1> DEFINE a == SubSeq(s, 1, i - 1)
           b == SubSeq(s, i + 1, Len(s))
           t == <<s[i]>>
<1>1. DOMAIN s = 1..Len(s) /\ Len(s) \in Nat /\ i \in 1..Len(s)
  OBVIOUS
<1>2. a \in Seq(S) /\ b \in Seq(S) /\ t \in Seq(S) /\ s[i] \in S
  <2>1. s[i] \in S
    OBVIOUS
  <2>2. a \in Seq(S) /\ b \in Seq(S)
    BY <1>1
  <2> QED
    BY <2>1, <2>2
<1>3. s = (a \o t) \o b
  <2>1. SubSeq(s, 1, i) = a \o t
    <3>1. 1 \in 1..Len(s) /\ i \in 1..Len(s)
      BY <1>1
    <3> QED
      BY <3>1, SubSeqRecursiveSecond
  <2>2. SubSeq(s, 1, i) \o b = SubSeq(s, 1, Len(s))
    <3>1. i \in 0..Len(s) /\ Len(s) \in i..Len(s) /\ 1 \in 1..(Len(s) + 1) /\ i \in (1 - 1)..Len(s)
      BY <1>1
    <3> QED
      BY <3>1, ConcatAdjacentSubSeq
  <2>3. SubSeq(s, 1, Len(s)) = s
    BY SubSeqFull
  <2> QED
    BY <2>1, <2>2, <2>3
<1>9. Num(t, P) = One(s[i], P) /\ ToSet(t) = {s[i]}
  BY NumOne
<1>10. s[i] \in ToSet(s)
  BY DEF ToSet
<1> HIDE DEF a, b, t
<1>4. /\ a \o t \in Seq(S)
      /\ Num(a \o t, P) = Num(a, P) + One(s[i], P)
      /\ ToSet(a \o t) = ToSet(a) \cup {s[i]}
  BY <1>2, <1>9, NumConcat
<1>5. /\ Num((a \o t) \o b, P) = Num(a, P) + One(s[i], P) + Num(b, P)
      /\ ToSet((a \o t) \o b) = ToSet(a) \cup {s[i]} \cup ToSet(b)
  <2> DEFINE c == a \o t
  <2>1. c \in Seq(S) /\ b \in Seq(S)
    BY <1>2, <1>4
  <2> HIDE DEF c
  <2>2. Num(c \o b, P) = Num(c, P) + Num(b, P) /\ ToSet(c \o b) = ToSet(c) \cup ToSet(b)
    BY <2>1, NumConcat
  <2> QED
    BY <1>4, <2>2 DEF c
<1>6. /\ a \o b \in Seq(S) /\ Num(a \o b, P) = Num(a, P) + Num(b, P)
      /\ ToSet(a \o b) = ToSet(a) \cup ToSet(b)
  BY <1>2, NumConcat
<1>7. RemoveAt(s, i) = a \o b
  BY DEF RemoveAt, a, b
<1>8. Num(a, P) \in Nat /\ Num(b, P) \in Nat /\ One(s[i], P) \in Nat
  BY <1>2, NumType DEF One
<1> QED
  <2>1. Num(s, P) = Num(a, P) + One(s[i], P) + Num(b, P)
    BY <1>3, <1>5
  <2>2. ToSet(s) = ToSet(a) \cup {s[i]} \cup ToSet(b)
    BY <1>3, <1>5
  <2>3. Num(s, P) = Num(a \o b, P) + One(s[i], P)
    BY <1>6, <1>8, <2>1
  <2> QED
    BY <1>2, <1>6, <1>7, <1>10, <2>2, <2>3

(* Kinds that exclude each other add up. *)
LEMMA NumDisjoint ==
  ASSUME NEW S, NEW s \in Seq(S), NEW P, NEW Q, P \cap Q = {}
  PROVE  Num(s, P \cup Q) = Num(s, P) + Num(s, Q)
<1> DEFINE A == Places(s, P)
           B == Places(s, Q)
<1>1. A \cap B = {}
  BY DEF Places
<1>2. A \cup B = Places(s, P \cup Q)
  BY DEF Places
<1>4. IsFiniteSet(A)
  BY NumType
<1>5. IsFiniteSet(B)
  BY NumType
<1> HIDE DEF A, B
<1>6. Cardinality(A) \in Nat /\ Cardinality(B) \in Nat
  BY <1>4, <1>5, FS_CardinalityType
<1>3. Cardinality(A \cup B) = Cardinality(A) + Cardinality(B)
  <2>1. Cardinality(A \cup B) = Cardinality(A) + Cardinality(B) - Cardinality(A \cap B)
    BY <1>4, <1>5, FS_Union
  <2>2. Cardinality(A \cap B) = 0
    BY <1>1, FS_EmptySet
  <2> QED
    BY <1>6, <2>1, <2>2
<1> QED
  BY <1>2, <1>3 DEF Num, A, B

(* A set of natural numbers has a least element. *)
LEMMA Least ==
  ASSUME NEW S \in SUBSET Nat, S # {}
  PROVE  \E x \in S : \A y \in S : x <= y
<1> DEFINE R == {ss \in Nat \X Nat : ss[1] < ss[2]}
<1>1. IsWellFoundedOn(R, Nat)
  BY NatLessThanWellFounded, Zenon DEF OpToRel
<1>2. PICK x \in S : \A y \in S : ~(<<y, x>> \in R)
  BY <1>1, WFMin
<1>3. ASSUME NEW y \in S PROVE x <= y
  <2>1. x \in Nat /\ y \in Nat /\ (y < x => <<y, x>> \in R)
    OBVIOUS
  <2> HIDE DEF R
  <2> QED
    BY <1>2, <2>1
<1> QED
  BY <1>3

(* What holds of 0, and of a number if it holds of the one before, holds up *)
(* to n: S is the set of the numbers of which it holds.                     *)
LEMMA UpTo ==
  ASSUME NEW n \in Nat, NEW S, 0 \in S, \A i \in 1..n : i - 1 \in S => i \in S
  PROVE  \A i \in 0..n : i \in S
<1> DEFINE Bad == {i \in 0..n : i \notin S}
<1> SUFFICES ASSUME Bad # {} PROVE FALSE
  OBVIOUS
<1>1. Bad \in SUBSET Nat
  OBVIOUS
<1>2. PICK i \in Bad : \A j \in Bad : i <= j
  <2> HIDE DEF Bad
  <2> QED
    BY <1>1, Least
<1>3. i \in 0..n /\ i \notin S /\ i # 0
  OBVIOUS
<1>4. i \in 1..n /\ i - 1 \in 0..n /\ ~(i <= i - 1)
  BY <1>3
<1>5. i - 1 \notin Bad
  <2> HIDE DEF Bad
  <2> QED
    BY <1>2, <1>4
<1> QED
  BY <1>3, <1>4, <1>5
===========================================================================
