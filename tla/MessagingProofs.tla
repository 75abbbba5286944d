------------------------- MODULE MessagingProofs -------------------------
(***************************************************************************)
(* The properties of Messaging as theorems, for every number of            *)
(* connections, workers and documents.                                     *)
(***************************************************************************)
EXTENDS Messaging, SequenceLemmas

-----------------------------------------------------------------------------
(* What Only leaves of a queue. *)

(* The place of i among the elements of A, and the element at a place.      *)
Rank(A, i) == Cardinality({j \in A : j <= i})
Nth(A, n) == CHOOSE i \in A : Rank(A, i) = n

(* Ranks number the elements of a set in their order.                       *)
LEMMA Ranks ==
  ASSUME NEW A, IsFiniteSet(A), A \subseteq Nat
  PROVE  /\ Cardinality(A) \in Nat
         /\ \A i \in A : Rank(A, i) \in 1..Cardinality(A) /\ Nth(A, Rank(A, i)) = i
         /\ \A i, j \in A : i < j => Rank(A, i) < Rank(A, j)
         /\ \A n \in 1..Cardinality(A) : Nth(A, n) \in A /\ Rank(A, Nth(A, n)) = n
         /\ \A n, m \in 1..Cardinality(A) : n < m => Nth(A, n) < Nth(A, m)
<1> DEFINE N == Cardinality(A)
           B(i) == {j \in A : j <= i}
           f == [i \in A |-> Rank(A, i)]
<1>1. N \in Nat
  BY FS_CardinalityType
<1>2. \A i \in A : IsFiniteSet(B(i)) /\ Rank(A, i) \in Nat /\ Rank(A, i) <= N
  <2> SUFFICES ASSUME NEW i \in A PROVE IsFiniteSet(B(i)) /\ Rank(A, i) \in Nat /\ Rank(A, i) <= N
    OBVIOUS
  <2>1. IsFiniteSet(B(i)) /\ Cardinality(B(i)) <= N
    <3>1. B(i) \in SUBSET A
      OBVIOUS
    <3> HIDE DEF B
    <3> QED
      BY <3>1, FS_Subset
  <2> QED
    BY <2>1, FS_CardinalityType DEF Rank
<1>3. \A i, j \in A : i < j => Rank(A, i) < Rank(A, j)
  <2> SUFFICES ASSUME NEW i \in A, NEW j \in A, i < j PROVE Rank(A, i) < Rank(A, j)
    OBVIOUS
  <2>0. i \in Nat /\ j \in Nat /\ \A x \in A : x \in Nat
    OBVIOUS
  <2>1. B(i) \cup {j} \in SUBSET B(j) /\ j \notin B(i)
    <3>1. j \in B(j) /\ j \notin B(i)
      BY <2>0
    <3>2. \A x \in B(i) : x \in B(j)
      BY <2>0
    <3> QED
      BY <3>1, <3>2
  <2>2. IsFiniteSet(B(i)) /\ IsFiniteSet(B(j))
    BY <1>2
  <2>3. Rank(A, i) = Cardinality(B(i)) /\ Rank(A, j) = Cardinality(B(j))
    BY DEF Rank
  <2> HIDE DEF B
  <2>4. Cardinality(B(i) \cup {j}) = Cardinality(B(i)) + 1
    BY <2>1, <2>2, FS_AddElement
  <2>5. Cardinality(B(i) \cup {j}) <= Cardinality(B(j))
    BY <2>1, <2>2, FS_Subset
  <2> QED
    BY <1>2, <2>3, <2>4, <2>5
<1>4. \A i \in A : Rank(A, i) \in 1..N
  <2> SUFFICES ASSUME NEW i \in A PROVE Rank(A, i) \in 1..N
    OBVIOUS
  <2>1. i \in B(i) /\ IsFiniteSet(B(i))
    BY <1>2
  <2>2. Rank(A, i) # 0
    BY <2>1, FS_EmptySet DEF Rank
  <2>3. Rank(A, i) \in Nat /\ Rank(A, i) <= N
    BY <1>2
  <2> HIDE DEF N, B, f
  <2> QED
    BY <1>1, <2>2, <2>3
<1>5. f \in Injection(A, 1..N)
  <2>1. f \in [A -> 1..N]
    BY <1>4
  <2>2. \A i, j \in A : f[i] = f[j] => i = j
    <3> SUFFICES ASSUME NEW i \in A, NEW j \in A, f[i] = f[j] PROVE i = j
      OBVIOUS
    <3>1. i \in Nat /\ j \in Nat /\ Rank(A, i) = Rank(A, j) /\ Rank(A, i) \in Nat
      BY <1>2
    <3>2. ~(i < j) /\ ~(j < i)
      BY <1>3, <3>1
    <3> QED
      BY <3>1, <3>2
  <2> QED
    BY <2>1, <2>2 DEF Injection, IsInjective
<1>6. \A n \in 1..N : \E i \in A : Rank(A, i) = n
  <2>1. IsFiniteSet(1..N) /\ Cardinality(1..N) = N
    BY <1>1, FS_Interval
  <2> HIDE DEF f
  <2>2. f \in Surjection(A, 1..N)
    BY <1>5, <2>1, FS_Injection
  <2>3. \A n \in 1..N : \E i \in A : f[i] = n
    BY <2>2 DEF Surjection
  <2> QED
    BY <2>3 DEF f
<1>7. \A n \in 1..N : Nth(A, n) \in A /\ Rank(A, Nth(A, n)) = n
  BY <1>6 DEF Nth
<1> HIDE DEF B, f
<1>8. \A i \in A : Nth(A, Rank(A, i)) = i
  <2> SUFFICES ASSUME NEW i \in A PROVE Nth(A, Rank(A, i)) = i
    OBVIOUS
  <2> DEFINE j == Nth(A, Rank(A, i))
  <2>1. j \in A /\ Rank(A, j) = Rank(A, i)
    BY <1>4, <1>7
  <2> HIDE DEF j
  <2>2. i \in Nat /\ j \in Nat /\ Rank(A, i) \in Nat
    BY <1>2, <2>1
  <2>3. ~(i < j) /\ ~(j < i)
    BY <1>3, <2>1, <2>2
  <2> QED
    BY <2>2, <2>3 DEF j
<1>9. \A n, m \in 1..N : n < m => Nth(A, n) < Nth(A, m)
  <2> SUFFICES ASSUME NEW n \in 1..N, NEW m \in 1..N, n < m PROVE Nth(A, n) < Nth(A, m)
    OBVIOUS
  <2> DEFINE i == Nth(A, n)
             j == Nth(A, m)
  <2>1. i \in A /\ j \in A /\ Rank(A, i) = n /\ Rank(A, j) = m
    BY <1>7
  <2> HIDE DEF i, j
  <2>2. i \in Nat /\ j \in Nat
    BY <2>1
  <2>3. i # j /\ ~(j < i)
    BY <1>1, <1>3, <2>1, <2>2
  <2>4. i < j
    BY <2>2, <2>3
  <2> QED
    BY <2>4 DEF i, j
<1> QED
  BY <1>1, <1>3, <1>4, <1>7, <1>8, <1>9

(* The places of a sequence that hold an element of P can be ranked.        *)
LEMMA PlacesRanked ==
  ASSUME NEW S, NEW s \in Seq(S), NEW P
  PROVE  LET A == Places(s, P)
         IN  /\ Num(s, P) \in Nat
             /\ \A i \in A : Rank(A, i) \in 1..Num(s, P) /\ Nth(A, Rank(A, i)) = i
             /\ \A n \in 1..Num(s, P) : /\ Nth(A, n) \in DOMAIN s /\ s[Nth(A, n)] \in P
                                        /\ Rank(A, Nth(A, n)) = n
             /\ \A n, m \in 1..Num(s, P) : n < m => Nth(A, n) < Nth(A, m)
<1> DEFINE A == Places(s, P)
<1>1. IsFiniteSet(A)
  BY NumType
<1>2. A \subseteq Nat /\ \A i \in A : i \in DOMAIN s /\ s[i] \in P
  BY DEF Places
<1>3. Num(s, P) = Cardinality(A)
  BY DEF Num
<1> HIDE DEF A
<1>4. /\ Cardinality(A) \in Nat
      /\ \A i \in A : Rank(A, i) \in 1..Cardinality(A) /\ Nth(A, Rank(A, i)) = i
      /\ \A n \in 1..Cardinality(A) : Nth(A, n) \in A /\ Rank(A, Nth(A, n)) = n
      /\ \A n, m \in 1..Cardinality(A) : n < m => Nth(A, n) < Nth(A, m)
  BY <1>1, <1>2, Ranks
<1>5. /\ Num(s, P) \in Nat
      /\ \A i \in A : Rank(A, i) \in 1..Num(s, P) /\ Nth(A, Rank(A, i)) = i
      /\ \A n \in 1..Num(s, P) : /\ Nth(A, n) \in DOMAIN s /\ s[Nth(A, n)] \in P
                                 /\ Rank(A, Nth(A, n)) = n
      /\ \A n, m \in 1..Num(s, P) : n < m => Nth(A, n) < Nth(A, m)
  BY <1>2, <1>3, <1>4
<1> QED
  BY <1>5 DEF A

(* Only(s, P) is s at the places that hold an element of P.                 *)
LEMMA OnlyIs ==
  ASSUME NEW S, NEW s \in Seq(S), NEW P
  PROVE  /\ Only(s, P) = [n \in 1..Num(s, P) |-> s[Nth(Places(s, P), n)]]
         /\ Only(s, P) \in Seq(S)
         /\ Len(Only(s, P)) = Num(s, P)
         /\ DOMAIN Only(s, P) = 1..Num(s, P)
         /\ ToSet(Only(s, P)) = ToSet(s) \cap P
<1> DEFINE t == Only(s, P)
           A == Places(s, P)
           N == Num(s, P)
<1>1. t = [n \in 1..N |-> s[Nth(A, n)]]
  BY DEF Only, Num, Places, Nth, Rank
<1>2. /\ N \in Nat
      /\ \A i \in A : Rank(A, i) \in 1..N /\ Nth(A, Rank(A, i)) = i
      /\ \A n \in 1..N : Nth(A, n) \in DOMAIN s /\ s[Nth(A, n)] \in P
  BY PlacesRanked
<1>3. \A i \in DOMAIN s : s[i] \in S /\ (s[i] \in P => i \in A)
  BY DEF Places
<1> HIDE DEF t, A, N
<1>4. t \in Seq(S) /\ Len(t) = N /\ DOMAIN t = 1..N
  <2>1. t \in [1..N -> S]
    BY <1>1, <1>2, <1>3
  <2> QED
    BY <1>2, <2>1
<1>5. ToSet(t) = ToSet(s) \cap P
  <2>1. \A n \in DOMAIN t : t[n] \in ToSet(s) \cap P
    BY <1>1, <1>2, <1>4 DEF ToSet
  <2>2. \A i \in DOMAIN s : s[i] \in P => s[i] \in ToSet(t)
    BY <1>1, <1>2, <1>3, <1>4 DEF ToSet
  <2> QED
    BY <2>1, <2>2 DEF ToSet
<1> QED
  BY <1>1, <1>4, <1>5 DEF t, A, N

(* Counting in what is left, and its order.                                 *)
LEMMA OnlyNum ==
  ASSUME NEW S, NEW s \in Seq(S), NEW P
  PROVE  \A Q : Num(Only(s, P), Q) = Num(s, P \cap Q)
<1> SUFFICES ASSUME NEW Q PROVE Num(Only(s, P), Q) = Num(s, P \cap Q)
  OBVIOUS
<1> DEFINE t == Only(s, P)
           A == Places(s, P)
           N == Num(s, P)
           B == Places(t, Q)
           C == Places(s, P \cap Q)
           f == [n \in B |-> Nth(A, n)]
<1>1. /\ t = [n \in 1..N |-> s[Nth(A, n)]] /\ t \in Seq(S) /\ DOMAIN t = 1..N
  BY OnlyIs
<1>2. /\ N \in Nat
      /\ \A i \in A : Rank(A, i) \in 1..N /\ Nth(A, Rank(A, i)) = i
      /\ \A n \in 1..N : /\ Nth(A, n) \in DOMAIN s /\ s[Nth(A, n)] \in P
                         /\ Rank(A, Nth(A, n)) = n
  BY PlacesRanked
<1>3. \A i \in DOMAIN s : s[i] \in P => i \in A
  BY DEF Places
<1>5. /\ \A n \in B : n \in 1..N /\ t[n] \in Q
      /\ \A n \in 1..N : t[n] \in Q => n \in B
      /\ \A i \in C : i \in DOMAIN s /\ s[i] \in P /\ s[i] \in Q
      /\ \A i \in DOMAIN s : s[i] \in P /\ s[i] \in Q => i \in C
  BY <1>1 DEF Places
<1>6. IsFiniteSet(B)
  BY <1>1, NumType
<1> HIDE DEF t, A, N, B, C
<1>7. f \in [B -> C]
  BY <1>1, <1>2, <1>5
<1>8. \A n, m \in B : f[n] = f[m] => n = m
  BY <1>2, <1>5
<1>9. \A i \in C : \E n \in B : f[n] = i
  <2> SUFFICES ASSUME NEW i \in C PROVE Rank(A, i) \in B /\ f[Rank(A, i)] = i
    OBVIOUS
  <2>1. i \in A
    BY <1>3, <1>5
  <2>2. Rank(A, i) \in 1..N /\ Nth(A, Rank(A, i)) = i /\ s[i] \in Q
    BY <1>2, <1>5, <2>1
  <2> QED
    BY <1>1, <1>5, <2>2
<1>10. f \in Bijection(B, C)
  BY <1>7, <1>8, <1>9 DEF Bijection, Injection, Surjection, IsInjective
<1> HIDE DEF f
<1>11. Cardinality(C) = Cardinality(B)
  BY <1>6, <1>10, FS_Bijection DEF ExistsBijection
<1> QED
  BY <1>11 DEF Num, B, C, t

(* Only keeps the order, and repeats nothing.                               *)
LEMMA OnlyOrder ==
  ASSUME NEW S, NEW s \in Seq(S), NEW P
  PROVE  /\ \A i, j \in DOMAIN Only(s, P) : i < j =>
              \E u, v \in DOMAIN s : u < v /\ Only(s, P)[i] = s[u] /\ Only(s, P)[j] = s[v]
         /\ IsInjective(s) => IsInjective(Only(s, P))
<1> DEFINE t == Only(s, P)
           A == Places(s, P)
           N == Num(s, P)
<1>1. /\ t = [n \in 1..N |-> s[Nth(A, n)]] /\ DOMAIN t = 1..N
  BY OnlyIs
<1>2. /\ \A n \in 1..N : Nth(A, n) \in DOMAIN s /\ Rank(A, Nth(A, n)) = n
      /\ \A n, m \in 1..N : n < m => Nth(A, n) < Nth(A, m)
  BY PlacesRanked
<1> HIDE DEF t, A, N
<1>3. \A i, j \in DOMAIN t : i < j => \E u, v \in DOMAIN s : u < v /\ t[i] = s[u] /\ t[j] = s[v]
  BY <1>1, <1>2
<1>4. ASSUME IsInjective(s) PROVE IsInjective(t)
  BY <1>1, <1>2, <1>4 DEF IsInjective
<1> QED
  BY <1>3, <1>4 DEF t

-----------------------------------------------------------------------------
(* Counting in the queues of all loops. *)

(* The loops are finitely many, and the master is none of the workers.      *)
LEMMA LoopsAre ==
  /\ IsFiniteSet(Loop) /\ Loop = 0..nr_threads /\ Master = 0
  /\ Master \in Loop /\ \A l \in Worker : l \in Loop /\ l # Master
<1>1. Loop = 0..nr_threads
  BY Sizes DEF Loop, Master, Worker
<1>2. IsFiniteSet(0..nr_threads)
  BY Sizes, FS_Interval
<1> QED
  BY <1>1, <1>2, Sizes DEF Loop, Master, Worker

(* A queue for each loop. *)
Queues(S) == [Loop -> Seq(S)]

(* The places of elements of P in the queues q.                             *)
Spots(q, P) == UNION {{l} \X Places(q[l], P) : l \in Loop}

(* A tally counts the spots, loop by loop.                                  *)
LEMMA SpotsAre ==
  ASSUME NEW S, NEW q \in Queues(S), NEW P
  PROVE  /\ \A z : z \in Spots(q, P) <=> \E l \in Loop : \E i \in DOMAIN q[l] : z = <<l, i>> /\ q[l][i] \in P
         /\ IsFiniteSet(Spots(q, P))
         /\ Tally(q, P) = Cardinality(Spots(q, P))
         /\ Tally(q, P) \in Nat
<1> USE DEF Queues
<1> DEFINE T(l) == {l} \X Places(q[l], P)
           TT == {T(l) : l \in Loop}
           f == [l \in Loop |-> T(l)]
<1>1. \A z : z \in Spots(q, P) <=> \E l \in Loop : \E i \in DOMAIN q[l] : z = <<l, i>> /\ q[l][i] \in P
  BY DEF Spots, Places
<1>2. Tally(q, P) = Cardinality(Spots(q, P))
  BY DEF Tally, Spots, Places
<1>3. \A l \in Loop : IsFiniteSet(T(l))
  <2> SUFFICES ASSUME NEW l \in Loop PROVE IsFiniteSet(T(l))
    OBVIOUS
  <2>1. IsFiniteSet(Places(q[l], P))
    <3> DEFINE s == q[l]
    <3>1. s \in Seq(S)
      OBVIOUS
    <3> HIDE DEF s
    <3>2. IsFiniteSet(Places(s, P))
      BY <3>1, NumType
    <3> QED
      BY <3>2 DEF s
  <2> QED
    BY <2>1, FS_Singleton, FS_Product
<1>4. IsFiniteSet(TT)
  <2>1. f \in Surjection(Loop, TT)
    BY DEF Surjection
  <2> HIDE DEF f, TT
  <2> QED
    BY <2>1, LoopsAre, FS_Surjection
<1>5. IsFiniteSet(UNION TT)
  <2>1. \A A \in TT : IsFiniteSet(A)
    BY <1>3
  <2> HIDE DEF TT
  <2> QED
    BY <1>4, <2>1, FS_UNION
<1>6. IsFiniteSet(Spots(q, P))
  BY <1>5 DEF Spots
<1> QED
  BY <1>1, <1>2, <1>6, FS_CardinalityType

(* The share of one loop, and those of the others.                          *)
Elsewhere(q, P, l) == {z \in Spots(q, P) : z[1] # l}

(* The tally is the share of a loop and what the others have.               *)
LEMMA TallySplit ==
  ASSUME NEW S, NEW q \in Queues(S), NEW P, NEW l \in Loop
  PROVE  /\ IsFiniteSet(Elsewhere(q, P, l)) /\ Cardinality(Elsewhere(q, P, l)) \in Nat
         /\ Num(q[l], P) \in Nat
         /\ Tally(q, P) = Num(q[l], P) + Cardinality(Elsewhere(q, P, l))
<1> USE DEF Queues
<1> DEFINE A == Places(q[l], P)
           H == {l} \X A
           R == Elsewhere(q, P, l)
<1>1. /\ \A z : z \in Spots(q, P) <=> \E n \in Loop : \E i \in DOMAIN q[n] : z = <<n, i>> /\ q[n][i] \in P
      /\ IsFiniteSet(Spots(q, P)) /\ Tally(q, P) = Cardinality(Spots(q, P))
  BY SpotsAre
<1>2. IsFiniteSet(A) /\ Num(q[l], P) = Cardinality(A) /\ Num(q[l], P) \in Nat
  <2> DEFINE s == q[l]
  <2>1. s \in Seq(S)
    OBVIOUS
  <2> HIDE DEF s
  <2>2. IsFiniteSet(Places(s, P)) /\ Num(s, P) = Cardinality(Places(s, P)) /\ Num(s, P) \in Nat
    BY <2>1, NumType DEF Num
  <2> QED
    BY <2>2 DEF s
<1>3. Spots(q, P) = H \cup R
  BY <1>1 DEF Elsewhere, Places
<1>4. H \cap R = {}
  BY DEF Elsewhere
<1>5. R \in SUBSET Spots(q, P)
  BY DEF Elsewhere
<1> HIDE DEF R, A
<1>6. IsFiniteSet(H) /\ Cardinality(H) = Cardinality(A)
  <2>1. Cardinality({l}) = 1 /\ IsFiniteSet({l})
    BY FS_Singleton
  <2>2. Cardinality(H) = Cardinality({l}) * Cardinality(A) /\ IsFiniteSet(H)
    BY <1>2, <2>1, FS_Product
  <2> HIDE DEF H
  <2> QED
    BY <1>2, <2>1, <2>2
<1> HIDE DEF H
<1>7. IsFiniteSet(R) /\ Cardinality(R) \in Nat
  BY <1>1, <1>5, FS_Subset, FS_CardinalityType
<1>8. Cardinality(H \cup R) = Cardinality(H) + Cardinality(R) - Cardinality(H \cap R)
  BY <1>6, <1>7, FS_Union
<1>9. Cardinality(H \cap R) = 0
  BY <1>4, FS_EmptySet
<1> QED
  BY <1>1, <1>2, <1>3, <1>6, <1>7, <1>8, <1>9 DEF R

(* A change of one loop's queue changes the tally as it changes its count.  *)
LEMMA TallyChange ==
  ASSUME NEW S, NEW q \in Queues(S), NEW r \in Queues(S), NEW l \in Loop,
         \A n \in Loop : n # l => r[n] = q[n]
  PROVE  \A P : /\ Tally(q, P) \in Nat /\ Tally(r, P) \in Nat
                /\ Num(q[l], P) \in Nat /\ Num(r[l], P) \in Nat
                /\ Num(q[l], P) <= Tally(q, P)
                /\ Tally(r, P) = (Tally(q, P) - Num(q[l], P)) + Num(r[l], P)
<1> USE DEF Queues
<1> SUFFICES ASSUME NEW P
             PROVE  /\ Tally(q, P) \in Nat /\ Tally(r, P) \in Nat
                    /\ Num(q[l], P) \in Nat /\ Num(r[l], P) \in Nat
                    /\ Num(q[l], P) <= Tally(q, P)
                    /\ Tally(r, P) = (Tally(q, P) - Num(q[l], P)) + Num(r[l], P)
  OBVIOUS
<1>1. \A z : z \in Spots(q, P) <=> \E n \in Loop : \E i \in DOMAIN q[n] : z = <<n, i>> /\ q[n][i] \in P
  BY SpotsAre
<1>2. \A z : z \in Spots(r, P) <=> \E n \in Loop : \E i \in DOMAIN r[n] : z = <<n, i>> /\ r[n][i] \in P
  BY SpotsAre
<1>3. Elsewhere(r, P, l) = Elsewhere(q, P, l)
  BY <1>1, <1>2 DEF Elsewhere
<1>4. /\ Cardinality(Elsewhere(q, P, l)) \in Nat /\ Num(q[l], P) \in Nat
      /\ Tally(q, P) = Num(q[l], P) + Cardinality(Elsewhere(q, P, l))
  BY TallySplit
<1>5. /\ Num(r[l], P) \in Nat
      /\ Tally(r, P) = Num(r[l], P) + Cardinality(Elsewhere(r, P, l))
  BY TallySplit
<1> QED
  BY <1>3, <1>4, <1>5

(* A tally is 0 when no queue has an element of P.                          *)
LEMMA TallyNone ==
  ASSUME NEW S, NEW q \in Queues(S), NEW P
  PROVE  Tally(q, P) = 0 <=> \A l \in Loop : \A x \in ToSet(q[l]) : x \notin P
<1> USE DEF Queues
<1>1. /\ \A z : z \in Spots(q, P) <=> \E n \in Loop : \E i \in DOMAIN q[n] : z = <<n, i>> /\ q[n][i] \in P
      /\ IsFiniteSet(Spots(q, P)) /\ Tally(q, P) = Cardinality(Spots(q, P))
  BY SpotsAre
<1>2. Tally(q, P) = 0 <=> Spots(q, P) = {}
  BY <1>1, FS_EmptySet
<1>3. ASSUME Spots(q, P) = {}, NEW l \in Loop, NEW x \in ToSet(q[l])
      PROVE  x \notin P
  <2>1. PICK i \in DOMAIN q[l] : x = q[l][i]
    BY DEF ToSet
  <2> QED
    BY <1>1, <1>3, <2>1
<1>4. ASSUME \A l \in Loop : \A x \in ToSet(q[l]) : x \notin P, NEW z \in Spots(q, P)
      PROVE  FALSE
  <2>1. PICK l \in Loop : \E i \in DOMAIN q[l] : z = <<l, i>> /\ q[l][i] \in P
    BY <1>1
  <2>2. PICK i \in DOMAIN q[l] : q[l][i] \in P
    BY <2>1
  <2>3. q[l][i] \in ToSet(q[l])
    BY DEF ToSet
  <2> QED
    BY <1>4, <2>2, <2>3
<1> QED
  BY <1>2, <1>3, <1>4

(* Fewer elements count for less.                                           *)
LEMMA TallyMonotone ==
  ASSUME NEW S, NEW q \in Queues(S), NEW P, NEW Q, P \subseteq Q
  PROVE  Tally(q, P) <= Tally(q, Q)
<1> USE DEF Queues
<1>1. \A z : z \in Spots(q, P) <=> \E n \in Loop : \E i \in DOMAIN q[n] : z = <<n, i>> /\ q[n][i] \in P
  BY SpotsAre
<1>2. /\ \A z : z \in Spots(q, Q) <=> \E n \in Loop : \E i \in DOMAIN q[n] : z = <<n, i>> /\ q[n][i] \in Q
      /\ IsFiniteSet(Spots(q, Q)) /\ Tally(q, Q) = Cardinality(Spots(q, Q))
  BY SpotsAre
<1>3. Tally(q, P) = Cardinality(Spots(q, P))
  BY SpotsAre
<1>4. Spots(q, P) \in SUBSET Spots(q, Q)
  BY <1>1, <1>2
<1> QED
  BY <1>2, <1>3, <1>4, FS_Subset

(* Queues put behind those of the loops add up.                             *)
LEMMA TallyConcat ==
  ASSUME NEW S, NEW q \in Queues(S), NEW r \in Queues(S)
  PROVE  /\ [n \in Loop |-> q[n] \o r[n]] \in Queues(S)
         /\ \A P : Tally([n \in Loop |-> q[n] \o r[n]], P) = Tally(q, P) + Tally(r, P)
<1> USE DEF Queues
<1> SUFFICES ASSUME NEW P
             PROVE  /\ [n \in Loop |-> q[n] \o r[n]] \in Queues(S)
                    /\ Tally([n \in Loop |-> q[n] \o r[n]], P) = Tally(q, P) + Tally(r, P)
  OBVIOUS
<1> DEFINE u == [n \in Loop |-> q[n] \o r[n]]
           A == Spots(q, P)
           B == Spots(r, P)
           D == Spots(u, P)
           C == {z \in D : z[2] > Len(q[z[1]])}
           f == [z \in B |-> <<z[1], Len(q[z[1]]) + z[2]>>]
<1>1. u \in [Loop -> Seq(S)]
  OBVIOUS
<1>2. \A n \in Loop : /\ DOMAIN q[n] = 1..Len(q[n]) /\ Len(q[n]) \in Nat
                      /\ DOMAIN r[n] = 1..Len(r[n]) /\ Len(r[n]) \in Nat
                      /\ DOMAIN u[n] = 1..(Len(q[n]) + Len(r[n]))
                      /\ \A i \in 1..Len(q[n]) : u[n][i] = q[n][i]
                      /\ \A i \in 1..Len(r[n]) : u[n][Len(q[n]) + i] = r[n][i]
  <2> SUFFICES ASSUME NEW n \in Loop
               PROVE  /\ DOMAIN q[n] = 1..Len(q[n]) /\ Len(q[n]) \in Nat
                      /\ DOMAIN r[n] = 1..Len(r[n]) /\ Len(r[n]) \in Nat
                      /\ DOMAIN u[n] = 1..(Len(q[n]) + Len(r[n]))
                      /\ \A i \in 1..Len(q[n]) : u[n][i] = q[n][i]
                      /\ \A i \in 1..Len(r[n]) : u[n][Len(q[n]) + i] = r[n][i]
    OBVIOUS
  <2> DEFINE a == q[n]
             b == r[n]
  <2>1. a \in Seq(S) /\ b \in Seq(S) /\ u[n] = a \o b
    OBVIOUS
  <2> HIDE DEF a, b, u
  <2>2. /\ DOMAIN a = 1..Len(a) /\ Len(a) \in Nat
        /\ DOMAIN b = 1..Len(b) /\ Len(b) \in Nat
        /\ DOMAIN (a \o b) = 1..(Len(a) + Len(b))
        /\ \A i \in 1..Len(a) : (a \o b)[i] = a[i]
        /\ \A i \in 1..Len(b) : (a \o b)[Len(a) + i] = b[i]
    BY <2>1
  <2> QED
    BY <2>1, <2>2 DEF a, b
<1>3. /\ \A z : z \in A <=> \E n \in Loop : \E i \in DOMAIN q[n] : z = <<n, i>> /\ q[n][i] \in P
      /\ IsFiniteSet(A) /\ Tally(q, P) = Cardinality(A)
  BY SpotsAre
<1>4. /\ \A z : z \in B <=> \E n \in Loop : \E i \in DOMAIN r[n] : z = <<n, i>> /\ r[n][i] \in P
      /\ IsFiniteSet(B) /\ Tally(r, P) = Cardinality(B)
  BY SpotsAre
<1>5. /\ \A z : z \in D <=> \E n \in Loop : \E i \in DOMAIN u[n] : z = <<n, i>> /\ u[n][i] \in P
      /\ IsFiniteSet(D) /\ Tally(u, P) = Cardinality(D)
  <2> HIDE DEF u
  <2> QED
    BY <1>1, SpotsAre
<1> HIDE DEF u, A, B, D
<1>6. \A z \in C : z \in D /\ z[2] > Len(q[z[1]])
  OBVIOUS
<1>7. A \subseteq D
  <2> SUFFICES ASSUME NEW z \in A PROVE z \in D
    OBVIOUS
  <2>1. PICK n \in Loop : \E i \in DOMAIN q[n] : z = <<n, i>> /\ q[n][i] \in P
    BY <1>3
  <2>2. PICK i \in DOMAIN q[n] : z = <<n, i>> /\ q[n][i] \in P
    BY <2>1
  <2> HIDE DEF f, C
  <2>4. /\ i \in 1..Len(q[n]) /\ Len(q[n]) \in Nat /\ Len(r[n]) \in Nat
        /\ DOMAIN u[n] = 1..(Len(q[n]) + Len(r[n])) /\ u[n][i] = q[n][i]
    BY <1>2, <2>2
  <2>3. i \in DOMAIN u[n] /\ u[n][i] \in P
    BY <2>2, <2>4
  <2> QED
    BY <1>5, <2>2, <2>3
<1>8. A \cap C = {}
  <2> SUFFICES ASSUME NEW z \in A, z \in C PROVE FALSE
    OBVIOUS
  <2>1. PICK n \in Loop : \E i \in DOMAIN q[n] : z = <<n, i>> /\ q[n][i] \in P
    BY <1>3
  <2>2. PICK i \in DOMAIN q[n] : z = <<n, i>>
    BY <2>1
  <2> QED
    BY <1>2, <1>6, <2>2
<1>9. D \subseteq A \cup C
  <2> SUFFICES ASSUME NEW z \in D, z \notin C PROVE z \in A
    OBVIOUS
  <2>1. PICK n \in Loop : \E i \in DOMAIN u[n] : z = <<n, i>> /\ u[n][i] \in P
    BY <1>5
  <2>2. PICK i \in DOMAIN u[n] : z = <<n, i>> /\ u[n][i] \in P
    BY <2>1
  <2>3. ~(i > Len(q[n]))
    BY <2>2
  <2>4. i \in 1..Len(q[n])
    BY <1>2, <2>3
  <2>5. i \in DOMAIN q[n] /\ q[n][i] \in P
    BY <1>2, <2>2, <2>4
  <2> QED
    BY <1>3, <2>2, <2>5
<1>10. f \in [B -> C]
  <2> SUFFICES ASSUME NEW z \in B PROVE f[z] \in C
    OBVIOUS
  <2>1. PICK n \in Loop : \E i \in DOMAIN r[n] : z = <<n, i>> /\ r[n][i] \in P
    BY <1>4
  <2>2. PICK i \in DOMAIN r[n] : z = <<n, i>> /\ r[n][i] \in P
    BY <2>1
  <2>3. /\ Len(q[n]) + i \in DOMAIN u[n] /\ u[n][Len(q[n]) + i] \in P
        /\ Len(q[n]) + i > Len(q[n])
    <3>1. /\ i \in 1..Len(r[n]) /\ Len(q[n]) \in Nat /\ Len(r[n]) \in Nat
          /\ DOMAIN u[n] = 1..(Len(q[n]) + Len(r[n])) /\ u[n][Len(q[n]) + i] = r[n][i]
      BY <1>2, <2>2
    <3> HIDE DEF f, C
    <3> QED
      BY <2>2, <3>1
  <2>4. <<n, Len(q[n]) + i>> \in D
    BY <1>5, <2>3
  <2>5. f[z] = <<n, Len(q[n]) + i>>
    BY <2>2
  <2> HIDE DEF f
  <2> QED
    BY <2>3, <2>4, <2>5
<1>11. \A y, z \in B : f[y] = f[z] => y = z
  <2> SUFFICES ASSUME NEW y \in B, NEW z \in B, f[y] = f[z] PROVE y = z
    OBVIOUS
  <2>1. PICK n \in Loop : \E i \in DOMAIN r[n] : y = <<n, i>>
    BY <1>4
  <2>2. PICK i \in DOMAIN r[n] : y = <<n, i>>
    BY <2>1
  <2>3. PICK m \in Loop : \E j \in DOMAIN r[m] : z = <<m, j>>
    BY <1>4
  <2>4. PICK j \in DOMAIN r[m] : z = <<m, j>>
    BY <2>3
  <2>5. n = m /\ Len(q[n]) + i = Len(q[m]) + j
    BY <2>2, <2>4
  <2>6. i = j
    BY <1>2, <2>5
  <2> QED
    BY <2>2, <2>4, <2>5, <2>6
<1>12. \A z \in C : \E y \in B : f[y] = z
  <2> SUFFICES ASSUME NEW z \in C PROVE \E y \in B : f[y] = z
    OBVIOUS
  <2>1. PICK n \in Loop : \E i \in DOMAIN u[n] : z = <<n, i>> /\ u[n][i] \in P
    BY <1>5, <1>6
  <2>2. PICK i \in DOMAIN u[n] : z = <<n, i>> /\ u[n][i] \in P
    BY <2>1
  <2>3. i > Len(q[n]) /\ i \in 1..(Len(q[n]) + Len(r[n]))
    BY <1>2, <1>6, <2>2
  <2> DEFINE j == i - Len(q[n])
  <2>4. j \in 1..Len(r[n]) /\ Len(q[n]) + j = i
    BY <1>2, <2>3
  <2> HIDE DEF j
  <2>5. j \in DOMAIN r[n] /\ r[n][j] \in P
    BY <1>2, <2>2, <2>4
  <2>6. <<n, j>> \in B
    BY <1>4, <2>5
  <2>7. f[<<n, j>>] = z
    BY <2>2, <2>4, <2>6
  <2> QED
    BY <2>6, <2>7
<1>13. f \in Bijection(B, C)
  BY <1>10, <1>11, <1>12 DEF Bijection, Injection, Surjection, IsInjective
<1> HIDE DEF f, C
<1>14. IsFiniteSet(C) /\ Cardinality(C) = Cardinality(B)
  BY <1>4, <1>13, FS_Bijection DEF ExistsBijection
<1>15. D = A \cup C
  <2>1. C \subseteq D
    BY <1>6
  <2> QED
    BY <1>7, <1>9, <2>1
<1>16. Cardinality(A \cup C) = Cardinality(A) + Cardinality(C) - Cardinality(A \cap C)
  BY <1>3, <1>14, FS_Union
<1>17. Cardinality(A \cap C) = 0
  BY <1>8, FS_EmptySet
<1>18. Cardinality(A) \in Nat /\ Cardinality(C) \in Nat
  BY <1>3, <1>14, FS_CardinalityType
<1>19. Cardinality(D) = Cardinality(A) + Cardinality(B)
  BY <1>14, <1>15, <1>16, <1>17, <1>18
<1>20. Tally(u, P) = Tally(q, P) + Tally(r, P)
  BY <1>3, <1>4, <1>5, <1>19
<1> QED
  BY <1>1, <1>20 DEF u

(* What is taken out of one queue for the others is counted there.          *)
LEMMA TallyTold ==
  ASSUME NEW s \in Seq(Entries), NEW P, Rearm \notin P
  PROVE  /\ [n \in Loop |-> Only(s, Told(n))] \in Queues(Entries)
         /\ Tally([n \in Loop |-> Only(s, Told(n))], P) = Num(s, P)
<1> USE DEF Queues
<1> DEFINE r == [n \in Loop |-> Only(s, Told(n))]
           B == Spots(r, P)
           C == Places(s, P)
           A(n) == Places(s, Told(n))
           f == [z \in B |-> Nth(A(z[1]), z[2])]
<1>1. /\ r \in [Loop -> Seq(Entries)]
      /\ \A n \in Loop : /\ r[n] = [i \in 1..Num(s, Told(n)) |-> s[Nth(A(n), i)]]
                         /\ DOMAIN r[n] = 1..Num(s, Told(n))
  <2> SUFFICES ASSUME NEW n \in Loop
               PROVE  /\ Only(s, Told(n)) \in Seq(Entries)
                      /\ Only(s, Told(n)) = [i \in 1..Num(s, Told(n)) |-> s[Nth(A(n), i)]]
                      /\ DOMAIN Only(s, Told(n)) = 1..Num(s, Told(n))
    OBVIOUS
  <2> QED
    BY OnlyIs
<1>2. \A n \in Loop : /\ \A i \in A(n) : Rank(A(n), i) \in 1..Num(s, Told(n)) /\ Nth(A(n), Rank(A(n), i)) = i
                      /\ \A i \in 1..Num(s, Told(n)) : /\ Nth(A(n), i) \in DOMAIN s
                                                       /\ s[Nth(A(n), i)] \in Told(n)
                                                       /\ Rank(A(n), Nth(A(n), i)) = i
  BY PlacesRanked
<1>3. /\ \A z : z \in B <=> \E n \in Loop : \E i \in DOMAIN r[n] : z = <<n, i>> /\ r[n][i] \in P
      /\ IsFiniteSet(B) /\ Tally(r, P) = Cardinality(B)
  <2> HIDE DEF r
  <2> QED
    BY <1>1, SpotsAre
<1>4. \A i : i \in C <=> i \in DOMAIN s /\ s[i] \in P
  BY DEF Places
<1>5. \A i \in DOMAIN s : s[i] \in P => s[i].ring \in Loop /\ i \in A(s[i].ring)
  <2> SUFFICES ASSUME NEW i \in DOMAIN s, s[i] \in P PROVE s[i].ring \in Loop /\ i \in A(s[i].ring)
    OBVIOUS
  <2>1. s[i] \in Entries /\ s[i] # Rearm
    OBVIOUS
  <2>2. s[i].ring \in Loop
    BY <2>1 DEF Entries
  <2> QED
    BY <2>1, <2>2 DEF Places, Told
<1>6. \A n \in Loop : \A e \in Told(n) : e.ring = n
  BY DEF Told
<1> HIDE DEF r, A, B, C
<1>7. ASSUME NEW z \in B
      PROVE  /\ z[1] \in Loop /\ z = <<z[1], z[2]>> /\ z[2] = Rank(A(z[1]), f[z])
             /\ f[z] \in C /\ s[f[z]].ring = z[1]
  <2>1. PICK n \in Loop : \E i \in DOMAIN r[n] : z = <<n, i>> /\ r[n][i] \in P
    BY <1>3
  <2>2. PICK i \in DOMAIN r[n] : z = <<n, i>> /\ r[n][i] \in P
    BY <2>1
  <2> DEFINE j == Nth(A(n), i)
  <2>3. i \in 1..Num(s, Told(n)) /\ r[n][i] = s[j]
    BY <1>1, <2>2, ZenonT(60)
  <2>4. j \in DOMAIN s /\ s[j] \in Told(n) /\ Rank(A(n), j) = i
    BY <1>2, <2>3
  <2>5. j \in C
    BY <1>4, <2>2, <2>3, <2>4
  <2>6. s[j].ring = n
    BY <1>6, <2>4
  <2>7. f[z] = j
    BY <2>2
  <2> HIDE DEF f, j
  <2>8. z[1] = n /\ z[2] = i
    BY <2>2
  <2> QED
    BY <2>2, <2>4, <2>5, <2>6, <2>7, <2>8
<1>8. \A i \in C : \E z \in B : f[z] = i
  <2> SUFFICES ASSUME NEW i \in C PROVE \E z \in B : f[z] = i
    OBVIOUS
  <2>1. i \in DOMAIN s /\ s[i] \in P
    BY <1>4
  <2> DEFINE n == s[i].ring
             j == Rank(A(n), i)
  <2>2. n \in Loop /\ i \in A(n)
    BY <1>5, <2>1
  <2>3. j \in 1..Num(s, Told(n)) /\ Nth(A(n), j) = i
    BY <1>2, <2>2
  <2> HIDE DEF n, j, f
  <2>4. j \in DOMAIN r[n] /\ r[n][j] = s[i]
    <3>1. /\ r[n] = [k \in 1..Num(s, Told(n)) |-> s[Nth(A(n), k)]]
          /\ DOMAIN r[n] = 1..Num(s, Told(n))
      BY <1>1, <2>2
    <3>2. r[n][j] = s[Nth(A(n), j)]
      BY <2>3, <3>1
    <3> QED
      BY <2>3, <3>1, <3>2
  <2>5. <<n, j>> \in B
    BY <1>3, <2>1, <2>2, <2>4
  <2>6. f[<<n, j>>] = i
    BY <2>3, <2>5 DEF f
  <2> QED
    BY <2>5, <2>6
<1>9. f \in [B -> C]
  <2>1. \A z \in B : f[z] \in C
    BY <1>7
  <2> QED
    BY <2>1
<1> HIDE DEF f
<1>10. \A y, z \in B : f[y] = f[z] => y = z
  <2> SUFFICES ASSUME NEW y \in B, NEW z \in B, f[y] = f[z] PROVE y = z
    OBVIOUS
  <2>1. y = <<y[1], y[2]>> /\ y[2] = Rank(A(y[1]), f[y]) /\ s[f[y]].ring = y[1]
    BY <1>7
  <2>2. z = <<z[1], z[2]>> /\ z[2] = Rank(A(z[1]), f[z]) /\ s[f[z]].ring = z[1]
    BY <1>7
  <2> QED
    BY <2>1, <2>2
<1>11. f \in Bijection(B, C)
  BY <1>8, <1>9, <1>10 DEF Bijection, Injection, Surjection, IsInjective
<1>12. Cardinality(C) = Cardinality(B)
  BY <1>3, <1>11, FS_Bijection DEF ExistsBijection
<1> QED
  BY <1>1, <1>3, <1>12 DEF Num, C, r

-----------------------------------------------------------------------------
(* The inductive invariant. *)

Requests == {"none", "open", "edit", "close", "chat"}
Stages == {"none", "JoinUser", "GetUserList", "Post", "GetContent"}
Tasks == [request : Requests, stage : Stages, conn : Conn \cup {0}, msg : Nat,
          doc : Doc \cup {NULL}, rest : Seq(Conn), ctx : Nat]
Edits == [by : Conn, doc : Doc]
Contexts == [refs : Int, msg : Nat]

Types ==
  /\ conn_count \in Nat
  /\ listening \in BOOLEAN
  /\ slots \in Nat /\ slots <= TableSize /\ slots <= Cardinality(Conn)
  /\ conn_map \in [Loop -> SUBSET Conn]
  /\ closed \subseteq Conn
  /\ document \in [Conn -> Doc \cup {NULL}]
  /\ users \in [Doc -> Seq(Conn)]
  /\ edits \in Seq(Edits)
  /\ since \in [Conn -> Nat \cup {NULL}]
  /\ task \in [Loop -> Tasks]
  /\ sq \in Queues(Entries)
  /\ cq \in Queues(Entries)
  /\ lost \subseteq Entries /\ IsFiniteSet(lost)
  /\ ended \subseteq Loop
  /\ contexts \in Seq(Contexts)
  /\ inbox \in [Conn -> Seq(Nat)]
  /\ left \in [Bounded -> Nat]

(* What may wait in the submission queue of loop l, and what arrives in the *)
(* completion queue: whatever goes to a connection goes to the loop its id  *)
(* leads to.                                                                *)
Leads(e) == e.conn \in Conn /\ e.ring = ConnectionIdToRing(e.conn)
IsMail(e) == e.op = "msg" /\ Leads(e) /\ e.ctx \in DOMAIN contexts
Waits(l, e) ==
  \/ e = Rearm /\ l = Master
  \/ e = Unprepared(l) /\ l # Master
  \/ e.op = "fd_pass" /\ Leads(e)
  \/ IsMail(e) /\ e.ring # l
Arrives(l, e) ==
  /\ e.ring = l
  /\ \/ e.op \in {"accept", "last_accept", "accept_failed"}
     \/ e.op = "fd_pass" /\ Leads(e)
     \/ IsMail(e)

Placed ==
  /\ \A l \in Loop : \A c \in conn_map[l] : ConnectionIdToRing(c) = l
  /\ \A c \in Conn : document[c] # NULL => c \in conn_map[ConnectionIdToRing(c)]
  /\ \A l \in Loop : \A e \in ToSet(sq[l]) : Waits(l, e)
  /\ \A l \in Loop : \A e \in ToSet(cq[l]) : Arrives(l, e)
  /\ \A e \in lost : e.op = "msg" => e.ctx \in DOMAIN contexts

(* A slot is taken for each connection that has a number, and for each that *)
(* is about to get one.                                                     *)
Accepts == {e \in Entries : e.op \in {"accept", "last_accept"}}
Accepting == conn_count + Num(cq[Master], Accepts) = slots

(* What a loop knows in the handler it is in.                               *)
OfEdit(t) == IF t.request = "edit"
             THEN t.msg \in DOMAIN edits /\ edits[t.msg] = [by |-> t.conn, doc |-> t.doc]
             ELSE t.msg = Notice
AtStage(t) ==
  \/ t.stage = "JoinUser" /\ t.request = "open" /\ t.rest = <<>> /\ since[t.conn] = NULL
  \/ /\ t.stage = "GetUserList" /\ t.rest = <<>> /\ t.request # "chat" /\ t.doc \in Doc
     /\ t.request = "close" => document[t.conn] = NULL
  \/ t.stage = "Post" /\ t.rest # <<>> /\ t.ctx \in DOMAIN contexts /\ contexts[t.ctx].msg = t.msg
  \/ t.stage = "GetContent" /\ t.request = "open" /\ t.rest = <<>>
Known(l, t) ==
  /\ t.request # "none"
  /\ t.conn \in Conn /\ ConnectionIdToRing(t.conn) = l
  /\ t.request \in {"open", "edit"} => t.doc \in Doc /\ document[t.conn] = t.doc
  /\ OfEdit(t)
InHandler(l, t) == Known(l, t) /\ AtStage(t)
Control == \A l \in Loop : task[l] = Idle \/ InHandler(l, task[l])

(* The users of a document are those who have it open, but for one who is   *)
(* still to join.                                                           *)
Joining(c) == task[ConnectionIdToRing(c)].stage = "JoinUser" /\ task[ConnectionIdToRing(c)].conn = c
Listed == \A d \in Doc : /\ IsInjective(users[d])
                         /\ \A c \in Conn : c \in ToSet(users[d]) <=> document[c] = d /\ ~Joining(c)

(* The counts, and that a message is somewhere once.                        *)
Exact == \A k \in DOMAIN contexts :
  /\ contexts[k].refs = Shares(k, Conn) /\ contexts[k].refs <= Cardinality(Conn)
  /\ \A c \in Conn : Shares(k, {c}) <= 1

-----------------------------------------------------------------------------
(* What the parts of a state are. *)

(* Ids and rings.                                                           *)
LEMMA ConnsAre ==
  /\ Cardinality(Conn) \in Nat /\ IsFiniteSet(Conn)
  /\ \A c : c \in Conn <=> c \in Nat /\ 1 <= c /\ c <= Cardinality(Conn)
  /\ 0 \notin Conn
<1>1. Cardinality(Conn) \in Nat
  BY Ids, FS_CardinalityType
<1> QED
  BY <1>1, Ids

(* A connection is looked for at a worker, the one whose turn it was.       *)
LEMMA RingIs ==
  /\ \A c \in Conn : ConnectionIdToRing(c) \in Worker /\ ConnectionIdToRing(c) \in Loop
                     /\ ConnectionIdToRing(c) # Master
  /\ \A n \in Nat : n = conn_count => ConnectionIdToRing(n + 1) = NextRing
<1>1. ASSUME NEW c \in Conn PROVE ConnectionIdToRing(c) \in Worker
  <2> DEFINE m == (c - 1) % nr_threads
  <2>1. c - 1 \in Nat /\ nr_threads \in Nat /\ nr_threads > 0
    BY ConnsAre, Sizes
  <2>2. m \in Nat /\ m < nr_threads
    BY <2>1
  <2>3. ConnectionIdToRing(c) = m + 1
    BY DEF ConnectionIdToRing
  <2> HIDE DEF m
  <2> QED
    BY <2>1, <2>2, <2>3 DEF Worker
<1>2. ASSUME NEW n \in Nat, n = conn_count PROVE ConnectionIdToRing(n + 1) = NextRing
  <2>1. (n + 1) - 1 = n
    OBVIOUS
  <2> QED
    BY <1>2, <2>1 DEF ConnectionIdToRing, NextRing
<1> QED
  BY <1>1, <1>2, LoopsAre

(* The record of an idle loop.                                              *)
LEMMA IdleIs == Idle \in Tasks
<1>1. <<>> \in Seq(Conn)
  OBVIOUS
<1> QED
  BY <1>1 DEF Idle, Task, Tasks, Requests, Stages, Notice

(* What becomes of a handler when rest is left to post.                     *)
LEMMA PostingIs ==
  ASSUME NEW t \in Tasks, NEW rest \in Seq(Conn)
  PROVE  /\ Posting(t, rest) \in Tasks
         /\ rest # <<>> => Posting(t, rest) = [t EXCEPT !.stage = "Post", !.rest = rest]
         /\ rest = <<>> /\ t.request = "open" =>
              Posting(t, rest) = [t EXCEPT !.stage = "GetContent", !.rest = <<>>]
         /\ rest = <<>> /\ t.request # "open" => Posting(t, rest) = Idle
<1>1. CASE rest # <<>>
  <2>1. Posting(t, rest) = [t EXCEPT !.stage = "Post", !.rest = rest]
    BY <1>1 DEF Posting
  <2>2. [t EXCEPT !.stage = "Post", !.rest = rest] \in Tasks
    BY DEF Tasks, Stages
  <2> QED
    BY <1>1, <2>1, <2>2
<1>2. CASE rest = <<>> /\ t.request = "open"
  <2>1. Posting(t, rest) = [t EXCEPT !.stage = "GetContent", !.rest = <<>>]
    BY <1>2 DEF Posting
  <2>2. [t EXCEPT !.stage = "GetContent", !.rest = <<>>] \in Tasks
    BY <1>2 DEF Tasks, Stages
  <2> QED
    BY <1>2, <2>1, <2>2
<1>3. CASE rest = <<>> /\ t.request # "open"
  BY <1>3, IdleIs DEF Posting
<1> QED
  BY <1>1, <1>2, <1>3

(* What a loop prepares and what completes are entries.                     *)
LEMMA EntriesAre ==
  /\ Rearm \in Entries
  /\ \A l \in Loop : Unprepared(l) \in Entries
  /\ \A op \in {"accept", "last_accept", "accept_failed"} : Accepted(op) \in Entries
  /\ \A op \in {"fd_pass", "msg"}, l \in Loop, c \in Conn, k \in Nat : Entry(op, l, c, k) \in Entries
BY LoopsAre DEF Rearm, Unprepared, Accepted, Entry, Entries

-----------------------------------------------------------------------------
(* What the helpers of the actions do. *)

(* An occurrence of a bounded kind.                                         *)
LEMMA SpendIs ==
  ASSUME left \in [Bounded -> Nat], NEW kind \in Bounded, Spend(kind)
  PROVE  left' \in [Bounded -> Nat]
BY DEF Spend

(* ExitUser: the connection is gone from the list of its document, and the  *)
(* others stay, once each.                                                  *)
LEMMA WithoutIs ==
  ASSUME Types, NEW c \in Conn
  PROVE  /\ Without(c) \in [Doc -> Seq(Conn)]
         /\ \A d \in Doc : /\ d # document[c] => Without(c)[d] = users[d]
                           /\ d = document[c] => ToSet(Without(c)[d]) = ToSet(users[d]) \ {c}
                           /\ IsInjective(users[d]) => IsInjective(Without(c)[d])
<1>1. document[c] \in Doc \cup {NULL} /\ users \in [Doc -> Seq(Conn)] /\ NULL \notin Doc
  BY NullIsNothing DEF Types
<1>2. CASE document[c] = NULL
  BY <1>1, <1>2 DEF Without
<1>3. CASE document[c] # NULL
  <2> DEFINE d == document[c]
             list == users[d]
             rest == Only(list, Conn \ {c})
  <2>1. d \in Doc /\ list \in Seq(Conn)
    BY <1>1, <1>3
  <2>2. Without(c) = [users EXCEPT ![d] = rest]
    BY <1>3 DEF Without
  <2> HIDE DEF d, list
  <2>3. rest \in Seq(Conn) /\ ToSet(rest) = ToSet(list) \cap (Conn \ {c})
    BY <2>1, OnlyIs
  <2>4. IsInjective(list) => IsInjective(rest)
    BY <2>1, OnlyOrder
  <2>5. ToSet(list) \subseteq Conn
    BY <2>1 DEF ToSet
  <2> HIDE DEF rest
  <2>6. ToSet(rest) = ToSet(list) \ {c}
    BY <2>3, <2>5
  <2>7. \A x \in Doc : Without(c)[x] = IF x = d THEN rest ELSE users[x]
    BY <1>1, <2>1, <2>2
  <2>8. Without(c) \in [Doc -> Seq(Conn)]
    BY <1>1, <2>1, <2>2, <2>3
  <2> QED
    BY <2>4, <2>6, <2>7, <2>8 DEF list, d
<1> QED
  BY <1>2, <1>3

(* The kernel issues a submission.                                          *)
LEMMA IssueIs ==
  ASSUME Types, NEW l \in Loop, NEW done \in Seq(Entries), Issue(l, done)
  PROVE  /\ cq' \in Queues(Entries)
         /\ sq' \in Queues(Entries)
         /\ listening' \in BOOLEAN
         /\ sq'[l] = <<>> /\ \A n \in Loop : n # l => sq'[n] = sq[n]
         /\ \A n \in Loop : cq'[n] = cq[n] \o Only(done, Told(n))
         /\ \A n \in Loop : ToSet(cq'[n]) = ToSet(cq[n]) \cup (ToSet(done) \cap Told(n))
         /\ \A n \in Loop : \A P : Num(cq'[n], P) = Num(cq[n], P) + Num(done, Told(n) \cap P)
         /\ \A P : Rearm \notin P => Tally(cq', P) = Tally(cq, P) + Num(done, P)
<1> DEFINE r == [n \in Loop |-> Only(done, Told(n))]
<1>1. /\ cq \in Queues(Entries) /\ sq \in Queues(Entries) /\ listening \in BOOLEAN
  BY DEF Types
<1>2. /\ cq' = [n \in Loop |-> cq[n] \o r[n]]
      /\ listening' = (listening \/ Rearm \in ToSet(done))
      /\ sq' = [sq EXCEPT ![l] = <<>>]
  BY DEF Issue
<1>3. r \in Queues(Entries)
  <2>1. \A n \in Loop : Only(done, Told(n)) \in Seq(Entries)
    BY OnlyIs
  <2> QED
    BY <2>1 DEF Queues
<1>4. \A P : Rearm \notin P => Tally(r, P) = Num(done, P)
  BY TallyTold
<1>5. \A n \in Loop : /\ ToSet(cq'[n]) = ToSet(cq[n]) \cup (ToSet(done) \cap Told(n))
                      /\ cq'[n] = cq[n] \o Only(done, Told(n))
                      /\ \A P : Num(cq'[n], P) = Num(cq[n], P) + Num(done, Told(n) \cap P)
  <2> SUFFICES ASSUME NEW n \in Loop
               PROVE  /\ ToSet(cq'[n]) = ToSet(cq[n]) \cup (ToSet(done) \cap Told(n))
                      /\ cq'[n] = cq[n] \o Only(done, Told(n))
                      /\ \A P : Num(cq'[n], P) = Num(cq[n], P) + Num(done, Told(n) \cap P)
    OBVIOUS
  <2> DEFINE a == cq[n]
             b == Only(done, Told(n))
  <2>1. a \in Seq(Entries)
    BY <1>1 DEF Queues
  <2>2. /\ b \in Seq(Entries) /\ ToSet(b) = ToSet(done) \cap Told(n)
    BY OnlyIs
  <2>5. \A P : Num(b, P) = Num(done, Told(n) \cap P)
    BY OnlyNum
  <2>3. cq'[n] = a \o b
    BY <1>2
  <2> HIDE DEF a, b
  <2>4. ToSet(a \o b) = ToSet(a) \cup ToSet(b) /\ \A P : Num(a \o b, P) = Num(a, P) + Num(b, P)
    BY <2>1, <2>2, NumConcat
  <2> QED
    BY <2>2, <2>3, <2>4, <2>5 DEF a, b
<1> HIDE DEF r
<1>6. /\ cq' \in Queues(Entries)
      /\ \A P : Tally(cq', P) = Tally(cq, P) + Tally(r, P)
  <2> DEFINE u == [n \in Loop |-> cq[n] \o r[n]]
  <2>1. u \in Queues(Entries) /\ \A P : Tally(u, P) = Tally(cq, P) + Tally(r, P)
    BY <1>1, <1>3, TallyConcat
  <2>2. cq' = u
    BY <1>2
  <2> HIDE DEF u
  <2> QED
    BY <2>1, <2>2
<1>7. <<>> \in Seq(Entries)
  OBVIOUS
<1>8. sq' \in Queues(Entries) /\ sq'[l] = <<>> /\ \A n \in Loop : n # l => sq'[n] = sq[n]
  BY <1>1, <1>2, <1>7 DEF Queues
<1> QED
  BY <1>1, <1>2, <1>4, <1>5, <1>6, <1>8

(* Entries put at the end of one queue.                                     *)
Extend(q, l, r) == [q EXCEPT ![l] = @ \o r]

(* The entries and the tallies after entries are put at the end.            *)
LEMMA ExtendIs ==
  ASSUME NEW q \in Queues(Entries), NEW l \in Loop, NEW r \in Seq(Entries)
  PROVE  /\ Extend(q, l, r) \in Queues(Entries)
         /\ \A n \in Loop : n # l => Extend(q, l, r)[n] = q[n]
         /\ ToSet(Extend(q, l, r)[l]) = ToSet(q[l]) \cup ToSet(r)
         /\ \A P : Num(Extend(q, l, r)[l], P) = Num(q[l], P) + Num(r, P)
         /\ \A P : /\ Tally(Extend(q, l, r), P) = Tally(q, P) + Num(r, P)
                   /\ Tally(q, P) \in Nat /\ Num(r, P) \in Nat /\ Num(q[l], P) \in Nat
<1> DEFINE s == q[l]
           t == s \o r
           x == Extend(q, l, r)
<1>1. s \in Seq(Entries)
  BY DEF Queues
<1>2. x = [q EXCEPT ![l] = t]
  BY DEF Extend
<1> HIDE DEF s, x
<1>3. /\ t \in Seq(Entries) /\ ToSet(t) = ToSet(s) \cup ToSet(r)
      /\ \A P : Num(t, P) = Num(s, P) + Num(r, P)
  BY <1>1, NumConcat
<1> HIDE DEF t
<1>4. x \in Queues(Entries) /\ x[l] = t /\ \A n \in Loop : n # l => x[n] = q[n]
  BY <1>2, <1>3 DEF Queues
<1>5. \A P : /\ Tally(q, P) \in Nat /\ Tally(x, P) \in Nat /\ Num(q[l], P) \in Nat
             /\ Tally(x, P) = (Tally(q, P) - Num(q[l], P)) + Num(x[l], P)
  BY <1>4, TallyChange
<1>6. ASSUME NEW P
      PROVE  /\ Tally(x, P) = Tally(q, P) + Num(r, P)
             /\ Tally(q, P) \in Nat /\ Num(r, P) \in Nat /\ Num(q[l], P) \in Nat
  <2>1. Num(r, P) \in Nat
    BY NumType
  <2> QED
    BY <1>3, <1>4, <1>5, <2>1 DEF s
<1> QED
  BY <1>3, <1>4, <1>6 DEF s, t, x

(* The same, of a step that puts them there.                                *)
LEMMA Extended ==
  ASSUME NEW q \in Queues(Entries), NEW x, NEW l \in Loop, NEW r \in Seq(Entries),
         x = Extend(q, l, r)
  PROVE  /\ x \in Queues(Entries)
         /\ \A n \in Loop : n # l => x[n] = q[n]
         /\ ToSet(x[l]) = ToSet(q[l]) \cup ToSet(r)
  BY ExtendIs, SMTT(30)

(* One entry, as a queue.                                                   *)
LEMMA SingleIs ==
  ASSUME NEW e \in Entries
  PROVE  /\ <<e>> \in Seq(Entries) /\ ToSet(<<e>>) = {e}
         /\ \A P : Num(<<e>>, P) = One(e, P)
<1>1. <<e>> \in Seq(Entries)
  OBVIOUS
<1>2. ToSet(<<e>>) = {e}
  BY NumOne
<1>3. \A P : Num(<<e>>, P) = One(e, P)
  BY NumOne
<1> QED
  BY <1>1, <1>2, <1>3

(* The entry that a loop prepares goes to the end of its queue.             *)
LEMMA PreparedIs ==
  ASSUME Types, NEW l \in Loop, NEW e \in Entries
  PROVE  Prepared(l, e) = Extend(sq, l, <<e>>)
<1>1. sq[l] \in Seq(Entries)
  BY DEF Types, Queues
<1>2. Append(sq[l], e) = sq[l] \o <<e>>
  BY <1>1, AppendIsConcat
<1> QED
  BY <1>2 DEF Prepared, Extend

(* A client connects: a slot goes to each accept that succeeds.             *)
LEMMA ConnectIs ==
  ASSUME Types, Connect
  PROVE  \E e \in Entries :
           /\ e.op \in {"accept", "last_accept", "accept_failed"} /\ e.ring = Master
           /\ cq' = Extend(cq, Master, <<e>>)
           /\ slots' = slots + One(e, Accepts)
           /\ slots' \in Nat /\ slots' <= TableSize /\ slots' <= Cardinality(Conn)
           /\ listening' \in BOOLEAN /\ left' \in [Bounded -> Nat]
<1>1. /\ cq[Master] \in Seq(Entries) /\ left \in [Bounded -> Nat] /\ listening \in BOOLEAN
      /\ slots \in Nat /\ slots <= TableSize /\ slots <= Cardinality(Conn)
      /\ TableSize \in Nat /\ Cardinality(Conn) \in Nat
  BY LoopsAre, Sizes, ConnsAre DEF Types, Queues
<1>2. listening' \in BOOLEAN /\ left' \in [Bounded -> Nat]
  <2>1. UNCHANGED left \/ Spend("last_accept")
    BY DEF Connect
  <2>2. "last_accept" \in Bounded
    BY DEF Bounded
  <2> QED
    BY <1>1, <2>1, <2>2, SpendIs DEF Connect
<1>3. \E op \in {"accept", "last_accept", "accept_failed"} :
        /\ cq' = [cq EXCEPT ![Master] = Append(@, Accepted(op))]
        /\ op # "accept_failed" => slots < TableSize /\ slots' = slots + 1
        /\ op = "accept_failed" => slots' = slots
        /\ slots = TableSize \/ slots < Cardinality(Conn)
  BY DEF Connect
<1>4. PICK op \in {"accept", "last_accept", "accept_failed"} :
        /\ cq' = [cq EXCEPT ![Master] = Append(@, Accepted(op))]
        /\ op # "accept_failed" => slots < TableSize /\ slots' = slots + 1
        /\ op = "accept_failed" => slots' = slots
        /\ slots = TableSize \/ slots < Cardinality(Conn)
  BY <1>3
<1> DEFINE e == Accepted(op)
<1>5. /\ e \in Entries /\ e.op = op /\ e.ring = Master
  BY EntriesAre DEF Accepted, Entry
<1> HIDE DEF e
<1>6. Append(cq[Master], e) = cq[Master] \o <<e>>
  BY <1>1, <1>5, AppendIsConcat
<1>7. cq' = Extend(cq, Master, <<e>>)
  BY <1>4, <1>6 DEF Extend, e
<1>8. One(e, Accepts) = IF op = "accept_failed" THEN 0 ELSE 1
  BY <1>4, <1>5 DEF One, Accepts
<1>9. /\ slots' = slots + One(e, Accepts)
      /\ slots' \in Nat /\ slots' <= TableSize /\ slots' <= Cardinality(Conn)
  BY <1>1, <1>4, <1>8
<1> QED
  BY <1>2, <1>5, <1>7, <1>9

(* An accept is handled: the descriptor is passed on, and the request for   *)
(* accepts made again if it ended.                                          *)
LEMMA AcceptIs ==
  ASSUME Types, NEW l \in Loop, NEW e, HandleAccept(l, e)
  PROVE  \/ ended' = ended \cup {l} /\ UNCHANGED <<connVars, sq>> /\ (l # Master \/ e.op = "accept_failed")
         \/ /\ l = Master /\ e.op # "accept_failed" /\ conn_count' = conn_count + 1
            /\ UNCHANGED <<listening, slots, conn_map, closed, ended>>
            /\ conn_count' \in Conn =>
                 \E r \in Seq(Entries) :
                   /\ sq' = Extend(sq, l, r)
                   /\ \A f \in ToSet(r) : f = Entry("fd_pass", NextRing, conn_count', 0) \/ f = Rearm
<1>1. CASE ended' = ended \cup {l} /\ UNCHANGED <<connVars, sq>> /\ (l # Master \/ e.op = "accept_failed")
  BY <1>1
<1>2. CASE /\ l = Master /\ e.op # "accept_failed" /\ conn_count' = conn_count + 1
           /\ sq' = [sq EXCEPT ![l] =
               @ \o <<Entry("fd_pass", NextRing, conn_count', 0)>>
                 \o (IF e.op = "last_accept" THEN <<Rearm>> ELSE <<>>)]
           /\ UNCHANGED <<listening, slots, conn_map, closed, ended>>
  <2> SUFFICES ASSUME conn_count' \in Conn
               PROVE  \E r \in Seq(Entries) :
                   /\ sq' = Extend(sq, l, r)
                   /\ \A f \in ToSet(r) : f = Entry("fd_pass", NextRing, conn_count', 0) \/ f = Rearm
    BY <1>2
  <2> DEFINE g == Entry("fd_pass", NextRing, conn_count', 0)
             a == <<g>>
             b == IF e.op = "last_accept" THEN <<Rearm>> ELSE <<>>
  <2>1. g \in Entries
    <3>1. ConnectionIdToRing(conn_count + 1) = NextRing
      BY RingIs DEF Types
    <3>2. NextRing \in Loop
      BY <1>2, <3>1, RingIs
    <3> QED
      BY <3>2, EntriesAre
  <2> HIDE DEF g
  <2>2. a \in Seq(Entries) /\ ToSet(a) = {g}
    BY <2>1, SingleIs
  <2>3. b \in Seq(Entries) /\ ToSet(b) \subseteq {Rearm}
    <3>1. <<Rearm>> \in Seq(Entries) /\ ToSet(<<Rearm>>) = {Rearm}
      BY EntriesAre, SingleIs
    <3>2. <<>> \in Seq(Entries) /\ ToSet(<<>>) = {}
      BY NumEmpty
    <3> QED
      BY <3>1, <3>2
  <2>4. sq' = [sq EXCEPT ![l] = (@ \o a) \o b]
    BY <1>2 DEF g
  <2>5. sq[l] \in Seq(Entries)
    BY DEF Types, Queues
  <2> HIDE DEF a, b
  <2>6. (sq[l] \o a) \o b = sq[l] \o (a \o b)
    <3> DEFINE q == sq[l]
    <3>1. q \in Seq(Entries) /\ a \in Seq(Entries) /\ b \in Seq(Entries)
      BY <2>2, <2>3, <2>5
    <3> HIDE DEF q
    <3>2. (q \o a) \o b = q \o (a \o b)
      BY <3>1, ConcatAssociative, SMTT(30)
    <3> QED
      BY <3>2 DEF q
  <2>7. a \o b \in Seq(Entries) /\ ToSet(a \o b) = ToSet(a) \cup ToSet(b)
    BY <2>2, <2>3, NumConcat
  <2>8. sq' = Extend(sq, l, a \o b)
    BY <2>4, <2>6 DEF Extend
  <2> QED
    BY <2>2, <2>3, <2>7, <2>8 DEF g
<1> QED
  BY <1>1, <1>2 DEF HandleAccept

(* A completion less.                                                       *)
Took(l) == cq[l] # <<>> /\ cq' = [cq EXCEPT ![l] = Tail(@)]

(* The entries and the tallies after a completion is taken.                 *)
LEMMA TookIs ==
  ASSUME Types, NEW l \in Loop, Took(l)
  PROVE  /\ Head(cq[l]) \in Entries
         /\ cq' \in Queues(Entries)
         /\ ToSet(cq[l]) = {Head(cq[l])} \cup ToSet(cq'[l])
         /\ cq'[l] = Tail(cq[l]) /\ \A n \in Loop : n # l => cq'[n] = cq[n]
         /\ \A P : Num(cq[l], P) = One(Head(cq[l]), P) + Num(cq'[l], P) /\ Num(cq'[l], P) \in Nat
         /\ \A P : Tally(cq', P) \in Nat /\ Tally(cq, P) = Tally(cq', P) + One(Head(cq[l]), P)
<1> DEFINE s == cq[l]
           e == Head(s)
           t == Tail(s)
<1>1. cq \in Queues(Entries) /\ s \in Seq(Entries) /\ s # <<>>
  BY DEF Types, Queues, Took
<1>2. cq' = [cq EXCEPT ![l] = t]
  BY DEF Took
<1> HIDE DEF s
<1>3. /\ e \in Entries /\ t \in Seq(Entries)
      /\ ToSet(s) = {e} \cup ToSet(t)
      /\ \A P : Num(s, P) = One(e, P) + Num(t, P)
  BY <1>1, NumTail
<1> HIDE DEF t, e
<1>4. cq' \in Queues(Entries) /\ cq'[l] = t /\ \A n \in Loop : n # l => cq'[n] = cq[n]
  BY <1>1, <1>2, <1>3 DEF Queues
<1>5. \A P : Num(t, P) \in Nat
  BY <1>3, NumType
<1>6. \A P : /\ Tally(cq, P) \in Nat /\ Tally(cq', P) \in Nat /\ Num(cq[l], P) \in Nat
             /\ Tally(cq', P) = (Tally(cq, P) - Num(cq[l], P)) + Num(cq'[l], P)
  BY <1>1, <1>4, TallyChange
<1>7. ASSUME NEW P
      PROVE  Tally(cq', P) \in Nat /\ Tally(cq, P) = Tally(cq', P) + One(e, P)
  <2>1. One(e, P) \in Nat
    BY DEF One
  <2> QED
    BY <1>3, <1>4, <1>5, <1>6, <2>1 DEF s
<1> QED
  BY <1>3, <1>4, <1>5, <1>7 DEF s, t, e

-----------------------------------------------------------------------------
(* Types. *)

(* A behaviour begins with types.                                           *)
LEMMA TypesInit == Init => Types
<1> SUFFICES ASSUME Init PROVE Types
  OBVIOUS
<1>1. /\ left \in Budgets /\ conn_count = left["served"] /\ slots = conn_count
      /\ listening = TRUE
      /\ conn_map = [l \in Loop |-> {c \in 1..conn_count : ConnectionIdToRing(c) = l}]
      /\ closed = {} /\ lost = {} /\ ended = {}
      /\ document = [c \in Conn |-> NULL] /\ since = [c \in Conn |-> NULL]
      /\ task = [l \in Loop |-> Idle]
  BY DEF Init
<1>2. left \in [Bounded -> Nat] /\ "served" \in Bounded
  BY <1>1, Bounds DEF Bounded
<1>3. slots \in Nat /\ slots <= TableSize /\ slots <= Cardinality(Conn)
  BY <1>1, <1>2, Bounds
<1>4. conn_map \in [Loop -> SUBSET Conn]
  BY <1>1, <1>3, ConnsAre
<1>5. task \in [Loop -> Tasks]
  BY <1>1, IdleIs
<1>6. <<>> \in Seq(Entries) /\ <<>> \in Seq(Conn) /\ <<>> \in Seq(Nat) /\ <<>> \in Seq(Edits) /\ <<>> \in Seq(Contexts)
  OBVIOUS
<1>7. /\ sq \in Queues(Entries) /\ cq \in Queues(Entries)
      /\ users \in [Doc -> Seq(Conn)] /\ inbox \in [Conn -> Seq(Nat)]
      /\ edits \in Seq(Edits) /\ contexts \in Seq(Contexts)
  BY <1>6 DEF Init, Queues
<1>8. IsFiniteSet(lost)
  BY <1>1, FS_EmptySet
<1> QED
  BY <1>1, <1>2, <1>3, <1>4, <1>5, <1>7, <1>8 DEF Types

(* The record of a handler that starts.                                     *)
LEMMA StartIs ==
  ASSUME NEW r \in Requests, NEW s \in Stages, NEW c \in Conn, NEW d \in Doc \cup {NULL}, NEW m \in Nat
  PROVE  Task(r, s, c, d, m) \in Tasks
<1>1. <<>> \in Seq(Conn)
  OBVIOUS
<1> QED
  BY <1>1 DEF Task, Tasks

(* One loop's handler changes.                                              *)
LEMMA StartsIs ==
  ASSUME task \in [Loop -> Tasks], NEW l \in Loop, NEW t \in Tasks, Starts(l, t)
  PROVE  /\ task' \in [Loop -> Tasks] /\ task'[l] = t
         /\ \A n \in Loop : n # l => task'[n] = task[n]
BY DEF Starts

(* The release of a context leaves its message.                             *)
LEMMA ReleasedIs ==
  ASSUME Types, NEW k \in DOMAIN contexts
  PROVE  /\ Released(k) \in Seq(Contexts) /\ DOMAIN Released(k) = DOMAIN contexts
         /\ \A j \in DOMAIN contexts :
              /\ Released(k)[j].msg = contexts[j].msg
              /\ Released(k)[j].refs = IF j = k THEN contexts[j].refs - 1 ELSE contexts[j].refs
<1>1. contexts \in Seq(Contexts) /\ DOMAIN contexts = 1..Len(contexts) /\ Len(contexts) \in Nat
  BY DEF Types
<1>2. \A j \in DOMAIN contexts : contexts[j] \in Contexts
  BY <1>1
<1>3. Released(k) = [contexts EXCEPT ![k].refs = @ - 1]
  BY DEF Released
<1>4. DOMAIN Released(k) = DOMAIN contexts
  BY <1>3
<1>5. ASSUME NEW j \in DOMAIN contexts
      PROVE  /\ Released(k)[j] \in Contexts
             /\ Released(k)[j].msg = contexts[j].msg
             /\ Released(k)[j].refs = IF j = k THEN contexts[j].refs - 1 ELSE contexts[j].refs
  BY <1>2, <1>3 DEF Contexts
<1>6. Released(k) \in [1..Len(contexts) -> Contexts]
  BY <1>1, <1>3, <1>4, <1>5
<1>7. Released(k) \in Seq(Contexts)
  BY <1>1, <1>6
<1> QED
  BY <1>4, <1>5, <1>7

(* The message of a context that is delivered goes to the end of an inbox.  *)
LEMMA DeliveredIs ==
  ASSUME Types, NEW l \in Loop, NEW c \in Conn, NEW k \in DOMAIN contexts
  PROVE  /\ Delivered(l, c, k) \in [Conn -> Seq(Nat)]
         /\ \A b \in Conn : b # c => Delivered(l, c, k)[b] = inbox[b]
         /\ Delivered(l, c, k)[c] = IF Online(l, c) /\ contexts[k].msg # Notice
                                    THEN Append(inbox[c], contexts[k].msg) ELSE inbox[c]
<1>1. inbox \in [Conn -> Seq(Nat)] /\ contexts[k].msg \in Nat
  <2>1. inbox \in [Conn -> Seq(Nat)] /\ contexts \in Seq(Contexts)
    BY DEF Types
  <2>2. contexts[k] \in Contexts
    BY <2>1
  <2> QED
    BY <2>1, <2>2 DEF Contexts
<1>2. Append(inbox[c], contexts[k].msg) \in Seq(Nat)
  BY <1>1
<1> QED
  BY <1>1, <1>2 DEF Delivered

(* What is known of a handler at each of its stages.                        *)
LEMMA Staged ==
  ASSUME Types, Control, NEW l \in Loop
  PROVE  LET t == task[l]
         IN  /\ t \in Tasks
             /\ t.stage # "none" => InHandler(l, t)
             /\ t.stage = "none" => t = Idle
             /\ t.stage \in {"JoinUser", "GetUserList", "GetContent"} => t.rest = <<>>
             /\ t.stage = "JoinUser" => t.request = "open" /\ since[t.conn] = NULL
             /\ t.stage = "GetUserList" =>
                  t.request \in {"open", "edit", "close"} /\ t.doc \in Doc
             /\ t.stage = "Post" => /\ t.rest # <<>> /\ Head(t.rest) \in Conn /\ Tail(t.rest) \in Seq(Conn)
                                    /\ t.ctx \in DOMAIN contexts /\ contexts[t.ctx].msg = t.msg
             /\ t.stage = "GetContent" => t.request = "open"
<1> DEFINE t == task[l]
<1>1. t \in Tasks /\ t.rest \in Seq(Conn) /\ t.request \in Requests
  BY DEF Types, Tasks
<1>2. t = Idle \/ InHandler(l, t)
  BY DEF Control
<1>3. Idle.stage = "none" /\ Idle.request = "none"
  BY DEF Idle, Task
<1> HIDE DEF t
<1>4. t.stage # "none" => InHandler(l, t)
  BY <1>2, <1>3
<1>5. InHandler(l, t) => AtStage(t) /\ t.request # "none"
  BY DEF InHandler, Known
<1>6. t.stage = "none" => ~AtStage(t)
  BY DEF AtStage
<1>7. t.stage = "none" => t = Idle
  BY <1>2, <1>5, <1>6
<1>8. t.stage # "none" =>
        /\ t.stage \in {"JoinUser", "GetUserList", "GetContent"} => t.rest = <<>>
        /\ t.stage = "JoinUser" => t.request = "open" /\ since[t.conn] = NULL
        /\ t.stage = "GetUserList" => t.request \in {"open", "edit", "close"} /\ t.doc \in Doc
        /\ t.stage = "Post" => t.rest # <<>> /\ t.ctx \in DOMAIN contexts /\ contexts[t.ctx].msg = t.msg
        /\ t.stage = "GetContent" => t.request = "open"
  BY <1>1, <1>4, <1>5 DEF AtStage, Requests
<1>9. t.rest # <<>> => Head(t.rest) \in Conn /\ Tail(t.rest) \in Seq(Conn)
  BY <1>1
<1> QED
  BY <1>1, <1>4, <1>7, <1>8, <1>9 DEF t

(* Whom a connection's loop serves, and what its handler starts from.       *)
LEMMA ServedIs ==
  ASSUME Placed, NEW l \in Loop, NEW c \in Conn, Serves(l, c)
  PROVE  task[l] = Idle /\ ConnectionIdToRing(c) = l /\ l \notin ended
BY DEF Placed, Serves

(* What the head of a completion queue is.                                  *)
LEMMA Completed ==
  ASSUME Types, Placed, NEW l \in Loop, cq[l] # <<>>
  PROVE  LET e == Head(cq[l])
         IN  /\ e \in Entries /\ Arrives(l, e)
             /\ e.op \in {"fd_pass", "msg"} => e.conn \in Conn /\ ConnectionIdToRing(e.conn) = l
             /\ e.op = "msg" => e.ctx \in DOMAIN contexts
<1> DEFINE s == cq[l]
           e == Head(s)
<1>1. s \in Seq(Entries)
  BY DEF Types, Queues
<1>2. e \in Entries /\ e \in ToSet(s)
  <2>1. e = s[1] /\ 1 \in DOMAIN s /\ e \in Entries
    BY <1>1
  <2> HIDE DEF e
  <2> QED
    BY <2>1 DEF ToSet
<1> HIDE DEF e
<1>3. Arrives(l, e)
  BY <1>2 DEF Placed
<1> QED
  BY <1>2, <1>3 DEF Arrives, IsMail, Leads, e

(* There is a number left for a connection that is accepted.                *)
LEMMA NumberLeft ==
  ASSUME Types, Accepting, Took(Master), Head(cq[Master]).op \in {"accept", "last_accept"}
  PROVE  conn_count + 1 \in Conn /\ conn_count + 1 \in Nat
<1>1. Head(cq[Master]) \in Accepts
  BY TookIs, LoopsAre DEF Accepts
<1>2. Num(cq[Master], Accepts) = 1 + Num(cq'[Master], Accepts) /\ Num(cq'[Master], Accepts) \in Nat
  BY <1>1, TookIs, LoopsAre DEF One
<1>3. conn_count \in Nat /\ slots \in Nat /\ slots <= Cardinality(Conn)
  BY DEF Types
<1> QED
  BY <1>2, <1>3, ConnsAre DEF Accepting

(* Every step keeps the types.                                              *)
LEMMA TypesNext ==
  ASSUME Types, Placed, Accepting, Control, [Next]_vars
  PROVE  Types'
<1> USE DEF Requests, Stages
<1>0. /\ left \in [Bounded -> Nat] /\ task \in [Loop -> Tasks]
      /\ "open" \in Bounded /\ "edit" \in Bounded /\ "leave" \in Bounded /\ "chat" \in Bounded
      /\ "failure" \in Bounded /\ "last_accept" \in Bounded
      /\ Notice \in Nat /\ NULL \in Doc \cup {NULL}
  BY DEF Types, Bounded, Notice
<1>1. CASE UNCHANGED vars
  BY <1>1 DEF Types, vars, connVars, docVars, ringVars, msgVars
<1>2. CASE Connect
  <2>1. PICK e \in Entries : cq' = Extend(cq, Master, <<e>>)
    BY <1>2, ConnectIs
  <2>2. <<e>> \in Seq(Entries) /\ cq \in Queues(Entries) /\ Master \in Loop
    BY SingleIs, LoopsAre DEF Types
  <2>3. cq' \in Queues(Entries)
    BY <2>1, <2>2, ExtendIs
  <2>4. /\ slots' \in Nat /\ slots' <= TableSize /\ slots' <= Cardinality(Conn)
        /\ listening' \in BOOLEAN /\ left' \in [Bounded -> Nat]
    BY <1>2, ConnectIs
  <2> QED
    BY <1>2, <2>3, <2>4 DEF Types, Connect, docVars, msgVars
<1>3. ASSUME NEW l \in Loop, Submit(l) PROVE Types'
  <2>1. PICK done \in Seq(Entries) : Issue(l, done)
    <3>1. sq[l] \in Seq(Entries)
      BY DEF Types, Queues
    <3>2. \A i \in DOMAIN sq[l] : RemoveAt(sq[l], i) \in Seq(Entries)
      BY <3>1, NumRemoveAt
    <3> QED
      BY <1>3, <3>1, <3>2 DEF Submit
  <2>2. sq' \in Queues(Entries) /\ cq' \in Queues(Entries) /\ listening' \in BOOLEAN
    BY <2>1, IssueIs
  <2>3. left' \in [Bounded -> Nat]
    BY <1>0, <1>3, SpendIs DEF Submit
  <2>4. lost' \subseteq Entries /\ IsFiniteSet(lost')
    <3>1. lost \subseteq Entries /\ IsFiniteSet(lost) /\ \A i \in DOMAIN sq[l] : sq[l][i] \in Entries
      BY DEF Types, Queues
    <3>2. lost' = lost \/ \E i \in DOMAIN sq[l] : lost' = lost \cup {sq[l][i]}
      BY <1>3 DEF Submit
    <3> QED
      BY <3>1, <3>2, FS_AddElement
  <2> QED
    BY <1>3, <2>2, <2>3, <2>4 DEF Types, Submit, docVars, msgVars
<1>4. ASSUME NEW l \in Loop, Handle(l) PROVE Types'
  <2> DEFINE e == Head(cq[l])
  <2>0. Took(l)
    BY <1>4 DEF Handle, Took
  <2>1. cq' \in Queues(Entries)
    BY <2>0, TookIs
  <2>2. /\ e.op \in {"fd_pass", "msg"} => e.conn \in Conn
        /\ e.op = "msg" => e.ctx \in DOMAIN contexts
    BY <2>0, Completed DEF Took
  <2>3. UNCHANGED <<docVars, task, lost, left>>
    BY <1>4 DEF Handle
  <2>4. CASE e.op \in {"accept", "last_accept", "accept_failed"} /\ HandleAccept(l, e) /\ UNCHANGED msgVars
    <3>1. CASE ended' = ended \cup {l} /\ UNCHANGED <<connVars, sq>>
      BY <2>1, <2>3, <2>4, <3>1 DEF Types, connVars, docVars, msgVars
    <3>2. CASE /\ l = Master /\ e.op # "accept_failed" /\ conn_count' = conn_count + 1
               /\ UNCHANGED <<listening, slots, conn_map, closed, ended>>
      <4>1. conn_count' \in Conn /\ conn_count' \in Nat
        BY <2>0, <2>4, <3>2, NumberLeft DEF Took
      <4>2. PICK r \in Seq(Entries) : sq' = Extend(sq, l, r)
        BY <2>4, <3>2, <4>1, AcceptIs
      <4>3. sq' \in Queues(Entries)
        BY <4>2, ExtendIs DEF Types
      <4> QED
        BY <2>1, <2>3, <2>4, <3>2, <4>1, <4>3 DEF Types, docVars, msgVars
    <3> QED
      BY <2>4, <3>1, <3>2, AcceptIs
  <2>5. CASE e.op = "fd_pass" /\ conn_map' = [conn_map EXCEPT ![l] = @ \cup {e.conn}]
             /\ UNCHANGED <<conn_count, listening, slots, closed, sq, ended, msgVars>>
    <3> HIDE DEF e
    <3>1. conn_map' \in [Loop -> SUBSET Conn]
      BY <2>2, <2>5 DEF Types
    <3> QED
      BY <2>1, <2>3, <2>5, <3>1 DEF Types, docVars, msgVars
  <2>6. CASE e.op = "msg" /\ Receive(l, e.conn, e.ctx) /\ UNCHANGED <<connVars, sq, ended>>
    <3> HIDE DEF e
    <3>1. contexts' \in Seq(Contexts)
      BY <2>2, <2>6, ReleasedIs DEF Receive
    <3>2. inbox' \in [Conn -> Seq(Nat)]
      BY <2>2, <2>6, DeliveredIs DEF Receive
    <3> QED
      BY <2>1, <2>3, <2>6, <3>1, <3>2 DEF Types, docVars, connVars
  <2> QED
    BY <1>4, <2>4, <2>5, <2>6 DEF Handle
<1>5. ASSUME NEW l \in Loop, JoinUser(l) PROVE Types'
  <2> DEFINE t == task[l]
             list == users[t.doc]
  <2>1. t \in Tasks /\ t.conn \in Conn /\ t.doc \in Doc
    BY <1>5, Staged DEF JoinUser, InHandler, Known
  <2> HIDE DEF t
  <2>2. users' = [users EXCEPT ![t.doc] = <<t.conn>> \o @] /\ Starts(l, [t EXCEPT !.stage = "GetUserList"])
    BY <1>5 DEF JoinUser, t
  <2>3. [t EXCEPT !.stage = "GetUserList"] \in Tasks
    BY <2>1 DEF Tasks
  <2>4. task' \in [Loop -> Tasks]
    BY <1>0, <2>2, <2>3, StartsIs
  <2>5. users' \in [Doc -> Seq(Conn)]
    <3>1. list \in Seq(Conn) /\ users \in [Doc -> Seq(Conn)]
      BY <2>1 DEF Types
    <3> HIDE DEF list
    <3>2. <<t.conn>> \o list \in Seq(Conn)
      BY <2>1, <3>1
    <3> QED
      BY <2>1, <2>2, <3>1, <3>2 DEF list
  <2> QED
    BY <1>5, <2>4, <2>5 DEF Types, JoinUser, connVars, ringVars, msgVars
<1>6. ASSUME NEW l \in Loop, GetUserList(l) PROVE Types'
  <2> DEFINE t == task[l]
             list == users[t.doc]
             new == [refs |-> References(t, list), msg |-> t.msg]
             to == Receivers(t, list)
             u == [t EXCEPT !.ctx = Len(contexts) + 1]
  <2>1. t \in Tasks /\ t.doc \in Doc
    BY <1>6, Staged DEF GetUserList
  <2>2. list \in Seq(Conn) /\ contexts \in Seq(Contexts)
    BY <2>1 DEF Types
  <2> HIDE DEF t, list
  <2>3. new \in Contexts
    BY <2>1, <2>2 DEF Contexts, Tasks, References
  <2>4. u \in Tasks
    <3>1. Len(contexts) + 1 \in Nat
      BY <2>2
    <3> QED
      BY <2>1, <3>1 DEF Tasks
  <2>5. to \in Seq(Conn) /\ <<>> \in Seq(Conn)
    BY <2>2, OnlyIs DEF Receivers
  <2>6. \/ contexts' = Append(contexts, new) /\ Starts(l, Posting(u, to))
        \/ contexts' = contexts /\ Starts(l, Posting(t, <<>>))
    BY <1>6 DEF GetUserList, t, list
  <2> HIDE DEF new, u, to
  <2>7. Posting(u, to) \in Tasks /\ Posting(t, <<>>) \in Tasks
    BY <2>1, <2>4, <2>5, PostingIs
  <2>8. task' \in [Loop -> Tasks]
    BY <1>0, <2>6, <2>7, StartsIs
  <2>9. contexts' \in Seq(Contexts)
    BY <2>2, <2>3, <2>6
  <2> QED
    BY <1>6, <2>8, <2>9 DEF Types, GetUserList, connVars, docVars, ringVars
<1>7. ASSUME NEW l \in Loop, Post(l) PROVE Types'
  <2> DEFINE t == task[l]
             to == Head(t.rest)
             rest == Tail(t.rest)
  <2>1. /\ t \in Tasks /\ to \in Conn /\ rest \in Seq(Conn)
        /\ t.ctx \in DOMAIN contexts
    BY <1>7, Staged DEF Post
  <2>2. t.ctx \in Nat
    BY <2>1 DEF Tasks
  <2>3. /\ Starts(l, Posting(t, rest))
        /\ \/ /\ sq' = Prepared(l, Entry("msg", ConnectionIdToRing(to), to, t.ctx))
              /\ UNCHANGED msgVars
           \/ sq' = Prepared(l, Unprepared(l)) /\ Receive(l, to, t.ctx)
    BY <1>7 DEF Post
  <2> HIDE DEF t, to, rest
  <2>4. task' \in [Loop -> Tasks]
    BY <1>0, <2>1, <2>3, PostingIs, StartsIs
  <2>5. \A e \in Entries : Prepared(l, e) \in Queues(Entries)
    <3> SUFFICES ASSUME NEW e \in Entries PROVE Prepared(l, e) \in Queues(Entries)
      OBVIOUS
    <3>1. <<e>> \in Seq(Entries) /\ sq \in Queues(Entries)
      BY SingleIs DEF Types
    <3>2. Extend(sq, l, <<e>>) \in Queues(Entries)
      BY <3>1, ExtendIs
    <3> QED
      BY <3>2, PreparedIs
  <2>6. Entry("msg", ConnectionIdToRing(to), to, t.ctx) \in Entries /\ Unprepared(l) \in Entries
    BY <2>1, <2>2, RingIs, EntriesAre
  <2>7. sq' \in Queues(Entries)
    BY <2>3, <2>5, <2>6
  <2>8. contexts' \in Seq(Contexts) /\ inbox' \in [Conn -> Seq(Nat)]
    <3>1. CASE UNCHANGED msgVars
      BY <3>1 DEF msgVars, Types
    <3>2. CASE Receive(l, to, t.ctx)
      BY <2>1, <3>2, ReleasedIs, DeliveredIs DEF Receive
    <3> QED
      BY <2>3, <3>1, <3>2
  <2> QED
    BY <1>7, <2>4, <2>7, <2>8 DEF Types, Post, connVars, docVars
<1>8. ASSUME NEW l \in Loop, GetContent(l) PROVE Types'
  <2>1. Len(edits) \in Nat
    BY DEF Types
  <2>2. task' \in [Loop -> Tasks]
    BY <1>0, <1>8, IdleIs, StartsIs DEF GetContent
  <2>3. since' \in [Conn -> Nat \cup {NULL}]
    BY <1>8, <2>1 DEF GetContent, Types
  <2> QED
    BY <1>8, <2>2, <2>3 DEF Types, GetContent, connVars, ringVars, msgVars
<1>9. ASSUME NEW l \in Loop, NEW c \in Conn, NEW d \in Doc, OpenHandle(l, c, d) PROVE Types'
  <2>1. Task("open", "JoinUser", c, d, Notice) \in Tasks
    BY <1>0, StartIs
  <2>2. task' \in [Loop -> Tasks]
    BY <1>0, <1>9, <2>1, StartsIs DEF OpenHandle
  <2>3. users' \in [Doc -> Seq(Conn)]
    BY <1>9, WithoutIs DEF OpenHandle
  <2>4. left' \in [Bounded -> Nat]
    BY <1>0, <1>9, SpendIs DEF OpenHandle
  <2>5. document' \in [Conn -> Doc \cup {NULL}] /\ since' \in [Conn -> Nat \cup {NULL}]
    BY <1>9 DEF OpenHandle, Types
  <2> QED
    BY <1>9, <2>2, <2>3, <2>4, <2>5 DEF Types, OpenHandle, connVars, ringVars, msgVars
<1>10. ASSUME NEW l \in Loop, NEW c \in Conn, EditHandle(l, c) PROVE Types'
  <2>1. document[c] \in Doc /\ edits \in Seq(Edits) /\ Len(edits) + 1 \in Nat
    BY <1>10 DEF EditHandle, Types
  <2>2. Task("edit", "GetUserList", c, document[c], Len(edits) + 1) \in Tasks
    BY <1>0, <2>1, StartIs
  <2>3. task' \in [Loop -> Tasks]
    BY <1>0, <1>10, <2>2, StartsIs DEF EditHandle
  <2>4. left' \in [Bounded -> Nat]
    BY <1>0, <1>10, SpendIs DEF EditHandle
  <2>5. edits' \in Seq(Edits)
    <3>1. [by |-> c, doc |-> document[c]] \in Edits
      BY <2>1 DEF Edits
    <3>2. edits' = Append(edits, [by |-> c, doc |-> document[c]])
      BY <1>10 DEF EditHandle
    <3> QED
      BY <2>1, <3>1, <3>2
  <2> QED
    BY <1>10, <2>3, <2>4, <2>5 DEF Types, EditHandle, connVars, ringVars, msgVars
<1>11. ASSUME NEW l \in Loop, NEW c \in Conn, Leave(c) /\ (Starts(l, Leaving(c)) \/ UNCHANGED task)
       PROVE  /\ users' \in [Doc -> Seq(Conn)] /\ document' \in [Conn -> Doc \cup {NULL}]
              /\ since' \in [Conn -> Nat \cup {NULL}] /\ task' \in [Loop -> Tasks]
  <2>1. document[c] \in Doc \cup {NULL}
    BY DEF Types
  <2>2. Leaving(c) \in Tasks
    BY <1>0, <2>1, StartIs DEF Leaving
  <2>3. task' \in [Loop -> Tasks]
    BY <1>0, <1>11, <2>2, StartsIs
  <2>4. users' \in [Doc -> Seq(Conn)]
    BY <1>11, WithoutIs DEF Leave
  <2> QED
    BY <1>11, <2>3, <2>4 DEF Leave, Types
<1>12. ASSUME NEW l \in Loop, NEW c \in Conn, CloseHandle(l, c) PROVE Types'
  <2>1. left' \in [Bounded -> Nat]
    BY <1>0, <1>12, SpendIs DEF CloseHandle
  <2> QED
    BY <1>11, <1>12, <2>1 DEF Types, CloseHandle, connVars, ringVars, msgVars
<1>13. ASSUME NEW l \in Loop, NEW c \in Conn, NEW to \in Conn, ChatHandle(l, c, to) PROVE Types'
  <2> DEFINE t == Task("chat", "Post", c, NULL, Notice)
             u == [t EXCEPT !.rest = <<to>>, !.ctx = Len(contexts) + 1]
             new == [refs |-> 1, msg |-> Notice]
  <2>1. t \in Tasks
    BY <1>0, StartIs
  <2>2. contexts \in Seq(Contexts) /\ Len(contexts) + 1 \in Nat
    BY DEF Types
  <2>3. new \in Contexts
    BY <1>0 DEF Contexts
  <2>4. contexts' = Append(contexts, new) /\ Starts(l, u)
    BY <1>13 DEF ChatHandle
  <2> HIDE DEF t, new
  <2>5. u \in Tasks
    <3>1. <<to>> \in Seq(Conn)
      OBVIOUS
    <3> DEFINE r == <<to>>
               k == Len(contexts) + 1
               v == [t EXCEPT !.rest = r]
    <3>2. r \in Seq(Conn) /\ k \in Nat
      BY <2>2, <3>1
    <3> HIDE DEF r, k
    <3>3. v \in Tasks
      BY <2>1, <3>2 DEF Tasks
    <3> HIDE DEF v
    <3>4. [v EXCEPT !.ctx = k] \in Tasks
      BY <3>2, <3>3 DEF Tasks
    <3> QED
      BY <3>4 DEF v, r, k
  <2> HIDE DEF u
  <2>6. task' \in [Loop -> Tasks]
    BY <1>0, <2>4, <2>5, StartsIs
  <2>7. contexts' \in Seq(Contexts)
    BY <2>2, <2>3, <2>4
  <2>8. left' \in [Bounded -> Nat]
    BY <1>0, <1>13, SpendIs DEF ChatHandle
  <2> QED
    BY <1>13, <2>6, <2>7, <2>8 DEF Types, ChatHandle, connVars, docVars, ringVars
<1>14. ASSUME NEW l \in Loop, NEW c \in Conn, Close(l, c) PROVE Types'
  <2>1. left' \in [Bounded -> Nat]
    BY <1>0, <1>14, SpendIs DEF Close
  <2> QED
    BY <1>14, <2>1 DEF Types, Close, docVars, ringVars, msgVars
<1>15. ASSUME NEW l \in Loop, NEW c \in Conn, Delete(l, c) PROVE Types'
  <2>1. conn_map' \in [Loop -> SUBSET Conn]
    BY <1>15 DEF Delete, Types
  <2>2. Leave(c) /\ (Starts(l, Leaving(c)) \/ UNCHANGED task)
    BY <1>15 DEF Delete
  <2>3. /\ users' \in [Doc -> Seq(Conn)] /\ document' \in [Conn -> Doc \cup {NULL}]
        /\ since' \in [Conn -> Nat \cup {NULL}] /\ task' \in [Loop -> Tasks]
    BY <1>11, <2>2
  <2> QED
    BY <1>15, <2>1, <2>3 DEF Types, Delete, ringVars, msgVars
<1> QED
  BY <1>1, <1>2, <1>3, <1>4, <1>5, <1>6, <1>7, <1>8, <1>9, <1>10, <1>12, <1>13, <1>14, <1>15
  DEF Next, Run, Request

-----------------------------------------------------------------------------
(* Placed. *)

(* A submission issues what waits, but for one request that may fail.       *)
LEMMA SubmitIs ==
  ASSUME Types, NEW l \in Loop, Submit(l)
  PROVE  \E done \in Seq(Entries) :
           /\ Issue(l, done) /\ ToSet(done) \subseteq ToSet(sq[l])
           /\ \/ done = sq[l] /\ lost' = lost
              \/ \E i \in DOMAIN sq[l] :
                   /\ done = RemoveAt(sq[l], i)
                   /\ sq[l][i] \in Entries /\ sq[l][i] \in ToSet(sq[l]) /\ sq[l][i].ring # l
                   /\ lost' = lost \cup {sq[l][i]}
                   /\ \A P : Num(sq[l], P) = Num(done, P) + One(sq[l][i], P)
<1> DEFINE s == sq[l]
<1>1. s \in Seq(Entries)
  BY DEF Types, Queues
<1>2. \/ Issue(l, s) /\ lost' = lost
      \/ \E i \in DOMAIN s : s[i].ring # l /\ lost' = lost \cup {s[i]} /\ Issue(l, RemoveAt(s, i))
  BY DEF Submit
<1> HIDE DEF s
<1>3. ASSUME NEW i \in DOMAIN s
      PROVE  /\ RemoveAt(s, i) \in Seq(Entries) /\ ToSet(RemoveAt(s, i)) \subseteq ToSet(s)
             /\ s[i] \in Entries /\ s[i] \in ToSet(s)
             /\ \A P : Num(s, P) = Num(RemoveAt(s, i), P) + One(s[i], P)
  <2>1. \A P : /\ RemoveAt(s, i) \in Seq(Entries) /\ ToSet(RemoveAt(s, i)) \subseteq ToSet(s)
               /\ s[i] \in Entries /\ s[i] \in ToSet(s)
               /\ Num(s, P) = Num(RemoveAt(s, i), P) + One(s[i], P)
    BY <1>1, NumRemoveAt
  <2> QED
    BY <2>1
<1>4. CASE Issue(l, s) /\ lost' = lost
  BY <1>1, <1>4 DEF s
<1>5. CASE \E i \in DOMAIN s : s[i].ring # l /\ lost' = lost \cup {s[i]} /\ Issue(l, RemoveAt(s, i))
  <2>1. PICK i \in DOMAIN s : s[i].ring # l /\ lost' = lost \cup {s[i]} /\ Issue(l, RemoveAt(s, i))
    BY <1>5
  <2> DEFINE done == RemoveAt(s, i)
  <2>2. /\ done \in Seq(Entries) /\ ToSet(done) \subseteq ToSet(s)
        /\ s[i] \in Entries /\ s[i] \in ToSet(s)
        /\ \A P : Num(s, P) = Num(done, P) + One(s[i], P)
    BY <1>3
  <2>3. Issue(l, done) /\ s[i].ring # l /\ lost' = lost \cup {s[i]}
    BY <2>1
  <2>4. \E j \in DOMAIN s :
                   /\ done = RemoveAt(s, j)
                   /\ s[j] \in Entries /\ s[j] \in ToSet(s) /\ s[j].ring # l
                   /\ lost' = lost \cup {s[j]}
                   /\ \A P : Num(s, P) = Num(done, P) + One(s[j], P)
    BY <2>2, <2>3
  <2> HIDE DEF done
  <2> QED
    BY <2>2, <2>3, <2>4 DEF s
<1> QED
  BY <1>2, <1>4, <1>5

(* Contexts are added, and keep their messages; so do edits.                *)
Grows == /\ DOMAIN contexts \subseteq DOMAIN contexts'
         /\ \A k \in DOMAIN contexts : contexts'[k].msg = contexts[k].msg
         /\ Len(edits) <= Len(edits')
         /\ \A n \in DOMAIN edits : n \in DOMAIN edits' /\ edits'[n] = edits[n]

(* What Append keeps, and where it puts the new element.                    *)
LEMMA Appended ==
  ASSUME NEW S, NEW s \in Seq(S), NEW x
  PROVE  /\ Len(Append(s, x)) = Len(s) + 1
         /\ DOMAIN s = 1..Len(s) /\ DOMAIN Append(s, x) = 1..(Len(s) + 1)
         /\ Append(s, x)[Len(s) + 1] = x
         /\ \A i \in DOMAIN s : i \in DOMAIN Append(s, x) /\ Append(s, x)[i] = s[i]
  OBVIOUS

(* The number of the next context is not that of one there is.              *)
LEMMA NextContext ==
  ASSUME NEW S, NEW s \in Seq(S)
  PROVE  \E n \in Nat : n = Len(s) + 1 /\ n \notin DOMAIN s
<1>1. PICK m \in Nat : m = Len(s) /\ DOMAIN s = 1..m
  OBVIOUS
<1>2. m + 1 \in Nat /\ m + 1 \notin 1..m
  OBVIOUS
<1> QED
  BY <1>1, <1>2

(* No step takes a context or an edit back, or changes its message.         *)
LEMMA ContextsGrow ==
  ASSUME Types, Placed, Control, [Next]_vars
  PROVE  Grows
<1>1. contexts \in Seq(Contexts) /\ edits \in Seq(Edits) /\ Len(edits) \in Nat
  BY DEF Types
<1>2. CASE UNCHANGED contexts /\ UNCHANGED edits
  BY <1>1, <1>2 DEF Grows
<1>3. ASSUME NEW x, contexts' = Append(contexts, x), UNCHANGED edits
      PROVE  Grows
  <2>1. \A i \in DOMAIN contexts : i \in DOMAIN contexts' /\ contexts'[i] = contexts[i]
    BY <1>1, <1>3, Appended
  <2> QED
    BY <1>1, <1>3, <2>1 DEF Grows
<1>4. ASSUME NEW x, edits' = Append(edits, x), UNCHANGED contexts
      PROVE  Grows
  <2>1. Len(edits') = Len(edits) + 1 /\ \A i \in DOMAIN edits : i \in DOMAIN edits' /\ edits'[i] = edits[i]
    BY <1>1, <1>4, Appended
  <2> QED
    BY <1>1, <1>4, <2>1 DEF Grows
<1>5. ASSUME NEW k \in DOMAIN contexts, contexts' = Released(k), UNCHANGED edits
      PROVE  Grows
  <2>1. DOMAIN contexts' = DOMAIN contexts /\ \A j \in DOMAIN contexts : contexts'[j].msg = contexts[j].msg
    BY <1>5, ReleasedIs
  <2> QED
    BY <1>1, <1>5, <2>1 DEF Grows
<1>6. CASE UNCHANGED vars
  BY <1>2, <1>6 DEF vars, msgVars, docVars
<1>7. CASE Connect
  BY <1>2, <1>7 DEF Connect, docVars, msgVars
<1>8. ASSUME NEW l \in Loop, Submit(l) \/ JoinUser(l) \/ GetContent(l) PROVE Grows
  BY <1>2, <1>8 DEF Submit, JoinUser, GetContent, docVars, msgVars
<1>9. ASSUME NEW l \in Loop, Handle(l) PROVE Grows
  <2> DEFINE e == Head(cq[l])
  <2>1. e.op = "msg" => e.ctx \in DOMAIN contexts
    BY <1>9, Completed DEF Handle
  <2>2. /\ UNCHANGED edits
        /\ UNCHANGED contexts \/ (e.op = "msg" /\ contexts' = Released(e.ctx))
    BY <1>9 DEF Handle, docVars, msgVars, Receive
  <2> HIDE DEF e
  <2> QED
    BY <1>2, <1>5, <2>1, <2>2
<1>10. ASSUME NEW l \in Loop, GetUserList(l) PROVE Grows
  <2>1. /\ UNCHANGED edits
        /\ UNCHANGED contexts \/ \E x : contexts' = Append(contexts, x)
    BY <1>10 DEF GetUserList, docVars, msgVars
  <2> QED
    BY <1>2, <1>3, <2>1
<1>11. ASSUME NEW l \in Loop, Post(l) PROVE Grows
  <2>1. task[l].ctx \in DOMAIN contexts
    BY <1>11, Staged DEF Post
  <2>2. /\ UNCHANGED edits
        /\ UNCHANGED contexts \/ contexts' = Released(task[l].ctx)
    BY <1>11 DEF Post, docVars, msgVars, Receive
  <2> QED
    BY <1>2, <1>5, <2>1, <2>2
<1>12. ASSUME NEW l \in Loop, NEW c \in Conn, Request(l, c) PROVE Grows
  <2>1. \/ UNCHANGED edits /\ UNCHANGED contexts
        \/ UNCHANGED edits /\ \E x : contexts' = Append(contexts, x)
        \/ UNCHANGED contexts /\ \E x : edits' = Append(edits, x)
    BY <1>12 DEF Request, OpenHandle, EditHandle, CloseHandle, ChatHandle, Close, Delete, Leave,
                 docVars, msgVars
  <2> QED
    BY <1>2, <1>3, <1>4, <2>1
<1> QED
  BY <1>6, <1>7, <1>8, <1>9, <1>10, <1>11, <1>12 DEF Next, Run

(* At first no queue has an entry, and the connections are where their ids  *)
(* lead.                                                                    *)
LEMMA PlacedInit == Init => Placed
<1> SUFFICES ASSUME Init PROVE Placed
  OBVIOUS
<1>1. \A l \in Loop : sq[l] = <<>> /\ cq[l] = <<>>
  BY DEF Init
<1>2. ToSet(<<>>) = {}
  BY NumEmpty
<1>3. \A l \in Loop : \A c \in conn_map[l] : ConnectionIdToRing(c) = l
  BY DEF Init
<1>4. \A c \in Conn : document[c] = NULL
  BY DEF Init
<1>5. lost = {}
  BY DEF Init
<1> QED
  BY <1>1, <1>2, <1>3, <1>4, <1>5 DEF Placed

(* What waits or arrives goes on to do so, whatever else happens.           *)
LEMMA StillPlaced ==
  ASSUME Types, Placed, Grows
  PROVE  /\ \A l \in Loop : \A e \in ToSet(sq[l]) : Waits(l, e)'
         /\ \A l \in Loop : \A e \in ToSet(cq[l]) : Arrives(l, e)'
         /\ \A l \in Loop : \A e \in ToSet(cq[l]) : e.ring = l
         /\ \A e \in lost : e.op = "msg" => e.ctx \in DOMAIN contexts'
         /\ \A l \in Loop : \A e \in ToSet(sq[l]) : e # Rearm => Arrives(e.ring, e)'
         /\ \A l \in Loop : \A e \in ToSet(sq[l]) : e.op = "msg" => e.ctx \in DOMAIN contexts'
<1>1. \A e : IsMail(e) => IsMail(e)'
  BY DEF Grows, IsMail, Leads
<1>2. \A l \in Loop : \A e \in ToSet(sq[l]) : Waits(l, e)
  BY DEF Placed
<1>3. \A l \in Loop : \A e \in ToSet(cq[l]) : Arrives(l, e)
  BY DEF Placed
<1>4. \A l, e : Waits(l, e) => Waits(l, e)'
  BY <1>1 DEF Waits, Leads
<1>5. \A l, e : Arrives(l, e) => Arrives(l, e)' /\ e.ring = l
  BY <1>1 DEF Arrives, Leads
<1>6. \A l, e : Waits(l, e) /\ e # Rearm => Arrives(e.ring, e)'
  <2> SUFFICES ASSUME NEW l, NEW e, Waits(l, e), e # Rearm PROVE Arrives(e.ring, e)'
    OBVIOUS
  <2>1. CASE e = Unprepared(l)
    BY <2>1 DEF Arrives, Unprepared, Entry
  <2>2. CASE e.op = "fd_pass" /\ Leads(e)
    BY <2>2 DEF Arrives, Leads
  <2>3. CASE IsMail(e)
    BY <1>1, <2>3 DEF Arrives
  <2> QED
    BY <2>1, <2>2, <2>3 DEF Waits
<1>7. \A l, e : Waits(l, e) /\ e.op = "msg" => e.ctx \in DOMAIN contexts
  BY DEF Waits, IsMail, Rearm, Unprepared, Entry
<1>8. DOMAIN contexts \subseteq DOMAIN contexts'
  BY DEF Grows
<1>9. \A e \in lost : e.op = "msg" => e.ctx \in DOMAIN contexts'
  BY <1>8 DEF Placed
<1> QED
  BY <1>2, <1>3, <1>4, <1>5, <1>6, <1>7, <1>8, <1>9

(* A step that leaves the queues alone.                                     *)
LEMMA PlacedFrame ==
  ASSUME Types, Placed, Grows, UNCHANGED <<sq, cq, lost>>,
         \A l \in Loop : \A c \in conn_map'[l] : ConnectionIdToRing(c) = l,
         \A c \in Conn : document'[c] # NULL => c \in conn_map'[ConnectionIdToRing(c)]
  PROVE  Placed'
<1>1. /\ \A l \in Loop : \A e \in ToSet(sq'[l]) : Waits(l, e)'
      /\ \A l \in Loop : \A e \in ToSet(cq'[l]) : Arrives(l, e)'
      /\ \A e \in lost' : e.op = "msg" => e.ctx \in DOMAIN contexts'
  BY StillPlaced
<1> QED
  BY <1>1 DEF Placed

(* Whatever goes to a connection goes where its id leads.                   *)
LEMMA PlacedNext ==
  ASSUME Types, Placed, Accepting, Control, [Next]_vars
  PROVE  Placed'
<1>1. Grows
  BY ContextsGrow
<1>2. /\ \A l \in Loop : \A e \in ToSet(sq[l]) : Waits(l, e)'
      /\ \A l \in Loop : \A e \in ToSet(cq[l]) : Arrives(l, e)'
      /\ \A l \in Loop : \A e \in ToSet(cq[l]) : e.ring = l
      /\ \A e \in lost : e.op = "msg" => e.ctx \in DOMAIN contexts'
      /\ \A l \in Loop : \A e \in ToSet(sq[l]) : e # Rearm => Arrives(e.ring, e)'
      /\ \A l \in Loop : \A e \in ToSet(sq[l]) : e.op = "msg" => e.ctx \in DOMAIN contexts'
  BY <1>1, StillPlaced
<1>3. /\ \A l \in Loop : \A c \in conn_map[l] : ConnectionIdToRing(c) = l
      /\ \A c \in Conn : document[c] # NULL => c \in conn_map[ConnectionIdToRing(c)]
      /\ conn_map \in [Loop -> SUBSET Conn] /\ document \in [Conn -> Doc \cup {NULL}]
      /\ sq \in Queues(Entries) /\ cq \in Queues(Entries)
  BY DEF Placed, Types
<1>4. CASE UNCHANGED vars
  BY <1>1, <1>3, <1>4, PlacedFrame DEF vars, connVars, docVars, ringVars
<1>5. CASE Connect
  <2>1. PICK e \in Entries :
          /\ e.op \in {"accept", "last_accept", "accept_failed"} /\ e.ring = Master
          /\ cq' = Extend(cq, Master, <<e>>)
    BY <1>5, ConnectIs
  <2>2. <<e>> \in Seq(Entries) /\ ToSet(<<e>>) = {e}
    BY SingleIs
  <2> DEFINE r == <<e>>
  <2> HIDE DEF r
  <2>3. /\ \A n \in Loop : n # Master => cq'[n] = cq[n]
        /\ ToSet(cq'[Master]) = ToSet(cq[Master]) \cup {e}
    <3>1. r \in Seq(Entries) /\ ToSet(r) = {e} /\ cq' = Extend(cq, Master, r) /\ Master \in Loop
      BY <2>1, <2>2, LoopsAre DEF r
    <3>2. /\ \A n \in Loop : n # Master => cq'[n] = cq[n]
          /\ ToSet(cq'[Master]) = ToSet(cq[Master]) \cup ToSet(r)
      BY <1>3, <3>1, Extended
    <3> QED
      BY <3>1, <3>2
  <2>4. Arrives(Master, e)'
    BY <2>1 DEF Arrives
  <2>5. \A l \in Loop : \A f \in ToSet(cq'[l]) : Arrives(l, f)'
    BY <1>2, <2>3, <2>4
  <2>6. UNCHANGED <<sq, lost, conn_map, document>>
    BY <1>5 DEF Connect, docVars
  <2> QED
    BY <1>2, <1>3, <2>5, <2>6 DEF Placed
<1>6. ASSUME NEW l \in Loop, Submit(l) PROVE Placed'
  <2>1. PICK done \in Seq(Entries) :
           /\ Issue(l, done) /\ ToSet(done) \subseteq ToSet(sq[l])
           /\ lost' = lost \/ \E e \in ToSet(sq[l]) : lost' = lost \cup {e}
    BY <1>6, SubmitIs
  <2>2. /\ sq'[l] = <<>> /\ \A n \in Loop : n # l => sq'[n] = sq[n]
        /\ \A n \in Loop : ToSet(cq'[n]) = ToSet(cq[n]) \cup (ToSet(done) \cap Told(n))
    BY <2>1, IssueIs
  <2>3. \A n \in Loop : \A e \in ToSet(sq'[n]) : Waits(n, e)'
    BY <1>2, <2>2, NumEmpty
  <2>4. \A n \in Loop : \A e \in ToSet(done) \cap Told(n) : Arrives(n, e)'
    BY <1>2, <2>1 DEF Told
  <2>5. \A n \in Loop : \A e \in ToSet(cq'[n]) : Arrives(n, e)'
    BY <1>2, <2>2, <2>4
  <2>6. \A e \in lost' : e.op = "msg" => e.ctx \in DOMAIN contexts'
    BY <1>2, <2>1
  <2>7. UNCHANGED <<conn_map, document>>
    BY <1>6 DEF Submit, docVars
  <2> QED
    BY <1>3, <2>3, <2>5, <2>6, <2>7 DEF Placed
<1>7. ASSUME NEW l \in Loop, Handle(l) PROVE Placed'
  <2> DEFINE e == Head(cq[l])
  <2>1. Took(l)
    BY <1>7 DEF Handle, Took
  <2>2. e.op \in {"fd_pass", "msg"} => e.conn \in Conn /\ ConnectionIdToRing(e.conn) = l
    BY <2>1, Completed DEF Took
  <2>3. ToSet(cq'[l]) \subseteq ToSet(cq[l]) /\ \A n \in Loop : n # l => cq'[n] = cq[n]
    BY <2>1, TookIs
  <2>4. \A n \in Loop : \A f \in ToSet(cq'[n]) : Arrives(n, f)'
    BY <1>2, <2>3
  <2>5. UNCHANGED <<document, lost>>
    BY <1>7 DEF Handle, docVars
  <2>6. ASSUME UNCHANGED sq, \/ UNCHANGED conn_map
                             \/ e.op = "fd_pass" /\ conn_map' = [conn_map EXCEPT ![l] = @ \cup {e.conn}]
        PROVE  Placed'
    <3> HIDE DEF e
    <3>1. /\ \A n \in Loop : \A c \in conn_map'[n] : ConnectionIdToRing(c) = n
          /\ \A c \in Conn : document'[c] # NULL => c \in conn_map'[ConnectionIdToRing(c)]
      BY <1>3, <2>2, <2>5, <2>6, RingIs
    <3> QED
      BY <1>2, <2>4, <2>5, <2>6, <3>1 DEF Placed
  <2>7. CASE e.op \in {"accept", "last_accept", "accept_failed"} /\ HandleAccept(l, e)
    <3>1. CASE UNCHANGED <<connVars, sq>>
      BY <2>6, <3>1 DEF connVars
    <3>2. CASE /\ l = Master /\ e.op # "accept_failed" /\ conn_count' = conn_count + 1
               /\ UNCHANGED <<listening, slots, conn_map, closed, ended>>
      <4>1. conn_count' \in Conn
        BY <2>1, <2>7, <3>2, NumberLeft
      <4>2. PICK r \in Seq(Entries) :
              /\ sq' = Extend(sq, l, r)
              /\ \A f \in ToSet(r) : f = Entry("fd_pass", NextRing, conn_count', 0) \/ f = Rearm
        BY <2>7, <3>2, <4>1, AcceptIs
      <4>3. /\ ToSet(sq'[l]) = ToSet(sq[l]) \cup ToSet(r)
            /\ \A n \in Loop : n # l => sq'[n] = sq[n]
        <5>1. sq' = Extend(sq, l, r) /\ sq \in Queues(Entries)
          BY <1>3, <4>2
        <5> QED
          BY <5>1, Extended
      <4>4. NextRing = ConnectionIdToRing(conn_count')
        BY <3>2, RingIs DEF Types
      <4>5. \A f \in ToSet(r) : Waits(l, f)'
        BY <3>2, <4>1, <4>2, <4>4 DEF Waits, Leads, Entry
      <4>6. \A n \in Loop : \A f \in ToSet(sq'[n]) : Waits(n, f)'
        BY <1>2, <4>3, <4>5
      <4> QED
        BY <1>2, <1>3, <2>4, <2>5, <3>2, <4>6 DEF Placed
    <3> QED
      BY <2>7, <3>1, <3>2, AcceptIs
  <2> QED
    BY <1>7, <2>6, <2>7 DEF Handle, connVars
<1>8. ASSUME NEW l \in Loop, Post(l) PROVE Placed'
  <2> DEFINE t == task[l]
             to == Head(t.rest)
  <2>1. to \in Conn /\ t.ctx \in DOMAIN contexts /\ t.ctx \in Nat
    BY <1>8, Staged DEF Post, Tasks
  <2>2. \/ /\ ConnectionIdToRing(to) # l
           /\ sq' = Prepared(l, Entry("msg", ConnectionIdToRing(to), to, t.ctx))
        \/ ConnectionIdToRing(to) = l /\ sq' = Prepared(l, Unprepared(l))
    BY <1>8 DEF Post
  <2>3. UNCHANGED <<conn_map, document, cq, lost>>
    BY <1>8 DEF Post, connVars, docVars
  <2> HIDE DEF t, to
  <2>4. PICK e \in Entries : sq' = Prepared(l, e) /\ Waits(l, e)'
    <3>1. CASE /\ ConnectionIdToRing(to) # l
               /\ sq' = Prepared(l, Entry("msg", ConnectionIdToRing(to), to, t.ctx))
      <4>1. PICK e \in Entries : e = Entry("msg", ConnectionIdToRing(to), to, t.ctx)
        BY <2>1, RingIs, EntriesAre
      <4>2. /\ e.op = "msg" /\ e.conn = to /\ e.ring = ConnectionIdToRing(to) /\ e.ctx = t.ctx
        BY <4>1 DEF Entry
      <4>3. sq' = Prepared(l, e)
        BY <3>1, <4>1
      <4>4. e.ctx \in DOMAIN contexts'
        BY <1>1, <2>1, <4>2 DEF Grows
      <4>5. IsMail(e)' /\ e.ring # l
        BY <2>1, <3>1, <4>2, <4>4 DEF IsMail, Leads
      <4>6. Waits(l, e)'
        BY <4>5 DEF Waits
      <4> QED
        BY <4>1, <4>3, <4>6
    <3>2. CASE ConnectionIdToRing(to) = l /\ sq' = Prepared(l, Unprepared(l))
      <4>1. l # Master /\ Unprepared(l) \in Entries
        BY <2>1, <3>2, RingIs, EntriesAre
      <4>2. Waits(l, Unprepared(l))'
        BY <4>1 DEF Waits, Unprepared, Entry
      <4> QED
        BY <3>2, <4>1, <4>2
    <3> QED
      BY <2>2, <3>1, <3>2
  <2>5. sq' = Extend(sq, l, <<e>>)
    BY <2>4, PreparedIs
  <2>6. <<e>> \in Seq(Entries) /\ ToSet(<<e>>) = {e}
    BY SingleIs
  <2>7. ToSet(sq'[l]) = ToSet(sq[l]) \cup {e} /\ \A n \in Loop : n # l => sq'[n] = sq[n]
    <3>1. PICK r \in Seq(Entries) : sq' = Extend(sq, l, r) /\ ToSet(r) = {e}
      BY <2>5, <2>6
    <3>2. sq' = Extend(sq, l, r) /\ sq \in Queues(Entries)
      BY <1>3, <3>1
    <3>3. \A n \in Loop : n # l => sq'[n] = sq[n]
      BY <3>2, Extended
    <3>4. ToSet(sq'[l]) = ToSet(sq[l]) \cup ToSet(r)
      BY <3>2, Extended
    <3> QED
      BY <3>1, <3>3, <3>4
  <2>8. \A n \in Loop : \A f \in ToSet(sq'[n]) : Waits(n, f)'
    BY <1>2, <2>4, <2>7
  <2> QED
    BY <1>2, <1>3, <2>3, <2>8 DEF Placed
<1>9. ASSUME NEW l \in Loop, JoinUser(l) \/ GetUserList(l) \/ GetContent(l) PROVE Placed'
  BY <1>1, <1>3, <1>9, PlacedFrame DEF JoinUser, GetUserList, GetContent, connVars, docVars, ringVars
<1>10. ASSUME NEW l \in Loop, NEW c \in Conn, Request(l, c) PROVE Placed'
  <2>1. UNCHANGED <<sq, cq, lost>>
    BY <1>10 DEF Request, OpenHandle, EditHandle, CloseHandle, ChatHandle, Close, Delete, ringVars
  <2>2. c \in conn_map[l] /\ ConnectionIdToRing(c) = l
    BY <1>3, <1>10 DEF Request, OpenHandle, EditHandle, CloseHandle, ChatHandle, Close, Delete, Serves
  <2>3. CASE conn_map' = conn_map /\ \A b \in Conn : b # c => document'[b] = document[b]
    BY <1>1, <1>3, <2>1, <2>2, <2>3, PlacedFrame
  <2>4. CASE /\ conn_map' = [conn_map EXCEPT ![l] = @ \ {c}]
             /\ document' = [document EXCEPT ![c] = NULL]
    <3>1. /\ \A n \in Loop : \A b \in conn_map'[n] : ConnectionIdToRing(b) = n
          /\ \A b \in Conn : document'[b] # NULL => b \in conn_map'[ConnectionIdToRing(b)]
      BY <1>3, <2>4, RingIs
    <3> QED
      BY <1>1, <2>1, <3>1, PlacedFrame
  <2>5. ASSUME conn_map' = conn_map, document' = document PROVE Placed'
    BY <2>3, <2>5
  <2>6. ASSUME NEW x, conn_map' = conn_map, document' = [document EXCEPT ![c] = x] PROVE Placed'
    <3>1. \A b \in Conn : b # c => document'[b] = document[b]
      BY <1>3, <2>6
    <3> QED
      BY <2>3, <2>6, <3>1
  <2> QED
    BY <1>10, <2>4, <2>5, <2>6
    DEF Request, OpenHandle, EditHandle, CloseHandle, ChatHandle, Close, Delete, Leave, connVars, docVars
<1> QED
  BY <1>4, <1>5, <1>6, <1>7, <1>8, <1>9, <1>10 DEF Next, Run

-----------------------------------------------------------------------------
(* Slots and numbers. *)

(* At first every connection has its number.                                *)
LEMMA AcceptingInit == Init => Accepting
<1> SUFFICES ASSUME Init PROVE Accepting
  OBVIOUS
<1>1. slots = conn_count /\ cq[Master] = <<>> /\ left \in Budgets /\ conn_count = left["served"]
  BY LoopsAre DEF Init
<1>2. conn_count \in Nat
  BY <1>1, Bounds DEF Bounded
<1> QED
  BY <1>1, <1>2, NumEmpty DEF Accepting

(* An accept that completes takes a slot, and gives out the number it is    *)
(* for.                                                                     *)
LEMMA AcceptingNext ==
  ASSUME Types, Placed, Accepting, Control, [Next]_vars
  PROVE  Accepting'
<1> DEFINE waiting == Num(cq[Master], Accepts)
<1>1. /\ conn_count \in Nat /\ slots \in Nat /\ cq \in Queues(Entries) /\ Master \in Loop
      /\ conn_count + waiting = slots
  BY LoopsAre DEF Types, Accepting
<1>2. ASSUME UNCHANGED <<conn_count, slots>>, Num(cq'[Master], Accepts) = waiting PROVE Accepting'
  BY <1>1, <1>2 DEF Accepting
<1>3. CASE UNCHANGED vars
  BY <1>2, <1>3 DEF vars, connVars, ringVars
<1>4. CASE Connect
  <2>1. PICK e \in Entries :
          /\ cq' = Extend(cq, Master, <<e>>)
          /\ slots' = slots + One(e, Accepts)
    BY <1>4, ConnectIs
  <2>2. PICK r \in Seq(Entries) : cq' = Extend(cq, Master, r) /\ Num(r, Accepts) = One(e, Accepts)
    BY <2>1, SingleIs
  <2>3. /\ Num(cq'[Master], Accepts) = waiting + One(e, Accepts)
        /\ waiting \in Nat
    BY <1>1, <2>2, ExtendIs
  <2>4. conn_count' = conn_count /\ slots' = slots + One(e, Accepts) /\ One(e, Accepts) \in Nat
    BY <1>4, <2>1 DEF Connect, One
  <2> HIDE DEF waiting
  <2> QED
    BY <1>1, <2>3, <2>4 DEF Accepting
<1>5. ASSUME NEW l \in Loop, Submit(l) PROVE Accepting'
  <2>1. PICK done \in Seq(Entries) : Issue(l, done) /\ ToSet(done) \subseteq ToSet(sq[l])
    BY <1>5, SubmitIs
  <2>2. Num(cq'[Master], Accepts) = waiting + Num(done, Told(Master) \cap Accepts)
    BY <1>1, <2>1, IssueIs, ZenonT(60)
  <2>3. \A e \in ToSet(sq[l]) : e \notin Told(Master) \cap Accepts
    <3> SUFFICES ASSUME NEW e \in ToSet(sq[l]), e \in Told(Master), e \in Accepts PROVE FALSE
      OBVIOUS
    <3>1. Waits(l, e)
      BY DEF Placed
    <3>2. e.ring = Master /\ e.op \in {"accept", "last_accept"} /\ e # Rearm
      BY DEF Told, Accepts
    <3> QED
      BY <3>1, <3>2 DEF Waits, Unprepared, Entry, IsMail
  <2>4. Num(done, Told(Master) \cap Accepts) = 0
    BY <2>1, <2>3, NumType
  <2>5. waiting \in Nat
    <3>1. cq[Master] \in Seq(Entries)
      BY <1>1 DEF Queues
    <3> QED
      BY <3>1, NumType
  <2> QED
    BY <1>2, <1>5, <2>2, <2>4, <2>5 DEF Submit
<1>6. ASSUME NEW l \in Loop, Handle(l) PROVE Accepting'
  <2> DEFINE e == Head(cq[l])
  <2>1. Took(l)
    BY <1>6 DEF Handle, Took
  <2>2. e \in Entries
    BY <2>1, TookIs
  <2>3. l # Master => Num(cq'[Master], Accepts) = waiting
    BY <1>1, <2>1, TookIs
  <2>4. l = Master => waiting = One(e, Accepts) + Num(cq'[Master], Accepts) /\ Num(cq'[Master], Accepts) \in Nat
    BY <2>1, TookIs
  <2> HIDE DEF e
  <2>5. CASE UNCHANGED <<conn_count, slots>> /\ (l # Master \/ e.op \notin {"accept", "last_accept"})
    <3>1. l = Master => One(e, Accepts) = 0
      BY <2>5 DEF One, Accepts
    <3> HIDE DEF waiting
    <3> QED
      BY <1>2, <2>3, <2>4, <2>5, <3>1
  <2>6. CASE l = Master /\ e.op \in {"accept", "last_accept"} /\ conn_count' = conn_count + 1 /\ UNCHANGED slots
    <3>1. One(e, Accepts) = 1
      BY <2>2, <2>6 DEF One, Accepts
    <3> HIDE DEF waiting
    <3> QED
      BY <1>1, <2>4, <2>6, <3>1 DEF Accepting
  <2> QED
    BY <1>6, <2>5, <2>6 DEF Handle, HandleAccept, connVars, e
<1>7. ASSUME NEW l \in Loop, Post(l) \/ JoinUser(l) \/ GetUserList(l) \/ GetContent(l) PROVE Accepting'
  BY <1>2, <1>7 DEF Post, JoinUser, GetUserList, GetContent, connVars, ringVars
<1>8. ASSUME NEW l \in Loop, NEW c \in Conn, Request(l, c) PROVE Accepting'
  <2>1. UNCHANGED <<conn_count, slots, cq>>
    BY <1>8 DEF Request, OpenHandle, EditHandle, CloseHandle, ChatHandle, Close, Delete, connVars, ringVars
  <2> QED
    BY <1>2, <2>1
<1> QED
  BY <1>3, <1>4, <1>5, <1>6, <1>7, <1>8 DEF Next, Run

-----------------------------------------------------------------------------
(* What a handler knows. *)

(* A handler knows what it knew, whatever other loops do.                   *)
LEMMA StillIn ==
  ASSUME Types, Control, Grows, NEW n \in Loop, task'[n] = task[n],
         \A c \in Conn : ConnectionIdToRing(c) = n => document'[c] = document[c] /\ since'[c] = since[c]
  PROVE  (task[n] = Idle \/ InHandler(n, task[n]))'
<1>1. PICK t \in Tasks : t = task[n]
  BY DEF Types
<1>2. t = Idle \/ InHandler(n, t)
  BY <1>1 DEF Control
<1>3. CASE t = Idle
  BY <1>1, <1>3
<1>4. CASE InHandler(n, t)
  <2>1. Known(n, t) /\ AtStage(t) /\ document'[t.conn] = document[t.conn] /\ since'[t.conn] = since[t.conn]
    BY <1>4 DEF InHandler, Known
  <2>2. OfEdit(t)'
    BY <2>1 DEF Known, OfEdit, Grows
  <2>3. Known(n, t)'
    BY <2>1, <2>2 DEF Known
  <2>4. AtStage(t)'
    BY <2>1 DEF AtStage, Grows
  <2>5. InHandler(n, t)'
    BY <2>3, <2>4 DEF InHandler
  <2> QED
    BY <1>1, <2>5
<1> QED
  BY <1>2, <1>3, <1>4

(* A handler that goes on to post, knowing the context of its message.      *)
LEMMA PostingIn ==
  ASSUME NEW l \in Loop, NEW t \in Tasks, NEW rest \in Seq(Conn), Known(l, t)',
         rest # <<>> => t.ctx \in DOMAIN contexts' /\ contexts'[t.ctx].msg = t.msg,
         task'[l] = Posting(t, rest)
  PROVE  (task[l] = Idle \/ InHandler(l, task[l]))'
<1>1. CASE rest # <<>>
  <2>1. PICK u \in Tasks : u = [t EXCEPT !.stage = "Post", !.rest = rest] /\ task'[l] = u
    BY <1>1, PostingIs
  <2>2. /\ u.request = t.request /\ u.conn = t.conn /\ u.doc = t.doc /\ u.msg = t.msg /\ u.ctx = t.ctx
        /\ u.stage = "Post" /\ u.rest = rest
    BY <2>1 DEF Tasks
  <2>3. Known(l, u)'
    BY <2>2 DEF Known, OfEdit
  <2>4. AtStage(u)'
    BY <1>1, <2>2 DEF AtStage
  <2>5. InHandler(l, u)'
    BY <2>3, <2>4 DEF InHandler
  <2> QED
    BY <2>1, <2>5
<1>2. CASE rest = <<>> /\ t.request = "open"
  <2>1. PICK u \in Tasks : u = [t EXCEPT !.stage = "GetContent", !.rest = <<>>] /\ task'[l] = u
    BY <1>2, PostingIs
  <2>2. /\ u.request = t.request /\ u.conn = t.conn /\ u.doc = t.doc /\ u.msg = t.msg
        /\ u.stage = "GetContent" /\ u.rest = <<>>
    BY <2>1 DEF Tasks
  <2>3. Known(l, u)'
    BY <2>2 DEF Known, OfEdit
  <2>4. AtStage(u)'
    BY <1>2, <2>2 DEF AtStage
  <2>5. InHandler(l, u)'
    BY <2>3, <2>4 DEF InHandler
  <2> QED
    BY <2>1, <2>5
<1>3. CASE rest = <<>> /\ t.request # "open"
  BY <1>3, PostingIs
<1> QED
  BY <1>1, <1>2, <1>3

(* At first no loop is in a handler, and a handler is begun with all it     *)
(* has to know.                                                             *)
LEMMA ControlInit == Init => Control
BY DEF Init, Control

(* A step of a loop takes its handler to a stage that is known, and the     *)
(* steps of the others leave it all it knows.                               *)
LEMMA ControlNext ==
  ASSUME Types, Placed, Accepting, Control, [Next]_vars, Types'
  PROVE  Control'
<1>1. Grows
  BY ContextsGrow
<1>2. /\ task \in [Loop -> Tasks] /\ users \in [Doc -> Seq(Conn)] /\ contexts \in Seq(Contexts)
      /\ edits \in Seq(Edits) /\ document \in [Conn -> Doc \cup {NULL}] /\ since \in [Conn -> Nat \cup {NULL}]
      /\ Len(contexts) \in Nat /\ Len(edits) \in Nat
  BY DEF Types
<1>3. ASSUME NEW l \in Loop, \A n \in Loop : n # l => task'[n] = task[n],
             \A c \in Conn : ConnectionIdToRing(c) # l => document'[c] = document[c] /\ since'[c] = since[c],
             (task[l] = Idle \/ InHandler(l, task[l]))'
      PROVE  Control'
  <2>1. \A n \in Loop : n # l => (task[n] = Idle \/ InHandler(n, task[n]))'
    <3> SUFFICES ASSUME NEW n \in Loop, n # l PROVE (task[n] = Idle \/ InHandler(n, task[n]))'
      OBVIOUS
    <3>1. /\ task'[n] = task[n]
          /\ \A c \in Conn : ConnectionIdToRing(c) = n => document'[c] = document[c] /\ since'[c] = since[c]
      BY <1>3
    <3> QED
      BY <1>1, <3>1, StillIn
  <2> QED
    BY <1>3, <2>1 DEF Control
<1>4. ASSUME UNCHANGED <<task, document, since>> PROVE Control'
  <2>1. \A n \in Loop : (task[n] = Idle \/ InHandler(n, task[n]))'
    BY <1>1, <1>4, StillIn
  <2> QED
    BY <2>1 DEF Control
<1>5. CASE UNCHANGED vars
  BY <1>4, <1>5 DEF vars, docVars
<1>6. CASE Connect
  BY <1>4, <1>6 DEF Connect, docVars
<1>7. ASSUME NEW l \in Loop, Submit(l) \/ Handle(l) PROVE Control'
  BY <1>4, <1>7 DEF Submit, Handle, docVars
<1>8. ASSUME NEW l \in Loop, JoinUser(l) PROVE Control'
  <2>1. PICK t \in Tasks : t = task[l]
    BY <1>2
  <2>2. /\ Known(l, t) /\ t.request = "open" /\ t.rest = <<>> /\ t.doc \in Doc
    BY <1>8, <2>1, Staged DEF JoinUser, InHandler, Known
  <2>3. PICK u \in Tasks : u = [t EXCEPT !.stage = "GetUserList"]
    BY <2>1 DEF Tasks, Stages
  <2>4. /\ u.request = "open" /\ u.conn = t.conn /\ u.doc = t.doc /\ u.msg = t.msg
        /\ u.stage = "GetUserList" /\ u.rest = <<>>
    BY <2>2, <2>3 DEF Tasks
  <2>5. UNCHANGED <<document, since, edits>> /\ Starts(l, u)
    BY <1>8, <2>1, <2>3 DEF JoinUser
  <2>6. Known(l, u)'
    BY <2>2, <2>4, <2>5 DEF Known, OfEdit
  <2>7. AtStage(u)'
    BY <2>2, <2>4 DEF AtStage
  <2>8. InHandler(l, u)'
    BY <2>6, <2>7 DEF InHandler
  <2>9. task'[l] = u /\ \A n \in Loop : n # l => task'[n] = task[n]
    BY <1>2, <2>5, StartsIs
  <2>10. (task[l] = Idle \/ InHandler(l, task[l]))'
    BY <2>8, <2>9
  <2> QED
    BY <1>3, <2>5, <2>9, <2>10
<1>9. ASSUME NEW l \in Loop, GetUserList(l) PROVE Control'
  <2>1. PICK t \in Tasks : t = task[l]
    BY <1>2
  <2>2. /\ Known(l, t) /\ t.rest = <<>> /\ t.doc \in Doc
    BY <1>9, <2>1, Staged DEF GetUserList, InHandler
  <2>3. PICK u \in Tasks : u = [t EXCEPT !.ctx = Len(contexts) + 1]
    <3>1. Len(contexts) + 1 \in Nat
      BY <1>2
    <3> QED
      BY <3>1 DEF Tasks
  <2>4. /\ u.request = t.request /\ u.conn = t.conn /\ u.doc = t.doc /\ u.msg = t.msg
        /\ u.ctx = Len(contexts) + 1
    BY <2>3 DEF Tasks
  <2>5. UNCHANGED <<document, since, edits>>
    BY <1>9 DEF GetUserList, docVars
  <2>6. Known(l, t)' /\ Known(l, u)'
    BY <2>2, <2>4, <2>5 DEF Known, OfEdit
  <2>7. PICK to \in Seq(Conn), new \in Contexts :
          /\ new.msg = t.msg
          /\ \/ contexts' = Append(contexts, new) /\ Starts(l, Posting(u, to))
             \/ Starts(l, Posting(t, <<>>))
    <3> DEFINE list == users[t.doc]
               to == Receivers(t, list)
               new == [refs |-> References(t, list), msg |-> t.msg]
    <3>1. list \in Seq(Conn)
      BY <1>2, <2>2
    <3>2. \/ contexts' = Append(contexts, new) /\ Starts(l, Posting(u, to))
          \/ Starts(l, Posting(t, <<>>))
      BY <1>9, <2>1, <2>3 DEF GetUserList
    <3> HIDE DEF list
    <3>3. to \in Seq(Conn)
      BY <3>1, OnlyIs DEF Receivers
    <3>4. new \in Contexts /\ new.msg = t.msg
      BY <3>1 DEF Contexts, Tasks, References
    <3> HIDE DEF to, new
    <3> QED
      BY <3>2, <3>3, <3>4
  <2>8. <<>> \in Seq(Conn)
    OBVIOUS
  <2>9. CASE contexts' = Append(contexts, new) /\ Starts(l, Posting(u, to))
    <3>1. u.ctx \in DOMAIN contexts' /\ contexts'[u.ctx] = new
      BY <1>2, <2>4, <2>9, Appended
    <3>2. u.ctx \in DOMAIN contexts' /\ contexts'[u.ctx].msg = u.msg
      BY <2>4, <2>7, <3>1
    <3>3. task'[l] = Posting(u, to) /\ \A n \in Loop : n # l => task'[n] = task[n]
      BY <1>2, <2>9, PostingIs, StartsIs
    <3>4. (task[l] = Idle \/ InHandler(l, task[l]))'
      BY <2>6, <3>2, <3>3, PostingIn
    <3> QED
      BY <1>3, <2>5, <3>3, <3>4
  <2>10. CASE Starts(l, Posting(t, <<>>))
    <3>1. task'[l] = Posting(t, <<>>) /\ \A n \in Loop : n # l => task'[n] = task[n]
      BY <1>2, <2>8, <2>10, PostingIs, StartsIs
    <3>2. (task[l] = Idle \/ InHandler(l, task[l]))'
      BY <2>6, <2>8, <3>1, PostingIn
    <3> QED
      BY <1>3, <2>5, <3>1, <3>2
  <2> QED
    BY <2>7, <2>9, <2>10
<1>10. ASSUME NEW l \in Loop, Post(l) PROVE Control'
  <2>1. PICK t \in Tasks : t = task[l]
    BY <1>2
  <2>2. PICK rest \in Seq(Conn) : rest = Tail(t.rest)
    BY <1>10, <2>1, Staged DEF Post
  <2>3. Known(l, t) /\ t.ctx \in DOMAIN contexts /\ contexts[t.ctx].msg = t.msg
    BY <1>10, <2>1, Staged DEF Post, InHandler
  <2>4. UNCHANGED <<document, since, edits>> /\ Starts(l, Posting(t, rest))
    BY <1>10, <2>1, <2>2 DEF Post, docVars
  <2>5. Known(l, t)'
    BY <2>3, <2>4 DEF Known, OfEdit
  <2>6. t.ctx \in DOMAIN contexts' /\ contexts'[t.ctx].msg = t.msg
    BY <1>1, <2>3 DEF Grows
  <2>7. task'[l] = Posting(t, rest) /\ \A n \in Loop : n # l => task'[n] = task[n]
    BY <1>2, <2>4, PostingIs, StartsIs
  <2>8. (task[l] = Idle \/ InHandler(l, task[l]))'
    BY <2>5, <2>6, <2>7, PostingIn
  <2> QED
    BY <1>3, <2>4, <2>7, <2>8
<1>11. ASSUME NEW l \in Loop, GetContent(l) PROVE Control'
  <2>1. PICK c \in Conn : c = task[l].conn /\ ConnectionIdToRing(c) = l
    BY <1>11, Staged DEF GetContent, InHandler, Known
  <2>2. /\ document' = document /\ since' = [since EXCEPT ![c] = Len(edits)] /\ Starts(l, Idle)
    BY <1>11, <2>1 DEF GetContent
  <2>3. task'[l] = Idle /\ \A n \in Loop : n # l => task'[n] = task[n]
    BY <1>2, <2>2, IdleIs, StartsIs
  <2>4. \A b \in Conn : ConnectionIdToRing(b) # l => document'[b] = document[b] /\ since'[b] = since[b]
    BY <1>2, <2>1, <2>2
  <2> QED
    BY <1>3, <2>3, <2>4
<1>12. ASSUME NEW l \in Loop, NEW c \in Conn, Request(l, c) PROVE Control'
  <2>1. task[l] = Idle /\ ConnectionIdToRing(c) = l
    BY <1>12, ServedIs DEF Request, OpenHandle, EditHandle, CloseHandle, ChatHandle, Close, Delete
  <2>2. ASSUME NEW t \in Tasks, Starts(l, t), InHandler(l, t)',
               \A b \in Conn : b # c => document'[b] = document[b] /\ since'[b] = since[b]
        PROVE  Control'
    <3>1. task'[l] = t /\ \A n \in Loop : n # l => task'[n] = task[n]
      BY <1>2, <2>2, StartsIs
    <3>2. (task[l] = Idle \/ InHandler(l, task[l]))'
      BY <2>2, <3>1
    <3>3. \A b \in Conn : ConnectionIdToRing(b) # l => document'[b] = document[b] /\ since'[b] = since[b]
      BY <2>1, <2>2
    <3> QED
      BY <1>3, <3>1, <3>2, <3>3
  <2>3. ASSUME NEW d \in Doc, OpenHandle(l, c, d) PROVE Control'
    <3>1. PICK t \in Tasks : t = Task("open", "JoinUser", c, d, Notice)
      BY StartIs DEF Requests, Stages, Notice
    <3>2. /\ t.request = "open" /\ t.stage = "JoinUser" /\ t.conn = c /\ t.doc = d /\ t.msg = Notice
          /\ t.rest = <<>>
      BY <3>1 DEF Task
    <3>3. /\ document' = [document EXCEPT ![c] = d] /\ since' = [since EXCEPT ![c] = NULL]
          /\ Starts(l, t)
      BY <2>3, <3>1 DEF OpenHandle
    <3>4. /\ document'[c] = d /\ since'[c] = NULL
          /\ \A b \in Conn : b # c => document'[b] = document[b] /\ since'[b] = since[b]
      BY <1>2, <3>3
    <3>5. InHandler(l, t)'
      BY <2>1, <3>2, <3>4 DEF InHandler, Known, OfEdit, AtStage
    <3> QED
      BY <2>2, <3>3, <3>4, <3>5
  <2>4. ASSUME EditHandle(l, c) PROVE Control'
    <3>1. PICK d \in Doc : d = document[c]
      BY <1>2, <2>4 DEF EditHandle
    <3>2. PICK m \in Nat : m = Len(edits) + 1
      BY <1>2
    <3>3. PICK t \in Tasks : t = Task("edit", "GetUserList", c, d, m)
      BY StartIs DEF Requests, Stages
    <3>4. /\ t.request = "edit" /\ t.stage = "GetUserList" /\ t.conn = c /\ t.doc = d /\ t.msg = m
          /\ t.rest = <<>>
      BY <3>3 DEF Task
    <3>5. PICK x \in Edits : x = [by |-> c, doc |-> d]
      BY DEF Edits
    <3>6. UNCHANGED <<document, since>> /\ edits' = Append(edits, x) /\ Starts(l, t)
      BY <2>4, <3>1, <3>2, <3>3, <3>5 DEF EditHandle
    <3>7. m \in DOMAIN edits' /\ edits'[m] = x
      BY <1>2, <3>2, <3>6, Appended
    <3>8. OfEdit(t)'
      BY <3>4, <3>5, <3>7 DEF OfEdit
    <3>9. UNCHANGED <<document, since>>
      BY <3>6
    <3>10. InHandler(l, t)'
      BY <2>1, <3>1, <3>4, <3>8, <3>9 DEF InHandler, Known, AtStage
    <3>11. Starts(l, t)
      BY <3>6
    <3> QED
      BY <2>2, <3>9, <3>10, <3>11
  <2>5. ASSUME document[c] # NULL, Leave(c), Starts(l, Leaving(c)) PROVE Control'
    <3>1. PICK d \in Doc : d = document[c]
      BY <1>2, <2>5
    <3>2. PICK t \in Tasks : t = Task("close", "GetUserList", c, d, Notice)
      BY StartIs DEF Requests, Stages, Notice
    <3>3. /\ t.request = "close" /\ t.stage = "GetUserList" /\ t.conn = c /\ t.doc = d /\ t.msg = Notice
          /\ t.rest = <<>>
      BY <3>2 DEF Task
    <3>4. document' = [document EXCEPT ![c] = NULL] /\ since' = [since EXCEPT ![c] = NULL]
      BY <2>5 DEF Leave
    <3>5. Starts(l, t)
      BY <2>5, <3>1, <3>2 DEF Leaving
    <3>6. /\ document'[c] = NULL
          /\ \A b \in Conn : b # c => document'[b] = document[b] /\ since'[b] = since[b]
      BY <1>2, <3>4
    <3>7. InHandler(l, t)'
      BY <2>1, <3>3, <3>6 DEF InHandler, Known, OfEdit, AtStage
    <3> QED
      BY <2>2, <3>5, <3>6, <3>7
  <2>6. ASSUME CloseHandle(l, c) PROVE Control'
    BY <2>5, <2>6 DEF CloseHandle
  <2>7. ASSUME NEW to \in Conn, ChatHandle(l, c, to) PROVE Control'
    <3>1. PICK t \in Tasks : t = Task("chat", "Post", c, NULL, Notice)
      BY StartIs DEF Requests, Stages, Notice
    <3>2. PICK k \in Nat : k = Len(contexts) + 1
      BY <1>2
    <3>3. PICK rest \in Seq(Conn) : rest = <<to>> /\ rest # <<>>
      <4>1. <<to>> \in Seq(Conn) /\ Len(<<to>>) = 1 /\ Len(<<>>) = 0
        OBVIOUS
      <4> QED
        BY <4>1
    <3>4. PICK v \in Tasks : v = [t EXCEPT !.rest = rest]
      BY DEF Tasks
    <3>5. PICK u \in Tasks : u = [v EXCEPT !.ctx = k]
      BY DEF Tasks
    <3>6. /\ u.request = "chat" /\ u.stage = "Post" /\ u.conn = c /\ u.msg = Notice
          /\ u.rest = rest /\ u.ctx = k
      <4>1. t.request = "chat" /\ t.stage = "Post" /\ t.conn = c /\ t.msg = Notice
        BY <3>1 DEF Task
      <4>2. v.request = "chat" /\ v.stage = "Post" /\ v.conn = c /\ v.msg = Notice /\ v.rest = rest
        BY <3>4, <4>1 DEF Tasks
      <4> QED
        BY <3>5, <4>2 DEF Tasks
    <3>7. Starts(l, u)
      BY <2>7, <3>1, <3>2, <3>3, <3>4, <3>5 DEF ChatHandle
    <3>8. PICK new : new = [refs |-> 1, msg |-> Notice]
      OBVIOUS
    <3>9. contexts' = Append(contexts, new) /\ new.msg = Notice
      BY <2>7, <3>8 DEF ChatHandle
    <3>10. k \in DOMAIN contexts' /\ contexts'[k].msg = Notice
      BY <1>2, <3>2, <3>9, Appended
    <3>11. InHandler(l, u)'
      BY <2>1, <3>3, <3>6, <3>10 DEF InHandler, Known, OfEdit, AtStage
    <3>12. UNCHANGED <<document, since>>
      BY <2>7 DEF ChatHandle, docVars
    <3> QED
      BY <2>2, <3>7, <3>11, <3>12
  <2>8. ASSUME Close(l, c) PROVE Control'
    BY <1>4, <2>8 DEF Close, docVars
  <2>9. ASSUME Delete(l, c) PROVE Control'
    <3>1. Leave(c)
      BY <2>9 DEF Delete
    <3>2. CASE document[c] # NULL
      BY <2>5, <2>9, <3>2 DEF Delete
    <3>3. CASE document[c] = NULL
      <4>1. task' = task
        BY <2>9, <3>3 DEF Delete
      <4>2. \A b \in Conn : ConnectionIdToRing(b) # l => document'[b] = document[b] /\ since'[b] = since[b]
        BY <1>2, <2>1, <3>1 DEF Leave
      <4>3. (task[l] = Idle \/ InHandler(l, task[l]))'
        BY <2>1, <4>1
      <4> QED
        BY <1>3, <4>1, <4>2, <4>3
    <3> QED
      BY <3>2, <3>3
  <2> QED
    BY <1>12, <2>3, <2>4, <2>6, <2>7, <2>8, <2>9 DEF Request
<1> QED
  BY <1>5, <1>6, <1>7, <1>8, <1>9, <1>10, <1>11, <1>12 DEF Next, Run

-----------------------------------------------------------------------------
(* The users of the documents. *)

(* At first nobody has a document open.                                     *)
LEMMA ListedInit == Init => Listed
<1> SUFFICES ASSUME Init PROVE Listed
  OBVIOUS
<1>1. \A d \in Doc : users[d] = <<>>
  BY DEF Init
<1>2. \A c \in Conn : document[c] = NULL
  BY DEF Init
<1>3. IsInjective(<<>>)
  BY DEF IsInjective
<1> QED
  BY <1>1, <1>2, <1>3, NumEmpty, NullIsNothing DEF Listed

(* A user that joins is in front of those who are in the list.              *)
LEMMA InFront ==
  ASSUME NEW S, NEW s \in Seq(S), NEW x \in S
  PROVE  /\ ToSet(<<x>> \o s) = ToSet(s) \cup {x}
         /\ IsInjective(s) /\ x \notin ToSet(s) => IsInjective(<<x>> \o s)
<1> DEFINE f == <<x>> \o s
<1>1. /\ DOMAIN s = 1..Len(s) /\ Len(s) \in Nat /\ DOMAIN f = 1..(Len(s) + 1)
      /\ f[1] = x /\ \A i \in 2..(Len(s) + 1) : i - 1 \in DOMAIN s /\ f[i] = s[i - 1]
  OBVIOUS
<1>2. ToSet(f) = ToSet(s) \cup {x}
  <2> DEFINE g == <<x>>
  <2>1. g \in Seq(S) /\ ToSet(g) = {x}
    BY NumOne
  <2> HIDE DEF g
  <2>2. ToSet(g \o s) = ToSet(g) \cup ToSet(s)
    BY <2>1, NumConcat
  <2> QED
    BY <2>1, <2>2 DEF g
<1>3. ASSUME IsInjective(s), x \notin ToSet(s) PROVE IsInjective(f)
  <2>1. \A i \in DOMAIN s : s[i] \in ToSet(s)
    BY DEF ToSet
  <2>2. ASSUME NEW i \in DOMAIN f, NEW j \in DOMAIN f, f[i] = f[j] PROVE i = j
    <3>1. i \in Nat /\ j \in Nat /\ (i # 1 => i \in 2..(Len(s) + 1)) /\ (j # 1 => j \in 2..(Len(s) + 1))
      BY <1>1
    <3> HIDE DEF f
    <3>2. i # 1 => i - 1 \in DOMAIN s /\ f[i] = s[i - 1] /\ f[i] # x
      BY <1>1, <1>3, <2>1, <3>1
    <3>3. j # 1 => j - 1 \in DOMAIN s /\ f[j] = s[j - 1] /\ f[j] # x
      BY <1>1, <1>3, <2>1, <3>1
    <3>4. i # 1 /\ j # 1 => i - 1 = j - 1
      BY <1>3, <2>2, <3>2, <3>3 DEF IsInjective
    <3> QED
      BY <1>1, <2>2, <3>1, <3>2, <3>3, <3>4
  <2> QED
    BY <2>2 DEF IsInjective
<1> QED
  BY <1>2, <1>3

(* Joining is about the handler of the connection's own loop.               *)
LEMMA ListedFrame ==
  ASSUME Listed, NEW l \in Loop, UNCHANGED <<users, document>>,
         \A n \in Loop : n # l => task'[n] = task[n],
         task[l].stage = "JoinUser" <=> task'[l].stage = "JoinUser",
         task[l].stage = "JoinUser" => task'[l].conn = task[l].conn
  PROVE  Listed'
<1>1. \A c \in Conn : Joining(c)' <=> Joining(c)
  BY RingIs DEF Joining
<1> QED
  BY <1>1 DEF Listed

(* The users of a document are those who have it open, once each.           *)
LEMMA ListedNext ==
  ASSUME Types, Placed, Control, Listed, [Next]_vars, Types'
  PROVE  Listed'
<1>1. /\ task \in [Loop -> Tasks] /\ users \in [Doc -> Seq(Conn)]
      /\ document \in [Conn -> Doc \cup {NULL}] /\ NULL \notin Doc
  BY NullIsNothing DEF Types
<1>2. ASSUME UNCHANGED <<users, document, task>> PROVE Listed'
  <2>1. \A c \in Conn : Joining(c)' <=> Joining(c)
    BY <1>2 DEF Joining
  <2> QED
    BY <1>2, <2>1 DEF Listed
<1>3. CASE UNCHANGED vars
  BY <1>2, <1>3 DEF vars, docVars
<1>4. CASE Connect
  BY <1>2, <1>4 DEF Connect, docVars
<1>5. ASSUME NEW l \in Loop, Submit(l) \/ Handle(l) PROVE Listed'
  BY <1>2, <1>5 DEF Submit, Handle, docVars
<1>6. ASSUME NEW l \in Loop, NEW t \in Tasks, t.stage # "JoinUser", Starts(l, t),
             task[l].stage # "JoinUser", UNCHANGED <<users, document>>
      PROVE  Listed'
  <2>1. task'[l] = t /\ \A n \in Loop : n # l => task'[n] = task[n]
    BY <1>1, <1>6, StartsIs
  <2> QED
    BY <1>6, <2>1, ListedFrame
<1>7. Idle \in Tasks /\ Idle.stage = "none"
  BY IdleIs DEF Idle, Task
<1>8. ASSUME NEW t \in Tasks, NEW rest \in Seq(Conn), t.stage # "JoinUser"
      PROVE  Posting(t, rest) \in Tasks /\ Posting(t, rest).stage # "JoinUser"
  <2>1. CASE rest # <<>>
    <3>1. PICK u \in Tasks : u = [t EXCEPT !.stage = "Post", !.rest = rest] /\ Posting(t, rest) = u
      BY <2>1, PostingIs
    <3>2. u.stage = "Post"
      BY <3>1 DEF Tasks
    <3> QED
      BY <3>1, <3>2
  <2>2. CASE rest = <<>> /\ t.request = "open"
    <3>1. PICK u \in Tasks : u = [t EXCEPT !.stage = "GetContent", !.rest = <<>>] /\ Posting(t, rest) = u
      BY <2>2, PostingIs
    <3>2. u.stage = "GetContent"
      BY <3>1 DEF Tasks
    <3> QED
      BY <3>1, <3>2
  <2>3. CASE rest = <<>> /\ t.request # "open"
    BY <1>7, <2>3, PostingIs
  <2> QED
    BY <2>1, <2>2, <2>3
<1>9. ASSUME NEW l \in Loop, JoinUser(l) PROVE Listed'
  <2>1. PICK t \in Tasks : t = task[l]
    BY <1>1
  <2>2. PICK c \in Conn, d \in Doc :
          c = t.conn /\ d = t.doc /\ ConnectionIdToRing(c) = l /\ document[c] = d /\ t.stage = "JoinUser"
    BY <1>9, <2>1, Staged DEF JoinUser, InHandler, Known
  <2>3. PICK u \in Tasks : u = [t EXCEPT !.stage = "GetUserList"]
    BY <2>1 DEF Tasks, Stages
  <2>4. PICK list \in Seq(Conn) : list = users[d]
    BY <1>1
  <2>5. UNCHANGED document /\ users' = [users EXCEPT ![d] = <<c>> \o @] /\ Starts(l, u)
    BY <1>9, <2>1, <2>2, <2>3 DEF JoinUser
  <2>6. PICK new \in Seq(Conn) :
          /\ new = <<c>> \o list /\ ToSet(new) = ToSet(list) \cup {c}
          /\ IsInjective(list) /\ c \notin ToSet(list) => IsInjective(new)
    <3>1. <<c>> \o list \in Seq(Conn)
      OBVIOUS
    <3> QED
      BY <3>1, InFront
  <2>7. users' = [users EXCEPT ![d] = new]
    BY <2>4, <2>5, <2>6
  <2>8. users'[d] = new /\ \A x \in Doc : x # d => users'[x] = users[x]
    BY <1>1, <2>7
  <2>9. task'[l] = u /\ \A n \in Loop : n # l => task'[n] = task[n]
    BY <1>1, <2>5, StartsIs
  <2>10. u.stage = "GetUserList"
    BY <2>3 DEF Tasks
  <2>11. Joining(c) /\ ~Joining(c)'
    BY <2>1, <2>2, <2>9, <2>10 DEF Joining
  <2>12. \A b \in Conn : b # c => (Joining(b)' <=> Joining(b))
    BY <2>1, <2>2, <2>9, <2>10, RingIs DEF Joining
  <2>13. c \notin ToSet(list) /\ IsInjective(list)
    BY <2>4, <2>11 DEF Listed
  <2>14. ASSUME NEW x \in Doc
         PROVE  /\ IsInjective(users'[x])
                /\ \A b \in Conn : b \in ToSet(users'[x]) <=> document'[b] = x /\ ~Joining(b)'
    <3>1. CASE x = d
      <4>1. document' = document
        BY <2>5
      <4>2. users'[x] = new /\ users[x] = list
        BY <2>4, <2>8, <3>1
      <4>3. IsInjective(new) /\ ToSet(new) = ToSet(list) \cup {c}
        BY <2>6, <2>13
      <4>4. \A b \in Conn : b \in ToSet(list) <=> document[b] = x /\ ~Joining(b)
        BY <4>2 DEF Listed
      <4>5. \A b \in Conn : b \in ToSet(new) <=> document'[b] = x /\ ~Joining(b)'
        BY <2>2, <2>11, <2>12, <3>1, <4>1, <4>3, <4>4
      <4> QED
        BY <4>2, <4>3, <4>5
    <3>2. CASE x # d
      <4>1. document' = document
        BY <2>5
      <4> QED
        BY <2>2, <2>8, <2>11, <2>12, <3>2, <4>1 DEF Listed
    <3> QED
      BY <3>1, <3>2
  <2> QED
    BY <2>14 DEF Listed
<1>10. ASSUME NEW l \in Loop, GetUserList(l) PROVE Listed'
  <2>1. PICK t \in Tasks : t = task[l] /\ t.stage = "GetUserList" /\ t.doc \in Doc
    BY <1>1, <1>10, Staged DEF GetUserList
  <2>2. PICK u \in Tasks : u = [t EXCEPT !.ctx = Len(contexts) + 1]
    <3>1. Len(contexts) + 1 \in Nat
      BY DEF Types
    <3> QED
      BY <3>1 DEF Tasks
  <2>3. u.stage = "GetUserList"
    BY <2>1, <2>2 DEF Tasks
  <2>4. PICK to \in Seq(Conn) : to = Receivers(t, users[t.doc])
    BY <1>1, <2>1, OnlyIs DEF Receivers
  <2>5. UNCHANGED <<users, document>> /\ (Starts(l, Posting(u, to)) \/ Starts(l, Posting(t, <<>>)))
    BY <1>10, <2>1, <2>2, <2>4 DEF GetUserList, docVars
  <2>6. <<>> \in Seq(Conn)
    OBVIOUS
  <2>7. /\ Posting(u, to) \in Tasks /\ Posting(u, to).stage # "JoinUser"
        /\ Posting(t, <<>>) \in Tasks /\ Posting(t, <<>>).stage # "JoinUser"
    BY <1>8, <2>1, <2>3, <2>6
  <2>8. task[l].stage # "JoinUser"
    BY <2>1
  <2> QED
    BY <1>6, <2>5, <2>7, <2>8
<1>11. ASSUME NEW l \in Loop, Post(l) PROVE Listed'
  <2>1. PICK t \in Tasks : t = task[l] /\ t.stage = "Post"
    BY <1>1, <1>11 DEF Post
  <2>2. PICK rest \in Seq(Conn) : rest = Tail(t.rest)
    BY <1>11, <2>1, Staged DEF Post
  <2>3. UNCHANGED <<users, document>> /\ Starts(l, Posting(t, rest))
    BY <1>11, <2>1, <2>2 DEF Post, docVars
  <2>4. Posting(t, rest) \in Tasks /\ Posting(t, rest).stage # "JoinUser"
    BY <1>8, <2>1
  <2>5. task[l].stage # "JoinUser"
    BY <2>1
  <2> QED
    BY <1>6, <2>3, <2>4, <2>5
<1>12. ASSUME NEW l \in Loop, GetContent(l) PROVE Listed'
  BY <1>6, <1>7, <1>12 DEF GetContent
<1>13. ASSUME NEW l \in Loop, NEW c \in Conn, Request(l, c) PROVE Listed'
  <2>1. task[l] = Idle /\ ConnectionIdToRing(c) = l
    BY <1>13, ServedIs DEF Request, OpenHandle, EditHandle, CloseHandle, ChatHandle, Close, Delete
  <2>2. task[l].stage = "none"
    BY <1>7, <2>1
  <2>3. ASSUME NEW x \in Doc \cup {NULL}, users' = Without(c), document' = [document EXCEPT ![c] = x],
               \A n \in Loop : n # l => task'[n] = task[n],
               Joining(c)' <=> x # NULL,
               \A b \in Conn : b # c => ~(task'[l].stage = "JoinUser" /\ task'[l].conn = b)
        PROVE  Listed'
    <3>1. \A b \in Conn : b # c => (Joining(b)' <=> Joining(b)) /\ document'[b] = document[b]
      BY <1>1, <2>2, <2>3, RingIs DEF Joining
    <3>2. document'[c] = x /\ ~Joining(c)
      BY <1>1, <2>1, <2>2, <2>3 DEF Joining
    <3>3. ASSUME NEW d \in Doc
          PROVE  /\ IsInjective(users'[d])
                 /\ \A b \in Conn : b \in ToSet(users'[d]) <=> document'[b] = d /\ ~Joining(b)'
      <4>1. /\ d # document[c] => users'[d] = users[d]
            /\ d = document[c] => ToSet(users'[d]) = ToSet(users[d]) \ {c}
            /\ IsInjective(users[d]) => IsInjective(users'[d])
        BY <2>3, WithoutIs
      <4>2. IsInjective(users[d]) /\ \A b \in Conn : b \in ToSet(users[d]) <=> document[b] = d /\ ~Joining(b)
        BY DEF Listed
      <4>3. c \notin ToSet(users'[d])
        BY <3>2, <4>1, <4>2
      <4>4. ~(document'[c] = d /\ ~Joining(c)')
        BY <1>1, <2>3, <3>2
      <4>5. \A b \in Conn : b # c => (b \in ToSet(users'[d]) <=> b \in ToSet(users[d]))
        BY <4>1
      <4> QED
        BY <3>1, <4>1, <4>2, <4>3, <4>4, <4>5
    <3> QED
      BY <3>3 DEF Listed
  <2>4. ASSUME NEW d \in Doc, OpenHandle(l, c, d) PROVE Listed'
    <3>1. PICK t \in Tasks : t = Task("open", "JoinUser", c, d, Notice)
      BY StartIs DEF Requests, Stages, Notice
    <3>2. t.stage = "JoinUser" /\ t.conn = c
      BY <3>1 DEF Task
    <3>3. users' = Without(c) /\ document' = [document EXCEPT ![c] = d] /\ Starts(l, t)
      BY <2>4, <3>1 DEF OpenHandle
    <3>4. task'[l] = t /\ \A n \in Loop : n # l => task'[n] = task[n]
      BY <1>1, <3>3, StartsIs
    <3>5. Joining(c)' /\ d # NULL
      BY <1>1, <2>1, <3>2, <3>4 DEF Joining
    <3>6. \A b \in Conn : b # c => ~(task'[l].stage = "JoinUser" /\ task'[l].conn = b)
      BY <3>2, <3>4
    <3> QED
      BY <2>3, <3>3, <3>4, <3>5, <3>6
  <2>5. ASSUME Leave(c), \A n \in Loop : n # l => task'[n] = task[n], task'[l].stage # "JoinUser"
        PROVE  Listed'
    <3>1. ~Joining(c)'
      BY <2>1, <2>5 DEF Joining
    <3>2. users' = Without(c) /\ document' = [document EXCEPT ![c] = NULL]
      BY <2>5 DEF Leave
    <3> QED
      BY <2>3, <2>5, <3>1, <3>2
  <2>6. ASSUME document[c] # NULL, Starts(l, Leaving(c))
        PROVE  (\A n \in Loop : n # l => task'[n] = task[n]) /\ task'[l].stage # "JoinUser"
    <3>1. PICK d \in Doc : d = document[c]
      BY <1>1, <2>6
    <3>2. PICK t \in Tasks : t = Task("close", "GetUserList", c, d, Notice)
      BY StartIs DEF Requests, Stages, Notice
    <3>3. t.stage = "GetUserList"
      BY <3>2 DEF Task
    <3>4. Starts(l, t)
      BY <2>6, <3>1, <3>2 DEF Leaving
    <3> QED
      BY <1>1, <3>3, <3>4, StartsIs
  <2>7. ASSUME CloseHandle(l, c) PROVE Listed'
    BY <2>5, <2>6, <2>7 DEF CloseHandle
  <2>8. ASSUME Delete(l, c) PROVE Listed'
    <3>1. CASE document[c] = NULL
      BY <2>2, <2>5, <2>8, <3>1 DEF Delete
    <3>2. CASE document[c] # NULL
      BY <2>5, <2>6, <2>8, <3>2 DEF Delete
    <3> QED
      BY <3>1, <3>2
  <2>9. ASSUME EditHandle(l, c) PROVE Listed'
    <3>1. PICK d \in Doc : d = document[c]
      BY <1>1, <2>9 DEF EditHandle
    <3>2. PICK m \in Nat : m = Len(edits) + 1
      BY DEF Types
    <3>3. PICK t \in Tasks : t = Task("edit", "GetUserList", c, d, m)
      BY StartIs DEF Requests, Stages
    <3>4. t.stage = "GetUserList"
      BY <3>3 DEF Task
    <3>5. UNCHANGED <<users, document>> /\ Starts(l, t)
      BY <2>9, <3>1, <3>2, <3>3 DEF EditHandle
    <3> QED
      BY <1>6, <2>2, <3>4, <3>5
  <2>10. ASSUME NEW to \in Conn, ChatHandle(l, c, to) PROVE Listed'
    <3>1. PICK t \in Tasks : t = Task("chat", "Post", c, NULL, Notice)
      BY StartIs DEF Requests, Stages, Notice
    <3>2. PICK k \in Nat : k = Len(contexts) + 1
      BY DEF Types
    <3>3. PICK rest \in Seq(Conn) : rest = <<to>>
      <4>1. <<to>> \in Seq(Conn)
        OBVIOUS
      <4> QED
        BY <4>1
    <3>4. PICK v \in Tasks : v = [t EXCEPT !.rest = rest]
      BY DEF Tasks
    <3>5. PICK u \in Tasks : u = [v EXCEPT !.ctx = k]
      BY DEF Tasks
    <3>6. t.stage = "Post"
      BY <3>1 DEF Task
    <3>7. v.stage = "Post"
      BY <3>4, <3>6 DEF Tasks
    <3>8. u.stage = "Post"
      BY <3>5, <3>7 DEF Tasks
    <3>9. Starts(l, u) /\ UNCHANGED <<users, document>>
      BY <2>10, <3>1, <3>2, <3>3, <3>4, <3>5 DEF ChatHandle, docVars
    <3> QED
      BY <1>6, <2>2, <3>8, <3>9
  <2>11. ASSUME Close(l, c) PROVE Listed'
    BY <1>2, <2>11 DEF Close, docVars
  <2> QED
    BY <1>13, <2>4, <2>7, <2>8, <2>9, <2>10, <2>11 DEF Request
<1> QED
  BY <1>3, <1>4, <1>5, <1>9, <1>10, <1>11, <1>12, <1>13 DEF Next, Run

-----------------------------------------------------------------------------
(* The references of the contexts. *)

(* A list of distinct elements has each once, and at most as many as there  *)
(* are.                                                                     *)
LEMMA NumInjective ==
  ASSUME NEW S, NEW s \in Seq(S), IsInjective(s)
  PROVE  /\ \A x : Num(s, {x}) = IF x \in ToSet(s) THEN 1 ELSE 0
         /\ Num(s, S) = Len(s) /\ Len(s) \in Nat
         /\ \A x : Num(s, S \ {x}) = IF x \in ToSet(s) THEN Len(s) - 1 ELSE Len(s)
         /\ IsFiniteSet(S) => Len(s) <= Cardinality(S)
<1>1. /\ DOMAIN s = 1..Len(s) /\ Len(s) \in Nat /\ s \in [1..Len(s) -> S]
      /\ Cardinality(1..Len(s)) = Len(s) /\ IsFiniteSet(1..Len(s))
  <2>1. DOMAIN s = 1..Len(s) /\ Len(s) \in Nat /\ s \in [1..Len(s) -> S]
    OBVIOUS
  <2>2. \A n \in Nat : Cardinality(1..n) = n /\ IsFiniteSet(1..n)
    BY FS_Interval
  <2> QED
    BY <2>1, <2>2
<1>2. \A i, j \in 1..Len(s) : s[i] = s[j] => i = j
  BY <1>1 DEF IsInjective
<1>3. ASSUME NEW x PROVE Num(s, {x}) = IF x \in ToSet(s) THEN 1 ELSE 0
  <2>1. CASE x \in ToSet(s)
    <3>1. PICK i \in DOMAIN s : s[i] = x
      BY <2>1 DEF ToSet
    <3>2. Places(s, {x}) = {i}
      BY <1>1, <1>2, <3>1 DEF Places
    <3> QED
      BY <2>1, <3>2, FS_Singleton DEF Num
  <2>2. CASE x \notin ToSet(s)
    BY <2>2, NumType
  <2> QED
    BY <2>1, <2>2
<1>4. Num(s, S) = Len(s)
  <2>1. Places(s, S) = 1..Len(s)
    BY <1>1 DEF Places
  <2> QED
    BY <1>1, <2>1 DEF Num
<1>5. ASSUME NEW x PROVE Num(s, S \ {x}) = IF x \in ToSet(s) THEN Len(s) - 1 ELSE Len(s)
  <2> DEFINE P == S \ {x}
             Q == {x}
  <2>1. P \cap Q = {}
    OBVIOUS
  <2>2. Num(s, P \cup Q) = Num(s, P) + Num(s, Q)
    <3> HIDE DEF P, Q
    <3> QED
      BY <2>1, NumDisjoint
  <2>3. Places(s, P \cup Q) = Places(s, S)
    BY <1>1 DEF Places
  <2>4. Num(s, P \cup Q) = Num(s, S) /\ Num(s, P) \in Nat
    BY <2>3, NumType DEF Num
  <2>5. Num(s, Q) = IF x \in ToSet(s) THEN 1 ELSE 0
    BY <1>3
  <2> HIDE DEF P, Q
  <2>6. Num(s, P) = IF x \in ToSet(s) THEN Len(s) - 1 ELSE Len(s)
    BY <1>1, <1>4, <2>2, <2>4, <2>5
  <2> QED
    BY <2>6 DEF P
<1>6. ASSUME IsFiniteSet(S) PROVE Len(s) <= Cardinality(S)
  <2>1. s \in Injection(1..Len(s), S)
    BY <1>1, <1>2 DEF Injection, IsInjective
  <2> QED
    BY <1>1, <1>6, <2>1, FS_Injection
<1> QED
  BY <1>1, <1>3, <1>4, <1>5, <1>6

(* The parts of the shares of a context.                                    *)
Rest(t, k) == IF t.ctx = k THEN t.rest ELSE <<>>
Rests(tasks, k) == [l \in Loop |-> Rest(tasks[l], k)]
InTasks(k, C) == Tally(Rests(task, k), C)
InSq(k, C) == Tally(sq, Messages(k, C))
InCq(k, C) == Tally(cq, Messages(k, C))
InLost(k, C) == Cardinality(lost \cap Messages(k, C))

(* What is left to post is a queue for each loop.                           *)
LEMMA RestsAre ==
  ASSUME NEW tasks \in [Loop -> Tasks], NEW k
  PROVE  /\ Rests(tasks, k) \in Queues(Conn)
         /\ \A l \in Loop : Rests(tasks, k)[l] = Rest(tasks[l], k)
<1>1. <<>> \in Seq(Conn)
  OBVIOUS
<1>2. \A l \in Loop : tasks[l].rest \in Seq(Conn)
  BY DEF Tasks
<1> QED
  BY <1>1, <1>2 DEF Rests, Rest, Queues

(* The shares are a sum of four counts, before a step and after it.         *)
LEMMA PartsAre ==
  ASSUME Types, Types'
  PROVE  \A k, C :
           /\ InTasks(k, C) \in Nat /\ InSq(k, C) \in Nat /\ InCq(k, C) \in Nat /\ InLost(k, C) \in Nat
           /\ InTasks(k, C)' \in Nat /\ InSq(k, C)' \in Nat /\ InCq(k, C)' \in Nat /\ InLost(k, C)' \in Nat
           /\ Shares(k, C) = InTasks(k, C) + InSq(k, C) + InCq(k, C) + InLost(k, C)
           /\ Shares(k, C)' = InTasks(k, C)' + InSq(k, C)' + InCq(k, C)' + InLost(k, C)'
<1> SUFFICES ASSUME NEW k, NEW C
             PROVE  /\ InTasks(k, C) \in Nat /\ InSq(k, C) \in Nat /\ InCq(k, C) \in Nat /\ InLost(k, C) \in Nat
                    /\ InTasks(k, C)' \in Nat /\ InSq(k, C)' \in Nat /\ InCq(k, C)' \in Nat /\ InLost(k, C)' \in Nat
                    /\ Shares(k, C) = InTasks(k, C) + InSq(k, C) + InCq(k, C) + InLost(k, C)
                    /\ Shares(k, C)' = InTasks(k, C)' + InSq(k, C)' + InCq(k, C)' + InLost(k, C)'
  OBVIOUS
<1>1. /\ task \in [Loop -> Tasks] /\ sq \in Queues(Entries) /\ cq \in Queues(Entries) /\ IsFiniteSet(lost)
      /\ task' \in [Loop -> Tasks] /\ sq' \in Queues(Entries) /\ cq' \in Queues(Entries) /\ IsFiniteSet(lost')
  BY DEF Types
<1>2. InTasks(k, C) \in Nat /\ InTasks(k, C)' \in Nat
  <2>1. Rests(task, k) \in Queues(Conn) /\ Rests(task', k) \in Queues(Conn)
    BY <1>1, RestsAre
  <2>2. Tally(Rests(task, k), C) \in Nat /\ Tally(Rests(task', k), C) \in Nat
    BY <2>1, SpotsAre
  <2> QED
    BY <2>2 DEF InTasks
<1>3. InSq(k, C) \in Nat /\ InSq(k, C)' \in Nat /\ InCq(k, C) \in Nat /\ InCq(k, C)' \in Nat
  <2>1. \A P : Tally(sq, P) \in Nat /\ Tally(sq', P) \in Nat /\ Tally(cq, P) \in Nat /\ Tally(cq', P) \in Nat
    BY <1>1, SpotsAre
  <2> QED
    BY <2>1 DEF InSq, InCq
<1>4. InLost(k, C) \in Nat /\ InLost(k, C)' \in Nat
  <2>1. IsFiniteSet(lost \cap Messages(k, C)) /\ IsFiniteSet(lost' \cap Messages(k, C))
    BY <1>1, FS_Intersection
  <2> QED
    BY <2>1, FS_CardinalityType DEF InLost
<1>5. /\ Shares(k, C) = InTasks(k, C) + InSq(k, C) + InCq(k, C) + InLost(k, C)
      /\ Shares(k, C)' = InTasks(k, C)' + InSq(k, C)' + InCq(k, C)' + InLost(k, C)'
  BY DEF Shares, ToPost, Rests, Rest, InTasks, InSq, InCq, InLost
<1> QED
  BY <1>2, <1>3, <1>4, <1>5

(* The shares are a number.                                                 *)
LEMMA SharesType ==
  ASSUME Types, NEW k, NEW C
  PROVE  Shares(k, C) \in Nat
<1>1. /\ task \in [Loop -> Tasks] /\ sq \in Queues(Entries) /\ cq \in Queues(Entries) /\ IsFiniteSet(lost)
  BY DEF Types
<1>2. Rests(task, k) \in Queues(Conn)
  BY <1>1, RestsAre
<1>3. InTasks(k, C) \in Nat
  BY <1>2, SpotsAre DEF InTasks
<1>4. InSq(k, C) \in Nat /\ InCq(k, C) \in Nat
  BY <1>1, SpotsAre DEF InSq, InCq
<1>5. IsFiniteSet(lost \cap Messages(k, C))
  BY <1>1, FS_Intersection
<1>6. InLost(k, C) \in Nat
  BY <1>5, FS_CardinalityType DEF InLost
<1>7. Shares(k, C) = InTasks(k, C) + InSq(k, C) + InCq(k, C) + InLost(k, C)
  BY DEF Shares, ToPost, Rests, Rest, InTasks, InSq, InCq, InLost
<1> QED
  BY <1>3, <1>4, <1>6, <1>7

(* One entry and the messages of a context.                                 *)
LEMMA MailIs ==
  /\ \A e \in Entries : \A k, C :
       One(e, Messages(k, C)) = IF e.op = "msg" /\ e.ctx = k /\ e.conn \in C THEN 1 ELSE 0
  /\ \A e : \A k, C : e \in Messages(k, C) => e \in Entries /\ e.op = "msg" /\ e.ctx = k /\ e.conn \in C
  /\ \A k, C : Rearm \notin Messages(k, C)
BY DEF One, Messages, Rearm, Entry

(* What one loop has left to post.                                          *)
LEMMA TasksChange ==
  ASSUME Types, Types', NEW l \in Loop, \A n \in Loop : n # l => task'[n] = task[n], NEW k, NEW C
  PROVE  LET old == Num(Rest(task[l], k), C)
             new == Num(Rest(task'[l], k), C)
         IN  /\ old \in Nat /\ new \in Nat /\ old <= InTasks(k, C)
             /\ InTasks(k, C)' = (InTasks(k, C) - old) + new
<1>1. task \in [Loop -> Tasks] /\ task' \in [Loop -> Tasks]
  BY DEF Types
<1> DEFINE q == Rests(task, k)
           r == Rests(task', k)
<1>2. q \in Queues(Conn) /\ r \in Queues(Conn)
  BY <1>1, RestsAre
<1>3. /\ q[l] = Rest(task[l], k)
      /\ r[l] = Rest(task'[l], k)
  BY <1>1, RestsAre
<1>4. \A n \in Loop : n # l => r[n] = q[n]
  BY <1>1, RestsAre
<1>5. InTasks(k, C) = Tally(q, C) /\ InTasks(k, C)' = Tally(r, C)
  BY DEF InTasks
<1> HIDE DEF q, r
<1>6. /\ Tally(q, C) \in Nat /\ Tally(r, C) \in Nat
      /\ Num(q[l], C) \in Nat /\ Num(r[l], C) \in Nat
      /\ Num(q[l], C) <= Tally(q, C)
      /\ Tally(r, C) = (Tally(q, C) - Num(q[l], C)) + Num(r[l], C)
  BY <1>2, <1>4, TallyChange
<1> QED
  BY <1>3, <1>5, <1>6

(* Nothing of a context that has not been created is anywhere.              *)
LEMMA FreshIs ==
  ASSUME Types, Types', Placed, Control, NEW k, k \notin DOMAIN contexts
  PROVE  \A C : InTasks(k, C) = 0 /\ InSq(k, C) = 0 /\ InCq(k, C) = 0 /\ InLost(k, C) = 0
<1> SUFFICES ASSUME NEW C PROVE InTasks(k, C) = 0 /\ InSq(k, C) = 0 /\ InCq(k, C) = 0 /\ InLost(k, C) = 0
  OBVIOUS
<1>1. /\ task \in [Loop -> Tasks] /\ sq \in Queues(Entries) /\ cq \in Queues(Entries)
  BY DEF Types
<1>2. InTasks(k, C) = 0
  <2> DEFINE q == Rests(task, k)
  <2>1. q \in Queues(Conn)
    BY <1>1, RestsAre
  <2>2. ASSUME NEW l \in Loop PROVE ToSet(q[l]) = {}
    <3>1. q[l] = IF task[l].ctx = k THEN task[l].rest ELSE <<>>
      BY <1>1, RestsAre DEF Rest
    <3>2. task[l].ctx = k => task[l].rest = <<>>
      <4>1. PICK t : t = task[l]
        OBVIOUS
      <4>2. t = Idle \/ InHandler(l, t)
        BY <4>1 DEF Control
      <4>3. CASE t = Idle
        BY <4>1, <4>3 DEF Idle, Task
      <4>4. CASE InHandler(l, t)
        BY <4>1, <4>4 DEF InHandler, AtStage
      <4> QED
        BY <4>2, <4>3, <4>4
    <3>3. q[l] = <<>>
      BY <3>1, <3>2
    <3> HIDE DEF q
    <3> QED
      BY <3>3, NumEmpty
  <2> HIDE DEF q
  <2>3. Tally(q, C) = 0
    BY <2>1, <2>2, TallyNone
  <2> QED
    BY <2>3 DEF InTasks, q
<1>3. ASSUME NEW e \in Entries, e.op = "msg", NEW l \in Loop, Waits(l, e) \/ Arrives(l, e)
      PROVE  e.ctx \in DOMAIN contexts
  BY <1>3 DEF Waits, Arrives, IsMail, Rearm, Unprepared, Entry
<1>4. \A e \in Messages(k, C) : e \in Entries /\ e.op = "msg" /\ e.ctx = k
  BY MailIs
<1>5. InSq(k, C) = 0
  <2>1. \A l \in Loop : \A e \in ToSet(sq[l]) : Waits(l, e)
    BY DEF Placed
  <2>2. \A l \in Loop : \A e \in ToSet(sq[l]) : e \notin Messages(k, C)
    BY <1>3, <1>4, <2>1
  <2> QED
    BY <1>1, <2>2, TallyNone DEF InSq
<1>6. InCq(k, C) = 0
  <2>1. \A l \in Loop : \A e \in ToSet(cq[l]) : Arrives(l, e)
    BY DEF Placed
  <2>2. \A l \in Loop : \A e \in ToSet(cq[l]) : e \notin Messages(k, C)
    BY <1>3, <1>4, <2>1
  <2> QED
    BY <1>1, <2>2, TallyNone DEF InCq
<1>7. InLost(k, C) = 0
  <2>1. lost \cap Messages(k, C) = {}
    BY <1>4 DEF Placed
  <2> QED
    BY <2>1, FS_EmptySet DEF InLost
<1> QED
  BY <1>2, <1>5, <1>6, <1>7

(* A step that moves messages, and makes or handles none.                   *)
LEMMA ExactQuiet ==
  ASSUME Exact, UNCHANGED contexts,
         \A k \in DOMAIN contexts : \A C : Shares(k, C)' = Shares(k, C)
  PROVE  Exact'
BY DEF Exact

(* A message of context k to connection c is handled.                       *)
LEMMA ExactTaken ==
  ASSUME Types, Types', Exact, NEW k \in DOMAIN contexts, NEW c \in Conn, contexts' = Released(k),
         \A j \in DOMAIN contexts : \A C :
           Shares(j, C) = Shares(j, C)' + (IF j = k /\ c \in C THEN 1 ELSE 0)
  PROVE  Exact'
<1>1. DOMAIN contexts' = DOMAIN contexts /\ DOMAIN contexts \subseteq Nat
  BY ReleasedIs DEF Types
<1>2. ASSUME NEW j \in DOMAIN contexts
      PROVE  /\ contexts'[j].refs = Shares(j, Conn)' /\ contexts'[j].refs <= Cardinality(Conn)
             /\ \A b \in Conn : Shares(j, {b})' <= 1
  <2>1. /\ contexts[j].refs = Shares(j, Conn) /\ contexts[j].refs <= Cardinality(Conn)
        /\ \A b \in Conn : Shares(j, {b}) <= 1
    BY DEF Exact
  <2>2. \A C : Shares(j, C)' \in Nat
    <3> SUFFICES ASSUME NEW C PROVE Shares(j, C)' \in Nat
      OBVIOUS
    <3>1. /\ InTasks(j, C)' \in Nat /\ InSq(j, C)' \in Nat /\ InCq(j, C)' \in Nat /\ InLost(j, C)' \in Nat
          /\ Shares(j, C)' = InTasks(j, C)' + InSq(j, C)' + InCq(j, C)' + InLost(j, C)'
      BY PartsAre
    <3> QED
      BY <3>1
  <2>3. contexts'[j].refs = IF j = k THEN contexts[j].refs - 1 ELSE contexts[j].refs
    BY ReleasedIs
  <2>4. Shares(j, Conn) = Shares(j, Conn)' + (IF j = k THEN 1 ELSE 0)
    OBVIOUS
  <2>5. Cardinality(Conn) \in Nat /\ Shares(j, Conn)' \in Nat
    BY <2>2, ConnsAre
  <2>6. contexts'[j].refs = Shares(j, Conn)' /\ contexts'[j].refs <= Cardinality(Conn)
    BY <2>1, <2>3, <2>4, <2>5
  <2>7. ASSUME NEW b \in Conn PROVE Shares(j, {b})' <= 1
    <3>1. Shares(j, {b}) = Shares(j, {b})' + (IF j = k /\ c \in {b} THEN 1 ELSE 0)
      OBVIOUS
    <3>2. Shares(j, {b})' \in Nat /\ Shares(j, {b}) <= 1
      BY <2>1, <2>2
    <3> QED
      BY <3>1, <3>2
  <2> QED
    BY <2>6, <2>7
<1> QED
  BY <1>1, <1>2 DEF Exact

(* A context is created for the messages to the connections of a list.      *)
LEMMA ExactCreated ==
  ASSUME Types, Exact, NEW to \in Seq(Conn), IsInjective(to), NEW n,
         DOMAIN contexts' = DOMAIN contexts \cup {n}, contexts'[n].refs = Len(to),
         \A k \in DOMAIN contexts : contexts'[k] = contexts[k],
         \A k \in DOMAIN contexts : \A C : Shares(k, C)' = Shares(k, C),
         \A C : Shares(n, C)' = Num(to, C)
  PROVE  Exact'
<1>1. /\ Num(to, Conn) = Len(to) /\ Len(to) \in Nat /\ Len(to) <= Cardinality(Conn)
      /\ \A b : Num(to, {b}) <= 1
  <2>1. /\ \A b : Num(to, {b}) = IF b \in ToSet(to) THEN 1 ELSE 0
        /\ Num(to, Conn) = Len(to) /\ Len(to) \in Nat
        /\ IsFiniteSet(Conn) => Len(to) <= Cardinality(Conn)
    BY NumInjective
  <2>2. \A b : Num(to, {b}) <= 1
    BY <2>1
  <2> QED
    BY <2>1, <2>2, ConnsAre
<1>2. /\ contexts'[n].refs = Shares(n, Conn)' /\ contexts'[n].refs <= Cardinality(Conn)
      /\ \A b \in Conn : Shares(n, {b})' <= 1
  BY <1>1
<1>3. \A k \in DOMAIN contexts : /\ contexts'[k].refs = Shares(k, Conn)'
                                 /\ contexts'[k].refs <= Cardinality(Conn)
                                 /\ \A b \in Conn : Shares(k, {b})' <= 1
  BY DEF Exact
<1> QED
  BY <1>2, <1>3 DEF Exact

(* A request that failed is not one that waits, for a message is somewhere  *)
(* once.                                                                    *)
LEMMA NotLost ==
  ASSUME Types, Types', Placed, Exact, NEW l \in Loop, NEW x \in Entries, x \in ToSet(sq[l]), x.op = "msg"
  PROVE  x \notin lost
<1> SUFFICES ASSUME x \in lost PROVE FALSE
  OBVIOUS
<1>1. /\ sq \in Queues(Entries) /\ IsFiniteSet(lost) /\ sq[l] \in Seq(Entries)
  BY DEF Types, Queues
<1>2. Waits(l, x)
  BY DEF Placed
<1>3. PICK k \in DOMAIN contexts, c \in Conn : k = x.ctx /\ c = x.conn
  BY <1>2 DEF Waits, IsMail, Leads, Rearm, Unprepared, Entry
<1> DEFINE P == Messages(k, {c})
<1>4. x \in P
  BY <1>3 DEF Messages
<1>5. InSq(k, {c}) >= 1
  <2>1. Num(sq[l], P) \in Nat /\ Num(sq[l], P) # 0
    BY <1>1, <1>4, NumType
  <2>2. Num(sq[l], P) <= Tally(sq, P) /\ Tally(sq, P) \in Nat
    BY <1>1, TallyChange
  <2> HIDE DEF P
  <2>3. Tally(sq, P) >= 1
    BY <2>1, <2>2
  <2> QED
    BY <2>3 DEF InSq, P
<1>6. InLost(k, {c}) >= 1
  <2>1. IsFiniteSet(lost \cap P) /\ lost \cap P # {}
    BY <1>1, <1>4, FS_Intersection
  <2> HIDE DEF P
  <2>2. Cardinality(lost \cap P) \in Nat /\ Cardinality(lost \cap P) # 0
    BY <2>1, FS_CardinalityType, FS_EmptySet
  <2>3. Cardinality(lost \cap P) >= 1
    BY <2>2
  <2> QED
    BY <2>3 DEF InLost, P
<1>7. Shares(k, {c}) <= 1
  BY DEF Exact
<1>8. /\ InTasks(k, {c}) \in Nat /\ InSq(k, {c}) \in Nat /\ InCq(k, {c}) \in Nat /\ InLost(k, {c}) \in Nat
      /\ Shares(k, {c}) = InTasks(k, {c}) + InSq(k, {c}) + InCq(k, {c}) + InLost(k, {c})
  BY PartsAre
<1> HIDE DEF P
<1> QED
  BY <1>5, <1>6, <1>7, <1>8

(* The kernel moves the messages of a queue to the rings they are for, and  *)
(* to those that were lost.                                                 *)
LEMMA SubmitMoves ==
  ASSUME Types, Types', Placed, Exact, NEW l \in Loop, Submit(l), NEW k \in DOMAIN contexts, NEW C
  PROVE  \E here, gone \in Nat : /\ InTasks(k, C)' = InTasks(k, C)
                                /\ InSq(k, C)' = InSq(k, C) - here
                                /\ InCq(k, C)' = InCq(k, C) + gone
                                /\ InLost(k, C)' + gone = InLost(k, C) + here
<1>1. /\ sq \in Queues(Entries) /\ sq' \in Queues(Entries) /\ IsFiniteSet(lost) /\ sq[l] \in Seq(Entries)
  BY DEF Types, Queues
<1>2. PICK done \in Seq(Entries) :
           /\ Issue(l, done)
           /\ \/ done = sq[l] /\ lost' = lost
              \/ \E i \in DOMAIN sq[l] :
                   /\ sq[l][i] \in Entries /\ sq[l][i] \in ToSet(sq[l])
                   /\ lost' = lost \cup {sq[l][i]}
                   /\ \A P : Num(sq[l], P) = Num(done, P) + One(sq[l][i], P)
  BY SubmitIs
<1> DEFINE P == Messages(k, C)
<1>3. InTasks(k, C)' = InTasks(k, C)
  BY DEF Submit, InTasks
<1>4. Rearm \notin P
  BY MailIs
<1>5. Num(sq[l], P) \in Nat /\ Num(done, P) \in Nat
  BY <1>1, NumType
<1>6. InCq(k, C)' = InCq(k, C) + Num(done, P)
  <2>1. Tally(cq', P) = Tally(cq, P) + Num(done, P)
    BY <1>2, <1>4, IssueIs
  <2> QED
    BY <2>1 DEF InCq
<1>7. InSq(k, C)' = InSq(k, C) - Num(sq[l], P)
  <2>1. sq'[l] = <<>> /\ \A n \in Loop : n # l => sq'[n] = sq[n]
    BY <1>2, IssueIs
  <2>2. /\ Tally(sq', P) = (Tally(sq, P) - Num(sq[l], P)) + Num(sq'[l], P)
        /\ Tally(sq, P) \in Nat
    BY <1>1, <2>1, TallyChange
  <2>3. Num(sq'[l], P) = 0
    BY <2>1, NumEmpty
  <2>4. Tally(sq', P) = Tally(sq, P) - Num(sq[l], P)
    BY <1>5, <2>2, <2>3
  <2> QED
    BY <2>4 DEF InSq
<1>8. /\ InTasks(k, C) \in Nat /\ InSq(k, C) \in Nat /\ InCq(k, C) \in Nat /\ InLost(k, C) \in Nat
      /\ Shares(k, C) = InTasks(k, C) + InSq(k, C) + InCq(k, C) + InLost(k, C)
      /\ Shares(k, C)' = InTasks(k, C)' + InSq(k, C)' + InCq(k, C)' + InLost(k, C)'
  BY PartsAre
<1>9. InLost(k, C)' + Num(done, P) = InLost(k, C) + Num(sq[l], P)
  <2>1. CASE done = sq[l] /\ lost' = lost
    <3>1. InLost(k, C)' = InLost(k, C)
      BY <2>1 DEF InLost
    <3> HIDE DEF P
    <3> QED
      BY <2>1, <3>1
  <2>2. CASE \E i \in DOMAIN sq[l] :
                 /\ sq[l][i] \in Entries /\ sq[l][i] \in ToSet(sq[l])
                 /\ lost' = lost \cup {sq[l][i]}
                 /\ \A Q : Num(sq[l], Q) = Num(done, Q) + One(sq[l][i], Q)
    <3>1. PICK x \in Entries :
                 /\ x \in ToSet(sq[l])
                 /\ lost' = lost \cup {x}
                 /\ \A Q : Num(sq[l], Q) = Num(done, Q) + One(x, Q)
      BY <2>2
    <3>2. x \in P => x \notin lost
      BY <3>1, NotLost, MailIs
    <3>3. IsFiniteSet(lost \cap P)
      BY <1>1, FS_Intersection
    <3>4. lost' \cap P = IF x \in P THEN (lost \cap P) \cup {x} ELSE lost \cap P
      BY <3>1
    <3> HIDE DEF P
    <3>5. Cardinality(lost' \cap P) = Cardinality(lost \cap P) + One(x, P)
      <4>1. Cardinality(lost \cap P) \in Nat
        BY <3>3, FS_CardinalityType
      <4>2. CASE x \in P
        BY <3>2, <3>3, <3>4, <4>1, <4>2, FS_AddElement DEF One
      <4>3. CASE x \notin P
        <5>1. lost' \cap P = lost \cap P
          BY <3>4, <4>3
        <5>2. Cardinality(lost' \cap P) = Cardinality(lost \cap P) /\ One(x, P) = 0
          BY <4>3, <5>1 DEF One
        <5> QED
          BY <4>1, <5>2
      <4> QED
        BY <4>2, <4>3
    <3>6. InLost(k, C)' = InLost(k, C) + One(x, P)
      BY <3>5 DEF InLost, P
    <3>7. Num(sq[l], P) = Num(done, P) + One(x, P) /\ One(x, P) \in Nat
      BY <3>1 DEF One
    <3> QED
      BY <1>5, <1>8, <3>6, <3>7
  <2> QED
    BY <1>2, <2>1, <2>2
<1>10. Num(sq[l], P) \in Nat /\ Num(done, P) \in Nat
  BY <1>5
<1> HIDE DEF P
<1> QED
  BY <1>3, <1>6, <1>7, <1>9, <1>10

(* Submitting changes the place of messages and not their number.           *)
LEMMA ExactSubmit ==
  ASSUME Types, Types', Placed, Exact, NEW l \in Loop, Submit(l)
  PROVE  Exact'
<1>1. ASSUME NEW k \in DOMAIN contexts, NEW C PROVE Shares(k, C)' = Shares(k, C)
  <2>1. PICK here \in Nat, gone \in Nat :
           /\ InTasks(k, C)' = InTasks(k, C)
           /\ InSq(k, C)' = InSq(k, C) - here
           /\ InCq(k, C)' = InCq(k, C) + gone
           /\ InLost(k, C)' + gone = InLost(k, C) + here
    BY SubmitMoves
  <2>2. /\ InTasks(k, C) \in Nat /\ InSq(k, C) \in Nat /\ InCq(k, C) \in Nat /\ InLost(k, C) \in Nat
        /\ InTasks(k, C)' \in Nat /\ InSq(k, C)' \in Nat /\ InCq(k, C)' \in Nat /\ InLost(k, C)' \in Nat
        /\ Shares(k, C) = InTasks(k, C) + InSq(k, C) + InCq(k, C) + InLost(k, C)
        /\ Shares(k, C)' = InTasks(k, C)' + InSq(k, C)' + InCq(k, C)' + InLost(k, C)'
    BY PartsAre
  <2>3. InSq(k, C)' + InCq(k, C)' + InLost(k, C)' = InSq(k, C) + InCq(k, C) + InLost(k, C)
    BY <2>1, <2>2
  <2> QED
    BY <2>1, <2>2, <2>3
<1>2. UNCHANGED contexts
  BY DEF Submit, msgVars
<1> QED
  BY <1>1, <1>2, ExactQuiet

(* A loop takes a completion: a message that it takes is one less.          *)
LEMMA HandleMoves ==
  ASSUME Types, Types', Accepting, NEW l \in Loop, Handle(l), NEW e \in Entries, e = Head(cq[l]),
         NEW k, NEW C
  PROVE  /\ InTasks(k, C)' = InTasks(k, C) /\ InSq(k, C)' = InSq(k, C) /\ InLost(k, C)' = InLost(k, C)
         /\ InCq(k, C) = InCq(k, C)' + (IF e.op = "msg" /\ e.ctx = k /\ e.conn \in C THEN 1 ELSE 0)
<1>1. Took(l)
  BY DEF Handle, Took
<1>2. InTasks(k, C)' = InTasks(k, C) /\ InLost(k, C)' = InLost(k, C)
  <2>1. task' = task /\ lost' = lost
    BY DEF Handle
  <2> QED
    BY <2>1 DEF InTasks, InLost
<1>3. InCq(k, C) = InCq(k, C)' + (IF e.op = "msg" /\ e.ctx = k /\ e.conn \in C THEN 1 ELSE 0)
  <2>1. InCq(k, C) = InCq(k, C)' + One(e, Messages(k, C))
    BY <1>1, TookIs DEF InCq
  <2>2. One(e, Messages(k, C)) = IF e.op = "msg" /\ e.ctx = k /\ e.conn \in C THEN 1 ELSE 0
    BY MailIs
  <2> QED
    BY <2>1, <2>2
<1>4. InSq(k, C)' = InSq(k, C)
  <2>1. CASE sq' = sq
    BY <2>1 DEF InSq
  <2>2. CASE e.op \in {"accept", "last_accept", "accept_failed"} /\ HandleAccept(l, e) /\ sq' # sq
    <3>1. l = Master /\ e.op # "accept_failed" /\ conn_count' = conn_count + 1
      BY <2>2, AcceptIs
    <3>2. conn_count' \in Conn
      BY <1>1, <2>2, <3>1, NumberLeft
    <3>3. PICK r \in Seq(Entries) :
            /\ sq' = Extend(sq, l, r)
            /\ \A f \in ToSet(r) : f = Entry("fd_pass", NextRing, conn_count', 0) \/ f = Rearm
      BY <2>2, <3>1, <3>2, AcceptIs
    <3>4. \A f \in ToSet(r) : f \notin Messages(k, C)
      <4>1. Entry("fd_pass", NextRing, conn_count', 0).op = "fd_pass" /\ Rearm.op = "multishot_accept"
        BY DEF Entry, Rearm
      <4> QED
        BY <3>3, <4>1, MailIs
    <3>5. Num(r, Messages(k, C)) = 0
      BY <3>4, NumType
    <3>6. sq' = Extend(sq, l, r) /\ sq \in Queues(Entries)
      BY <3>3 DEF Types
    <3>7. \A P : Tally(sq', P) = Tally(sq, P) + Num(r, P) /\ Tally(sq, P) \in Nat
      BY <3>6, ExtendIs
    <3> QED
      BY <3>5, <3>7 DEF InSq
  <2> QED
    BY <2>1, <2>2 DEF Handle, connVars
<1> QED
  BY <1>2, <1>3, <1>4

(* A completion that is a message takes a share and a reference.            *)
LEMMA ExactHandle ==
  ASSUME Types, Types', Placed, Accepting, Exact, NEW l \in Loop, Handle(l)
  PROVE  Exact'
<1>1. PICK e \in Entries : /\ e = Head(cq[l])
                           /\ e.op = "msg" => e.ctx \in DOMAIN contexts /\ e.conn \in Conn
  BY Completed DEF Handle
<1>2. ASSUME NEW k \in DOMAIN contexts, NEW C
      PROVE  Shares(k, C) = Shares(k, C)' + (IF e.op = "msg" /\ e.ctx = k /\ e.conn \in C THEN 1 ELSE 0)
  <2>1. PICK n \in Nat : n = IF e.op = "msg" /\ e.ctx = k /\ e.conn \in C THEN 1 ELSE 0
    OBVIOUS
  <2>2. /\ InTasks(k, C)' = InTasks(k, C) /\ InSq(k, C)' = InSq(k, C) /\ InLost(k, C)' = InLost(k, C)
        /\ InCq(k, C) = InCq(k, C)' + n
    BY <1>1, <2>1, HandleMoves
  <2>3. /\ InTasks(k, C)' \in Nat /\ InSq(k, C)' \in Nat /\ InCq(k, C)' \in Nat /\ InLost(k, C)' \in Nat
        /\ Shares(k, C) = InTasks(k, C) + InSq(k, C) + InCq(k, C) + InLost(k, C)
        /\ Shares(k, C)' = InTasks(k, C)' + InSq(k, C)' + InCq(k, C)' + InLost(k, C)'
    BY PartsAre
  <2>4. Shares(k, C) = Shares(k, C)' + n
    BY <2>2, <2>3
  <2> QED
    BY <2>1, <2>4
<1>3. CASE e.op # "msg"
  <2>1. contexts' = contexts
    BY <1>1, <1>3 DEF Handle, msgVars
  <2>2. ASSUME NEW k \in DOMAIN contexts, NEW C PROVE Shares(k, C)' = Shares(k, C)
    <3>1. Shares(k, C) = Shares(k, C)' + 0
      BY <1>2, <1>3
    <3>2. /\ InTasks(k, C)' \in Nat /\ InSq(k, C)' \in Nat /\ InCq(k, C)' \in Nat /\ InLost(k, C)' \in Nat
          /\ Shares(k, C)' = InTasks(k, C)' + InSq(k, C)' + InCq(k, C)' + InLost(k, C)'
      BY PartsAre
    <3>3. Shares(k, C)' \in Nat
      BY <3>2
    <3> QED
      BY <3>1, <3>3
  <2> QED
    BY <2>1, <2>2, ExactQuiet
<1>4. CASE e.op = "msg"
  <2>1. contexts' = Released(e.ctx)
    BY <1>1, <1>4 DEF Handle, Receive
  <2>2. PICK k \in DOMAIN contexts, c \in Conn : k = e.ctx /\ c = e.conn
    BY <1>1, <1>4
  <2>3. \A j \in DOMAIN contexts : \A C :
           Shares(j, C) = Shares(j, C)' + (IF j = k /\ c \in C THEN 1 ELSE 0)
    BY <1>2, <1>4, <2>2
  <2>4. contexts' = Released(k)
    BY <2>1, <2>2
  <2> QED
    BY <2>3, <2>4, ExactTaken
<1> QED
  BY <1>3, <1>4

(* What is left to post is that, whatever the handler goes on to do.        *)
LEMMA PostingRests ==
  ASSUME NEW t \in Tasks, NEW rest \in Seq(Conn), NEW k
  PROVE  Rest(Posting(t, rest), k) = IF t.ctx = k THEN rest ELSE <<>>
<1>1. CASE rest # <<>>
  <2>1. PICK u \in Tasks : u = [t EXCEPT !.stage = "Post", !.rest = rest] /\ Posting(t, rest) = u
    BY <1>1, PostingIs
  <2>2. u.ctx = t.ctx /\ u.rest = rest
    BY <2>1 DEF Tasks
  <2> QED
    BY <2>1, <2>2 DEF Rest
<1>2. CASE rest = <<>> /\ t.request = "open"
  <2>1. PICK u \in Tasks : u = [t EXCEPT !.stage = "GetContent", !.rest = <<>>] /\ Posting(t, rest) = u
    BY <1>2, PostingIs
  <2>2. u.rest = <<>>
    BY <2>1 DEF Tasks
  <2> QED
    BY <1>2, <2>1, <2>2 DEF Rest
<1>3. CASE rest = <<>> /\ t.request # "open"
  <2>1. Posting(t, rest) = Idle /\ Idle.rest = <<>>
    BY <1>3, PostingIs DEF Idle, Task
  <2> QED
    BY <1>3, <2>1 DEF Rest
<1> QED
  BY <1>1, <1>2, <1>3

(* A message is posted: it goes from the list to the queue of the loop, or, *)
(* to a connection of the loop's own, it is handled at once.                *)
LEMMA PostMoves ==
  ASSUME Types, Types', Control, NEW l \in Loop, Post(l), NEW k, NEW C,
         NEW t \in Tasks, t = task[l], NEW to \in Conn, to = Head(t.rest)
  PROVE  \E n, m \in Nat :
           /\ n = IF t.ctx = k /\ to \in C THEN 1 ELSE 0
           /\ m = IF ConnectionIdToRing(to) # l THEN n ELSE 0
           /\ InTasks(k, C) = InTasks(k, C)' + n /\ InSq(k, C)' = InSq(k, C) + m
           /\ InCq(k, C)' = InCq(k, C) /\ InLost(k, C)' = InLost(k, C)
<1>1. PICK rest \in Seq(Conn) : rest = Tail(t.rest)
  BY Staged DEF Post
<1>2. /\ t.rest \in Seq(Conn) /\ t.rest # <<>> /\ t.ctx \in Nat
  BY Staged DEF Post, Tasks
<1>3. PICK n \in Nat : n = IF t.ctx = k /\ to \in C THEN 1 ELSE 0
  OBVIOUS
<1>4. InTasks(k, C) = InTasks(k, C)' + n
  <2>1. Starts(l, Posting(t, rest))
    BY <1>1 DEF Post
  <2>2. Posting(t, rest) \in Tasks
    BY PostingIs
  <2>3. task'[l] = Posting(t, rest) /\ \A i \in Loop : i # l => task'[i] = task[i]
    BY <2>1, <2>2, StartsIs DEF Types
  <2>4. Rest(task'[l], k) = IF t.ctx = k THEN rest ELSE <<>>
    BY <2>3, PostingRests
  <2>5. Rest(task[l], k) = IF t.ctx = k THEN t.rest ELSE <<>>
    BY DEF Rest
  <2>6. Num(t.rest, C) = One(to, C) + Num(rest, C)
    BY <1>1, <1>2, NumTail
  <2>7. /\ Num(Rest(task[l], k), C) \in Nat /\ Num(Rest(task'[l], k), C) \in Nat
        /\ Num(Rest(task[l], k), C) <= InTasks(k, C)
        /\ InTasks(k, C)' = (InTasks(k, C) - Num(Rest(task[l], k), C)) + Num(Rest(task'[l], k), C)
    BY <2>3, TasksChange
  <2>8. InTasks(k, C) \in Nat
    BY PartsAre
  <2>9. Num(Rest(task[l], k), C) = n + Num(Rest(task'[l], k), C)
    <3>1. CASE t.ctx = k
      <4>1. One(to, C) = n
        BY <1>3, <3>1 DEF One
      <4>2. Rest(task[l], k) = t.rest /\ Rest(task'[l], k) = rest
        BY <2>4, <2>5, <3>1
      <4> QED
        BY <2>6, <4>1, <4>2
    <3>2. CASE t.ctx # k
      <4>1. Rest(task[l], k) = Rest(task'[l], k) /\ n = 0
        BY <1>3, <2>4, <2>5, <3>2
      <4> QED
        BY <2>7, <4>1
    <3> QED
      BY <3>1, <3>2
  <2> QED
    BY <2>7, <2>8, <2>9
<1>5. InCq(k, C)' = InCq(k, C) /\ InLost(k, C)' = InLost(k, C)
  BY DEF Post, InCq, InLost
<1>6. PICK e \in Entries :
        /\ sq' = Prepared(l, e)
        /\ One(e, Messages(k, C)) = IF ConnectionIdToRing(to) # l THEN n ELSE 0
  <2>1. CASE ConnectionIdToRing(to) # l
    <3>1. PICK e \in Entries : e = Entry("msg", ConnectionIdToRing(to), to, t.ctx)
      BY <1>2, RingIs, EntriesAre
    <3>2. e.op = "msg" /\ e.conn = to /\ e.ctx = t.ctx
      BY <3>1 DEF Entry
    <3>3. One(e, Messages(k, C)) = IF e.op = "msg" /\ e.ctx = k /\ e.conn \in C THEN 1 ELSE 0
      BY MailIs
    <3>4. One(e, Messages(k, C)) = n
      BY <1>3, <3>2, <3>3
    <3>5. sq' = Prepared(l, e)
      BY <2>1, <3>1 DEF Post
    <3> QED
      BY <2>1, <3>4, <3>5
  <2>2. CASE ConnectionIdToRing(to) = l
    <3>1. PICK e \in Entries : e = Unprepared(l)
      BY EntriesAre
    <3>2. e.op # "msg"
      BY <3>1 DEF Unprepared, Entry
    <3>3. One(e, Messages(k, C)) = 0
      BY <3>2, MailIs
    <3>4. sq' = Prepared(l, e)
      BY <2>2, <3>1 DEF Post
    <3> QED
      BY <2>2, <3>3, <3>4
  <2> QED
    BY <2>1, <2>2
<1>7. InSq(k, C)' = InSq(k, C) + One(e, Messages(k, C))
  <2>1. PICK r \in Seq(Entries) : r = <<e>> /\ \A P : Num(r, P) = One(e, P)
    BY SingleIs
  <2>2. sq' = Extend(sq, l, r)
    BY <1>6, <2>1, PreparedIs
  <2>3. sq' = Extend(sq, l, r) /\ sq \in Queues(Entries)
    BY <2>2 DEF Types
  <2>4. \A P : Tally(sq', P) = Tally(sq, P) + Num(r, P) /\ Tally(sq, P) \in Nat
    BY <2>3, ExtendIs
  <2> QED
    BY <2>1, <2>4 DEF InSq
<1>8. PICK m \in Nat : m = IF ConnectionIdToRing(to) # l THEN n ELSE 0
  OBVIOUS
<1> QED
  BY <1>3, <1>4, <1>5, <1>6, <1>7, <1>8

(* A post puts the share in a queue, or takes it and a reference.           *)
LEMMA ExactPost ==
  ASSUME Types, Types', Control, Exact, NEW l \in Loop, Post(l)
  PROVE  Exact'
<1>1. PICK t \in Tasks : t = task[l] /\ t.ctx \in DOMAIN contexts
  BY Staged DEF Post
<1>2. PICK to \in Conn : to = Head(t.rest)
  BY <1>1, Staged DEF Post
<1>3. ASSUME NEW k \in DOMAIN contexts, NEW C
      PROVE  /\ ConnectionIdToRing(to) # l => Shares(k, C)' = Shares(k, C)
             /\ ConnectionIdToRing(to) = l =>
                  Shares(k, C) = Shares(k, C)' + (IF t.ctx = k /\ to \in C THEN 1 ELSE 0)
  <2>1. PICK n \in Nat, m \in Nat :
           /\ n = IF t.ctx = k /\ to \in C THEN 1 ELSE 0
           /\ m = IF ConnectionIdToRing(to) # l THEN n ELSE 0
           /\ InTasks(k, C) = InTasks(k, C)' + n /\ InSq(k, C)' = InSq(k, C) + m
           /\ InCq(k, C)' = InCq(k, C) /\ InLost(k, C)' = InLost(k, C)
    BY <1>1, <1>2, PostMoves
  <2>2. /\ InTasks(k, C)' \in Nat /\ InSq(k, C) \in Nat /\ InCq(k, C) \in Nat /\ InLost(k, C) \in Nat
        /\ Shares(k, C) = InTasks(k, C) + InSq(k, C) + InCq(k, C) + InLost(k, C)
        /\ Shares(k, C)' = InTasks(k, C)' + InSq(k, C)' + InCq(k, C)' + InLost(k, C)'
    BY PartsAre
  <2>3. Shares(k, C)' + n = Shares(k, C) + m
    BY <2>1, <2>2
  <2>4. Shares(k, C) \in Nat /\ Shares(k, C)' \in Nat
    <3>1. /\ InTasks(k, C) \in Nat /\ InSq(k, C)' \in Nat /\ InCq(k, C)' \in Nat /\ InLost(k, C)' \in Nat
      BY PartsAre
    <3> QED
      BY <2>2, <3>1
  <2>5. CASE ConnectionIdToRing(to) # l
    <3>1. m = n
      BY <2>1, <2>5
    <3> QED
      BY <2>3, <2>4, <2>5, <3>1
  <2>6. CASE ConnectionIdToRing(to) = l
    <3>1. m = 0
      BY <2>1, <2>6
    <3>2. Shares(k, C) = Shares(k, C)' + n
      BY <2>3, <2>4, <3>1
    <3> QED
      BY <2>1, <2>6, <3>2
  <2> QED
    BY <2>5, <2>6
<1>4. CASE ConnectionIdToRing(to) # l
  <2>1. UNCHANGED contexts
    BY <1>1, <1>2, <1>4 DEF Post, msgVars
  <2> QED
    BY <1>3, <1>4, <2>1, ExactQuiet
<1>5. CASE ConnectionIdToRing(to) = l
  <2>1. PICK k \in DOMAIN contexts : k = t.ctx
    BY <1>1
  <2>2. contexts' = Released(k)
    BY <1>1, <1>2, <1>5, <2>1 DEF Post, Receive
  <2>3. \A j \in DOMAIN contexts : \A C :
           Shares(j, C) = Shares(j, C)' + (IF j = k /\ to \in C THEN 1 ELSE 0)
    BY <1>3, <1>5, <2>1
  <2> QED
    BY <2>2, <2>3, ExactTaken
<1> QED
  BY <1>4, <1>5

(* A handler that had nothing to post goes on, and the queues stay.         *)
LEMMA TaskMoves ==
  ASSUME Types, Types', NEW l \in Loop, UNCHANGED <<sq, cq, lost>>,
         \A n \in Loop : n # l => task'[n] = task[n], NEW k, NEW C, Rest(task[l], k) = <<>>
  PROVE  Shares(k, C)' = Shares(k, C) + Num(Rest(task'[l], k), C) /\ Shares(k, C) \in Nat
<1>1. PICK n \in Nat : n = Num(Rest(task'[l], k), C)
  BY TasksChange
<1>2. InTasks(k, C)' = InTasks(k, C) + n
  <2>1. Num(Rest(task[l], k), C) = 0
    BY NumEmpty
  <2>2. InTasks(k, C)' = (InTasks(k, C) - Num(Rest(task[l], k), C)) + Num(Rest(task'[l], k), C)
    BY TasksChange
  <2>3. InTasks(k, C) \in Nat
    BY PartsAre
  <2> QED
    BY <1>1, <2>1, <2>2, <2>3
<1>3. InSq(k, C)' = InSq(k, C) /\ InCq(k, C)' = InCq(k, C) /\ InLost(k, C)' = InLost(k, C)
  BY DEF InSq, InCq, InLost
<1>4. /\ InTasks(k, C) \in Nat /\ InSq(k, C) \in Nat /\ InCq(k, C) \in Nat /\ InLost(k, C) \in Nat
      /\ Shares(k, C) = InTasks(k, C) + InSq(k, C) + InCq(k, C) + InLost(k, C)
      /\ Shares(k, C)' = InTasks(k, C)' + InSq(k, C)' + InCq(k, C)' + InLost(k, C)'
  BY PartsAre
<1>5. Shares(k, C)' = Shares(k, C) + n /\ Shares(k, C) \in Nat
  BY <1>2, <1>3, <1>4
<1> QED
  BY <1>1, <1>5

(* A handler that goes on with nothing to post.                             *)
LEMMA ExactSame ==
  ASSUME Types, Types', Exact, NEW l \in Loop, UNCHANGED <<sq, cq, lost, contexts>>,
         \A n \in Loop : n # l => task'[n] = task[n],
         \A k : Rest(task[l], k) = <<>> /\ Rest(task'[l], k) = <<>>
  PROVE  Exact'
<1>1. ASSUME NEW k \in DOMAIN contexts, NEW C PROVE Shares(k, C)' = Shares(k, C)
  <2>1. Shares(k, C)' = Shares(k, C) + Num(Rest(task'[l], k), C) /\ Shares(k, C) \in Nat
    BY TaskMoves
  <2>2. Num(Rest(task'[l], k), C) = 0
    BY NumEmpty
  <2> QED
    BY <2>1, <2>2
<1> QED
  BY <1>1, ExactQuiet

(* A handler that makes a context of the messages it goes on to post.       *)
LEMMA ExactBegun ==
  ASSUME Types, Types', Placed, Control, Exact, NEW l \in Loop, UNCHANGED <<sq, cq, lost>>,
         \A i \in Loop : i # l => task'[i] = task[i],
         NEW n, n \notin DOMAIN contexts, NEW to \in Seq(Conn), IsInjective(to),
         \A k : Rest(task[l], k) = <<>> /\ Rest(task'[l], k) = (IF k = n THEN to ELSE <<>>),
         DOMAIN contexts' = DOMAIN contexts \cup {n}, contexts'[n].refs = Len(to),
         \A k \in DOMAIN contexts : contexts'[k] = contexts[k]
  PROVE  Exact'
<1>1. ASSUME NEW k \in DOMAIN contexts, NEW C PROVE Shares(k, C)' = Shares(k, C)
  <2>1. Shares(k, C)' = Shares(k, C) + Num(Rest(task'[l], k), C) /\ Shares(k, C) \in Nat
    BY TaskMoves
  <2>2. Num(Rest(task'[l], k), C) = 0
    BY NumEmpty
  <2> QED
    BY <2>1, <2>2
<1>2. ASSUME NEW C PROVE Shares(n, C)' = Num(to, C)
  <2>1. Shares(n, C)' = Shares(n, C) + Num(Rest(task'[l], n), C)
    BY TaskMoves
  <2>2. InTasks(n, C) = 0 /\ InSq(n, C) = 0 /\ InCq(n, C) = 0 /\ InLost(n, C) = 0
    BY FreshIs
  <2>3. Shares(n, C) = InTasks(n, C) + InSq(n, C) + InCq(n, C) + InLost(n, C)
    BY PartsAre
  <2>4. Shares(n, C) = 0
    BY <2>2, <2>3
  <2>5. Num(to, C) \in Nat /\ Rest(task'[l], n) = to
    BY NumType
  <2> QED
    BY <2>1, <2>4, <2>5
<1> QED
  BY <1>1, <1>2, ExactCreated

(* Those that a broadcast is for, each once: the references it begins with. *)
LEMMA ReceiversAre ==
  ASSUME Types, Control, Listed, NEW l \in Loop, NEW t \in Tasks, t = task[l], t.stage = "GetUserList"
  PROVE  /\ Receivers(t, users[t.doc]) \in Seq(Conn)
         /\ IsInjective(Receivers(t, users[t.doc]))
         /\ Len(Receivers(t, users[t.doc])) = References(t, users[t.doc])
         /\ ToSet(Receivers(t, users[t.doc])) = ToSet(users[t.doc]) \ {t.conn}
<1>1. Known(l, t) /\ t.request \in {"open", "edit", "close"} /\ t.doc \in Doc /\ AtStage(t)
  BY Staged DEF InHandler
<1>2. PICK list \in Seq(Conn) : list = users[t.doc]
  BY <1>1 DEF Types
<1>3. IsInjective(list) /\ \A c \in Conn : c \in ToSet(list) <=> document[c] = t.doc /\ ~Joining(c)
  BY <1>1, <1>2 DEF Listed
<1>4. PICK c \in Conn : c = t.conn /\ ConnectionIdToRing(c) = l
  BY <1>1 DEF Known
<1>5. ~Joining(c)
  BY <1>4 DEF Joining
<1>6. c \in ToSet(list) <=> t.request # "close"
  <2>1. CASE t.request = "close"
    <3>1. document[c] = NULL
      BY <1>1, <1>4, <2>1 DEF AtStage
    <3> QED
      BY <1>1, <1>3, <2>1, <3>1, NullIsNothing
  <2>2. CASE t.request # "close"
    <3>1. document[c] = t.doc
      BY <1>1, <1>4, <2>2 DEF Known
    <3> QED
      BY <1>3, <1>5, <2>2, <3>1
  <2> QED
    BY <2>1, <2>2
<1>7. PICK to : to = Receivers(t, list)
  OBVIOUS
<1>8. /\ to \in Seq(Conn) /\ IsInjective(to) /\ Len(to) = Num(list, Conn \ {c})
      /\ ToSet(to) = ToSet(list) \cap (Conn \ {c})
  BY <1>2, <1>3, <1>4, <1>7, OnlyIs, OnlyOrder DEF Receivers
<1>9. ToSet(to) = ToSet(list) \ {c}
  <2>1. ToSet(list) \subseteq Conn
    BY <1>2 DEF ToSet
  <2> QED
    BY <1>8, <2>1
<1>10. /\ \A x : Num(list, Conn \ {x}) = IF x \in ToSet(list) THEN Len(list) - 1 ELSE Len(list)
       /\ Len(list) \in Nat
  BY <1>3, NumInjective
<1>11. Len(to) = IF t.request = "close" THEN Len(list) ELSE Len(list) - 1
  BY <1>6, <1>8, <1>10
<1>12. Len(to) = References(t, list)
  BY <1>11 DEF References
<1> QED
  BY <1>2, <1>4, <1>7, <1>8, <1>9, <1>12

(* GetUserList counts the receivers of what it creates.                     *)
LEMMA ExactGetUserList ==
  ASSUME Types, Types', Placed, Control, Listed, Exact, NEW l \in Loop, GetUserList(l)
  PROVE  Exact'
<1>1. PICK t \in Tasks : t = task[l] /\ t.stage = "GetUserList" /\ t.rest = <<>> /\ t.doc \in Doc
  BY Staged DEF GetUserList, Types
<1>2. PICK list \in Seq(Conn) : list = users[t.doc]
  BY <1>1 DEF Types
<1>3. PICK to \in Seq(Conn) : /\ to = Receivers(t, list)
                              /\ IsInjective(to) /\ Len(to) = References(t, list)
  BY <1>1, <1>2, ReceiversAre
<1>4. PICK n \in Nat : n = Len(contexts) + 1 /\ n \notin DOMAIN contexts
  BY NextContext DEF Types
<1>5. PICK u \in Tasks : u = [t EXCEPT !.ctx = n]
  BY DEF Tasks
<1>6. u.ctx = n
  BY <1>5 DEF Tasks
<1>7. \A k : Rest(task[l], k) = <<>>
  BY <1>1 DEF Rest
<1>8. <<>> \in Seq(Conn)
  OBVIOUS
<1>9. UNCHANGED <<sq, cq, lost>>
  BY DEF GetUserList, ringVars
<1>10. CASE References(t, list) > 0
  <2>1. PICK new : new.refs = References(t, list) /\ contexts' = Append(contexts, new)
    <3>1. contexts' = Append(contexts, [refs |-> References(t, list), msg |-> t.msg])
      BY <1>1, <1>2, <1>10 DEF GetUserList
    <3>2. [refs |-> References(t, list), msg |-> t.msg].refs = References(t, list)
      OBVIOUS
    <3> QED
      BY <3>1, <3>2
  <2>2. Starts(l, Posting(u, to))
    BY <1>1, <1>2, <1>3, <1>4, <1>5, <1>10 DEF GetUserList
  <2>3. task'[l] = Posting(u, to) /\ \A i \in Loop : i # l => task'[i] = task[i]
    BY <2>2, PostingIs, StartsIs DEF Types
  <2>4. /\ DOMAIN contexts = 1..Len(contexts) /\ Len(contexts) \in Nat
        /\ DOMAIN contexts' = 1..(Len(contexts) + 1)
        /\ contexts'[Len(contexts) + 1] = new
        /\ \A k \in DOMAIN contexts : contexts'[k] = contexts[k]
    BY <2>1, Appended DEF Types
  <2>5. /\ DOMAIN contexts' = DOMAIN contexts \cup {n} /\ contexts'[n].refs = Len(to)
        /\ \A k \in DOMAIN contexts : contexts'[k] = contexts[k]
    <3>1. DOMAIN contexts' = DOMAIN contexts \cup {n}
      BY <1>4, <2>4
    <3> QED
      BY <1>3, <1>4, <2>1, <2>4, <3>1
  <2>6. \A k : Rest(task'[l], k) = IF k = n THEN to ELSE <<>>
    BY <1>6, <2>3, PostingRests
  <2> QED
    BY <1>3, <1>4, <1>7, <1>9, <2>3, <2>5, <2>6, ExactBegun
<1>11. CASE ~(References(t, list) > 0)
  <2>1. contexts' = contexts /\ Starts(l, Posting(t, <<>>))
    BY <1>1, <1>2, <1>11 DEF GetUserList
  <2>2. task'[l] = Posting(t, <<>>) /\ \A i \in Loop : i # l => task'[i] = task[i]
    BY <1>8, <2>1, PostingIs, StartsIs DEF Types
  <2>3. \A k : Rest(task'[l], k) = <<>>
    <3>1. PICK none \in Seq(Conn) : none = <<>>
      BY <1>8
    <3>2. PICK v : v = Posting(t, none)
      OBVIOUS
    <3>3. \A k : Rest(v, k) = IF t.ctx = k THEN none ELSE <<>>
      BY <3>2, PostingRests
    <3> QED
      BY <2>2, <3>1, <3>2, <3>3
  <2>4. UNCHANGED <<sq, cq, lost, contexts>>
    BY <1>9, <2>1
  <2> QED
    BY <1>7, <2>2, <2>3, <2>4, ExactSame
<1> QED
  BY <1>10, <1>11

(* A line of chat is a context with one reference, for one receiver.        *)
LEMMA ExactChat ==
  ASSUME Types, Types', Placed, Control, Exact, NEW l \in Loop, NEW c \in Conn, NEW to \in Conn,
         ChatHandle(l, c, to)
  PROVE  Exact'
<1>1. PICK t \in Tasks : t = Task("chat", "Post", c, NULL, Notice)
  BY StartIs DEF Requests, Stages, Notice
<1>2. PICK n \in Nat : n = Len(contexts) + 1 /\ n \notin DOMAIN contexts
  BY NextContext DEF Types
<1>3. PICK rest \in Seq(Conn) : rest = <<to>> /\ IsInjective(rest) /\ Len(rest) = 1
  <2>1. <<to>> \in Seq(Conn) /\ Len(<<to>>) = 1 /\ IsInjective(<<to>>)
    BY DEF IsInjective
  <2> QED
    BY <2>1
<1>4. PICK v \in Tasks : v = [t EXCEPT !.rest = rest]
  BY DEF Tasks
<1>5. PICK u \in Tasks : u = [v EXCEPT !.ctx = n]
  BY DEF Tasks
<1>6. u.ctx = n /\ u.rest = rest
  <2>1. v.rest = rest
    BY <1>4 DEF Tasks
  <2> QED
    BY <1>5, <2>1 DEF Tasks
<1>7. Starts(l, u)
  BY <1>1, <1>2, <1>3, <1>4, <1>5 DEF ChatHandle
<1>8. task'[l] = u /\ \A i \in Loop : i # l => task'[i] = task[i]
  BY <1>7, StartsIs DEF Types
<1>9. \A k : Rest(task[l], k) = <<>> /\ Rest(task'[l], k) = IF k = n THEN rest ELSE <<>>
  <2>1. task[l] = Idle /\ Idle.rest = <<>>
    BY DEF ChatHandle, Serves, Idle, Task
  <2> QED
    BY <1>6, <1>8, <2>1 DEF Rest
<1>10. PICK new : new.refs = 1 /\ contexts' = Append(contexts, new)
  BY DEF ChatHandle
<1>11. /\ DOMAIN contexts' = DOMAIN contexts \cup {n} /\ contexts'[n].refs = Len(rest)
       /\ \A k \in DOMAIN contexts : contexts'[k] = contexts[k]
  <2>1. /\ DOMAIN contexts = 1..Len(contexts) /\ Len(contexts) \in Nat
        /\ DOMAIN contexts' = 1..(Len(contexts) + 1)
        /\ contexts'[Len(contexts) + 1] = new
        /\ \A k \in DOMAIN contexts : contexts'[k] = contexts[k]
    BY <1>10, Appended DEF Types
  <2>2. DOMAIN contexts' = DOMAIN contexts \cup {n}
    BY <1>2, <2>1
  <2> QED
    BY <1>2, <1>3, <1>10, <2>1, <2>2
<1>12. UNCHANGED <<sq, cq, lost>>
  BY DEF ChatHandle, ringVars
<1> QED
  BY <1>2, <1>3, <1>8, <1>9, <1>11, <1>12, ExactBegun

(* At first there is no context.                                            *)
LEMMA ExactInit == Init => Exact
<1> SUFFICES ASSUME Init PROVE Exact
  OBVIOUS
<1>1. contexts = <<>> /\ DOMAIN <<>> = {}
  BY DEF Init
<1> QED
  BY <1>1 DEF Exact

(* The counts stay exact.                                                   *)
LEMMA ExactNext ==
  ASSUME Types, Types', Placed, Accepting, Control, Listed, Exact, [Next]_vars
  PROVE  Exact'
<1>1. CASE UNCHANGED vars
  <2>1. UNCHANGED <<task, sq, cq, lost, contexts>>
    BY <1>1 DEF vars, ringVars, msgVars
  <2>2. \A k, C : Shares(k, C)' = Shares(k, C)
    BY <2>1 DEF Shares, ToPost, Tally
  <2> QED
    BY <2>1, <2>2, ExactQuiet
<1>2. CASE Connect
  <2>1. PICK e \in Entries :
          /\ e.op \in {"accept", "last_accept", "accept_failed"}
          /\ cq' = Extend(cq, Master, <<e>>)
    BY <1>2, ConnectIs
  <2>2. PICK r \in Seq(Entries) : cq' = Extend(cq, Master, r) /\ \A P : Num(r, P) = One(e, P)
    BY <2>1, SingleIs
  <2>3. UNCHANGED <<task, sq, lost, contexts>>
    BY <1>2 DEF Connect, msgVars
  <2>4. ASSUME NEW k \in DOMAIN contexts, NEW C PROVE Shares(k, C)' = Shares(k, C)
    <3>1. One(e, Messages(k, C)) = 0
      BY <2>1, MailIs
    <3>2. cq' = Extend(cq, Master, r) /\ cq \in Queues(Entries) /\ Master \in Loop
      BY <2>2, LoopsAre DEF Types
    <3>3. \A P : Tally(cq', P) = Tally(cq, P) + Num(r, P) /\ Tally(cq, P) \in Nat
      BY <3>2, ExtendIs
    <3>4. InCq(k, C)' = InCq(k, C)
      BY <2>2, <3>1, <3>3 DEF InCq
    <3>5. InTasks(k, C)' = InTasks(k, C) /\ InSq(k, C)' = InSq(k, C) /\ InLost(k, C)' = InLost(k, C)
      BY <2>3 DEF InTasks, InSq, InLost
    <3>6. /\ Shares(k, C) = InTasks(k, C) + InSq(k, C) + InCq(k, C) + InLost(k, C)
          /\ Shares(k, C)' = InTasks(k, C)' + InSq(k, C)' + InCq(k, C)' + InLost(k, C)'
      BY PartsAre
    <3> QED
      BY <3>4, <3>5, <3>6
  <2> QED
    BY <2>3, <2>4, ExactQuiet
<1>3. ASSUME NEW l \in Loop, NEW t \in Tasks, Starts(l, t), t.rest = <<>>, task[l].rest = <<>>,
             UNCHANGED <<sq, cq, lost, contexts>>
      PROVE  Exact'
  <2>1. task'[l] = t /\ \A i \in Loop : i # l => task'[i] = task[i]
    BY <1>3, StartsIs DEF Types
  <2>2. \A k : Rest(task[l], k) = <<>> /\ Rest(task'[l], k) = <<>>
    BY <1>3, <2>1 DEF Rest
  <2> QED
    BY <1>3, <2>1, <2>2, ExactSame
<1>4. Idle \in Tasks /\ Idle.rest = <<>>
  BY IdleIs DEF Idle, Task
<1>5. ASSUME NEW l \in Loop, JoinUser(l) PROVE Exact'
  <2>1. PICK t \in Tasks : t = task[l] /\ t.rest = <<>>
    BY <1>5, Staged DEF JoinUser
  <2>2. PICK u \in Tasks : u = [t EXCEPT !.stage = "GetUserList"]
    BY DEF Tasks, Stages
  <2>3. u.rest = <<>>
    BY <2>1, <2>2 DEF Tasks
  <2>4. Starts(l, u) /\ UNCHANGED <<sq, cq, lost, contexts>>
    BY <1>5, <2>1, <2>2 DEF JoinUser, ringVars, msgVars
  <2>5. task[l].rest = <<>>
    BY <2>1
  <2> QED
    BY <1>3, <2>3, <2>4, <2>5
<1>6. ASSUME NEW l \in Loop, GetContent(l) PROVE Exact'
  <2>1. task[l].rest = <<>>
    BY <1>6, Staged DEF GetContent
  <2> QED
    BY <1>3, <1>4, <1>6, <2>1 DEF GetContent, ringVars, msgVars
<1>7. ASSUME NEW l \in Loop, NEW c \in Conn, Request(l, c) PROVE Exact'
  <2>1. task[l].rest = <<>>
    <3>1. task[l] = Idle
      BY <1>7, ServedIs DEF Request, OpenHandle, EditHandle, CloseHandle, ChatHandle, Close, Delete
    <3> QED
      BY <1>4, <3>1
  <2>2. ASSUME NEW r \in Requests, NEW s \in Stages, NEW d \in Doc \cup {NULL}, NEW m \in Nat,
               Starts(l, Task(r, s, c, d, m)), UNCHANGED <<ringVars, msgVars>>
        PROVE  Exact'
    <3>1. PICK t \in Tasks : t = Task(r, s, c, d, m)
      BY StartIs
    <3>2. t.rest = <<>> /\ Starts(l, t)
      BY <2>2, <3>1 DEF Task
    <3>3. UNCHANGED <<sq, cq, lost, contexts>>
      BY <2>2 DEF ringVars, msgVars
    <3> QED
      BY <1>3, <2>1, <3>2, <3>3
  <2>3. document[c] \in Doc \cup {NULL} /\ Len(edits) + 1 \in Nat /\ Notice \in Nat
    BY DEF Types, Notice
  <2>4. ASSUME NEW d \in Doc, OpenHandle(l, c, d) PROVE Exact'
    BY <2>2, <2>3, <2>4 DEF OpenHandle, Requests, Stages
  <2>5. ASSUME EditHandle(l, c) PROVE Exact'
    BY <2>2, <2>3, <2>5 DEF EditHandle, Requests, Stages
  <2>6. ASSUME Starts(l, Leaving(c)), UNCHANGED <<ringVars, msgVars>> PROVE Exact'
    BY <2>2, <2>3, <2>6 DEF Leaving, Requests, Stages
  <2>7. ASSUME UNCHANGED <<task, ringVars, msgVars>> PROVE Exact'
    <3>1. UNCHANGED <<sq, cq, lost, contexts>>
      BY <2>7 DEF ringVars, msgVars
    <3>2. (\A i \in Loop : i # l => task'[i] = task[i])
          /\ \A k : Rest(task[l], k) = <<>> /\ Rest(task'[l], k) = <<>>
      BY <2>1, <2>7 DEF Rest
    <3> QED
      BY <3>1, <3>2, ExactSame
  <2>8. ASSUME CloseHandle(l, c) PROVE Exact'
    BY <2>6, <2>8 DEF CloseHandle
  <2>9. ASSUME NEW to \in Conn, ChatHandle(l, c, to) PROVE Exact'
    BY <2>9, ExactChat
  <2>10. ASSUME Close(l, c) PROVE Exact'
    BY <2>7, <2>10 DEF Close
  <2>11. ASSUME Delete(l, c) PROVE Exact'
    BY <2>6, <2>7, <2>11 DEF Delete
  <2> QED
    BY <1>7, <2>4, <2>5, <2>8, <2>9, <2>10, <2>11 DEF Request
<1> QED
  BY <1>1, <1>2, <1>5, <1>6, <1>7, ExactSubmit, ExactHandle, ExactGetUserList, ExactPost DEF Next, Run

-----------------------------------------------------------------------------
(* The theorems. *)

Inductive == Types /\ Placed /\ Accepting /\ Control /\ Listed /\ Exact

(* The inductive invariant.                                                 *)
LEMMA InductiveIs == Spec => []Inductive
<1>1. Init => Inductive
  BY TypesInit, PlacedInit, AcceptingInit, ControlInit, ListedInit, ExactInit DEF Inductive
<1>2. Inductive /\ [Next]_vars => Inductive'
  <2> SUFFICES ASSUME Types, Placed, Accepting, Control, Listed, Exact, [Next]_vars PROVE Inductive'
    BY DEF Inductive
  <2>1. Types'
    BY TypesNext
  <2>2. Placed'
    BY PlacedNext
  <2>3. Accepting'
    BY AcceptingNext
  <2>4. Control'
    BY <2>1, ControlNext
  <2>5. Listed'
    BY <2>1, ListedNext
  <2>6. Exact'
    BY <2>1, ExactNext
  <2> QED
    BY <2>1, <2>2, <2>3, <2>4, <2>5, <2>6 DEF Inductive
<1> QED
  BY <1>1, <1>2, PTL DEF Spec

(* The types of the code, the bounds of its counters, and the users of a    *)
(* document: Document::users_ has each connection that has it open, once.   *)
THEOREM TypeCorrect == Spec => []TypeOK
<1>1. Inductive => TypeOK
  <2> SUFFICES ASSUME Types, Placed, Accepting, Listed, Exact PROVE TypeOK
    BY DEF Inductive
  <2>1. conn_count \in 0..Cardinality(Conn) /\ slots \in 0..TableSize
    <3>1. cq[Master] \in Seq(Entries)
      BY LoopsAre DEF Types, Queues
    <3>2. Num(cq[Master], Accepts) \in Nat
      BY <3>1, NumType
    <3>3. conn_count \in Nat /\ slots \in Nat /\ slots <= TableSize /\ slots <= Cardinality(Conn)
      BY DEF Types
    <3>4. Cardinality(Conn) \in Nat /\ TableSize \in Nat
      BY ConnsAre, Sizes
    <3> QED
      BY <3>2, <3>3, <3>4 DEF Accepting
  <2>2. \A d \in Doc : /\ IsInjective(users[d])
                       /\ \A i \in DOMAIN users[d] : document[users[d][i]] = d
    <3> SUFFICES ASSUME NEW d \in Doc
                 PROVE  /\ IsInjective(users[d])
                        /\ \A i \in DOMAIN users[d] : document[users[d][i]] = d
      OBVIOUS
    <3>1. PICK list \in Seq(Conn) : list = users[d]
      BY DEF Types
    <3>2. \A i \in DOMAIN list : list[i] \in ToSet(list) /\ list[i] \in Conn
      BY DEF ToSet
    <3> QED
      BY <3>1, <3>2 DEF Listed
  <2>3. contexts \in Seq([refs : 0..Cardinality(Conn), msg : Nat])
    <3>1. contexts \in Seq(Contexts)
      BY DEF Types
    <3>2. ASSUME NEW k \in DOMAIN contexts PROVE contexts[k] \in [refs : 0..Cardinality(Conn), msg : Nat]
      <4>1. contexts[k].refs = Shares(k, Conn) /\ contexts[k].refs <= Cardinality(Conn)
        BY DEF Exact
      <4>2. Shares(k, Conn) \in Nat
        BY SharesType
      <4>3. contexts[k] \in Contexts /\ Cardinality(Conn) \in Nat
        BY <3>1, ConnsAre
      <4>4. contexts[k].refs \in 0..Cardinality(Conn)
        BY <4>1, <4>2, <4>3
      <4> QED
        BY <4>3, <4>4 DEF Contexts
    <3> DEFINE S == [refs : 0..Cardinality(Conn), msg : Nat]
    <3>3. contexts = [k \in 1..Len(contexts) |-> contexts[k]] /\ Len(contexts) \in Nat
          /\ DOMAIN contexts = 1..Len(contexts)
      BY <3>1
    <3>4. \A k \in 1..Len(contexts) : contexts[k] \in S
      BY <3>2, <3>3
    <3> HIDE DEF S
    <3>5. contexts \in [1..Len(contexts) -> S]
      BY <3>3, <3>4
    <3>6. contexts \in Seq(S)
      BY <3>3, <3>5
    <3> QED
      BY <3>6 DEF S
  <2>4. \A l \in Loop : \A q \in {sq[l], cq[l]} : q \in Seq(Entries)
    BY DEF Types, Queues
  <2> QED
    BY <2>1, <2>2, <2>3, <2>4 DEF TypeOK, Types
<1> QED
  BY <1>1, InductiveIs, PTL

(* A connection is in the map of the worker that its id leads to: the turns *)
(* of handle_accept and the arithmetic of prep_cross_thread_msg agree,      *)
(* whatever becomes of the descriptors that are passed.                     *)
THEOREM AlwaysSoughtWhereHeld == Spec => []SoughtWhereHeld
<1>1. Inductive => SoughtWhereHeld
  BY DEF Inductive, Placed, SoughtWhereHeld
<1> QED
  BY <1>1, InductiveIs, PTL

(* A context has a reference for each message of it that is not handled, so *)
(* it is freed by the last, and by no other.                                *)
THEOREM AlwaysContextsExact == Spec => []ContextsExact
<1>1. Inductive => ContextsExact
  BY DEF Inductive, Exact, ContextsExact
<1> QED
  BY <1>1, InductiveIs, PTL
===========================================================================
