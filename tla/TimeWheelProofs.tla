-------------------------- MODULE TimeWheelProofs --------------------------
(***************************************************************************)
(* The wheel for levels of any size, timeouts of any length, any number of *)
(* timers and callers that do whatever they like: only the slips of        *)
(* TimeWheel break its lists, and a whole wheel is the timer service of    *)
(* module Timers.                                                          *)
(*                                                                         *)
(* The proofs relate the pointers to the lists they make up (Chained), and *)
(* the slot of each timer to its time of expiry (Timely): a timer of       *)
(* level 1 is less than one turn away, and one above waits in a slot that  *)
(* its level has not come round to.                                        *)
(***************************************************************************)
EXTENDS TimeWheel, SequenceLemmas, FiniteSetTheorems, SequenceTheorems, TLAPS

-----------------------------------------------------------------------------
(* Functions defined by steps. *)

(* The n steps G from a, one after the other. *)
Steps(S, n, a, G) ==
  {h \in [0..n -> S] : h[0] = a /\ \A i \in 1..n : h[i] = G[i][h[i - 1]]}

(* Steps that stay in S can be made. *)
LEMMA StepsExist ==
  ASSUME NEW S, NEW n \in Nat, NEW a \in S, NEW G,
         \A i \in 1..n : \A x \in S : G[i][x] \in S
  PROVE  Steps(S, n, a, G) # {}
<1> DEFINE Good(m, h) == /\ h \in [0..m -> S] /\ h[0] = a
                         /\ \A i \in 1..m : h[i] = G[i][h[i - 1]]
           Bad == {m \in 0..n : \A h : ~Good(m, h)}
<1>1. Bad = {}
  <2> SUFFICES ASSUME Bad # {} PROVE FALSE
    OBVIOUS
  <2>1. Bad \in SUBSET Nat
    OBVIOUS
  <2>2. PICK m \in Bad : \A y \in Bad : m <= y
    <3> HIDE DEF Bad
    <3> QED
      BY <2>1, Least
  <2>3. m \in 0..n /\ \A h : ~Good(m, h)
    OBVIOUS
  <2>4. CASE m = 0
    <3> DEFINE h == [i \in 0..0 |-> a]
    <3>1. Good(0, h)
      OBVIOUS
    <3> QED
      BY <2>3, <2>4, <3>1
  <2>5. CASE m # 0
    <3>1. m - 1 \in 0..n /\ m - 1 \notin Bad
      <4>1. m - 1 \in Nat /\ m - 1 \in 0..n /\ ~(m <= m - 1)
        BY <2>3, <2>5
      <4> HIDE DEF Bad
      <4> QED
        BY <2>2, <4>1
    <3>2. PICK g : Good(m - 1, g)
      BY <3>1
    <3> DEFINE h == [i \in 0..m |-> IF i = m THEN G[m][g[m - 1]] ELSE g[i]]
    <3>3. m \in 1..n /\ m - 1 \in 0..(m - 1) /\ g[m - 1] \in S /\ G[m][g[m - 1]] \in S
      BY <2>3, <2>5, <3>2
    <3>4. h \in [0..m -> S]
      BY <2>3, <2>5, <3>2, <3>3
    <3>5. h[0] = a
      BY <2>3, <2>5, <3>2
    <3>6. ASSUME NEW i \in 1..m PROVE h[i] = G[i][h[i - 1]]
      <4>1. i \in 0..m /\ i - 1 \in 0..m /\ i - 1 # m /\ h[i - 1] = g[i - 1]
        BY <3>3
      <4>2. CASE i = m
        BY <4>1, <4>2
      <4>3. CASE i # m
        <5>1. i \in 1..(m - 1) /\ h[i] = g[i]
          BY <4>1, <4>3, <3>3
        <5> QED
          BY <4>1, <5>1, <3>2
      <4> QED
        BY <4>2, <4>3
    <3>7. Good(m, h)
      BY <3>4, <3>5, <3>6
    <3> QED
      BY <2>3, <3>7
  <2> QED
    BY <2>4, <2>5
<1>2. PICK h : Good(n, h)
  <2>1. n \in 0..n /\ n \notin Bad
    BY <1>1
  <2> HIDE DEF Good
  <2> QED
    BY <2>1
<1> QED
  BY <1>2 DEF Steps

-----------------------------------------------------------------------------
(* Linked lists. *)

(* Timer t is in list s, or in any list. *)
On(M, s, t) == \E i \in DOMAIN M[s] : M[s][i] = t
InList(M, t) == \E s \in Slot : On(M, s, t)

(* Following the pointers from a slot leads along its list. *)
LEMMA WalkIs ==
  ASSUME NEW l, NEW M, Chained(l, M), NEW s \in Slot
  PROVE  Walk(l, l.first[s]) = [k \in 0..Cardinality(Timer) |-> At(M[s], k + 1)]
<1> DEFINE C == Cardinality(Timer)
           E(w) == w = [k \in 0..C |-> IF k = 0 THEN l.first[s]
                                       ELSE IF w[k - 1] = NULL THEN NULL ELSE l.next[w[k - 1]]]
           v == [k \in 0..C |-> At(M[s], k + 1)]
<1>0. C \in Nat
  BY AddressesDiffer, FS_CardinalityType
<1>1. /\ M[s] \in Seq(Timer) /\ Len(M[s]) \in Nat /\ DOMAIN M[s] = 1..Len(M[s])
      /\ \A i \in DOMAIN M[s] : M[s][i] \in Timer /\ M[s][i] # NULL
  BY AddressesDiffer DEF Chained
<1>2. ASSUME NEW k \in 0..C
      PROVE  At(M[s], k + 1) = IF k = 0 THEN l.first[s]
                               ELSE IF v[k - 1] = NULL THEN NULL ELSE l.next[v[k - 1]]
  <2>1. CASE k = 0
    BY <2>1 DEF Chained
  <2>2. CASE k # 0
    <3>1. k - 1 \in 0..C /\ v[k - 1] = At(M[s], k)
      BY <1>0, <2>2
    <3>2. CASE k \in DOMAIN M[s]
      BY <1>1, <2>2, <3>1, <3>2 DEF At, Chained
    <3>3. CASE k \notin DOMAIN M[s]
      <4>1. k + 1 \notin DOMAIN M[s]
        BY <1>0, <1>1, <2>2, <3>3
      <4> QED
        BY <2>2, <3>1, <3>3, <4>1 DEF At
    <3> QED
      BY <3>2, <3>3
  <2> QED
    BY <2>1, <2>2
<1>3. E(v)
  BY <1>2
<1>4. Walk(l, l.first[s]) = CHOOSE w : E(w)
  BY DEF Walk
<1> DEFINE u == Walk(l, l.first[s])
<1>5. E(u)
  <2> HIDE DEF E, v
  <2> QED
    BY <1>3, <1>4, Zenon
<1> HIDE DEF u
<1> DEFINE Bad == {k \in 0..C : u[k] # v[k]}
<1>6. Bad = {}
  <2> SUFFICES ASSUME Bad # {} PROVE FALSE
    OBVIOUS
  <2>1. Bad \in SUBSET Nat
    BY <1>0
  <2>2. PICK k \in Bad : \A y \in Bad : k <= y
    <3> HIDE DEF Bad
    <3> QED
      BY <2>1, Least
  <2>3. k \in 0..C /\ u[k] # v[k]
    OBVIOUS
  <2>4. u[k] = IF k = 0 THEN l.first[s] ELSE IF u[k - 1] = NULL THEN NULL ELSE l.next[u[k - 1]]
    <3> HIDE DEF C, v, Bad
    <3> QED
      BY <1>5, <2>3
  <2>5. v[k] = IF k = 0 THEN l.first[s] ELSE IF v[k - 1] = NULL THEN NULL ELSE l.next[v[k - 1]]
    BY <1>2, <2>3
  <2>6. CASE k = 0
    BY <2>3, <2>4, <2>5, <2>6
  <2>7. CASE k # 0
    <3>1. k - 1 \in 0..C /\ ~(k <= k - 1)
      BY <1>0, <2>3, <2>7
    <3>2. k - 1 \notin Bad
      <4> HIDE DEF Bad
      <4> QED
        BY <2>2, <3>1
    <3> QED
      BY <2>3, <2>4, <2>5, <2>7, <3>1, <3>2
  <2> QED
    BY <2>6, <2>7
<1>7. u = [k \in 0..C |-> u[k]]
  <2> HIDE DEF C, v
  <2> QED
    BY <1>5
<1>8. \A k \in 0..C : u[k] = v[k]
  BY <1>6
<1>9. u = v
  <2>1. v = [k \in 0..C |-> v[k]]
    OBVIOUS
  <2> HIDE DEF C, v
  <2> QED
    BY <1>7, <1>8, <2>1
<1> QED
  BY <1>9 DEF u

(* What TLC walks along is the list. *)
LEMMA ListIs ==
  ASSUME NEW l, NEW M, Chained(l, M), NEW s \in Slot
  PROVE  Listed(l, s) = M[s]
<1> DEFINE C == Cardinality(Timer)
           n == Len(M[s])
           D == {i \in 1..C : Walk(l, l.first[s])[i - 1] # NULL}
<1>0. C \in Nat
  BY AddressesDiffer, FS_CardinalityType
<1>1. /\ M[s] \in Seq(Timer) /\ n \in Nat /\ DOMAIN M[s] = 1..n
      /\ \A i \in DOMAIN M[s] : M[s][i] \in Timer /\ M[s][i] # NULL
  BY AddressesDiffer DEF Chained
<1>2. n <= C
  <2>1. M[s] \in [1..n -> Timer]
    BY <1>1
  <2>2. \A i, j \in 1..n : M[s][i] = M[s][j] => i = j
    BY <1>1 DEF Chained
  <2>3. M[s] \in Injection(1..n, Timer)
    BY <2>1, <2>2 DEF Injection, IsInjective
  <2>4. Cardinality(1..n) <= C
    <3> HIDE DEF n, C
    <3> QED
      BY <2>3, AddressesDiffer, FS_Injection DEF C
  <2>5. Cardinality(1..n) = n
    <3>1. 1 \in Int /\ n \in Int /\ n \in Nat
      BY <1>1
    <3> HIDE DEF n
    <3>2. Cardinality(1..n) = IF 1 > n THEN 0 ELSE n - 1 + 1
      BY <3>1, FS_Interval
    <3> QED
      BY <3>1, <3>2
  <2> QED
    BY <2>4, <2>5
<1>3. \A k \in 0..C : Walk(l, l.first[s])[k] = At(M[s], k + 1)
  <2>1. Walk(l, l.first[s]) = [k \in 0..Cardinality(Timer) |-> At(M[s], k + 1)]
    BY WalkIs
  <2> QED
    BY <2>1
<1>4. D = 1..n
  <2> SUFFICES ASSUME NEW i \in 1..C PROVE Walk(l, l.first[s])[i - 1] # NULL <=> i \in 1..n
    BY <1>0, <1>1, <1>2
  <2>1. i - 1 \in 0..C /\ (i - 1) + 1 = i
    BY <1>0
  <2>2. Walk(l, l.first[s])[i - 1] = At(M[s], i)
    BY <1>3, <2>1
  <2> QED
    BY <1>1, <2>2 DEF At
<1>5. Cardinality(D) = n
  <2>1. 1 \in Int /\ n \in Int /\ n \in Nat
    BY <1>1
  <2> HIDE DEF n, D
  <2>2. Cardinality(1..n) = IF 1 > n THEN 0 ELSE n - 1 + 1
    BY <2>1, FS_Interval
  <2> QED
    BY <1>4, <2>1, <2>2
<1>6. Listed(l, s) = [k \in 1..n |-> Walk(l, l.first[s])[k - 1]]
  BY <1>5 DEF Listed, From
<1>7. \A k \in 1..n : Walk(l, l.first[s])[k - 1] = M[s][k]
  <2> SUFFICES ASSUME NEW k \in 1..n PROVE Walk(l, l.first[s])[k - 1] = M[s][k]
    OBVIOUS
  <2>1. k - 1 \in 0..C /\ (k - 1) + 1 = k
    BY <1>0, <1>1, <1>2
  <2> QED
    BY <1>1, <1>3, <2>1 DEF At
<1>8. M[s] = [k \in 1..n |-> M[s][k]]
  BY <1>1
<1> QED
  BY <1>6, <1>7, <1>8

(* Two lists of one chain have no timer in common. *)
LEMMA OneList ==
  ASSUME NEW l, NEW M, Chained(l, M), NEW s \in Slot, NEW r \in Slot, NEW t,
         On(M, s, t), On(M, r, t)
  PROVE  s = r /\ t \in Timer
  BY DEF Chained, On

(* __insert *)
LEMMA InsertKeeps ==
  ASSUME NEW l, NEW M, Chained(l, M), NEW t \in Timer, ~InList(M, t), NEW s \in Slot
  PROVE  /\ \E N : /\ Chained(Inserted(l, s, t), N)
                   /\ \A r \in Slot : \A x : On(N, r, x) <=> On(M, r, x) \/ (r = s /\ x = t)
         /\ \A x \in Timer : x # t /\ ~InList(M, x) =>
              Inserted(l, s, t).next[x] = l.next[x] /\ Inserted(l, s, t).pprev[x] = l.pprev[x]
<1> DEFINE q == M[s]
           n == Len(q)
           p == [j \in 1..(n + 1) |-> IF j = 1 THEN t ELSE q[j - 1]]
           N == [M EXCEPT ![s] = p]
           k == Inserted(l, s, t)
<1>0. /\ NULL \notin Timer /\ NULL \notin Slot /\ Timer \cap Slot = {}
  BY AddressesDiffer
<1>1. \A r \in Slot : /\ M[r] \in Seq(Timer) /\ Len(M[r]) \in Nat /\ DOMAIN M[r] = 1..Len(M[r])
                      /\ \A i \in DOMAIN M[r] : M[r][i] \in Timer /\ M[r][i] # t
  BY DEF Chained, InList, On
<1>2. p \in Seq(Timer) /\ Len(p) = n + 1 /\ DOMAIN p = 1..(n + 1)
  <2>1. \A j \in 1..(n + 1) : p[j] \in Timer
    BY <1>1
  <2>2. n + 1 \in Nat
    BY <1>1
  <2> HIDE DEF n
  <2> QED
    BY <2>1, <2>2
<1>3. p[1] = t /\ (\A j \in 1..n : p[j + 1] = q[j]) /\ (\A j \in 1..(n + 1) : j # 1 => j - 1 \in 1..n /\ p[j] = q[j - 1])
  BY <1>1
<1>4. N \in [Slot -> Seq(Timer)] /\ N[s] = p /\ \A r \in Slot : r # s => N[r] = M[r]
  BY <1>2 DEF Chained
<1>5. /\ k.first = [l.first EXCEPT ![s] = t] /\ k.next = [l.next EXCEPT ![t] = l.first[s]]
      /\ k.pprev = [x \in Timer |-> IF x = t THEN s ELSE IF x = l.first[s] THEN t ELSE l.pprev[x]]
  BY DEF Inserted
<1>6. k \in Links
  BY DEF Chained, Links, Inserted
<1>7. l.first[s] = At(q, 1) /\ l \in Links
  BY DEF Chained
<1> HIDE DEF p, N, k
<1>8. ASSUME NEW r \in Slot, NEW i \in DOMAIN N[r]
      PROVE  /\ k.next[N[r][i]] = At(N[r], i + 1)
             /\ k.pprev[N[r][i]] \in {IF i = 1 THEN r ELSE N[r][i - 1], NULL}
             /\ \A r2 \in Slot : \A j \in DOMAIN N[r2] : N[r2][j] = N[r][i] => r2 = r /\ j = i
  <2>1. CASE r = s /\ i = 1
    <3>1. N[r][i] = t
      BY <1>3, <1>4, <2>1
    <3>2. k.next[t] = At(q, 1) /\ k.pprev[t] = s
      BY <1>5, <1>7 DEF Links
    <3>3. At(p, 2) = At(q, 1)
      BY <1>1, <1>2, <1>3 DEF At
    <3>4. \A r2 \in Slot : \A j \in DOMAIN N[r2] : N[r2][j] = t => r2 = s /\ j = 1
      <4> SUFFICES ASSUME NEW r2 \in Slot, NEW j \in DOMAIN N[r2], N[r2][j] = t PROVE r2 = s /\ j = 1
        OBVIOUS
      <4>1. r2 = s
        BY <1>1, <1>4
      <4>2. j \in 1..(n + 1) /\ p[j] = t
        BY <1>2, <1>4, <4>1
      <4>3. ~(j # 1)
        BY <1>1, <1>3, <4>2
      <4> QED
        BY <4>1, <4>3
    <3> QED
      BY <1>4, <2>1, <3>1, <3>2, <3>3, <3>4
  <2>2. CASE r = s /\ i # 1
    <3> DEFINE h == i - 1
    <3>1. h \in 1..n /\ i \in 1..(n + 1) /\ N[r][i] = q[h] /\ i = h + 1
      BY <1>2, <1>3, <1>4, <2>2
    <3> HIDE DEF h
    <3>2. q[h] \in Timer /\ q[h] # t /\ h \in DOMAIN q
      BY <1>1, <3>1
    <3>3. k.next[q[h]] = At(q, h + 1)
      BY <1>5, <3>2 DEF Chained, Links
    <3>4. At(p, i + 1) = At(q, h + 1)
      BY <1>1, <1>2, <1>3, <3>1 DEF At
    <3>5. k.pprev[q[h]] \in {p[h], NULL}
      <4>1. CASE h = 1
        BY <1>1, <1>3, <1>5, <1>7, <3>1, <3>2, <4>1 DEF At
      <4>2. CASE h # 1
        <5>1. h - 1 \in 1..n /\ p[h] = q[h - 1] /\ h \in 1..(n + 1)
          BY <1>1, <1>3, <3>1, <4>2
        <5>2. q[h] # l.first[s]
          <6>1. 1 \in DOMAIN q /\ l.first[s] = q[1]
            BY <1>1, <1>7, <3>1 DEF At
          <6> QED
            BY <3>2, <4>2, <6>1 DEF Chained
        <5>3. k.pprev[q[h]] = l.pprev[q[h]]
          BY <1>5, <3>2, <5>2
        <5> QED
          BY <3>2, <4>2, <5>1, <5>3 DEF Chained
      <4> QED
        BY <4>1, <4>2
    <3>6. \A r2 \in Slot : \A j \in DOMAIN N[r2] : N[r2][j] = q[h] => r2 = s /\ j = i
      <4> SUFFICES ASSUME NEW r2 \in Slot, NEW j \in DOMAIN N[r2], N[r2][j] = q[h] PROVE r2 = s /\ j = i
        OBVIOUS
      <4>1. r2 = s
        BY <1>4, <3>2 DEF Chained
      <4>2. j \in 1..(n + 1) /\ p[j] = q[h]
        BY <1>2, <1>4, <4>1
      <4>3. j # 1
        BY <1>3, <3>2, <4>2
      <4>4. j - 1 \in DOMAIN q /\ q[j - 1] = q[h]
        BY <1>1, <1>3, <4>2, <4>3
      <4>5. j - 1 = h
        BY <3>2, <4>4 DEF Chained
      <4> QED
        BY <3>1, <4>1, <4>2, <4>5
    <3>7. p[h] = N[r][i - 1]
      BY <1>4, <2>2, <3>1
    <3> QED
      BY <1>4, <2>2, <3>1, <3>3, <3>4, <3>5, <3>6, <3>7
  <2>3. CASE r # s
    <3>1. N[r] = M[r] /\ i \in DOMAIN M[r]
      BY <1>4, <2>3
    <3>2. M[r][i] \in Timer /\ M[r][i] # t
      BY <1>1, <3>1
    <3>3. M[r][i] # l.first[s]
      <4>1. CASE l.first[s] = NULL
        BY <1>0, <3>2, <4>1
      <4>2. CASE l.first[s] # NULL
        <5>1. 1 \in DOMAIN q /\ l.first[s] = q[1]
          BY <1>7, <4>2 DEF At
        <5> QED
          BY <2>3, <3>1, <5>1 DEF Chained
      <4> QED
        BY <4>1, <4>2
    <3>4. k.next[M[r][i]] = l.next[M[r][i]] /\ k.pprev[M[r][i]] = l.pprev[M[r][i]]
      BY <1>5, <1>7, <3>2, <3>3 DEF Links
    <3>5. \A r2 \in Slot : \A j \in DOMAIN N[r2] : N[r2][j] = M[r][i] => r2 = r /\ j = i
      <4> SUFFICES ASSUME NEW r2 \in Slot, NEW j \in DOMAIN N[r2], N[r2][j] = M[r][i] PROVE r2 = r /\ j = i
        OBVIOUS
      <4>1. CASE r2 = s
        <5>1. j \in 1..(n + 1) /\ p[j] = M[r][i]
          BY <1>2, <1>4, <4>1
        <5>2. j # 1
          BY <1>3, <3>2, <5>1
        <5>3. j - 1 \in DOMAIN q /\ q[j - 1] = M[r][i]
          BY <1>1, <1>3, <5>1, <5>2
        <5> QED
          BY <2>3, <3>1, <5>3 DEF Chained
      <4>2. CASE r2 # s
        BY <1>4, <3>1, <4>2 DEF Chained
      <4> QED
        BY <4>1, <4>2
    <3> QED
      BY <3>1, <3>4, <3>5 DEF Chained
  <2> QED
    BY <2>1, <2>2, <2>3
<1>9. ASSUME NEW r \in Slot PROVE k.first[r] = At(N[r], 1)
  BY <1>2, <1>3, <1>4, <1>5, <1>7 DEF At, Chained, Links
<1>10. Chained(k, N)
  BY <1>4, <1>6, <1>8, <1>9 DEF Chained
<1>11. ASSUME NEW r \in Slot, NEW x
       PROVE  On(N, r, x) <=> On(M, r, x) \/ (r = s /\ x = t)
  <2>1. CASE r # s
    BY <1>4, <2>1 DEF On
  <2>2. CASE r = s
    <3>1. ASSUME On(N, r, x), x # t PROVE On(M, r, x)
      <4>1. PICK j \in DOMAIN p : p[j] = x
        BY <1>4, <2>2, <3>1 DEF On
      <4>2. j # 1
        BY <1>3, <3>1, <4>1
      <4>3. j - 1 \in DOMAIN q /\ q[j - 1] = x
        BY <1>1, <1>2, <1>3, <4>1, <4>2
      <4> QED
        BY <2>2, <4>3 DEF On
    <3>2. ASSUME On(M, r, x) PROVE On(N, r, x)
      <4>1. PICK j \in DOMAIN q : q[j] = x
        BY <2>2, <3>2 DEF On
      <4>2. j + 1 \in DOMAIN p /\ p[j + 1] = x
        BY <1>1, <1>2, <1>3, <4>1
      <4> QED
        BY <1>4, <2>2, <4>2 DEF On
    <3>3. On(N, r, t)
      <4>1. 1 \in DOMAIN p
        BY <1>1, <1>2
      <4> QED
        BY <1>3, <1>4, <2>2, <4>1 DEF On
    <3> QED
      BY <2>2, <3>1, <3>2, <3>3
  <2> QED
    BY <2>1, <2>2
<1>12. ASSUME NEW x \in Timer, x # t, ~InList(M, x)
       PROVE  k.next[x] = l.next[x] /\ k.pprev[x] = l.pprev[x]
  <2>1. x # l.first[s]
    <3>1. CASE l.first[s] = NULL
      BY <1>0, <3>1
    <3>2. CASE l.first[s] # NULL
      BY <1>7, <1>12, <3>2 DEF At, InList, On
    <3> QED
      BY <3>1, <3>2
  <2> QED
    BY <1>5, <1>7, <1>12, <2>1 DEF Links
<1> QED
  BY <1>10, <1>11, <1>12 DEF k

(* A timer whose neighbours are joined is out of its list, whatever its own *)
(* pointers become.                                                         *)
LEMMA JoinKeeps ==
  ASSUME NEW l, NEW M, Chained(l, M), NEW s \in Slot, NEW i \in DOMAIN M[s], NEW t, t = M[s][i],
         NEW k \in Links,
         k.first = IF i = 1 THEN [l.first EXCEPT ![s] = At(M[s], 2)] ELSE l.first,
         \A x \in Timer : x # t =>
           k.next[x] = IF i # 1 /\ x = M[s][i - 1] THEN At(M[s], i + 1) ELSE l.next[x],
         \A x \in Timer : x # t =>
           IF x = At(M[s], i + 1) THEN k.pprev[x] \in {l.pprev[t], NULL} ELSE k.pprev[x] = l.pprev[x]
  PROVE  \E N : /\ Chained(k, N)
                /\ \A r \in Slot : \A x : On(N, r, x) <=> On(M, r, x) /\ x # t
<1> DEFINE q == M[s]
           n == Len(q)
           p == [j \in 1..(n - 1) |-> IF j < i THEN q[j] ELSE q[j + 1]]
           N == [M EXCEPT ![s] = p]
<1>0. /\ NULL \notin Timer /\ NULL \notin Slot /\ Timer \cap Slot = {}
  BY AddressesDiffer
<1>1. \A r \in Slot : /\ M[r] \in Seq(Timer) /\ Len(M[r]) \in Nat /\ DOMAIN M[r] = 1..Len(M[r])
                      /\ \A j \in DOMAIN M[r] : M[r][j] \in Timer
  BY DEF Chained
<1>2. i \in 1..n /\ n \in Nat /\ t \in Timer /\ q[i] = t
  BY <1>1
<1>3. \A r \in Slot : \A j \in DOMAIN M[r] : \A r2 \in Slot : \A j2 \in DOMAIN M[r2] :
        M[r][j] = M[r2][j2] => r = r2 /\ j = j2
  BY DEF Chained
<1>4. p \in Seq(Timer) /\ Len(p) = n - 1 /\ DOMAIN p = 1..(n - 1)
  <2>1. \A j \in 1..(n - 1) : p[j] \in Timer
    BY <1>1, <1>2
  <2>2. n - 1 \in Nat
    BY <1>2
  <2> HIDE DEF n
  <2> QED
    BY <2>1, <2>2
<1>5. \A j \in 1..(n - 1) : /\ j < i => j \in 1..n /\ p[j] = q[j] /\ j # i
                            /\ ~(j < i) => j + 1 \in 1..n /\ p[j] = q[j + 1] /\ j + 1 # i
  BY <1>2
<1>6. N \in [Slot -> Seq(Timer)] /\ N[s] = p /\ \A r \in Slot : r # s => N[r] = M[r]
  BY <1>4 DEF Chained
<1>7. At(p, 1) = IF i = 1 THEN At(q, 2) ELSE At(q, 1)
  <2>1. CASE n = 1
    BY <1>1, <1>2, <1>4, <2>1 DEF At
  <2>2. CASE n # 1
    BY <1>1, <1>2, <1>4, <1>5, <2>2 DEF At
  <2> QED
    BY <2>1, <2>2
<1> HIDE DEF p, N
<1>8. \A r \in Slot : k.first[r] = At(N[r], 1)
  <2>1. \A r \in Slot : l.first[r] = At(M[r], 1)
    BY DEF Chained
  <2>2. l.first \in [Slot -> Timer \cup {NULL}]
    BY DEF Chained, Links
  <2> SUFFICES ASSUME NEW r \in Slot PROVE k.first[r] = At(N[r], 1)
    OBVIOUS
  <2>3. CASE i = 1
    BY <1>6, <1>7, <2>1, <2>2, <2>3
  <2>4. CASE i # 1
    BY <1>6, <1>7, <2>1, <2>4
  <2> QED
    BY <2>3, <2>4
<1>9. ASSUME NEW j \in 1..(n - 1)
      PROVE  /\ p[j] \in Timer /\ p[j] # t
             /\ k.next[p[j]] = At(p, j + 1)
             /\ k.pprev[p[j]] \in {IF j = 1 THEN s ELSE p[j - 1], NULL}
  <2> DEFINE m == IF j < i THEN j ELSE j + 1
  <2>1. m \in 1..n /\ p[j] = q[m] /\ m # i
    BY <1>5
  <2>2. q[m] \in Timer /\ q[m] # t
    BY <1>1, <1>2, <1>3, <2>1
  <2>3. l.next[q[m]] = At(q, m + 1) /\ l.pprev[q[m]] \in {IF m = 1 THEN s ELSE q[m - 1], NULL}
    BY <1>1, <2>1, SMTT(30) DEF Chained
  <2>4. k.next[q[m]] = At(p, j + 1)
    <3>1. CASE m = i - 1
      <4>1. i # 1 /\ j = i - 1 /\ i - 1 \in 1..n
        BY <1>2, <2>1, <3>1
      <4>2. k.next[q[m]] = At(q, i + 1)
        BY <2>2, <3>1, <4>1
      <4>3. At(p, i) = At(q, i + 1)
        BY <1>1, <1>2, <1>4, <1>5 DEF At
      <4> QED
        BY <1>2, <4>1, <4>2, <4>3
    <3>2. CASE m # i - 1
      <4>1. i # 1 => q[m] # q[i - 1]
        <5>1. i # 1 => i - 1 \in 1..n
          BY <1>2
        <5> QED
          BY <1>1, <1>3, <2>1, <3>2, <5>1
      <4>2. k.next[q[m]] = At(q, m + 1)
        BY <2>2, <2>3, <4>1
      <4>3. At(p, j + 1) = At(q, m + 1)
        <5>1. CASE j < i
          <6>1. j + 1 < i /\ m = j
            BY <1>2, <2>1, <3>2, <5>1
          <6> QED
            BY <1>1, <1>2, <1>4, <1>5, <6>1 DEF At
        <5>2. CASE ~(j < i)
          <6>1. ~(j + 1 < i) /\ m = j + 1
            BY <1>2, <5>2
          <6> QED
            BY <1>1, <1>2, <1>4, <1>5, <6>1 DEF At
        <5> QED
          BY <5>1, <5>2
      <4> QED
        BY <4>2, <4>3
    <3> QED
      BY <3>1, <3>2
  <2>5. k.pprev[q[m]] \in {IF j = 1 THEN s ELSE p[j - 1], NULL}
    <3>1. CASE m = i + 1
      <4>1. j = i /\ q[m] = At(q, i + 1)
        BY <1>1, <1>2, <2>1, <3>1 DEF At
      <4>2. k.pprev[q[m]] \in {l.pprev[t], NULL}
        BY <2>2, <4>1
      <4>3. l.pprev[t] \in {IF i = 1 THEN s ELSE q[i - 1], NULL}
        BY <1>1, <1>2 DEF Chained
      <4>4. j # 1 => p[j - 1] = q[i - 1]
        BY <1>2, <1>5, <4>1
      <4> QED
        BY <4>1, <4>2, <4>3, <4>4
    <3>2. CASE m # i + 1
      <4>1. q[m] # At(q, i + 1)
        BY <1>0, <1>1, <1>2, <1>3, <2>1, <2>2, <3>2 DEF At
      <4>2. k.pprev[q[m]] \in {IF m = 1 THEN s ELSE q[m - 1], NULL}
        BY <2>2, <2>3, <4>1
      <4>3. CASE j < i
        BY <1>2, <1>5, <4>2, <4>3
      <4>4. CASE ~(j < i)
        <5>1. m = j + 1 /\ ~(j - 1 < i) /\ j # 1 /\ j - 1 \in 1..(n - 1)
          BY <1>2, <3>2, <4>4
        <5>2. p[j - 1] = q[(j - 1) + 1]
          BY <1>5, <5>1
        <5> QED
          BY <4>2, <5>1, <5>2
      <4> QED
        BY <4>3, <4>4
    <3> QED
      BY <3>1, <3>2
  <2> QED
    BY <2>1, <2>2, <2>4, <2>5
<1>10. ASSUME NEW r \in Slot, r # s, NEW j \in DOMAIN M[r]
       PROVE  /\ M[r][j] # t
              /\ k.next[M[r][j]] = At(M[r], j + 1)
              /\ k.pprev[M[r][j]] \in {IF j = 1 THEN r ELSE M[r][j - 1], NULL}
  <2>1. M[r][j] \in Timer /\ \A h \in DOMAIN q : M[r][j] # q[h]
    BY <1>1, <1>3, <1>10
  <2>2. M[r][j] # t /\ (i # 1 => M[r][j] # q[i - 1]) /\ M[r][j] # At(q, i + 1)
    BY <1>0, <1>1, <1>2, <2>1 DEF At
  <2> QED
    BY <2>1, <2>2 DEF Chained
<1>11. ASSUME NEW r \in Slot, NEW x
       PROVE  On(N, r, x) <=> On(M, r, x) /\ x # t
  <2>1. CASE r # s
    BY <1>6, <1>10, <2>1 DEF On
  <2>2. CASE r = s
    <3>1. ASSUME On(N, r, x) PROVE On(M, r, x) /\ x # t
      <4>1. PICK j \in 1..(n - 1) : p[j] = x
        BY <1>4, <1>6, <2>2, <3>1 DEF On
      <4> QED
        BY <1>1, <1>5, <1>9, <2>2, <4>1 DEF On
    <3>2. ASSUME On(M, r, x), x # t PROVE On(N, r, x)
      <4>1. PICK j \in 1..n : q[j] = x
        BY <1>1, <2>2, <3>2 DEF On
      <4>2. j # i
        BY <1>2, <3>2, <4>1
      <4>3. CASE j < i
        <5>1. j \in 1..(n - 1) /\ p[j] = x
          BY <1>2, <1>5, <4>1, <4>3
        <5> QED
          BY <1>4, <1>6, <2>2, <5>1 DEF On
      <4>4. CASE ~(j < i)
        <5>1. j - 1 \in 1..(n - 1) /\ ~(j - 1 < i) /\ (j - 1) + 1 = j
          BY <1>2, <4>2, <4>4
        <5>2. p[j - 1] = x
          BY <1>5, <4>1, <5>1
        <5> QED
          BY <1>4, <1>6, <2>2, <5>1, <5>2 DEF On
      <4> QED
        BY <4>3, <4>4
    <3> QED
      BY <3>1, <3>2
  <2> QED
    BY <2>1, <2>2
<1>12. ASSUME NEW r \in Slot, NEW j \in DOMAIN N[r], NEW r2 \in Slot, NEW j2 \in DOMAIN N[r2],
              N[r2][j2] = N[r][j]
       PROVE  r2 = r /\ j2 = j
  <2> DEFINE old(a, b) == IF a = s /\ ~(b < i) THEN b + 1 ELSE b
  <2>1. \A a \in Slot : \A b \in DOMAIN N[a] : old(a, b) \in DOMAIN M[a] /\ N[a][b] = M[a][old(a, b)]
    BY <1>1, <1>4, <1>5, <1>6
  <2>2. r2 = r /\ old(r2, j2) = old(r, j)
    <3>1. old(r, j) \in DOMAIN M[r] /\ N[r][j] = M[r][old(r, j)]
      BY <2>1
    <3>2. old(r2, j2) \in DOMAIN M[r2] /\ N[r2][j2] = M[r2][old(r2, j2)]
      BY <2>1
    <3> HIDE DEF old
    <3> QED
      BY <1>3, <1>12, <3>1, <3>2
  <2>3. r = s => j \in 1..(n - 1) /\ j2 \in 1..(n - 1)
    BY <1>4, <1>6, <2>2
  <2> QED
    BY <1>2, <2>2, <2>3
<1>13. Chained(k, N)
  <2> SUFFICES ASSUME NEW r \in Slot, NEW j \in DOMAIN N[r]
               PROVE  /\ k.next[N[r][j]] = At(N[r], j + 1)
                      /\ k.pprev[N[r][j]] \in {IF j = 1 THEN r ELSE N[r][j - 1], NULL}
    BY <1>6, <1>8, <1>12, SMTT(30) DEF Chained
  <2>1. CASE r = s
    <3>1. j \in 1..(n - 1) /\ N[r] = p
      BY <1>4, <1>6, <2>1
    <3> QED
      BY <1>9, <2>1, <3>1
  <2>2. CASE r # s
    BY <1>6, <1>10, <2>2
  <2> QED
    BY <2>1, <2>2
<1> QED
  BY <1>11, <1>13

(* ~timer_node of a timer in a list that is no orphan *)
LEMMA UnlinkKeeps ==
  ASSUME NEW l, NEW M, Chained(l, M), NEW s \in Slot, NEW t, On(M, s, t),
         l.pprev[t] # NULL
  PROVE  /\ \E N : /\ Chained(Unlinked(l, t), N)
                   /\ \A r \in Slot : \A x : On(N, r, x) <=> On(M, r, x) /\ x # t
         /\ \A x \in Timer : ~InList(M, x) =>
              Unlinked(l, t).next[x] = l.next[x] /\ Unlinked(l, t).pprev[x] = l.pprev[x]
<1> DEFINE q == M[s]
           k == Unlinked(l, t)
<1>0. /\ NULL \notin Timer /\ NULL \notin Slot /\ Timer \cap Slot = {}
  BY AddressesDiffer
<1>1. PICK i \in DOMAIN q : q[i] = t
  BY DEF On
<1>2. /\ q \in Seq(Timer) /\ Len(q) \in Nat /\ DOMAIN q = 1..Len(q) /\ t \in Timer
      /\ i \in 1..Len(q) /\ \A j \in DOMAIN q : q[j] \in Timer /\ (q[j] = t => j = i)
  BY <1>1 DEF Chained
<1>3. l.next[t] = At(q, i + 1) /\ l.pprev[t] = (IF i = 1 THEN s ELSE q[i - 1]) /\ l \in Links
  BY <1>1 DEF Chained
<1>4. At(q, i + 1) \in Timer \cup {NULL} /\ At(q, i + 1) # t
  BY <1>0, <1>2 DEF At
<1>5. i # 1 => q[i - 1] \in Timer /\ q[i - 1] # t
  BY <1>2
<1>6. /\ k \in Links
      /\ k.first = IF i = 1 THEN [l.first EXCEPT ![s] = At(q, 2)] ELSE l.first
      /\ k.next = IF i = 1 THEN l.next ELSE [l.next EXCEPT ![q[i - 1]] = At(q, i + 1)]
      /\ k.pprev = [x \in Timer |-> IF x = At(q, i + 1) THEN l.pprev[t] ELSE l.pprev[x]]
  <2>1. CASE i = 1
    <3>1. l.pprev[t] = s /\ At(q, 2) = l.next[t]
      BY <1>3, <2>1
    <3> HIDE DEF q
    <3> QED
      BY <1>3, <1>4, <2>1, <3>1 DEF Unlinked, Stored, Links
  <2>2. CASE i # 1
    <3>1. l.pprev[t] \in Timer /\ l.pprev[t] \notin Slot
      BY <1>0, <1>3, <1>5, <2>2
    <3> QED
      BY <1>3, <1>4, <2>2, <3>1 DEF Unlinked, Stored, Links
  <2> QED
    BY <2>1, <2>2
<1> HIDE DEF k
<1>7. \A x \in Timer : k.next[x] = IF i # 1 /\ x = q[i - 1] THEN At(q, i + 1) ELSE l.next[x]
  BY <1>3, <1>5, <1>6 DEF Links
<1>8. \A x \in Timer : k.pprev[x] = IF x = At(q, i + 1) THEN l.pprev[t] ELSE l.pprev[x]
  BY <1>6
<1>9. \E N : /\ Chained(k, N)
             /\ \A r \in Slot : \A x : On(N, r, x) <=> On(M, r, x) /\ x # t
  <2>1. i \in DOMAIN M[s] /\ t = M[s][i]
    BY <1>1
  <2>2. /\ k \in Links
        /\ k.first = IF i = 1 THEN [l.first EXCEPT ![s] = At(M[s], 2)] ELSE l.first
    BY <1>6
  <2>3. \A x \in Timer : x # t =>
          k.next[x] = IF i # 1 /\ x = M[s][i - 1] THEN At(M[s], i + 1) ELSE l.next[x]
    BY <1>7
  <2>4. \A x \in Timer : x # t =>
          IF x = At(M[s], i + 1) THEN k.pprev[x] \in {l.pprev[t], NULL} ELSE k.pprev[x] = l.pprev[x]
    BY <1>8
  <2> HIDE DEF q
  <2> QED
    BY <2>1, <2>2, <2>3, <2>4, JoinKeeps
<1>10. ASSUME NEW x \in Timer, ~InList(M, x)
       PROVE  k.next[x] = l.next[x] /\ k.pprev[x] = l.pprev[x]
  <2>1. \A j \in DOMAIN q : q[j] # x
    BY <1>10 DEF InList, On
  <2>2. x # At(q, i + 1) /\ (i # 1 => x # q[i - 1])
    BY <1>0, <1>2, <2>1 DEF At
  <2> QED
    BY <1>7, <1>8, <2>2
<1> QED
  BY <1>9, <1>10 DEF k

(* timer_cancel of a timer that is no orphan: the next one becomes one. *)
LEMMA CancelKeeps ==
  ASSUME NEW l, NEW M, Chained(l, M), NEW s \in Slot, NEW t, On(M, s, t),
         l.pprev[t] # NULL, ~flag[t]
  PROVE  /\ \E N : /\ Chained(Cancelled(l, t), N)
                   /\ \A r \in Slot : \A x : On(N, r, x) <=> On(M, r, x) /\ x # t
         /\ \A x \in Timer : ~InList(M, x) => /\ Cancelled(l, t).next[x] = l.next[x]
                                             /\ Cancelled(l, t).pprev[x] = l.pprev[x]
         /\ Cancelled(l, t).next[t] = NULL /\ Cancelled(l, t).pprev[t] = NULL
<1> DEFINE q == M[s]
           k == Cancelled(l, t)
<1>0. /\ NULL \notin Timer /\ NULL \notin Slot /\ Timer \cap Slot = {}
  BY AddressesDiffer
<1>1. PICK i \in DOMAIN q : q[i] = t
  BY DEF On
<1>2. /\ q \in Seq(Timer) /\ Len(q) \in Nat /\ DOMAIN q = 1..Len(q) /\ t \in Timer
      /\ i \in 1..Len(q) /\ \A j \in DOMAIN q : q[j] \in Timer /\ (q[j] = t => j = i)
  BY <1>1 DEF Chained
<1>3. l.next[t] = At(q, i + 1) /\ l.pprev[t] = (IF i = 1 THEN s ELSE q[i - 1]) /\ l \in Links
  BY <1>1 DEF Chained
<1>4. At(q, i + 1) \in Timer \cup {NULL} /\ At(q, i + 1) # t
  BY <1>0, <1>2 DEF At
<1>5. i # 1 => q[i - 1] \in Timer /\ q[i - 1] # t
  BY <1>2
<1>6. /\ k \in Links
      /\ k.first = IF i = 1 THEN [l.first EXCEPT ![s] = At(q, 2)] ELSE l.first
      /\ k.next = IF i = 1 THEN [l.next EXCEPT ![t] = NULL]
                  ELSE [[l.next EXCEPT ![q[i - 1]] = At(q, i + 1)] EXCEPT ![t] = NULL]
      /\ k.pprev = [x \in Timer |-> IF x \in {t, At(q, i + 1)} THEN NULL ELSE l.pprev[x]]
  <2>1. CASE i = 1
    <3>1. l.pprev[t] \in Slot /\ l.pprev[t] = s /\ At(q, 2) = l.next[t]
      BY <1>3, <2>1
    <3> HIDE DEF q
    <3> QED
      BY <1>2, <1>3, <1>4, <2>1, <3>1 DEF Cancelled, Stored, Links
  <2>2. CASE i # 1
    <3>1. l.pprev[t] \in Timer /\ l.pprev[t] \notin Slot
      BY <1>0, <1>3, <1>5, <2>2
    <3> QED
      BY <1>2, <1>3, <1>4, <2>2, <3>1 DEF Cancelled, Stored, Links
  <2> QED
    BY <2>1, <2>2
<1> HIDE DEF k
<1>7. \A x \in Timer : x # t => k.next[x] = IF i # 1 /\ x = q[i - 1] THEN At(q, i + 1) ELSE l.next[x]
  BY <1>3, <1>4, <1>5, <1>6 DEF Links
<1>8. \A x \in Timer : x # t =>
        IF x = At(q, i + 1) THEN k.pprev[x] \in {l.pprev[t], NULL} ELSE k.pprev[x] = l.pprev[x]
  BY <1>6
<1>9. \E N : /\ Chained(k, N)
             /\ \A r \in Slot : \A x : On(N, r, x) <=> On(M, r, x) /\ x # t
  <2>1. i \in DOMAIN M[s] /\ t = M[s][i]
    BY <1>1
  <2>2. /\ k \in Links
        /\ k.first = IF i = 1 THEN [l.first EXCEPT ![s] = At(M[s], 2)] ELSE l.first
    BY <1>6
  <2>3. \A x \in Timer : x # t =>
          k.next[x] = IF i # 1 /\ x = M[s][i - 1] THEN At(M[s], i + 1) ELSE l.next[x]
    BY <1>7
  <2>4. \A x \in Timer : x # t =>
          IF x = At(M[s], i + 1) THEN k.pprev[x] \in {l.pprev[t], NULL} ELSE k.pprev[x] = l.pprev[x]
    BY <1>8
  <2> HIDE DEF q
  <2> QED
    BY <2>1, <2>2, <2>3, <2>4, JoinKeeps
<1>10. ASSUME NEW x \in Timer, ~InList(M, x)
       PROVE  k.next[x] = l.next[x] /\ k.pprev[x] = l.pprev[x]
  <2>1. \A j \in DOMAIN q : q[j] # x
    BY <1>10 DEF InList, On
  <2>2. x # t /\ x # At(q, i + 1) /\ (i # 1 => x # q[i - 1])
    BY <1>0, <1>1, <1>2, <2>1 DEF At
  <2> QED
    BY <1>7, <1>8, <2>2
<1>11. k.next[t] = NULL /\ k.pprev[t] = NULL
  BY <1>2, <1>3, <1>6 DEF Links
<1> QED
  BY <1>9, <1>10, <1>11 DEF k

(* A list that is taken out of its slot. *)
LEMMA ClearKeeps ==
  ASSUME NEW l, NEW M, Chained(l, M), NEW s \in Slot
  PROVE  \E N : /\ Chained([l EXCEPT !.first[s] = NULL], N)
                /\ \A r \in Slot : \A x : On(N, r, x) <=> On(M, r, x) /\ r # s
<1> DEFINE N == [M EXCEPT ![s] = <<>>]
           k == [l EXCEPT !.first[s] = NULL]
<1>1. N \in [Slot -> Seq(Timer)] /\ N[s] = <<>> /\ \A r \in Slot : r # s => N[r] = M[r]
  BY DEF Chained
<1>2. k \in Links /\ k.next = l.next /\ k.pprev = l.pprev /\ k.first = [l.first EXCEPT ![s] = NULL]
  BY DEF Chained, Links
<1>3. DOMAIN N[s] = {}
  BY <1>1
<1> HIDE DEF N, k
<1>4. \A r \in Slot : \A x : On(N, r, x) <=> On(M, r, x) /\ r # s
  BY <1>1, <1>3 DEF On
<1>5. \A r \in Slot : k.first[r] = At(N[r], 1)
  BY <1>1, <1>2, <1>3 DEF At, Chained, Links
<1>6. \A r \in Slot : DOMAIN N[r] # {} => r # s
  BY <1>3
<1>7. Chained(k, N)
  <2>1. \A r \in Slot : \A i \in DOMAIN N[r] : r # s /\ N[r] = M[r]
    BY <1>1, <1>6
  <2>2. ASSUME NEW r \in Slot, NEW i \in DOMAIN N[r]
        PROVE  /\ k.next[N[r][i]] = At(N[r], i + 1)
               /\ k.pprev[N[r][i]] \in {IF i = 1 THEN r ELSE N[r][i - 1], NULL}
               /\ \A r2 \in Slot : \A j \in DOMAIN N[r2] : N[r2][j] = N[r][i] => r2 = r /\ j = i
    <3>1. i \in DOMAIN M[r] /\ N[r] = M[r]
      BY <2>1
    <3>2. /\ l.next[M[r][i]] = At(M[r], i + 1)
          /\ l.pprev[M[r][i]] \in {IF i = 1 THEN r ELSE M[r][i - 1], NULL}
          /\ \A r2 \in Slot : \A j \in DOMAIN M[r2] : M[r2][j] = M[r][i] => r2 = r /\ j = i
      BY <3>1 DEF Chained
    <3> QED
      BY <1>2, <2>1, <3>1, <3>2
  <2> QED
    BY <1>1, <1>2, <1>5, <2>2 DEF Chained
<1> QED
  BY <1>4, <1>7 DEF k

-----------------------------------------------------------------------------
(* Levels and times. *)

(* Division with remainder. *)
LEMMA Division ==
  ASSUME NEW k \in Nat \ {0}, NEW a \in Nat
  PROVE  /\ a \div k \in Nat
         /\ a % k \in 0..(k - 1)
         /\ a = k * (a \div k) + (a % k)
  OBVIOUS

(* Quotients of numbers that are at least k apart differ. *)
LEMMA DivisionGrows ==
  ASSUME NEW k \in Nat \ {0}, NEW a \in Nat, NEW b \in Nat
  PROVE  /\ a <= b => a \div k <= b \div k
         /\ a + k <= b => a \div k < b \div k
<1> DEFINE qa == a \div k
           qb == b \div k
<1>1. qa \in Nat /\ qb \in Nat /\ a = k * qa + (a % k) /\ b = k * qb + (b % k)
      /\ a % k \in 0..(k - 1) /\ b % k \in 0..(k - 1)
  BY Division
<1> HIDE DEF qa, qb
<1>2. ASSUME qb < qa PROVE b < a
  <2>1. k * (qb + 1) <= k * qa
    BY <1>1, <1>2
  <2>2. k * (qb + 1) = k * qb + k
    BY <1>1
  <2> QED
    BY <1>1, <2>1, <2>2
<1>3. ASSUME qb <= qa PROVE b < a + k
  <2>1. k * qb <= k * qa /\ k * qb \in Nat /\ k * qa \in Nat
    BY <1>1, <1>3
  <2> QED
    BY <1>1, <2>1
<1> QED
  BY <1>1, <1>2, <1>3 DEF qa, qb

(* The quotient of the next number. *)
LEMMA NextQuotient ==
  ASSUME NEW k \in Nat \ {0}, NEW a \in Nat
  PROVE  (a + 1) \div k = IF (a + 1) % k = 0 THEN (a \div k) + 1 ELSE a \div k
<1> DEFINE qa == a \div k
           ra == a % k
           qb == (a + 1) \div k
           rb == (a + 1) % k
<1>1. qa \in Nat /\ a = k * qa + ra /\ ra \in 0..(k - 1)
  BY Division
<1>2. qb \in Nat /\ a + 1 = k * qb + rb /\ rb \in 0..(k - 1)
  <2>1. a + 1 \in Nat
    OBVIOUS
  <2> QED
    BY <2>1, Division
<1> HIDE DEF qa, ra, qb, rb
<1>3. qa <= qb /\ qb <= qa + 1
  <2>1. qa <= qb
    <3>1. a + 1 \in Nat /\ a <= a + 1
      OBVIOUS
    <3> QED
      BY <3>1, DivisionGrows DEF qa, qb
  <2>2. ASSUME qa + 2 <= qb PROVE FALSE
    <3>1. k * (qa + 2) <= k * qb /\ k * (qa + 2) = k * qa + 2 * k
      BY <1>1, <1>2, <2>2
    <3>2. k * qa \in Nat /\ k * qb \in Nat
      BY <1>1, <1>2
    <3> QED
      BY <1>1, <1>2, <3>1, <3>2
  <2> QED
    BY <1>1, <1>2, <2>1, <2>2
<1>4. CASE qb = qa
  <2>1. k * qa \in Nat
    BY <1>1
  <2>2. rb = ra + 1
    BY <1>1, <1>2, <1>4, <2>1
  <2> QED
    BY <1>1, <1>2, <1>4, <2>2 DEF qa, qb, rb
<1>5. CASE qb = qa + 1
  <2>1. k * qb = k * qa + k /\ k * qa \in Nat
    BY <1>1, <1>5
  <2>2. rb = 0
    BY <1>1, <1>2, <2>1
  <2> QED
    BY <1>1, <1>2, <1>5, <2>2 DEF qa, qb, rb
<1> QED
  BY <1>1, <1>2, <1>3, <1>4, <1>5

(* Each level reaches at least as far as the one below. *)
LEMMA Spans ==
  /\ \A l \in 1..4 : Span[l] \in Nat \ {0}
  /\ Span[1] = TVR_SIZE /\ Span[1] <= Span[2] /\ Span[2] <= Span[3] /\ Span[3] <= Span[4]
<1>1. \A a, b \in Nat \ {0} : a * b \in Nat \ {0} /\ a <= a * b
  OBVIOUS
<1>2. TVR_SIZE \in Nat \ {0} /\ TVN_SIZE \in Nat \ {0}
  BY SizesPositive
<1> DEFINE a1 == TVR_SIZE
           a2 == a1 * TVN_SIZE
           a3 == a2 * TVN_SIZE
           a4 == a3 * TVN_SIZE
<1>3. Span = <<a1, a2, a3, a4>>
  BY DEF Span
<1>4. a2 \in Nat \ {0} /\ a1 <= a2
  BY <1>1, <1>2
<1> HIDE DEF a2
<1>5. a3 \in Nat \ {0} /\ a2 <= a3
  BY <1>1, <1>2, <1>4
<1> HIDE DEF a3
<1>6. a4 \in Nat \ {0} /\ a3 <= a4
  BY <1>1, <1>2, <1>5
<1> HIDE DEF a4
<1>7. Span[1] = a1 /\ Span[2] = a2 /\ Span[3] = a3 /\ Span[4] = a4
  BY <1>3
<1>8. \A l \in 1..4 : l = 1 \/ l = 2 \/ l = 3 \/ l = 4
  OBVIOUS
<1> QED
  BY <1>2, <1>4, <1>5, <1>6, <1>7, <1>8

(* The level of a timer is the lowest that reaches as far. *)
LEMMA LevelIs ==
  ASSUME NEW delta \in Nat
  PROVE  /\ Level(delta) \in 1..5
         /\ Level(delta) = 1 => delta < Span[1]
         /\ Level(delta) # 1 => Level(delta) - 1 \in 1..4 /\ Span[Level(delta) - 1] <= delta
<1>1. CASE delta >= Span[4]
  BY <1>1, Spans DEF Level
<1>2. CASE ~(delta >= Span[4])
  <2> DEFINE P(l) == delta < Span[l] /\ (l = 1 \/ delta >= Span[l - 1])
             l0 == Level(delta)
  <2>1. Span[1] \in Nat /\ Span[2] \in Nat /\ Span[3] \in Nat /\ Span[4] \in Nat
    BY Spans
  <2>2. \E l \in 1..4 : P(l)
    <3>1. CASE delta < Span[1]
      BY <3>1
    <3>2. CASE delta >= Span[1] /\ delta < Span[2]
      BY <3>2
    <3>3. CASE delta >= Span[2] /\ delta < Span[3]
      BY <3>3
    <3>4. CASE delta >= Span[3] /\ delta < Span[4]
      BY <3>4
    <3> QED
      BY <1>2, <2>1, <3>1, <3>2, <3>3, <3>4
  <2>3. l0 = CHOOSE l \in 1..4 : P(l)
    BY <1>2 DEF Level
  <2> HIDE DEF P, l0
  <2>4. l0 \in 1..4 /\ P(l0)
    BY <2>2, <2>3, Zenon
  <2> QED
    BY <2>1, <2>4 DEF P, l0
<1> QED
  BY <1>1, <1>2

(* The place of a timer is a slot of its level. *)
LEMMA PlaceIs ==
  ASSUME NEW l \in 1..5, NEW e \in Nat
  PROVE  Place(l, e) \in Slot /\ Place(l, e)[1] = l
<1>1. CASE l = 1
  <2>1. e % Span[1] \in 0..(TVR_SIZE - 1)
    <3>1. Span[1] = TVR_SIZE
      BY Spans
    <3> QED
      BY <3>1, SizesPositive, Division
  <2> QED
    BY <1>1, <2>1 DEF Place, Slot
<1>2. CASE l # 1
  <2>1. l - 1 \in 1..4 /\ l \in 2..5
    BY <1>2
  <2>2. e \div Span[l - 1] \in Nat
    BY <2>1, Spans, Division
  <2>3. (e \div Span[l - 1]) % TVN_SIZE \in 0..(TVN_SIZE - 1)
    BY <2>2, SizesPositive, Division
  <2> QED
    BY <1>2, <2>1, <2>3 DEF Place, Slot
<1> QED
  BY <1>1, <1>2

(* __timer_add finds such a slot. *)
LEMMA AddIsTimely ==
  ASSUME NEW now \in Nat, NEW e \in Nat, now <= e
  PROVE  /\ Place(Level(e - now), e) \in Slot
         /\ Timely(Place(Level(e - now), e), e, now)
<1> DEFINE l == Level(e - now)
<1>1. e - now \in Nat
  OBVIOUS
<1>2. /\ l \in 1..5 /\ (l = 1 => e - now < Span[1])
      /\ (l # 1 => l - 1 \in 1..4 /\ Span[l - 1] <= e - now)
  <2> HIDE DEF l
  <2> QED
    BY <1>1, LevelIs DEF l
<1> HIDE DEF l
<1>3. Place(l, e) \in Slot /\ Place(l, e)[1] = l
  BY <1>2, PlaceIs
<1>4. CASE l = 1
  <2>1. Span[1] \in Nat
    BY Spans
  <2> QED
    BY <1>1, <1>2, <1>3, <1>4, <2>1 DEF Timely, l
<1>5. CASE l # 1
  <2> DEFINE k == Span[l - 1]
  <2>1. k \in Nat \ {0} /\ now + k <= e
    <3>1. k \in Nat \ {0} /\ k <= e - now
      BY <1>2, <1>5, Spans
    <3> HIDE DEF k
    <3> QED
      BY <3>1
  <2>2. now \div k < e \div k
    <3> HIDE DEF k
    <3> QED
      BY <2>1, DivisionGrows
  <2> QED
    BY <1>3, <1>5, <2>2 DEF Timely, l
<1> QED
  BY <1>4, <1>5

(* What a slot holds stays where it belongs, unless its level comes round.  *)
LEMMA StaysTimely ==
  ASSUME NEW c \in Nat, NEW e \in Nat, c < e, NEW s \in Slot, Timely(s, e, c),
         s[1] # 1 => ~(ComesRound(s[1], c + 1) /\ s = Place(s[1], c + 1))
  PROVE  Timely(s, e, c + 1)
<1>1. s[1] \in 1..5
  BY DEF Slot
<1>2. CASE s[1] = 1
  <2>1. Span[1] \in Nat
    BY Spans
  <2> QED
    BY <1>2, <2>1 DEF Timely
<1>3. CASE s[1] # 1
  <2> DEFINE k == Span[s[1] - 1]
  <2>1. k \in Nat \ {0}
    BY <1>1, <1>3, Spans
  <2>2. s = Place(s[1], e) /\ c \div k < e \div k
    BY <1>3 DEF Timely
  <2>3. s = <<s[1], (e \div k) % TVN_SIZE>>
    BY <1>3, <2>2 DEF Place
  <2>4. Place(s[1], c + 1) = <<s[1], ((c + 1) \div k) % TVN_SIZE>>
    BY <1>3 DEF Place
  <2>5. ~((c + 1) % k = 0 /\ s = Place(s[1], c + 1))
    BY <1>3 DEF ComesRound
  <2>6. c \div k \in Nat /\ e \div k \in Nat
    BY <2>1, Division
  <2>7. (c + 1) \div k = IF (c + 1) % k = 0 THEN (c \div k) + 1 ELSE c \div k
    BY <2>1, NextQuotient
  <2>8. (c + 1) \div k < e \div k
    <3>1. CASE (c + 1) % k = 0
      <4>1. (c + 1) \div k # e \div k
        BY <2>3, <2>4, <2>5, <3>1
      <4> QED
        BY <2>2, <2>6, <2>7, <3>1, <4>1
    <3>2. CASE (c + 1) % k # 0
      BY <2>2, <2>7, <3>2
    <3> QED
      BY <3>1, <3>2
  <2> QED
    BY <1>3, <2>2, <2>8 DEF Timely
<1> QED
  BY <1>2, <1>3

(* What belongs above level 1 at a tick belonged there a tick before. *)
LEMMA WasTimely ==
  ASSUME NEW c \in Nat, NEW e \in Nat, NEW s \in Slot, s[1] # 1, Timely(s, e, c + 1)
  PROVE  Timely(s, e, c)
<1> DEFINE k == Span[s[1] - 1]
<1>1. s[1] - 1 \in 1..4
  BY DEF Slot
<1>2. k \in Nat \ {0}
  BY <1>1, Spans
<1>3. c \div k <= (c + 1) \div k /\ c \div k \in Nat /\ (c + 1) \div k \in Nat /\ e \div k \in Nat
  <2>1. c + 1 \in Nat /\ c <= c + 1
    OBVIOUS
  <2> HIDE DEF k
  <2> QED
    BY <1>2, <2>1, Division, DivisionGrows
<1>4. (c + 1) \div k < e \div k
  BY DEF Timely
<1>5. c \div k < e \div k
  <2> HIDE DEF k
  <2> QED
    BY <1>3, <1>4
<1> QED
  BY <1>5 DEF Timely

(* The slot of level 1 at the hand holds what is due now. *)
LEMMA DueIsAtHand ==
  ASSUME NEW now \in Nat, NEW e \in Nat, NEW s \in Slot, Timely(s, e, now)
  PROVE  e = now <=> s = Place(1, now)
<1> DEFINE k == Span[1]
<1>1. k \in Nat \ {0} /\ s[1] \in 1..5
  BY Spans DEF Slot
<1>2. Place(1, now) = <<1, now % k>>
  BY DEF Place
<1>3. CASE s[1] = 1
  <2>1. s = <<1, e % k>> /\ e - now \in 0..(k - 1)
    BY <1>3 DEF Timely, Place
  <2>2. e % k = now % k => e = now
    <3> DEFINE qe == e \div k
               qn == now \div k
               r == e % k
    <3>1. qe \in Nat /\ e = k * qe + r /\ r \in 0..(k - 1) /\ qn \in Nat /\ now = k * qn + (now % k)
      <4> HIDE DEF k
      <4> QED
        BY <1>1, Division
    <3> HIDE DEF k, qe, qn, r
    <3> SUFFICES ASSUME now % k = r PROVE e = now
      BY DEF r
    <3>2. k * qe \in Nat /\ k * qn \in Nat
      BY <1>1, <3>1
    <3>3. ~(qn + 1 <= qe)
      <4> SUFFICES ASSUME qn + 1 <= qe PROVE FALSE
        OBVIOUS
      <4>1. k * (qn + 1) <= k * qe /\ k * (qn + 1) = k * qn + k
        BY <1>1, <3>1
      <4> QED
        BY <1>1, <2>1, <3>1, <3>2, <4>1
    <3>4. ~(qe + 1 <= qn)
      <4> SUFFICES ASSUME qe + 1 <= qn PROVE FALSE
        OBVIOUS
      <4>1. k * (qe + 1) <= k * qn /\ k * (qe + 1) = k * qe + k
        BY <1>1, <3>1
      <4> QED
        BY <1>1, <2>1, <3>1, <3>2, <4>1
    <3> QED
      BY <3>1, <3>3, <3>4
  <2> QED
    BY <1>2, <2>1, <2>2
<1>4. CASE s[1] # 1
  <2>1. s # Place(1, now)
    BY <1>2, <1>4
  <2>2. s[1] - 1 \in 1..4
    BY <1>1, <1>4
  <2>3. now \div Span[s[1] - 1] < e \div Span[s[1] - 1]
    BY <1>4 DEF Timely
  <2>4. Span[s[1] - 1] \in Nat \ {0}
    BY <2>2, Spans
  <2>5. now \div Span[s[1] - 1] \in Nat
    BY <2>4, Division
  <2> QED
    BY <2>1, <2>3, <2>5
<1> QED
  BY <1>3, <1>4

-----------------------------------------------------------------------------
(* Cascades. *)

(* The slot that __timer_add finds for timer t at tick now. *)
Target(t, now) == Place(Level(expires[t] - now), expires[t])

(* __timer_cascade empties a slot and adds its timers again, each once;     *)
(* the pointers of timers in no list stay as they are.                      *)
LEMMA CascadeKeeps ==
  ASSUME NEW l, NEW L, Chained(l, L), NEW s \in Slot, NEW now \in Nat,
         expires \in [Timer -> Nat],
         \A t \in Timer : On(L, s, t) => now <= expires[t]
  PROVE  \E N : /\ Chained(Cascaded(l, s, now), N)
                /\ \A r \in Slot : \A x : On(N, r, x) <=>
                      (On(L, r, x) /\ r # s) \/ (On(L, s, x) /\ r = Target(x, now))
                /\ \A x \in Timer : ~InList(L, x) => /\ Cascaded(l, s, now).next[x] = l.next[x]
                                                    /\ Cascaded(l, s, now).pprev[x] = l.pprev[x]
<1> DEFINE q == L[s]
           n == Len(q)
           a == [l EXCEPT !.first[s] = NULL]
           E(w) == w = [i \in 0..n |-> IF i = 0 THEN a
                                       ELSE Added(w[i - 1], q[i], expires[q[i]], now)]
           h == Cascade(l, s, now)
<1>1. /\ q \in Seq(Timer) /\ n \in Nat /\ DOMAIN q = 1..n
      /\ \A i \in 1..n : q[i] \in Timer /\ On(L, s, q[i])
      /\ \A i, j \in 1..n : q[i] = q[j] => i = j
  BY DEF Chained, On
<1>2. Listed(l, s) = q
  BY ListIs
<1>3. a \in Links
  BY DEF Chained, Links
<1>4. ASSUME NEW t \in Timer, On(L, s, t)
      PROVE  Target(t, now) \in Slot
  BY <1>4, AddIsTimely DEF Target
<1>5. ASSUME NEW k \in Links, NEW i \in 1..n
      PROVE  /\ Added(k, q[i], expires[q[i]], now) = Inserted(k, Target(q[i], now), q[i])
             /\ Added(k, q[i], expires[q[i]], now) \in Links
  <2>1. q[i] \in Timer /\ Target(q[i], now) \in Slot
    BY <1>1, <1>4
  <2>2. Added(k, q[i], expires[q[i]], now) = Inserted(k, Target(q[i], now), q[i])
    BY DEF Added, Target
  <2>3. ASSUME NEW r \in Slot, NEW t \in Timer PROVE Inserted(k, r, t) \in Links
    BY DEF Inserted, Links
  <2> QED
    BY <2>1, <2>2, <2>3
<1>6. E(h) /\ h \in [0..n -> Links]
  <2> DEFINE G == [i \in 1..n |-> [k \in Links |-> Added(k, q[i], expires[q[i]], now)]]
  <2>1. \A i \in 1..n : \A k \in Links : G[i][k] \in Links /\ G[i][k] = Added(k, q[i], expires[q[i]], now)
    BY <1>5
  <2> HIDE DEF G
  <2>2. PICK g \in [0..n -> Links] : g[0] = a /\ \A i \in 1..n : g[i] = G[i][g[i - 1]]
    <3>1. n \in Nat /\ a \in Links /\ \A i \in 1..n : \A k \in Links : G[i][k] \in Links
      BY <1>1, <1>3, <2>1
    <3> HIDE DEF n, a
    <3>2. Steps(Links, n, a, G) # {}
      BY <3>1, StepsExist
    <3> QED
      BY <3>2 DEF Steps
  <2>3. \A i \in 0..n : g[i] = IF i = 0 THEN a ELSE Added(g[i - 1], q[i], expires[q[i]], now)
    <3> SUFFICES ASSUME NEW i \in 0..n
                 PROVE  g[i] = IF i = 0 THEN a ELSE Added(g[i - 1], q[i], expires[q[i]], now)
      OBVIOUS
    <3> HIDE DEF n, a
    <3>1. CASE i = 0
      BY <2>2, <3>1
    <3>2. CASE i # 0
      <4>1. i \in 1..n /\ i - 1 \in 0..n
        BY <1>1, <3>2
      <4>2. g[i] = G[i][g[i - 1]] /\ g[i - 1] \in Links
        BY <2>2, <4>1
      <4> QED
        BY <2>1, <3>2, <4>1, <4>2
    <3> QED
      BY <3>1, <3>2
  <2>4. E(g)
    <3>1. g = [i \in 0..n |-> g[i]]
      OBVIOUS
    <3> HIDE DEF n, a
    <3> QED
      BY <2>3, <3>1
  <2>5. h = CHOOSE w : E(w)
    BY <1>2 DEF Cascade
  <2>6. E(h)
    <3> HIDE DEF E, h
    <3> QED
      BY <2>4, <2>5, Zenon
  <2>7. \A i \in 0..n : h[i] \in Links
    <3> DEFINE Bad == {i \in 0..n : h[i] \notin Links}
    <3> HIDE DEF h
    <3> SUFFICES ASSUME Bad # {} PROVE FALSE
      OBVIOUS
    <3>1. Bad \in SUBSET Nat
      BY <1>1
    <3>2. PICK i \in Bad : \A j \in Bad : i <= j
      <4> HIDE DEF Bad
      <4> QED
        BY <3>1, Least
    <3>3. i \in 0..n /\ h[i] \notin Links
      OBVIOUS
    <3>4. h[i] = IF i = 0 THEN a ELSE Added(h[i - 1], q[i], expires[q[i]], now)
      <4> HIDE DEF n, a, Bad
      <4> QED
        BY <2>6, <3>3
    <3>5. i # 0
      BY <1>3, <3>3, <3>4
    <3>6. i \in 1..n /\ i - 1 \in 0..n /\ ~(i <= i - 1)
      BY <1>1, <3>3, <3>5
    <3>7. i - 1 \notin Bad
      <4> HIDE DEF Bad
      <4> QED
        BY <3>2, <3>6
    <3>8. h[i - 1] \in Links
      BY <3>6, <3>7
    <3> QED
      BY <1>5, <3>3, <3>4, <3>5, <3>6, <3>8
  <2>8. h = [i \in 0..n |-> h[i]]
    <3> HIDE DEF h, n, a
    <3> QED
      BY <2>6
  <2> HIDE DEF h, E, n
  <2> QED
    BY <2>6, <2>7, <2>8
<1> HIDE DEF h
<1> DEFINE Now(N, i) == /\ Chained(h[i], N)
                        /\ \A r \in Slot : \A x :
                             On(N, r, x) <=>
                               (On(L, r, x) /\ r # s) \/ (\E j \in 1..i : x = q[j] /\ r = Target(x, now))
           Apart(i) == \A x \in Timer : ~InList(L, x) =>
                         h[i].next[x] = l.next[x] /\ h[i].pprev[x] = l.pprev[x]
           Good(i) == (\E N : Now(N, i)) /\ Apart(i)
<1>7. Good(0)
  <2>1. h[0] = a
    <3> HIDE DEF a
    <3> QED
      BY <1>1, <1>6
  <2>2. PICK N : /\ Chained(a, N)
                 /\ \A r \in Slot : \A x : On(N, r, x) <=> On(L, r, x) /\ r # s
    BY ClearKeeps
  <2>3. Now(N, 0)
    <3> HIDE DEF a
    <3> QED
      BY <2>1, <2>2
  <2>4. Apart(0)
    BY <2>1 DEF Chained, Links
  <2> QED
    BY <2>3, <2>4
<1>8. ASSUME NEW i \in 1..n, Good(i - 1) PROVE Good(i)
  <2>1. i - 1 \in 0..n /\ i \in 0..n /\ i # 0
    BY <1>1
  <2>2. PICK N : Now(N, i - 1)
    BY <1>8
  <2> DEFINE t == q[i]
             g == Target(t, now)
  <2>3. t \in Timer /\ On(L, s, t) /\ g \in Slot
    BY <1>1, <1>4
  <2>4. h[i] = Inserted(h[i - 1], g, t)
    <3>1. h[i] = Added(h[i - 1], q[i], expires[q[i]], now) /\ h[i - 1] \in Links
      <4> HIDE DEF n, a
      <4> QED
        BY <1>6, <2>1
    <3> QED
      BY <1>5, <3>1
  <2>5. ~InList(N, t)
    <3> SUFFICES ASSUME NEW r \in Slot, On(N, r, t) PROVE FALSE
      BY DEF InList
    <3>1. CASE On(L, r, t) /\ r # s
      BY <2>3, <3>1, OneList
    <3>2. CASE \E j \in 1..(i - 1) : t = q[j] /\ r = Target(t, now)
      BY <1>1, <3>2
    <3> QED
      BY <2>2, <3>1, <3>2
  <2> HIDE DEF t, g
  <2>6. /\ \E K : /\ Chained(h[i], K)
                  /\ \A r \in Slot : \A x : On(K, r, x) <=> On(N, r, x) \/ (r = g /\ x = t)
        /\ \A x \in Timer : x # t /\ ~InList(N, x) =>
              h[i].next[x] = h[i - 1].next[x] /\ h[i].pprev[x] = h[i - 1].pprev[x]
    BY <2>2, <2>3, <2>4, <2>5, InsertKeeps
  <2>7. PICK K : /\ Chained(h[i], K)
                 /\ \A r \in Slot : \A x : On(K, r, x) <=> On(N, r, x) \/ (r = g /\ x = t)
    BY <2>6
  <2>8. Now(K, i)
    <3> SUFFICES ASSUME NEW r \in Slot, NEW x
                 PROVE  On(K, r, x) <=>
                          (On(L, r, x) /\ r # s) \/ (\E j \in 1..i : x = q[j] /\ r = Target(x, now))
      BY <2>7
    <3>1. (\E j \in 1..i : x = q[j] /\ r = Target(x, now))
          <=> (\E j \in 1..(i - 1) : x = q[j] /\ r = Target(x, now)) \/ (r = g /\ x = t)
      <4>1. \A j : j \in 1..i <=> j \in 1..(i - 1) \/ j = i
        BY <1>1
      <4> QED
        BY <4>1 DEF t, g
    <3>2. On(N, r, x) <=>
        (On(L, r, x) /\ r # s) \/ (\E j \in 1..(i - 1) : x = q[j] /\ r = Target(x, now))
      BY <2>2
    <3> QED
      BY <2>7, <3>1, <3>2
  <2>9. Apart(i)
    <3> SUFFICES ASSUME NEW x \in Timer, ~InList(L, x)
                 PROVE  h[i].next[x] = l.next[x] /\ h[i].pprev[x] = l.pprev[x]
      OBVIOUS
    <3>1. x # t /\ \A j \in 1..n : x # q[j]
      BY <1>1, <2>3 DEF InList
    <3>2. ~InList(N, x)
      <4>1. \A j \in 1..(i - 1) : j \in 1..n
        BY <1>1
      <4> QED
        BY <2>2, <3>1, <4>1 DEF InList
    <3>3. h[i - 1].next[x] = l.next[x] /\ h[i - 1].pprev[x] = l.pprev[x]
      BY <1>8
    <3> QED
      BY <2>6, <3>1, <3>2, <3>3
  <2> QED
    BY <2>8, <2>9
<1>9. Good(n)
  <2> DEFINE Bad == {i \in 0..n : ~Good(i)}
  <2> HIDE DEF Good
  <2>1. Bad = {}
    <3> SUFFICES ASSUME Bad # {} PROVE FALSE
      OBVIOUS
    <3>1. Bad \in SUBSET Nat
      BY <1>1
    <3>2. PICK i \in Bad : \A j \in Bad : i <= j
      <4> HIDE DEF Bad
      <4> QED
        BY <3>1, Least
    <3>3. i \in 0..n /\ ~Good(i) /\ i # 0
      BY <1>7
    <3>4. i \in 1..n /\ i - 1 \in 0..n /\ ~(i <= i - 1)
      BY <1>1, <3>3
    <3>5. i - 1 \notin Bad
      <4> HIDE DEF Bad
      <4> QED
        BY <3>2, <3>4
    <3> QED
      BY <1>8, <3>3, <3>4, <3>5
  <2>2. n \in 0..n
    BY <1>1
  <2> QED
    BY <2>1, <2>2
<1>10. Cascaded(l, s, now) = h[n]
  BY <1>2 DEF Cascaded, h
<1>11. PICK N : Now(N, n)
  BY <1>9
<1>12. \A x : On(L, s, x) <=> \E j \in 1..n : x = q[j]
  BY <1>1 DEF On
<1>13. \A r \in Slot : \A x : On(N, r, x) <=>
                       (On(L, r, x) /\ r # s) \/ (On(L, s, x) /\ r = Target(x, now))
  <2> SUFFICES ASSUME NEW r \in Slot, NEW x
               PROVE  On(N, r, x) <=>
                          (On(L, r, x) /\ r # s) \/ (On(L, s, x) /\ r = Target(x, now))
    OBVIOUS
  <2>1. On(N, r, x) <=>
        (On(L, r, x) /\ r # s) \/ (\E j \in 1..n : x = q[j] /\ r = Target(x, now))
    BY <1>11
  <2> QED
    BY <1>12, <2>1
<1> QED
  BY <1>9, <1>10, <1>11, <1>13

-----------------------------------------------------------------------------
(* The invariant. *)

(* The timers that lists hold. *)
Held(M) == {t \in Timer : InList(M, t)}

(* The lists are M: each timer in one is alive, has not fired, and waits    *)
(* where its time of expiry belongs; one in none, unless it has fired,      *)
(* leads nowhere.                                                           *)
Sound(M) ==
  /\ Chained(links, M)
  /\ \A s \in Slot : \A t : On(M, s, t) =>
       /\ t \in alive /\ ~flag[t]
       /\ current_tick < expires[t] /\ Timely(s, expires[t], current_tick)
  /\ \A t \in alive : ~flag[t] /\ t \notin Held(M) =>
       links.next[t] = NULL /\ links.pprev[t] = NULL

(* What every step starts from: a whole wheel, in terms of its lists. *)
Ready == TypeOK /\ Sound(Lists)

(* What the operators of the wheel see of its lists. *)
LEMMA MembersAre ==
  ASSUME NEW l, NEW M, Chained(l, M)
  PROVE  /\ [s \in Slot |-> Listed(l, s)] = M
         /\ \A s \in Slot : \A t : t \in ToSet(Listed(l, s)) <=> On(M, s, t)
         /\ \A s \in Slot : \A t : On(M, s, t) => t \in Timer
<1>1. \A s \in Slot : Listed(l, s) = M[s]
  BY ListIs
<1>2. M \in [Slot -> Seq(Timer)]
  BY DEF Chained
<1>3. [s \in Slot |-> Listed(l, s)] = M
  BY <1>1, <1>2
<1>4. ASSUME NEW s \in Slot, NEW t
      PROVE  t \in ToSet(Listed(l, s)) <=> On(M, s, t)
  BY <1>1 DEF ToSet, On
<1>5. ASSUME NEW s \in Slot, NEW t, On(M, s, t) PROVE t \in Timer
  BY <1>2, <1>5 DEF On
<1> QED
  BY <1>3, <1>4, <1>5

(* Between two rounds of a tick: the levels up to lv are where they belong  *)
(* at tick c + 1, those above where they belonged at c, and the wheel holds *)
(* the timers it held before the tick.                                      *)
Mid(k, M, lv, c) ==
  /\ Chained(k, M)
  /\ \A s \in Slot : \A t : On(M, s, t) =>
       c + 1 <= expires[t] /\ Timely(s, expires[t], IF s[1] <= lv THEN c + 1 ELSE c)
  /\ Held(M) = Held(Lists)
  /\ \A x \in Timer : x \notin Held(Lists) =>
       k.next[x] = links.next[x] /\ k.pprev[x] = links.pprev[x]

(* A round gets one more level right. *)
LEMMA RoundKeeps ==
  ASSUME NEW c \in Nat, NEW lv \in 2..5, NEW k, NEW M, Mid(k, M, lv - 1, c),
         expires \in [Timer -> Nat]
  PROVE  \E K : Mid(Round(k, lv, c + 1), K, lv, c)
<1>1. /\ Chained(k, M)
      /\ \A r \in Slot : r[1] \in Nat
      /\ \A r \in Slot : \A t : On(M, r, t) => t \in Timer /\ expires[t] \in Nat
      /\ \A r \in Slot : \A t : On(M, r, t) =>
           c + 1 <= expires[t] /\ Timely(r, expires[t], IF r[1] <= lv - 1 THEN c + 1 ELSE c)
  <2>1. \A r \in Slot : \A t : On(M, r, t) => t \in Timer
    BY MembersAre DEF Mid
  <2>2. \A r \in Slot : r[1] \in Nat
    BY DEF Slot
  <2> QED
    BY <2>1, <2>2 DEF Mid
<1> DEFINE s == Place(lv, c + 1)
<1>2. s \in Slot /\ s[1] = lv
  BY PlaceIs
<1>3. ASSUME NEW r \in Slot, NEW t, On(M, r, t), ComesRound(lv, c + 1) => r # s
      PROVE  Timely(r, expires[t], IF r[1] <= lv THEN c + 1 ELSE c)
  <2>1. CASE r[1] = lv
    <3>1. Timely(r, expires[t], c) /\ c < expires[t] /\ expires[t] \in Nat
      BY <1>1, <1>3, <2>1
    <3>2. r[1] # 1 => ~(ComesRound(r[1], c + 1) /\ r = Place(r[1], c + 1))
      BY <1>3, <2>1
    <3> HIDE DEF s
    <3>3. Timely(r, expires[t], c + 1)
      BY <3>1, <3>2, StaysTimely
    <3> QED
      BY <2>1, <3>3
  <2>2. CASE r[1] # lv
    <3>1. r[1] <= lv - 1 <=> r[1] <= lv
      BY <1>1, <2>2
    <3> QED
      BY <1>1, <1>3, <3>1
  <2> QED
    BY <2>1, <2>2
<1>4. CASE ~ComesRound(lv, c + 1)
  <2>1. Round(k, lv, c + 1) = k
    BY <1>4 DEF Round
  <2>2. Mid(k, M, lv, c)
    BY <1>1, <1>3, <1>4 DEF Mid
  <2> QED
    BY <2>1, <2>2
<1>5. CASE ComesRound(lv, c + 1)
  <2> DEFINE kk == Cascaded(k, s, c + 1)
  <2>1. Round(k, lv, c + 1) = kk
    BY <1>5 DEF Round
  <2>2. PICK K : /\ Chained(kk, K)
                 /\ \A r \in Slot : \A x : On(K, r, x) <=>
                      (On(M, r, x) /\ r # s) \/ (On(M, s, x) /\ r = Target(x, c + 1))
                 /\ \A x \in Timer : ~InList(M, x) => kk.next[x] = k.next[x] /\ kk.pprev[x] = k.pprev[x]
    <3>1. \A t \in Timer : On(M, s, t) => c + 1 <= expires[t]
      BY <1>1, <1>2
    <3>2. c + 1 \in Nat
      OBVIOUS
    <3> HIDE DEF s
    <3> QED
      BY <1>1, <1>2, <3>1, <3>2, CascadeKeeps
  <2> HIDE DEF kk, s
  <2>3. ASSUME NEW x, On(M, s, x)
        PROVE  /\ Target(x, c + 1) \in Slot
               /\ Timely(Target(x, c + 1), expires[x], c + 1)
    <3>1. c + 1 \in Nat /\ expires[x] \in Nat /\ c + 1 <= expires[x]
      BY <1>1, <1>2, <2>3
    <3> QED
      BY <3>1, AddIsTimely DEF Target
  <2>4. ASSUME NEW r \in Slot, NEW t, On(K, r, t)
        PROVE  c + 1 <= expires[t] /\ Timely(r, expires[t], IF r[1] <= lv THEN c + 1 ELSE c)
    <3>1. CASE On(M, r, t) /\ r # s
      BY <1>1, <1>3, <3>1
    <3>2. CASE On(M, s, t) /\ r = Target(t, c + 1)
      <4>1. Timely(r, expires[t], c + 1) /\ c + 1 <= expires[t] /\ expires[t] \in Nat
        BY <1>1, <1>2, <2>3, <3>2
      <4>2. CASE r[1] <= lv
        BY <4>1, <4>2
      <4>3. CASE ~(r[1] <= lv)
        <5>1. r[1] # 1
          BY <4>3
        <5>2. Timely(r, expires[t], c)
          BY <4>1, <5>1, WasTimely
        <5> QED
          BY <4>1, <4>3, <5>2
      <4> QED
        BY <4>2, <4>3
    <3> QED
      BY <2>2, <2>4, <3>1, <3>2
  <2>5. Held(K) = Held(M)
    <3>1. ASSUME NEW x, InList(K, x) PROVE InList(M, x)
      BY <1>2, <2>2, <3>1 DEF InList
    <3>2. ASSUME NEW x, InList(M, x) PROVE InList(K, x)
      <4>1. PICK r \in Slot : On(M, r, x)
        BY <3>2 DEF InList
      <4>2. CASE r = s
        BY <2>2, <2>3, <4>1, <4>2 DEF InList
      <4>3. CASE r # s
        BY <2>2, <4>1, <4>3 DEF InList
      <4> QED
        BY <4>2, <4>3
    <3> QED
      BY <3>1, <3>2 DEF Held
  <2>6. ASSUME NEW x \in Timer, x \notin Held(Lists)
        PROVE  kk.next[x] = links.next[x] /\ kk.pprev[x] = links.pprev[x]
    <3>1. ~InList(M, x)
      BY <2>6 DEF Mid, Held
    <3> QED
      BY <2>2, <2>6, <3>1 DEF Mid
  <2>7. Mid(kk, K, lv, c)
    <3>1. Held(K) = Held(Lists)
      BY <2>5 DEF Mid
    <3> QED
      BY <2>2, <2>4, <2>6, <3>1 DEF Mid
  <2> QED
    BY <2>1, <2>7
<1> QED
  BY <1>4, <1>5

-----------------------------------------------------------------------------
(* Steps. *)

(* What the invariant says of a timer that a list holds. *)
LEMMA Waiting ==
  ASSUME Ready, NEW t, t \in Held(Lists)
  PROVE  \E s \in Slot : On(Lists, s, t) /\ t \in Timer /\ t \in alive /\ ~flag[t]
                         /\ current_tick < expires[t] /\ Timely(s, expires[t], current_tick)
  BY DEF Ready, Sound, Held, InList

(* A tick runs the timers that are due and leaves the others.  *)
LEMMA TickSound ==
  ASSUME Ready, Tick
  PROVE  /\ fired' = {t \in Held(Lists) : expires[t] = current_tick + 1}
         /\ \E N : Sound(N)' /\ Held(N) = {t \in Held(Lists) : expires[t] # current_tick + 1}
<1> DEFINE c == current_tick
           k2 == Round(links, 2, c + 1)
           k3 == Round(k2, 3, c + 1)
           k4 == Round(k3, 4, c + 1)
           k5 == Round(k4, 5, c + 1)
           s == Place(1, c + 1)
<1>1. /\ c \in Nat /\ c + 1 \in Nat /\ expires \in [Timer -> Nat] /\ flag \in [Timer -> BOOLEAN]
      /\ alive \subseteq Timer /\ Chained(links, Lists)
  BY TickPositive DEF Ready, TypeOK, Sound
<1>2. /\ c' = c + 1 /\ fired' = ToSet(Listed(k5, s)) /\ links' = [k5 EXCEPT !.first[s] = NULL]
      /\ flag' = [t \in Timer |-> flag[t] \/ t \in fired'] /\ expires' = expires /\ alive' = alive
  BY DEF Tick
<1>3. s \in Slot
  BY <1>1, PlaceIs
<1>4. Mid(links, Lists, 1, c)
  <2>1. ASSUME NEW r \in Slot, NEW t, On(Lists, r, t)
        PROVE  c + 1 <= expires[t] /\ Timely(r, expires[t], IF r[1] <= 1 THEN c + 1 ELSE c)
    <3>1. t \in Timer /\ c < expires[t] /\ Timely(r, expires[t], c)
      BY <1>1, <2>1, MembersAre DEF Ready, Sound
    <3>2. expires[t] \in Nat
      BY <1>1, <3>1
    <3>3. r[1] \in 1..5
      BY DEF Slot
    <3>4. CASE r[1] = 1
      <4>1. Timely(r, expires[t], c + 1)
        BY <1>1, <3>1, <3>2, <3>4, StaysTimely
      <4> QED
        BY <1>1, <3>1, <3>2, <3>4, <4>1
    <3>5. CASE r[1] # 1
      BY <1>1, <3>1, <3>2, <3>3, <3>5
    <3> QED
      BY <3>4, <3>5
  <2> QED
    BY <1>1, <2>1 DEF Mid
<1> HIDE DEF c, s
<1>5. PICK K2 : Mid(k2, K2, 2, c)
  <2>1. 2 \in 2..5 /\ 2 - 1 = 1
    OBVIOUS
  <2> QED
    BY <1>1, <1>4, <2>1, RoundKeeps
<1> HIDE DEF k2
<1>6. PICK K3 : Mid(k3, K3, 3, c)
  <2>1. 3 \in 2..5 /\ 3 - 1 = 2
    OBVIOUS
  <2> QED
    BY <1>1, <1>5, <2>1, RoundKeeps
<1> HIDE DEF k3
<1>7. PICK K4 : Mid(k4, K4, 4, c)
  <2>1. 4 \in 2..5 /\ 4 - 1 = 3
    OBVIOUS
  <2> QED
    BY <1>1, <1>6, <2>1, RoundKeeps
<1> HIDE DEF k4
<1>8. PICK K : Mid(k5, K, 5, c)
  <2>1. 5 \in 2..5 /\ 5 - 1 = 4
    OBVIOUS
  <2> QED
    BY <1>1, <1>7, <2>1, RoundKeeps
<1> HIDE DEF k5
<1>9. Chained(k5, K) /\ Held(K) = Held(Lists)
  BY <1>8 DEF Mid
<1>10. ASSUME NEW r \in Slot, NEW t, On(K, r, t)
       PROVE  /\ t \in Timer /\ c + 1 <= expires[t] /\ Timely(r, expires[t], c + 1)
              /\ expires[t] = c + 1 <=> r = s
              /\ t \in Held(Lists) /\ t \in alive /\ ~flag[t]
  <2>1. t \in Timer
    BY <1>9, <1>10, MembersAre
  <2>2. r[1] <= 5 /\ r[1] \in 1..5
    BY DEF Slot
  <2>3. c + 1 <= expires[t] /\ Timely(r, expires[t], c + 1)
    BY <1>8, <1>10, <2>2 DEF Mid
  <2>4. expires[t] = c + 1 <=> r = Place(1, c + 1)
    <3>1. expires[t] \in Nat
      BY <1>1, <2>1
    <3> QED
      BY <1>1, <2>3, <3>1, DueIsAtHand
  <2>5. t \in Held(Lists)
    BY <1>9, <1>10, <2>1 DEF Held, InList
  <2> QED
    BY <2>1, <2>3, <2>4, <2>5, Waiting DEF s
<1>11. \A t : On(K, s, t) <=> t \in fired'
  BY <1>2, <1>3, <1>9, MembersAre
<1>12. ASSUME NEW t
       PROVE  t \in fired' <=> t \in Held(Lists) /\ expires[t] = c + 1
  <2>1. ASSUME t \in fired' PROVE t \in Held(Lists) /\ expires[t] = c + 1
    BY <1>3, <1>10, <1>11, <2>1
  <2>2. ASSUME t \in Held(Lists), expires[t] = c + 1 PROVE t \in fired'
    <3>1. PICK r \in Slot : On(K, r, t)
      BY <1>9, <2>2 DEF Held, InList
    <3> QED
      BY <1>10, <1>11, <2>2, <3>1
  <2> QED
    BY <2>1, <2>2
<1>13. PICK N : /\ Chained(links', N)
                /\ \A r \in Slot : \A x : On(N, r, x) <=> On(K, r, x) /\ r # s
  BY <1>2, <1>3, <1>9, ClearKeeps
<1>14. Held(N) = {t \in Held(Lists) : expires[t] # c + 1}
  <2>1. ASSUME NEW t \in Held(N) PROVE t \in Held(Lists) /\ expires[t] # c + 1
    <3>1. PICK r \in Slot : On(N, r, t)
      BY DEF Held, InList
    <3> QED
      BY <1>10, <1>13, <3>1
  <2>2. ASSUME NEW t \in Held(Lists), expires[t] # c + 1 PROVE t \in Held(N)
    <3>1. PICK r \in Slot : On(K, r, t)
      BY <1>9 DEF Held, InList
    <3>2. On(N, r, t) /\ t \in Timer
      BY <1>10, <1>13, <2>2, <3>1
    <3> QED
      BY <3>2 DEF Held, InList
  <2> QED
    BY <2>1, <2>2
<1>15. ASSUME NEW r \in Slot, NEW t, On(N, r, t)
       PROVE  /\ t \in alive' /\ ~flag'[t]
              /\ c' < expires'[t] /\ Timely(r, expires'[t], c')
  <2>1. On(K, r, t) /\ r # s
    BY <1>13, <1>15
  <2>2. t \in Timer /\ c + 1 <= expires[t] /\ Timely(r, expires[t], c + 1) /\ expires[t] # c + 1
        /\ t \in alive /\ ~flag[t] /\ expires[t] \in Nat
    BY <1>1, <1>10, <2>1
  <2>3. t \notin fired'
    BY <1>12, <2>2
  <2> QED
    BY <1>1, <1>2, <2>2, <2>3
<1>16. ASSUME NEW t \in alive', ~flag'[t], t \notin Held(N)
       PROVE  links'.next[t] = NULL /\ links'.pprev[t] = NULL
  <2>1. t \in Timer /\ t \in alive /\ ~flag[t] /\ t \notin fired'
    BY <1>1, <1>2, <1>16
  <2>2. t \notin Held(Lists)
    BY <1>12, <1>14, <1>16, <2>1
  <2>3. links.next[t] = NULL /\ links.pprev[t] = NULL
    BY <2>1, <2>2 DEF Ready, Sound
  <2>4. k5.next[t] = links.next[t] /\ k5.pprev[t] = links.pprev[t]
    BY <1>8, <2>1, <2>2 DEF Mid
  <2>5. k5 \in Links
    BY <1>9 DEF Chained
  <2> QED
    BY <1>2, <2>3, <2>4, <2>5 DEF Links
<1>17. Sound(N)'
  BY <1>13, <1>15, <1>16 DEF Sound, c
<1>18. fired' = {t \in Held(Lists) : expires[t] = c + 1}
  BY <1>12
<1> QED
  BY <1>14, <1>17, <1>18 DEF c

(* A timeout is at least one tick. *)
LEMMA TicksPositive ==
  ASSUME NEW m \in Millis
  PROVE  TicksOf(m) \in Nat \ {0}
<1>1. m \in Nat /\ tick_ \in Nat \ {0}
  BY TickPositive
<1>2. m \div tick_ \in Nat
  BY <1>1, Division
<1> QED
  BY <1>2 DEF TicksOf

(* A timer that leads nowhere is taken out of nowhere. *)
LEMMA NoPointers ==
  ASSUME NEW l \in Links, NEW t \in Timer, l.next[t] = NULL, l.pprev[t] = NULL
  PROVE  Unlinked(l, t) = l /\ Cancelled(l, t) = l
<1>0. NULL \notin Timer /\ NULL \notin Slot
  BY AddressesDiffer
<1>1. Stored(l, NULL, NULL) = l
  BY <1>0 DEF Stored
<1>2. /\ [x \in Timer |-> IF x = NULL THEN NULL ELSE l.pprev[x]] = l.pprev
      /\ [x \in Timer |-> IF x \in {t, NULL} THEN NULL ELSE l.pprev[x]] = l.pprev
      /\ [l.next EXCEPT ![t] = NULL] = l.next
  BY <1>0 DEF Links
<1>3. [l EXCEPT !.pprev = l.pprev] = l /\ [l EXCEPT !.next = l.next, !.pprev = l.pprev] = l
  BY DEF Links
<1>4. Unlinked(l, t) = l
  BY <1>1, <1>2, <1>3 DEF Unlinked
<1>5. Cancelled(l, t) = IF flag[t] THEN l
                        ELSE [l EXCEPT !.next = [l.next EXCEPT ![t] = NULL],
                                       !.pprev = [x \in Timer |-> IF x \in {t, NULL} THEN NULL
                                                                  ELSE l.pprev[x]]]
  BY <1>1 DEF Cancelled
<1> QED
  BY <1>2, <1>3, <1>4, <1>5

(* A timer under construction is in no list. *)
LEMMA CreateSound ==
  ASSUME Ready, NEW t \in Timer, Create(t)
  PROVE  \E N : Sound(N)' /\ Held(N) = Held(Lists) \ {t}
<1>1. PICK N : N = Lists
  OBVIOUS
<1>2. Chained(links, N) /\ links \in Links
  BY <1>1 DEF Ready, Sound, Chained
<1>3. \A s \in Slot : \A x : On(N, s, x) =>
        /\ x \in Timer /\ x # t /\ x \in alive /\ ~flag[x]
        /\ current_tick < expires[x] /\ Timely(s, expires[x], current_tick)
  <2>1. \A s \in Slot : \A x : On(N, s, x) => x \in Timer
    BY <1>2, MembersAre
  <2> QED
    BY <1>1, <2>1 DEF Ready, Sound, Create
<1>4. /\ links' \in Links /\ links'.first = links.first
      /\ \A x \in Timer : x # t => links'.next[x] = links.next[x] /\ links'.pprev[x] = links.pprev[x]
      /\ links'.next[t] = NULL /\ links'.pprev[t] = NULL
  BY <1>2 DEF Create, Links
<1>5. Chained(links', N)
  <2>1. \A s \in Slot : \A i \in DOMAIN N[s] : N[s][i] \in Timer /\ N[s][i] # t
    BY <1>3 DEF On
  <2> QED
    BY <1>2, <1>4, <2>1 DEF Chained
<1>6. /\ expires \in [Timer -> Nat] /\ flag \in [Timer -> BOOLEAN] /\ alive \subseteq Timer
      /\ expires' = [expires EXCEPT ![t] = 0] /\ flag' = [flag EXCEPT ![t] = FALSE]
      /\ alive' = alive \cup {t} /\ current_tick' = current_tick
  BY DEF Ready, TypeOK, Create
<1>7. \A s \in Slot : \A x : On(N, s, x) =>
        /\ x \in alive' /\ ~flag'[x]
        /\ current_tick' < expires'[x] /\ Timely(s, expires'[x], current_tick')
  BY <1>3, <1>6
<1>8. ASSUME NEW x \in alive', ~flag'[x], x \notin Held(N)
      PROVE  links'.next[x] = NULL /\ links'.pprev[x] = NULL
  <2>1. CASE x = t
    BY <1>4, <2>1
  <2>2. CASE x # t
    <3>1. x \in Timer /\ x \in alive /\ ~flag[x] /\ x \notin Held(Lists)
      BY <1>1, <1>6, <1>8, <2>2
    <3> QED
      BY <1>4, <2>2, <3>1 DEF Ready, Sound
  <2> QED
    BY <2>1, <2>2
<1>9. Sound(N)'
  BY <1>5, <1>7, <1>8 DEF Sound
<1>10. Held(N) = Held(Lists) \ {t}
  <2>1. t \notin Held(N)
    BY <1>3 DEF Held, InList
  <2> QED
    BY <1>1, <2>1
<1> QED
  BY <1>9, <1>10

(* A timer that is no orphan has a pprev to take itself out by. *)
LEMMA HasPprev ==
  ASSUME Ready, NEW t \in Held(Lists), ~Orphan(t)
  PROVE  links.pprev[t] # NULL
<1>1. Chained(links, Lists)
  BY DEF Ready, Sound
<1>2. IsListed(t)
  BY <1>1, MembersAre DEF IsListed, Members, Held, InList
<1> QED
  BY <1>2 DEF Orphan

(* A timer that is no orphan and has not fired takes itself out of its      *)
(* list; one that has fired is in none.                                     *)
LEMMA DestroySound ==
  ASSUME Ready, NEW t \in Timer, Destroy(t), ~Orphan(t), flag[t] => links' = links
  PROVE  \E N : Sound(N)' /\ Held(N) = Held(Lists) \ {t}
<1>1. Chained(links, Lists) /\ links \in Links /\ t \in alive /\ links' = Unlinked(links, t)
  BY DEF Ready, Sound, Chained, Destroy
<1>2. PICK N : /\ Chained(links', N)
               /\ \A r \in Slot : \A x : On(N, r, x) <=> On(Lists, r, x) /\ x # t
               /\ \A x \in Timer : x \notin Held(Lists) =>
                    links'.next[x] = links.next[x] /\ links'.pprev[x] = links.pprev[x]
  <2>1. CASE t \in Held(Lists)
    <3>1. PICK s \in Slot : On(Lists, s, t)
      BY <2>1 DEF Held, InList
    <3>2. links.pprev[t] # NULL
      BY <2>1, HasPprev
    <3> QED
      BY <1>1, <3>1, <3>2, UnlinkKeeps DEF Held
  <2>2. CASE t \notin Held(Lists)
    <3>1. links' = links
      <4>1. CASE flag[t]
        BY <4>1
      <4>2. CASE ~flag[t]
        BY <1>1, <2>2, <4>2, NoPointers DEF Ready, Sound
      <4> QED
        BY <4>1, <4>2
    <3>2. \A r \in Slot : ~On(Lists, r, t)
      BY <2>2 DEF Held, InList
    <3>3. \A r \in Slot : \A x : On(Lists, r, x) <=> On(Lists, r, x) /\ x # t
      BY <3>2
    <3> QED
      BY <1>1, <3>1, <3>3
  <2> QED
    BY <2>1, <2>2
<1>3. Held(N) = Held(Lists) \ {t}
  BY <1>2 DEF Held, InList
<1>4. /\ alive \subseteq Timer /\ alive' = alive \ {t}
      /\ current_tick' = current_tick /\ expires' = expires /\ flag' = flag
  BY DEF Ready, TypeOK, Destroy
<1>5. ASSUME NEW s \in Slot, NEW x, On(N, s, x)
      PROVE  /\ x \in alive' /\ ~flag'[x]
             /\ current_tick' < expires'[x] /\ Timely(s, expires'[x], current_tick')
  BY <1>2, <1>4, <1>5 DEF Ready, Sound
<1>6. ASSUME NEW x \in alive', ~flag'[x], x \notin Held(N)
      PROVE  links'.next[x] = NULL /\ links'.pprev[x] = NULL
  BY <1>2, <1>3, <1>4, <1>6 DEF Ready, Sound
<1>7. Sound(N)'
  BY <1>2, <1>5, <1>6 DEF Sound
<1> QED
  BY <1>3, <1>7

(* timer_cancel of any timer but an orphan. *)
LEMMA CancelledIs ==
  ASSUME Ready, NEW t \in Timer, t \in alive, ~Orphan(t)
  PROVE  \E N : /\ Chained(Cancelled(links, t), N)
                /\ \A r \in Slot : \A x : On(N, r, x) <=> On(Lists, r, x) /\ x # t
                /\ \A x \in Timer : x \notin Held(Lists) =>
                     /\ Cancelled(links, t).next[x] = links.next[x]
                     /\ Cancelled(links, t).pprev[x] = links.pprev[x]
                /\ ~flag[t] => /\ Cancelled(links, t).next[t] = NULL
                               /\ Cancelled(links, t).pprev[t] = NULL
<1>1. Chained(links, Lists) /\ links \in Links
  BY DEF Ready, Sound, Chained
<1>2. CASE t \in Held(Lists)
  <2>1. PICK s \in Slot : On(Lists, s, t) /\ ~flag[t]
    BY <1>2, Waiting
  <2>2. links.pprev[t] # NULL
    BY <1>2, HasPprev
  <2> QED
    BY <1>1, <2>1, <2>2, CancelKeeps DEF Held
<1>3. CASE t \notin Held(Lists)
  <2>1. Cancelled(links, t) = links
    <3>1. CASE flag[t]
      BY <3>1 DEF Cancelled
    <3>2. CASE ~flag[t]
      BY <1>1, <1>3, <3>2, NoPointers DEF Ready, Sound
    <3> QED
      BY <3>1, <3>2
  <2>2. ~flag[t] => links.next[t] = NULL /\ links.pprev[t] = NULL
    BY <1>3 DEF Ready, Sound
  <2>3. \A r \in Slot : ~On(Lists, r, t)
    BY <1>3 DEF Held, InList
  <2>4. \A r \in Slot : \A x : On(Lists, r, x) <=> On(Lists, r, x) /\ x # t
    BY <2>3
  <2> QED
    BY <1>1, <2>1, <2>2, <2>4
<1> QED
  BY <1>2, <1>3

(* Cancelling a timer takes it out of its list. *)
LEMMA CancelSound ==
  ASSUME Ready, NEW t \in Timer, TimerCancel(t), ~Orphan(t)
  PROVE  \E N : Sound(N)' /\ Held(N) = Held(Lists) \ {t}
<1>1. t \in alive /\ links' = Cancelled(links, t)
  BY DEF TimerCancel
<1>2. PICK N : /\ Chained(links', N)
               /\ \A r \in Slot : \A x : On(N, r, x) <=> On(Lists, r, x) /\ x # t
               /\ \A x \in Timer : x \notin Held(Lists) =>
                    links'.next[x] = links.next[x] /\ links'.pprev[x] = links.pprev[x]
               /\ ~flag[t] => links'.next[t] = NULL /\ links'.pprev[t] = NULL
  BY <1>1, CancelledIs
<1>3. Held(N) = Held(Lists) \ {t}
  BY <1>2 DEF Held, InList
<1>4. /\ alive \subseteq Timer /\ alive' = alive
      /\ current_tick' = current_tick /\ expires' = expires /\ flag' = flag
  BY DEF Ready, TypeOK, TimerCancel
<1>5. ASSUME NEW s \in Slot, NEW x, On(N, s, x)
      PROVE  /\ x \in alive' /\ ~flag'[x]
             /\ current_tick' < expires'[x] /\ Timely(s, expires'[x], current_tick')
  BY <1>2, <1>4, <1>5 DEF Ready, Sound
<1>6. ASSUME NEW x \in alive', ~flag'[x], x \notin Held(N)
      PROVE  links'.next[x] = NULL /\ links'.pprev[x] = NULL
  BY <1>2, <1>3, <1>4, <1>6 DEF Ready, Sound
<1>7. Sound(N)'
  BY <1>2, <1>5, <1>6 DEF Sound
<1> QED
  BY <1>3, <1>7

(* A timer that is added is in one list, where its time belongs. *)
LEMMA AddSound ==
  ASSUME Ready, NEW t \in Timer, NEW m \in Millis, AddTimer(t, m), ~Orphan(t)
  PROVE  \E N : Sound(N)' /\ Held(N) = Held(Lists) \cup {t}
<1> DEFINE c == current_tick
           e == c + TicksOf(m)
           k == Cancelled(links, t)
           s == Place(Level(e - c), e)
<1>1. /\ c \in Nat /\ e \in Nat /\ c < e /\ c <= e
      /\ expires \in [Timer -> Nat] /\ flag \in [Timer -> BOOLEAN] /\ alive \subseteq Timer
  BY TickPositive, TicksPositive DEF Ready, TypeOK
<1>2. /\ t \in alive /\ alive' = alive /\ c' = c
      /\ links' = Inserted(k, s, t)
      /\ expires' = [expires EXCEPT ![t] = e] /\ flag' = [flag EXCEPT ![t] = FALSE]
  BY DEF AddTimer, Added
<1>3. PICK M : /\ Chained(k, M)
               /\ \A r \in Slot : \A x : On(M, r, x) <=> On(Lists, r, x) /\ x # t
               /\ \A x \in Timer : x \notin Held(Lists) =>
                    k.next[x] = links.next[x] /\ k.pprev[x] = links.pprev[x]
  BY <1>2, CancelledIs
<1> HIDE DEF c, e, k
<1>4. s \in Slot /\ Timely(s, e, c)
  BY <1>1, AddIsTimely
<1> HIDE DEF s
<1>5. ~InList(M, t)
  BY <1>3 DEF InList
<1>6. /\ \E N : /\ Chained(links', N)
                /\ \A r \in Slot : \A x : On(N, r, x) <=> On(M, r, x) \/ (r = s /\ x = t)
      /\ \A x \in Timer : x # t /\ ~InList(M, x) =>
           links'.next[x] = k.next[x] /\ links'.pprev[x] = k.pprev[x]
  BY <1>2, <1>3, <1>4, <1>5, InsertKeeps
<1>7. PICK N : /\ Chained(links', N)
               /\ \A r \in Slot : \A x : On(N, r, x) <=> On(M, r, x) \/ (r = s /\ x = t)
  BY <1>6
<1>8. Held(N) = Held(Lists) \cup {t}
  BY <1>3, <1>4, <1>7 DEF Held, InList
<1>9. ASSUME NEW r \in Slot, NEW x, On(N, r, x)
      PROVE  /\ x \in alive' /\ ~flag'[x]
             /\ c' < expires'[x] /\ Timely(r, expires'[x], c')
  <2>1. CASE On(Lists, r, x) /\ x # t
    <3>1. x \in Timer /\ x \in alive /\ ~flag[x] /\ c < expires[x] /\ Timely(r, expires[x], c)
      BY <1>1, <2>1 DEF Ready, Sound, c
    <3> QED
      BY <1>1, <1>2, <2>1, <3>1
  <2>2. CASE r = s /\ x = t
    BY <1>1, <1>2, <1>4, <2>2
  <2> QED
    BY <1>3, <1>7, <1>9, <2>1, <2>2
<1>10. ASSUME NEW x \in alive', ~flag'[x], x \notin Held(N)
       PROVE  links'.next[x] = NULL /\ links'.pprev[x] = NULL
  <2>1. x # t /\ x \in Timer /\ x \in alive /\ ~flag[x] /\ x \notin Held(Lists)
    BY <1>1, <1>2, <1>8, <1>10
  <2>2. links.next[x] = NULL /\ links.pprev[x] = NULL
    BY <2>1 DEF Ready, Sound
  <2>3. ~InList(M, x)
    BY <1>3, <2>1 DEF Held, InList
  <2> QED
    BY <1>3, <1>6, <2>1, <2>2, <2>3
<1>11. Sound(N)'
  BY <1>7, <1>9, <1>10 DEF Sound, c
<1> QED
  BY <1>8, <1>11

-----------------------------------------------------------------------------
(* The whole wheel and its operations. *)

(* IsListed says that one of the lists holds the timer. *)
LEMMA ListedAre ==
  ASSUME NEW l, NEW M, Chained(l, M)
  PROVE  \A t : (\E s \in Slot : t \in ToSet(Listed(l, s))) <=> t \in Held(M)
  BY MembersAre DEF Held, InList

(* Whole, in terms of the lists. *)
LEMMA WholeIs == Whole <=> Sound(Lists)
<1>1. CASE ~Chained(links, Lists)
  BY <1>1 DEF Whole, Sound
<1>2. CASE Chained(links, Lists)
  <2>1. \A s \in Slot : \A t : t \in Members(s) <=> On(Lists, s, t)
    BY <1>2, MembersAre DEF Members
  <2>2. \A t : IsListed(t) <=> t \in Held(Lists)
    BY <1>2, ListedAre DEF IsListed, Members
  <2> QED
    BY <1>2, <2>1, <2>2 DEF Whole, Sound
<1> QED
  BY <1>1, <1>2

(* A step to sound lists is a step to a whole wheel. *)
LEMMA BecomesWhole ==
  ASSUME NEW N, Sound(N)'
  PROVE  Whole' /\ \A t : IsListed(t)' <=> t \in Held(N)
<1>1. Chained(links', N)
  BY DEF Sound
<1>2. Lists' = N
  BY <1>1, MembersAre DEF Lists
<1>3. \A t : IsListed(t)' <=> t \in Held(N)
  BY <1>1, ListedAre DEF IsListed, Members
<1>4. Sound(Lists)'
  BY <1>2
<1>5. Whole'
  BY <1>4, WholeIs, PTL
<1> QED
  BY <1>3, <1>5

LEMMA ListedIsHeld ==
  ASSUME Ready
  PROVE  \A t : IsListed(t) <=> t \in Held(Lists)
  BY ListedAre DEF Ready, Sound, IsListed, Members

(* The wheel is whole at first, with empty lists. *)
LEMMA InitWhole ==
  ASSUME Init
  PROVE  Whole /\ \A t \in Timer : ~IsListed(t)
<1> DEFINE M == [s \in Slot |-> <<>>]
<1>1. M \in [Slot -> Seq(Timer)] /\ \A s \in Slot : M[s] = <<>> /\ DOMAIN M[s] = {}
  OBVIOUS
<1> HIDE DEF M
<1>2. links \in Links /\ \A s \in Slot : links.first[s] = NULL
  BY DEF Init, Links
<1>3. \A s \in Slot : At(M[s], 1) = NULL
  BY <1>1 DEF At
<1>4. Chained(links, M)
  BY <1>1, <1>2, <1>3 DEF Chained
<1>5. \A s \in Slot : \A t : ~On(M, s, t)
  BY <1>1 DEF On
<1>6. Lists = M
  BY <1>4, MembersAre DEF Lists
<1>7. Sound(M)
  BY <1>4, <1>5 DEF Sound, Init
<1>8. \A t : ~IsListed(t)
  BY <1>4, <1>5, ListedAre DEF IsListed, Members, Held, InList
<1> QED
  BY <1>6, <1>7, <1>8, WholeIs

(* What a tick does to the timers that are set. *)
LEMMA TickKeeps ==
  ASSUME Ready, Tick
  PROVE  /\ Whole'
         /\ fired' = {t \in Held(Lists) : expires[t] = current_tick + 1}
         /\ \A t : IsListed(t)' <=> t \in Held(Lists) /\ expires[t] # current_tick + 1
<1>1. PICK N : Sound(N)' /\ Held(N) = {t \in Held(Lists) : expires[t] # current_tick + 1}
  BY TickSound
<1>2. Whole' /\ \A t : IsListed(t)' <=> t \in Held(N)
  BY <1>1, BecomesWhole
<1> QED
  BY <1>1, <1>2, TickSound

(* What creating, destroying and cancelling a timer do, unless it is a slip. *)
Unsets(t) == Create(t) \/ Destroy(t) \/ TimerCancel(t)

LEMMA UnsetKeeps ==
  ASSUME Ready, NEW t \in Timer, Unsets(t), ~Slip
  PROVE  /\ Whole'
         /\ \A x : IsListed(x)' <=> x \in Held(Lists) /\ x # t
         /\ \A x \in Timer : x # t => expires'[x] = expires[x]
<1>1. \E N : Sound(N)' /\ Held(N) = Held(Lists) \ {t}
  <2>1. CASE Create(t)
    BY <2>1, CreateSound
  <2>2. CASE Destroy(t)
    <3>1. ~Orphan(t) /\ (flag[t] => links' = links)
      BY <2>2 DEF Slip
    <3> QED
      BY <2>2, <3>1, DestroySound
  <2>3. CASE TimerCancel(t)
    <3>1. ~Orphan(t)
      BY <2>3 DEF Slip
    <3> QED
      BY <2>3, <3>1, CancelSound
  <2> QED
    BY <2>1, <2>2, <2>3 DEF Unsets
<1>2. PICK N : Sound(N)' /\ Held(N) = Held(Lists) \ {t}
  BY <1>1
<1>3. Whole' /\ \A x : IsListed(x)' <=> x \in Held(N)
  BY <1>2, BecomesWhole
<1>4. \A x \in Timer : x # t => expires'[x] = expires[x]
  <2>1. expires \in [Timer -> Nat]
    BY DEF Ready, TypeOK
  <2> QED
    BY <2>1 DEF Unsets, Create, Destroy, TimerCancel
<1> QED
  BY <1>2, <1>3, <1>4

(* What adding a timer does, unless it is a slip. *)
LEMMA AddKeeps ==
  ASSUME Ready, NEW t \in Timer, NEW m \in Millis, AddTimer(t, m), ~Slip
  PROVE  /\ Whole'
         /\ \A x : IsListed(x)' <=> x \in Held(Lists) \/ x = t
         /\ expires' = [expires EXCEPT ![t] = current_tick + TicksOf(m)]
<1>1. ~Orphan(t)
  BY DEF Slip
<1>2. PICK N : Sound(N)' /\ Held(N) = Held(Lists) \cup {t}
  BY <1>1, AddSound
<1>3. Whole' /\ \A x : IsListed(x)' <=> x \in Held(N)
  BY <1>2, BecomesWhole
<1> QED
  BY <1>2, <1>3 DEF AddTimer

LEMMA StepCases ==
  ASSUME Next
  PROVE  Tick \/ \E t \in Timer : Unsets(t) \/ \E m \in Millis : AddTimer(t, m)
  BY DEF Next, Unsets

-----------------------------------------------------------------------------
(* Types, of every state: the lists may be broken. *)

(* Following next gives timers, then NULL. *)
LEMMA WalkTyped ==
  ASSUME NEW l \in Links, NEW t \in Timer \cup {NULL}
  PROVE  /\ Walk(l, t) \in [0..Cardinality(Timer) -> Timer \cup {NULL}]
         /\ \A k \in 0..Cardinality(Timer) :
              Walk(l, t)[k] = IF k = 0 THEN t
                              ELSE IF Walk(l, t)[k - 1] = NULL THEN NULL
                              ELSE l.next[Walk(l, t)[k - 1]]
<1> DEFINE C == Cardinality(Timer)
           S == Timer \cup {NULL}
           E(w) == w = [k \in 0..C |-> IF k = 0 THEN t
                                       ELSE IF w[k - 1] = NULL THEN NULL ELSE l.next[w[k - 1]]]
           G == [i \in 1..C |-> [x \in S |-> IF x = NULL THEN NULL ELSE l.next[x]]]
<1>0. C \in Nat
  BY AddressesDiffer, FS_CardinalityType
<1>1. \A i \in 1..C : \A x \in S : G[i][x] \in S /\ G[i][x] = IF x = NULL THEN NULL ELSE l.next[x]
  BY DEF Links
<1>2. PICK h : h \in Steps(S, C, t, G)
  <2> HIDE DEF C, S, G
  <2>1. t \in S
    BY DEF S
  <2> QED
    BY <1>0, <1>1, <2>1, StepsExist
<1>3. /\ h \in [0..C -> S] /\ h[0] = t
      /\ \A i \in 1..C : h[i] = G[i][h[i - 1]]
  BY <1>2 DEF Steps
<1>4. ASSUME NEW k \in 0..C
      PROVE  h[k] = IF k = 0 THEN t ELSE IF h[k - 1] = NULL THEN NULL ELSE l.next[h[k - 1]]
  <2>1. CASE k = 0
    BY <1>3, <2>1
  <2>2. CASE k # 0
    <3>1. k \in 1..C /\ k - 1 \in 0..C
      BY <1>0, <2>2
    <3>2. h[k - 1] \in S
      BY <1>3, <3>1
    <3> HIDE DEF C, S, G
    <3> QED
      BY <1>1, <1>3, <2>2, <3>1, <3>2
  <2> QED
    BY <2>1, <2>2
<1>5. E(h)
  <2>1. h = [k \in 0..C |-> h[k]]
    BY <1>3
  <2> HIDE DEF C, S, G
  <2> QED
    BY <1>4, <2>1
<1> DEFINE u == Walk(l, t)
<1>6. u = CHOOSE w : E(w)
  BY DEF Walk
<1>7. E(u)
  <2> HIDE DEF E, u
  <2> QED
    BY <1>5, <1>6, Zenon
<1> HIDE DEF u
<1>8. \A k \in 0..C : u[k] = IF k = 0 THEN t ELSE IF u[k - 1] = NULL THEN NULL ELSE l.next[u[k - 1]]
  <2> HIDE DEF C
  <2> QED
    BY <1>7
<1> DEFINE Bad == {k \in 0..C : u[k] \notin S}
<1>9. Bad = {}
  <2> SUFFICES ASSUME Bad # {} PROVE FALSE
    OBVIOUS
  <2>1. Bad \in SUBSET Nat
    BY <1>0
  <2>2. PICK k \in Bad : \A y \in Bad : k <= y
    <3> HIDE DEF Bad
    <3> QED
      BY <2>1, Least
  <2>3. k \in 0..C /\ u[k] \notin S
    OBVIOUS
  <2>4. k # 0
    BY <1>8, <2>3
  <2>5. k - 1 \in 0..C /\ ~(k <= k - 1)
    BY <1>0, <2>3, <2>4
  <2>6. u[k - 1] \in S
    <3> HIDE DEF S
    <3>1. k - 1 \in Bad \/ u[k - 1] \in S
      BY <2>5
    <3> HIDE DEF Bad
    <3> QED
      BY <2>2, <2>5, <3>1
  <2> QED
    BY <1>8, <2>3, <2>4, <2>6 DEF Links
<1>10. u \in [0..C -> S]
  <2>1. u = [k \in 0..C |-> u[k]]
    <3> HIDE DEF C
    <3> QED
      BY <1>7
  <2>2. \A k \in 0..C : u[k] \in S
    BY <1>9
  <2> HIDE DEF C, S
  <2> QED
    BY <2>1, <2>2
<1> QED
  BY <1>8, <1>10 DEF u

(* A list has timers only. *)
LEMMA ListTyped ==
  ASSUME NEW l \in Links, NEW s \in Slot
  PROVE  Listed(l, s) \in Seq(Timer)
<1> DEFINE C == Cardinality(Timer)
           u == Walk(l, l.first[s])
           D == {i \in 1..C : u[i - 1] # NULL}
           Out == {i \in 1..C : u[i - 1] = NULL}
<1>0. C \in Nat
  BY AddressesDiffer, FS_CardinalityType
<1>1. /\ u \in [0..C -> Timer \cup {NULL}]
      /\ \A k \in 0..C : k # 0 => u[k] = IF u[k - 1] = NULL THEN NULL ELSE l.next[u[k - 1]]
  <2>1. l.first[s] \in Timer \cup {NULL}
    BY DEF Links
  <2> QED
    BY <2>1, WalkTyped
<1> HIDE DEF u, C
<1>2. \E n \in 0..C : D = 1..n
  <2>1. CASE Out = {}
    <3>1. D = 1..C
      BY <2>1
    <3> QED
      BY <1>0, <3>1
  <2>2. CASE Out # {}
    <3>1. Out \in SUBSET Nat
      BY <1>0
    <3>2. PICK m \in Out : \A y \in Out : m <= y
      <4> HIDE DEF Out
      <4> QED
        BY <2>2, <3>1, Least
    <3>3. m \in 1..C /\ u[m - 1] = NULL /\ m \in Nat /\ m - 1 \in 0..C
      BY <1>0
    <3> DEFINE Bad == {i \in 1..C : m <= i /\ u[i - 1] # NULL}
    <3>4. Bad = {}
      <4> SUFFICES ASSUME Bad # {} PROVE FALSE
        OBVIOUS
      <4>1. Bad \in SUBSET Nat
        BY <1>0
      <4>2. PICK i \in Bad : \A y \in Bad : i <= y
        <5> HIDE DEF Bad
        <5> QED
          BY <4>1, Least
      <4>3. i \in 1..C /\ m <= i /\ u[i - 1] # NULL
        OBVIOUS
      <4>4. i # m
        BY <3>3, <4>3
      <4>5. i - 1 \in 1..C /\ m <= i - 1 /\ ~(i <= i - 1) /\ i - 1 \in 0..C /\ i - 1 # 0
        BY <1>0, <3>3, <4>3, <4>4
      <4>6. u[(i - 1) - 1] # NULL
        BY <1>1, <4>3, <4>5
      <4>7. i - 1 \in Bad
        BY <4>5, <4>6
      <4> HIDE DEF Bad
      <4> QED
        BY <4>2, <4>5, <4>7
    <3>5. \A i \in 1..C : i < m => u[i - 1] # NULL
      <4> SUFFICES ASSUME NEW i \in 1..C, i < m, u[i - 1] = NULL PROVE FALSE
        OBVIOUS
      <4>1. i \in Out
        OBVIOUS
      <4> HIDE DEF Out
      <4>2. m <= i
        BY <3>2, <4>1
      <4> QED
        BY <1>0, <3>3, <4>2
    <3>6. \A i \in 1..C : u[i - 1] # NULL <=> i <= m - 1
      <4> SUFFICES ASSUME NEW i \in 1..C
                   PROVE  u[i - 1] # NULL <=> i <= m - 1
        OBVIOUS
      <4>1. m <= i \/ i < m
        BY <1>0, <3>3
      <4>2. m <= i => u[i - 1] = NULL
        BY <3>4
      <4>3. i < m => u[i - 1] # NULL
        BY <3>5
      <4> HIDE DEF Bad, Out
      <4>4. i <= m - 1 <=> i < m
        BY <1>0, <3>3
      <4>5. m <= i => ~(i < m)
        BY <1>0, <3>3
      <4> QED
        BY <4>1, <4>2, <4>3, <4>4, <4>5
    <3>7. D = 1..(m - 1)
      BY <1>0, <3>3, <3>6
    <3> QED
      BY <3>3, <3>7
  <2> QED
    BY <2>1, <2>2
<1>3. PICK n \in 0..C : D = 1..n
  BY <1>2
<1>4. n \in Nat /\ n <= C
  BY <1>0
<1>5. \A k \in 1..n : u[k - 1] \in Timer
  <2> SUFFICES ASSUME NEW k \in 1..n PROVE u[k - 1] \in Timer
    OBVIOUS
  <2>1. k \in D /\ k - 1 \in 0..C
    <3>1. k - 1 \in 0..C
      BY <1>0, <1>4
    <3> HIDE DEF D
    <3> QED
      BY <1>3, <3>1
  <2>2. u[k - 1] # NULL
    BY <2>1
  <2> QED
    BY <1>1, <2>1, <2>2
<1>6. Cardinality(D) = n
  <2>1. 1 \in Int /\ n \in Int
    BY <1>4
  <2> HIDE DEF D
  <2>2. Cardinality(1..n) = IF 1 > n THEN 0 ELSE n - 1 + 1
    BY <2>1, FS_Interval
  <2> QED
    BY <1>3, <1>4, <2>2
<1>7. Listed(l, s) = [k \in 1..n |-> u[k - 1]]
  BY <1>6 DEF Listed, From, u, C
<1> QED
  BY <1>4, <1>5, <1>7

(* Adding a timer keeps the types, wherever it is. *)
LEMMA AddedTyped ==
  ASSUME NEW l \in Links, NEW t \in Timer, NEW e \in Nat, NEW now \in Nat
  PROVE  Added(l, t, e, now) \in Links
<1>1. Level(e - now) \in 1..5
  <2>1. CASE e - now \in Nat
    BY <2>1, LevelIs
  <2>2. CASE e - now \notin Nat
    <3>1. e - now < 0
      BY <2>2
    <3> QED
      BY <3>1 DEF Level
  <2> QED
    BY <2>1, <2>2
<1>2. Place(Level(e - now), e) \in Slot
  BY <1>1, PlaceIs
<1> QED
  BY <1>2 DEF Added, Inserted, Links

(* And so does a cascade. *)
LEMMA CascadeTyped ==
  ASSUME NEW l \in Links, NEW s \in Slot, NEW now \in Nat, expires \in [Timer -> Nat]
  PROVE  Cascaded(l, s, now) \in Links
<1> DEFINE q == Listed(l, s)
           n == Len(q)
           a == [l EXCEPT !.first[s] = NULL]
           E(w) == w = [i \in 0..n |-> IF i = 0 THEN a
                                       ELSE Added(w[i - 1], q[i], expires[q[i]], now)]
           h == Cascade(l, s, now)
           G == [i \in 1..n |-> [k \in Links |-> Added(k, q[i], expires[q[i]], now)]]
<1>1. q \in Seq(Timer) /\ n \in Nat /\ \A i \in 1..n : q[i] \in Timer
  <2>1. q \in Seq(Timer)
    BY ListTyped
  <2> HIDE DEF q
  <2> QED
    BY <2>1
<1>2. a \in Links
  BY DEF Links
<1>3. \A i \in 1..n : \A k \in Links : Added(k, q[i], expires[q[i]], now) \in Links
  <2> SUFFICES ASSUME NEW i \in 1..n, NEW k \in Links
               PROVE  Added(k, q[i], expires[q[i]], now) \in Links
    OBVIOUS
  <2>1. q[i] \in Timer /\ expires[q[i]] \in Nat
    BY <1>1
  <2> HIDE DEF q, n
  <2> QED
    BY <2>1, AddedTyped
<1>4. h = CHOOSE w : E(w)
  BY DEF Cascade
<1> HIDE DEF h, q
<1>5. \A i \in 1..n : \A k \in Links : G[i][k] \in Links /\ G[i][k] = Added(k, q[i], expires[q[i]], now)
  BY <1>3
<1> HIDE DEF G
<1>6. PICK g \in [0..n -> Links] : g[0] = a /\ \A i \in 1..n : g[i] = G[i][g[i - 1]]
  <2> HIDE DEF n, a
  <2>1. Steps(Links, n, a, G) # {}
    BY <1>1, <1>2, <1>5, StepsExist
  <2> QED
    BY <2>1 DEF Steps
<1>7. \A i \in 0..n : g[i] = IF i = 0 THEN a ELSE Added(g[i - 1], q[i], expires[q[i]], now)
  <2> SUFFICES ASSUME NEW i \in 0..n
               PROVE  g[i] = IF i = 0 THEN a ELSE Added(g[i - 1], q[i], expires[q[i]], now)
    OBVIOUS
  <2> HIDE DEF n, a
  <2>1. CASE i = 0
    BY <1>6, <2>1
  <2>2. CASE i # 0
    <3>1. i \in 1..n /\ i - 1 \in 0..n
      BY <1>1, <2>2
    <3>2. g[i] = G[i][g[i - 1]] /\ g[i - 1] \in Links
      BY <1>6, <3>1
    <3> QED
      BY <1>5, <2>2, <3>1, <3>2
  <2> QED
    BY <2>1, <2>2
<1>8. E(g)
  <2>1. g = [i \in 0..n |-> g[i]]
    OBVIOUS
  <2> HIDE DEF n, a
  <2> QED
    BY <1>7, <2>1
<1>9. E(h)
  <2> HIDE DEF E
  <2> QED
    BY <1>4, <1>8, Zenon
<1> DEFINE Bad == {i \in 0..n : h[i] \notin Links}
<1>10. Bad = {}
  <2> SUFFICES ASSUME Bad # {} PROVE FALSE
    OBVIOUS
  <2>1. Bad \in SUBSET Nat
    BY <1>1
  <2>2. PICK i \in Bad : \A j \in Bad : i <= j
    <3> HIDE DEF Bad
    <3> QED
      BY <2>1, Least
  <2>3. i \in 0..n /\ h[i] \notin Links
    OBVIOUS
  <2>4. h[i] = IF i = 0 THEN a ELSE Added(h[i - 1], q[i], expires[q[i]], now)
    <3> HIDE DEF n, a, Bad
    <3> QED
      BY <1>9, <2>3
  <2>5. i # 0
    BY <1>2, <2>3, <2>4
  <2>6. i \in 1..n /\ i - 1 \in 0..n /\ ~(i <= i - 1)
    BY <1>1, <2>3, <2>5
  <2>7. i - 1 \notin Bad
    <3> HIDE DEF Bad
    <3> QED
      BY <2>2, <2>6
  <2>8. h[i - 1] \in Links
    BY <2>6, <2>7
  <2> QED
    BY <1>3, <2>3, <2>4, <2>5, <2>6, <2>8
<1>11. h[n] \in Links
  BY <1>1, <1>10
<1> QED
  BY <1>11 DEF Cascaded, h, q

LEMMA RoundTyped ==
  ASSUME NEW l \in Links, NEW lv \in 2..5, NEW now \in Nat, expires \in [Timer -> Nat]
  PROVE  Round(l, lv, now) \in Links
<1>1. Place(lv, now) \in Slot
  BY PlaceIs
<1> QED
  BY <1>1, CascadeTyped DEF Round

LEMMA CancelTyped ==
  ASSUME NEW l \in Links, NEW t \in Timer
  PROVE  Cancelled(l, t) \in Links /\ Unlinked(l, t) \in Links
<1>1. l.next[t] \in Timer \cup {NULL} /\ l.pprev[t] \in Slot \cup Timer \cup {NULL}
  BY DEF Links
<1>2. Stored(l, l.pprev[t], l.next[t]) \in Links
  BY <1>1 DEF Stored, Links
<1> HIDE DEF Links
<1> DEFINE k == Stored(l, l.pprev[t], l.next[t])
<1>3. k \in Links
  BY <1>2
<1> HIDE DEF k
<1>4. [k EXCEPT !.next[t] = NULL,
                !.pprev = [x \in Timer |-> IF x \in {t, l.next[t]} THEN NULL ELSE @[x]]] \in Links
  BY <1>3 DEF Links
<1>5. [k EXCEPT !.pprev = [x \in Timer |-> IF x = l.next[t] THEN l.pprev[t] ELSE @[x]]] \in Links
  BY <1>1, <1>3 DEF Links
<1> QED
  BY <1>4, <1>5 DEF Cancelled, Unlinked, k

(* The bound of TypeOK. *)
InTime(e, now) == \/ e <= now + 1
                  \/ \E m \in Millis : e * tick_ <= now * tick_ + m

LEMMA AddInTime ==
  ASSUME NEW now \in Nat, NEW m \in Millis
  PROVE  now + TicksOf(m) \in Nat /\ InTime(now + TicksOf(m), now)
<1> DEFINE d == m \div tick_
<1>1. m \in Nat /\ tick_ \in Nat \ {0}
  BY TickPositive
<1>2. d \in Nat /\ m = tick_ * d + (m % tick_) /\ m % tick_ \in Nat
  <2>1. /\ m \div tick_ \in Nat /\ m % tick_ \in 0..(tick_ - 1)
        /\ m = tick_ * (m \div tick_) + (m % tick_)
    BY <1>1, Division
  <2>2. m % tick_ \in Nat
    <3> DEFINE r == m % tick_
    <3>1. r \in 0..(tick_ - 1)
      BY <2>1
    <3> HIDE DEF r
    <3>2. r \in Nat
      BY <1>1, <3>1
    <3> QED
      BY <3>2 DEF r
  <2> QED
    BY <2>1, <2>2
<1> HIDE DEF d
<1>3. CASE d = 0
  BY <1>3 DEF TicksOf, InTime, d
<1>4. CASE d # 0
  <2>1. TicksOf(m) = d
    BY <1>4 DEF TicksOf, d
  <2>2. (now + d) * tick_ = now * tick_ + tick_ * d
    BY <1>1, <1>2, SMTT(30)
  <2>3. tick_ * d <= m
    <3>1. tick_ * d \in Nat
      BY <1>1, <1>2, SMTT(30)
    <3> DEFINE z == tick_ * d
    <3>2. z \in Nat /\ m = z + (m % tick_)
      BY <1>2, <3>1
    <3> HIDE DEF z
    <3>3. z <= m
      BY <1>1, <1>2, <3>2
    <3> QED
      BY <3>3 DEF z
  <2>4. now * tick_ \in Nat /\ tick_ * d \in Nat
    BY <1>1, <1>2, SMTT(30)
  <2>5. (now + d) * tick_ <= now * tick_ + m
    <3> DEFINE y == now * tick_
               z == tick_ * d
    <3>1. y \in Nat /\ z \in Nat /\ z <= m
      BY <2>3, <2>4
    <3> HIDE DEF y, z
    <3>2. y + z <= y + m
      BY <1>1, <3>1
    <3> QED
      BY <2>2, <3>2 DEF y, z
  <2> QED
    BY <1>2, <2>1, <2>5 DEF InTime
<1> QED
  BY <1>3, <1>4, TicksPositive

LEMMA StaysInTime ==
  ASSUME NEW now \in Nat, NEW e \in Nat, InTime(e, now)
  PROVE  InTime(e, now + 1)
<1>1. CASE e <= now + 1
  BY <1>1 DEF InTime
<1>2. ASSUME NEW m \in Millis, e * tick_ <= now * tick_ + m PROVE InTime(e, now + 1)
  <2>1. m \in Nat /\ tick_ \in Nat \ {0}
    BY TickPositive
  <2>2. (now + 1) * tick_ = now * tick_ + tick_
    BY <2>1, SMTT(30)
  <2>3. now * tick_ \in Nat /\ e * tick_ \in Nat
    BY <2>1, SMTT(30)
  <2> DEFINE y == now * tick_
             z == e * tick_
  <2>4. z <= y + m /\ y \in Nat /\ z \in Nat
    BY <1>2, <2>3
  <2>5. z <= (y + tick_) + m
    <3> HIDE DEF y, z
    <3> QED
      BY <2>1, <2>4
  <2> QED
    BY <2>2, <2>5 DEF InTime
<1> QED
  BY <1>1, <1>2 DEF InTime

LEMMA TypesInit ==
  ASSUME Init
  PROVE  TypeOK
  BY TickPositive DEF Init, TypeOK, Links

LEMMA TypesStep ==
  ASSUME TypeOK, [Next]_vars
  PROVE  TypeOK'
<1>0. /\ current_tick \in Nat /\ current_tick \in 0..MaxTick /\ MaxTick \in Nat
      /\ links \in Links /\ expires \in [Timer -> Nat] /\ flag \in [Timer -> BOOLEAN]
      /\ alive \subseteq Timer /\ fired \subseteq Timer
      /\ \A t \in Timer : InTime(expires[t], current_tick)
  BY TickPositive DEF TypeOK, InTime
<1> SUFFICES /\ current_tick' \in 0..MaxTick
             /\ links' \in Links /\ expires' \in [Timer -> Nat] /\ flag' \in [Timer -> BOOLEAN]
             /\ alive' \subseteq Timer /\ fired' \subseteq Timer
             /\ \A t \in Timer : InTime(expires'[t], current_tick')
  BY DEF TypeOK, InTime
<1>1. CASE UNCHANGED vars
  BY <1>0, <1>1 DEF vars
<1>2. CASE Tick
  <2> DEFINE now == current_tick + 1
             k2 == Round(links, 2, now)
             k3 == Round(k2, 3, now)
             k4 == Round(k3, 4, now)
             k5 == Round(k4, 5, now)
             s == Place(1, now)
  <2>1. now \in Nat /\ s \in Slot
    BY <1>0, PlaceIs
  <2>2. k5 \in Links
    <3> HIDE DEF now
    <3>1. k2 \in Links
      BY <1>0, <2>1, RoundTyped
    <3> HIDE DEF k2
    <3>2. k3 \in Links
      BY <1>0, <2>1, <3>1, RoundTyped
    <3> HIDE DEF k3
    <3>3. k4 \in Links
      BY <1>0, <2>1, <3>2, RoundTyped
    <3> HIDE DEF k4
    <3> QED
      BY <1>0, <2>1, <3>3, RoundTyped
  <2>3. /\ current_tick' = now /\ current_tick < MaxTick
        /\ fired' = ToSet(Listed(k5, s)) /\ links' = [k5 EXCEPT !.first[s] = NULL]
        /\ flag' = [t \in Timer |-> flag[t] \/ t \in fired'] /\ expires' = expires /\ alive' = alive
    BY <1>2 DEF Tick
  <2> HIDE DEF k5, s
  <2>4. fired' \subseteq Timer
    <3>1. Listed(k5, s) \in Seq(Timer)
      BY <2>1, <2>2, ListTyped
    <3> QED
      BY <2>3, <3>1 DEF ToSet
  <2>5. links' \in Links
    BY <2>1, <2>2, <2>3 DEF Links
  <2>6. \A t \in Timer : InTime(expires'[t], current_tick')
    BY <1>0, <2>3, StaysInTime
  <2>7. current_tick' \in 0..MaxTick
    BY <1>0, <2>3
  <2>8. flag' \in [Timer -> BOOLEAN]
    BY <2>3
  <2> QED
    BY <1>0, <2>3, <2>4, <2>5, <2>6, <2>7, <2>8
<1>3. ASSUME NEW t \in Timer, Unsets(t)
      PROVE  /\ current_tick' \in 0..MaxTick
             /\ links' \in Links /\ expires' \in [Timer -> Nat] /\ flag' \in [Timer -> BOOLEAN]
             /\ alive' \subseteq Timer /\ fired' \subseteq Timer
             /\ \A x \in Timer : InTime(expires'[x], current_tick')
  <2>1. CASE Create(t)
    <3>1. links' \in Links
      BY <1>0, <2>1 DEF Create, Links
    <3>2. expires' \in [Timer -> Nat] /\ \A x \in Timer : InTime(expires'[x], current_tick)
      BY <1>0, <2>1 DEF Create, InTime
    <3> QED
      BY <1>0, <2>1, <3>1, <3>2 DEF Create
  <2>2. CASE Destroy(t)
    BY <1>0, <2>2, CancelTyped DEF Destroy
  <2>3. CASE TimerCancel(t)
    BY <1>0, <2>3, CancelTyped DEF TimerCancel
  <2> QED
    BY <1>3, <2>1, <2>2, <2>3 DEF Unsets
<1>4. ASSUME NEW t \in Timer, NEW m \in Millis, AddTimer(t, m)
      PROVE  /\ current_tick' \in 0..MaxTick
             /\ links' \in Links /\ expires' \in [Timer -> Nat] /\ flag' \in [Timer -> BOOLEAN]
             /\ alive' \subseteq Timer /\ fired' \subseteq Timer
             /\ \A x \in Timer : InTime(expires'[x], current_tick')
  <2> DEFINE e == current_tick + TicksOf(m)
  <2>1. e \in Nat /\ InTime(e, current_tick)
    BY <1>0, AddInTime
  <2>2. /\ expires' = [expires EXCEPT ![t] = e] /\ flag' = [flag EXCEPT ![t] = FALSE]
        /\ links' = Added(Cancelled(links, t), t, e, current_tick)
        /\ fired' = {} /\ current_tick' = current_tick /\ alive' = alive
    BY <1>4 DEF AddTimer
  <2> HIDE DEF e
  <2>3. links' \in Links
    BY <1>0, <2>1, <2>2, CancelTyped, AddedTyped
  <2> QED
    BY <1>0, <2>1, <2>2, <2>3
<1> QED
  BY <1>1, <1>2, <1>3, <1>4, StepCases

-----------------------------------------------------------------------------
(* The properties. *)

(* The types hold whoever calls, and no timer waits longer than the timeout *)
(* it was added with, or than one tick (timer.cc:33-41).                    *)
THEOREM Types == Spec => []TypeOK
<1>1. Init => TypeOK
  BY TypesInit
<1>2. TypeOK /\ [Next]_vars => TypeOK'
  BY TypesStep
<1> QED
  BY <1>1, <1>2, PTL DEF Spec

(* A call that is no slip leaves a whole wheel whole. *)
LEMMA StaysWhole ==
  ASSUME TypeOK, Whole, Next, ~Slip
  PROVE  Whole'
<1>1. Ready
  BY WholeIs DEF Ready
<1> QED
  BY <1>1, StepCases, TickKeeps, UnsetKeeps, AddKeeps

(* Of all that callers may do, in any order, only the two slips break the   *)
(* wheel: every tick with its cascades, every insertion, and every cancel,  *)
(* new setting and destruction that is no slip leaves each timer once, in   *)
(* the slot its time belongs to, on a list whose pointers agree             *)
(* (timer.h:87-94, timer.cc:20-120).                                        *)
THEOREM BreaksBySlips == Spec => OnlySlipsBreak
<1>1. Init => Whole
  BY InitWhole
<1>2. TypeOK /\ [Next]_vars => [Whole => Whole' \/ Slip]_vars
  BY StaysWhole
<1> QED
  BY <1>1, <1>2, Types, PTL DEF Spec, OnlySlipsBreak

(* From a whole wheel, what is no slip is the operation of the service. *)
LEMMA StepServes ==
  ASSUME Ready, ~Slip, Next
  PROVE  Serves
<1> USE DEF Due
<1>0. /\ current_tick \in Nat /\ expires \in [Timer -> Nat] /\ NULL \notin Nat
      /\ \A t : IsListed(t) <=> t \in Held(Lists)
  BY AddressesDiffer, TickPositive, ListedIsHeld DEF Ready, TypeOK
<1>1. ASSUME Tick PROVE Abstract!Advance
  <2>1. current_tick' = current_tick + 1 /\ expires' = expires
    BY <1>1 DEF Tick
  <2>3. /\ fired' = {t \in Held(Lists) : expires[t] = current_tick + 1}
        /\ \A t : IsListed(t)' <=> t \in Held(Lists) /\ expires[t] # current_tick + 1
    BY <1>1, TickKeeps
  <2>4. \A t \in Timer : Due[t] = current_tick' <=> t \in fired'
    BY <1>0, <2>1, <2>3
  <2>5. fired' = {t \in Timer : Due[t] = current_tick'}
    <3>1. fired' \subseteq Timer
      BY <2>3 DEF Held
    <3> HIDE DEF Due
    <3> QED
      BY <2>4, <3>1
  <2>6. ASSUME NEW t \in Timer
        PROVE  (IF IsListed(t)' THEN expires'[t] ELSE NULL) = IF t \in fired' THEN NULL ELSE Due[t]
    BY <1>0, <2>1, <2>3
  <2>7. Due' = [t \in Timer |-> IF t \in fired' THEN NULL ELSE Due[t]]
    BY <2>6
  <2> QED
    BY <2>1, <2>5, <2>7 DEF Abstract!Advance
<1>2. ASSUME NEW t \in Timer, Unsets(t) PROVE Abstract!Unset(t)
  <2>1. fired' = {} /\ current_tick' = current_tick
    BY <1>2 DEF Unsets, Create, Destroy, TimerCancel
  <2>2. /\ \A x : IsListed(x)' <=> x \in Held(Lists) /\ x # t
        /\ \A x \in Timer : x # t => expires'[x] = expires[x]
    BY <1>2, UnsetKeeps
  <2>3. ASSUME NEW x \in Timer
        PROVE  (IF IsListed(x)' THEN expires'[x] ELSE NULL) = IF x = t THEN NULL ELSE Due[x]
    BY <1>0, <2>2
  <2>4. Due' = [Due EXCEPT ![t] = NULL]
    BY <2>3
  <2> QED
    BY <2>1, <2>4 DEF Abstract!Unset
<1>3. ASSUME NEW t \in Timer, NEW m \in Millis, AddTimer(t, m) PROVE Abstract!Set(t, TicksOf(m))
  <2>1. fired' = {} /\ current_tick' = current_tick
    BY <1>3 DEF AddTimer
  <2>2. /\ \A x : IsListed(x)' <=> x \in Held(Lists) \/ x = t
        /\ expires' = [expires EXCEPT ![t] = current_tick + TicksOf(m)]
    BY <1>3, AddKeeps
  <2>3. ASSUME NEW x \in Timer
        PROVE  (IF IsListed(x)' THEN expires'[x] ELSE NULL)
               = IF x = t THEN current_tick + TicksOf(m) ELSE Due[x]
    BY <1>0, <2>2
  <2>4. Due' = [Due EXCEPT ![t] = current_tick + TicksOf(m)]
    BY <2>3
  <2> QED
    BY <2>1, <2>4 DEF Abstract!Set
<1> QED
  BY <1>1, <1>2, <1>3 DEF Serves, Unsets

(* A whole wheel is the timer service to every caller that does not slip,   *)
(* operation by operation: a tick runs the timers that are due then, each   *)
(* once, and no others; a call sets or unsets the timer it names and no     *)
(* other (timer.cc:20-120).                                                 *)
THEOREM Refinement == Spec => ImplementsTimers
<1>1. Init => Abstract!AInit
  BY InitWhole DEF Init, Abstract!AInit, Due
<1>2. TypeOK /\ [Next]_vars => [Whole /\ ~Slip => Serves]_vars
  BY StepServes, WholeIs DEF Ready
<1> QED
  BY <1>1, <1>2, Types, PTL DEF Spec, ImplementsTimers
=============================================================================
