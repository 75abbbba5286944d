--------------------------- MODULE DeliveryProofs ---------------------------
(***************************************************************************)
(* What clients get of each other's edits, as theorems about Messaging:    *)
(* each editor's in order, and all of them.  They rest on the inductive    *)
(* invariant of MessagingProofs.                                           *)
(***************************************************************************)
EXTENDS MessagingProofs

-----------------------------------------------------------------------------
(* What comes before what in a queue. *)

Comes(s, x, y) == \E i, j \in DOMAIN s : i < j /\ s[i] = x /\ s[j] = y

(* What comes in a queue is in it.                                          *)
LEMMA ComesIn ==
  ASSUME NEW s, NEW x, NEW y, Comes(s, x, y)
  PROVE  x \in ToSet(s) /\ y \in ToSet(s)
BY DEF Comes, ToSet

(* Nothing comes before anything in an empty queue.                         *)
LEMMA ComesNone == \A x, y : ~Comes(<<>>, x, y)
BY DEF Comes

(* A queue put behind another.                                              *)
LEMMA ComesConcat ==
  ASSUME NEW S, NEW s \in Seq(S), NEW t \in Seq(S), NEW x, NEW y, Comes(s \o t, x, y)
  PROVE  Comes(s, x, y) \/ Comes(t, x, y) \/ (x \in ToSet(s) /\ y \in ToSet(t))
<1> DEFINE u == s \o t
<1>1. PICK i \in DOMAIN u, j \in DOMAIN u : i < j /\ u[i] = x /\ u[j] = y
  BY DEF Comes
<1>2. PICK m \in Nat, n \in Nat : m = Len(s) /\ n = Len(t)
  OBVIOUS
<1>3. DOMAIN s = 1..m /\ DOMAIN t = 1..n /\ DOMAIN u = 1..(m + n)
  BY <1>2
<1>4. \A k \in 1..(m + n) : u[k] = IF k <= m THEN s[k] ELSE t[k - m]
  BY <1>2
<1> HIDE DEF u
<1>5. i \in 1..(m + n) /\ j \in 1..(m + n) /\ i \in Nat /\ j \in Nat
  BY <1>1, <1>3
<1>6. CASE j <= m
  <2>1. i \in 1..m /\ j \in 1..m /\ s[i] = x /\ s[j] = y
    BY <1>1, <1>2, <1>4, <1>5, <1>6
  <2> QED
    BY <1>1, <1>3, <2>1 DEF Comes
<1>7. CASE i > m
  <2>1. i - m \in 1..n /\ j - m \in 1..n /\ i - m < j - m /\ ~(i <= m) /\ ~(j <= m)
    BY <1>1, <1>2, <1>5, <1>7
  <2>2. t[i - m] = x /\ t[j - m] = y
    BY <1>1, <1>4, <1>5, <2>1
  <2> QED
    BY <1>3, <2>1, <2>2 DEF Comes
<1>8. CASE i <= m /\ j > m
  <2>1. i \in 1..m /\ j - m \in 1..n /\ s[i] = x /\ t[j - m] = y
    BY <1>1, <1>2, <1>4, <1>5, <1>8
  <2> QED
    BY <1>3, <2>1 DEF ToSet
<1> QED
  BY <1>2, <1>5, <1>6, <1>7, <1>8

(* One more at the end.                                                     *)
LEMMA ComesAppend ==
  ASSUME NEW S, NEW s \in Seq(S), NEW z \in S, NEW x, NEW y, Comes(Append(s, z), x, y)
  PROVE  Comes(s, x, y) \/ (x \in ToSet(s) /\ y = z)
<1>1. Append(s, z) = s \o <<z>> /\ <<z>> \in Seq(S)
  OBVIOUS
<1>2. ~Comes(<<z>>, x, y) /\ ToSet(<<z>>) = {z}
  BY NumOne DEF Comes
<1> QED
  BY <1>1, <1>2, ComesConcat, ZenonT(60)

(* One taken from the front came before all that are left.                  *)
LEMMA ComesTail ==
  ASSUME NEW S, NEW s \in Seq(S), s # <<>>
  PROVE  /\ \A x, y : Comes(Tail(s), x, y) => Comes(s, x, y)
         /\ \A y \in ToSet(Tail(s)) : Comes(s, Head(s), y)
<1> DEFINE t == Tail(s)
<1>1. PICK n \in Nat : n = Len(s) /\ n >= 1
  BY EmptySeq
<1>2. DOMAIN s = 1..n /\ DOMAIN t = 1..(n - 1) /\ Head(s) = s[1]
  BY <1>1
<1>3. \A i \in 1..(n - 1) : t[i] = s[i + 1]
  BY <1>1
<1> HIDE DEF t
<1>4. ASSUME NEW x, NEW y, Comes(t, x, y) PROVE Comes(s, x, y)
  <2>1. PICK i \in 1..(n - 1), j \in 1..(n - 1) : i < j /\ t[i] = x /\ t[j] = y
    BY <1>2, <1>4 DEF Comes
  <2>2. i + 1 \in 1..n /\ j + 1 \in 1..n /\ i + 1 < j + 1 /\ s[i + 1] = x /\ s[j + 1] = y
    BY <1>3, <2>1
  <2> QED
    BY <1>2, <2>2 DEF Comes
<1>5. ASSUME NEW y \in ToSet(t) PROVE Comes(s, Head(s), y)
  <2>1. PICK j \in 1..(n - 1) : t[j] = y
    BY <1>2 DEF ToSet
  <2>2. 1 \in 1..n /\ j + 1 \in 1..n /\ 1 < j + 1 /\ s[j + 1] = y
    BY <1>1, <1>3, <2>1
  <2> QED
    BY <1>2, <2>2 DEF Comes
<1> QED
  BY <1>4, <1>5 DEF t

(* One taken out of the middle: the others move up.                         *)
LEMMA RemoveAtPlaces ==
  ASSUME NEW S, NEW s \in Seq(S), NEW k \in DOMAIN s
  PROVE  /\ DOMAIN RemoveAt(s, k) = 1..(Len(s) - 1)
         /\ \A i \in 1..(Len(s) - 1) : RemoveAt(s, k)[i] = IF i < k THEN s[i] ELSE s[i + 1]
<1> DEFINE a == SubSeq(s, 1, k - 1)
           b == SubSeq(s, k + 1, Len(s))
           r == a \o b
<1>1. PICK n \in Nat : n = Len(s)
  OBVIOUS
<1>2. k \in 1..n /\ k \in Nat
  BY <1>1
<1>3. Len(a) = k - 1 /\ \A i \in 1..(k - 1) : a[i] = s[i]
  BY <1>1, <1>2
<1>4. Len(b) = n - k /\ \A i \in 1..(n - k) : b[i] = s[k + i]
  BY <1>1, <1>2
<1>5. a \in Seq(S) /\ b \in Seq(S)
  BY <1>1, <1>2
<1>6. RemoveAt(s, k) = r
  BY DEF RemoveAt
<1> HIDE DEF a, b
<1>7. DOMAIN r = 1..(n - 1)
  BY <1>2, <1>3, <1>4, <1>5
<1>8. \A i \in 1..(n - 1) : r[i] = IF i <= k - 1 THEN a[i] ELSE b[i - (k - 1)]
  BY <1>2, <1>3, <1>4, <1>5, SMTT(30)
<1> HIDE DEF r
<1>9. ASSUME NEW i \in 1..(n - 1) PROVE r[i] = IF i < k THEN s[i] ELSE s[i + 1]
  <2>1. CASE i < k
    BY <1>2, <1>3, <1>8, <2>1
  <2>2. CASE i >= k
    <3>1. i - (k - 1) \in 1..(n - k) /\ k + (i - (k - 1)) = i + 1
      BY <1>1, <1>2, <2>2
    <3>2. r[i] = b[i - (k - 1)]
      BY <1>2, <1>8, <2>2
    <3> QED
      BY <1>2, <1>4, <2>2, <3>1, <3>2
  <2> QED
    BY <1>2, <2>1, <2>2
<1> QED
  BY <1>1, <1>6, <1>7, <1>9

(* One taken out, or some left out, leave the others in their order.        *)
LEMMA ComesLess ==
  ASSUME NEW S, NEW s \in Seq(S)
  PROVE  /\ \A i \in DOMAIN s : \A x, y : Comes(RemoveAt(s, i), x, y) => Comes(s, x, y)
         /\ \A P : \A x, y : Comes(Only(s, P), x, y) => Comes(s, x, y)
<1>1. PICK n \in Nat : n = Len(s) /\ DOMAIN s = 1..n
  OBVIOUS
<1>2. ASSUME NEW k \in DOMAIN s, NEW x, NEW y, Comes(RemoveAt(s, k), x, y) PROVE Comes(s, x, y)
  <2>1. k \in 1..n /\ k \in Nat
    BY <1>1
  <2>2. /\ DOMAIN RemoveAt(s, k) = 1..(n - 1)
        /\ \A i \in 1..(n - 1) : RemoveAt(s, k)[i] = IF i < k THEN s[i] ELSE s[i + 1]
    BY <1>1, <2>1, RemoveAtPlaces
  <2>3. PICK i \in 1..(n - 1), j \in 1..(n - 1) :
          /\ i < j
          /\ (IF i < k THEN s[i] ELSE s[i + 1]) = x
          /\ (IF j < k THEN s[j] ELSE s[j + 1]) = y
    BY <1>2, <2>2 DEF Comes
  <2>4. PICK u \in 1..n : u = (IF i < k THEN i ELSE i + 1) /\ s[u] = x
    BY <2>1, <2>3
  <2>5. PICK v \in 1..n : v = (IF j < k THEN j ELSE j + 1) /\ s[v] = y
    BY <2>1, <2>3
  <2>6. u < v
    BY <2>1, <2>3, <2>4, <2>5
  <2> QED
    BY <1>1, <2>4, <2>5, <2>6 DEF Comes
<1>3. ASSUME NEW P, NEW x, NEW y, Comes(Only(s, P), x, y) PROVE Comes(s, x, y)
  <2>1. PICK i \in DOMAIN Only(s, P), j \in DOMAIN Only(s, P) :
          i < j /\ Only(s, P)[i] = x /\ Only(s, P)[j] = y
    BY <1>3 DEF Comes
  <2>2. \E u, v \in DOMAIN s : u < v /\ Only(s, P)[i] = s[u] /\ Only(s, P)[j] = s[v]
    BY <2>1, OnlyOrder
  <2> QED
    BY <2>1, <2>2 DEF Comes
<1> QED
  BY <1>2, <1>3

-----------------------------------------------------------------------------
(* How entries go on. *)

(* Submitting puts the entries of a queue behind those of their rings, in   *)
(* their order, but for one that fails.                                     *)
LEMMA SubmitFlow ==
  ASSUME Types, NEW l \in Loop, Submit(l)
  PROVE  /\ sq'[l] = <<>> /\ \A n \in Loop : n # l => sq'[n] = sq[n]
         /\ \A n \in Loop : \A e \in ToSet(cq[n]) : e \in ToSet(cq'[n])
         /\ \A n \in Loop : \A e \in ToSet(cq'[n]) :
              e \in ToSet(cq[n]) \/ (e \in ToSet(sq[l]) /\ e.ring = n)
         /\ \A e \in ToSet(sq[l]) : e.op = "msg" => e \in ToSet(cq'[e.ring]) \/ e \in lost'
         /\ lost \subseteq lost'
         /\ \A n \in Loop : \A e, f : Comes(cq'[n], e, f) =>
              \/ Comes(cq[n], e, f) \/ Comes(sq[l], e, f)
              \/ e \in ToSet(cq[n]) /\ f \in ToSet(sq[l])
<1>1. PICK s \in Seq(Entries) : s = sq[l]
  BY DEF Types, Queues
<1>2. PICK done \in Seq(Entries) :
        /\ Issue(l, done) /\ ToSet(done) \subseteq ToSet(s)
        /\ \/ done = s /\ lost' = lost
           \/ \E i \in DOMAIN s :
                /\ done = RemoveAt(s, i)
                /\ s[i] \in Entries /\ s[i] \in ToSet(s)
                /\ lost' = lost \cup {s[i]}
                /\ \A P : Num(s, P) = Num(done, P) + One(s[i], P)
  BY <1>1, SubmitIs, SMTT(30)
<1>3. /\ sq'[l] = <<>> /\ \A n \in Loop : n # l => sq'[n] = sq[n]
      /\ \A n \in Loop : cq'[n] = cq[n] \o Only(done, Told(n))
      /\ \A n \in Loop : ToSet(cq'[n]) = ToSet(cq[n]) \cup (ToSet(done) \cap Told(n))
  BY <1>2, IssueIs
<1>4. \A e \in ToSet(s) : e \in ToSet(done) \/ e \in lost'
  <2>1. CASE done = s
    BY <2>1
  <2>2. ASSUME NEW i \in DOMAIN s, lost' = lost \cup {s[i]},
               \A P : Num(s, P) = Num(done, P) + One(s[i], P)
        PROVE  \A e \in ToSet(s) : e \in ToSet(done) \/ e \in lost'
    <3> SUFFICES ASSUME NEW e \in ToSet(s), e # s[i] PROVE e \in ToSet(done)
      BY <2>2
    <3>1. Num(s, {e}) = Num(done, {e}) + One(s[i], {e}) /\ One(s[i], {e}) = 0
      BY <2>2 DEF One
    <3>2. Num(s, {e}) # 0 /\ Num(done, {e}) \in Nat
      BY NumType
    <3>3. Num(done, {e}) # 0
      BY <3>1, <3>2
    <3> QED
      BY <3>3, NumType
  <2> QED
    BY <1>2, <2>1, <2>2
<1>5. \A e \in ToSet(s) : e \in Entries /\ e.ring \in Loop
  <2>1. \A i \in DOMAIN s : s[i] \in Entries
    OBVIOUS
  <2>2. \A e \in Entries : e.ring \in Loop
    BY DEF Entries
  <2> QED
    BY <2>1, <2>2 DEF ToSet
<1>6. \A n \in Loop : \A e \in ToSet(cq'[n]) : e \in ToSet(cq[n]) \/ (e \in ToSet(s) /\ e.ring = n)
  BY <1>2, <1>3 DEF Told
<1>7. \A e \in ToSet(s) : e.op = "msg" => e \in ToSet(cq'[e.ring]) \/ e \in lost'
  <2> SUFFICES ASSUME NEW e \in ToSet(s), e.op = "msg", e \in ToSet(done)
               PROVE  e \in ToSet(cq'[e.ring])
    BY <1>4
  <2>1. e \in Told(e.ring)
    BY <1>5 DEF Told, Rearm, Entry
  <2> QED
    BY <1>3, <1>5, <2>1
<1>8. ASSUME NEW n \in Loop, NEW e, NEW f, Comes(cq'[n], e, f)
      PROVE  \/ Comes(cq[n], e, f) \/ Comes(s, e, f)
             \/ e \in ToSet(cq[n]) /\ f \in ToSet(s)
  <2>1. PICK a \in Seq(Entries), b \in Seq(Entries) :
          a = cq[n] /\ b = Only(done, Told(n)) /\ ToSet(b) \subseteq ToSet(done)
    BY OnlyIs DEF Types, Queues
  <2>2. Comes(a, e, f) \/ Comes(b, e, f) \/ (e \in ToSet(a) /\ f \in ToSet(b))
    BY <1>3, <1>8, <2>1, ComesConcat
  <2>3. Comes(b, e, f) => Comes(done, e, f)
    BY <2>1, ComesLess
  <2>4. Comes(done, e, f) => Comes(s, e, f)
    BY <1>2, ComesLess
  <2> QED
    BY <1>2, <2>1, <2>2, <2>3, <2>4
<1> QED
  BY <1>1, <1>2, <1>3, <1>6, <1>7, <1>8

(* Taking a completion leaves those that came behind it.                    *)
LEMMA TookFlow ==
  ASSUME Types, NEW l \in Loop, Took(l)
  PROVE  /\ \A n \in Loop : n # l => cq'[n] = cq[n]
         /\ Head(cq[l]) \in Entries /\ Head(cq[l]) \in ToSet(cq[l])
         /\ \A e \in ToSet(cq[l]) : e = Head(cq[l]) \/ e \in ToSet(cq'[l])
         /\ \A e \in ToSet(cq'[l]) : e \in ToSet(cq[l]) /\ Comes(cq[l], Head(cq[l]), e)
         /\ \A e, f : Comes(cq'[l], e, f) => Comes(cq[l], e, f)
<1>1. cq[l] \in Seq(Entries) /\ cq[l] # <<>>
  BY DEF Types, Queues, Took
<1>2. cq'[l] = Tail(cq[l]) /\ \A n \in Loop : n # l => cq'[n] = cq[n]
  BY TookIs
<1>3. Head(cq[l]) \in Entries /\ ToSet(cq[l]) = {Head(cq[l])} \cup ToSet(cq'[l])
  BY TookIs
<1>4. /\ \A e, f : Comes(cq'[l], e, f) => Comes(cq[l], e, f)
      /\ \A e \in ToSet(cq'[l]) : Comes(cq[l], Head(cq[l]), e)
  BY <1>1, <1>2, ComesTail
<1> QED
  BY <1>2, <1>3, <1>4

(* An entry put at the end of a submission queue.                           *)
LEMMA PrepareFlow ==
  ASSUME Types, NEW l \in Loop, NEW x \in Entries, sq' = Prepared(l, x)
  PROVE  /\ \A n \in Loop : n # l => sq'[n] = sq[n]
         /\ \A e \in ToSet(sq'[l]) : e \in ToSet(sq[l]) \/ e = x
         /\ \A e \in ToSet(sq[l]) : e \in ToSet(sq'[l])
         /\ x \in ToSet(sq'[l])
         /\ \A e, f : Comes(sq'[l], e, f) => Comes(sq[l], e, f) \/ (e \in ToSet(sq[l]) /\ f = x)
<1>1. PICK s \in Seq(Entries) : s = sq[l]
  BY DEF Types, Queues
<1>2. sq'[l] = Append(s, x) /\ \A n \in Loop : n # l => sq'[n] = sq[n]
  BY <1>1 DEF Prepared, Types, Queues
<1>3. ToSet(Append(s, x)) = ToSet(s) \cup {x}
  BY NumAppend
<1>4. \A e, f : Comes(Append(s, x), e, f) => Comes(s, e, f) \/ (e \in ToSet(s) /\ f = x)
  BY ComesAppend
<1> QED
  BY <1>1, <1>2, <1>3, <1>4

(* A step that has nothing to do with messages.                             *)
Quiet ==
  /\ UNCHANGED <<inbox, lost>>
  /\ \A n \in Loop : \A e : e.op = "msg" => /\ e \in ToSet(sq'[n]) <=> e \in ToSet(sq[n])
                                            /\ e \in ToSet(cq'[n]) <=> e \in ToSet(cq[n])
  /\ \A n \in Loop : \A e, f : e.op = "msg" /\ f.op = "msg" =>
       /\ Comes(sq'[n], e, f) => Comes(sq[n], e, f)
       /\ Comes(cq'[n], e, f) => Comes(cq[n], e, f)

(* Entries of other kinds at the end change no message.                     *)
LEMMA ExtendFlow ==
  ASSUME NEW q \in Queues(Entries), NEW l \in Loop, NEW r \in Seq(Entries), NEW x,
         x = Extend(q, l, r), \A e \in ToSet(r) : e.op # "msg"
  PROVE  /\ \A n \in Loop : \A e : e.op = "msg" => (e \in ToSet(x[n]) <=> e \in ToSet(q[n]))
         /\ \A n \in Loop : \A e, f : e.op = "msg" /\ f.op = "msg" =>
              (Comes(x[n], e, f) => Comes(q[n], e, f))
<1>1. PICK s \in Seq(Entries) : s = q[l]
  BY DEF Queues
<1>2. x[l] = s \o r /\ \A n \in Loop : n # l => x[n] = q[n]
  BY <1>1 DEF Extend, Queues
<1>3. ToSet(s \o r) = ToSet(s) \cup ToSet(r)
  BY NumConcat
<1>4. \A e, f : Comes(s \o r, e, f) => Comes(s, e, f) \/ Comes(r, e, f) \/ (e \in ToSet(s) /\ f \in ToSet(r))
  BY ComesConcat
<1>5. \A e, f : Comes(r, e, f) => f \in ToSet(r)
  BY ComesIn
<1> QED
  BY <1>1, <1>2, <1>3, <1>4, <1>5

(* Such steps are those that leave the queues alone, and accepting.         *)
LEMMA QuietIs ==
  ASSUME Types, Types', Accepting
  PROVE  /\ UNCHANGED <<sq, cq, inbox, lost>> => Quiet
         /\ Connect => Quiet
         /\ \A l \in Loop : Handle(l) /\ Head(cq[l]).op # "msg" => Quiet
<1>1. UNCHANGED <<sq, cq, inbox, lost>> => Quiet
  BY DEF Quiet
<1>2. ASSUME Connect PROVE Quiet
  <2>1. PICK e \in Entries : /\ e.op \in {"accept", "last_accept", "accept_failed"}
                             /\ cq' = Extend(cq, Master, <<e>>)
    BY <1>2, ConnectIs
  <2>2. PICK r \in Seq(Entries) : r = <<e>> /\ ToSet(r) = {e}
    BY <2>1, SingleIs
  <2>3. cq \in Queues(Entries) /\ Master \in Loop /\ \A f \in ToSet(r) : f.op # "msg"
    BY <2>1, <2>2, LoopsAre DEF Types
  <2>4. cq' = Extend(cq, Master, r) /\ UNCHANGED <<sq, inbox, lost>>
    BY <1>2, <2>1, <2>2 DEF Connect, msgVars
  <2> QED
    BY <2>3, <2>4, ExtendFlow DEF Quiet
<1>3. ASSUME NEW l \in Loop, Handle(l), Head(cq[l]).op # "msg" PROVE Quiet
  <2>1. Took(l) /\ UNCHANGED <<inbox, lost>>
    BY <1>3 DEF Handle, Took, msgVars
  <2>2. \A n \in Loop : \A e : e.op = "msg" => (e \in ToSet(cq'[n]) <=> e \in ToSet(cq[n]))
    BY <1>3, <2>1, TookFlow
  <2>3. \A n \in Loop : \A e, f : Comes(cq'[n], e, f) => Comes(cq[n], e, f)
    BY <2>1, TookFlow
  <2>4. PICK r \in Seq(Entries) : (sq' = Extend(sq, l, r) \/ sq' = sq) /\ \A e \in ToSet(r) : e.op # "msg"
    <3>1. PICK none \in Seq(Entries) : ToSet(none) = {}
      <4>1. <<>> \in Seq(Entries) /\ ToSet(<<>>) = {}
        BY NumEmpty
      <4> QED
        BY <4>1
    <3>2. CASE Head(cq[l]).op = "fd_pass"
      BY <1>3, <3>1, <3>2 DEF Handle
    <3>3. CASE /\ Head(cq[l]).op \in {"accept", "last_accept", "accept_failed"}
               /\ HandleAccept(l, Head(cq[l]))
      <4>1. PICK e \in Entries : e = Head(cq[l]) /\ e.op \in {"accept", "last_accept", "accept_failed"}
        BY <2>1, <3>3, TookIs
      <4>2. HandleAccept(l, e)
        BY <3>3, <4>1
      <4>3. CASE l = Master /\ e.op # "accept_failed" /\ conn_count' = conn_count + 1
        <5>1. conn_count' \in Conn
          BY <2>1, <4>1, <4>3, NumberLeft
        <5>2. CASE ended' = ended \cup {l} /\ UNCHANGED <<connVars, sq>>
          BY <3>1, <5>2
        <5>3. CASE \E r \in Seq(Entries) :
                     /\ sq' = Extend(sq, l, r)
                     /\ \A f \in ToSet(r) : f = Entry("fd_pass", NextRing, conn_count', 0) \/ f = Rearm
          BY <5>3 DEF Entry, Rearm
        <5> QED
          BY <4>2, <5>1, <5>2, <5>3, AcceptIs
      <4>4. CASE UNCHANGED <<connVars, sq>>
        BY <3>1, <4>4
      <4> QED
        BY <4>2, <4>3, <4>4, AcceptIs
    <3> QED
      BY <1>3, <3>2, <3>3 DEF Handle
  <2>5. sq \in Queues(Entries)
    BY DEF Types
  <2>6. /\ \A n \in Loop : \A e : e.op = "msg" => (e \in ToSet(sq'[n]) <=> e \in ToSet(sq[n]))
        /\ \A n \in Loop : \A e, f : e.op = "msg" /\ f.op = "msg" =>
             (Comes(sq'[n], e, f) => Comes(sq[n], e, f))
    BY <2>4, <2>5, ExtendFlow
  <2> QED
    BY <2>1, <2>2, <2>3, <2>6 DEF Quiet
<1> QED
  BY <1>1, <1>2, <1>3

-----------------------------------------------------------------------------
(* The inductive invariant. *)

(* An entry that is the OP of an edit, and the edit.                        *)
IsOp(e) == e.op = "msg" /\ contexts[e.ctx].msg # Notice
Carried(e) == contexts[e.ctx].msg
By(n) == edits[n].by
FromOther(e) == Carried(e) \in DOMAIN edits /\ By(Carried(e)) # e.conn

(* OPs are for others than the editor.  Whatever waits to be submitted was  *)
(* edited in its own loop, and what has arrived was edited in another.      *)
Addressed ==
  /\ \A c \in Conn : \A n \in ToSet(inbox[c]) : n \in DOMAIN edits /\ By(n) # c
  /\ \A l \in Loop : \A e \in ToSet(sq[l]) :
       IsOp(e) => FromOther(e) /\ ConnectionIdToRing(By(Carried(e))) = l
  /\ \A l \in Loop : \A e \in ToSet(cq[l]) :
       IsOp(e) => FromOther(e) /\ ConnectionIdToRing(By(Carried(e))) # l
  /\ \A l \in Loop : task[l].msg # Notice =>
       IsInjective(task[l].rest) /\ task[l].conn \notin ToSet(task[l].rest)

(* What the handler of loop l has to tell connection c, or will have to     *)
(* once it has listed the receivers; what is in a queue; and what is ahead  *)
(* of what on the way from an editor.                                       *)
Telling(l, c) == task[l].msg # Notice /\ (task[l].stage = "GetUserList" \/ c \in ToSet(task[l].rest))
Queued(e) == \E l \in Loop : e \in ToSet(sq[l]) \/ e \in ToSet(cq[l])
Ahead(e, f) ==
  \/ \E l \in Loop : Comes(sq[l], e, f) \/ Comes(cq[l], e, f)
  \/ \E l, n \in Loop : e \in ToSet(cq[n]) /\ f \in ToSet(sq[l])

(* Of one editor, what is ahead is the earlier edit.                        *)
Before(m, n) == By(m) = By(n) => m < n
InOrder ==
  /\ \A c \in Conn : \A m, n : Comes(inbox[c], m, n) => Before(m, n)
  /\ \A e, f : Ahead(e, f) /\ IsOp(e) /\ IsOp(f) /\ e.conn = f.conn => Before(Carried(e), Carried(f))
  /\ \A e : Queued(e) /\ IsOp(e) => \A m \in ToSet(inbox[e.conn]) : Before(m, Carried(e))
  /\ \A l \in Loop, c \in Conn : Telling(l, c) =>
       /\ \A m \in ToSet(inbox[c]) : Before(m, task[l].msg)
       /\ \A e : Queued(e) /\ IsOp(e) /\ e.conn = c => Before(Carried(e), task[l].msg)

(* A client that has been sent the content of a document has it open.       *)
Joined == \A c \in Conn : since[c] # NULL => document[c] # NULL

(* At first there are no edits.                                             *)
LEMMA DeliveryInit == Init => Addressed /\ InOrder /\ Joined
<1> SUFFICES ASSUME Init PROVE Addressed /\ InOrder /\ Joined
  OBVIOUS
<1>1. /\ \A c \in Conn : inbox[c] = <<>> /\ since[c] = NULL
      /\ \A l \in Loop : sq[l] = <<>> /\ cq[l] = <<>> /\ task[l].msg = Notice
  BY DEF Init, Idle, Task
<1>2. ToSet(<<>>) = {} /\ \A x, y : ~Comes(<<>>, x, y)
  BY ComesNone, NumEmpty
<1>3. \A l \in Loop : ToSet(sq[l]) = {} /\ ToSet(cq[l]) = {} /\ task[l].msg = Notice
  BY <1>1, <1>2
<1>4. \A c \in Conn : ToSet(inbox[c]) = {} /\ since[c] = NULL /\ \A m, n : ~Comes(inbox[c], m, n)
  BY <1>1, <1>2
<1>5. Addressed
  BY <1>3, <1>4 DEF Addressed
<1>6. \A e, f : ~Queued(e) /\ ~Ahead(e, f)
  BY <1>1, <1>2, <1>3 DEF Queued, Ahead
<1>7. \A l \in Loop, c \in Conn : ~Telling(l, c)
  BY <1>3 DEF Telling
<1>8. InOrder
  BY <1>4, <1>6, <1>7 DEF InOrder
<1> QED
  BY <1>4, <1>5, <1>8 DEF Joined

(* The edit that a handler tells of.                                        *)
LEMMA TaskOp ==
  ASSUME Types, Control, NEW l \in Loop, task[l].msg # Notice
  PROVE  LET t == task[l]
         IN  /\ t \in Tasks /\ t.msg \in DOMAIN edits /\ By(t.msg) = t.conn
             /\ edits[t.msg].doc = t.doc /\ t.doc \in Doc
             /\ t.conn \in Conn /\ ConnectionIdToRing(t.conn) = l
             /\ t.request = "edit" /\ t.stage \in {"GetUserList", "Post"}
<1>1. task[l] # Idle
  BY DEF Idle, Task
<1>2. task[l] \in Tasks /\ InHandler(l, task[l])
  BY <1>1 DEF Types, Control
<1>3. task[l].request = "edit"
  BY <1>2 DEF InHandler, Known, OfEdit
<1> QED
  BY <1>2, <1>3 DEF InHandler, Known, OfEdit, AtStage, By

(* Contexts and edits do not change, so neither does what an entry is.      *)
LEMMA OpsStay ==
  ASSUME Types, Placed, Grows
  PROVE  /\ \A e : e.ctx \in DOMAIN contexts => (IsOp(e)' <=> IsOp(e)) /\ Carried(e)' = Carried(e)
         /\ \A n \in DOMAIN edits : n \in DOMAIN edits' /\ By(n)' = By(n) /\ n \in Nat
         /\ \A m, n \in DOMAIN edits : Before(m, n) => Before(m, n)'
         /\ \A l \in Loop : \A e : (e \in ToSet(sq[l]) \/ e \in ToSet(cq[l])) /\ e.op = "msg" =>
              e \in Entries /\ e.ctx \in DOMAIN contexts /\ e.conn \in Conn /\ e.ring = ConnectionIdToRing(e.conn)
<1>1. \A e : e.ctx \in DOMAIN contexts => (IsOp(e)' <=> IsOp(e)) /\ Carried(e)' = Carried(e)
  BY DEF Grows, IsOp, Carried
<1>2. \A n \in DOMAIN edits : n \in DOMAIN edits' /\ By(n)' = By(n) /\ n \in Nat
  <2>1. edits \in Seq(Edits) /\ DOMAIN edits = 1..Len(edits)
    BY DEF Types
  <2>2. \A n \in 1..Len(edits) : n \in Nat
    OBVIOUS
  <2> QED
    BY <2>1, <2>2 DEF Grows, By
<1>3. \A m, n \in DOMAIN edits : Before(m, n) => Before(m, n)'
  BY <1>2 DEF Before
<1>4. ASSUME NEW l \in Loop, NEW e, e \in ToSet(sq[l]) \/ e \in ToSet(cq[l]), e.op = "msg"
      PROVE  e \in Entries /\ e.ctx \in DOMAIN contexts /\ e.conn \in Conn /\ e.ring = ConnectionIdToRing(e.conn)
  <2>1. sq[l] \in Seq(Entries) /\ cq[l] \in Seq(Entries)
    BY DEF Types, Queues
  <2>2. e \in Entries
    BY <1>4, <2>1 DEF ToSet
  <2>3. Waits(l, e) \/ Arrives(l, e)
    BY <1>4 DEF Placed
  <2> QED
    BY <1>4, <2>2, <2>3 DEF Waits, Arrives, IsMail, Leads, Rearm, Unprepared, Entry
<1> QED
  BY <1>1, <1>2, <1>3, <1>4

-----------------------------------------------------------------------------
(* OPs go to others, by the right queues. *)

(* A step keeps Addressed if what it adds is right.                         *)
LEMMA AddressedFrame ==
  ASSUME Types, Placed, Control, Grows, Addressed,
         \A c \in Conn : \A n \in ToSet(inbox'[c]) :
           n \in ToSet(inbox[c]) \/ (n \in DOMAIN edits /\ By(n) # c),
         \A l \in Loop : \A e \in ToSet(sq'[l]) : e.op = "msg" =>
           \/ e \in ToSet(sq[l])
           \/ e.ctx \in DOMAIN contexts
              /\ (IsOp(e) => FromOther(e) /\ ConnectionIdToRing(By(Carried(e))) = l),
         \A l \in Loop : \A e \in ToSet(cq'[l]) : e.op = "msg" =>
           \/ e \in ToSet(cq[l])
           \/ e.ctx \in DOMAIN contexts
              /\ (IsOp(e) => FromOther(e) /\ ConnectionIdToRing(By(Carried(e))) # l),
         \A l \in Loop : task'[l] = task[l] \/ (task'[l].msg # Notice =>
           IsInjective(task'[l].rest) /\ task'[l].conn \notin ToSet(task'[l].rest))
  PROVE  Addressed'
<1>1. /\ \A e : e.ctx \in DOMAIN contexts => (IsOp(e)' <=> IsOp(e)) /\ Carried(e)' = Carried(e)
      /\ \A n \in DOMAIN edits : n \in DOMAIN edits' /\ By(n)' = By(n)
      /\ \A l \in Loop : \A e : (e \in ToSet(sq[l]) \/ e \in ToSet(cq[l])) /\ e.op = "msg" =>
           e.ctx \in DOMAIN contexts
  BY OpsStay
<1>2. \A c \in Conn : \A n \in ToSet(inbox'[c]) : n \in DOMAIN edits' /\ By(n)' # c
  BY <1>1 DEF Addressed
<1>3. \A e : e.ctx \in DOMAIN contexts /\ FromOther(e) =>
        FromOther(e)' /\ By(Carried(e))' = By(Carried(e))
  <2> SUFFICES ASSUME NEW e, e.ctx \in DOMAIN contexts, FromOther(e)
               PROVE  FromOther(e)' /\ By(Carried(e))' = By(Carried(e))
    OBVIOUS
  <2>1. PICK n \in DOMAIN edits : n = Carried(e) /\ Carried(e)' = n
    BY <1>1 DEF FromOther
  <2>2. By(Carried(e))' = By(n)'
    BY <2>1 DEF By
  <2>3. n \in DOMAIN edits' /\ By(n)' = By(n)
    BY <1>1, <2>1
  <2> QED
    BY <2>1, <2>2, <2>3 DEF FromOther
<1>4. ASSUME NEW l \in Loop, NEW e \in ToSet(sq'[l]), IsOp(e)'
      PROVE  FromOther(e)' /\ ConnectionIdToRing(By(Carried(e))') = l
  <2>1. e.op = "msg"
    BY <1>4 DEF IsOp
  <2>2. e.ctx \in DOMAIN contexts /\ (IsOp(e) => FromOther(e) /\ ConnectionIdToRing(By(Carried(e))) = l)
    BY <1>1, <1>4, <2>1 DEF Addressed
  <2> QED
    BY <1>1, <1>3, <1>4, <2>2
<1>5. ASSUME NEW l \in Loop, NEW e \in ToSet(cq'[l]), IsOp(e)'
      PROVE  FromOther(e)' /\ ConnectionIdToRing(By(Carried(e))') # l
  <2>1. e.op = "msg"
    BY <1>5 DEF IsOp
  <2>2. e.ctx \in DOMAIN contexts /\ (IsOp(e) => FromOther(e) /\ ConnectionIdToRing(By(Carried(e))) # l)
    BY <1>1, <1>5, <2>1 DEF Addressed
  <2> QED
    BY <1>1, <1>3, <1>5, <2>2
<1>6. \A l \in Loop : task'[l].msg # Notice =>
        IsInjective(task'[l].rest) /\ task'[l].conn \notin ToSet(task'[l].rest)
  BY DEF Addressed
<1>7. \A c : ConnectionIdToRing(c)' = ConnectionIdToRing(c)
  BY DEF ConnectionIdToRing
<1> QED
  BY <1>2, <1>4, <1>5, <1>6 DEF Addressed, ConnectionIdToRing

(* What a handler that posts goes on with.                                  *)
LEMMA PostingTells ==
  ASSUME NEW l \in Loop, NEW t \in Tasks, NEW rest \in Seq(Conn), task'[l] = Posting(t, rest),
         task'[l].msg # Notice, t.request = "open" => t.msg = Notice
  PROVE  task'[l].msg = t.msg /\ task'[l].rest = rest /\ task'[l].conn = t.conn
         /\ task'[l].stage = "Post"
<1>1. rest # <<>>
  <2> SUFFICES ASSUME rest = <<>> PROVE FALSE
    OBVIOUS
  <2>1. CASE t.request = "open"
    <3>1. PICK u \in Tasks : u = [t EXCEPT !.stage = "GetContent", !.rest = <<>>] /\ Posting(t, rest) = u
      BY <2>1, PostingIs
    <3>2. u.msg = t.msg
      BY <3>1 DEF Tasks
    <3> QED
      BY <2>1, <3>1, <3>2
  <2>2. CASE t.request # "open"
    <3>1. task'[l] = Idle
      BY <2>2, PostingIs
    <3> QED
      BY <3>1 DEF Idle, Task
  <2> QED
    BY <2>1, <2>2
<1>2. PICK u \in Tasks : u = [t EXCEPT !.stage = "Post", !.rest = rest] /\ Posting(t, rest) = u
  BY <1>1, PostingIs
<1>3. u.msg = t.msg /\ u.rest = rest /\ u.conn = t.conn /\ u.stage = "Post"
  BY <1>2 DEF Tasks
<1> QED
  BY <1>2, <1>3

(* The tail of what is left to post.                                        *)
LEMMA TailIs ==
  ASSUME NEW S, NEW s \in Seq(S), s # <<>>
  PROVE  /\ \A x \in ToSet(Tail(s)) : x \in ToSet(s)
         /\ Head(s) \in ToSet(s) /\ \A x \in ToSet(s) : x = Head(s) \/ x \in ToSet(Tail(s))
         /\ IsInjective(s) => IsInjective(Tail(s)) /\ Head(s) \notin ToSet(Tail(s))
<1>1. ToSet(s) = {Head(s)} \cup ToSet(Tail(s))
  BY NumTail
<1>2. ASSUME IsInjective(s) PROVE IsInjective(Tail(s)) /\ Head(s) \notin ToSet(Tail(s))
  <2> DEFINE t == Tail(s)
  <2>1. PICK n \in Nat : n = Len(s) /\ n >= 1
    BY EmptySeq
  <2>2. DOMAIN s = 1..n /\ DOMAIN t = 1..(n - 1) /\ Head(s) = s[1]
    BY <2>1
  <2>3. \A i \in 1..(n - 1) : t[i] = s[i + 1]
    BY <2>1
  <2> HIDE DEF t
  <2>4. \A i, j \in 1..n : s[i] = s[j] => i = j
    BY <1>2, <2>2 DEF IsInjective
  <2>5. \A i, j \in 1..(n - 1) : t[i] = t[j] => i = j
    BY <2>1, <2>3, <2>4
  <2>6. \A i \in 1..(n - 1) : t[i] # s[1]
    BY <2>1, <2>3, <2>4
  <2> QED
    BY <2>2, <2>5, <2>6 DEF IsInjective, ToSet, t
<1> QED
  BY <1>1, <1>2

(* A post, of the OP of an edit or of something else.                       *)
LEMMA PostIs ==
  ASSUME Types, Types', Control, NEW l \in Loop, Post(l)
  PROVE  \E t \in Tasks, rest \in Seq(Conn), to \in Conn, e \in Entries :
           /\ t = task[l] /\ rest = Tail(t.rest) /\ to = Head(t.rest) /\ t.rest \in Seq(Conn) /\ t.rest # <<>>
           /\ t.ctx \in DOMAIN contexts /\ contexts[t.ctx].msg = t.msg
           /\ t.request = "open" => t.msg = Notice
           /\ task'[l] = Posting(t, rest) /\ \A n \in Loop : n # l => task'[n] = task[n]
           /\ sq' = Prepared(l, e) /\ UNCHANGED <<cq, lost, conn_map, closed, document, users, edits, since>>
           /\ \/ /\ ConnectionIdToRing(to) # l /\ e = Entry("msg", ConnectionIdToRing(to), to, t.ctx)
                 /\ UNCHANGED <<contexts, inbox>>
              \/ /\ ConnectionIdToRing(to) = l /\ e.op = "accept"
                 /\ inbox' = Delivered(l, to, t.ctx)
<1>1. PICK t \in Tasks : t = task[l] /\ t.stage = "Post"
  BY DEF Post, Types
<1>2. InHandler(l, t) /\ t.rest # <<>> /\ t.ctx \in DOMAIN contexts /\ contexts[t.ctx].msg = t.msg
  BY <1>1, Staged
<1>3. t.request = "open" => t.msg = Notice
  BY <1>2 DEF InHandler, Known, OfEdit
<1>4. t.rest \in Seq(Conn) /\ t.ctx \in Nat
  BY DEF Tasks
<1>5. PICK rest \in Seq(Conn), to \in Conn : rest = Tail(t.rest) /\ to = Head(t.rest)
  BY <1>2, <1>4, NumTail
<1>6. Starts(l, Posting(t, rest))
  BY <1>1, <1>5 DEF Post
<1>7. task'[l] = Posting(t, rest) /\ \A n \in Loop : n # l => task'[n] = task[n]
  BY <1>6, PostingIs, StartsIs DEF Types
<1>8. UNCHANGED <<cq, lost, conn_map, closed, document, users, edits, since>>
  BY DEF Post, connVars, docVars
<1>9. CASE ConnectionIdToRing(to) # l
  <2>1. PICK e \in Entries : e = Entry("msg", ConnectionIdToRing(to), to, t.ctx)
    BY <1>4, EntriesAre, RingIs
  <2>2. sq' = Prepared(l, e) /\ UNCHANGED <<contexts, inbox>>
    BY <1>1, <1>5, <1>9, <2>1 DEF Post, msgVars
  <2> QED
    BY <1>1, <1>2, <1>3, <1>4, <1>5, <1>7, <1>8, <1>9, <2>1, <2>2
<1>10. CASE ConnectionIdToRing(to) = l
  <2>1. PICK e \in Entries : e = Unprepared(l) /\ e.op = "accept"
    <3>1. Unprepared(l).op = "accept"
      BY DEF Unprepared, Entry
    <3> QED
      BY <3>1, EntriesAre
  <2>2. sq' = Prepared(l, e) /\ inbox' = Delivered(l, to, t.ctx)
    BY <1>1, <1>5, <1>10, <2>1 DEF Post, Receive
  <2> QED
    BY <1>1, <1>2, <1>3, <1>4, <1>5, <1>7, <1>8, <1>10, <2>1, <2>2
<1> QED
  BY <1>9, <1>10

(* What a connection is given to send to its client.                        *)
LEMMA DeliveredFlow ==
  ASSUME Types, NEW l \in Loop, NEW c \in Conn, NEW k \in DOMAIN contexts,
         inbox' = Delivered(l, c, k)
  PROVE  /\ \A b \in Conn : b # c => inbox'[b] = inbox[b]
         /\ \A n \in ToSet(inbox'[c]) :
              n \in ToSet(inbox[c]) \/ (n = contexts[k].msg /\ contexts[k].msg # Notice)
         /\ \A n \in ToSet(inbox[c]) : n \in ToSet(inbox'[c])
         /\ Online(l, c) /\ contexts[k].msg # Notice => contexts[k].msg \in ToSet(inbox'[c])
         /\ \A m, n : Comes(inbox'[c], m, n) =>
              \/ Comes(inbox[c], m, n)
              \/ m \in ToSet(inbox[c]) /\ n = contexts[k].msg /\ contexts[k].msg # Notice
<1>1. PICK s \in Seq(Nat), n \in Nat : s = inbox[c] /\ n = contexts[k].msg
  <2>1. contexts[k] \in Contexts
    BY DEF Types
  <2> QED
    BY <2>1 DEF Types, Contexts
<1>2. /\ \A b \in Conn : b # c => inbox'[b] = inbox[b]
      /\ inbox'[c] = IF Online(l, c) /\ n # Notice THEN Append(s, n) ELSE s
  BY <1>1, DeliveredIs
<1>3. ToSet(Append(s, n)) = ToSet(s) \cup {n}
  BY NumAppend
<1>4. \A x, y : Comes(Append(s, n), x, y) => Comes(s, x, y) \/ (x \in ToSet(s) /\ y = n)
  BY ComesAppend
<1>5. PICK r : r = Append(s, n)
  OBVIOUS
<1>6. ToSet(r) = ToSet(s) \cup {n} /\ \A x, y : Comes(r, x, y) => Comes(s, x, y) \/ (x \in ToSet(s) /\ y = n)
  BY <1>3, <1>4, <1>5
<1>7. inbox'[c] = IF Online(l, c) /\ n # Notice THEN r ELSE s
  BY <1>2, <1>5
<1> QED
  BY <1>1, <1>2, <1>6, <1>7

(* A line of chat is a notice.                                              *)
LEMMA ChatIs ==
  ASSUME Types, NEW l \in Loop, NEW c \in Conn, NEW to \in Conn, ChatHandle(l, c, to)
  PROVE  \E u \in Tasks : Starts(l, u) /\ u.msg = Notice /\ u.stage = "Post"
<1>1. PICK t \in Tasks : t = Task("chat", "Post", c, NULL, Notice)
  BY StartIs DEF Requests, Stages, Notice
<1>2. PICK n \in Nat : n = Len(contexts) + 1
  BY NextContext DEF Types
<1>3. PICK rest \in Seq(Conn) : rest = <<to>>
  <2>1. <<to>> \in Seq(Conn)
    OBVIOUS
  <2> QED
    BY <2>1
<1>4. PICK v \in Tasks : v = [t EXCEPT !.rest = rest]
  BY DEF Tasks
<1>5. PICK u \in Tasks : u = [v EXCEPT !.ctx = n]
  BY DEF Tasks
<1>6. t.msg = Notice /\ t.stage = "Post"
  BY <1>1 DEF Task
<1>7. u.msg = Notice /\ u.stage = "Post"
  <2>1. v.msg = Notice /\ v.stage = "Post"
    BY <1>4, <1>6 DEF Tasks
  <2> QED
    BY <1>5, <2>1 DEF Tasks
<1>8. Starts(l, u)
  BY <1>1, <1>2, <1>3, <1>4, <1>5 DEF ChatHandle
<1> QED
  BY <1>7, <1>8

(* What a submission, a completion or a post adds is addressed.             *)
LEMMA AddressedNext ==
  ASSUME Types, Types', Placed, Accepting, Control, Listed, Addressed, [Next]_vars
  PROVE  Addressed'
<1>1. Grows
  BY ContextsGrow
<1>2. \A l \in Loop : \A e : (e \in ToSet(sq[l]) \/ e \in ToSet(cq[l])) /\ e.op = "msg" =>
        e \in Entries /\ e.ctx \in DOMAIN contexts /\ e.conn \in Conn /\ e.ring = ConnectionIdToRing(e.conn)
  BY <1>1, OpsStay
<1>3. ASSUME Quiet,
             \A l \in Loop : task'[l] = task[l] \/ (task'[l].msg # Notice =>
               IsInjective(task'[l].rest) /\ task'[l].conn \notin ToSet(task'[l].rest))
      PROVE  Addressed'
  <2>1. /\ \A l \in Loop : \A e \in ToSet(sq'[l]) : e.op = "msg" => e \in ToSet(sq[l])
        /\ \A l \in Loop : \A e \in ToSet(cq'[l]) : e.op = "msg" => e \in ToSet(cq[l])
        /\ inbox' = inbox
    BY <1>3 DEF Quiet
  <2> QED
    BY <1>1, <1>3, <2>1, AddressedFrame
<1>4. ASSUME UNCHANGED <<sq, cq, inbox, lost>>, NEW l \in Loop, NEW t \in Tasks, Starts(l, t),
             t.msg # Notice => IsInjective(t.rest) /\ t.conn \notin ToSet(t.rest)
      PROVE  Addressed'
  <2>1. task'[l] = t /\ \A n \in Loop : n # l => task'[n] = task[n]
    BY <1>4, StartsIs DEF Types
  <2>2. Quiet
    BY <1>4, QuietIs
  <2> QED
    BY <1>3, <1>4, <2>1, <2>2
<1>5. ASSUME NEW l \in Loop, Submit(l) PROVE Addressed'
  <2>1. \A n \in Loop : \A e \in ToSet(sq'[n]) : e \in ToSet(sq[n])
    <3>1. ToSet(<<>>) = {}
      BY NumEmpty
    <3> QED
      BY <1>5, <3>1, SubmitFlow
  <2>2. ASSUME NEW n \in Loop, NEW e \in ToSet(cq'[n]), e.op = "msg", e \notin ToSet(cq[n])
        PROVE  /\ e.ctx \in DOMAIN contexts
               /\ IsOp(e) => FromOther(e) /\ ConnectionIdToRing(By(Carried(e))) # n
    <3>1. e \in ToSet(sq[l]) /\ e.ring = n
      BY <1>5, <2>2, SubmitFlow
    <3>2. e.ctx \in DOMAIN contexts
      BY <1>2, <2>2, <3>1
    <3>3. IsOp(e) => FromOther(e) /\ ConnectionIdToRing(By(Carried(e))) = l
      BY <3>1 DEF Addressed
    <3>4. n # l
      <4>1. Waits(l, e)
        BY <3>1 DEF Placed
      <4> QED
        BY <2>2, <3>1, <4>1 DEF Waits, IsMail, Rearm, Unprepared, Entry
    <3> QED
      BY <3>2, <3>3, <3>4
  <2>3. UNCHANGED <<inbox, task>>
    BY <1>5 DEF Submit, msgVars
  <2> QED
    BY <1>1, <2>1, <2>2, <2>3, AddressedFrame
<1>6. ASSUME NEW l \in Loop, Handle(l) PROVE Addressed'
  <2>1. task' = task /\ Took(l)
    BY <1>6 DEF Handle, Took
  <2>2. CASE Head(cq[l]).op # "msg"
    BY <1>3, <1>6, <2>1, <2>2, QuietIs
  <2>3. CASE Head(cq[l]).op = "msg"
    <3>1. PICK e \in Entries : e = Head(cq[l]) /\ e \in ToSet(cq[l])
      BY <2>1, TookFlow
    <3>2. e.op = "msg" /\ e.ctx \in DOMAIN contexts /\ e.conn \in Conn
      BY <1>2, <2>3, <3>1
    <3>3. inbox' = Delivered(l, e.conn, e.ctx) /\ sq' = sq
      BY <1>6, <3>1, <3>2 DEF Handle, Receive
    <3>4. \A n \in Loop : \A f \in ToSet(cq'[n]) : f \in ToSet(cq[n])
      BY <2>1, TookFlow
    <3>5. \A c \in Conn : \A n \in ToSet(inbox'[c]) :
            n \in ToSet(inbox[c]) \/ (n \in DOMAIN edits /\ By(n) # c)
      <4>1. IsOp(e) => FromOther(e)
        BY <3>1 DEF Addressed
      <4>2. contexts[e.ctx].msg # Notice => contexts[e.ctx].msg \in DOMAIN edits /\ By(contexts[e.ctx].msg) # e.conn
        BY <3>2, <4>1 DEF IsOp, FromOther, Carried
      <4> QED
        BY <3>2, <3>3, <4>2, DeliveredFlow
    <3> QED
      BY <1>1, <2>1, <3>3, <3>4, <3>5, AddressedFrame
  <2> QED
    BY <2>2, <2>3
<1>7. ASSUME NEW l \in Loop, Post(l) PROVE Addressed'
  <2>1. PICK t \in Tasks, rest \in Seq(Conn), to \in Conn, e \in Entries :
          /\ t = task[l] /\ rest = Tail(t.rest) /\ to = Head(t.rest) /\ t.rest \in Seq(Conn) /\ t.rest # <<>>
          /\ t.ctx \in DOMAIN contexts /\ contexts[t.ctx].msg = t.msg
          /\ t.request = "open" => t.msg = Notice
          /\ task'[l] = Posting(t, rest) /\ \A n \in Loop : n # l => task'[n] = task[n]
          /\ sq' = Prepared(l, e) /\ UNCHANGED <<cq, lost>>
          /\ \/ /\ ConnectionIdToRing(to) # l /\ e = Entry("msg", ConnectionIdToRing(to), to, t.ctx)
                /\ UNCHANGED <<contexts, inbox>>
             \/ /\ ConnectionIdToRing(to) = l /\ e.op = "accept"
                /\ inbox' = Delivered(l, to, t.ctx)
    BY <1>7, PostIs
  <2>2. t.msg # Notice => /\ t.msg \in DOMAIN edits /\ By(t.msg) = t.conn /\ ConnectionIdToRing(t.conn) = l
                          /\ IsInjective(t.rest) /\ t.conn \notin ToSet(t.rest)
    BY <2>1, TaskOp DEF Addressed
  <2>3. to \in ToSet(t.rest) /\ (\A x \in ToSet(rest) : x \in ToSet(t.rest))
        /\ (IsInjective(t.rest) => IsInjective(rest))
    BY <2>1, TailIs
  <2>4. \A c \in Conn : \A n \in ToSet(inbox'[c]) :
          n \in ToSet(inbox[c]) \/ (n \in DOMAIN edits /\ By(n) # c)
    <3>1. CASE inbox' = inbox
      BY <3>1
    <3>2. CASE inbox' = Delivered(l, to, t.ctx)
      <4>1. PICK k \in DOMAIN contexts : k = t.ctx
        BY <2>1
      <4>2. contexts[k].msg # Notice => contexts[k].msg \in DOMAIN edits /\ By(contexts[k].msg) # to
        BY <2>1, <2>2, <2>3, <4>1
      <4>3. inbox' = Delivered(l, to, k)
        BY <3>2, <4>1
      <4> QED
        BY <4>2, <4>3, DeliveredFlow
    <3> QED
      BY <2>1, <3>1, <3>2
  <2>5. ASSUME NEW n \in Loop, NEW f \in ToSet(sq'[n]), f.op = "msg", f \notin ToSet(sq[n])
        PROVE  /\ f.ctx \in DOMAIN contexts
               /\ IsOp(f) => FromOther(f) /\ ConnectionIdToRing(By(Carried(f))) = n
    <3>1. n = l /\ f = e
      BY <2>1, <2>5, PrepareFlow
    <3>2. f.conn = to /\ f.ctx = t.ctx
      BY <2>1, <2>5, <3>1 DEF Entry
    <3>3. IsOp(f) => t.msg # Notice
      BY <2>1, <3>2 DEF IsOp
    <3>4. Carried(f) = t.msg
      BY <2>1, <3>2 DEF Carried
    <3> QED
      BY <2>1, <2>2, <2>3, <3>1, <3>2, <3>3, <3>4 DEF FromOther
  <2>6. \A n \in Loop : task'[n] = task[n] \/ (task'[n].msg # Notice =>
          IsInjective(task'[n].rest) /\ task'[n].conn \notin ToSet(task'[n].rest))
    <3>1. task'[l].msg # Notice => task'[l].msg = t.msg /\ task'[l].rest = rest /\ task'[l].conn = t.conn
      BY <2>1, PostingTells
    <3> QED
      BY <2>1, <2>2, <2>3, <3>1
  <2>7. \A n \in Loop : \A f \in ToSet(cq'[n]) : f \in ToSet(cq[n])
    BY <2>1
  <2> QED
    BY <1>1, <2>4, <2>5, <2>6, <2>7, AddressedFrame
<1>8. ASSUME NEW l \in Loop, GetUserList(l) PROVE Addressed'
  <2>1. PICK t \in Tasks : t = task[l] /\ t.stage = "GetUserList" /\ t.doc \in Doc /\ InHandler(l, t)
    BY <1>8, Staged DEF GetUserList
  <2>2. t.request = "open" => t.msg = Notice
    BY <2>1 DEF InHandler, Known, OfEdit
  <2>3. UNCHANGED <<sq, cq, inbox, lost>>
    BY <1>8 DEF GetUserList, ringVars
  <2>4. PICK to \in Seq(Conn) : /\ to = Receivers(t, users[t.doc]) /\ IsInjective(to)
                                /\ t.conn \notin ToSet(to)
    BY <2>1, ReceiversAre
  <2>5. ASSUME NEW u \in Tasks, NEW rest \in Seq(Conn), Starts(l, Posting(u, rest)),
               u.msg = t.msg, u.request = t.request, u.conn = t.conn,
               IsInjective(rest), t.conn \notin ToSet(rest)
        PROVE  Addressed'
    <3>1. PICK v \in Tasks : v = Posting(u, rest)
      BY PostingIs
    <3>2. task'[l] = v
      BY <2>5, <3>1, StartsIs DEF Types
    <3>3. v.msg # Notice => v.rest = rest /\ v.conn = u.conn
      BY <2>2, <2>5, <3>1, <3>2, PostingTells
    <3> QED
      BY <1>4, <2>3, <2>5, <3>1, <3>3
  <2>6. CASE References(t, users[t.doc]) > 0
    <3>1. PICK u \in Tasks : u = [t EXCEPT !.ctx = Len(contexts) + 1]
      <4>1. Len(contexts) + 1 \in Nat
        BY NextContext DEF Types
      <4> QED
        BY <4>1 DEF Tasks
    <3>2. u.msg = t.msg /\ u.request = t.request /\ u.conn = t.conn
      BY <3>1 DEF Tasks
    <3>3. Starts(l, Posting(u, to))
      BY <1>8, <2>1, <2>4, <2>6, <3>1 DEF GetUserList
    <3> QED
      BY <2>4, <2>5, <3>2, <3>3
  <2>7. CASE ~(References(t, users[t.doc]) > 0)
    <3>1. Starts(l, Posting(t, <<>>))
      BY <1>8, <2>1, <2>7 DEF GetUserList
    <3>2. PICK none \in Seq(Conn) : none = <<>> /\ IsInjective(none) /\ ToSet(none) = {}
      <4>1. <<>> \in Seq(Conn) /\ IsInjective(<<>>) /\ ToSet(<<>>) = {}
        BY NumEmpty DEF IsInjective
      <4> QED
        BY <4>1
    <3> QED
      BY <2>5, <3>1, <3>2
  <2> QED
    BY <2>6, <2>7
<1>9. Idle \in Tasks /\ Idle.msg = Notice
  BY IdleIs DEF Idle, Task
<1>10. ASSUME NEW l \in Loop, JoinUser(l) PROVE Addressed'
  <2>1. PICK t \in Tasks : t = task[l]
    BY DEF Types
  <2>2. PICK u \in Tasks : u = [t EXCEPT !.stage = "GetUserList"]
    BY DEF Tasks, Stages
  <2>3. u.msg = t.msg /\ u.rest = t.rest /\ u.conn = t.conn
    BY <2>2 DEF Tasks
  <2>4. Starts(l, u) /\ UNCHANGED <<sq, cq, inbox, lost>>
    BY <1>10, <2>1, <2>2 DEF JoinUser, ringVars, msgVars
  <2>5. u.msg # Notice => IsInjective(u.rest) /\ u.conn \notin ToSet(u.rest)
    BY <2>1, <2>3 DEF Addressed
  <2> QED
    BY <1>4, <2>4, <2>5
<1>11. ASSUME NEW l \in Loop, GetContent(l) PROVE Addressed'
  BY <1>4, <1>9, <1>11 DEF GetContent, ringVars, msgVars
<1>12. ASSUME UNCHANGED <<sq, cq, inbox, lost, task>> PROVE Addressed'
  BY <1>3, <1>12, QuietIs
<1>13. ASSUME NEW l \in Loop, NEW c \in Conn, Request(l, c) PROVE Addressed'
  <2>1. ASSUME NEW r \in Requests, NEW s \in Stages, NEW d \in Doc \cup {NULL}, NEW m \in Nat,
               Starts(l, Task(r, s, c, d, m)), UNCHANGED <<ringVars, msgVars>>
        PROVE  Addressed'
    <3>1. PICK t \in Tasks : t = Task(r, s, c, d, m)
      BY StartIs
    <3>2. t.rest = <<>> /\ Starts(l, t)
      BY <2>1, <3>1 DEF Task
    <3>3. IsInjective(t.rest) /\ t.conn \notin ToSet(t.rest)
      <4>1. IsInjective(<<>>) /\ ToSet(<<>>) = {}
        BY NumEmpty DEF IsInjective
      <4> QED
        BY <3>2, <4>1
    <3>4. UNCHANGED <<sq, cq, inbox, lost>>
      BY <2>1 DEF ringVars, msgVars
    <3> QED
      BY <1>4, <3>2, <3>3, <3>4
  <2>2. document[c] \in Doc \cup {NULL} /\ Len(edits) + 1 \in Nat /\ Notice \in Nat
    BY DEF Types, Notice
  <2>3. ASSUME NEW d \in Doc, OpenHandle(l, c, d) PROVE Addressed'
    BY <2>1, <2>2, <2>3 DEF OpenHandle, Requests, Stages
  <2>4. ASSUME EditHandle(l, c) PROVE Addressed'
    BY <2>1, <2>2, <2>4 DEF EditHandle, Requests, Stages
  <2>5. ASSUME Starts(l, Leaving(c)), UNCHANGED <<ringVars, msgVars>> PROVE Addressed'
    BY <2>1, <2>2, <2>5 DEF Leaving, Requests, Stages
  <2>6. ASSUME UNCHANGED <<task, ringVars, msgVars>> PROVE Addressed'
    BY <1>12, <2>6 DEF ringVars, msgVars
  <2>7. ASSUME CloseHandle(l, c) PROVE Addressed'
    BY <2>5, <2>7 DEF CloseHandle
  <2>8. ASSUME NEW to \in Conn, ChatHandle(l, c, to) PROVE Addressed'
    <3>1. PICK u \in Tasks : Starts(l, u) /\ u.msg = Notice
      BY <2>8, ChatIs
    <3>2. UNCHANGED <<sq, cq, inbox, lost>>
      BY <2>8 DEF ChatHandle, ringVars
    <3> QED
      BY <1>4, <3>1, <3>2
  <2>9. ASSUME Close(l, c) PROVE Addressed'
    BY <2>6, <2>9 DEF Close
  <2>10. ASSUME Delete(l, c) PROVE Addressed'
    BY <2>5, <2>6, <2>10 DEF Delete
  <2> QED
    BY <1>13, <2>3, <2>4, <2>7, <2>8, <2>9, <2>10 DEF Request
<1>14. CASE Connect
  BY <1>3, <1>14, QuietIs DEF Connect
<1>15. CASE UNCHANGED vars
  BY <1>12, <1>15 DEF vars, ringVars, msgVars
<1> QED
  BY <1>5, <1>6, <1>7, <1>8, <1>10, <1>11, <1>13, <1>14, <1>15 DEF Next, Run

-----------------------------------------------------------------------------
(* OPs keep the order of the edits. *)

(* A step keeps InOrder if it does so for the contexts and edits there are. *)
LEMMA OrderOnward ==
  ASSUME Types, Placed, Grows,
         \A c \in Conn : \A n \in ToSet(inbox'[c]) : n \in DOMAIN edits,
         \A e : Queued(e)' /\ e.op = "msg" =>
           /\ e.ctx \in DOMAIN contexts /\ e.conn \in Conn
           /\ IsOp(e) => Carried(e) \in DOMAIN edits,
         \A c \in Conn : \A m, n : Comes(inbox'[c], m, n) => Before(m, n),
         \A e, f : Ahead(e, f)' /\ Queued(e)' /\ Queued(f)' /\ IsOp(e) /\ IsOp(f) /\ e.conn = f.conn =>
           Before(Carried(e), Carried(f)),
         \A e : Queued(e)' /\ IsOp(e) => \A m \in ToSet(inbox'[e.conn]) : Before(m, Carried(e)),
         \A l \in Loop, c \in Conn : Telling(l, c)' =>
           \/ task'[l].msg = Len(edits) + 1
           \/ /\ task'[l].msg \in DOMAIN edits
              /\ \A m \in ToSet(inbox'[c]) : Before(m, task'[l].msg)
              /\ \A e : Queued(e)' /\ IsOp(e) /\ e.conn = c => Before(Carried(e), task'[l].msg)
  PROVE  InOrder'
<1>1. /\ \A e : e.ctx \in DOMAIN contexts => (IsOp(e)' <=> IsOp(e)) /\ Carried(e)' = Carried(e)
      /\ \A m, n \in DOMAIN edits : Before(m, n) => Before(m, n)'
      /\ \A n \in DOMAIN edits : n \in Nat
  BY OpsStay
<1>2. ASSUME NEW c \in Conn, NEW m, NEW n, Comes(inbox'[c], m, n) PROVE Before(m, n)'
  <2>1. m \in DOMAIN edits /\ n \in DOMAIN edits
    BY <1>2, ComesIn
  <2> QED
    BY <1>1, <1>2, <2>1
<1>3. \A e : Queued(e)' /\ IsOp(e)' =>
        /\ IsOp(e) /\ e.conn \in Conn /\ Carried(e)' = Carried(e) /\ Carried(e) \in DOMAIN edits
  <2>1. \A e : IsOp(e)' => e.op = "msg"
    BY DEF IsOp
  <2> QED
    BY <1>1, <2>1
<1>4. \A e, f : Ahead(e, f)' => Queued(e)' /\ Queued(f)'
  BY ComesIn DEF Ahead, Queued
<1>5. ASSUME NEW e, NEW f, Ahead(e, f)', IsOp(e)', IsOp(f)', e.conn = f.conn
      PROVE  Before(Carried(e), Carried(f))'
  <2>1. Queued(e)' /\ Queued(f)'
    BY <1>4, <1>5
  <2>2. PICK m \in DOMAIN edits, n \in DOMAIN edits :
          m = Carried(e) /\ n = Carried(f) /\ Carried(e)' = m /\ Carried(f)' = n
    BY <1>3, <1>5, <2>1
  <2>3. Before(m, n)
    BY <1>3, <1>5, <2>1, <2>2
  <2>4. Before(m, n)'
    BY <1>1, <2>3
  <2> QED
    BY <2>2, <2>4 DEF Before, By
<1>6. ASSUME NEW e, Queued(e)', IsOp(e)', NEW m \in ToSet(inbox'[e.conn]) PROVE Before(m, Carried(e))'
  <2>1. PICK n \in DOMAIN edits : n = Carried(e) /\ Carried(e)' = n
    BY <1>3, <1>6
  <2>2. m \in DOMAIN edits
    BY <1>3, <1>6
  <2>3. Before(m, n)
    BY <1>3, <1>6, <2>1
  <2>4. Before(m, n)'
    BY <1>1, <2>2, <2>3
  <2> QED
    BY <2>1, <2>4 DEF Before, By
<1>7. ASSUME NEW l \in Loop, NEW c \in Conn, Telling(l, c)'
      PROVE  /\ \A m \in ToSet(inbox'[c]) : Before(m, task[l].msg)'
             /\ \A e : Queued(e)' /\ IsOp(e)' /\ e.conn = c => Before(Carried(e), task[l].msg)'
  <2>1. PICK n : n = task'[l].msg
    OBVIOUS
  <2>2. ASSUME NEW m \in DOMAIN edits, n = Len(edits) + 1 PROVE m < n
    <3>1. PICK k \in Nat : k = Len(edits) /\ DOMAIN edits = 1..k
      BY DEF Types
    <3> QED
      BY <2>2, <3>1
  <2>3. \A m \in ToSet(inbox'[c]) : Before(m, n)'
    <3> SUFFICES ASSUME NEW m \in ToSet(inbox'[c]) PROVE Before(m, n)'
      OBVIOUS
    <3>1. m \in DOMAIN edits
      OBVIOUS
    <3>2. CASE n = Len(edits) + 1
      BY <2>2, <3>1, <3>2 DEF Before
    <3>3. CASE n \in DOMAIN edits /\ Before(m, n)
      BY <1>1, <3>1, <3>3
    <3> QED
      BY <1>7, <2>1, <3>2, <3>3
  <2>4. ASSUME NEW e, Queued(e)', IsOp(e)', e.conn = c PROVE Before(Carried(e), n)'
    <3>1. PICK m \in DOMAIN edits : m = Carried(e) /\ Carried(e)' = m
      BY <1>3, <2>4
    <3>2. CASE n = Len(edits) + 1
      <4>1. Before(m, n)'
        BY <2>2, <3>2 DEF Before
      <4> QED
        BY <3>1, <4>1 DEF Before, By
    <3>3. CASE n \in DOMAIN edits /\ Before(m, n)
      <4>1. Before(m, n)'
        BY <1>1, <3>3
      <4> QED
        BY <3>1, <4>1 DEF Before, By
    <3>4. IsOp(e)
      BY <1>3, <2>4
    <3> QED
      BY <1>7, <2>1, <2>4, <3>1, <3>2, <3>3, <3>4
  <2> QED
    BY <2>1, <2>3, <2>4 DEF Before, By
<1> QED
  BY <1>2, <1>5, <1>6, <1>7 DEF InOrder

(* A step that gives nobody anything and moves nothing ahead of anything.   *)
LEMMA OrderFrame ==
  ASSUME Types, Placed, Control, Grows, Addressed, InOrder, inbox' = inbox,
         \A e : e.op = "msg" /\ Queued(e)' => Queued(e),
         \A e, f : Ahead(e, f)' /\ e.op = "msg" /\ f.op = "msg" =>
           Ahead(e, f) \/ (IsOp(e) /\ IsOp(f) => By(Carried(e)) # By(Carried(f))),
         \A l \in Loop, c \in Conn : Telling(l, c)' =>
           task'[l].msg = Len(edits) + 1 \/ (Telling(l, c) /\ task'[l].msg = task[l].msg)
  PROVE  InOrder'
<1>1. \A c \in Conn : \A n \in ToSet(inbox'[c]) : n \in DOMAIN edits
  BY DEF Addressed
<1>2. \A e : e.op = "msg" /\ Queued(e) =>
        /\ e.ctx \in DOMAIN contexts /\ e.conn \in Conn
        /\ IsOp(e) => Carried(e) \in DOMAIN edits
  <2>1. \A e : Queued(e) /\ IsOp(e) => FromOther(e)
    BY DEF Addressed, Queued
  <2> QED
    BY <2>1, OpsStay DEF Queued, FromOther
<1>3. \A e : IsOp(e) => e.op = "msg"
  BY DEF IsOp
<1>4. \A c \in Conn : \A m, n : Comes(inbox'[c], m, n) => Before(m, n)
  BY DEF InOrder
<1>5. \A e, f : Ahead(e, f)' /\ IsOp(e) /\ IsOp(f) /\ e.conn = f.conn => Before(Carried(e), Carried(f))
  <2> SUFFICES ASSUME NEW e, NEW f, Ahead(e, f)', IsOp(e), IsOp(f), e.conn = f.conn
               PROVE  Before(Carried(e), Carried(f))
    OBVIOUS
  <2>1. Ahead(e, f) \/ By(Carried(e)) # By(Carried(f))
    BY <1>3
  <2> QED
    BY <2>1 DEF InOrder, Before
<1>6. \A e : Queued(e)' /\ IsOp(e) => \A m \in ToSet(inbox'[e.conn]) : Before(m, Carried(e))
  BY <1>3 DEF InOrder
<1>7. ASSUME NEW l \in Loop, NEW c \in Conn, Telling(l, c)', task'[l].msg # Len(edits) + 1
      PROVE  /\ task'[l].msg \in DOMAIN edits
             /\ \A m \in ToSet(inbox'[c]) : Before(m, task'[l].msg)
             /\ \A e : Queued(e)' /\ IsOp(e) /\ e.conn = c => Before(Carried(e), task'[l].msg)
  <2>1. Telling(l, c) /\ task'[l].msg = task[l].msg
    BY <1>7
  <2>2. task[l].msg \in DOMAIN edits
    BY <2>1, TaskOp DEF Telling
  <2>3. /\ \A m \in ToSet(inbox[c]) : Before(m, task[l].msg)
        /\ \A e : Queued(e) /\ IsOp(e) /\ e.conn = c => Before(Carried(e), task[l].msg)
    BY <2>1 DEF InOrder
  <2> QED
    BY <1>3, <2>1, <2>2, <2>3
<1>8. \A e : Queued(e)' /\ e.op = "msg" =>
        /\ e.ctx \in DOMAIN contexts /\ e.conn \in Conn
        /\ IsOp(e) => Carried(e) \in DOMAIN edits
  BY <1>2
<1>9. \A e, f : Ahead(e, f)' /\ Queued(e)' /\ Queued(f)' /\ IsOp(e) /\ IsOp(f) /\ e.conn = f.conn =>
        Before(Carried(e), Carried(f))
  BY <1>5
<1>10. \A l \in Loop, c \in Conn : Telling(l, c)' =>
         \/ task'[l].msg = Len(edits) + 1
         \/ /\ task'[l].msg \in DOMAIN edits
            /\ \A m \in ToSet(inbox'[c]) : Before(m, task'[l].msg)
            /\ \A e : Queued(e)' /\ IsOp(e) /\ e.conn = c => Before(Carried(e), task'[l].msg)
  BY <1>7
<1> QED
  BY <1>1, <1>4, <1>6, <1>8, <1>9, <1>10, OrderOnward

(* What goes on from the queue of one loop was edited there, so that no     *)
(* queue of another loop has an OP of the same editor.                      *)
LEMMA OrderSubmit ==
  ASSUME Types, Placed, Control, Grows, Addressed, InOrder, NEW l \in Loop, Submit(l)
  PROVE  InOrder'
<1>1. /\ sq'[l] = <<>> /\ \A n \in Loop : n # l => sq'[n] = sq[n]
      /\ \A n \in Loop : \A e \in ToSet(cq'[n]) :
           e \in ToSet(cq[n]) \/ (e \in ToSet(sq[l]) /\ e.ring = n)
      /\ \A n \in Loop : \A e, f : Comes(cq'[n], e, f) =>
           \/ Comes(cq[n], e, f) \/ Comes(sq[l], e, f)
           \/ e \in ToSet(cq[n]) /\ f \in ToSet(sq[l])
  BY SubmitFlow
<1>2. ToSet(sq'[l]) = {} /\ \A e, f : ~Comes(sq'[l], e, f)
  <2>1. ToSet(<<>>) = {} /\ \A e, f : ~Comes(<<>>, e, f)
    BY NumEmpty, ComesNone
  <2> QED
    BY <1>1, <2>1
<1>3. UNCHANGED <<inbox, task>>
  BY DEF Submit, msgVars
<1>4. \A e : Queued(e)' => Queued(e)
  BY <1>1, <1>2 DEF Queued
<1>5. ASSUME NEW e, NEW f, Ahead(e, f)', ~Ahead(e, f), IsOp(e), IsOp(f)
      PROVE  By(Carried(e)) # By(Carried(f))
  <2>1. \A n \in Loop : Comes(sq'[n], e, f) => Ahead(e, f)
    BY <1>1, <1>2 DEF Ahead
  <2>2. \A n \in Loop : Comes(cq'[n], e, f) => Ahead(e, f)
    BY <1>1 DEF Ahead
  <2>3. PICK i \in Loop, n \in Loop : e \in ToSet(cq'[n]) /\ f \in ToSet(sq'[i])
    BY <1>5, <2>1, <2>2 DEF Ahead
  <2>4. i # l /\ f \in ToSet(sq[i])
    BY <1>1, <1>2, <2>3
  <2>5. e \in ToSet(sq[l])
    BY <1>1, <1>5, <2>3, <2>4 DEF Ahead
  <2> QED
    BY <1>5, <2>4, <2>5 DEF Addressed
<1>6. \A n \in Loop, c \in Conn : Telling(n, c)' => Telling(n, c) /\ task'[n].msg = task[n].msg
  BY <1>3 DEF Telling
<1> QED
  BY <1>3, <1>4, <1>5, <1>6, OrderFrame

(* A step that has nothing to do with messages but for the handler's stage. *)
LEMMA OrderQuiet ==
  ASSUME Types, Placed, Control, Grows, Addressed, InOrder, Quiet,
         \A l \in Loop, c \in Conn : Telling(l, c)' =>
           task'[l].msg = Len(edits) + 1 \/ (Telling(l, c) /\ task'[l].msg = task[l].msg)
  PROVE  InOrder'
<1>1. inbox' = inbox
  BY DEF Quiet
<1>2. \A e : e.op = "msg" /\ Queued(e)' => Queued(e)
  BY DEF Quiet, Queued
<1>3. \A e, f : Ahead(e, f)' /\ e.op = "msg" /\ f.op = "msg" => Ahead(e, f)
  BY DEF Quiet, Ahead
<1> QED
  BY <1>1, <1>2, <1>3, OrderFrame

(* A connection is given what was ahead of all else that is on its way.     *)
LEMMA OrderHandle ==
  ASSUME Types, Placed, Control, Grows, Addressed, Addressed', InOrder,
         NEW l \in Loop, Handle(l), Head(cq[l]).op = "msg"
  PROVE  InOrder'
<1>1. Took(l) /\ UNCHANGED <<task, edits>>
  BY DEF Handle, Took, docVars
<1>2. PICK x \in Entries : x = Head(cq[l]) /\ x \in ToSet(cq[l]) /\ x.op = "msg"
  BY <1>1, TookFlow
<1>3. PICK k \in DOMAIN contexts, c \in Conn : k = x.ctx /\ c = x.conn /\ x.ring = ConnectionIdToRing(c)
  BY <1>2, OpsStay
<1>4. inbox' = Delivered(l, c, k) /\ sq' = sq
  BY <1>2, <1>3 DEF Handle, Receive
<1>5. x.ring = l
  BY <1>2 DEF Placed, Arrives
<1>6. PICK n : n = contexts[k].msg /\ n = Carried(x) /\ (n # Notice <=> IsOp(x))
  BY <1>2, <1>3 DEF Carried, IsOp
<1>7. /\ \A b \in Conn : b # c => inbox'[b] = inbox[b]
      /\ \A m \in ToSet(inbox'[c]) : m \in ToSet(inbox[c]) \/ (m = n /\ n # Notice)
      /\ \A m, j : Comes(inbox'[c], m, j) => Comes(inbox[c], m, j) \/ (m \in ToSet(inbox[c]) /\ j = n /\ n # Notice)
  <2>1. /\ \A b \in Conn : b # c => inbox'[b] = inbox[b]
        /\ \A m \in ToSet(inbox'[c]) :
             m \in ToSet(inbox[c]) \/ (m = contexts[k].msg /\ contexts[k].msg # Notice)
        /\ \A m, j : Comes(inbox'[c], m, j) =>
             \/ Comes(inbox[c], m, j)
             \/ m \in ToSet(inbox[c]) /\ j = contexts[k].msg /\ contexts[k].msg # Notice
    BY <1>4, DeliveredFlow
  <2> QED
    BY <1>6, <2>1
<1>8. Queued(x)
  BY <1>2 DEF Queued
<1>9. /\ \A e : Queued(e)' => Queued(e)
      /\ \A e, f : Ahead(e, f)' => Ahead(e, f)
  <2>1. \A i \in Loop : \A e \in ToSet(cq'[i]) : e \in ToSet(cq[i])
    BY <1>1, TookFlow
  <2>2. \A i \in Loop : \A e, f : Comes(cq'[i], e, f) => Comes(cq[i], e, f)
    BY <1>1, TookFlow
  <2> QED
    BY <1>4, <2>1, <2>2 DEF Queued, Ahead
<1>10. ASSUME NEW e, Queued(e)', IsOp(e), e.conn = c PROVE Ahead(x, e)
  <2>1. CASE \E i \in Loop : e \in ToSet(sq'[i])
    BY <1>2, <1>4, <2>1 DEF Ahead
  <2>2. ASSUME NEW i \in Loop, e \in ToSet(cq'[i]) PROVE Ahead(x, e)
    <3>1. e \in ToSet(cq[i]) /\ (i = l => Comes(cq[l], x, e))
      BY <1>1, <1>2, <2>2, TookFlow
    <3>2. e.ring = i /\ e.ring = ConnectionIdToRing(e.conn)
      <4>1. e.op = "msg"
        BY <1>10 DEF IsOp
      <4> QED
        BY <3>1, <4>1, OpsStay DEF Placed, Arrives
    <3> QED
      BY <1>3, <1>5, <1>10, <3>1, <3>2 DEF Ahead
  <2> QED
    BY <1>10, <2>1, <2>2 DEF Queued
<1>11. \A b \in Conn : \A m \in ToSet(inbox'[b]) : m \in DOMAIN edits
  BY <1>1 DEF Addressed
<1>12. \A e : Queued(e)' /\ e.op = "msg" =>
         /\ e.ctx \in DOMAIN contexts /\ e.conn \in Conn
         /\ IsOp(e) => Carried(e) \in DOMAIN edits
  <2>1. \A e : Queued(e) /\ IsOp(e) => FromOther(e)
    BY DEF Addressed, Queued
  <2> QED
    BY <1>9, <2>1, OpsStay DEF Queued, FromOther
<1>13. \A b \in Conn : \A m, j : Comes(inbox'[b], m, j) => Before(m, j)
  <2>1. n # Notice => \A m \in ToSet(inbox[c]) : Before(m, n)
    BY <1>3, <1>6, <1>8 DEF InOrder
  <2> QED
    BY <1>7, <2>1 DEF InOrder
<1>14. \A e, f : Ahead(e, f)' /\ Queued(e)' /\ Queued(f)' /\ IsOp(e) /\ IsOp(f) /\ e.conn = f.conn =>
         Before(Carried(e), Carried(f))
  BY <1>9 DEF InOrder
<1>15. ASSUME NEW e, Queued(e)', IsOp(e), NEW m \in ToSet(inbox'[e.conn]) PROVE Before(m, Carried(e))
  <2>1. e.conn \in Conn
    BY <1>12, <1>15 DEF IsOp
  <2>2. m \in ToSet(inbox[e.conn]) \/ (m = n /\ n # Notice /\ e.conn = c)
    BY <1>7, <1>15, <2>1
  <2>3. CASE m \in ToSet(inbox[e.conn])
    BY <1>9, <1>15, <2>3 DEF InOrder
  <2>4. CASE m = n /\ n # Notice /\ e.conn = c
    <3>1. Ahead(x, e) /\ IsOp(x)
      BY <1>6, <1>10, <1>15, <2>4
    <3> QED
      BY <1>3, <1>6, <1>15, <2>4, <3>1 DEF InOrder
  <2> QED
    BY <2>2, <2>3, <2>4
<1>16. ASSUME NEW i \in Loop, NEW b \in Conn, Telling(i, b)'
       PROVE  /\ task'[i].msg \in DOMAIN edits
              /\ \A m \in ToSet(inbox'[b]) : Before(m, task'[i].msg)
              /\ \A e : Queued(e)' /\ IsOp(e) /\ e.conn = b => Before(Carried(e), task'[i].msg)
  <2>1. Telling(i, b) /\ task'[i] = task[i]
    BY <1>1, <1>16 DEF Telling
  <2>2. task[i].msg \in DOMAIN edits
    BY <2>1, TaskOp DEF Telling
  <2>3. /\ \A m \in ToSet(inbox[b]) : Before(m, task[i].msg)
        /\ \A e : Queued(e) /\ IsOp(e) /\ e.conn = b => Before(Carried(e), task[i].msg)
    BY <2>1 DEF InOrder
  <2>4. \A m \in ToSet(inbox'[b]) : m \in ToSet(inbox[b]) \/ (m = Carried(x) /\ IsOp(x) /\ b = x.conn)
    BY <1>3, <1>6, <1>7
  <2> QED
    BY <1>8, <1>9, <2>1, <2>2, <2>3, <2>4
<1> QED
  BY <1>11, <1>12, <1>13, <1>14, <1>15, <1>16, OrderOnward

(* The edit a handler tells of is the last of its editor that is on its way *)
(* to those it has still to tell.                                           *)
LEMMA OrderPost ==
  ASSUME Types, Types', Placed, Control, Grows, Addressed, InOrder, NEW l \in Loop, Post(l)
  PROVE  InOrder'
<1>1. PICK t \in Tasks, rest \in Seq(Conn), to \in Conn, x \in Entries :
        /\ t = task[l] /\ rest = Tail(t.rest) /\ to = Head(t.rest) /\ t.rest \in Seq(Conn) /\ t.rest # <<>>
        /\ t.ctx \in DOMAIN contexts /\ contexts[t.ctx].msg = t.msg
        /\ t.request = "open" => t.msg = Notice
        /\ task'[l] = Posting(t, rest) /\ \A n \in Loop : n # l => task'[n] = task[n]
        /\ sq' = Prepared(l, x) /\ UNCHANGED <<cq, edits>>
        /\ \/ /\ ConnectionIdToRing(to) # l /\ x = Entry("msg", ConnectionIdToRing(to), to, t.ctx)
              /\ UNCHANGED <<contexts, inbox>>
           \/ /\ ConnectionIdToRing(to) = l /\ x.op = "accept"
              /\ inbox' = Delivered(l, to, t.ctx)
  BY PostIs
<1>2. to \in ToSet(t.rest) /\ (\A c \in ToSet(rest) : c \in ToSet(t.rest))
      /\ (IsInjective(t.rest) => to \notin ToSet(rest))
  BY <1>1, TailIs
<1>3. t.msg # Notice => /\ t.msg \in DOMAIN edits /\ By(t.msg) = t.conn /\ ConnectionIdToRing(t.conn) = l
                        /\ to \notin ToSet(rest)
  BY <1>1, <1>2, TaskOp DEF Addressed
<1>4. \A c \in Conn : t.msg # Notice /\ c \in ToSet(t.rest) =>
        /\ \A m \in ToSet(inbox[c]) : Before(m, t.msg)
        /\ \A e : Queued(e) /\ IsOp(e) /\ e.conn = c => Before(Carried(e), t.msg)
  BY <1>1 DEF InOrder, Telling
<1>5. ASSUME NEW c \in Conn, Telling(l, c)'
      PROVE  t.msg # Notice /\ task'[l].msg = t.msg /\ c \in ToSet(t.rest) /\ c # to
  <2>1. task'[l].msg # Notice
    BY <1>5 DEF Telling
  <2>2. task'[l].msg = t.msg /\ task'[l].rest = rest /\ task'[l].stage = "Post"
    BY <1>1, <2>1, PostingTells
  <2>3. c \in ToSet(rest)
    BY <1>5, <2>2 DEF Telling
  <2> QED
    BY <1>2, <1>3, <2>1, <2>2, <2>3
<1>6. \A i \in Loop, c \in Conn : i # l /\ Telling(i, c)' =>
        /\ Telling(i, c) /\ task'[i].msg = task[i].msg /\ task[i].msg \in DOMAIN edits
        /\ t.msg # Notice => By(task[i].msg) # By(t.msg)
  <2> SUFFICES ASSUME NEW i \in Loop, NEW c \in Conn, i # l, Telling(i, c)'
               PROVE  /\ Telling(i, c) /\ task'[i].msg = task[i].msg /\ task[i].msg \in DOMAIN edits
                      /\ t.msg # Notice => By(task[i].msg) # By(t.msg)
    OBVIOUS
  <2>1. Telling(i, c) /\ task'[i].msg = task[i].msg
    BY <1>1 DEF Telling
  <2>2. task[i].msg \in DOMAIN edits /\ ConnectionIdToRing(By(task[i].msg)) = i
    BY <2>1, TaskOp DEF Telling
  <2> QED
    BY <1>3, <2>1, <2>2
<1>7. /\ \A e : Queued(e)' => Queued(e) \/ e = x
      /\ \A e, f : Ahead(e, f)' => Ahead(e, f) \/ (Queued(e) /\ f = x)
  <2>1. /\ \A n \in Loop : n # l => sq'[n] = sq[n]
        /\ \A e \in ToSet(sq'[l]) : e \in ToSet(sq[l]) \/ e = x
        /\ \A e, f : Comes(sq'[l], e, f) => Comes(sq[l], e, f) \/ (e \in ToSet(sq[l]) /\ f = x)
    BY <1>1, PrepareFlow
  <2>2. \A n \in Loop : \A e \in ToSet(sq'[n]) : e \in ToSet(sq[n]) \/ e = x
    BY <2>1
  <2>3. \A n \in Loop : \A e, f : Comes(sq'[n], e, f) => Comes(sq[n], e, f) \/ (Queued(e) /\ f = x)
    BY <2>1 DEF Queued
  <2>4. cq' = cq
    BY <1>1
  <2>5. \A e : Queued(e)' => Queued(e) \/ e = x
    BY <2>2, <2>4 DEF Queued
  <2>6. ASSUME NEW e, NEW f, Ahead(e, f)' PROVE Ahead(e, f) \/ (Queued(e) /\ f = x)
    <3>1. ASSUME NEW n \in Loop, Comes(sq'[n], e, f) PROVE Ahead(e, f) \/ (Queued(e) /\ f = x)
      BY <2>3, <3>1 DEF Ahead
    <3>2. ASSUME NEW n \in Loop, Comes(cq'[n], e, f) PROVE Ahead(e, f)
      BY <2>4, <3>2 DEF Ahead
    <3>3. ASSUME NEW n \in Loop, NEW i \in Loop, e \in ToSet(cq'[n]), f \in ToSet(sq'[i])
          PROVE  Ahead(e, f) \/ (Queued(e) /\ f = x)
      <4>1. e \in ToSet(cq[n]) /\ Queued(e)
        BY <2>4, <3>3 DEF Queued
      <4>2. f \in ToSet(sq[i]) \/ f = x
        BY <2>2, <3>3
      <4> QED
        BY <4>1, <4>2 DEF Ahead
    <3> QED
      BY <2>6, <3>1, <3>2, <3>3 DEF Ahead
  <2> QED
    BY <2>5, <2>6
<1>8. \A e : e.op = "msg" /\ Queued(e) =>
        /\ e.ctx \in DOMAIN contexts /\ e.conn \in Conn
        /\ IsOp(e) => Carried(e) \in DOMAIN edits
  <2>1. \A e : Queued(e) /\ IsOp(e) => FromOther(e)
    BY DEF Addressed, Queued
  <2> QED
    BY <2>1, OpsStay DEF Queued, FromOther
<1>9. \A e : IsOp(e) => e.op = "msg"
  BY DEF IsOp
<1>10. CASE inbox' = inbox /\ x = Entry("msg", ConnectionIdToRing(to), to, t.ctx)
  <2>1. x.conn = to /\ x.ctx = t.ctx /\ Carried(x) = t.msg /\ (IsOp(x) <=> t.msg # Notice)
    BY <1>1, <1>10 DEF Entry, Carried, IsOp
  <2>2. \A c \in Conn : \A n \in ToSet(inbox'[c]) : n \in DOMAIN edits
    BY <1>10 DEF Addressed
  <2>3. \A e : Queued(e)' /\ e.op = "msg" =>
          /\ e.ctx \in DOMAIN contexts /\ e.conn \in Conn
          /\ IsOp(e) => Carried(e) \in DOMAIN edits
    BY <1>1, <1>3, <1>7, <1>8, <2>1
  <2>4. \A c \in Conn : \A m, n : Comes(inbox'[c], m, n) => Before(m, n)
    BY <1>10 DEF InOrder
  <2>5. ASSUME NEW e, NEW f, Ahead(e, f)', IsOp(e), IsOp(f), e.conn = f.conn
        PROVE  Before(Carried(e), Carried(f))
    <3>1. CASE Ahead(e, f)
      BY <2>5, <3>1 DEF InOrder
    <3>2. CASE Queued(e) /\ f = x
      BY <1>2, <1>4, <2>1, <2>5, <3>2
    <3> QED
      BY <1>7, <2>5, <3>1, <3>2
  <2>6. ASSUME NEW e, Queued(e)', IsOp(e), NEW m \in ToSet(inbox'[e.conn]) PROVE Before(m, Carried(e))
    <3>1. CASE Queued(e)
      BY <1>10, <2>6, <3>1 DEF InOrder
    <3>2. CASE e = x
      BY <1>2, <1>4, <1>10, <2>1, <2>6, <3>2
    <3> QED
      BY <1>7, <2>6, <3>1, <3>2
  <2>7. ASSUME NEW i \in Loop, NEW c \in Conn, Telling(i, c)'
        PROVE  /\ task'[i].msg \in DOMAIN edits
               /\ \A m \in ToSet(inbox'[c]) : Before(m, task'[i].msg)
               /\ \A e : Queued(e)' /\ IsOp(e) /\ e.conn = c => Before(Carried(e), task'[i].msg)
    <3>1. CASE i = l
      <4>1. t.msg # Notice /\ task'[l].msg = t.msg /\ c \in ToSet(t.rest) /\ c # to
        BY <1>5, <2>7, <3>1
      <4>2. \A e : Queued(e)' /\ e.conn = c => Queued(e)
        BY <1>7, <2>1, <4>1
      <4> QED
        BY <1>3, <1>4, <1>10, <3>1, <4>1, <4>2
    <3>2. CASE i # l
      <4>1. /\ Telling(i, c) /\ task'[i].msg = task[i].msg /\ task[i].msg \in DOMAIN edits
            /\ t.msg # Notice => By(task[i].msg) # By(t.msg)
        BY <1>6, <2>7, <3>2
      <4>2. IsOp(x) => Before(Carried(x), task[i].msg)
        BY <2>1, <4>1 DEF Before
      <4>3. /\ \A m \in ToSet(inbox[c]) : Before(m, task[i].msg)
            /\ \A e : Queued(e) /\ IsOp(e) /\ e.conn = c => Before(Carried(e), task[i].msg)
        BY <4>1 DEF InOrder
      <4> QED
        BY <1>7, <1>10, <4>1, <4>2, <4>3
    <3> QED
      BY <3>1, <3>2
  <2> QED
    BY <2>2, <2>3, <2>4, <2>5, <2>6, <2>7, OrderOnward
<1>11. CASE ConnectionIdToRing(to) = l /\ x.op = "accept" /\ inbox' = Delivered(l, to, t.ctx)
  <2>1. PICK k \in DOMAIN contexts : k = t.ctx /\ contexts[k].msg = t.msg
    BY <1>1
  <2>2. /\ \A b \in Conn : b # to => inbox'[b] = inbox[b]
        /\ \A m \in ToSet(inbox'[to]) : m \in ToSet(inbox[to]) \/ (m = t.msg /\ t.msg # Notice)
        /\ \A m, n : Comes(inbox'[to], m, n) =>
             Comes(inbox[to], m, n) \/ (m \in ToSet(inbox[to]) /\ n = t.msg /\ t.msg # Notice)
    <3>1. inbox' = Delivered(l, to, k)
      BY <1>11, <2>1
    <3>2. /\ \A b \in Conn : b # to => inbox'[b] = inbox[b]
          /\ \A m \in ToSet(inbox'[to]) :
               m \in ToSet(inbox[to]) \/ (m = contexts[k].msg /\ contexts[k].msg # Notice)
          /\ \A m, n : Comes(inbox'[to], m, n) =>
               \/ Comes(inbox[to], m, n)
               \/ m \in ToSet(inbox[to]) /\ n = contexts[k].msg /\ contexts[k].msg # Notice
      BY <3>1, DeliveredFlow
    <3> QED
      BY <2>1, <3>2
  <2>3. \A e : Queued(e)' /\ e.op = "msg" => Queued(e)
    BY <1>7, <1>11
  <2>4. \A e, f : Ahead(e, f)' /\ f.op = "msg" => Ahead(e, f)
    BY <1>7, <1>11
  <2>5. \A c \in Conn : \A n \in ToSet(inbox'[c]) : n \in DOMAIN edits
    BY <1>3, <2>2 DEF Addressed
  <2>6. \A e : Queued(e)' /\ e.op = "msg" =>
          /\ e.ctx \in DOMAIN contexts /\ e.conn \in Conn
          /\ IsOp(e) => Carried(e) \in DOMAIN edits
    BY <1>8, <2>3
  <2>7. \A c \in Conn : \A m, n : Comes(inbox'[c], m, n) => Before(m, n)
    BY <1>2, <1>4, <2>2 DEF InOrder
  <2>8. \A e, f : Ahead(e, f)' /\ IsOp(e) /\ IsOp(f) /\ e.conn = f.conn => Before(Carried(e), Carried(f))
    BY <1>9, <2>4 DEF InOrder
  <2>9. ASSUME NEW e, Queued(e), IsOp(e), e.conn = to PROVE ConnectionIdToRing(By(Carried(e))) # l
    <3>1. CASE \E i \in Loop : e \in ToSet(cq[i])
      <4>1. PICK i \in Loop : e \in ToSet(cq[i])
        BY <3>1
      <4>2. e.ring = i /\ e.ring = ConnectionIdToRing(to)
        BY <1>9, <2>9, <4>1, OpsStay DEF Placed, Arrives
      <4> QED
        BY <1>11, <2>9, <4>1, <4>2 DEF Addressed
    <3>2. CASE \E i \in Loop : e \in ToSet(sq[i])
      <4>1. PICK i \in Loop : e \in ToSet(sq[i])
        BY <3>2
      <4>2. e.op = "msg" /\ e.ring = ConnectionIdToRing(to)
        BY <1>9, <2>9, <4>1, OpsStay
      <4>3. Waits(i, e)
        BY <4>1 DEF Placed
      <4>4. i # l
        BY <1>11, <4>2, <4>3 DEF Waits, IsMail, Rearm, Unprepared, Entry
      <4> QED
        BY <2>9, <4>1, <4>4 DEF Addressed
    <3> QED
      BY <2>9, <3>1, <3>2 DEF Queued
  <2>10. ASSUME NEW e, Queued(e)', IsOp(e), NEW m \in ToSet(inbox'[e.conn]) PROVE Before(m, Carried(e))
    <3>1. Queued(e) /\ e.conn \in Conn
      BY <1>9, <2>3, <2>6, <2>10
    <3>2. CASE m \in ToSet(inbox[e.conn])
      BY <2>10, <3>1, <3>2 DEF InOrder
    <3>3. CASE m = t.msg /\ t.msg # Notice /\ e.conn = to
      BY <1>3, <2>9, <2>10, <3>1, <3>3 DEF Before
    <3> QED
      BY <2>2, <2>10, <3>1, <3>2, <3>3
  <2>11. ASSUME NEW i \in Loop, NEW c \in Conn, Telling(i, c)'
         PROVE  /\ task'[i].msg \in DOMAIN edits
                /\ \A m \in ToSet(inbox'[c]) : Before(m, task'[i].msg)
                /\ \A e : Queued(e)' /\ IsOp(e) /\ e.conn = c => Before(Carried(e), task'[i].msg)
    <3>1. CASE i = l
      <4>1. t.msg # Notice /\ task'[l].msg = t.msg /\ c \in ToSet(t.rest) /\ c # to
        BY <1>5, <2>11, <3>1
      <4>2. inbox'[c] = inbox[c]
        BY <2>2, <4>1
      <4> QED
        BY <1>3, <1>4, <1>9, <2>3, <3>1, <4>1, <4>2
    <3>2. CASE i # l
      <4>1. /\ Telling(i, c) /\ task'[i].msg = task[i].msg /\ task[i].msg \in DOMAIN edits
            /\ t.msg # Notice => By(task[i].msg) # By(t.msg)
        BY <1>6, <2>11, <3>2
      <4>2. t.msg # Notice => Before(t.msg, task[i].msg)
        BY <4>1 DEF Before
      <4>3. /\ \A m \in ToSet(inbox[c]) : Before(m, task[i].msg)
            /\ \A e : Queued(e) /\ IsOp(e) /\ e.conn = c => Before(Carried(e), task[i].msg)
        BY <4>1 DEF InOrder
      <4>4. \A m \in ToSet(inbox'[c]) : m \in ToSet(inbox[c]) \/ (m = t.msg /\ t.msg # Notice)
        BY <2>2
      <4> QED
        BY <1>9, <2>3, <4>1, <4>2, <4>3, <4>4
    <3> QED
      BY <3>1, <3>2
  <2> QED
    BY <2>5, <2>6, <2>7, <2>8, <2>10, <2>11, OrderOnward
<1> QED
  BY <1>1, <1>10, <1>11

(* Every step keeps the order.                                              *)
LEMMA OrderNext ==
  ASSUME Types, Types', Placed, Accepting, Control, Listed, Addressed, Addressed', InOrder, [Next]_vars
  PROVE  InOrder'
<1>1. Grows
  BY ContextsGrow
<1>2. ASSUME UNCHANGED <<sq, cq, inbox, lost>>, NEW l \in Loop, NEW t \in Tasks, Starts(l, t),
             t.msg # Notice =>
               t.msg = Len(edits) + 1 \/ (t.msg = task[l].msg /\ task[l].stage = "GetUserList")
      PROVE  InOrder'
  <2>1. task'[l] = t /\ \A n \in Loop : n # l => task'[n] = task[n]
    BY <1>2, StartsIs DEF Types
  <2>2. Quiet
    BY <1>2, QuietIs
  <2>3. \A n \in Loop, c \in Conn : Telling(n, c)' =>
          task'[n].msg = Len(edits) + 1 \/ (Telling(n, c) /\ task'[n].msg = task[n].msg)
    BY <1>2, <2>1 DEF Telling
  <2> QED
    BY <1>1, <2>2, <2>3, OrderQuiet
<1>3. ASSUME Quiet, UNCHANGED task PROVE InOrder'
  <2>1. \A n \in Loop, c \in Conn : Telling(n, c)' => Telling(n, c) /\ task'[n].msg = task[n].msg
    BY <1>3 DEF Telling
  <2> QED
    BY <1>1, <1>3, <2>1, OrderQuiet
<1>4. ASSUME UNCHANGED <<sq, cq, inbox, lost, task>> PROVE InOrder'
  BY <1>3, <1>4, QuietIs
<1>5. ASSUME NEW l \in Loop, Handle(l) PROVE InOrder'
  <2>1. CASE Head(cq[l]).op = "msg"
    BY <1>1, <1>5, <2>1, OrderHandle
  <2>2. CASE Head(cq[l]).op # "msg"
    <3>1. UNCHANGED task
      BY <1>5 DEF Handle
    <3> QED
      BY <1>3, <1>5, <2>2, <3>1, QuietIs
  <2> QED
    BY <2>1, <2>2
<1>6. ASSUME NEW l \in Loop, JoinUser(l) PROVE InOrder'
  <2>1. PICK t \in Tasks : t = task[l] /\ t.stage = "JoinUser"
    BY <1>6 DEF Types, JoinUser
  <2>2. t.msg = Notice
    <3>1. InHandler(l, t) /\ t.request = "open"
      BY <2>1, Staged
    <3> QED
      BY <3>1 DEF InHandler, Known, OfEdit
  <2>3. PICK u \in Tasks : u = [t EXCEPT !.stage = "GetUserList"]
    BY DEF Tasks, Stages
  <2>4. u.msg = Notice
    BY <2>2, <2>3 DEF Tasks
  <2>5. Starts(l, u) /\ UNCHANGED <<sq, cq, inbox, lost>>
    BY <1>6, <2>1, <2>3 DEF JoinUser, ringVars, msgVars
  <2> QED
    BY <1>2, <2>4, <2>5
<1>7. ASSUME NEW l \in Loop, GetUserList(l) PROVE InOrder'
  <2>1. PICK t \in Tasks : t = task[l] /\ t.stage = "GetUserList" /\ t.doc \in Doc /\ InHandler(l, t)
    BY <1>7, Staged DEF GetUserList
  <2>2. t.request = "open" => t.msg = Notice
    BY <2>1 DEF InHandler, Known, OfEdit
  <2>3. UNCHANGED <<sq, cq, inbox, lost>>
    BY <1>7 DEF GetUserList, ringVars
  <2>4. ASSUME NEW u \in Tasks, NEW rest \in Seq(Conn), Starts(l, Posting(u, rest)),
               u.msg = t.msg, u.request = t.request
        PROVE  InOrder'
    <3>1. PICK v \in Tasks : v = Posting(u, rest)
      BY PostingIs
    <3>2. task'[l] = v
      BY <2>4, <3>1, StartsIs DEF Types
    <3>3. v.msg # Notice => v.msg = t.msg
      BY <2>2, <2>4, <3>1, <3>2, PostingTells
    <3> QED
      BY <1>2, <2>1, <2>3, <2>4, <3>1, <3>3
  <2>5. CASE References(t, users[t.doc]) > 0
    <3>1. PICK u \in Tasks : u = [t EXCEPT !.ctx = Len(contexts) + 1]
      <4>1. Len(contexts) + 1 \in Nat
        BY NextContext DEF Types
      <4> QED
        BY <4>1 DEF Tasks
    <3>2. u.msg = t.msg /\ u.request = t.request
      BY <3>1 DEF Tasks
    <3>3. PICK to \in Seq(Conn) : to = Receivers(t, users[t.doc])
      BY <2>1, ReceiversAre
    <3>4. Starts(l, Posting(u, to))
      BY <1>7, <2>1, <2>5, <3>1, <3>3 DEF GetUserList
    <3> QED
      BY <2>4, <3>2, <3>4
  <2>6. CASE ~(References(t, users[t.doc]) > 0)
    <3>1. Starts(l, Posting(t, <<>>))
      BY <1>7, <2>1, <2>6 DEF GetUserList
    <3>2. PICK none \in Seq(Conn) : none = <<>>
      <4>1. <<>> \in Seq(Conn)
        OBVIOUS
      <4> QED
        BY <4>1
    <3> QED
      BY <2>4, <3>1, <3>2
  <2> QED
    BY <2>5, <2>6
<1>8. ASSUME NEW l \in Loop, GetContent(l) PROVE InOrder'
  <2>1. Idle \in Tasks /\ Idle.msg = Notice
    BY IdleIs DEF Idle, Task
  <2> QED
    BY <1>2, <1>8, <2>1 DEF GetContent, ringVars, msgVars
<1>9. ASSUME NEW l \in Loop, NEW c \in Conn, Request(l, c) PROVE InOrder'
  <2>1. ASSUME NEW r \in Requests, NEW s \in Stages, NEW d \in Doc \cup {NULL}, NEW m \in Nat,
               m = Notice \/ m = Len(edits) + 1,
               Starts(l, Task(r, s, c, d, m)), UNCHANGED <<ringVars, msgVars>>
        PROVE  InOrder'
    <3>1. PICK t \in Tasks : t = Task(r, s, c, d, m)
      BY StartIs
    <3>2. t.msg = m /\ Starts(l, t)
      BY <2>1, <3>1 DEF Task
    <3>3. UNCHANGED <<sq, cq, inbox, lost>>
      BY <2>1 DEF ringVars, msgVars
    <3> QED
      BY <1>2, <2>1, <3>2, <3>3
  <2>2. document[c] \in Doc \cup {NULL} /\ Len(edits) + 1 \in Nat /\ Notice \in Nat
    BY DEF Types, Notice
  <2>3. ASSUME NEW d \in Doc, OpenHandle(l, c, d) PROVE InOrder'
    BY <2>1, <2>2, <2>3 DEF OpenHandle, Requests, Stages
  <2>4. ASSUME EditHandle(l, c) PROVE InOrder'
    BY <2>1, <2>2, <2>4 DEF EditHandle, Requests, Stages
  <2>5. ASSUME Starts(l, Leaving(c)), UNCHANGED <<ringVars, msgVars>> PROVE InOrder'
    BY <2>1, <2>2, <2>5 DEF Leaving, Requests, Stages
  <2>6. ASSUME UNCHANGED <<task, ringVars, msgVars>> PROVE InOrder'
    BY <1>4, <2>6 DEF ringVars, msgVars
  <2>7. ASSUME CloseHandle(l, c) PROVE InOrder'
    BY <2>5, <2>7 DEF CloseHandle
  <2>8. ASSUME NEW to \in Conn, ChatHandle(l, c, to) PROVE InOrder'
    <3>1. PICK u \in Tasks : Starts(l, u) /\ u.msg = Notice
      BY <2>8, ChatIs
    <3>2. UNCHANGED <<sq, cq, inbox, lost>>
      BY <2>8 DEF ChatHandle, ringVars
    <3> QED
      BY <1>2, <3>1, <3>2
  <2>9. ASSUME Close(l, c) PROVE InOrder'
    BY <2>6, <2>9 DEF Close
  <2>10. ASSUME Delete(l, c) PROVE InOrder'
    BY <2>5, <2>6, <2>10 DEF Delete
  <2> QED
    BY <1>9, <2>3, <2>4, <2>7, <2>8, <2>9, <2>10 DEF Request
<1>10. ASSUME NEW l \in Loop, Submit(l) PROVE InOrder'
  BY <1>1, <1>10, OrderSubmit
<1>11. ASSUME NEW l \in Loop, Post(l) PROVE InOrder'
  BY <1>1, <1>11, OrderPost
<1>12. CASE Connect
  BY <1>3, <1>12, QuietIs DEF Connect
<1>13. CASE UNCHANGED vars
  BY <1>4, <1>13 DEF vars, ringVars, msgVars
<1> QED
  BY <1>5, <1>6, <1>7, <1>8, <1>9, <1>10, <1>11, <1>12, <1>13 DEF Next, Run

(* Together with the inductive invariant of MessagingProofs.                *)
LEMMA DeliveryIs == Spec => [](Inductive /\ Addressed /\ InOrder)
<1>1. Init => Addressed /\ InOrder
  BY DeliveryInit
<1>2. Inductive /\ Inductive' /\ Addressed /\ InOrder /\ [Next]_vars => Addressed' /\ InOrder'
  <2> SUFFICES ASSUME Types, Types', Placed, Accepting, Control, Listed, Addressed, InOrder, [Next]_vars
               PROVE  Addressed' /\ InOrder'
    BY DEF Inductive
  <2>1. Addressed'
    BY AddressedNext
  <2> QED
    BY <2>1, OrderNext
<1> QED
  BY <1>1, <1>2, InductiveIs, PTL DEF Spec

(* A client is sent the edits of one editor in the order in which ApplyOp   *)
(* took them, each once, and never its own: of the OPs for it that are in   *)
(* the queues, what is ahead is the earlier edit of its editor.             *)
THEOREM EditsInOrder == Spec => []EachEditorInOrder
<1>1. Addressed /\ InOrder => EachEditorInOrder
  <2> SUFFICES ASSUME Addressed, InOrder, NEW c \in Conn, NEW i \in DOMAIN inbox[c], NEW j \in DOMAIN inbox[c]
               PROVE  /\ edits[inbox[c][i]].by # c
                      /\ i < j /\ edits[inbox[c][i]].by = edits[inbox[c][j]].by => inbox[c][i] < inbox[c][j]
    BY DEF EachEditorInOrder
  <2>1. inbox[c][i] \in ToSet(inbox[c])
    BY DEF ToSet
  <2>2. i < j => Comes(inbox[c], inbox[c][i], inbox[c][j])
    BY DEF Comes
  <2> QED
    BY <2>1, <2>2 DEF Addressed, InOrder, Before, By
<1> QED
  BY <1>1, DeliveryIs, PTL

-----------------------------------------------------------------------------
(* No OP is missing. *)

(* What an answered OPEN, a client that leaves, and an edit change.         *)
LEMMA SinceIs ==
  ASSUME Types, Types', Control, [Next]_vars
  PROVE  /\ closed \subseteq closed'
         /\ \A c \in Conn :
              \/ since'[c] = NULL
              \/ since'[c] = since[c] /\ document'[c] = document[c]
              \/ since'[c] = Len(edits) /\ document'[c] = document[c] /\ document[c] # NULL
         /\ \/ edits' = edits
            \/ \E l \in Loop : /\ Len(edits') = Len(edits) + 1
                               /\ task'[l].msg = Len(edits) + 1 /\ task'[l].stage = "GetUserList"
<1> DEFINE Kept == \A c \in Conn :
             \/ since'[c] = NULL
             \/ since'[c] = since[c] /\ document'[c] = document[c]
             \/ since'[c] = Len(edits) /\ document'[c] = document[c] /\ document[c] # NULL
           EditTold(l) == /\ Len(edits') = Len(edits) + 1
                       /\ task'[l].msg = Len(edits) + 1 /\ task'[l].stage = "GetUserList"
           Goal == /\ closed \subseteq closed' /\ Kept
                   /\ edits' = edits \/ \E l \in Loop : EditTold(l)
<1>1. since \in [Conn -> Nat \cup {NULL}] /\ document \in [Conn -> Doc \cup {NULL}]
  BY DEF Types
<1>2. ASSUME UNCHANGED <<document, since>> PROVE Kept
  BY <1>2
<1>3. ASSUME NEW c \in Conn, Leave(c) PROVE Kept
  BY <1>1, <1>3 DEF Leave
<1>4. ASSUME NEW l \in Loop, NEW c \in Conn, NEW d \in Doc, OpenHandle(l, c, d) PROVE Kept
  BY <1>1, <1>4 DEF OpenHandle
<1>5. ASSUME NEW l \in Loop, GetContent(l) PROVE Kept
  <2>1. PICK t \in Tasks : t = task[l] /\ t.stage = "GetContent" /\ InHandler(l, t) /\ t.request = "open"
    <3>1. task[l].stage = "GetContent"
      BY <1>5 DEF GetContent
    <3> QED
      BY <3>1, Staged
  <2>2. t.conn \in Conn /\ document[t.conn] # NULL
    BY <2>1, NullIsNothing DEF InHandler, Known
  <2> QED
    BY <1>1, <1>5, <2>1, <2>2 DEF GetContent
<1>6. ASSUME NEW l \in Loop, NEW c \in Conn, EditHandle(l, c) PROVE EditTold(l)
  <2>1. PICK x : edits' = Append(edits, x)
    BY <1>6 DEF EditHandle
  <2>2. edits \in Seq(Edits)
    BY DEF Types
  <2>3. Len(edits') = Len(edits) + 1
    BY <2>1, <2>2
  <2>4. PICK m \in Nat : m = Len(edits) + 1
    BY <2>2
  <2>5. PICK d \in Doc \cup {NULL} : d = document[c]
    BY <1>1
  <2>6. PICK t \in Tasks : t = Task("edit", "GetUserList", c, d, m)
    BY StartIs DEF Requests, Stages
  <2>7. t.msg = m /\ t.stage = "GetUserList"
    BY <2>6 DEF Task
  <2>8. Starts(l, t)
    BY <1>6, <2>4, <2>5, <2>6 DEF EditHandle
  <2>9. task'[l] = t
    BY <2>8, StartsIs DEF Types
  <2> QED
    BY <2>3, <2>4, <2>7, <2>9
<1> HIDE DEF Kept, EditTold
<1>7. ASSUME NEW l \in Loop, NEW c \in Conn, Request(l, c) PROVE Goal
  <2>1. ASSUME NEW d \in Doc, OpenHandle(l, c, d) PROVE Goal
    BY <1>4, <2>1 DEF OpenHandle, connVars
  <2>2. ASSUME EditHandle(l, c) PROVE Goal
    BY <1>2, <1>6, <2>2 DEF EditHandle, connVars
  <2>3. ASSUME CloseHandle(l, c) PROVE Goal
    BY <1>3, <2>3 DEF CloseHandle, connVars
  <2>4. ASSUME NEW to \in Conn, ChatHandle(l, c, to) PROVE Goal
    BY <1>2, <2>4 DEF ChatHandle, connVars, docVars
  <2>5. ASSUME Close(l, c) PROVE Goal
    BY <1>2, <2>5 DEF Close, docVars
  <2>6. ASSUME Delete(l, c) PROVE Goal
    BY <1>3, <2>6 DEF Delete
  <2> QED
    BY <1>7, <2>1, <2>2, <2>3, <2>4, <2>5, <2>6 DEF Request
<1>8. ASSUME NEW l \in Loop, Run(l) PROVE Goal
  <2>1. CASE GetContent(l)
    BY <1>5, <2>1 DEF GetContent, connVars
  <2>2. CASE Submit(l)
    BY <1>2, <2>2 DEF Submit, docVars
  <2>3. CASE JoinUser(l)
    BY <1>2, <2>3 DEF JoinUser, connVars
  <2>4. CASE GetUserList(l)
    BY <1>2, <2>4 DEF GetUserList, connVars, docVars
  <2>5. CASE Post(l)
    BY <1>2, <2>5 DEF Post, connVars, docVars
  <2>6. CASE Handle(l)
    <3>1. UNCHANGED <<document, since, edits>>
      BY <2>6 DEF Handle, docVars
    <3>2. closed' = closed
      BY <2>6 DEF Handle, HandleAccept, connVars
    <3> QED
      BY <1>2, <3>1, <3>2
  <2> QED
    BY <1>8, <2>1, <2>2, <2>3, <2>4, <2>5, <2>6 DEF Run
<1>9. ASSUME Connect PROVE Goal
  BY <1>2, <1>9 DEF Connect, docVars
<1>10. ASSUME UNCHANGED vars PROVE Goal
  BY <1>2, <1>10 DEF vars, connVars, docVars
<1> HIDE DEF Goal
<1>11. Goal
  BY <1>7, <1>8, <1>9, <1>10 DEF Next
<1> QED
  BY <1>11 DEF Goal, Kept, EditTold

(* Whoever has the content has the document open.                           *)
LEMMA JoinedNext ==
  ASSUME Types, Types', Control, Joined, [Next]_vars
  PROVE  Joined'
BY SinceIs DEF Joined

(* What becomes of edit n, for connection c.                                *)
Gets(c, n) == n \in ToSet(inbox[c]) \/ UnderWay(c, n) \/ Unlisted(n) \/ Failed(c, n)
Brings(e, c, n) == e.op = "msg" /\ e.conn = c /\ contexts[e.ctx].msg = n
Tells(t, c, n) == t.msg = n /\ (c \in ToSet(t.rest) \/ t.stage = "GetUserList")

(* A step keeps what is known of an edit if it does so for what it takes.   *)
LEMMA GetsFrame ==
  ASSUME Types, Placed, Grows, NEW c \in Conn, NEW n, Gets(c, n),
         lost \subseteq lost',
         n \in ToSet(inbox[c]) => n \in ToSet(inbox'[c]),
         \A l \in Loop : task'[l] = task[l] \/ (Tells(task[l], c, n) => Gets(c, n)'),
         \A e \in Entries : Brings(e, c, n) /\ Queued(e) =>
           Queued(e)' \/ e \in lost' \/ n \in ToSet(inbox'[c])
  PROVE  Gets(c, n)'
<1>1. CASE n \in ToSet(inbox[c])
  BY <1>1 DEF Gets
<1>2. ASSUME NEW l \in Loop, Tells(task[l], c, n) PROVE Gets(c, n)'
  <2>1. CASE task'[l] = task[l]
    BY <1>2, <2>1 DEF Gets, Tells, UnderWay, Unlisted
  <2> QED
    BY <1>2, <2>1
<1>3. ASSUME NEW l \in Loop, NEW e, e \in ToSet(sq[l]) \/ e \in ToSet(cq[l]), Brings(e, c, n)
      PROVE  Gets(c, n)'
  <2>1. e \in Entries /\ e.ctx \in DOMAIN contexts /\ Queued(e)
    BY <1>3, OpsStay DEF Brings, Queued
  <2>2. Brings(e, c, n)'
    BY <1>3, <2>1 DEF Brings, Grows
  <2>3. Queued(e)' \/ e \in lost' \/ n \in ToSet(inbox'[c])
    BY <1>3, <2>1
  <2> QED
    BY <2>2, <2>3 DEF Gets, UnderWay, Failed, Brings, Queued
<1>4. ASSUME NEW e \in lost, Brings(e, c, n) PROVE Gets(c, n)'
  <2>1. e.ctx \in DOMAIN contexts /\ e \in lost'
    BY <1>4 DEF Placed, Brings
  <2>2. Brings(e, c, n)'
    BY <1>4, <2>1 DEF Brings, Grows
  <2> QED
    BY <2>1, <2>2 DEF Gets, Failed, Brings
<1> QED
  BY <1>1, <1>2, <1>3, <1>4 DEF Gets, UnderWay, Unlisted, Failed, Tells, Brings

(* A step that has nothing to do with messages, of a loop that has nothing  *)
(* to tell of the edit.                                                     *)
LEMMA GetsQuiet ==
  ASSUME Types, Placed, Grows, Quiet, NEW c \in Conn, NEW n, Gets(c, n),
         \A l \in Loop : task'[l] = task[l] \/ (Tells(task[l], c, n) => Gets(c, n)')
  PROVE  Gets(c, n)'
<1>1. lost \subseteq lost' /\ (n \in ToSet(inbox[c]) => n \in ToSet(inbox'[c]))
  BY DEF Quiet
<1>2. \A e \in Entries : Brings(e, c, n) /\ Queued(e) => Queued(e)'
  BY DEF Quiet, Queued, Brings
<1> QED
  BY <1>1, <1>2, GetsFrame

(* What is submitted is in a completion queue, or failed.                   *)
LEMMA GetsSubmit ==
  ASSUME Types, Placed, Grows, NEW l \in Loop, Submit(l), NEW c \in Conn, NEW n, Gets(c, n)
  PROVE  Gets(c, n)'
<1>1. UNCHANGED <<inbox, task>> /\ lost \subseteq lost'
  BY SubmitFlow DEF Submit, msgVars
<1>2. ASSUME NEW e \in Entries, e.op = "msg", Queued(e) PROVE Queued(e)' \/ e \in lost'
  <2>1. ASSUME NEW i \in Loop, e \in ToSet(cq[i]) PROVE Queued(e)'
    <3>1. e \in ToSet(cq'[i])
      BY <2>1, SubmitFlow
    <3> QED
      BY <3>1 DEF Queued
  <2>2. ASSUME NEW i \in Loop, i # l, e \in ToSet(sq[i]) PROVE Queued(e)'
    <3>1. sq'[i] = sq[i]
      BY <2>2, SubmitFlow
    <3> QED
      BY <2>2, <3>1 DEF Queued
  <2>3. CASE e \in ToSet(sq[l])
    <3>1. e \in ToSet(cq'[e.ring]) \/ e \in lost'
      BY <1>2, <2>3, SubmitFlow
    <3>2. e.ring \in Loop
      BY DEF Entries
    <3> QED
      BY <3>1, <3>2 DEF Queued
  <2> QED
    BY <1>2, <2>1, <2>2, <2>3 DEF Queued
<1>3. \A e \in Entries : Brings(e, c, n) /\ Queued(e) => Queued(e)' \/ e \in lost'
  BY <1>2 DEF Brings
<1> QED
  BY <1>1, <1>3, GetsFrame

(* A message that is handled is sent to its client.                         *)
LEMMA GetsHandle ==
  ASSUME Types, Types', Placed, Accepting, Grows, NEW l \in Loop, Handle(l),
         NEW c \in Conn \ closed, document[c] # NULL, NEW n, n # Notice, Gets(c, n)
  PROVE  Gets(c, n)'
<1>1. Took(l) /\ UNCHANGED <<task, lost>>
  BY DEF Handle, Took
<1>2. CASE Head(cq[l]).op # "msg"
  BY <1>1, <1>2, QuietIs, GetsQuiet
<1>3. CASE Head(cq[l]).op = "msg"
  <2>1. PICK x \in Entries : x = Head(cq[l]) /\ x \in ToSet(cq[l]) /\ x.op = "msg"
    BY <1>1, <1>3, TookFlow
  <2>2. PICK k \in DOMAIN contexts, b \in Conn : k = x.ctx /\ b = x.conn /\ ConnectionIdToRing(b) = l
    BY <2>1, OpsStay DEF Placed, Arrives
  <2>3. inbox' = Delivered(l, b, k) /\ sq' = sq
    BY <2>1, <2>2 DEF Handle, Receive
  <2>4. n \in ToSet(inbox[c]) => n \in ToSet(inbox'[c])
    BY <2>3, DeliveredFlow
  <2>5. ASSUME NEW e \in Entries, Brings(e, c, n), Queued(e)
        PROVE  Queued(e)' \/ n \in ToSet(inbox'[c])
    <3>1. CASE e = x
      <4>1. b = c /\ contexts[k].msg = n
        BY <2>2, <2>5, <3>1 DEF Brings
      <4>2. Online(l, c)
        BY <2>2, <4>1 DEF Placed, Online
      <4> QED
        BY <2>3, <4>1, <4>2, DeliveredFlow
    <3>2. ASSUME e # x, NEW i \in Loop, e \in ToSet(cq[i]) PROVE Queued(e)'
      <4>1. e \in ToSet(cq'[i])
        BY <1>1, <2>1, <3>2, TookFlow
      <4> QED
        BY <4>1 DEF Queued
    <3> QED
      BY <2>3, <2>5, <3>1, <3>2 DEF Queued
  <2> QED
    BY <1>1, <2>4, <2>5, GetsFrame
<1> QED
  BY <1>2, <1>3

(* What is posted is in the submission queue, or, in its own loop, sent.    *)
LEMMA GetsPost ==
  ASSUME Types, Types', Placed, Control, Grows, NEW l \in Loop, Post(l),
         NEW c \in Conn \ closed, document[c] # NULL, NEW n, n # Notice, Gets(c, n)
  PROVE  Gets(c, n)'
<1>1. PICK t \in Tasks, rest \in Seq(Conn), to \in Conn, x \in Entries :
        /\ t = task[l] /\ rest = Tail(t.rest) /\ to = Head(t.rest) /\ t.rest \in Seq(Conn) /\ t.rest # <<>>
        /\ t.ctx \in DOMAIN contexts /\ contexts[t.ctx].msg = t.msg
        /\ task'[l] = Posting(t, rest) /\ \A i \in Loop : i # l => task'[i] = task[i]
        /\ sq' = Prepared(l, x) /\ UNCHANGED <<cq, lost>>
        /\ \/ /\ ConnectionIdToRing(to) # l /\ x = Entry("msg", ConnectionIdToRing(to), to, t.ctx)
              /\ UNCHANGED <<contexts, inbox>>
           \/ /\ ConnectionIdToRing(to) = l /\ x.op = "accept"
              /\ inbox' = Delivered(l, to, t.ctx)
  BY PostIs
<1>2. n \in ToSet(inbox[c]) => n \in ToSet(inbox'[c])
  <2>1. PICK k \in DOMAIN contexts : k = t.ctx
    BY <1>1
  <2>2. inbox' = inbox \/ inbox' = Delivered(l, to, k)
    BY <1>1, <2>1
  <2> QED
    BY <2>2, DeliveredFlow
<1>3. \A e \in Entries : Queued(e) => Queued(e)'
  <2>1. /\ \A i \in Loop : i # l => sq'[i] = sq[i]
        /\ \A e \in ToSet(sq[l]) : e \in ToSet(sq'[l])
    BY <1>1, PrepareFlow
  <2>2. \A i \in Loop : \A e \in ToSet(sq[i]) : e \in ToSet(sq'[i])
    BY <2>1
  <2> QED
    BY <1>1, <2>2 DEF Queued
<1>4. ASSUME Tells(t, c, n) PROVE Gets(c, n)'
  <2>1. t.stage = "Post"
    BY <1>1 DEF Post
  <2>2. c \in ToSet(t.rest) /\ t.msg = n
    BY <1>4, <2>1 DEF Tells
  <2>3. c = to \/ c \in ToSet(rest)
    BY <1>1, <2>2, TailIs
  <2>4. CASE c \in ToSet(rest)
    <3>1. rest # <<>>
      <4>1. ToSet(<<>>) = {}
        BY NumEmpty
      <4> QED
        BY <2>4, <4>1
    <3>2. PICK u \in Tasks : u = [t EXCEPT !.stage = "Post", !.rest = rest] /\ Posting(t, rest) = u
      BY <3>1, PostingIs
    <3>3. u.rest = rest /\ u.msg = t.msg
      BY <3>2 DEF Tasks
    <3>4. task'[l].msg = n /\ c \in ToSet(task'[l].rest)
      BY <1>1, <2>2, <2>4, <3>2, <3>3
    <3> QED
      BY <3>4 DEF Gets, UnderWay
  <2>5. CASE c = to /\ ConnectionIdToRing(to) # l
    <3>1. x.op = "msg" /\ x.conn = c /\ x.ctx = t.ctx
      BY <1>1, <2>5 DEF Entry
    <3>2. x \in ToSet(sq'[l])
      BY <1>1, PrepareFlow
    <3>3. contexts'[x.ctx].msg = n
      BY <1>1, <2>2, <3>1 DEF Grows
    <3> QED
      BY <3>1, <3>2, <3>3 DEF Gets, UnderWay
  <2>6. CASE c = to /\ ConnectionIdToRing(to) = l
    <3>1. PICK k \in DOMAIN contexts : k = t.ctx /\ contexts[k].msg = n
      BY <1>1, <2>2
    <3>2. Online(l, c)
      BY <2>6 DEF Placed, Online
    <3>3. inbox' = Delivered(l, c, k)
      BY <1>1, <2>6, <3>1
    <3>4. n \in ToSet(inbox'[c])
      BY <3>1, <3>2, <3>3, DeliveredFlow
    <3> QED
      BY <3>4 DEF Gets
  <2> QED
    BY <2>3, <2>4, <2>5, <2>6
<1>5. \A i \in Loop : task'[i] = task[i] \/ (Tells(task[i], c, n) => Gets(c, n)')
  BY <1>1, <1>4
<1>6. lost \subseteq lost'
  BY <1>1
<1> QED
  BY <1>2, <1>3, <1>5, <1>6, GetsFrame

(* The users of the document are listed: whoever has its content is one.    *)
LEMMA GetsUserList ==
  ASSUME Types, Types', Placed, Accepting, Control, Listed, Grows, NEW l \in Loop, GetUserList(l),
         NEW c \in Conn, since[c] # NULL, NEW n, n # Notice,
         edits[n].doc = document[c], edits[n].by # c, Gets(c, n)
  PROVE  Gets(c, n)'
<1>1. PICK t \in Tasks : t = task[l] /\ t.stage = "GetUserList" /\ t.doc \in Doc /\ t.rest = <<>>
  BY Staged DEF GetUserList
<1>2. UNCHANGED <<sq, cq, inbox, lost>> /\ \A i \in Loop : i # l => task'[i] = task[i]
  BY DEF GetUserList, ringVars, Starts, Types
<1>3. ASSUME Tells(t, c, n) PROVE Gets(c, n)'
  <2>1. t.msg = n /\ t.conn = edits[n].by /\ t.doc = edits[n].doc
    BY <1>1, <1>3, TaskOp DEF Tells, By
  <2>2. ~Joining(c)
    <3> SUFFICES ASSUME Joining(c) PROVE FALSE
      OBVIOUS
    <3>1. PICK i \in Loop : i = ConnectionIdToRing(c) /\ task[i].stage = "JoinUser" /\ task[i].conn = c
      BY RingIs DEF Joining
    <3>2. since[task[i].conn] = NULL
      BY <3>1, Staged
    <3> QED
      BY <3>1, <3>2
  <2>3. c \in ToSet(users[t.doc])
    BY <1>1, <2>1, <2>2 DEF Listed
  <2>4. PICK to \in Seq(Conn) : /\ to = Receivers(t, users[t.doc])
                                /\ Len(to) = References(t, users[t.doc]) /\ c \in ToSet(to)
    BY <1>1, <2>1, <2>3, ReceiversAre
  <2>5. to # <<>> /\ Len(to) > 0
    <3>1. ToSet(<<>>) = {}
      BY NumEmpty
    <3>2. to # <<>>
      BY <2>4, <3>1
    <3> QED
      BY <3>2, EmptySeq
  <2>6. PICK u \in Tasks : u = [t EXCEPT !.ctx = Len(contexts) + 1]
    <3>1. Len(contexts) + 1 \in Nat
      BY NextContext DEF Types
    <3> QED
      BY <3>1 DEF Tasks
  <2>7. Starts(l, Posting(u, to))
    BY <1>1, <2>4, <2>5, <2>6 DEF GetUserList
  <2>8. PICK v \in Tasks : v = Posting(u, to) /\ v = [u EXCEPT !.stage = "Post", !.rest = to]
    BY <2>5, PostingIs
  <2>9. v.rest = to /\ v.msg = u.msg /\ u.msg = t.msg
    BY <2>6, <2>8 DEF Tasks
  <2>10. task'[l] = v
    BY <2>7, <2>8, StartsIs DEF Types
  <2> QED
    BY <2>1, <2>4, <2>9, <2>10 DEF Gets, UnderWay
<1>4. Quiet
  BY <1>2, QuietIs
<1>5. \A i \in Loop : task'[i] = task[i] \/ (Tells(task[i], c, n) => Gets(c, n)')
  BY <1>1, <1>2, <1>3
<1> QED
  BY <1>4, <1>5, GetsQuiet

(* No step forgets an edit that a client is to get.                         *)
LEMMA GetsNext ==
  ASSUME Types, Types', Placed, Accepting, Control, Listed, Joined, [Next]_vars,
         NEW c \in Conn \ closed, since[c] # NULL, NEW n, n # Notice,
         edits[n].doc = document[c], edits[n].by # c, Gets(c, n)
  PROVE  Gets(c, n)'
<1>1. Grows /\ document[c] # NULL
  BY ContextsGrow DEF Joined
<1>2. ASSUME UNCHANGED <<sq, cq, inbox, lost>>, NEW l \in Loop, NEW t, Starts(l, t), task[l].msg # n
      PROVE  Gets(c, n)'
  <2>1. \A i \in Loop : i # l => task'[i] = task[i]
    BY <1>2 DEF Starts, Types
  <2>2. ~Tells(task[l], c, n)
    BY <1>2 DEF Tells
  <2>3. \A i \in Loop : task'[i] = task[i] \/ (Tells(task[i], c, n) => Gets(c, n)')
    BY <2>1, <2>2
  <2> QED
    BY <1>1, <1>2, <2>3, QuietIs, GetsQuiet
<1>3. ASSUME Quiet, UNCHANGED task PROVE Gets(c, n)'
  BY <1>1, <1>3, GetsQuiet
<1>4. ASSUME UNCHANGED <<sq, cq, inbox, lost, task>> PROVE Gets(c, n)'
  BY <1>3, <1>4, QuietIs
<1>5. ASSUME NEW l \in Loop, task[l].stage \in {"JoinUser", "GetContent"} PROVE task[l].msg # n
  <2>1. InHandler(l, task[l]) /\ task[l].request = "open"
    BY <1>5, Staged
  <2>2. task[l].msg = Notice
    BY <2>1 DEF InHandler, Known, OfEdit
  <2> QED
    BY <2>2
<1>6. ASSUME NEW l \in Loop, Run(l) PROVE Gets(c, n)'
  <2>1. CASE JoinUser(l)
    <3>1. \E t : Starts(l, t)
      BY <2>1 DEF JoinUser
    <3>2. task[l].stage = "JoinUser" /\ UNCHANGED <<sq, cq, inbox, lost>>
      BY <2>1 DEF JoinUser, ringVars, msgVars
    <3> QED
      BY <1>2, <1>5, <3>1, <3>2
  <2>2. CASE GetContent(l)
    <3>1. task[l].stage = "GetContent" /\ UNCHANGED <<sq, cq, inbox, lost>> /\ Starts(l, Idle)
      BY <2>2 DEF GetContent, ringVars, msgVars
    <3> QED
      BY <1>2, <1>5, <3>1
  <2>3. CASE Submit(l)
    BY <1>1, <2>3, GetsSubmit
  <2>4. CASE Handle(l)
    BY <1>1, <2>4, GetsHandle
  <2>5. CASE Post(l)
    BY <1>1, <2>5, GetsPost
  <2>6. CASE GetUserList(l)
    BY <1>1, <2>6, GetsUserList
  <2> QED
    BY <1>6, <2>1, <2>2, <2>3, <2>4, <2>5, <2>6 DEF Run
<1>7. ASSUME NEW l \in Loop, NEW b \in Conn, Request(l, b) PROVE Gets(c, n)'
  <2>1. ASSUME task[l] = Idle, NEW t, Starts(l, t), UNCHANGED <<sq, cq, inbox, lost>> PROVE Gets(c, n)'
    <3>1. task[l].msg = Notice
      BY <2>1 DEF Idle, Task
    <3> QED
      BY <1>2, <2>1, <3>1
  <2>2. ASSUME NEW d \in Doc, OpenHandle(l, b, d) PROVE Gets(c, n)'
    BY <2>1, <2>2 DEF OpenHandle, Serves, ringVars, msgVars
  <2>3. ASSUME EditHandle(l, b) PROVE Gets(c, n)'
    BY <2>1, <2>3 DEF EditHandle, Serves, ringVars, msgVars
  <2>4. ASSUME CloseHandle(l, b) PROVE Gets(c, n)'
    BY <2>1, <2>4 DEF CloseHandle, Serves, ringVars, msgVars
  <2>5. ASSUME NEW to \in Conn, ChatHandle(l, b, to) PROVE Gets(c, n)'
    <3>1. \E t : Starts(l, t)
      BY <2>5, ChatIs
    <3>2. task[l] = Idle /\ UNCHANGED <<sq, cq, inbox, lost>>
      BY <2>5 DEF ChatHandle, Serves, ringVars
    <3> QED
      BY <2>1, <3>1, <3>2
  <2>6. ASSUME Close(l, b) PROVE Gets(c, n)'
    BY <1>4, <2>6 DEF Close, ringVars, msgVars
  <2>7. ASSUME Delete(l, b) PROVE Gets(c, n)'
    <3>1. task[l] = Idle /\ UNCHANGED <<sq, cq, inbox, lost>>
      BY <2>7 DEF Delete, Serves, ringVars, msgVars
    <3>2. UNCHANGED task \/ Starts(l, Leaving(b))
      BY <2>7 DEF Delete
    <3> QED
      BY <1>4, <2>1, <3>1, <3>2
  <2> QED
    BY <1>7, <2>2, <2>3, <2>4, <2>5, <2>6, <2>7 DEF Request
<1>8. CASE Connect
  BY <1>3, <1>8, QuietIs DEF Connect
<1>9. CASE UNCHANGED vars
  BY <1>4, <1>9 DEF vars, ringVars, msgVars
<1> QED
  BY <1>6, <1>7, <1>8, <1>9 DEF Next

(* An edit is told of as soon as there is one, and the content an OPEN is   *)
(* answered with has all that were before.                                  *)
LEMMA NoneLostNext ==
  ASSUME Types, Types', Placed, Accepting, Control, Listed, Joined, NoEditLost, [Next]_vars
  PROVE  NoEditLost'
<1> SUFFICES ASSUME NEW c \in Conn \ closed', since'[c] # NULL,
                    NEW n \in since'[c] + 1..Len(edits'),
                    edits'[n].doc = document'[c], edits'[n].by # c
             PROVE  Gets(c, n)'
  BY DEF NoEditLost, Gets
<1>1. PICK m \in Nat : m = Len(edits) /\ DOMAIN edits = 1..m
  BY DEF Types
<1>2. since[c] \in Nat \cup {NULL} /\ since'[c] \in Nat \cup {NULL} /\ Len(edits') \in Nat
  BY DEF Types
<1>3. /\ closed \subseteq closed'
      /\ \/ since'[c] = since[c] /\ document'[c] = document[c]
         \/ since'[c] = m
      /\ \/ edits' = edits
         \/ \E l \in Loop : /\ Len(edits') = m + 1
                            /\ task'[l].msg = m + 1 /\ task'[l].stage = "GetUserList"
  BY <1>1, SinceIs
<1>4. n \in Nat /\ n >= 1 /\ since'[c] \in Nat /\ n > since'[c] /\ n <= Len(edits')
  BY <1>2
<1>5. CASE n <= m
  <2>1. n \in DOMAIN edits /\ since'[c] = since[c] /\ document'[c] = document[c]
    BY <1>1, <1>3, <1>4, <1>5
  <2>2. edits'[n] = edits[n]
    BY <2>1, ContextsGrow DEF Grows
  <2>3. n \in since[c] + 1..Len(edits) /\ n # Notice
    BY <1>1, <1>4, <1>5, <2>1 DEF Notice
  <2>4. c \in Conn \ closed
    BY <1>3
  <2>5. Gets(c, n)
    BY <2>1, <2>2, <2>3, <2>4 DEF NoEditLost, Gets
  <2> QED
    BY <2>1, <2>2, <2>3, <2>4, <2>5, GetsNext
<1>6. CASE n > m
  <2>1. PICK l \in Loop : n = m + 1 /\ task'[l].msg = m + 1 /\ task'[l].stage = "GetUserList"
    BY <1>1, <1>3, <1>4, <1>6
  <2> QED
    BY <2>1 DEF Gets, Unlisted
<1> QED
  BY <1>1, <1>4, <1>5, <1>6

(* Every edit by another since the content that a client was sent has been  *)
(* sent to it, is on its way, is still to be listed for its receivers, or   *)
(* was lost by a request between rings that failed: GetUserList comes after *)
(* ApplyOp has taken the edit, and JoinUser before GetContent.              *)
THEOREM NoEditIsLost == Spec => []NoEditLost
<1>1. Init => Joined /\ NoEditLost
  <2>1. Init => NoEditLost
    BY DEF Init, NoEditLost
  <2> QED
    BY <2>1, DeliveryInit
<1>2. Inductive /\ Inductive' /\ Joined /\ NoEditLost /\ [Next]_vars => Joined' /\ NoEditLost'
  BY JoinedNext, NoneLostNext DEF Inductive
<1> QED
  BY <1>1, <1>2, InductiveIs, PTL DEF Spec
=============================================================================
