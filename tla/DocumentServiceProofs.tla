---------------------- MODULE DocumentServiceProofs ----------------------
(***************************************************************************)
(* The safety properties of DocumentService for any number of connections, *)
(* names, documents and edits, and that it implements SharedDocuments.     *)
(* IInv is the inductive invariant they all follow from.                   *)
(***************************************************************************)
EXTENDS DocumentService, FiniteSetTheorems, SequenceTheorems, TLAPS

--------------------------------------------------------------------------
(* The inductive invariant. *)

(* Which handler may be at which call, and which calls need a document. *)
Control ==
  \A c \in Conn :
    /\ pc[c] = "Idle" <=> op[c] = "none"
    /\ pc[c] \in {"GetDocument", "OpenDocument", "JoinUser", "GetContent"} => op[c] = "open"
    /\ pc[c] \in {"ExitUser", "CloseDocument"} => op[c] \in {"open", "close"}
    /\ pc[c] = "Reset" => op[c] = "close"
    /\ pc[c] \in {"ExitUser", "CloseDocument", "GetUserList", "GetContent", "Reset"}
         => document[c] # NULL
    /\ op[c] = "open" /\ pc[c] \notin {"GetUserList", "GetContent"} => doc_name[c] \in Name
    /\ applied[c] # 0 => pc[c] = "GetUserList" /\ op[c] = "edit"

(* A connection is in its document's list from JoinUser to ExitUser. *)
Joined(c) == \/ pc[c] \in {"Idle", "ExitUser", "GetContent"}
             \/ pc[c] = "GetUserList" /\ op[c] \in {"open", "edit"}

UsersAreJoined ==
  \A d \in Doc, c \in Conn : c \in users[d] <=> document[c] = d /\ Joined(c)

(* users_mutex_ outlives a step only from ExitUser to CloseDocument. *)
MutexOwner ==
  \A d \in Doc, c \in Conn :
    users_mutex[d] = c <=> document[c] = d /\ pc[c] = "CloseDocument"

Named ==
  /\ \A n \in Name : documents[n] # NULL => name[documents[n]] = n
  /\ \A c \in Conn : document[c] # NULL => name[document[c]] \in Name

(* Between erasing its document's entry and letting the document go. *)
Detached(c) == \/ pc[c] = "GetDocument"
               \/ op[c] = "close" /\ pc[c] \in {"GetUserList", "Reset"}

(* A document in use is registered, or its last holder is about to drop it. *)
Registered ==
  \A c \in Conn : document[c] # NULL =>
    \/ documents[name[document[c]]] = document[c]
    \/ Detached(c) /\ Holders(document[c]) = {c}

IInv == /\ TypeOK
        /\ Control
        /\ UsersAreJoined
        /\ MutexOwner
        /\ Named
        /\ Registered
        /\ HistoryWindow
        /\ NoMissedEdit

--------------------------------------------------------------------------
(* The initial state satisfies every part of IInv. *)
LEMMA InitIInv == Init => IInv
<1> SUFFICES ASSUME Init PROVE IInv
  OBVIOUS
<1> USE NullIsNothing, CapacityPositive
<1>1. TypeOK
  <2>1. <<>> \in Seq(Nat) /\ {} \in SUBSET Conn /\ {} \in SUBSET Nat /\ 0 \in Nat
    OBVIOUS
  <2>2. history \in [Doc -> Seq(Nat)] /\ against \in [Conn -> Seq(Nat)]
    BY <2>1, Zenon DEF Init
  <2>3. users \in [Doc -> SUBSET Conn] /\ known \in [Conn -> SUBSET Nat]
    BY <2>1, Zenon DEF Init
  <2> QED
    BY <2>2, <2>3 DEF Init, TypeOK, PC
<1>2. Control
  BY DEF Init, Control
<1>3. UsersAreJoined /\ MutexOwner /\ Named /\ Registered
  BY DEF Init, UsersAreJoined, MutexOwner, Named, Registered
<1>4. HistoryWindow
  BY DEF Init, HistoryWindow
<1>5. NoMissedEdit
  BY DEF Init, NoMissedEdit, Served
<1> QED
  BY <1>1, <1>2, <1>3, <1>4, <1>5 DEF IInv

(* A step is one of the handlers' actions, or nothing. *)
LEMMA StepCases ==
  ASSUME Next
  PROVE  \E c \in Conn :
           \/ \E n \in Name : OpenHandle(c, n)
           \/ CloseHandle(c)
           \/ \E v \in Version : EditHandle(c, v)
           \/ ExitUser(c) \/ CloseDocument(c) \/ GetDocument(c) \/ OpenDocument(c)
           \/ JoinUser(c) \/ JoinNull(c) \/ GetUserList(c) \/ GetContent(c) \/ Reset(c)
  BY DEF Next, Request, Step

(* weak_ptr::lock yields a live document of the registry, or null. *)
LEMMA LockType ==
  ASSUME TypeOK, NEW n \in Name
  PROVE  /\ Lock(n) \in Doc \cup {NULL}
         /\ Lock(n) # NULL => Lock(n) = documents[n] /\ Holders(Lock(n)) # {}
  BY DEF TypeOK, Lock

(* history_[v - min_revision_], v = version .. revision_ - 1, are the edits *)
(* that produced the revisions after version, none left out.               *)
LEMMA TransformedIs ==
  ASSUME TypeOK, HistoryWindow, NEW d \in Doc, NEW v \in Nat,
         min_revision[d] <= v, v <= revision[d]
  PROVE  /\ Transformed(d, v) = [i \in 1..(revision[d] - v) |-> v + i]
         /\ Transformed(d, v) \in Seq(Nat)
         /\ Len(Transformed(d, v)) = revision[d] - v
<1> DEFINE m == min_revision[d]
           len == revision[d] - v
           run == [i \in 1..len |-> v + i]
<1>1. /\ history[d] \in Seq(Nat) /\ m \in Nat /\ revision[d] \in Nat
      /\ revision[d] = m + Len(history[d])
      /\ \A i \in 1..Len(history[d]) : history[d][i] = m + i
  BY DEF TypeOK, HistoryWindow
<1>2. ASSUME NEW i \in 1..len
      PROVE  history[d][v - m + i] = v + i
  <2>1. v - m + i \in 1..Len(history[d]) /\ m + (v - m + i) = v + i
    BY <1>1, SMTT(30)
  <2> QED
    BY <1>1, <2>1
<1>3. Transformed(d, v) = run
  BY <1>2 DEF Transformed
<1>4. len \in Nat /\ run \in [1..len -> Nat]
  BY <1>1
<1>5. run \in Seq(Nat) /\ Len(run) = len
  BY <1>4, SeqDef
<1> QED
  BY <1>3, <1>5

(* PushToHistory moves the window on by one revision and keeps it exact. *)
LEMMA Pushed ==
  ASSUME TypeOK, HistoryWindow, NEW d \in Doc, PushToHistory(d, revision[d] + 1)
  PROVE  /\ history' \in [Doc -> Seq(Nat)]
         /\ min_revision' \in [Doc -> Nat]
         /\ \A e \in Doc \ {d} : /\ history'[e] = history[e]
                                 /\ min_revision'[e] = min_revision[e]
         /\ Len(history'[d]) <= Capacity
         /\ revision[d] + 1 = min_revision'[d] + Len(history'[d])
         /\ \A i \in 1..Len(history'[d]) : history'[d][i] = min_revision'[d] + i
<1> DEFINE h == history[d]
           m == min_revision[d]
           full == Len(h) >= Capacity
           t == Tail(h)
           kept == IF full THEN t ELSE h
           r == revision[d] + 1
<1>1. /\ h \in Seq(Nat) /\ m \in Nat /\ revision[d] \in Nat /\ Len(h) \in Nat
      /\ revision[d] = m + Len(h) /\ Len(h) <= Capacity
      /\ \A i \in 1..Len(h) : h[i] = m + i
  BY DEF TypeOK, HistoryWindow
<1>2. full => /\ t \in Seq(Nat) /\ Len(t) = Len(h) - 1
              /\ \A i \in 1..Len(t) : t[i] = h[i + 1]
  <2>1. full => h # <<>>
    BY <1>1, CapacityPositive
  <2> QED
    BY <1>1, <2>1, HeadTailProperties
<1> DEFINE k == IF full THEN m + 1 ELSE m
<1> HIDE DEF h, m, t
<1>3. /\ kept \in Seq(Nat) /\ k \in Nat /\ r \in Nat
      /\ Len(kept) \in Nat /\ r = k + Len(kept) + 1 /\ Len(kept) + 1 <= Capacity
  <2>1. CASE full
    <3>1. kept = t /\ k = m + 1
      BY <2>1
    <3>2. t \in Seq(Nat) /\ Len(t) = Len(h) - 1 /\ Len(h) \in Nat /\ Len(h) >= 1
      BY <1>1, <1>2, <2>1, CapacityPositive
    <3> QED
      BY <1>1, <3>1, <3>2, CapacityPositive
  <2>2. CASE ~full
    BY <1>1, <2>2, CapacityPositive
  <2> QED
    BY <2>1, <2>2
<1>4. \A i \in 1..Len(kept) : kept[i] = k + i
  <2>1. CASE full
    <3>1. ASSUME NEW i \in 1..Len(t) PROVE t[i] = m + 1 + i
      <4>1. i + 1 \in 1..Len(h) /\ m + (i + 1) = m + 1 + i
        BY <1>1, <1>2, <2>1
      <4>2. t[i] = h[i + 1]
        BY <1>2, <2>1
      <4>3. h[i + 1] = m + (i + 1)
        BY <1>1, <4>1
      <4> QED
        BY <4>1, <4>2, <4>3
    <3> QED
      BY <2>1, <3>1
  <2>2. CASE ~full
    BY <1>1, <2>2
  <2> QED
    BY <2>1, <2>2
<1> DEFINE new == Append(kept, r)
<1> HIDE DEF kept, k, r
<1>5. /\ new \in Seq(Nat) /\ Len(new) = Len(kept) + 1
      /\ \A i \in 1..Len(kept) : new[i] = kept[i]
      /\ new[Len(kept) + 1] = r
  BY <1>3, AppendProperties
<1>6. \A i \in 1..Len(new) : new[i] = k + i
  BY <1>3, <1>4, <1>5
<1> HIDE DEF new
<1>7. /\ history' = [history EXCEPT ![d] = new]
      /\ min_revision' = [min_revision EXCEPT ![d] = k]
  BY DEF PushToHistory, Oldest, Full, new, kept, k, r, t, h, m
<1> QED
  BY <1>3, <1>5, <1>6, <1>7 DEF TypeOK, r

(* Types are preserved: a handler only uses a document and a name it has. *)
LEMMA TypeStep ==
  ASSUME TypeOK, Control, HistoryWindow, [Next]_vars
  PROVE  TypeOK'
<1> USE NullIsNothing, CapacityPositive, MaxRevisionNat
<1> USE DEF registryVars, docVars, userVars, clientVars, editVars
<1>0. CASE UNCHANGED vars
  BY <1>0 DEF vars, TypeOK
<1> SUFFICES ASSUME Next PROVE TypeOK'
  BY <1>0
<1> PICK c \in Conn :
       \/ \E n \in Name : OpenHandle(c, n)
       \/ CloseHandle(c)
       \/ \E v \in Version : EditHandle(c, v)
       \/ ExitUser(c) \/ CloseDocument(c) \/ GetDocument(c) \/ OpenDocument(c)
       \/ JoinUser(c) \/ JoinNull(c) \/ GetUserList(c) \/ GetContent(c) \/ Reset(c)
  BY StepCases
<1>1. CASE \E n \in Name : OpenHandle(c, n)
  BY <1>1 DEF OpenHandle, TypeOK, PC
<1>2. CASE CloseHandle(c)
  BY <1>2 DEF CloseHandle, TypeOK, PC
<1>3. CASE \E v \in Version : EditHandle(c, v)
  <2> PICK v \in Version : EditHandle(c, v)
    BY <1>3
  <2>0. document[c] \in Doc /\ v \in Nat
    BY DEF EditHandle, TypeOK, Version
  <2>1. CASE min_revision[document[c]] <= v /\ v <= revision[document[c]]
    <3> DEFINE d == document[c]
    <3>1. PushToHistory(d, revision[d] + 1)
      BY <2>1 DEF EditHandle
    <3>2. history' \in [Doc -> Seq(Nat)] /\ min_revision' \in [Doc -> Nat]
      BY <2>0, <3>1, Pushed
    <3>3. Transformed(d, v) \in Seq(Nat)
      BY <2>0, <2>1, TransformedIs
    <3>4. against' \in [Conn -> Seq(Nat)]
      BY <2>1, <3>3 DEF EditHandle, TypeOK
    <3>5. /\ revision' = [revision EXCEPT ![document[c]] = revision[document[c]] + 1]
          /\ applied' = [applied EXCEPT ![c] = revision[document[c]] + 1]
          /\ version' = [version EXCEPT ![c] = revision[document[c]] + 1]
      BY <2>1 DEF EditHandle
    <3>6. revision' \in [Doc -> Nat] /\ applied' \in [Conn -> Nat] /\ version' \in [Conn -> Nat]
      BY <2>0, <3>5 DEF TypeOK
    <3>7. op' \in [Conn -> {"none", "open", "edit", "close"}] /\ pc' \in [Conn -> PC]
      BY DEF EditHandle, TypeOK, PC
    <3> QED
      BY <3>2, <3>4, <3>6, <3>7 DEF EditHandle, TypeOK
  <2>2. CASE ~(min_revision[document[c]] <= v /\ v <= revision[document[c]])
    BY <2>0, <2>2 DEF EditHandle, TypeOK, PC
  <2> QED
    BY <2>1, <2>2
<1>4. CASE ExitUser(c)
  BY <1>4 DEF ExitUser, AfterExit, TypeOK, PC, Control
<1>5. CASE CloseDocument(c)
  BY <1>5 DEF CloseDocument, AfterExit, Unlock, TypeOK, PC, Control
<1>6. CASE GetDocument(c)
  <2>1. doc_name[c] \in Name
    BY <1>6 DEF GetDocument, Control
  <2> QED
    BY <1>6, <2>1, LockType DEF GetDocument, TypeOK, PC
<1>7. CASE OpenDocument(c)
  <2>1. doc_name[c] \in Name
    BY <1>7 DEF OpenDocument, Control
  <2>2. CASE \E d \in Doc : CreateDocument(c, d)
    BY <1>7, <2>1, <2>2 DEF OpenDocument, CreateDocument, TypeOK, PC
  <2>3. CASE LockDocument(c)
    BY <1>7, <2>1, <2>3, LockType DEF OpenDocument, LockDocument, TypeOK, PC
  <2> QED
    BY <1>7, <2>2, <2>3 DEF OpenDocument
<1>8. CASE JoinUser(c)
  BY <1>8 DEF JoinUser, TypeOK, PC
<1>9. CASE JoinNull(c)
  BY <1>9 DEF JoinNull, TypeOK, PC
<1>10. CASE GetUserList(c)
  BY <1>10 DEF GetUserList, AfterList, Told, TypeOK, PC, Control
<1>11. CASE GetContent(c)
  BY <1>11 DEF GetContent, TypeOK, PC, Control
<1>12. CASE Reset(c)
  BY <1>12 DEF Reset, TypeOK, PC
<1> QED
  BY <1>1, <1>2, <1>3, <1>4, <1>5, <1>6, <1>7, <1>8, <1>9, <1>10, <1>11, <1>12

(* The control invariant: no document is used before it is checked, none is *)
(* joined without a name, and only an EDIT announces a revision.            *)
LEMMA ControlStep ==
  ASSUME TypeOK, Control, [Next]_vars
  PROVE  Control'
<1> USE NullIsNothing
<1> USE DEF registryVars, docVars, userVars, clientVars, editVars, Control
<1>0. CASE UNCHANGED vars
  BY <1>0 DEF vars
<1> SUFFICES ASSUME Next PROVE Control'
  BY <1>0
<1> PICK c \in Conn :
       \/ \E n \in Name : OpenHandle(c, n)
       \/ CloseHandle(c)
       \/ \E v \in Version : EditHandle(c, v)
       \/ ExitUser(c) \/ CloseDocument(c) \/ GetDocument(c) \/ OpenDocument(c)
       \/ JoinUser(c) \/ JoinNull(c) \/ GetUserList(c) \/ GetContent(c) \/ Reset(c)
  BY StepCases
<1>1. CASE \E n \in Name : OpenHandle(c, n)
  BY <1>1 DEF OpenHandle, TypeOK
<1>2. CASE CloseHandle(c)
  BY <1>2 DEF CloseHandle, TypeOK
<1>3. CASE \E v \in Version : EditHandle(c, v)
  BY <1>3 DEF EditHandle, TypeOK
<1>4. CASE ExitUser(c)
  BY <1>4, SMTT(30) DEF ExitUser, AfterExit, TypeOK
<1>5. CASE CloseDocument(c)
  BY <1>5 DEF CloseDocument, AfterExit, Unlock, TypeOK
<1>6. CASE GetDocument(c)
  BY <1>6 DEF GetDocument, TypeOK
<1>7. CASE OpenDocument(c)
  BY <1>7 DEF OpenDocument, Missing, CreateDocument, LockDocument, TypeOK
<1>8. CASE JoinUser(c)
  BY <1>8 DEF JoinUser, TypeOK
<1>9. CASE JoinNull(c)
  BY <1>9 DEF JoinNull, TypeOK
<1>10. CASE GetUserList(c)
  BY <1>10 DEF GetUserList, AfterList, Told, TypeOK
<1>11. CASE GetContent(c)
  BY <1>11 DEF GetContent, TypeOK
<1>12. CASE Reset(c)
  BY <1>12 DEF Reset, TypeOK
<1> QED
  BY <1>1, <1>2, <1>3, <1>4, <1>5, <1>6, <1>7, <1>8, <1>9, <1>10, <1>11, <1>12

(* The user list of a document is exact: who has joined it, nobody else. *)
LEMMA UsersStep ==
  ASSUME TypeOK, Control, UsersAreJoined, [Next]_vars
  PROVE  UsersAreJoined'
<1> USE NullIsNothing
<1> USE DEF registryVars, docVars, userVars, clientVars, editVars, UsersAreJoined, Joined, Control
<1>0. CASE UNCHANGED vars
  BY <1>0 DEF vars
<1> SUFFICES ASSUME Next PROVE UsersAreJoined'
  BY <1>0
<1> PICK c \in Conn :
       \/ \E n \in Name : OpenHandle(c, n)
       \/ CloseHandle(c)
       \/ \E v \in Version : EditHandle(c, v)
       \/ ExitUser(c) \/ CloseDocument(c) \/ GetDocument(c) \/ OpenDocument(c)
       \/ JoinUser(c) \/ JoinNull(c) \/ GetUserList(c) \/ GetContent(c) \/ Reset(c)
  BY StepCases
<1>1. CASE \E n \in Name : OpenHandle(c, n)
  BY <1>1 DEF OpenHandle, TypeOK
<1>2. CASE CloseHandle(c)
  BY <1>2 DEF CloseHandle, TypeOK
<1>3. CASE \E v \in Version : EditHandle(c, v)
  BY <1>3 DEF EditHandle, TypeOK
<1>4. CASE ExitUser(c)
  BY <1>4, SMTT(30) DEF ExitUser, AfterExit, TypeOK
<1>5. CASE CloseDocument(c)
  BY <1>5 DEF CloseDocument, AfterExit, Unlock, TypeOK
<1>6. CASE GetDocument(c)
  BY <1>6 DEF GetDocument, TypeOK, Lock
<1>7. CASE OpenDocument(c)
  BY <1>7 DEF OpenDocument, Missing, CreateDocument, LockDocument, TypeOK, Free, Holders, Lock
<1>8. CASE JoinUser(c)
  BY <1>8 DEF JoinUser, TypeOK
<1>9. CASE JoinNull(c)
  BY <1>9 DEF JoinNull, TypeOK
<1>10. CASE GetUserList(c)
  BY <1>10 DEF GetUserList, AfterList, Told, TypeOK
<1>11. CASE GetContent(c)
  BY <1>11 DEF GetContent, TypeOK
<1>12. CASE Reset(c)
  BY <1>12 DEF Reset, TypeOK
<1> QED
  BY <1>1, <1>2, <1>3, <1>4, <1>5, <1>6, <1>7, <1>8, <1>9, <1>10, <1>11, <1>12

(* users_mutex_ is held across steps by the thread inside CloseDocument only. *)
LEMMA MutexStep ==
  ASSUME TypeOK, Control, MutexOwner, [Next]_vars
  PROVE  MutexOwner'
<1> USE NullIsNothing
<1> USE DEF registryVars, docVars, userVars, clientVars, editVars, MutexOwner, Control
<1>0. CASE UNCHANGED vars
  BY <1>0 DEF vars
<1> SUFFICES ASSUME Next PROVE MutexOwner'
  BY <1>0
<1> PICK c \in Conn :
       \/ \E n \in Name : OpenHandle(c, n)
       \/ CloseHandle(c)
       \/ \E v \in Version : EditHandle(c, v)
       \/ ExitUser(c) \/ CloseDocument(c) \/ GetDocument(c) \/ OpenDocument(c)
       \/ JoinUser(c) \/ JoinNull(c) \/ GetUserList(c) \/ GetContent(c) \/ Reset(c)
  BY StepCases
<1>1. CASE \E n \in Name : OpenHandle(c, n)
  BY <1>1 DEF OpenHandle, TypeOK
<1>2. CASE CloseHandle(c)
  BY <1>2 DEF CloseHandle, TypeOK
<1>3. CASE \E v \in Version : EditHandle(c, v)
  BY <1>3 DEF EditHandle, TypeOK
<1>4. CASE ExitUser(c)
  <2> DEFINE d == document[c]
             last == users[d] \ {c} = {}
  <2>1. d \in Doc /\ users_mutex[d] = NULL /\ document' = document
    BY <1>4 DEF ExitUser, TypeOK
  <2>2. users_mutex' = [users_mutex EXCEPT ![d] = IF last THEN c ELSE NULL]
    BY <1>4 DEF ExitUser
  <2>3. /\ \A e \in Conn \ {c} : pc'[e] = pc[e]
        /\ pc'[c] = "CloseDocument" <=> last
        /\ pc[c] = "ExitUser"
    BY <1>4 DEF ExitUser, AfterExit, TypeOK
  <2> HIDE DEF d, last
  <2>4. \A e \in Conn : document[e] = d => pc[e] # "CloseDocument"
    BY <2>1 DEF d
  <2>5. ASSUME NEW x \in Doc, NEW e \in Conn
        PROVE  users_mutex'[x] = e <=> document[e] = x /\ pc'[e] = "CloseDocument"
    <3>1. CASE x = d
      BY <2>1, <2>2, <2>3, <2>4, <3>1 DEF d, TypeOK
    <3>2. CASE x # d
      BY <2>1, <2>2, <2>3, <3>2 DEF d, TypeOK
    <3> QED
      BY <3>1, <3>2
  <2> QED
    BY <2>1, <2>5
<1>5. CASE CloseDocument(c)
  BY <1>5 DEF CloseDocument, AfterExit, Unlock, TypeOK
<1>6. CASE GetDocument(c)
  BY <1>6 DEF GetDocument, TypeOK, Lock
<1>7. CASE OpenDocument(c)
  BY <1>7 DEF OpenDocument, Missing, CreateDocument, LockDocument, TypeOK, Free, Holders, Lock
<1>8. CASE JoinUser(c)
  BY <1>8 DEF JoinUser, TypeOK
<1>9. CASE JoinNull(c)
  BY <1>9 DEF JoinNull, TypeOK
<1>10. CASE GetUserList(c)
  BY <1>10 DEF GetUserList, AfterList, Told, TypeOK
<1>11. CASE GetContent(c)
  BY <1>11 DEF GetContent, TypeOK
<1>12. CASE Reset(c)
  BY <1>12 DEF Reset, TypeOK
<1> QED
  BY <1>1, <1>2, <1>3, <1>4, <1>5, <1>6, <1>7, <1>8, <1>9, <1>10, <1>11, <1>12

(* An entry leads to a document of its name; a document in use has a name. *)
LEMMA NamedStep ==
  ASSUME TypeOK, Control, Named, [Next]_vars
  PROVE  Named'
<1> USE NullIsNothing
<1> USE DEF registryVars, docVars, userVars, clientVars, editVars, Named, Control
<1>0. CASE UNCHANGED vars
  BY <1>0 DEF vars
<1> SUFFICES ASSUME Next PROVE Named'
  BY <1>0
<1> PICK c \in Conn :
       \/ \E n \in Name : OpenHandle(c, n)
       \/ CloseHandle(c)
       \/ \E v \in Version : EditHandle(c, v)
       \/ ExitUser(c) \/ CloseDocument(c) \/ GetDocument(c) \/ OpenDocument(c)
       \/ JoinUser(c) \/ JoinNull(c) \/ GetUserList(c) \/ GetContent(c) \/ Reset(c)
  BY StepCases
<1>1. CASE \E n \in Name : OpenHandle(c, n)
  BY <1>1 DEF OpenHandle, TypeOK
<1>2. CASE CloseHandle(c)
  BY <1>2 DEF CloseHandle, TypeOK
<1>3. CASE \E v \in Version : EditHandle(c, v)
  BY <1>3 DEF EditHandle, TypeOK
<1>4. CASE ExitUser(c)
  BY <1>4 DEF ExitUser, AfterExit, TypeOK
<1>5. CASE CloseDocument(c)
  BY <1>5 DEF CloseDocument, AfterExit, Unlock, TypeOK
<1>6. CASE GetDocument(c)
  <2>1. doc_name[c] \in Name
    BY <1>6 DEF GetDocument
  <2> QED
    BY <1>6, <2>1, LockType DEF GetDocument, TypeOK
<1>7. CASE OpenDocument(c)
  <2> DEFINE n == doc_name[c]
  <2>1. n \in Name /\ pc[c] = "OpenDocument"
    BY <1>7 DEF OpenDocument, Control
  <2>2. CASE \E d \in Doc : CreateDocument(c, d)
    <3> PICK d \in Doc : CreateDocument(c, d)
      BY <2>2
    <3>1. /\ documents' = [documents EXCEPT ![n] = d]
          /\ name' = [name EXCEPT ![d] = n]
          /\ document' = [document EXCEPT ![c] = d]
      BY DEF CreateDocument
    <3>2. (\A m \in Name : documents[m] # d) /\ \A e \in Conn : document[e] # d
      BY DEF CreateDocument, Free, Holders
    <3> QED
      BY <2>1, <3>1, <3>2 DEF TypeOK
  <2>3. CASE LockDocument(c)
    BY <2>1, <2>3, LockType DEF LockDocument, TypeOK
  <2> QED
    BY <1>7, <2>2, <2>3 DEF OpenDocument
<1>8. CASE JoinUser(c)
  BY <1>8 DEF JoinUser, TypeOK
<1>9. CASE JoinNull(c)
  BY <1>9 DEF JoinNull, TypeOK
<1>10. CASE GetUserList(c)
  BY <1>10 DEF GetUserList, AfterList, Told, TypeOK
<1>11. CASE GetContent(c)
  BY <1>11 DEF GetContent, TypeOK
<1>12. CASE Reset(c)
  BY <1>12 DEF Reset, TypeOK
<1> QED
  BY <1>1, <1>2, <1>3, <1>4, <1>5, <1>6, <1>7, <1>8, <1>9, <1>10, <1>11, <1>12

(* The history window stays exact: only an accepted EDIT moves it. *)
LEMMA HistoryStep ==
  ASSUME TypeOK, Control, HistoryWindow, [Next]_vars
  PROVE  HistoryWindow'
<1> USE NullIsNothing, CapacityPositive
<1> USE DEF registryVars, docVars, userVars, clientVars, editVars
<1>0. CASE UNCHANGED vars
  BY <1>0 DEF vars, HistoryWindow
<1> SUFFICES ASSUME Next PROVE HistoryWindow'
  BY <1>0
<1> PICK c \in Conn :
       \/ \E n \in Name : OpenHandle(c, n)
       \/ CloseHandle(c)
       \/ \E v \in Version : EditHandle(c, v)
       \/ ExitUser(c) \/ CloseDocument(c) \/ GetDocument(c) \/ OpenDocument(c)
       \/ JoinUser(c) \/ JoinNull(c) \/ GetUserList(c) \/ GetContent(c) \/ Reset(c)
  BY StepCases
<1>1. CASE \E n \in Name : OpenHandle(c, n)
  BY <1>1 DEF OpenHandle, TypeOK, HistoryWindow
<1>2. CASE CloseHandle(c)
  BY <1>2 DEF CloseHandle, TypeOK, HistoryWindow
<1>3. CASE \E v \in Version : EditHandle(c, v)
  <2> PICK v \in Version : EditHandle(c, v)
    BY <1>3
  <2> DEFINE d == document[c]
  <2>0. d \in Doc
    BY DEF EditHandle, TypeOK
  <2>1. CASE min_revision[d] <= v /\ v <= revision[d]
    <3>1. /\ PushToHistory(d, revision[d] + 1)
          /\ revision' = [revision EXCEPT ![d] = revision[d] + 1]
      BY <2>1 DEF EditHandle
    <3>2. /\ revision'[d] = revision[d] + 1
          /\ \A e \in Doc \ {d} : revision'[e] = revision[e]
      BY <2>0, <3>1 DEF TypeOK
    <3> HIDE DEF d
    <3>3. /\ Len(history'[d]) <= Capacity
          /\ revision'[d] = min_revision'[d] + Len(history'[d])
          /\ \A i \in 1..Len(history'[d]) : history'[d][i] = min_revision'[d] + i
      BY <2>0, <3>1, <3>2, Pushed
    <3>4. \A e \in Doc \ {d} : history'[e] = history[e] /\ min_revision'[e] = min_revision[e]
      BY <2>0, <3>1, Pushed
    <3>5. ASSUME NEW e \in Doc, e # d
          PROVE  /\ Len(history'[e]) <= Capacity
                 /\ revision'[e] = min_revision'[e] + Len(history'[e])
                 /\ \A i \in 1..Len(history'[e]) : history'[e][i] = min_revision'[e] + i
      BY <3>2, <3>4, <3>5 DEF HistoryWindow
    <3> QED
      BY <3>3, <3>5 DEF HistoryWindow
  <2>2. CASE ~(min_revision[d] <= v /\ v <= revision[d])
    BY <2>2 DEF EditHandle, HistoryWindow
  <2> QED
    BY <2>1, <2>2
<1>4. CASE ExitUser(c)
  BY <1>4 DEF ExitUser, AfterExit, TypeOK, HistoryWindow
<1>5. CASE CloseDocument(c)
  BY <1>5 DEF CloseDocument, AfterExit, Unlock, TypeOK, HistoryWindow
<1>6. CASE GetDocument(c)
  BY <1>6 DEF GetDocument, TypeOK, HistoryWindow
<1>7. CASE OpenDocument(c)
  <2> DEFINE n == doc_name[c]
  <2>1. n \in Name
    BY <1>7 DEF OpenDocument, Control
  <2>2. CASE \E d \in Doc : CreateDocument(c, d)
    <3> PICK d \in Doc : CreateDocument(c, d)
      BY <2>2
    <3>1. /\ revision' = [revision EXCEPT ![d] = 0]
          /\ min_revision' = [min_revision EXCEPT ![d] = 0]
          /\ history' = [history EXCEPT ![d] = <<>>]
      BY DEF CreateDocument
    <3> QED
      BY <3>1 DEF TypeOK, HistoryWindow
  <2>3. CASE LockDocument(c)
    BY <2>3 DEF LockDocument, HistoryWindow
  <2> QED
    BY <1>7, <2>2, <2>3 DEF OpenDocument
<1>8. CASE JoinUser(c)
  BY <1>8 DEF JoinUser, TypeOK, HistoryWindow
<1>9. CASE JoinNull(c)
  BY <1>9 DEF JoinNull, TypeOK, HistoryWindow
<1>10. CASE GetUserList(c)
  BY <1>10 DEF GetUserList, AfterList, Told, TypeOK, HistoryWindow
<1>11. CASE GetContent(c)
  BY <1>11 DEF GetContent, TypeOK, HistoryWindow
<1>12. CASE Reset(c)
  BY <1>12 DEF Reset, TypeOK, HistoryWindow
<1> QED
  BY <1>1, <1>2, <1>3, <1>4, <1>5, <1>6, <1>7, <1>8, <1>9, <1>10, <1>11, <1>12

(* use_count() = 1 seen by a holder: it is the only one. *)
LEMMA OnlyHolder ==
  ASSUME NEW d, NEW c \in Conn, document[c] = d, UseCount(d) = 1
  PROVE  Holders(d) = {c}
<1>1. Holders(d) \in SUBSET Conn /\ c \in Holders(d)
  BY DEF Holders
<1>2. IsFiniteSet(Holders(d))
  BY <1>1, ConnFinite, FS_Subset
<1>3. PICK x : Holders(d) = {x}
  BY <1>2, FS_Singleton DEF UseCount
<1> QED
  BY <1>1, <1>3

(* A document in use stays registered until CloseDocument finds that its    *)
(* caller is the last holder.                                               *)
LEMMA RegisteredStep ==
  ASSUME TypeOK, Control, Named, Registered, [Next]_vars
  PROVE  Registered'
<1> USE NullIsNothing
<1> USE DEF registryVars, docVars, userVars, clientVars, editVars
<1>0. CASE UNCHANGED vars
  BY <1>0 DEF vars, Registered, Detached, Holders
<1> SUFFICES ASSUME Next PROVE Registered'
  BY <1>0
<1> PICK c \in Conn :
       \/ \E n \in Name : OpenHandle(c, n)
       \/ CloseHandle(c)
       \/ \E v \in Version : EditHandle(c, v)
       \/ ExitUser(c) \/ CloseDocument(c) \/ GetDocument(c) \/ OpenDocument(c)
       \/ JoinUser(c) \/ JoinNull(c) \/ GetUserList(c) \/ GetContent(c) \/ Reset(c)
  BY StepCases
<1>1. CASE \E n \in Name : OpenHandle(c, n)
  BY <1>1 DEF OpenHandle, TypeOK, Registered, Detached, Holders, Control
<1>2. CASE CloseHandle(c)
  BY <1>2 DEF CloseHandle, TypeOK, Registered, Detached, Holders, Control
<1>3. CASE \E v \in Version : EditHandle(c, v)
  BY <1>3 DEF EditHandle, TypeOK, Registered, Detached, Holders, Control
<1>4. CASE ExitUser(c)
  BY <1>4, ZenonT(60) DEF ExitUser, AfterExit, TypeOK, Registered, Detached, Holders, Control
<1>5. CASE CloseDocument(c)
  <2> DEFINE d == document[c]
             n == name[d]
  <2>1. /\ pc[c] = "CloseDocument" /\ document' = document /\ name' = name /\ op' = op
        /\ \A e \in Conn \ {c} : pc'[e] = pc[e]
        /\ pc'[c] = AfterExit(c)
    BY <1>5 DEF CloseDocument, TypeOK
  <2>2. d \in Doc /\ n \in Name /\ documents[n] = d /\ op[c] \in {"open", "close"}
    BY <2>1 DEF TypeOK, Named, Registered, Detached, Control
  <2>3. Detached(c)'
    BY <2>1, <2>2 DEF Detached, AfterExit
  <2>4. \A e \in Conn \ {c} : Detached(e) => Detached(e)'
    BY <2>1 DEF Detached
  <2>5. \A x : Holders(x)' = Holders(x)
    BY <2>1 DEF Holders
  <2>6. CASE UseCount(d) = 1
    <3>1. Holders(d) = {c}
      BY <2>2, <2>6, OnlyHolder
    <3>2. documents' = [documents EXCEPT ![n] = NULL]
      BY <1>5, <2>2, <2>6 DEF CloseDocument, Erasable
    <3>3. ASSUME NEW e \in Conn, document[e] # NULL, e # c
          PROVE  \/ documents'[name[document[e]]] = document[e]
                 \/ Detached(e)' /\ Holders(document[e]) = {e}
      <4>1. document[e] # d
        BY <3>1, <3>3 DEF Holders
      <4>2. documents[name[document[e]]] = document[e] => name[document[e]] # n
        BY <2>2, <4>1
      <4>3. name[document[e]] \in Name
        BY <3>3 DEF Named
      <4> QED
        BY <2>4, <3>2, <3>3, <4>2, <4>3 DEF TypeOK, Registered
    <3> QED
      BY <2>1, <2>3, <2>5, <3>1, <3>3 DEF Registered
  <2>7. CASE UseCount(d) # 1
    <3>1. documents' = documents
      BY <1>5, <2>2, <2>7 DEF CloseDocument, Erasable
    <3> QED
      BY <2>1, <2>2, <2>4, <2>5, <3>1 DEF Registered
  <2> QED
    BY <2>6, <2>7
<1>6. CASE GetDocument(c)
  <2> DEFINE found == Lock(doc_name[c])
  <2>1. doc_name[c] \in Name /\ op[c] = "open"
    BY <1>6 DEF GetDocument, Control
  <2>2. /\ document' = [document EXCEPT ![c] = found]
        /\ documents' = documents /\ name' = name /\ op' = op
        /\ \A e \in Conn \ {c} : pc'[e] = pc[e]
    BY <1>6 DEF GetDocument, TypeOK
  <2>3. found # NULL => found \in Doc /\ documents[name[found]] = found
    BY <2>1, LockType DEF Named, TypeOK
  <2> HIDE DEF found
  <2>4. document'[c] = found /\ \A e \in Conn \ {c} : document'[e] = document[e]
    BY <2>2 DEF TypeOK
  <2>5. ASSUME NEW e \in Conn, e # c, document[e] # NULL
        PROVE  \/ documents[name[document[e]]] = document[e]
               \/ Detached(e)' /\ Holders(document[e])' = {e}
    <3>1. CASE documents[name[document[e]]] = document[e]
      BY <3>1
    <3>2. CASE documents[name[document[e]]] # document[e]
      <4>1. Detached(e) /\ Holders(document[e]) = {e}
        BY <2>5, <3>2 DEF Registered
      <4>2. found # document[e]
        BY <2>3, <2>5, <3>2
      <4>3. Holders(document[e])' = {e}
        BY <2>4, <2>5, <4>1, <4>2 DEF Holders
      <4>4. Detached(e)'
        BY <2>2, <2>5, <4>1 DEF Detached
      <4> QED
        BY <4>3, <4>4
    <3> QED
      BY <3>1, <3>2
  <2> QED
    BY <2>2, <2>3, <2>4, <2>5 DEF Registered
<1>7. CASE OpenDocument(c)
  <2> DEFINE n == doc_name[c]
  <2>1. n \in Name /\ op[c] = "open"
    BY <1>7 DEF OpenDocument, Control
  <2>2. /\ op' = op
        /\ \A e \in Conn \ {c} : pc'[e] = pc[e]
    BY <1>7 DEF OpenDocument, TypeOK
  <2>3. CASE documents[n] = NULL
    <3> PICK d \in Doc : CreateDocument(c, d)
      BY <1>7, <2>3 DEF OpenDocument, Missing
    <3>1. documents[n] = NULL
      BY <2>3
    <3>2. /\ documents' = [documents EXCEPT ![n] = d]
          /\ name' = [name EXCEPT ![d] = n]
          /\ document' = [document EXCEPT ![c] = d]
      BY DEF CreateDocument
    <3>3. \A e \in Conn : document[e] # d
      BY DEF CreateDocument, Free, Holders
    <3> HIDE DEF n
    <3>4. /\ document'[c] = d /\ name'[d] = n /\ documents'[n] = d
          /\ \A e \in Conn \ {c} : document'[e] = document[e]
          /\ \A x \in Doc \ {d} : name'[x] = name[x]
          /\ \A m \in Name \ {n} : documents'[m] = documents[m]
      BY <2>1, <3>2 DEF TypeOK
    <3>5. ASSUME NEW e \in Conn, e # c, document[e] # NULL
          PROVE  \/ documents'[name'[document[e]]] = document[e]
                 \/ Detached(e)' /\ Holders(document[e])' = {e}
      <4>1. document[e] \in Doc \ {d} /\ name'[document[e]] = name[document[e]]
        BY <3>3, <3>4, <3>5 DEF TypeOK
      <4>2. name[document[e]] \in Name
        BY <3>5 DEF Named
      <4>3. CASE documents[name[document[e]]] = document[e]
        <5>1. name[document[e]] # n
          BY <3>1, <3>5, <4>3
        <5> QED
          BY <3>4, <4>1, <4>2, <4>3, <5>1
      <4>4. CASE documents[name[document[e]]] # document[e]
        <5>1. Detached(e) /\ Holders(document[e]) = {e}
          BY <3>5, <4>4 DEF Registered
        <5>2. Holders(document[e])' = {e}
          BY <3>4, <3>5, <4>1, <5>1 DEF Holders
        <5>3. Detached(e)'
          BY <2>2, <3>5, <5>1 DEF Detached
        <5> QED
          BY <5>2, <5>3
      <4> QED
        BY <4>3, <4>4
    <3> QED
      BY <3>4, <3>5 DEF Registered
  <2>4. CASE documents[n] # NULL
    <3> DEFINE found == Lock(n)
    <3>1. /\ document' = [document EXCEPT ![c] = found]
          /\ documents' = documents /\ name' = name
      BY <1>7, <2>4 DEF OpenDocument, Missing, LockDocument
    <3>2. found # NULL => found \in Doc /\ documents[name[found]] = found
      BY <2>1, LockType DEF Named, TypeOK
    <3> HIDE DEF found
    <3>3. document'[c] = found /\ \A e \in Conn \ {c} : document'[e] = document[e]
      BY <3>1 DEF TypeOK
    <3>4. ASSUME NEW e \in Conn, e # c, document[e] # NULL,
                 documents[name[document[e]]] # document[e]
          PROVE  Detached(e)' /\ Holders(document[e])' = {e}
      <4>1. Detached(e) /\ Holders(document[e]) = {e}
        BY <3>4 DEF Registered
      <4>2. found # document[e]
        BY <3>2, <3>4
      <4>3. Holders(document[e])' = {e}
        BY <3>3, <3>4, <4>1, <4>2 DEF Holders
      <4> QED
        BY <2>2, <3>4, <4>1, <4>3 DEF Detached
    <3> QED
      BY <3>1, <3>2, <3>3, <3>4 DEF Registered
  <2> QED
    BY <2>3, <2>4
<1>8. CASE JoinUser(c)
  BY <1>8, ZenonT(60) DEF JoinUser, TypeOK, Registered, Detached, Holders, Control
<1>9. CASE JoinNull(c)
  BY <1>9 DEF JoinNull, TypeOK, Registered, Detached, Holders, Control
<1>10. CASE GetUserList(c)
  BY <1>10 DEF GetUserList, AfterList, Told, TypeOK, Registered, Detached, Holders, Control
<1>11. CASE GetContent(c)
  BY <1>11 DEF GetContent, TypeOK, Registered, Detached, Holders, Control
<1>12. CASE Reset(c)
  <2>1. /\ documents' = documents /\ name' = name
        /\ document'[c] = NULL
        /\ \A e \in Conn \ {c} : document'[e] = document[e] /\ pc'[e] = pc[e] /\ op'[e] = op[e]
    BY <1>12 DEF Reset, TypeOK
  <2>2. ASSUME NEW e \in Conn, e # c, document[e] # NULL, Detached(e), Holders(document[e]) = {e}
        PROVE  Detached(e)' /\ Holders(document[e])' = {e}
    <3>1. Holders(document[e])' = {e}
      BY <2>1, <2>2 DEF Holders
    <3> QED
      BY <2>1, <2>2, <3>1 DEF Detached
  <2> QED
    BY <2>1, <2>2 DEF Registered
<1> QED
  BY <1>1, <1>2, <1>3, <1>4, <1>5, <1>6, <1>7, <1>8, <1>9, <1>10, <1>11, <1>12

(* No action makes a client miss an edit.                                   *)
LEMMA MissedStep ==
  ASSUME TypeOK, Control, UsersAreJoined, NoMissedEdit, [Next]_vars
  PROVE  NoMissedEdit'
<1> USE NullIsNothing
<1> USE DEF registryVars, docVars, userVars, clientVars, editVars
<1>0. CASE UNCHANGED vars
  BY <1>0 DEF vars, NoMissedEdit, Served
<1> SUFFICES ASSUME Next PROVE NoMissedEdit'
  BY <1>0
<1> PICK c \in Conn :
       \/ \E n \in Name : OpenHandle(c, n)
       \/ CloseHandle(c)
       \/ \E v \in Version : EditHandle(c, v)
       \/ ExitUser(c) \/ CloseDocument(c) \/ GetDocument(c) \/ OpenDocument(c)
       \/ JoinUser(c) \/ JoinNull(c) \/ GetUserList(c) \/ GetContent(c) \/ Reset(c)
  BY StepCases
<1>1. CASE \E n \in Name : OpenHandle(c, n)
  BY <1>1 DEF OpenHandle, TypeOK, NoMissedEdit, Served, Control
<1>2. CASE CloseHandle(c)
  BY <1>2 DEF CloseHandle, TypeOK, NoMissedEdit, Served, Control
<1>3. CASE \E v \in Version : EditHandle(c, v)
  <2> PICK v \in Version : EditHandle(c, v)
    BY <1>3
  <2> DEFINE d == document[c]
  <2>1. /\ d \in Doc /\ revision \in [Doc -> Nat] /\ pc[c] = "Idle"
        /\ document' = document /\ known' = known
        /\ \A e \in Conn \ {c} : pc'[e] = pc[e] /\ op'[e] = op[e]
        /\ pc'[c] = "GetUserList"
    BY DEF EditHandle, TypeOK
  <2>2. \A x \in Conn : Served(x)' => Served(x)
    BY <2>1, NullIsNothing DEF Served
  <2>3. CASE min_revision[d] <= v /\ v <= revision[d]
    <3>1. /\ revision' = [revision EXCEPT ![d] = revision[d] + 1]
          /\ applied' = [applied EXCEPT ![c] = revision[d] + 1]
      BY <2>3 DEF EditHandle
    <3>2. /\ applied'[c] = revision[d] + 1 /\ revision'[d] = revision[d] + 1
          /\ \A e \in Conn \ {c} : applied'[e] = applied[e]
          /\ \A x \in Doc \ {d} : revision'[x] = revision[x]
      BY <2>1, <3>1 DEF TypeOK
    <3>3. ASSUME NEW x \in Conn, Served(x)', NEW r \in 1..revision'[document[x]]
          PROVE  \/ r \in known[x]
                 \/ \E e \in Conn : /\ applied'[e] = r
                                    /\ document[e] = document[x]
                                    /\ pc'[e] = "GetUserList"
      <4>1. document[x] \in Doc
        BY <2>2, <3>3 DEF Served, TypeOK
      <4>2. CASE r \in 1..revision[document[x]]
        <5>1. CASE r \in known[x]
          BY <5>1
        <5>2. CASE r \notin known[x]
          <6>1. PICK e \in Conn : /\ applied[e] = r
                                  /\ document[e] = document[x]
                                  /\ pc[e] = "GetUserList"
            BY <2>2, <3>3, <4>2, <5>2 DEF NoMissedEdit
          <6> QED
            BY <2>1, <3>2, <6>1
        <5> QED
          BY <5>1, <5>2
      <4>3. CASE r \notin 1..revision[document[x]]
        <5>1. document[x] = d /\ r = revision[d] + 1
          BY <2>1, <3>2, <3>3, <4>1, <4>3
        <5> QED
          BY <2>1, <3>2, <5>1
      <4> QED
        BY <4>2, <4>3
    <3> QED
      BY <2>1, <3>3 DEF NoMissedEdit
  <2>4. CASE ~(min_revision[d] <= v /\ v <= revision[d])
    <3>1. revision' = revision /\ applied' = applied
      BY <2>4 DEF EditHandle
    <3> QED
      BY <2>1, <2>2, <3>1 DEF NoMissedEdit
  <2> QED
    BY <2>3, <2>4
<1>4. CASE ExitUser(c)
  BY <1>4 DEF ExitUser, AfterExit, TypeOK, NoMissedEdit, Served, Control
<1>5. CASE CloseDocument(c)
  BY <1>5 DEF CloseDocument, AfterExit, Unlock, TypeOK, NoMissedEdit, Served, Control
<1>6. CASE GetDocument(c)
  <2>1. /\ known' = known /\ applied' = applied /\ op' = op /\ revision' = revision
        /\ pc[c] = "GetDocument" /\ pc'[c] \in {"OpenDocument", "JoinUser"}
        /\ \A e \in Conn \ {c} : pc'[e] = pc[e] /\ document'[e] = document[e]
    BY <1>6 DEF GetDocument, TypeOK
  <2>2. \A x \in Conn : Served(x)' => x # c /\ Served(x)
    BY <2>1 DEF Served
  <2> QED
    BY <2>1, <2>2 DEF NoMissedEdit
<1>7. CASE OpenDocument(c)
  <2>1. /\ known' = known /\ applied' = applied /\ op' = op
        /\ pc[c] = "OpenDocument" /\ pc'[c] = "JoinUser"
        /\ \A e \in Conn \ {c} : pc'[e] = pc[e]
    BY <1>7 DEF OpenDocument, TypeOK
  <2>2. \A e \in Conn \ {c} : document'[e] = document[e]
    BY <1>7 DEF OpenDocument, Missing, CreateDocument, LockDocument, TypeOK
  <2>3. \A x \in Conn : Served(x)' => x # c /\ Served(x)
    BY <2>1, <2>2 DEF Served
  <2>4. \A x \in Conn \ {c} : document[x] # NULL => revision'[document[x]] = revision[document[x]]
    <3>1. CASE \E d \in Doc : CreateDocument(c, d)
      BY <3>1 DEF CreateDocument, Free, Holders, TypeOK
    <3>2. CASE LockDocument(c)
      BY <3>2 DEF LockDocument
    <3> QED
      BY <1>7, <3>1, <3>2 DEF OpenDocument
  <2> QED
    BY <2>1, <2>2, <2>3, <2>4 DEF NoMissedEdit, Served
<1>8. CASE JoinUser(c)
  <2>1. /\ known' = known /\ applied' = applied /\ op' = op /\ document' = document
        /\ revision' = revision /\ op[c] = "open" /\ pc[c] = "JoinUser"
        /\ pc'[c] = "GetUserList" /\ \A e \in Conn \ {c} : pc'[e] = pc[e]
    BY <1>8 DEF JoinUser, TypeOK, Control
  <2>2. \A x \in Conn : Served(x)' => Served(x)
    BY <2>1 DEF Served
  <2> QED
    BY <2>1, <2>2 DEF NoMissedEdit
<1>9. CASE JoinNull(c)
  BY <1>9 DEF JoinNull, TypeOK, NoMissedEdit, Served, Control
<1>10. CASE GetUserList(c)
  <2> DEFINE d == document[c]
             told == IF applied[c] # 0 THEN Told(c) ELSE {}
  <2>1. /\ d \in Doc /\ pc[c] = "GetUserList" /\ op[c] # "none"
        /\ document' = document /\ revision' = revision
        /\ \A x \in Conn : known'[x] = IF x \in told THEN known[x] \cup {applied[c]} ELSE known[x]
        /\ \A e \in Conn \ {c} : pc'[e] = pc[e] /\ op'[e] = op[e] /\ applied'[e] = applied[e]
        /\ pc'[c] = AfterList(c)
    BY <1>10 DEF GetUserList, TypeOK, Control
  <2>2. \A x \in Conn : Served(x)' => Served(x)
    BY <2>1 DEF Served, AfterList, TypeOK
  <2>3. ASSUME NEW x \in Conn, Served(x), NEW r \in 1..revision[document[x]]
        PROVE  \/ r \in known'[x]
               \/ \E e \in Conn : /\ applied'[e] = r
                                  /\ document[e] = document[x]
                                  /\ pc'[e] = "GetUserList"
    <3>1. CASE r \in known[x]
      BY <2>1, <3>1
    <3>2. CASE r \notin known[x]
      <4>1. PICK e \in Conn : /\ applied[e] = r
                              /\ document[e] = document[x]
                              /\ pc[e] = "GetUserList"
        BY <2>3, <3>2 DEF NoMissedEdit
      <4>2. CASE e = c
        <5>1. x \in users[d]
          BY <2>1, <2>3, <4>1, <4>2 DEF Served, UsersAreJoined, Joined
        <5>2. applied[c] # 0
          BY <4>1, <4>2, <2>3 DEF TypeOK
        <5> QED
          BY <2>1, <4>1, <4>2, <5>1, <5>2 DEF Told
      <4>3. CASE e # c
        BY <2>1, <4>1, <4>3
      <4> QED
        BY <4>2, <4>3
    <3> QED
      BY <3>1, <3>2
  <2> QED
    BY <2>1, <2>2, <2>3 DEF NoMissedEdit
<1>11. CASE GetContent(c)
  <2> DEFINE d == document[c]
  <2>1. /\ document' = document /\ revision' = revision /\ applied' = applied
        /\ pc[c] = "GetContent" /\ pc'[c] = "Idle"
        /\ \A e \in Conn \ {c} : pc'[e] = pc[e] /\ op'[e] = op[e] /\ known'[e] = known[e]
        /\ known'[c] = known[c] \cup 1..revision[d]
    BY <1>11 DEF GetContent, TypeOK
  <2>2. \A x \in Conn \ {c} : Served(x)' => Served(x)
    BY <2>1 DEF Served
  <2>3. \A r \in 1..revision[d] : r \in known'[c]
    BY <2>1
  <2> QED
    BY <2>1, <2>2, <2>3 DEF NoMissedEdit
<1>12. CASE Reset(c)
  <2>1. /\ known' = known /\ applied' = applied /\ revision' = revision
        /\ pc[c] = "Reset" /\ document'[c] = NULL
        /\ \A e \in Conn \ {c} : /\ pc'[e] = pc[e] /\ op'[e] = op[e]
                                 /\ document'[e] = document[e]
    BY <1>12 DEF Reset, TypeOK
  <2>2. \A x \in Conn : Served(x)' => x # c /\ Served(x)
    BY <2>1 DEF Served
  <2> QED
    BY <2>1, <2>2 DEF NoMissedEdit
<1> QED
  BY <1>1, <1>2, <1>3, <1>4, <1>5, <1>6, <1>7, <1>8, <1>9, <1>10, <1>11, <1>12

--------------------------------------------------------------------------
(* IInv is an invariant of the service. *)
THEOREM Inductive == Spec => []IInv
<1>1. Init => IInv
  BY InitIInv
<1>2. IInv /\ [Next]_vars => IInv'
  BY TypeStep, ControlStep, UsersStep, MutexStep, NamedStep, RegisteredStep,
     HistoryStep, MissedStep DEF IInv
<1> QED
  BY <1>1, <1>2, PTL DEF Spec

(* Every variable keeps its type: no handler reads through a null document, *)
(* a name it was not given or an index outside the history window.          *)
THEOREM TypeCorrect == Spec => []TypeOK
<1>1. IInv => TypeOK
  BY DEF IInv
<1> QED
  BY <1>1, Inductive, PTL

(* The users of a name always share the document the name leads to, for any *)
(* number of connections that open, leave and close it at once.             *)
THEOREM SharedByName == Spec => []JoinedIsRegistered
<1>1. IInv => JoinedIsRegistered
  <2> SUFFICES ASSUME IInv, NEW d \in Doc, NEW c \in users[d]
               PROVE  documents[name[d]] = d
    BY DEF JoinedIsRegistered
  <2>1. c \in Conn /\ document[c] = d /\ Joined(c)
    BY DEF IInv, TypeOK, UsersAreJoined
  <2>2. ~Detached(c)
    BY <2>1 DEF IInv, Control, Joined, Detached
  <2> QED
    BY <2>1, <2>2, NullIsNothing DEF IInv, Registered
<1> QED
  BY <1>1, Inductive, PTL

(* The reference count a message context is created with is the number of   *)
(* messages posted with it: it is neither leaked nor freed too early.       *)
THEOREM ContextsAreExact == Spec => []ContextRefsExact
<1>1. IInv => ContextRefsExact
  <2> SUFFICES ASSUME IInv, NEW c \in Conn, pc[c] = "GetUserList"
               PROVE  ContextRefs(c) = Cardinality(users[document[c]] \ {c})
    BY DEF ContextRefsExact
  <2> DEFINE d == document[c]
             u == users[d]
  <2>1. /\ d \in Doc /\ IsFiniteSet(u)
        /\ c \in u <=> op[c] \in {"open", "edit"}
        /\ op[c] \in {"open", "edit", "close"}
    <3>1. d \in Doc /\ u \in SUBSET Conn /\ op[c] \in {"open", "edit", "close"}
      BY DEF IInv, TypeOK, Control
    <3>2. IsFiniteSet(u)
      BY <3>1, ConnFinite, FS_Subset
    <3> QED
      BY <3>1, <3>2 DEF IInv, UsersAreJoined, Joined
  <2> HIDE DEF u
  <2>2. Cardinality(u \ {c}) = IF c \in u THEN Cardinality(u) - 1 ELSE Cardinality(u)
    BY <2>1, FS_RemoveElement
  <2> QED
    BY <2>1, <2>2 DEF ContextRefs, u
<1> QED
  BY <1>1, Inductive, PTL

(* The history of every document is exactly the window of edits a client    *)
(* operation may still be transformed over, whatever the capacity.          *)
THEOREM HistoryIsExact == Spec => []HistoryWindow
<1>1. IInv => HistoryWindow
  BY DEF IInv
<1> QED
  BY <1>1, Inductive, PTL

(* An EDIT that was accepted leaves applied at the next revision. *)
LEMMA EditIsTransformed ==
  ASSUME IInv, NEW c \in Conn, NEW v \in Version, EditHandle(c, v), applied'[c] # 0
  PROVE  against'[c] = [i \in 1..(applied'[c] - 1 - v) |-> v + i]
<1> DEFINE d == document[c]
<1>1. d \in Doc /\ v \in Nat /\ revision[d] \in Nat
  BY DEF IInv, TypeOK, EditHandle, Version
<1>2. applied[c] = 0
  BY DEF IInv, Control, EditHandle
<1>3. CASE min_revision[d] <= v /\ v <= revision[d]
  <2>1. /\ against' = [against EXCEPT ![c] = Transformed(d, v)]
        /\ applied' = [applied EXCEPT ![c] = revision[d] + 1]
    BY <1>3 DEF EditHandle
  <2>2. against'[c] = Transformed(d, v) /\ applied'[c] = revision[d] + 1
    BY <2>1 DEF IInv, TypeOK
  <2>3. Transformed(d, v) = [i \in 1..(revision[d] - v) |-> v + i]
    BY <1>1, <1>3, TransformedIs DEF IInv
  <2>4. applied'[c] - 1 - v = revision[d] - v
    BY <1>1, <2>2
  <2> QED
    BY <2>2, <2>3, <2>4
<1>4. CASE ~(min_revision[d] <= v /\ v <= revision[d])
  BY <1>2, <1>4 DEF EditHandle, editVars
<1> QED
  BY <1>3, <1>4

(* An accepted edit is transformed over exactly the edits made since the    *)
(* version it names: none is skipped, repeated or out of order.             *)
THEOREM TransformIsComplete == Spec => TransformedOverGap
<1>1. IInv /\ [Next]_vars =>
        [\A c \in Conn, v \in Version :
           EditHandle(c, v) /\ applied'[c] # 0
             => against'[c] = [i \in 1..(applied'[c] - 1 - v) |-> v + i]]_vars
  BY EditIsTransformed
<1> QED
  BY <1>1, Inductive, PTL DEF Spec, TransformedOverGap

(* No client that has a document open is ever left without one of its edits *)
(* once the handlers that made them have read the user list.                *)
THEOREM EditsReachEveryone == Spec => []NoMissedEdit
<1>1. IInv => NoMissedEdit
  BY DEF IInv
<1> QED
  BY <1>1, Inductive, PTL

--------------------------------------------------------------------------
(* The refinement: under the mapping Members, Rev and version every step of *)
(* a handler is a step of SharedDocuments or leaves it as it is.            *)

(* What IInv does not say and the mapping needs: OPEN makes a new Document  *)
(* only after it has let the old one go.                                    *)
HoldsNothing == \A c \in Conn : pc[c] = "OpenDocument" => document[c] = NULL

RInv == IInv /\ HoldsNothing

(* Connection c has the document called n open: it is in its user list.     *)
HasOpen(c, n) == document[c] # NULL /\ name[document[c]] = n /\ Joined(c)

--------------------------------------------------------------------------
(* Nothing but a GetDocument that found nothing leads to OpenDocument. *)
LEMMA HoldsNothingStep ==
  ASSUME TypeOK, HoldsNothing, [Next]_vars
  PROVE  HoldsNothing'
<1> USE DEF HoldsNothing
<1>0. CASE UNCHANGED vars
  BY <1>0 DEF vars
<1> SUFFICES ASSUME Next PROVE HoldsNothing'
  BY <1>0
<1> PICK c \in Conn :
       \/ \E n \in Name : OpenHandle(c, n)
       \/ CloseHandle(c)
       \/ \E v \in Version : EditHandle(c, v)
       \/ ExitUser(c) \/ CloseDocument(c) \/ GetDocument(c) \/ OpenDocument(c)
       \/ JoinUser(c) \/ JoinNull(c) \/ GetUserList(c) \/ GetContent(c) \/ Reset(c)
  BY StepCases
<1>1. CASE GetDocument(c)
  BY <1>1 DEF GetDocument, TypeOK
<1>2. CASE OpenDocument(c)
  BY <1>2 DEF OpenDocument, CreateDocument, LockDocument, TypeOK
<1>3. CASE ExitUser(c) \/ CloseDocument(c) \/ GetUserList(c)
  BY <1>3 DEF ExitUser, CloseDocument, AfterExit, GetUserList, AfterList, TypeOK
<1>4. CASE \/ \E n \in Name : OpenHandle(c, n)
           \/ CloseHandle(c)
           \/ \E v \in Version : EditHandle(c, v)
  BY <1>4 DEF OpenHandle, CloseHandle, EditHandle, TypeOK
<1>5. CASE JoinUser(c) \/ JoinNull(c) \/ GetContent(c) \/ Reset(c)
  BY <1>5 DEF JoinUser, JoinNull, GetContent, Reset, TypeOK
<1> QED
  BY <1>1, <1>2, <1>3, <1>4, <1>5

(* The members of a name are those who have it open. *)
LEMMA MembersAre == IInv => Members = [n \in Name |-> {c \in Conn : HasOpen(c, n)}]
<1> SUFFICES ASSUME IInv, NEW n \in Name
             PROVE  UNION {users[d] : d \in {e \in Doc : name[e] = n}}
                      = {c \in Conn : HasOpen(c, n)}
  BY DEF Members
<1>1. ASSUME NEW d \in Doc, name[d] = n, NEW c \in users[d]
      PROVE  c \in Conn /\ HasOpen(c, n)
  BY <1>1, NullIsNothing DEF IInv, TypeOK, UsersAreJoined, HasOpen
<1>2. ASSUME NEW c \in Conn, HasOpen(c, n)
      PROVE  document[c] \in Doc /\ name[document[c]] = n /\ c \in users[document[c]]
  BY <1>2, NullIsNothing DEF IInv, TypeOK, UsersAreJoined, HasOpen
<1> QED
  BY <1>1, <1>2

(* Whoever has a name open holds the Document that its entry leads to. *)
LEMMA OpenIsRegistered ==
  ASSUME IInv, NEW c \in Conn, NEW n \in Name, HasOpen(c, n)
  PROVE  /\ document[c] \in Doc
         /\ documents[n] = document[c]
         /\ Lock(n) = document[c]
         /\ Rev[n] = revision[document[c]]
<1>1. document[c] \in Doc /\ name[document[c]] = n /\ document[c] # NULL
  BY DEF HasOpen, IInv, TypeOK
<1>2. ~Detached(c)
  BY DEF HasOpen, IInv, Control, Joined, Detached
<1>3. documents[n] = document[c]
  BY <1>1, <1>2 DEF IInv, Registered
<1>4. c \in Holders(document[c])
  BY DEF Holders
<1>5. Lock(n) = document[c]
  BY <1>1, <1>3, <1>4 DEF Lock
<1> QED
  BY <1>1, <1>3, <1>5 DEF Rev

(* Members changes with who has what open, and with nothing else. *)
LEMMA MembersChange ==
  ASSUME IInv, IInv'
  PROVE  Members' = [n \in Name |-> {c \in Conn : HasOpen(c, n)'}]
<1>1. (IInv => Members = [n \in Name |-> {c \in Conn : HasOpen(c, n)}])'
  BY MembersAre, PTL
<1> QED
  BY <1>1

(* A step that opens and lets go of nothing keeps the members of every   *)
(* name.                                                                 *)
LEMMA MembersStay ==
  ASSUME IInv, IInv',
         \A x \in Conn, n \in Name : HasOpen(x, n)' <=> HasOpen(x, n)
  PROVE  Members' = Members
  BY MembersAre, MembersChange

(* Connection c, which has nothing open, drops its Document for found (or   *)
(* for none).  A name whose Document nobody holds any more is discarded;    *)
(* nobody had it open.                                                      *)
LEMMA LetGo ==
  ASSUME RInv, IInv', NEW c \in Conn, ~Joined(c),
         NEW found \in Doc \cup {NULL}, found # NULL => Holders(found) # {},
         document' = [document EXCEPT ![c] = found],
         UNCHANGED <<registryVars, docVars, version>>,
         Members' = Members
  PROVE  Abstract!ANext \/ UNCHANGED Abstract!avars
<1> USE NullIsNothing
<1> DEFINE old == document[c]
           n0 == name[old]
<1>1. old \in Doc \cup {NULL} /\ document \in [Conn -> Doc \cup {NULL}]
  BY DEF RInv, IInv, TypeOK
<1>2. ASSUME NEW m \in Name, documents[m] # old \/ old = NULL \/ Lock(m)' # NULL
      PROVE  Rev[m]' = Rev[m]
  <2>1. documents' = documents /\ revision' = revision
    BY DEF registryVars, docVars
  <2>2. (Lock(m) = NULL)' <=> Lock(m) = NULL
    <3>1. CASE documents[m] = NULL
      BY <2>1, <3>1 DEF Lock
    <3>2. CASE documents[m] # NULL /\ documents[m] = old
      <4>1. c \in Holders(documents[m])
        BY <3>2 DEF Holders
      <4> QED
        BY <1>2, <2>1, <3>2, <4>1 DEF Lock
    <3>3. CASE documents[m] # NULL /\ documents[m] # old
      <4>1. \A x \in Conn \ {c} : x \in Holders(documents[m])' <=> x \in Holders(documents[m])
        BY <1>1, <2>1 DEF Holders
      <4>2. c \notin Holders(documents[m])
        BY <3>3 DEF Holders
      <4>3. c \in Holders(documents[m])' => documents[m] = found
        BY <1>1, <2>1 DEF Holders
      <4>4. Holders(documents[m])' # {} <=> Holders(documents[m]) # {}
        BY <3>3, <4>1, <4>2, <4>3 DEF Holders
      <4> QED
        BY <2>1, <3>3, <4>4 DEF Lock
    <3> QED
      BY <3>1, <3>2, <3>3
  <2> QED
    BY <2>1, <2>2 DEF Rev
<1>3. Rev = [m \in Name |-> Rev[m]] /\ Rev' = [m \in Name |-> Rev[m]']
  BY DEF Rev
<1>4. CASE \E m \in Name : documents[m] = old /\ old # NULL /\ Lock(m)' = NULL
  <2>1. PICK m \in Name : documents[m] = old /\ old # NULL /\ Lock(m)' = NULL
    BY <1>4
  <2>2. \A k \in Name \ {m} : documents[k] # old
    BY <2>1 DEF RInv, IInv, Named
  <2>3. Rev[m]' = 0
    BY <2>1 DEF Rev
  <2>4. Rev' = [Rev EXCEPT ![m] = 0]
    BY <1>2, <1>3, <2>2, <2>3
  <2>5. Members[m] = {}
    <3>1. ASSUME NEW x \in Conn, HasOpen(x, m) PROVE FALSE
      <4>1. document[x] = old /\ x # c
        BY <2>1, <3>1, OpenIsRegistered DEF RInv, HasOpen
      <4>2. x \in Holders(documents[m])'
        BY <1>1, <2>1, <4>1 DEF Holders, registryVars
      <4> QED
        BY <2>1, <4>2 DEF Lock, registryVars
    <3> QED
      BY <3>1, MembersAre DEF RInv
  <2>6. Abstract!Discard(m)
    BY <2>4, <2>5 DEF Abstract!Discard
  <2> QED
    BY <2>6 DEF Abstract!ANext
<1>5. CASE ~\E m \in Name : documents[m] = old /\ old # NULL /\ Lock(m)' = NULL
  <2>1. Rev' = Rev
    BY <1>2, <1>3, <1>5
  <2> QED
    BY <2>1 DEF Abstract!avars
<1> QED
  BY <1>4, <1>5

(* The revisions stand still while registry, Documents and holders do. *)
LEMMA RevStays ==
  ASSUME UNCHANGED <<registryVars, docVars, document>>
  PROVE  Rev' = Rev
  BY DEF registryVars, docVars, Rev, Lock, Holders

(* A handler step that moves no user in or out and reports no revision. *)
LEMMA Invisible ==
  ASSUME IInv, IInv', UNCHANGED <<registryVars, docVars, document, version>>,
         \A x \in Conn : document[x] = NULL \/ (Joined(x)' <=> Joined(x))
  PROVE  UNCHANGED Abstract!avars
<1>1. \A x \in Conn, n \in Name : HasOpen(x, n)' <=> HasOpen(x, n)
  BY DEF HasOpen, registryVars
<1> QED
  BY <1>1, MembersStay, RevStays DEF Abstract!avars

(* Every step of a handler is one of SharedDocuments, or invisible there. *)
LEMMA StepRefines ==
  ASSUME RInv, IInv', Next
  PROVE  Abstract!ANext \/ UNCHANGED Abstract!avars
<1> USE NullIsNothing
<1> USE DEF RInv, userVars, clientVars, editVars
<1> PICK c \in Conn :
       \/ \E n \in Name : OpenHandle(c, n)
       \/ CloseHandle(c)
       \/ \E v \in Version : EditHandle(c, v)
       \/ ExitUser(c) \/ CloseDocument(c) \/ GetDocument(c) \/ OpenDocument(c)
       \/ JoinUser(c) \/ JoinNull(c) \/ GetUserList(c) \/ GetContent(c) \/ Reset(c)
  BY StepCases
<1> DEFINE d == document[c]
           n0 == name[d]
<1>0. /\ IInv /\ TypeOK /\ Control /\ Named /\ d \in Doc \cup {NULL}
      /\ d # NULL => n0 \in Name
      /\ Members = [n \in Name |-> {x \in Conn : HasOpen(x, n)}]
      /\ Members' = [n \in Name |-> {x \in Conn : HasOpen(x, n)'}]
  BY MembersAre, MembersChange DEF IInv, TypeOK, Named
<1>1. CASE \E n \in Name : OpenHandle(c, n)
  <2>1. \A x \in Conn : document[x] = NULL \/ (Joined(x)' <=> Joined(x))
    BY <1>0, <1>1 DEF OpenHandle, Joined, TypeOK
  <2> QED
    BY <1>0, <1>1, <2>1, Invisible DEF OpenHandle
<1>2. CASE CloseHandle(c)
  <2>1. \A x \in Conn : document[x] = NULL \/ (Joined(x)' <=> Joined(x))
    BY <1>0, <1>2 DEF CloseHandle, Joined, TypeOK
  <2> QED
    BY <1>0, <1>2, <2>1, Invisible DEF CloseHandle
<1>3. CASE \E v \in Version : EditHandle(c, v)
  <2> PICK v \in Version : EditHandle(c, v)
    BY <1>3
  <2>1. HasOpen(c, n0) /\ n0 \in Name /\ d \in Doc
    BY <1>0 DEF EditHandle, HasOpen, Joined
  <2>2. \A x \in Conn : Joined(x)' <=> Joined(x)
    BY <1>0 DEF EditHandle, Joined, TypeOK, Control
  <2>3. CASE min_revision[d] <= v /\ v <= revision[d]
    <3>1. /\ revision' = [revision EXCEPT ![d] = revision[d] + 1]
          /\ version' = [version EXCEPT ![c] = revision[d] + 1]
          /\ UNCHANGED <<documents, name, document>>
      BY <2>3 DEF EditHandle, registryVars
    <3>2. Members' = Members
      BY <2>2, <3>1, MembersStay DEF HasOpen
    <3>3. Lock(n0) = d /\ Rev[n0] = revision[d] /\ documents[n0] = d
      BY <2>1, OpenIsRegistered
    <3>4. \A m \in Name : Lock(m)' = Lock(m)
      BY <3>1 DEF Lock, Holders
    <3>5. Rev' = [Rev EXCEPT ![n0] = Rev[n0] + 1]
      <4>1. Rev'[n0] = revision[d] + 1
        BY <1>0, <2>1, <3>1, <3>3, <3>4 DEF Rev, TypeOK
      <4>2. \A m \in Name \ {n0} : Rev'[m] = Rev[m]
        <5> TAKE m \in Name \ {n0}
        <5>1. documents[m] # d
          BY <1>0, <2>1 DEF Named
        <5> QED
          BY <3>1, <3>4, <5>1 DEF Rev
      <4>3. Rev = [m \in Name |-> Rev[m]] /\ Rev' = [m \in Name |-> Rev'[m]]
        BY DEF Rev
      <4> QED
        BY <3>3, <4>1, <4>2, <4>3
    <3>6. Abstract!Edit(c, n0)
      BY <1>0, <2>1, <3>1, <3>2, <3>3, <3>5 DEF Abstract!Edit
    <3> QED
      BY <2>1, <3>6 DEF Abstract!ANext
  <2>4. CASE ~(min_revision[d] <= v /\ v <= revision[d])
    <3>1. UNCHANGED <<registryVars, docVars, document, version>>
      BY <2>4 DEF EditHandle
    <3> QED
      BY <1>0, <2>2, <3>1, Invisible
  <2> QED
    BY <2>3, <2>4
<1>4. CASE ExitUser(c)
  <2>1. HasOpen(c, n0) /\ n0 \in Name
    BY <1>0, <1>4 DEF ExitUser, HasOpen, Joined, Control
  <2>2. /\ UNCHANGED <<registryVars, docVars, document>>
        /\ version' = [version EXCEPT ![c] = 0]
    BY <1>4 DEF ExitUser
  <2>3. ~Joined(c)' /\ \A x \in Conn \ {c} : Joined(x)' <=> Joined(x)
    BY <1>0, <1>4 DEF ExitUser, AfterExit, Joined, TypeOK, Control
  <2>4. \A x \in Conn, n \in Name : HasOpen(x, n)' <=> x # c /\ HasOpen(x, n)
    BY <2>2, <2>3 DEF HasOpen, registryVars
  <2>5. \A n \in Name : HasOpen(c, n) => n = n0
    BY DEF HasOpen
  <2>6. Members' = [Members EXCEPT ![n0] = @ \ {c}]
    BY <1>0, <2>1, <2>4, <2>5
  <2>7. Abstract!Leave(c, n0)
    BY <1>0, <2>1, <2>2, <2>6, RevStays DEF Abstract!Leave
  <2> QED
    BY <2>1, <2>7 DEF Abstract!ANext
<1>5. CASE CloseDocument(c)
  <2>1. /\ d \in Doc /\ n0 \in Name /\ c \in Holders(d) /\ ~Joined(c)
        /\ UNCHANGED <<name, docVars, document, version>>
    BY <1>0, <1>5 DEF CloseDocument, Control, Holders, Joined
  <2>2. \A x \in Conn : Joined(x)' <=> Joined(x)
    BY <1>0, <1>5 DEF CloseDocument, AfterExit, Joined, TypeOK, Control
  <2>3. Members' = Members
    BY <2>1, <2>2, MembersStay DEF HasOpen
  <2>4. CASE Erasable(n0)
    <3>1. documents[n0] = d
      BY <1>0, <1>5, <2>1 DEF CloseDocument, Control, IInv, Registered, Detached
    <3>2. Holders(d) = {c}
      BY <2>1, <2>4, <3>1, OnlyHolder DEF Erasable
    <3>3. documents' = [documents EXCEPT ![n0] = NULL]
      BY <1>5, <2>4 DEF CloseDocument
    <3>4. Members[n0] = {}
      <4>1. ASSUME NEW x \in Conn, HasOpen(x, n0) PROVE FALSE
        <5>1. document[x] = d
          BY <1>0, <2>1, <3>1, <4>1, OpenIsRegistered
        <5>2. x = c
          BY <3>2, <5>1 DEF Holders
        <5> QED
          BY <2>1, <4>1, <5>2 DEF HasOpen
      <4> QED
        BY <1>0, <2>1, <4>1
    <3>5. Rev' = [Rev EXCEPT ![n0] = 0]
      <4>1. Rev'[n0] = 0
        BY <1>0, <2>1, <3>3 DEF Rev, Lock, TypeOK
      <4>2. \A m \in Name \ {n0} : Rev'[m] = Rev[m]
        BY <1>0, <2>1, <3>3 DEF Rev, Lock, Holders, TypeOK, docVars
      <4>3. Rev = [m \in Name |-> Rev[m]] /\ Rev' = [m \in Name |-> Rev'[m]]
        BY DEF Rev
      <4> QED
        BY <4>1, <4>2, <4>3
    <3>6. Abstract!Discard(n0)
      BY <2>1, <2>3, <3>4, <3>5 DEF Abstract!Discard
    <3> QED
      BY <2>1, <3>6 DEF Abstract!ANext
  <2>5. CASE ~Erasable(n0)
    <3>1. UNCHANGED <<registryVars, docVars, document>>
      BY <1>5, <2>1, <2>5 DEF CloseDocument, registryVars
    <3> QED
      BY <2>1, <2>3, <3>1, RevStays DEF Abstract!avars
  <2> QED
    BY <2>4, <2>5
<1>6. CASE GetDocument(c)
  <2> DEFINE found == Lock(doc_name[c])
  <2>1. doc_name[c] \in Name /\ ~Joined(c) /\ ~Joined(c)'
    BY <1>0, <1>6 DEF GetDocument, Control, Joined, TypeOK
  <2>2. found \in Doc \cup {NULL} /\ (found # NULL => Holders(found) # {})
    BY <1>0, <2>1, LockType
  <2>3. /\ document' = [document EXCEPT ![c] = found]
        /\ UNCHANGED <<registryVars, docVars, version>>
    BY <1>6 DEF GetDocument
  <2>4. \A x \in Conn, n \in Name : HasOpen(x, n)' <=> HasOpen(x, n)
    BY <1>0, <1>6, <2>1, <2>3 DEF GetDocument, HasOpen, Joined, TypeOK, registryVars
  <2> HIDE DEF found
  <2> QED
    BY <1>0, <2>1, <2>2, <2>3, <2>4, MembersStay, LetGo
<1>7. CASE OpenDocument(c)
  <2>0. PICK n \in Name : n = doc_name[c]
    BY <1>0, <1>7 DEF OpenDocument, Control
  <2> DEFINE found == Lock(n)
  <2>1. /\ d = NULL /\ ~Joined(c) /\ ~Joined(c)'
        /\ UNCHANGED version
    BY <1>0, <1>7 DEF OpenDocument, HoldsNothing, Joined, TypeOK
  <2>2. \A x \in Conn \ {c} : Joined(x)' <=> Joined(x)
    BY <1>0, <1>7 DEF OpenDocument, Joined, TypeOK
  <2>3. CASE \E e \in Doc : CreateDocument(c, e) /\ Missing(n)
    <3>1. PICK e \in Doc : CreateDocument(c, e) /\ Missing(n)
      BY <2>3
    <3>2. /\ Holders(e) = {} /\ \A m \in Name : documents[m] # e
          /\ documents' = [documents EXCEPT ![n] = e]
          /\ name' = [name EXCEPT ![e] = n]
          /\ revision' = [revision EXCEPT ![e] = 0]
          /\ document' = [document EXCEPT ![c] = e]
          /\ documents[n] = NULL
      BY <2>0, <3>1 DEF CreateDocument, Free, Missing
    <3>3. \A x \in Conn \ {c} : document[x] # e /\ document'[x] = document[x]
      BY <1>0, <3>2 DEF Holders, TypeOK
    <3>4. \A x \in Conn, m \in Name : HasOpen(x, m)' <=> HasOpen(x, m)
      BY <1>0, <2>1, <2>2, <3>2, <3>3 DEF HasOpen, TypeOK
    <3>5. Rev'[n] = 0 /\ Rev[n] = 0
      BY <1>0, <2>1, <3>2 DEF Rev, Lock, TypeOK
    <3>6. \A m \in Name \ {n} : Rev'[m] = Rev[m]
      <4> TAKE m \in Name \ {n}
      <4>1. documents'[m] = documents[m] /\ documents[m] # e
        BY <1>0, <3>2 DEF TypeOK
      <4>2. documents[m] # NULL => Holders(documents[m])' = Holders(documents[m])
        BY <1>0, <2>1, <3>2, <3>3, <4>1 DEF Holders, TypeOK
      <4>3. documents[m] # NULL => revision'[documents[m]] = revision[documents[m]]
        BY <1>0, <3>2, <4>1 DEF TypeOK
      <4> QED
        BY <4>1, <4>2, <4>3 DEF Rev, Lock
    <3>7. Rev = [m \in Name |-> Rev[m]] /\ Rev' = [m \in Name |-> Rev'[m]]
      BY DEF Rev
    <3> QED
      BY <1>0, <2>1, <3>4, <3>5, <3>6, <3>7, MembersStay DEF Abstract!avars
  <2>4. CASE LockDocument(c)
    <3>1. found \in Doc \cup {NULL} /\ (found # NULL => Holders(found) # {})
      BY <1>0, <2>1, LockType
    <3>2. /\ document' = [document EXCEPT ![c] = found]
          /\ UNCHANGED <<registryVars, docVars>>
      BY <2>0, <2>4 DEF LockDocument
    <3>3. \A x \in Conn, m \in Name : HasOpen(x, m)' <=> HasOpen(x, m)
      BY <1>0, <2>1, <2>2, <3>2 DEF HasOpen, TypeOK, registryVars
    <3> HIDE DEF found
    <3> QED
      BY <1>0, <2>1, <3>1, <3>2, <3>3, MembersStay, LetGo
  <2> QED
    BY <1>7, <2>0, <2>3, <2>4 DEF OpenDocument
<1>8. CASE JoinUser(c)
  <2>1. /\ d \in Doc /\ n0 \in Name /\ ~Joined(c) /\ op[c] = "open"
        /\ UNCHANGED <<registryVars, docVars, document, version>>
    BY <1>0, <1>8 DEF JoinUser, Control, Joined
  <2>2. Joined(c)' /\ \A x \in Conn \ {c} : Joined(x)' <=> Joined(x)
    BY <1>0, <1>8, <2>1 DEF JoinUser, Joined, TypeOK
  <2>3. \A x \in Conn, n \in Name :
           HasOpen(x, n)' <=> HasOpen(x, n) \/ (x = c /\ n = n0)
    BY <2>1, <2>2 DEF HasOpen, registryVars
  <2>4. Members' = [Members EXCEPT ![n0] = @ \cup {c}]
    <3> DEFINE M(n) == {x \in Conn : HasOpen(x, n)}
    <3>1. \A n \in Name : M(n)' = IF n = n0 THEN M(n) \cup {c} ELSE M(n)
      BY <2>3
    <3>2. Members = [n \in Name |-> M(n)] /\ Members' = [n \in Name |-> M(n)']
      BY <1>0
    <3> HIDE DEF M
    <3> QED
      BY <2>1, <3>1, <3>2
  <2>5. \A n \in Name : c \notin Members[n]
    BY <1>0, <2>1 DEF HasOpen
  <2>6. Abstract!Join(c, n0)
    BY <2>1, <2>4, <2>5, RevStays DEF Abstract!Join
  <2> QED
    BY <2>1, <2>6 DEF Abstract!ANext
<1>9. CASE JoinNull(c)
  <2>1. \A x \in Conn : document[x] = NULL \/ (Joined(x)' <=> Joined(x))
    BY <1>9 DEF JoinNull, Joined
  <2> QED
    BY <1>0, <1>9, <2>1, Invisible DEF JoinNull
<1>10. CASE GetUserList(c)
  <2>1. \A x \in Conn : document[x] = NULL \/ (Joined(x)' <=> Joined(x))
    BY <1>0, <1>10 DEF GetUserList, AfterList, Joined, TypeOK, Control
  <2> QED
    BY <1>0, <1>10, <2>1, Invisible DEF GetUserList
<1>11. CASE GetContent(c)
  <2>1. HasOpen(c, n0) /\ n0 \in Name
    BY <1>0, <1>11 DEF GetContent, HasOpen, Joined, Control
  <2>2. /\ UNCHANGED <<registryVars, docVars, document>>
        /\ version' = [version EXCEPT ![c] = revision[d]]
    BY <1>11 DEF GetContent
  <2>3. \A x \in Conn : Joined(x)' <=> Joined(x)
    BY <1>0, <1>11 DEF GetContent, Joined, TypeOK, Control
  <2>4. Members' = Members
    BY <2>2, <2>3, MembersStay DEF HasOpen, registryVars
  <2>5. Rev[n0] = revision[d]
    BY <2>1, OpenIsRegistered
  <2>6. Abstract!Snapshot(c, n0)
    BY <1>0, <2>1, <2>2, <2>4, <2>5, RevStays DEF Abstract!Snapshot
  <2> QED
    BY <2>1, <2>6 DEF Abstract!ANext
<1>12. CASE Reset(c)
  <2>1. ~Joined(c)
    BY <1>0, <1>12 DEF Reset, Control, Joined
  <2>2. /\ document' = [document EXCEPT ![c] = NULL]
        /\ UNCHANGED <<registryVars, docVars, version>>
    BY <1>12 DEF Reset
  <2>3. \A x \in Conn, n \in Name : HasOpen(x, n)' <=> HasOpen(x, n)
    BY <1>0, <1>12, <2>1, <2>2 DEF Reset, HasOpen, Joined, TypeOK, registryVars
  <2> QED
    BY <2>1, <2>2, <2>3, MembersStay, LetGo
<1> QED
  BY <1>1, <1>2, <1>3, <1>4, <1>5, <1>6, <1>7, <1>8, <1>9, <1>10, <1>11, <1>12

--------------------------------------------------------------------------
(* The document service implements the shared documents it promises, for    *)
(* any number of connections, names, Documents and edits: who has a name    *)
(* open shares one document, whose revision grows by one with each accepted *)
(* edit, which is what its editor is told, and which is dropped only once   *)
(* nobody has it open.                                                      *)
THEOREM Refinement == Spec => ImplementsSharedDocuments
<1>1. Init => Abstract!AInit
  BY NullIsNothing DEF Init, Abstract!AInit, Members, Rev, Lock
<1>2. Init => HoldsNothing
  BY DEF Init, HoldsNothing
<1>3. IInv /\ HoldsNothing /\ [Next]_vars => HoldsNothing'
  BY HoldsNothingStep DEF IInv
<1>4. IInv /\ HoldsNothing /\ IInv' /\ [Next]_vars => [Abstract!ANext]_(Abstract!avars)
  <2> SUFFICES ASSUME IInv, HoldsNothing, IInv', [Next]_vars
               PROVE  Abstract!ANext \/ UNCHANGED Abstract!avars
    OBVIOUS
  <2>1. CASE UNCHANGED vars
    BY <2>1 DEF vars, Abstract!avars, Members, Rev, Lock, Holders
  <2>2. CASE Next
    BY <2>2, StepRefines DEF RInv
  <2> QED
    BY <2>1, <2>2
<1> QED
  BY <1>1, <1>2, <1>3, <1>4, Inductive, PTL DEF Spec, ImplementsSharedDocuments, Abstract!ASpec
==========================================================================
