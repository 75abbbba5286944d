------------------------- MODULE DocumentService -------------------------
(***************************************************************************)
(* The document service: the registry of open documents shared by every    *)
(* worker thread (DocumentService::documents_, names to weak_ptr), the     *)
(* documents, and the OPEN, EDIT and CLOSE handlers, which interleave at   *)
(* the critical sections of mutex_, users_mutex_ and doc_mutex_.           *)
(*                                                                         *)
(* Definitions named X_Bug are X with a mistake a change to the code could *)
(* make; nothing uses them but the experiments that show which property    *)
(* would notice.                                                           *)
(*                                                                         *)
(* Each connection is served by a worker of its own: the interleavings of  *)
(* connections that share a worker are among these, and prep_cross_thread_ *)
(* msg's shortcut within one event loop is left to the messaging model.    *)
(* An edit is known by the revision it produced; its text is in module OT. *)
(***************************************************************************)
EXTENDS Naturals, Sequences, FiniteSets

CONSTANTS Conn,         \* connections that speak to the document service
          Name,         \* document names
          Doc,          \* Document objects; an address is reused once free
          NULL,         \* nullptr, no entry, no owner
          Capacity,     \* Document::capacity_
          MaxRevision   \* bound: no document takes more edits than this

ASSUME ConnFinite == IsFiniteSet(Conn)
ASSUME NullIsNothing == NULL \notin Conn \cup Name \cup Doc
ASSUME CapacityPositive == Capacity \in Nat \ {0}
ASSUME MaxRevisionNat == MaxRevision \in Nat

VARIABLES
  documents,     \* registry: name -> the Document its weak_ptr refers to
  name,          \* Document::name_
  revision,      \* Document::revision_
  min_revision,  \* Document::min_revision_
  history,       \* Document::history_, as the revisions its edits produced
  users,         \* Document::users_
  users_mutex,   \* owner of Document::users_mutex_ between two steps
  document,      \* DocumentService::document_ of each connection
  op,            \* the handler a connection's worker is running
  pc,            \* the call that handler makes next
  doc_name,      \* msg.doc_name of a running OPEN
  applied,       \* revision a running EDIT produced, 0 when it was refused
  against,       \* edits a running EDIT was transformed over, in order
  version,       \* last revision reported to the client (msg.version)
  known,         \* revisions the client has been sent: snapshot, OP or ACK
  crashed        \* the process has dereferenced a null Document

registryVars == <<documents, name>>
docVars == <<revision, min_revision, history>>
userVars == <<users, users_mutex>>
clientVars == <<version, known>>
editVars == <<applied, against>>
vars == <<documents, name, revision, min_revision, history, users, users_mutex,
          document, op, pc, doc_name, applied, against, version, known, crashed>>

(* The shared_ptrs to d: every one is the document_ of some connection. *)
Holders(d) == {c \in Conn : document[c] = d}
UseCount(d) == Cardinality(Holders(d))

(* weak_ptr::lock: a document nobody holds any more has expired. *)
Lock(n) == IF documents[n] # NULL /\ Holders(documents[n]) # {}
             THEN documents[n] ELSE NULL

Init ==
  /\ documents = [n \in Name |-> NULL]
  /\ name = [d \in Doc |-> NULL]
  /\ revision = [d \in Doc |-> 0]
  /\ min_revision = [d \in Doc |-> 0]
  /\ history = [d \in Doc |-> <<>>]
  /\ users = [d \in Doc |-> {}]
  /\ users_mutex = [d \in Doc |-> NULL]
  /\ document = [c \in Conn |-> NULL]
  /\ op = [c \in Conn |-> "none"]
  /\ pc = [c \in Conn |-> "Idle"]
  /\ doc_name = [c \in Conn |-> NULL]
  /\ applied = [c \in Conn |-> 0]
  /\ against = [c \in Conn |-> <<>>]
  /\ version = [c \in Conn |-> 0]
  /\ known = [c \in Conn |-> {}]
  /\ crashed = FALSE

(***************************************************************************)
(* OPEN and CLOSE requests.  The destructor of a dropped connection's      *)
(* service runs close_handle as well, so it is a CloseHandle after which   *)
(* the connection stands for a new one.  CLOSE and EDIT without an open    *)
(* document answer an error and change nothing.                            *)
(***************************************************************************)
OpenHandle(c, n) ==
  /\ pc[c] = "Idle"
  /\ op' = [op EXCEPT ![c] = "open"]
  /\ doc_name' = [doc_name EXCEPT ![c] = n]
  /\ pc' = [pc EXCEPT ![c] = IF document[c] # NULL THEN "ExitUser" ELSE "GetDocument"]
  /\ UNCHANGED <<registryVars, docVars, userVars, document, editVars, clientVars, crashed>>

CloseHandle(c) ==
  /\ pc[c] = "Idle"
  /\ document[c] # NULL
  /\ op' = [op EXCEPT ![c] = "close"]
  /\ pc' = [pc EXCEPT ![c] = "ExitUser"]
  /\ UNCHANGED <<registryVars, docVars, userVars, document, doc_name, editVars,
                 clientVars, crashed>>

(* What the handler does once ExitUser has returned. *)
AfterExit(c) == IF op[c] = "open" THEN "GetDocument" ELSE "GetUserList"

(* The last user keeps users_mutex_ while it calls CloseDocument. *)
ExitUser(c) ==
  LET d == document[c]
      last == users[d] \ {c} = {}
  IN /\ pc[c] = "ExitUser"
     /\ users_mutex[d] = NULL
     /\ users' = [users EXCEPT ![d] = @ \ {c}]
     /\ users_mutex' = [users_mutex EXCEPT ![d] = IF last THEN c ELSE NULL]
     /\ pc' = [pc EXCEPT ![c] = IF last THEN "CloseDocument" ELSE AfterExit(c)]
     /\ version' = [version EXCEPT ![c] = 0]
     /\ known' = [known EXCEPT ![c] = {}]
     /\ UNCHANGED <<registryVars, docVars, document, op, doc_name, editVars, crashed>>

Erasable_AnyCount(n) == documents[n] # NULL
Erasable(n) == documents[n] # NULL /\ UseCount(documents[n]) = 1

Unlock_Forgotten(d) == UNCHANGED users_mutex
Unlock(d) == users_mutex' = [users_mutex EXCEPT ![d] = NULL]

CloseDocument(c) ==
  LET d == document[c]
      n == name[d]
  IN /\ pc[c] = "CloseDocument"
     /\ documents' = IF Erasable(n) THEN [documents EXCEPT ![n] = NULL] ELSE documents
     /\ Unlock(d)
     /\ pc' = [pc EXCEPT ![c] = AfterExit(c)]
     /\ UNCHANGED <<name, docVars, users, document, op, doc_name, editVars,
                    clientVars, crashed>>

(* The assignment to document_ also releases the document left before. *)
GetDocument(c) ==
  LET found == Lock(doc_name[c])
  IN /\ pc[c] = "GetDocument"
     /\ document' = [document EXCEPT ![c] = found]
     /\ pc' = [pc EXCEPT ![c] = IF found = NULL THEN "OpenDocument" ELSE "JoinUser"]
     /\ UNCHANGED <<registryVars, docVars, userVars, op, doc_name, editVars,
                    clientVars, crashed>>

(* An address make_shared may return: not alive, not even as a weak_ptr. *)
Free(d) == Holders(d) = {} /\ \A n \in Name : documents[n] # d

CreateDocument(c, d) ==
  /\ Free(d)
  /\ documents' = [documents EXCEPT ![doc_name[c]] = d]
  /\ name' = [name EXCEPT ![d] = doc_name[c]]
  /\ revision' = [revision EXCEPT ![d] = 0]
  /\ min_revision' = [min_revision EXCEPT ![d] = 0]
  /\ history' = [history EXCEPT ![d] = <<>>]
  /\ document' = [document EXCEPT ![c] = d]

(* A name that already has an entry yields whatever its weak_ptr locks. *)
Missing_Unchecked(n) == TRUE
Missing(n) == documents[n] = NULL

LockDocument(c) ==
  /\ document' = [document EXCEPT ![c] = Lock(doc_name[c])]
  /\ UNCHANGED <<registryVars, docVars>>

OpenDocument(c) ==
  /\ pc[c] = "OpenDocument"
  /\ IF Missing(doc_name[c])
       THEN \E d \in Doc : CreateDocument(c, d)
       ELSE LockDocument(c)
  /\ pc' = [pc EXCEPT ![c] = "JoinUser"]
  /\ UNCHANGED <<userVars, op, doc_name, editVars, clientVars, crashed>>

(* open_handle calls JoinUser through document_ without looking at it. *)
JoinUser(c) ==
  LET d == document[c]
  IN /\ pc[c] = "JoinUser"
     /\ d # NULL
     /\ users_mutex[d] = NULL
     /\ users' = [users EXCEPT ![d] = @ \cup {c}]
     /\ pc' = [pc EXCEPT ![c] = "GetUserList"]
     /\ doc_name' = [doc_name EXCEPT ![c] = NULL]
     /\ UNCHANGED <<registryVars, docVars, users_mutex, document, op, editVars,
                    clientVars, crashed>>

JoinNull(c) ==
  /\ pc[c] = "JoinUser"
  /\ document[c] = NULL
  /\ crashed' = TRUE
  /\ UNCHANGED <<registryVars, docVars, userVars, document, op, pc, doc_name,
                 editVars, clientVars>>

AfterList(c) == IF op[c] = "open" THEN "GetContent"
                ELSE IF op[c] = "edit" THEN "Idle" ELSE "Reset"

(***************************************************************************)
(* The handler copies users_ and posts one message to each of the others:  *)
(* only an accepted edit's OP, and its ACK to the sender, carry a new      *)
(* revision.  The message is one CTContext, shared by all its readers and  *)
(* created with the number of references they will drop.                   *)
(***************************************************************************)
ContextRefs_Copied(c) == Cardinality(users[document[c]]) - 1
ContextRefs(c) == LET n == Cardinality(users[document[c]])
                  IN IF op[c] = "close" THEN n ELSE n - 1

Told_ThreeOrMore(c) ==
  IF Cardinality(users[document[c]]) > 2 THEN users[document[c]] \cup {c} ELSE {c}
Told(c) == users[document[c]] \cup {c}

GetUserList(c) ==
  LET d == document[c]
  IN /\ pc[c] = "GetUserList"
     /\ users_mutex[d] = NULL
     /\ known' = [x \in Conn |-> IF applied[c] # 0 /\ x \in Told(c)
                                   THEN known[x] \cup {applied[c]} ELSE known[x]]
     /\ pc' = [pc EXCEPT ![c] = AfterList(c)]
     /\ op' = [op EXCEPT ![c] = IF @ = "edit" THEN "none" ELSE @]
     /\ applied' = [applied EXCEPT ![c] = 0]
     /\ against' = [against EXCEPT ![c] = <<>>]
     /\ UNCHANGED <<registryVars, docVars, userVars, document, doc_name, version, crashed>>

(* The open reply: content_ and revision_ read together under doc_mutex_. *)
GetContent(c) ==
  LET d == document[c]
  IN /\ pc[c] = "GetContent"
     /\ version' = [version EXCEPT ![c] = revision[d]]
     /\ known' = [known EXCEPT ![c] = @ \cup 1..revision[d]]
     /\ pc' = [pc EXCEPT ![c] = "Idle"]
     /\ op' = [op EXCEPT ![c] = "none"]
     /\ UNCHANGED <<registryVars, docVars, userVars, document, doc_name, editVars, crashed>>

(* close_handle drops its shared_ptr after it has copied the user list. *)
Reset(c) ==
  /\ pc[c] = "Reset"
  /\ document' = [document EXCEPT ![c] = NULL]
  /\ pc' = [pc EXCEPT ![c] = "Idle"]
  /\ op' = [op EXCEPT ![c] = "none"]
  /\ UNCHANGED <<registryVars, docVars, userVars, doc_name, editVars, clientVars, crashed>>

(***************************************************************************)
(* EDIT: Document::ApplyOp under doc_mutex_.                               *)
(***************************************************************************)
Full_OneLate(d) == Len(history[d]) > Capacity
Full(d) == Len(history[d]) >= Capacity

Oldest_ByCapacity(d) == revision[d] + 1 - Capacity
Oldest(d) == IF Full(d) THEN min_revision[d] + 1 ELSE min_revision[d]

PushToHistory(d, r) ==
  LET kept == IF Full(d) THEN Tail(history[d]) ELSE history[d]
  IN /\ history' = [history EXCEPT ![d] = Append(kept, r)]
     /\ min_revision' = [min_revision EXCEPT ![d] = Oldest(d)]

(* The entries history_[v - min_revision_] read while v < revision_. *)
Transformed_FromFront(d, v) ==
  [i \in 1..(revision[d] - v) |-> history[d][i]]
Transformed(d, v) ==
  [i \in 1..(revision[d] - v) |-> history[d][v - min_revision[d] + i]]

(* An edit against a version out of the window is logged and not applied,  *)
(* but goes on to the broadcast and the ACK like any other.                *)
EditHandle(c, v) ==
  LET d == document[c]
      accepted == min_revision[d] <= v /\ v <= revision[d]
      r == revision[d] + 1
  IN /\ pc[c] = "Idle"
     /\ d # NULL
     /\ op' = [op EXCEPT ![c] = "edit"]
     /\ pc' = [pc EXCEPT ![c] = "GetUserList"]
     /\ IF accepted
          THEN /\ r <= MaxRevision
               /\ revision' = [revision EXCEPT ![d] = r]
               /\ PushToHistory(d, r)
               /\ applied' = [applied EXCEPT ![c] = r]
               /\ against' = [against EXCEPT ![c] = Transformed(d, v)]
               /\ version' = [version EXCEPT ![c] = r]
          ELSE UNCHANGED <<docVars, editVars, version>>
     /\ UNCHANGED <<registryVars, userVars, document, doc_name, known, crashed>>

(* The versions a client may send: any it was told, older ones, and one too new. *)
Version == 0..(MaxRevision + 1)

Request(c) == \/ \E n \in Name : OpenHandle(c, n)
              \/ CloseHandle(c)
              \/ \E v \in Version : EditHandle(c, v)

Step(c) == \/ ExitUser(c) \/ CloseDocument(c) \/ GetDocument(c) \/ OpenDocument(c)
           \/ JoinUser(c) \/ JoinNull(c) \/ GetUserList(c) \/ GetContent(c)
           \/ Reset(c)

(* A null dereference ends the process: nothing runs after it. *)
Next == ~crashed /\ \E c \in Conn : Request(c) \/ Step(c)

Spec == Init /\ [][Next]_vars

(***************************************************************************)
(* A handler that has begun runs on (weak fairness of the worker thread),  *)
(* and users_mutex_ does not pass over a waiting thread for ever.          *)
(***************************************************************************)
Fairness == \A c \in Conn : /\ WF_vars(~crashed /\ Step(c))
                            /\ SF_vars(~crashed /\ ExitUser(c))
                            /\ SF_vars(~crashed /\ JoinUser(c))
                            /\ SF_vars(~crashed /\ GetUserList(c))

FairSpec == Spec /\ Fairness

--------------------------------------------------------------------------
(* Properties. *)

PC == {"Idle", "ExitUser", "CloseDocument", "GetDocument", "OpenDocument",
       "JoinUser", "GetUserList", "GetContent", "Reset"}

(* Types, with what the C++ types leave implicit: a revision is bounded. *)
TypeOK ==
  /\ documents \in [Name -> Doc \cup {NULL}]
  /\ name \in [Doc -> Name \cup {NULL}]
  /\ revision \in [Doc -> Nat]
  /\ min_revision \in [Doc -> Nat]
  /\ history \in [Doc -> Seq(Nat)]
  /\ users \in [Doc -> SUBSET Conn]
  /\ users_mutex \in [Doc -> Conn \cup {NULL}]
  /\ document \in [Conn -> Doc \cup {NULL}]
  /\ op \in [Conn -> {"none", "open", "edit", "close"}]
  /\ pc \in [Conn -> PC]
  /\ doc_name \in [Conn -> Name \cup {NULL}]
  /\ applied \in [Conn -> Nat]
  /\ against \in [Conn -> Seq(Nat)]
  /\ version \in [Conn -> Nat]
  /\ known \in [Conn -> SUBSET Nat]
  /\ crashed \in BOOLEAN

(* A document somebody has joined is the one its name leads to: two users  *)
(* of one name can never edit two different Documents, whatever opens,     *)
(* exits and CloseDocument's reference count test interleave               *)
(* (document_service.cc:80-110, document.cc:55-64).                        *)
JoinedIsRegistered == \A d \in Doc : users[d] # {} => documents[name[d]] = d

(* CTContext is created with refs = users.size() - 1 by OPEN and EDIT and  *)
(* users.size() by CLOSE, while a message goes to every user but the       *)
(* sender (document_service.cc:170-175, 196-201, 227-232): the count is    *)
(* exact, or the context leaks or is freed under a reader.                 *)
ContextRefsExact ==
  \A c \in Conn : pc[c] = "GetUserList"
    => ContextRefs(c) = Cardinality(users[document[c]] \ {c})

(* The history window never outgrows capacity_, starts right after          *)
(* min_revision_ and ends at revision_, so that history_[v - min_revision_] *)
(* is the edit that produced v + 1 (document.cc:16-23, 41-47).              *)
HistoryWindow ==
  \A d \in Doc :
    /\ Len(history[d]) <= Capacity
    /\ revision[d] = min_revision[d] + Len(history[d])
    /\ \A i \in 1..Len(history[d]) : history[d][i] = min_revision[d] + i

(* An edit made against version v that becomes revision r is transformed    *)
(* over the edits that produced v + 1 to r - 1, each once and in order,     *)
(* wherever v lies in the window (document.cc:16-24).                       *)
TransformedOverGap ==
  [][\A c \in Conn, v \in Version :
       EditHandle(c, v) /\ applied'[c] # 0
         => against'[c] = [i \in 1..(applied'[c] - 1 - v) |-> v + i]]_vars

(* Has c's client been told what the document holds? *)
Served(c) == /\ document[c] # NULL
             /\ \/ pc[c] = "Idle"
                \/ pc[c] = "GetUserList" /\ op[c] = "edit"

(* No edit is lost on a client: every revision of the document it has open  *)
(* was in its snapshot, was sent or acknowledged to it, or belongs to an    *)
(* EDIT that has yet to read the user list.  This rests on JoinUser before  *)
(* GetContent and ApplyOp before GetUserList                                *)
(* (document_service.cc:161-177, 187-190).                                  *)
NoMissedEdit ==
  \A c \in Conn : Served(c) =>
    \A r \in 1..revision[document[c]] :
      \/ r \in known[c]
      \/ \E e \in Conn : /\ applied[e] = r
                         /\ document[e] = document[c]
                         /\ pc[e] = "GetUserList"

(* The registry keeps no entry whose document is gone once all is quiet:    *)
(* "when the document exists and its reference count is 1, closing deletes  *)
(* the mapping" (document_service.cc:104).                                  *)
RegistryIsLive ==
  (\A c \in Conn : pc[c] = "Idle")
    => \A n \in Name : documents[n] # NULL => Lock(n) # NULL

(* Every OPEN, EDIT or CLOSE that has begun is answered, unless the process *)
(* died of a null document: no handler waits for ever on users_mutex_.      *)
HandlerReturns ==
  \A c \in Conn : pc[c] # "Idle" ~> (pc[c] = "Idle" \/ crashed)

(* The clients see one shared document per name.  A user's document is the  *)
(* one of its name whichever object holds it, so a second object of a name  *)
(* would show as a snapshot or an edit at a wrong revision.                 *)
Members == [n \in Name |-> UNION {users[d] : d \in {e \in Doc : name[e] = n}}]
Rev == [n \in Name |-> IF Lock(n) = NULL THEN 0 ELSE revision[documents[n]]]

Abstract == INSTANCE SharedDocuments WITH members <- Members, rev <- Rev, ver <- version

(* The service implements SharedDocuments: every handler step is one of its *)
(* steps or invisible.                                                      *)
ImplementsSharedDocuments == Abstract!ASpec
==========================================================================
