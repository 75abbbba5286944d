----------------------------- MODULE Messaging -----------------------------
(***************************************************************************)
(* Messages between connections: the event loops of the master and of the  *)
(* workers, the requests they send to each other's rings, the reference    *)
(* counted CTContext that a message is, and the broadcasts of the document *)
(* service and the messages of the chat service that use them.             *)
(*                                                                         *)
(* A handler runs to its end before its loop does anything else, but the   *)
(* handlers of different loops interleave at every lock they take and      *)
(* every request they prepare.  The text of an edit is left to OT, the     *)
(* registry of documents to DocumentService, handshakes and frames to      *)
(* ProtocolHandlers, and the other requests on the rings to Connections:   *)
(* here they show in that the submission queue may be full at any call.    *)
(* The rings are in their first round: an entry that is taken is zero.     *)
(***************************************************************************)
EXTENDS Naturals, Sequences, FiniteSets, SequencesExt

CONSTANTS Conn,         \* connection ids that may be given out, from 1
          nr_threads,   \* workers
          Doc,          \* documents
          NULL,         \* no document, no snapshot
          TableSize,    \* kFdTableSize of the master's ring
          Budgets       \* bounds: how often each of Bounded may happen

ASSUME Ids == IsFiniteSet(Conn) /\ Conn = 1..Cardinality(Conn)
ASSUME Sizes == nr_threads \in Nat \ {0} /\ TableSize \in Nat
ASSUME NullIsNothing == NULL \notin Doc \cup Nat

(* The connections that have been accepted when a behaviour begins, and how *)
(* often an accept is the last of its request, a request between rings      *)
(* fails, and clients send an OPEN, an EDIT, leave, or send a chat line.       *)
Bounded == {"served", "last_accept", "failure", "open", "edit", "leave", "chat"}
ASSUME Bounds == /\ Budgets \subseteq [Bounded -> Nat]
                 /\ \A b \in Budgets : b["served"] <= Cardinality(Conn) /\ b["served"] <= TableSize

(* Loop 0 is the server's own; flag_ is set in the others.                  *)
Master == 0
Worker == 1..nr_threads
Loop == {Master} \cup Worker

VARIABLES
  conn_count,   \* JdocsServer::conn_count_
  listening,    \* the multishot accept request is with the kernel
  slots,        \* descriptors in the master's table
  conn_map,     \* Worker::conn_map_, of each loop
  closed,       \* connections with closed_ set
  document,     \* DocumentService::document_ of each connection
  users,        \* Document::users_, of each document
  edits,        \* the edits that ApplyOp has taken, in order
  since,        \* edits that the OPEN answered last has in its content
  task,         \* the service handler a loop is in
  sq,           \* entries of the submission queue that are taken
  cq,           \* completions that are not handled
  contexts,     \* every CTContext there has been
  lost,         \* the messages whose request failed
  ended,        \* loops whose Run has returned
  inbox,        \* OP messages a connection has sent to its client
  left          \* what is left of the bounds

connVars == <<conn_count, listening, slots, conn_map, closed>>
docVars == <<document, users, edits, since>>
ringVars == <<sq, cq, lost, ended>>
msgVars == <<contexts, inbox>>
vars == <<connVars, docVars, task, ringVars, msgVars, left>>

(* A message is the number of the edit that an OP tells of, or a notice:    *)
(* NOTIFY, or the line of a chat.                                           *)
Notice == 0

Task(request, stage, c, d, m) ==
  [request |-> request, stage |-> stage, conn |-> c, doc |-> d, msg |-> m,
   rest |-> <<>>, ctx |-> 0]
Idle == Task("none", "none", 0, NULL, Notice)

(* Requests and completions: the ring that is told, and the user data it    *)
(* gets.  An accept completes in the ring that asked.  An entry of zeros is *)
(* a NOP, whose user data 0 reads as an accept.                             *)
Entry(op, ring, c, k) == [op |-> op, ring |-> ring, conn |-> c, ctx |-> k]
Entries == [op : {"accept", "last_accept", "accept_failed", "multishot_accept", "fd_pass", "msg"},
            ring : Loop, conn : Conn \cup {0}, ctx : Nat]
Accepted(op) == Entry(op, Master, 0, 0)
Rearm == Entry("multishot_accept", Master, 0, 0)
Unprepared(l) == Entry("accept", l, 0, 0)

(* worker_threads_[i] has loop i + 1.                                       *)
ConnectionIdToRing(id) == ((id - 1) % nr_threads) + 1
NextRing_Counted == ((conn_count + 1) % nr_threads) + 1

NextRing == (conn_count % nr_threads) + 1

Init ==
  /\ left \in Budgets
  /\ conn_count = left["served"] /\ slots = conn_count /\ listening = TRUE
  /\ conn_map = [l \in Loop |-> {c \in 1..conn_count : ConnectionIdToRing(c) = l}]
  /\ closed = {}
  /\ document = [c \in Conn |-> NULL]
  /\ users = [d \in Doc |-> <<>>]
  /\ edits = <<>>
  /\ since = [c \in Conn |-> NULL]
  /\ task = [l \in Loop |-> Idle]
  /\ sq = [l \in Loop |-> <<>>]
  /\ cq = [l \in Loop |-> <<>>] /\ lost = {} /\ ended = {}
  /\ contexts = <<>> /\ inbox = [c \in Conn |-> <<>>]

-----------------------------------------------------------------------------
(* The loops and their rings. *)

(* The elements of s that are in P, in their order.                         *)
Only(s, P) ==
  LET places == {i \in DOMAIN s : s[i] \in P}
      nth(n) == CHOOSE i \in places : Cardinality({j \in places : j <= i}) = n
  IN [n \in 1..Cardinality(places) |-> s[nth(n)]]

Spend(kind) == left[kind] > 0 /\ left' = [left EXCEPT ![kind] = @ - 1]

(* A client connects.  A failed accept ends the multishot request, and the  *)
(* kernel may end it with any other.                                        *)
Connect ==
  /\ listening
  /\ slots = TableSize \/ slots < Cardinality(Conn)
  /\ \/ /\ slots < TableSize
        /\ slots' = slots + 1
        /\ \/ /\ cq' = [cq EXCEPT ![Master] = Append(@, Accepted("accept"))]
              /\ UNCHANGED <<listening, left>>
           \/ /\ Spend("last_accept")
              /\ cq' = [cq EXCEPT ![Master] = Append(@, Accepted("last_accept"))]
              /\ listening' = FALSE
     \/ /\ slots = TableSize
        /\ Spend("last_accept")
        /\ listening' = FALSE
        /\ cq' = [cq EXCEPT ![Master] = Append(@, Accepted("accept_failed"))]
        /\ UNCHANGED slots
  /\ UNCHANGED <<conn_count, conn_map, closed, docVars, task, sq, lost, ended, msgVars>>

(* io_uring_submit, at the top of the loop, or in GetSqe when the queue,    *)
(* which other requests use as well, is full.  The kernel issues the        *)
(* entries before it returns; the completion of a request to another ring   *)
(* that failed comes to this one, and is ignored.                           *)
Told(n) == {e \in Entries : e.ring = n /\ e # Rearm}
Issue(l, done) ==
  /\ cq' = [n \in Loop |-> cq[n] \o Only(done, Told(n))]
  /\ listening' = (listening \/ Rearm \in ToSet(done))
  /\ sq' = [sq EXCEPT ![l] = <<>>]

Submit_OnlyWhenFull(l) ==
  /\ l \notin ended /\ sq[l] # <<>> /\ task[l] # Idle
  /\ Issue(l, sq[l])
  /\ UNCHANGED <<lost, left, conn_count, slots, conn_map, closed, docVars, task, ended, msgVars>>

Submit(l) ==
  /\ l \notin ended /\ sq[l] # <<>>
  /\ \/ /\ Issue(l, sq[l])
        /\ UNCHANGED <<lost, left>>
     \/ \E i \in DOMAIN sq[l] : /\ sq[l][i].ring # l
                               /\ Spend("failure")
                               /\ lost' = lost \cup {sq[l][i]}
                               /\ Issue(l, RemoveAt(sq[l], i))
  /\ UNCHANGED <<conn_count, slots, conn_map, closed, docVars, task, ended, msgVars>>

(* handle_accept of completion e.  A worker does not accept.  The slot of   *)
(* the descriptor in the master's own table stays taken.                    *)
HandleAccept(l, e) ==
  \/ /\ l # Master \/ e.op = "accept_failed"
     /\ ended' = ended \cup {l}
     /\ UNCHANGED <<connVars, sq>>
  \/ /\ l = Master /\ e.op # "accept_failed"
     /\ conn_count' = conn_count + 1
     /\ sq' = [sq EXCEPT ![l] =
                 @ \o <<Entry("fd_pass", NextRing, conn_count', 0)>>
                   \o (IF e.op = "last_accept" THEN <<Rearm>> ELSE <<>>)]
     /\ UNCHANGED <<listening, slots, conn_map, closed, ended>>

Online(l, c) == c \in conn_map[l] \ closed

(* release_context *)
Released(k) == [contexts EXCEPT ![k].refs = @ - 1]

(* CrossThreadMsgHandle of connection c, if loop l has it, and the release. *)
Delivered_OnlyFromQueue(l, c, k) ==
  IF Online(l, c) /\ contexts[k].msg # Notice /\ task[l] = Idle
  THEN [inbox EXCEPT ![c] = Append(@, contexts[k].msg)] ELSE inbox

Delivered(l, c, k) ==
  IF Online(l, c) /\ contexts[k].msg # Notice
  THEN [inbox EXCEPT ![c] = Append(@, contexts[k].msg)] ELSE inbox

Receive(l, c, k) == inbox' = Delivered(l, c, k) /\ contexts' = Released(k)

(* The loop takes the next completion.                                      *)
Handle(l) ==
  LET e == Head(cq[l])
  IN /\ l \notin ended /\ task[l] = Idle
     /\ cq[l] # <<>>
     /\ cq' = [cq EXCEPT ![l] = Tail(@)]
     /\ \/ /\ e.op \in {"accept", "last_accept", "accept_failed"}
           /\ HandleAccept(l, e)
           /\ UNCHANGED msgVars
        \/ /\ e.op = "fd_pass"
           /\ conn_map' = [conn_map EXCEPT ![l] = @ \cup {e.conn}]
           /\ UNCHANGED <<conn_count, listening, slots, closed, sq, ended, msgVars>>
        \/ /\ e.op = "msg"
           /\ Receive(l, e.conn, e.ctx)
           /\ UNCHANGED <<connVars, sq, ended>>
     /\ UNCHANGED <<docVars, task, lost, left>>

-----------------------------------------------------------------------------
(* The requests of the clients. *)

(* Loop l takes a receive of connection c, or an event of it.               *)
Serves(l, c) == l \notin ended /\ task[l] = Idle /\ c \in conn_map[l]

Starts(l, t) == task' = [task EXCEPT ![l] = t]

(* Document::ExitUser, of the document that c has open.                     *)
Without_Nobody(c) == users

Without(c) == IF document[c] = NULL THEN users
              ELSE [users EXCEPT ![document[c]] = Only(@, Conn \ {c})]

OpenHandle(l, c, d) ==
  /\ Serves(l, c) /\ c \notin closed
  /\ Spend("open")
  /\ users' = Without(c)
  /\ document' = [document EXCEPT ![c] = d]
  /\ since' = [since EXCEPT ![c] = NULL]
  /\ Starts(l, Task("open", "JoinUser", c, d, Notice))
  /\ UNCHANGED <<connVars, edits, ringVars, msgVars>>

(* ApplyOp takes the edit.                                                  *)
EditHandle(l, c) ==
  /\ Serves(l, c) /\ c \notin closed
  /\ Spend("edit")
  /\ document[c] # NULL
  /\ edits' = Append(edits, [by |-> c, doc |-> document[c]])
  /\ Starts(l, Task("edit", "GetUserList", c, document[c], Len(edits) + 1))
  /\ UNCHANGED <<connVars, document, users, since, ringVars, msgVars>>

(* close_handle leaves the document; then the others are told.              *)
Leave(c) ==
  /\ users' = Without(c)
  /\ document' = [document EXCEPT ![c] = NULL]
  /\ since' = [since EXCEPT ![c] = NULL]
Leaving(c) == Task("close", "GetUserList", c, document[c], Notice)

CloseHandle(l, c) ==
  /\ Serves(l, c) /\ c \notin closed
  /\ Spend("leave")
  /\ document[c] # NULL
  /\ Leave(c)
  /\ Starts(l, Leaving(c))
  /\ UNCHANGED <<connVars, edits, ringVars, msgVars>>

(* ChatService::handle, to a user whose session is connection to's.         *)
ChatHandle(l, c, to) ==
  /\ Serves(l, c) /\ c \notin closed
  /\ Spend("chat")
  /\ \E w \in Worker : Online(w, to)
  /\ contexts' = Append(contexts, [refs |-> 1, msg |-> Notice])
  /\ Starts(l, [Task("chat", "Post", c, NULL, Notice) EXCEPT
                  !.rest = <<to>>, !.ctx = Len(contexts) + 1])
  /\ UNCHANGED <<connVars, docVars, ringVars, inbox>>

(* TcpConnection::close, and the deletion of the connection some time       *)
(* later, whose service leaves the document it has open.                    *)
Close(l, c) ==
  /\ Serves(l, c) /\ c \notin closed
  /\ Spend("leave")
  /\ closed' = closed \cup {c}
  /\ UNCHANGED <<conn_count, listening, slots, conn_map, docVars, task, ringVars, msgVars>>

Delete(l, c) ==
  /\ Serves(l, c) /\ c \in closed
  /\ conn_map' = [conn_map EXCEPT ![l] = @ \ {c}]
  /\ Leave(c)
  /\ IF document[c] = NULL THEN UNCHANGED task ELSE Starts(l, Leaving(c))
  /\ UNCHANGED <<conn_count, listening, slots, closed, edits, ringVars, msgVars, left>>

-----------------------------------------------------------------------------
(* What their handlers go on to do. *)

(* Document::JoinUser puts the new user in front.                           *)
JoinUser(l) ==
  LET t == task[l]
  IN /\ l \notin ended /\ t.stage = "JoinUser"
     /\ users' = [users EXCEPT ![t.doc] = <<t.conn>> \o @]
     /\ Starts(l, [t EXCEPT !.stage = "GetUserList"])
     /\ UNCHANGED <<connVars, document, edits, since, ringVars, msgVars, left>>

(* Those a broadcast is for, and the references it is created with: the     *)
(* user that leaves is not in the list, the others are.                     *)
Receivers(t, list) == Only(list, Conn \ {t.conn})

References_LikeEdit(t, list) == Len(list) - 1

References(t, list) == IF t.request = "close" THEN Len(list) ELSE Len(list) - 1

(* What is left to do once rest is left to post.                            *)
Posting(t, rest) ==
  CASE rest # <<>> -> [t EXCEPT !.stage = "Post", !.rest = rest]
    [] rest = <<>> /\ t.request = "open" -> [t EXCEPT !.stage = "GetContent", !.rest = rest]
    [] OTHER -> Idle

GetUserList(l) ==
  LET t == task[l]
      list == users[t.doc]
  IN /\ l \notin ended /\ t.stage = "GetUserList"
     /\ IF References(t, list) > 0
        THEN /\ contexts' = Append(contexts, [refs |-> References(t, list), msg |-> t.msg])
             /\ Starts(l, Posting([t EXCEPT !.ctx = Len(contexts) + 1], Receivers(t, list)))
        ELSE /\ Starts(l, Posting(t, <<>>))
             /\ UNCHANGED contexts
     /\ UNCHANGED <<connVars, docVars, ringVars, inbox, left>>

(* prep_cross_thread_msg.  For a connection of its own loop the entry is    *)
(* taken and not prepared.                                                  *)
Prepared_InFront(l, e) == [sq EXCEPT ![l] = <<e>> \o @]

Prepared(l, e) == [sq EXCEPT ![l] = Append(@, e)]

Post(l) ==
  LET t == task[l]
      to == Head(t.rest)
  IN /\ l \notin ended /\ t.stage = "Post"
     /\ Starts(l, Posting(t, Tail(t.rest)))
     /\ \/ /\ ConnectionIdToRing(to) # l
           /\ sq' = Prepared(l, Entry("msg", ConnectionIdToRing(to), to, t.ctx))
           /\ UNCHANGED msgVars
        \/ /\ ConnectionIdToRing(to) = l
           /\ sq' = Prepared(l, Unprepared(l))
           /\ Receive(l, to, t.ctx)
     /\ UNCHANGED <<connVars, docVars, cq, lost, ended, left>>

(* An OPEN is answered with the content of the document.                    *)
GetContent(l) ==
  LET c == task[l].conn
  IN /\ l \notin ended /\ task[l].stage = "GetContent"
     /\ since' = [since EXCEPT ![c] = Len(edits)]
     /\ Starts(l, Idle)
     /\ UNCHANGED <<connVars, document, users, edits, ringVars, msgVars, left>>

Request(l, c) ==
  \/ \E d \in Doc : OpenHandle(l, c, d)
  \/ EditHandle(l, c)
  \/ CloseHandle(l, c)
  \/ \E to \in Conn : ChatHandle(l, c, to)
  \/ Close(l, c)
  \/ Delete(l, c)

Run(l) == Submit(l) \/ Handle(l)
          \/ JoinUser(l) \/ GetUserList(l) \/ Post(l) \/ GetContent(l)

Next == Connect \/ \E l \in Loop : Run(l) \/ \E c \in Conn : Request(l, c)

(* A loop goes on as long as there is something to do, and the kernel       *)
(* issues what it is given; clients need not do anything.                   *)
Spec == Init /\ [][Next]_vars /\ \A l \in Loop : WF_vars(Run(l))

-----------------------------------------------------------------------------
(* Properties. *)

(* The state stays within the types the code declares; a connection is a    *)
(* user of a document once, and of the one its service has open.            *)
TypeOK ==
  /\ conn_count \in 0..Cardinality(Conn)
  /\ listening \in BOOLEAN
  /\ slots \in 0..TableSize
  /\ conn_map \in [Loop -> SUBSET Conn]
  /\ closed \subseteq Conn
  /\ \A d \in Doc : /\ IsInjective(users[d])
                    /\ \A i \in DOMAIN users[d] : document[users[d][i]] = d
  /\ since \in [Conn -> Nat \cup {NULL}]
  /\ \A l \in Loop : \A q \in {sq[l], cq[l]} : q \in Seq(Entries)
  /\ contexts \in Seq([refs : 0..Cardinality(Conn), msg : Nat])
  /\ lost \subseteq Entries
  /\ ended \subseteq Loop

(* A connection is in the worker that its id leads to.  The ring of a       *)
(* receiver is computed from the id (prep_cross_thread_msg), its worker was *)
(* chosen by turns (handle_accept), and a descriptor that could not be      *)
(* passed has taken its turn too.                                           *)
SoughtWhereHeld ==
  \A l \in Loop : \A c \in conn_map[l] : ConnectionIdToRing(c) = l

(* How many elements of P the queues q of the loops have.                   *)
Tally(q, P) == Cardinality(UNION {{l} \X {i \in DOMAIN q[l] : q[l][i] \in P} : l \in Loop})

(* The messages of context k, to connections in C, that are somewhere:      *)
(* still to be posted, in a queue of a ring, or failed.                     *)
Messages(k, C) == {e \in Entries : e.op = "msg" /\ e.ctx = k /\ e.conn \in C}
ToPost(k) == [l \in Loop |-> IF task[l].ctx = k THEN task[l].rest ELSE <<>>]
Shares(k, C) == Tally(ToPost(k), C) + Tally(sq, Messages(k, C)) + Tally(cq, Messages(k, C))
                + Cardinality(lost \cap Messages(k, C))

(* A context has a reference for every message of it that is not handled,   *)
(* whichever loops handle them and in whatever order, so the last one and   *)
(* only that frees it; a message whose request failed keeps its reference.  *)
ContextsExact ==
  \A k \in DOMAIN contexts : contexts[k].refs = Shares(k, Conn)

(* A client gets the edits of any one editor once each and in the order in  *)
(* which they were applied, never its own, though they go through two       *)
(* queues and past others of the same document.                             *)
EachEditorInOrder ==
  \A c \in Conn : \A i, j \in DOMAIN inbox[c] :
    /\ edits[inbox[c][i]].by # c
    /\ i < j /\ edits[inbox[c][i]].by = edits[inbox[c][j]].by => inbox[c][i] < inbox[c][j]

(* OP n is on its way to connection c, or its receivers are not yet listed. *)
UnderWay(c, n) ==
  \/ \E l \in Loop : task[l].msg = n /\ c \in ToSet(task[l].rest)
  \/ \E l \in Loop : \E e \in ToSet(sq[l]) \cup ToSet(cq[l]) :
       e.op = "msg" /\ e.conn = c /\ contexts[e.ctx].msg = n
Unlisted(n) == \E l \in Loop : task[l].msg = n /\ task[l].stage = "GetUserList"

Failed(c, n) == \E e \in lost : e.op = "msg" /\ e.conn = c /\ contexts[e.ctx].msg = n

(* The content an OPEN is answered with and the OPs sent later leave no gap:*)
(* every edit by another that is not in the content has been sent to the    *)
(* client, is on its way, or was lost by a request that failed, though      *)
(* users are listed after the edit was applied, and joined before the       *)
(* content is read.                                                         *)
NoEditLost ==
  \A c \in Conn \ closed : since[c] # NULL =>
    \A n \in since[c] + 1..Len(edits) :
      edits[n].doc = document[c] /\ edits[n].by # c
      => n \in ToSet(inbox[c]) \/ UnderWay(c, n) \/ Unlisted(n) \/ Failed(c, n)

(* OPs do not stay on their way: once they are listed for their receivers   *)
(* they reach each that has not closed, or their requests fail (NoEditLost  *)
(* tells which), unless a loop ends.  Edits are finitely many here.         *)
Awaited == \E n \in DOMAIN edits, c \in Conn \ closed : UnderWay(c, n)

EditsArrive == Awaited ~> ~Awaited \/ ended # {}

(* Workers do not accept: "Cannot Accept New Connection In Worker Thread."  *)
(* is what handle_accept says before it ends the loop.                      *)
WorkersNeverAccept == ended \cap Worker = {}
============================================================================
