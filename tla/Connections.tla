---------------------------- MODULE Connections ---------------------------
(***************************************************************************)
(* The connections of one worker, from the descriptor that the master      *)
(* passes to the deletion of the TcpConnection: the completion handlers of *)
(* core/event_loop.cc, TcpConnection, and the sessions of users.           *)
(*                                                                         *)
(* What is prepared is submitted when the loop has handled all completions,*)
(* and at once when a connection is closed (submit_cancel).  The kernel    *)
(* issues what is submitted before a handler goes on, and completes it     *)
(* whenever it likes.  Both kinds of send are one here (BufferPool tells   *)
(* them apart), messages between threads are left out, and what a protocol *)
(* handler does with a receive is a choice among the sends and the         *)
(* closings it can lead to.                                                *)
(***************************************************************************)
EXTENDS Naturals, Sequences, FiniteSets, SequencesExt

CONSTANTS Conn,         \* connection ids that the master gives to this worker
          Fd,           \* slots of the direct descriptor table
          User,         \* user ids, NoUser among them
          NoUser,       \* user id 0
          NULL,         \* no connection, no slot, no request
          MaxSends,     \* bound: sends of a connection that are under way when data
                \* arrives for it or a timer of it runs
          MaxCqe        \* bound: completions waiting when the next event happens

ASSUME Ids == NoUser \in User /\ NULL \notin Conn \cup Fd
ASSUME Bounds == MaxSends \in Nat /\ MaxCqe \in Nat \ {0}

VARIABLES
  conns,     \* the worker's: see Workers
  user_map,  \* JdocsServer::user_map_
  sq,        \* requests that are prepared
  issuing,   \* requests that are submitted and not issued
  requests,  \* requests that the kernel has issued and not completed
  cq,        \* completions that are not handled
  files,     \* the connection whose socket a slot has
  peer,      \* the client's end: not there yet, open, or found to be reset;
             \* or gone, when the slot of its socket has been closed
  shut,      \* sockets that shutdown has been called on
  ended      \* why the loop or the process ended, or "no"

kernel == <<requests, files, peer, shut>>
vars == <<conns, user_map, sq, issuing, requests, cq, files, peer, shut, ended>>

(* conn_map_, and of each connection closed_, fd_, stage_, user_id_ and     *)
(* whether its idle timer and wait_pong_timer_ are set.                     *)
Timer == Conn \X {"idle", "pong"}
Workers == [conn_map : SUBSET Conn, closed : SUBSET Conn, fd : [Conn -> Fd \cup {NULL}],
            websocket : SUBSET Conn, user_id : [Conn -> User], timers : SUBSET Timer]

(* A request: what it does, the connection and slot in its user data, and  *)
(* the request linked behind it.                                            *)
Req(op, c, f) == [op |-> op, conn |-> c, fd |-> f, link |-> NULL]
Linked(r, then) == [r EXCEPT !.link = then]

ASSUME NullIsNoRequest == NULL \notin [op : {"cancel", "close"}, conn : Conn, fd : Fd, link : {NULL}]

Cqe(r, res, more) == [op |-> r.op, conn |-> r.conn, fd |-> r.fd, res |-> res, more |-> more]

Count(s, Test(_)) == Cardinality({i \in DOMAIN s : Test(s[i])})

Init == /\ conns = [conn_map |-> {}, closed |-> {}, fd |-> [c \in Conn |-> NULL],
                    websocket |-> {}, user_id |-> [c \in Conn |-> NoUser], timers |-> {}]
        /\ user_map = [u \in User |-> NULL]
        /\ sq = <<>> /\ issuing = <<>> /\ requests = <<>> /\ cq = <<>>
        /\ files = [f \in Fd |-> NULL]
        /\ peer = [c \in Conn |-> "none"]
        /\ shut = {}
        /\ ended = "no"

Running == ended = "no"

-----------------------------------------------------------------------------
(* The kernel and the clients. *)

(* An event of the kernel or a client happens. *)
Calm == Running /\ issuing = <<>> /\ Len(cq) < MaxCqe

(* The master passes a descriptor; a full table is reported as ENFILE. *)
PassFd(c) ==
  /\ Calm
  /\ peer[c] = "none"
  /\ peer' = [peer EXCEPT ![c] = "open"]
  /\ LET free == {f \in Fd : files[f] = NULL}
     IN \/ /\ free = {}
           /\ cq' = Append(cq, Cqe(Req("fd_pass", c, NULL), "nfile", FALSE))
           /\ UNCHANGED files
        \/ \E f \in free :
             /\ files' = [files EXCEPT ![f] = c]
             /\ cq' = Append(cq, Cqe(Req("fd_pass", c, f), "done", FALSE))
  /\ UNCHANGED <<conns, user_map, sq, issuing, requests, shut, ended>>

(* The client of a socket has gone away, which a completion tells first.   *)
IsReset(c) == peer' = IF peer[c] = "open" THEN [peer EXCEPT ![c] = "reset"] ELSE peer

(* The completions of a request that is not going to happen, and of those  *)
(* linked behind it.                                                        *)
Failed(r, res) == <<Cqe(r, res, FALSE)>>
                  \o (IF r.link = NULL THEN <<>> ELSE <<Cqe(r.link, "canceled", FALSE)>>)

(* The top of the loop: io_uring_submit_and_wait. *)
Submit == /\ Running
          /\ cq = <<>> /\ sq # <<>>
          /\ issuing' = issuing \o sq
          /\ sq' = <<>>
          /\ UNCHANGED <<conns, user_map, kernel, cq, ended>>

(* Issues the next request.  Its slot is looked up now, and it works on the *)
(* socket found there.  A cancel takes one receive or send of the socket.   *)
Issue ==
  LET r == Head(issuing)
      socket == files[r.fd]
      on == {i \in DOMAIN requests : requests[i].socket = socket
                                     /\ requests[i].req.op \in {"recv", "send"}}
  IN /\ Running
     /\ issuing # <<>>
     /\ issuing' = Tail(issuing)
     /\ \/ /\ r.op \in {"recv", "send", "shutdown"}
           /\ socket # NULL
           /\ requests' = Append(requests, [req |-> r, socket |-> socket])
           /\ UNCHANGED <<cq, files, peer, shut>>
        \/ /\ r.op \in {"recv", "send", "shutdown"}
           /\ socket = NULL
           /\ cq' = cq \o Failed(r, "error")
           /\ UNCHANGED <<requests, files, peer, shut>>
        \/ /\ r.op = "cancel"
           /\ IF socket = NULL \/ on = {}
              THEN /\ cq' = Append(cq, Cqe(r, "error", FALSE))
                   /\ UNCHANGED requests
              ELSE \E i \in on : /\ cq' = Append(cq, Cqe(r, "done", FALSE))
                                          \o Failed(requests[i].req, "canceled")
                                 /\ requests' = RemoveAt(requests, i)
           /\ UNCHANGED <<files, peer, shut>>
        \/ /\ r.op = "close"
           /\ files' = [files EXCEPT ![r.fd] = NULL]
           /\ peer' = [c \in Conn |-> IF c = socket THEN "gone" ELSE peer[c]]
           /\ shut' = shut \ {socket}
           /\ cq' = Append(cq, Cqe(r, IF socket = NULL THEN "error" ELSE "done", FALSE))
           /\ UNCHANGED requests
     /\ UNCHANGED <<conns, user_map, sq, ended>>

(* The sends of a connection that are prepared or with the kernel. *)
Sends(c) == Count(sq, LAMBDA r : r.op = "send" /\ r.conn = c)
            + Count(requests, LAMBDA r : r.req.op = "send" /\ r.req.conn = c)

(* A request ends well: what is linked behind it is issued next. *)
Done(i, completion) ==
  /\ requests' = RemoveAt(requests, i)
  /\ issuing' = IF requests[i].req.link = NULL THEN issuing ELSE <<requests[i].req.link>>
  /\ cq' = cq \o completion

Fails(i, res) == /\ requests' = RemoveAt(requests, i)
                 /\ cq' = cq \o Failed(requests[i].req, res)
                 /\ UNCHANGED issuing

(* A multishot receive: data in a buffer, after which it goes on or not; no *)
(* buffer for the data; the end of the stream; the error of a reset.        *)
RecvCompletes(i) ==
  LET c == requests[i].socket
      report(res, more) == cq' = Append(cq, Cqe(requests[i].req, res, more))
      receiving == peer[c] = "open" /\ c \notin shut
  IN /\ Calm
     /\ requests[i].req.op = "recv"
     /\ \/ /\ receiving /\ Sends(c) < MaxSends
           /\ report("data", TRUE)
           /\ UNCHANGED <<requests, peer>>
        \/ /\ \/ receiving /\ Sends(c) < MaxSends /\ report("data", FALSE) /\ UNCHANGED peer
              \/ receiving /\ report("nobufs", FALSE) /\ UNCHANGED peer
              \/ (peer[c] # "reset" \/ c \in shut) /\ report("end", FALSE) /\ UNCHANGED peer
              \/ c \notin shut /\ report("error", FALSE) /\ IsReset(c)
           /\ requests' = RemoveAt(requests, i)
     /\ UNCHANGED <<conns, user_map, sq, issuing, files, shut, ended>>

(* A send completes in whole or, on a socket that is going down, in part:   *)
(* then its link is broken.  Or it fails.                                   *)
SendCompletes(i) ==
  LET c == requests[i].socket
      r == requests[i].req
  IN /\ Calm
     /\ r.op = "send"
     /\ \/ Done(i, <<Cqe(r, "done", FALSE)>>) /\ UNCHANGED peer
        \/ /\ \E res \in {"done", "error"} : Fails(i, res)
           /\ IF c \in shut THEN UNCHANGED peer ELSE IsReset(c)
     /\ UNCHANGED <<conns, user_map, sq, files, shut, ended>>

(* shutdown succeeds without a completion (CQE_SKIP_SUCCESS), except on a   *)
(* socket that the client has reset.                                        *)
ShutdownCompletes(i) ==
  LET c == requests[i].socket
  IN /\ Calm
     /\ requests[i].req.op = "shutdown"
     /\ \/ Fails(i, "error") /\ IsReset(c) /\ UNCHANGED shut
        \/ peer[c] = "open" /\ Done(i, <<>>) /\ shut' = shut \cup {c} /\ UNCHANGED peer
     /\ UNCHANGED <<conns, user_map, sq, files, ended>>

Tick == /\ Calm
        /\ Count(cq, LAMBDA e : e.op = "timeout") = 0
        /\ conns.timers # {}
        /\ cq' = Append(cq, Cqe(Req("timeout", NULL, NULL), "done", FALSE))
        /\ UNCHANGED <<conns, user_map, sq, issuing, kernel, ended>>

-----------------------------------------------------------------------------
(* What handlers do to the worker: w has its conns and user_map, what it    *)
(* has prepared and submitted, and ended if a step of the handler ends the  *)
(* process.                                                                 *)

World == [conns |-> conns, users |-> user_map, sq |-> sq, issuing |-> issuing, ended |-> ended]

Becomes(w) == /\ conns' = w.conns
              /\ user_map' = w.users
              /\ sq' = w.sq
              /\ issuing' = w.issuing
              /\ ended' = w.ended

Ending(why) == [World EXCEPT !.ended = why]

Prep(w, r) == [w EXCEPT !.sq = Append(@, r)]

(* io_uring_submit. *)
Submitted(w) == [w EXCEPT !.sq = <<>>, !.issuing = @ \o w.sq]

IsOpen(w, c) == c \in w.conns.conn_map /\ c \notin w.conns.closed

DelUserSession(w, u) == IF u = NoUser THEN w ELSE [w EXCEPT !.users[u] = NULL]

(* ~TcpConnection takes its timers out of the wheel. *)
Deleted_KeepsTimers(w, c) ==
  [w EXCEPT !.conns = [conn_map |-> @.conn_map \ {c}, closed |-> @.closed \ {c},
                       fd |-> [@.fd EXCEPT ![c] = NULL], websocket |-> @.websocket \ {c},
                       user_id |-> [@.user_id EXCEPT ![c] = NoUser],
                       timers |-> @.timers]]
Deleted(w, c) ==
  [w EXCEPT !.conns = [conn_map |-> @.conn_map \ {c}, closed |-> @.closed \ {c},
                       fd |-> [@.fd EXCEPT ![c] = NULL], websocket |-> @.websocket \ {c},
                       user_id |-> [@.user_id EXCEPT ![c] = NoUser],
                       timers |-> {t \in @.timers : t[1] # c}]]

(* submit_cancel, after a send that is linked to it or alone. *)
submit_cancel(w, c, send) ==
  LET cancel == Req("cancel", c, w.conns.fd[c])
  IN Submitted(Prep(w, IF send THEN Linked(Req("send", c, w.conns.fd[c]), cancel) ELSE cancel))

Closed_Deletes(w, c, send) ==
  Deleted(submit_cancel(DelUserSession(w, w.conns.user_id[c]), c, send), c)
Closed(w, c, send) ==
  submit_cancel([DelUserSession(w, w.conns.user_id[c]) EXCEPT !.conns.closed = @ \cup {c}], c, send)

(* TcpConnection::close. *)
Close_Again(w, c, send) == Closed(w, c, send)
Close(w, c, send) == IF c \in w.conns.closed THEN w ELSE Closed(w, c, send)

(* switch_service: the session of user u, which must be a new one. *)
AddUserSession_Overwrites(w, c, u) == [w EXCEPT !.users[u] = c, !.conns.user_id[c] = u]
AddUserSession(w, c, u) ==
  IF w.users[u] # NULL THEN [w EXCEPT !.ended = "second_session"]
  ELSE [w EXCEPT !.users[u] = c, !.conns.user_id[c] = u]

Sent(w, c) == Prep(w, Req("send", c, w.conns.fd[c]))

Upgraded(w, c) == [w EXCEPT !.conns.websocket = @ \cup {c}]

(* HttpHandler: more to parse; 400, or 404 before the session; 404 after    *)
(* it; 101, or no buffer for it.                                            *)
HttpHandle(w, c) ==
  {w, Close(w, c, TRUE)}
  \cup UNION {LET s == AddUserSession(w, c, u)
              IN IF s.ended # "no" THEN {s}
                 ELSE {Close(s, c, TRUE), Upgraded(Sent(s, c), c),
                       Upgraded(Close(s, c, FALSE), c)} : u \in User}

(* WebSocketHandler: nothing to answer; an answer, or a close frame for an  *)
(* error; a pong, of the right payload or not; no buffer, or a close frame  *)
(* while it is closing; a close frame.                                      *)
WebSocketHandle(w, c) ==
  LET pong == [w EXCEPT !.conns.timers = @ \ {<<c, "pong">>}]
  IN {w, Sent(w, c), pong, Sent(pong, c), Close(w, c, FALSE), Close(w, c, TRUE)}

RecvHandle(w, c) == IF c \in w.conns.websocket THEN WebSocketHandle(w, c) ELSE HttpHandle(w, c)

AddTimer(w, c, kind) == [w EXCEPT !.conns.timers = @ \cup {<<c, kind>>}]

prep_recv(w, c, f) == Prep(w, Req("recv", c, f))

-----------------------------------------------------------------------------
(* The completion handlers. *)

Handle(op) == /\ Running
              /\ issuing = <<>>
              /\ cq # <<>>
              /\ Head(cq).op = op
              /\ cq' = Tail(cq)
              /\ UNCHANGED kernel

handle_fd_pass ==
  LET e == Head(cq)
      w == [World EXCEPT !.conns.conn_map = @ \cup {e.conn}, !.conns.fd[e.conn] = e.fd]
  IN /\ Handle("fd_pass")
     /\ Becomes(IF e.res = "nfile" THEN World
                ELSE prep_recv(AddTimer(w, e.conn, "idle"), e.conn, e.fd))

(* A receive goes on as long as the kernel says so; otherwise it is         *)
(* submitted again.                                                         *)
Rearmed_Always(w, e) == prep_recv(w, e.conn, e.fd)
Rearmed(w, e) == IF e.more THEN w ELSE prep_recv(w, e.conn, e.fd)

handle_recv ==
  LET e == Head(cq)
  IN /\ Handle("recv")
     /\ IF e.res = "nobufs" THEN Becomes(prep_recv(World, e.conn, e.fd))
        ELSE IF e.res = "canceled" THEN Becomes(World)
        ELSE IF e.res = "error" THEN Becomes(Ending("recv_error"))
        ELSE IF e.conn \notin conns.conn_map THEN Becomes(Ending("null"))
        ELSE IF e.res = "end" THEN Becomes(Close(World, e.conn, FALSE))
        ELSE IF e.conn \in conns.closed THEN Becomes(World)
        ELSE \E w \in RecvHandle(World, e.conn) :
               Becomes(IF w.ended # "no" THEN w
                       ELSE Rearmed(AddTimer(w, e.conn, "idle"), e))

handle_send ==
  LET e == Head(cq)
  IN /\ Handle("send")
     /\ Becomes(IF e.res = "canceled" THEN World
                ELSE IF e.res = "error" THEN Ending("send_error")
                ELSE IF e.conn \notin conns.conn_map THEN Ending("null")
                ELSE World)

(* handle_cancel and prep_close, whatever became of the cancel. *)
PrepClose_IfCanceled(w, e) ==
  IF e.res = "done" THEN Prep(w, Linked(Req("shutdown", e.conn, e.fd), Req("close", e.conn, e.fd)))
  ELSE w
PrepClose(w, e) == Prep(w, Linked(Req("shutdown", e.conn, e.fd), Req("close", e.conn, e.fd)))

handle_cancel == /\ Handle("cancel")
                 /\ Becomes(PrepClose(World, Head(cq)))

(* Only a shutdown that failed has a completion; the close that follows it  *)
(* carries no connection id.                                                *)
handle_shutdown == /\ Handle("shutdown")
                   /\ Becomes(Prep(World, Req("close", NULL, Head(cq).fd)))

handle_close ==
  LET e == Head(cq)
  IN /\ Handle("close")
     /\ Becomes(IF e.res = "done" THEN Deleted(World, e.conn)
                ELSE Ending(IF e.res = "error" THEN "close_error" ELSE "close_canceled"))

(* A timer runs: an idle websocket connection is sent a ping and waited     *)
(* for; any other, and one whose pong has not come, is closed.              *)
TimerRuns(w, t) ==
  LET c == t[1]
      v == [w EXCEPT !.conns.timers = @ \ {t}]
  IN IF t[2] = "idle" /\ c \in w.conns.websocket THEN AddTimer(Sent(v, c), c, "pong")
     ELSE Close(v, c, FALSE)

handle_timeout == /\ Handle("timeout")
                  /\ \/ Becomes(World)
                     \/ \E t \in conns.timers : /\ Sends(t[1]) < MaxSends
                                                /\ Becomes(TimerRuns(World, t))

Kernel == \/ \E c \in Conn : PassFd(c)
          \/ Submit
          \/ Issue
          \/ \E i \in DOMAIN requests : RecvCompletes(i) \/ SendCompletes(i) \/ ShutdownCompletes(i)
          \/ Tick

EventHandler == \/ handle_fd_pass
                \/ handle_recv
                \/ handle_send
                \/ handle_cancel
                \/ handle_shutdown
                \/ handle_close
                \/ handle_timeout

Next == Kernel \/ EventHandler

Spec == Init /\ [][Next]_vars

-----------------------------------------------------------------------------

(* Every variable keeps its shape; connections have a slot once they are    *)
(* accepted, and timers only while they exist.                              *)
TypeOK == /\ conns \in Workers
          /\ user_map \in [User -> Conn \cup {NULL}]
          /\ files \in [Fd -> Conn \cup {NULL}]
          /\ peer \in [Conn -> {"none", "open", "reset", "gone"}]
          /\ shut \subseteq Conn
          /\ \A c \in conns.conn_map : conns.fd[c] # NULL
          /\ {t[1] : t \in conns.timers} \subseteq conns.conn_map

Waiting(Test(_)) == Count(cq, Test)
Prepared(Test(_)) == Count(sq, Test) + Count(issuing, Test) + Count(requests, LAMBDA r : Test(r.req))

(* The receives of a connection: prepared, with the kernel, or ended with a *)
(* completion that will make the handler prepare another.                   *)
Receives(c) ==
  Prepared(LAMBDA r : r.op = "recv" /\ r.conn = c)
  + Waiting(LAMBDA e : e.op = "recv" /\ e.conn = c /\ ~e.more)

(* A connection that is not closed listens, exactly once: over data that    *)
(* comes with and without IORING_CQE_F_MORE, and want of buffers, it is     *)
(* neither left without a receive nor given two, which would deliver its    *)
(* bytes out of order.                                                      *)
OpenConnectionsListen ==
  Running => \A c \in conns.conn_map \ conns.closed : Receives(c) = 1

Closers == {"cancel", "shutdown", "close"}

(* How many steps of closing a connection are under way, in a request or in *)
(* the link of one, or in a completion.                                     *)
Closings(c) ==
  Prepared(LAMBDA r : r.conn = c /\ r.op \in Closers)
  + Prepared(LAMBDA r : r.conn = c /\ r.op = "send" /\ r.link # NULL)
  + Waiting(LAMBDA e : e.conn = c /\ e.op \in {"cancel", "close"})

(* A closed connection is on its way to deletion, along one chain of        *)
(* cancel, shutdown and close, until it is deleted; an open one is not.     *)
(* Nothing a handler, a timer or a failing request does starts a second     *)
(* chain, which would close a slot that has a new owner, or drops the       *)
(* chain, which would keep connection and slot for ever.                    *)
ClosesOnce ==
  Running => \A c \in Conn : Closings(c) = IF c \in conns.closed THEN 1 ELSE 0

(* Slots and connections agree: a slot has the socket of a connection that  *)
(* exists with that slot or is being passed, and a connection has its slot  *)
(* until its close has completed.                                           *)
SlotsMatchConnections ==
  LET pending(op, c) == Waiting(LAMBDA e : e.op = op /\ e.conn = c /\ e.res = "done") > 0
  IN /\ \A f \in Fd : files[f] # NULL =>
          \/ files[f] \in conns.conn_map /\ conns.fd[files[f]] = f
          \/ pending("fd_pass", files[f])
     /\ \A c \in conns.conn_map : files[conns.fd[c]] = c \/ pending("close", c)

(* The entry of a user, other than user 0, leads to an open connection of   *)
(* that user, and every open connection that has announced a user is found  *)
(* under its id: whoever asks GetConnectionId gets the live session.        *)
SessionsAreLive ==
  Running =>
  /\ \A u \in User \ {NoUser} : user_map[u] # NULL =>
       IsOpen(World, user_map[u]) /\ conns.user_id[user_map[u]] = u
  /\ \A c \in Conn : IsOpen(World, c) /\ conns.user_id[c] # NoUser =>
       user_map[conns.user_id[c]] = c
=============================================================================
