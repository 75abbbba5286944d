------------------------ MODULE ConnectionsProofs ------------------------
(***************************************************************************)
(* The properties of Connections as theorems, for every number of          *)
(* connections, slots and users.                                           *)
(***************************************************************************)
EXTENDS Connections, SequenceLemmas

-------------------------------------------------------------------------
(* Requests: alone, with the one that goes behind them, or the close that *)
(* handle_shutdown prepares without a connection id.                      *)
Plain == [op : {"recv", "send", "cancel", "close"}, conn : Conn, fd : Fd, link : {NULL}]
Behind(op) == IF op = "send" THEN "cancel" ELSE "close"
Chained == {r \in [op : {"send", "shutdown"}, conn : Conn, fd : Fd, link : Plain] :
              r.link = Req(Behind(r.op), r.conn, r.fd)}
Nameless == [op : {"close"}, conn : {NULL}, fd : Fd, link : {NULL}]
Named == Plain \cup Chained
Request == Named \cup Nameless

Issued == [req : Named, socket : Conn]

(* Completions; only a receive goes on after one, and with data. *)
Cqes == [op : {"fd_pass", "timeout", "recv", "send", "cancel", "shutdown", "close"},
         conn : Conn \cup {NULL}, fd : Fd \cup {NULL},
         res : {"done", "nfile", "error", "canceled", "data", "nobufs", "end"}, more : BOOLEAN]
Completion ==
  {e \in Cqes :
     /\ e.op # "timeout" => e.conn \in Conn
     /\ e.op \notin {"timeout", "fd_pass"} => e.fd \in Fd
     /\ e.op = "fd_pass" => e.res \in {"done", "nfile"} /\ (e.res = "done" => e.fd \in Fd)
     /\ e.more => e.op = "recv" /\ e.res = "data"}

(* NULL is neither a connection nor a slot. *)
LEMMA NullConn == NULL \notin Conn /\ NULL \notin Fd
  BY Ids

(* Which requests have a link, which of them carry no connection, and    *)
(* what is linked behind a request.                                      *)
LEMMA LinksAre ==
  ASSUME NEW r \in Request
  PROVE  /\ r \in Chained <=> r.link # NULL
         /\ r.link # NULL => r.link \in Plain /\ r.link = Req(Behind(r.op), r.conn, r.fd)
         /\ r \in Nameless <=> r.conn = NULL
         /\ r.fd \in Fd
<1>1. CASE r \in Chained
  <2>1. r.link \in [op : {"cancel", "close"}, conn : Conn, fd : Fd, link : {NULL}]
    BY <1>1 DEF Chained, Req, Behind
  <2> QED
    BY <1>1, <2>1, NullIsNoRequest, NullConn DEF Chained, Nameless
<1>2. CASE r \in Plain
  BY <1>2, NullIsNoRequest, NullConn DEF Plain, Chained, Nameless, Req, Behind
<1>3. CASE r \in Nameless
  BY <1>3, NullConn DEF Plain, Chained, Nameless
<1> QED
  BY <1>1, <1>2, <1>3 DEF Request, Named

-------------------------------------------------------------------------
(* The requests and completions that stand for a receive of a connection, *)
(* and those that stand for a step of closing it.                         *)
RecvOf(c) == {r \in Request : r.op = "recv" /\ r.conn = c}
EndedRecv(c) == {e \in Completion : e.op = "recv" /\ e.conn = c /\ ~e.more}
CloserOf(c) == {r \in Request : r.conn = c /\ (r.op \in Closers \/ (r.op = "send" /\ r.link # NULL))}
ClosingCqe(c) == {e \in Completion : e.conn = c /\ e.op \in {"cancel", "close"}}

IssuedOf(A) == {x \in Issued : x.req \in A}
Total(A, B) == Num(sq, A) + Num(issuing, A) + Num(requests, IssuedOf(A)) + Num(cq, B)

-------------------------------------------------------------------------
(* The inductive invariant. *)

(* The requests under way, and the completions that wait. *)
Underway == ToSet(sq) \cup ToSet(issuing) \cup {x.req : x \in ToSet(requests)}
Told == ToSet(cq)

Endings == {"no", "null", "recv_error", "send_error", "close_error", "close_canceled", "second_session"}

Types == /\ TypeOK /\ ended \in Endings
         /\ sq \in Seq(Request) /\ issuing \in Seq(Named)
         /\ requests \in Seq(Issued) /\ cq \in Seq(Completion)

(* A connection that the worker has been told of, and the slot it may work *)
(* on: its own, as long as it exists.                                      *)
Passes(c) == {e \in Completion : e.op = "fd_pass" /\ e.conn = c}
Known(c) == peer[c] # "none" /\ \A e \in Told : e \notin Passes(c)
RightSlot(c, f) == Known(c) /\ (c \in conns.conn_map => f = conns.fd[c])

(* Whatever is under way, or has been told, names a known connection with  *)
(* the slot it has or had.                                                 *)
NamesRight == /\ \A c \in conns.conn_map : Known(c)
              /\ \A r \in Underway : r \in Named => RightSlot(r.conn, r.fd)
              /\ \A e \in Told : e.op \notin {"fd_pass", "timeout"} => RightSlot(e.conn, e.fd)

(* A connection is passed once, and its socket is in the slot that is told. *)
PassedOnce == /\ \A c \in Conn : Num(cq, Passes(c)) \in {0, 1}
              /\ \A e \in Told : e.op = "fd_pass" =>
                   /\ peer[e.conn] # "none"
                   /\ e.res = "done" => files[e.fd] = e.conn

(* What an open connection sends and receives with is its own socket. *)
OwnSockets == \A x \in ToSet(requests) :
                IsOpen(World, x.req.conn) /\ x.req.op \in {"recv", "send"} => x.socket = x.req.conn

(* A receive is canceled for a connection that is closed only. *)
CanceledAreClosed == \A e \in Told : e.op = "recv" /\ e.res = "canceled" => ~IsOpen(World, e.conn)

(* Slots and connections, with the completions that explain a difference. *)
SlotsAreOwned ==
  /\ \A f \in Fd : files[f] # NULL =>
       \/ files[f] \in conns.conn_map /\ conns.fd[files[f]] = f
       \/ \E e \in Told : e \in Passes(files[f]) /\ e.res = "done" /\ e.fd = f
  /\ \A c \in conns.conn_map :
       \/ files[conns.fd[c]] = c
       \/ \E e \in Told : e.op = "close" /\ e.conn = c /\ e.res = "done"

SlotsAreLeft == \A e \in Told : e.op = "close" /\ e.res = "done" => \A f \in Fd : files[f] # e.conn

(* A shutdown that failed is told with the cancelation of the close behind *)
(* it, which ends the loop before the nameless close can be submitted.     *)
Ends(e) == e.op = "close" /\ e.res = "canceled"
NamelessEnds ==
  /\ \A i \in DOMAIN cq : cq[i].op = "shutdown" => i + 1 \in DOMAIN cq /\ Ends(cq[i + 1])
  /\ sq \in Seq(Named) \/ (cq # <<>> /\ Ends(Head(cq)))

Listening == \A c \in conns.conn_map \ conns.closed : Total(RecvOf(c), EndedRecv(c)) = 1
Closing == \A c \in Conn : Total(CloserOf(c), ClosingCqe(c)) = IF c \in conns.closed THEN 1 ELSE 0

(* Sessions and connections; connection x is exempt from having upgraded    *)
(* with its session.                                                        *)
Orderly(w, x) ==
  /\ w.conns.closed \cup w.conns.websocket \subseteq w.conns.conn_map
  /\ \A c \in Conn : c \notin w.conns.conn_map => w.conns.user_id[c] = NoUser
  /\ \A c \in Conn : IsOpen(w, c) /\ c \notin w.conns.websocket /\ c # x => w.conns.user_id[c] = NoUser
  /\ \A u \in User \ {NoUser} : w.users[u] # NULL =>
       IsOpen(w, w.users[u]) /\ w.conns.user_id[w.users[u]] = u
  /\ \A c \in Conn : IsOpen(w, c) /\ w.conns.user_id[c] # NoUser => w.users[w.conns.user_id[c]] = c

Sound == /\ NamesRight /\ PassedOnce /\ OwnSockets /\ CanceledAreClosed
         /\ SlotsAreLeft /\ NamelessEnds
         /\ Listening /\ Closing /\ Orderly(World, NULL)

IInv == Types /\ SlotsAreOwned /\ (Running => Sound)
-------------------------------------------------------------------------
(* What the properties count is what the invariant counts. *)
LEMMA CountsAreTotals ==
  ASSUME Types, NEW c \in Conn
  PROVE  /\ Receives(c) = Total(RecvOf(c), EndedRecv(c))
         /\ Closings(c) = Total(CloserOf(c), ClosingCqe(c))
<1>0. /\ \A i \in DOMAIN sq : sq[i] \in Request
      /\ \A i \in DOMAIN issuing : issuing[i] \in Named
      /\ \A i \in DOMAIN requests : requests[i] \in Issued /\ requests[i].req \in Named
      /\ \A i \in DOMAIN cq : cq[i] \in Completion
      /\ Named \subseteq Request
  <2>1. /\ sq \in Seq(Request) /\ issuing \in Seq(Named)
        /\ requests \in Seq(Issued) /\ cq \in Seq(Completion)
    BY DEF Types
  <2>2. \A i \in DOMAIN requests : requests[i] \in Issued
    BY <2>1
  <2>3. \A i \in DOMAIN requests : requests[i].req \in Named
    BY <2>2 DEF Issued
  <2>4. Named \subseteq Request
    BY DEF Request
  <2> QED
    BY <2>1, <2>2, <2>3, <2>4
<1>1. Receives(c) = Total(RecvOf(c), EndedRecv(c))
  <2>1. {i \in DOMAIN sq : sq[i].op = "recv" /\ sq[i].conn = c} = Places(sq, RecvOf(c))
    BY <1>0 DEF Places, RecvOf
  <2>2. {i \in DOMAIN issuing : issuing[i].op = "recv" /\ issuing[i].conn = c} = Places(issuing, RecvOf(c))
    BY <1>0 DEF Places, RecvOf
  <2>3. {i \in DOMAIN requests : requests[i].req.op = "recv" /\ requests[i].req.conn = c}
          = Places(requests, IssuedOf(RecvOf(c)))
    BY <1>0 DEF Places, RecvOf, IssuedOf
  <2>4. {i \in DOMAIN cq : cq[i].op = "recv" /\ cq[i].conn = c /\ ~cq[i].more} = Places(cq, EndedRecv(c))
    BY <1>0 DEF Places, EndedRecv
  <2> QED
    BY <2>1, <2>2, <2>3, <2>4 DEF Receives, Prepared, Waiting, Count, Total, Num
<1>2. Closings(c) = Total(CloserOf(c), ClosingCqe(c))
  <2> DEFINE A == {r \in Request : r.conn = c /\ r.op \in Closers}
             B == {r \in Request : r.conn = c /\ r.op = "send" /\ r.link # NULL}
  <2>1. Prepared(LAMBDA r : r.conn = c /\ r.op \in Closers)
          = Num(sq, A) + Num(issuing, A) + Num(requests, IssuedOf(A))
    <3>1. {i \in DOMAIN sq : sq[i].conn = c /\ sq[i].op \in Closers} = Places(sq, A)
      BY <1>0 DEF Places
    <3>2. {i \in DOMAIN issuing : issuing[i].conn = c /\ issuing[i].op \in Closers} = Places(issuing, A)
      BY <1>0 DEF Places
    <3>3. {i \in DOMAIN requests : requests[i].req.conn = c /\ requests[i].req.op \in Closers}
            = Places(requests, IssuedOf(A))
      BY <1>0 DEF Places, IssuedOf
    <3> HIDE DEF A
    <3> QED
      BY <3>1, <3>2, <3>3 DEF Prepared, Count, Num
  <2>2. Prepared(LAMBDA r : r.conn = c /\ r.op = "send" /\ r.link # NULL)
          = Num(sq, B) + Num(issuing, B) + Num(requests, IssuedOf(B))
    <3>1. {i \in DOMAIN sq : sq[i].conn = c /\ sq[i].op = "send" /\ sq[i].link # NULL} = Places(sq, B)
      BY <1>0 DEF Places
    <3>2. {i \in DOMAIN issuing : issuing[i].conn = c /\ issuing[i].op = "send" /\ issuing[i].link # NULL}
            = Places(issuing, B)
      BY <1>0 DEF Places
    <3>3. {i \in DOMAIN requests : requests[i].req.conn = c /\ requests[i].req.op = "send"
                                     /\ requests[i].req.link # NULL} = Places(requests, IssuedOf(B))
      BY <1>0 DEF Places, IssuedOf
    <3> HIDE DEF B
    <3> QED
      BY <3>1, <3>2, <3>3 DEF Prepared, Count, Num
  <2>3. Waiting(LAMBDA e : e.conn = c /\ e.op \in {"cancel", "close"}) = Num(cq, ClosingCqe(c))
    <3>1. {i \in DOMAIN cq : cq[i].conn = c /\ cq[i].op \in {"cancel", "close"}} = Places(cq, ClosingCqe(c))
      BY <1>0 DEF Places, ClosingCqe
    <3> QED
      BY <3>1 DEF Waiting, Count, Num
  <2>4. /\ A \cap B = {} /\ CloserOf(c) = A \cup B
        /\ IssuedOf(A) \cap IssuedOf(B) = {} /\ IssuedOf(CloserOf(c)) = IssuedOf(A) \cup IssuedOf(B)
    BY DEF CloserOf, Closers, IssuedOf
  <2> HIDE DEF A, B
  <2>5. sq \in Seq(Request) /\ issuing \in Seq(Request) /\ requests \in Seq(Issued) /\ cq \in Seq(Completion)
    <3>1. sq \in Seq(Request) /\ issuing \in Seq(Named) /\ requests \in Seq(Issued) /\ cq \in Seq(Completion)
      BY DEF Types
    <3> QED
      BY <1>0, <3>1
  <2>6. /\ Num(sq, CloserOf(c)) = Num(sq, A) + Num(sq, B)
        /\ Num(issuing, CloserOf(c)) = Num(issuing, A) + Num(issuing, B)
        /\ Num(requests, IssuedOf(CloserOf(c))) = Num(requests, IssuedOf(A)) + Num(requests, IssuedOf(B))
    <3>1. Num(sq, A \cup B) = Num(sq, A) + Num(sq, B)
      BY <2>4, <2>5, NumDisjoint
    <3>2. Num(issuing, A \cup B) = Num(issuing, A) + Num(issuing, B)
      BY <2>4, <2>5, NumDisjoint
    <3>3. Num(requests, IssuedOf(A) \cup IssuedOf(B)) = Num(requests, IssuedOf(A)) + Num(requests, IssuedOf(B))
      BY <2>4, <2>5, NumDisjoint
    <3> QED
      BY <2>4, <3>1, <3>2, <3>3
  <2>7. /\ Num(sq, A) \in Nat /\ Num(sq, B) \in Nat /\ Num(issuing, A) \in Nat /\ Num(issuing, B) \in Nat
        /\ Num(requests, IssuedOf(A)) \in Nat /\ Num(requests, IssuedOf(B)) \in Nat
        /\ Num(cq, ClosingCqe(c)) \in Nat
    BY <2>5, NumType
  <2> QED
    BY <2>1, <2>2, <2>3, <2>6, <2>7 DEF Closings, Total
<1> QED
  BY <1>1, <1>2
-------------------------------------------------------------------------
(* What the operators on the worker do, field by field. *)
Worlds == [conns : Workers, users : [User -> Conn \cup {NULL}], sq : Seq(Request),
           issuing : Seq(Named), ended : Endings]

(* A request is prepared; everything else stays. *)
LEMMA PrepIs ==
  ASSUME NEW w \in Worlds, NEW r \in Request
  PROVE  /\ Prep(w, r) \in Worlds
         /\ Prep(w, r).sq = Append(w.sq, r)
         /\ Prep(w, r).conns = w.conns /\ Prep(w, r).users = w.users
         /\ Prep(w, r).issuing = w.issuing /\ Prep(w, r).ended = w.ended
<1>1. w.sq \in Seq(Request)
  BY DEF Worlds
<1>2. Append(w.sq, r) \in Seq(Request)
  BY <1>1
<1> QED
  BY <1>2 DEF Prep, Worlds

(* What is prepared is submitted. *)
LEMMA SubmittedIs ==
  ASSUME NEW w \in Worlds, w.sq \in Seq(Named)
  PROVE  /\ Submitted(w) \in Worlds
         /\ Submitted(w).sq = <<>> /\ Submitted(w).issuing = w.issuing \o w.sq
         /\ Submitted(w).conns = w.conns /\ Submitted(w).users = w.users
         /\ Submitted(w).ended = w.ended
<1>1. w.issuing \in Seq(Named)
  BY DEF Worlds
<1>2. w.issuing \o w.sq \in Seq(Named)
  BY <1>1
<1>3. <<>> \in Seq(Request)
  OBVIOUS
<1> QED
  BY <1>2, <1>3 DEF Submitted, Worlds

(* The timers of connection c are set and stopped. *)
LEMMA TimersAre ==
  ASSUME NEW w \in Worlds, NEW T \in SUBSET Timer
  PROVE  LET v == [w EXCEPT !.conns.timers = T]
         IN /\ v \in Worlds /\ v.conns.timers = T
            /\ v.conns.conn_map = w.conns.conn_map /\ v.conns.closed = w.conns.closed
            /\ v.conns.fd = w.conns.fd /\ v.conns.websocket = w.conns.websocket
            /\ v.conns.user_id = w.conns.user_id
            /\ v.users = w.users /\ v.sq = w.sq /\ v.issuing = w.issuing /\ v.ended = w.ended
  BY DEF Worlds, Workers

(* AddTimer changes the set of timers only. *)
LEMMA AddTimerIs ==
  ASSUME NEW w \in Worlds, NEW c \in Conn, NEW kind \in {"idle", "pong"}
  PROVE  LET v == AddTimer(w, c, kind)
         IN /\ v \in Worlds /\ v.conns.timers = w.conns.timers \cup {<<c, kind>>}
            /\ v.conns.conn_map = w.conns.conn_map /\ v.conns.closed = w.conns.closed
            /\ v.conns.fd = w.conns.fd /\ v.conns.websocket = w.conns.websocket
            /\ v.conns.user_id = w.conns.user_id
            /\ v.users = w.users /\ v.sq = w.sq /\ v.issuing = w.issuing /\ v.ended = w.ended
<1> DEFINE T == w.conns.timers \cup {<<c, kind>>}
<1>1. w.conns.timers \subseteq Timer
  BY DEF Worlds, Workers
<1>2. <<c, kind>> \in Timer
  BY DEF Timer
<1>3. T \in SUBSET Timer
  BY <1>1, <1>2
<1>4. AddTimer(w, c, kind) = [w EXCEPT !.conns.timers = T]
  BY DEF AddTimer
<1> HIDE DEF T
<1>5. AddTimer(w, c, kind).conns.timers = T
  BY <1>3, <1>4, TimersAre
<1>6. T = w.conns.timers \cup {<<c, kind>>}
  BY DEF T
<1> QED
  BY <1>3, <1>4, <1>5, <1>6, TimersAre

(* Upgraded changes the stage only. *)
LEMMA UpgradedIs ==
  ASSUME NEW w \in Worlds, NEW c \in Conn
  PROVE  LET v == Upgraded(w, c)
         IN /\ v \in Worlds /\ v.conns.websocket = w.conns.websocket \cup {c}
            /\ v.conns.conn_map = w.conns.conn_map /\ v.conns.closed = w.conns.closed
            /\ v.conns.fd = w.conns.fd /\ v.conns.timers = w.conns.timers
            /\ v.conns.user_id = w.conns.user_id
            /\ v.users = w.users /\ v.sq = w.sq /\ v.issuing = w.issuing /\ v.ended = w.ended
  BY DEF Worlds, Workers, Upgraded

(* AddUserSession enters a user who has no session, and ends the process *)
(* for one who has.                                                      *)
LEMMA AddUserSessionIs ==
  ASSUME NEW w \in Worlds, NEW c \in Conn, NEW u \in User
  PROVE  LET v == AddUserSession(w, c, u)
         IN /\ v \in Worlds
            /\ v.conns.conn_map = w.conns.conn_map /\ v.conns.closed = w.conns.closed
            /\ v.conns.fd = w.conns.fd /\ v.conns.timers = w.conns.timers
            /\ v.conns.websocket = w.conns.websocket
            /\ v.sq = w.sq /\ v.issuing = w.issuing
            /\ w.users[u] # NULL => v.ended = "second_session" /\ v.users = w.users /\ v.conns = w.conns
            /\ w.users[u] = NULL => /\ v.users = [w.users EXCEPT ![u] = c]
                                    /\ v.conns.user_id = [w.conns.user_id EXCEPT ![c] = u]
                                    /\ v.ended = w.ended
<1> DEFINE x == [w EXCEPT !.ended = "second_session"]
           n == [w.conns EXCEPT !.user_id = [w.conns.user_id EXCEPT ![c] = u]]
           m == [w.users EXCEPT ![u] = c]
           y == [w EXCEPT !.users = m, !.conns = n]
<1>1. /\ x \in Worlds /\ x.ended = "second_session"
      /\ x.conns = w.conns /\ x.users = w.users /\ x.sq = w.sq /\ x.issuing = w.issuing
  BY DEF Worlds, Endings
<1>2. w.conns \in Workers /\ w.users \in [User -> Conn \cup {NULL}] /\ w.conns.user_id \in [Conn -> User]
  BY DEF Worlds, Workers
<1>3. [w.conns.user_id EXCEPT ![c] = u] \in [Conn -> User] /\ m \in [User -> Conn \cup {NULL}]
  BY <1>2
<1>4. /\ n \in Workers /\ n.user_id = [w.conns.user_id EXCEPT ![c] = u]
      /\ n.conn_map = w.conns.conn_map /\ n.closed = w.conns.closed /\ n.fd = w.conns.fd
      /\ n.websocket = w.conns.websocket /\ n.timers = w.conns.timers
  BY <1>2, <1>3 DEF Workers
<1>5. AddUserSession(w, c, u) = IF w.users[u] # NULL THEN x ELSE y
  BY DEF AddUserSession, Worlds, Workers
<1> HIDE DEF x, n, m
<1>6. /\ y \in Worlds /\ y.users = m /\ y.conns = n
      /\ y.sq = w.sq /\ y.issuing = w.issuing /\ y.ended = w.ended
  BY <1>3, <1>4 DEF Worlds
<1> HIDE DEF y
<1>7. m = [w.users EXCEPT ![u] = c]
  BY DEF m
<1> QED
  BY <1>1, <1>4, <1>5, <1>6, <1>7

(* ~TcpConnection leaves nothing of connection c. *)
LEMMA DeletedIs ==
  ASSUME NEW w \in Worlds, NEW c \in Conn
  PROVE  LET v == Deleted(w, c)
         IN /\ v \in Worlds
            /\ v.conns.conn_map = w.conns.conn_map \ {c} /\ v.conns.closed = w.conns.closed \ {c}
            /\ v.conns.fd = [w.conns.fd EXCEPT ![c] = NULL]
            /\ v.conns.timers = {t \in w.conns.timers : t[1] # c}
            /\ v.conns.websocket = w.conns.websocket \ {c}
            /\ v.conns.user_id = [w.conns.user_id EXCEPT ![c] = NoUser]
            /\ v.users = w.users /\ v.sq = w.sq /\ v.issuing = w.issuing /\ v.ended = w.ended
  BY Ids DEF Worlds, Workers, Deleted

(* The requests that handlers make, and what they count as. *)
LEMMA RequestsAre ==
  ASSUME NEW c \in Conn, NEW f \in Fd, NEW d \in Conn
  PROVE  /\ \A op \in {"recv", "send", "cancel", "close"} : Req(op, c, f) \in Plain
         /\ Linked(Req("send", c, f), Req("cancel", c, f)) \in Chained
         /\ Linked(Req("shutdown", c, f), Req("close", c, f)) \in Chained
         /\ Req("close", NULL, f) \in Nameless
         /\ One(Req("recv", c, f), RecvOf(d)) = One(d, {c})
         /\ One(Req("recv", c, f), CloserOf(d)) = 0
         /\ One(Req("send", c, f), RecvOf(d)) = 0
         /\ One(Req("send", c, f), CloserOf(d)) = 0
         /\ One(Req("cancel", c, f), RecvOf(d)) = 0
         /\ One(Req("cancel", c, f), CloserOf(d)) = One(d, {c})
         /\ One(Linked(Req("send", c, f), Req("cancel", c, f)), RecvOf(d)) = 0
         /\ One(Linked(Req("send", c, f), Req("cancel", c, f)), CloserOf(d)) = One(d, {c})
         /\ One(Linked(Req("shutdown", c, f), Req("close", c, f)), RecvOf(d)) = 0
         /\ One(Linked(Req("shutdown", c, f), Req("close", c, f)), CloserOf(d)) = One(d, {c})
         /\ One(Req("close", NULL, f), RecvOf(d)) = 0
         /\ One(Req("close", NULL, f), CloserOf(d)) = 0
<1>1. \A op \in {"recv", "send", "cancel", "close"} : Req(op, c, f) \in Plain
  BY DEF Plain, Req
<1>2. /\ Req("cancel", c, f).link = NULL /\ Req("cancel", c, f) # NULL
      /\ Req("close", c, f).link = NULL /\ Req("close", c, f) # NULL
  BY NullIsNoRequest DEF Req
<1> DEFINE s == Linked(Req("send", c, f), Req("cancel", c, f))
           t == Linked(Req("shutdown", c, f), Req("close", c, f))
<1>3. /\ s.op = "send" /\ s.conn = c /\ s.fd = f /\ s.link = Req("cancel", c, f)
      /\ s = [op |-> "send", conn |-> c, fd |-> f, link |-> Req("cancel", c, f)]
      /\ t.op = "shutdown" /\ t.conn = c /\ t.fd = f /\ t.link = Req("close", c, f)
      /\ t = [op |-> "shutdown", conn |-> c, fd |-> f, link |-> Req("close", c, f)]
  BY DEF Linked, Req
<1> HIDE DEF s, t
<1>4. s \in Chained /\ t \in Chained
  BY <1>1, <1>3 DEF Chained, Behind
<1>5. Req("close", NULL, f) \in Nameless
  BY DEF Nameless, Req
<1>6. /\ Plain \subseteq Request /\ Chained \subseteq Request
  BY DEF Request, Named
<1>7. /\ One(s, RecvOf(d)) = 0 /\ One(s, CloserOf(d)) = One(d, {c})
      /\ One(t, RecvOf(d)) = 0 /\ One(t, CloserOf(d)) = One(d, {c})
  BY <1>2, <1>3, <1>4, <1>6 DEF One, RecvOf, CloserOf, Closers
<1>8. /\ One(Req("recv", c, f), RecvOf(d)) = One(d, {c})
      /\ One(Req("recv", c, f), CloserOf(d)) = 0
      /\ One(Req("send", c, f), RecvOf(d)) = 0
      /\ One(Req("send", c, f), CloserOf(d)) = 0
      /\ One(Req("cancel", c, f), RecvOf(d)) = 0
      /\ One(Req("cancel", c, f), CloserOf(d)) = One(d, {c})
  BY <1>1, <1>6 DEF One, RecvOf, CloserOf, Closers, Req
<1>9. /\ One(Req("close", NULL, f), RecvOf(d)) = 0
      /\ One(Req("close", NULL, f), CloserOf(d)) = 0
  BY NullConn DEF One, RecvOf, CloserOf, Closers, Req
<1> QED
  BY <1>1, <1>4, <1>5, <1>7, <1>8, <1>9 DEF s, t

(* The requests that cancel what is under way on slot f, as close prepares them. *)
Cancels(k, c, f) == k \in {Req("cancel", c, f), Linked(Req("send", c, f), Req("cancel", c, f))}

(* close: the session goes, the connection is closed, and a request that   *)
(* cancels goes to the kernel with all that was prepared.                  *)
LEMMA CloseIs ==
  ASSUME NEW w \in Worlds, NEW c \in Conn, NEW send \in BOOLEAN,
         w.sq \in Seq(Named), w.conns.fd[c] \in Fd, c \notin w.conns.closed
  PROVE  LET v == Close(w, c, send)
         IN /\ v \in Worlds
            /\ v.conns.closed = w.conns.closed \cup {c}
            /\ v.conns.conn_map = w.conns.conn_map /\ v.conns.fd = w.conns.fd
            /\ v.conns.websocket = w.conns.websocket /\ v.conns.timers = w.conns.timers
            /\ v.conns.user_id = w.conns.user_id
            /\ v.users = IF w.conns.user_id[c] = NoUser THEN w.users
                         ELSE [w.users EXCEPT ![w.conns.user_id[c]] = NULL]
            /\ v.ended = w.ended /\ v.sq = <<>>
            /\ \E k \in Named : /\ Cancels(k, c, w.conns.fd[c])
                                /\ v.issuing = w.issuing \o Append(w.sq, k)
<1> DEFINE f == w.conns.fd[c]
           k == IF send THEN Linked(Req("send", c, f), Req("cancel", c, f)) ELSE Req("cancel", c, f)
           u == w.conns.user_id[c]
           m == IF u = NoUser THEN w.users ELSE [w.users EXCEPT ![u] = NULL]
           x == DelUserSession(w, u)
           n == [x.conns EXCEPT !.closed = @ \cup {c}]
           y == [x EXCEPT !.conns = n]
<1>1. u \in User /\ w.users \in [User -> Conn \cup {NULL}] /\ w.conns \in Workers
  BY DEF Worlds, Workers
<1>2. m \in [User -> Conn \cup {NULL}]
  BY <1>1
<1>3. /\ x \in Worlds /\ x.users = m /\ x.conns = w.conns
      /\ x.sq = w.sq /\ x.issuing = w.issuing /\ x.ended = w.ended
  BY <1>1, <1>2 DEF DelUserSession, Worlds
<1>4. k \in Named /\ Cancels(k, c, f) /\ k \in Request
  BY RequestsAre DEF Named, Request, Cancels
<1> HIDE DEF x, m, k
<1>5. /\ n \in Workers /\ n.closed = w.conns.closed \cup {c}
      /\ n.conn_map = w.conns.conn_map /\ n.fd = w.conns.fd
      /\ n.websocket = w.conns.websocket /\ n.timers = w.conns.timers
      /\ n.user_id = w.conns.user_id
  BY <1>1, <1>3 DEF Workers
<1> HIDE DEF n
<1>6. /\ y \in Worlds /\ y.conns = n /\ y.users = m
      /\ y.sq = w.sq /\ y.issuing = w.issuing /\ y.ended = w.ended
  BY <1>3, <1>5 DEF Worlds
<1>7. y = [x EXCEPT !.conns.closed = @ \cup {c}]
  BY DEF n
<1> HIDE DEF y
<1> DEFINE z == Prep(y, k)
<1>8. Close(w, c, send) = Submitted(z)
  <2>1. Close(w, c, send) = submit_cancel(y, c, send)
    BY <1>7 DEF Close, Closed, x
  <2>2. y.conns.fd[c] = f
    BY <1>5, <1>6
  <2>3. submit_cancel(y, c, send) = Submitted(Prep(y, IF send THEN Linked(Req("send", c, f), Req("cancel", c, f))
                                                      ELSE Req("cancel", c, f)))
    BY <2>2 DEF submit_cancel
  <2> QED
    BY <2>1, <2>3 DEF k
<1>9. /\ z \in Worlds /\ z.conns = n /\ z.users = m /\ z.sq = Append(w.sq, k)
      /\ z.issuing = w.issuing /\ z.ended = w.ended
  BY <1>4, <1>6, PrepIs
<1>10. Append(w.sq, k) \in Seq(Named)
  BY <1>4
<1> HIDE DEF z
<1> DEFINE v == Close(w, c, send)
<1>11. /\ v \in Worlds /\ v.conns = n /\ v.users = m /\ v.ended = w.ended
       /\ v.sq = <<>> /\ v.issuing = w.issuing \o Append(w.sq, k)
  BY <1>8, <1>9, <1>10, SubmittedIs
<1> HIDE DEF v
<1>12. \E j \in Named : Cancels(j, c, w.conns.fd[c]) /\ v.issuing = w.issuing \o Append(w.sq, j)
  BY <1>4, <1>11
<1>13. v.users = IF w.conns.user_id[c] = NoUser THEN w.users ELSE [w.users EXCEPT ![w.conns.user_id[c]] = NULL]
  BY <1>11 DEF m
<1> QED
  BY <1>5, <1>11, <1>12, <1>13 DEF v
-------------------------------------------------------------------------
(* The requests that a worker has made and the kernel has not issued. *)
Held(w) == ToSet(w.sq) \cup ToSet(w.issuing)
Amount(w, P) == Num(w.sq, P) + Num(w.issuing, P)

(* What a handler may do to the worker, short of accepting and deleting a  *)
(* connection: it makes receives for the connections in rx and goes on     *)
(* with closing those in cy; it closes connections, each with its cancel;  *)
(* and sessions stay in order, but for connection x.                       *)
Turn(v, rx, cy, x) ==
  /\ v \in Worlds /\ v.ended = "no"
  /\ v.conns.conn_map = conns.conn_map /\ v.conns.fd = conns.fd /\ conns.closed \subseteq v.conns.closed
  /\ \A t \in v.conns.timers : t[1] \in conns.conn_map
  /\ \A r \in Held(v) : r \in Named /\ r \notin Held(World) => RightSlot(r.conn, r.fd)
  /\ \A d \in Conn : Amount(v, RecvOf(d)) = Amount(World, RecvOf(d)) + One(d, rx)
  /\ \A d \in Conn : Amount(v, CloserOf(d))
                       = Amount(World, CloserOf(d)) + One(d, cy) + One(d, v.conns.closed \ conns.closed)
  /\ Orderly(v, x)

(* Numbers and amounts of requests are natural numbers. *)
LEMMA NumNat == \A w \in Worlds : \A P : Num(w.sq, P) \in Nat /\ Num(w.issuing, P) \in Nat /\ Amount(w, P) \in Nat
<1> SUFFICES ASSUME NEW w \in Worlds, NEW P
             PROVE  Num(w.sq, P) \in Nat /\ Num(w.issuing, P) \in Nat /\ Amount(w, P) \in Nat
  OBVIOUS
<1>1. w.sq \in Seq(Request) /\ w.issuing \in Seq(Named)
  BY DEF Worlds
<1>2. Num(w.sq, P) \in Nat /\ Num(w.issuing, P) \in Nat
  BY <1>1, NumType
<1> QED
  BY <1>2 DEF Amount

(* The world of a state with the right types is one of the worlds a      *)
(* handler works on.                                                     *)
LEMMA WorldType ==
  ASSUME Types
  PROVE  /\ World \in Worlds
         /\ World.conns = conns /\ World.users = user_map /\ World.sq = sq
         /\ World.issuing = issuing /\ World.ended = ended
  BY DEF Types, TypeOK, World, Worlds

(* Doing nothing is a turn. *)
LEMMA TurnNothing ==
  ASSUME Types, Running, Sound
  PROVE  Turn(World, {}, {}, NULL)
<1>1. /\ World \in Worlds
      /\ World.conns = conns /\ World.users = user_map /\ World.sq = sq
      /\ World.issuing = issuing /\ World.ended = ended
  BY WorldType
<1>2. \A t \in conns.timers : t[1] \in conns.conn_map
  BY DEF Types, TypeOK
<1>3. Orderly(World, NULL)
  BY DEF Sound
<1>4. \A P : Amount(World, P) \in Nat
  BY <1>1, NumNat
<1>5. /\ \A d \in Conn : Amount(World, RecvOf(d)) = Amount(World, RecvOf(d)) + One(d, {})
      /\ \A d \in Conn : Amount(World, CloserOf(d))
                           = Amount(World, CloserOf(d)) + One(d, {}) + One(d, World.conns.closed \ conns.closed)
  BY <1>1, <1>4 DEF One
<1> QED
  BY <1>1, <1>2, <1>3, <1>5 DEF Turn, Running

(* Preparing a request. *)
LEMMA TurnPrep ==
  ASSUME NEW v, NEW rx, NEW cy, NEW x, Turn(v, rx, cy, x), Types,
         NEW r \in Request, r \in Named => RightSlot(r.conn, r.fd), NEW rx2, NEW cy2,
         \A d \in Conn : /\ One(r, RecvOf(d)) + One(d, rx) = One(d, rx2)
                         /\ One(r, CloserOf(d)) + One(d, cy) = One(d, cy2)
  PROVE  /\ Turn(Prep(v, r), rx2, cy2, x)
         /\ Prep(v, r).conns = v.conns
         /\ v.sq \in Seq(Named) /\ r \in Named => Prep(v, r).sq \in Seq(Named)
<1> DEFINE p == Prep(v, r)
<1>1. v \in Worlds /\ v.sq \in Seq(Request)
  BY DEF Turn, Worlds
<1>2. /\ p \in Worlds /\ p.sq = Append(v.sq, r)
      /\ p.conns = v.conns /\ p.users = v.users /\ p.issuing = v.issuing /\ p.ended = v.ended
  BY <1>1, PrepIs
<1> HIDE DEF p
<1>3. Held(p) = Held(v) \cup {r}
  <2>1. /\ Num(Append(v.sq, r), {}) = Num(v.sq, {}) + One(r, {})
        /\ ToSet(Append(v.sq, r)) = ToSet(v.sq) \cup {r}
    BY <1>1, NumAppend
  <2> QED
    BY <1>2, <2>1 DEF Held
<1>4. \A P : Amount(p, P) = Amount(v, P) + One(r, P)
  <2> SUFFICES ASSUME NEW P PROVE Amount(p, P) = Amount(v, P) + One(r, P)
    OBVIOUS
  <2>1. Num(p.sq, P) = Num(v.sq, P) + One(r, P)
    BY <1>1, <1>2, NumAppend
  <2>2. Num(v.sq, P) \in Nat /\ Num(v.issuing, P) \in Nat /\ One(r, P) \in Nat
    BY <1>1, NumNat DEF One
  <2> QED
    BY <1>2, <2>1, <2>2 DEF Amount
<1>5. \A d \in Conn : Amount(p, RecvOf(d)) = Amount(World, RecvOf(d)) + One(d, rx2)
  <2> SUFFICES ASSUME NEW d \in Conn PROVE Amount(p, RecvOf(d)) = Amount(World, RecvOf(d)) + One(d, rx2)
    OBVIOUS
  <2>1. Amount(p, RecvOf(d)) = Amount(v, RecvOf(d)) + One(r, RecvOf(d))
    BY <1>4
  <2>2. Amount(v, RecvOf(d)) = Amount(World, RecvOf(d)) + One(d, rx)
    BY DEF Turn
  <2>3. Amount(World, RecvOf(d)) \in Nat /\ One(r, RecvOf(d)) \in Nat /\ One(d, rx) \in Nat
    BY NumNat, WorldType DEF One
  <2>4. One(r, RecvOf(d)) + One(d, rx) = One(d, rx2)
    OBVIOUS
  <2> QED
    BY <2>1, <2>2, <2>3, <2>4
<1>6. \A d \in Conn : Amount(p, CloserOf(d))
                        = Amount(World, CloserOf(d)) + One(d, cy2) + One(d, p.conns.closed \ conns.closed)
  <2> SUFFICES ASSUME NEW d \in Conn
               PROVE  Amount(p, CloserOf(d))
                        = Amount(World, CloserOf(d)) + One(d, cy2) + One(d, p.conns.closed \ conns.closed)
    OBVIOUS
  <2>1. Amount(p, CloserOf(d)) = Amount(v, CloserOf(d)) + One(r, CloserOf(d))
    BY <1>4
  <2>2. Amount(v, CloserOf(d))
          = Amount(World, CloserOf(d)) + One(d, cy) + One(d, v.conns.closed \ conns.closed)
    BY DEF Turn
  <2>3. /\ Amount(World, CloserOf(d)) \in Nat /\ One(r, CloserOf(d)) \in Nat /\ One(d, cy) \in Nat
        /\ One(d, v.conns.closed \ conns.closed) \in Nat
    BY NumNat, WorldType DEF One
  <2>4. One(r, CloserOf(d)) + One(d, cy) = One(d, cy2)
    OBVIOUS
  <2> QED
    BY <1>2, <2>1, <2>2, <2>3, <2>4
<1>7. Orderly(p, x)
  BY <1>2 DEF Turn, Orderly, IsOpen
<1>8. v.sq \in Seq(Named) /\ r \in Named => p.sq \in Seq(Named)
  BY <1>2, NumAppend
<1>9. Turn(p, rx2, cy2, x)
  BY <1>2, <1>3, <1>5, <1>6, <1>7 DEF Turn
<1> QED
  BY <1>2, <1>8, <1>9 DEF p

(* Setting timers. *)
LEMMA TurnTimers ==
  ASSUME NEW v, NEW rx, NEW cy, NEW x, Turn(v, rx, cy, x), NEW y \in Worlds,
         /\ \A t \in y.conns.timers : t[1] \in conns.conn_map
         /\ y.conns.conn_map = v.conns.conn_map /\ y.conns.closed = v.conns.closed
         /\ y.conns.fd = v.conns.fd /\ y.conns.websocket = v.conns.websocket
         /\ y.conns.user_id = v.conns.user_id
         /\ y.users = v.users /\ y.sq = v.sq /\ y.issuing = v.issuing /\ y.ended = v.ended
  PROVE  Turn(y, rx, cy, x)
<1>1. Orderly(y, x)
  BY DEF Turn, Orderly, IsOpen
<1>2. Held(y) = Held(v) /\ \A P : Amount(y, P) = Amount(v, P)
  BY DEF Held, Amount
<1> QED
  BY <1>1, <1>2 DEF Turn

(* Closing a connection. *)
LEMMA OrderlyClose ==
  ASSUME NEW w \in Worlds, NEW v \in Worlds, NEW x, NEW c \in w.conns.conn_map, Orderly(w, x),
         c \notin w.conns.closed,
         /\ v.conns.closed = w.conns.closed \cup {c}
         /\ v.conns.conn_map = w.conns.conn_map /\ v.conns.websocket = w.conns.websocket
         /\ v.conns.user_id = w.conns.user_id
         /\ v.users = IF w.conns.user_id[c] = NoUser THEN w.users
                      ELSE [w.users EXCEPT ![w.conns.user_id[c]] = NULL]
  PROVE  Orderly(v, x)
<1>1. c \in Conn /\ IsOpen(w, c)
  BY DEF Worlds, Workers, IsOpen
<1>2. /\ w.users \in [User -> Conn \cup {NULL}]
      /\ w.conns.user_id \in [Conn -> User] /\ w.conns.user_id[c] \in User
      /\ w.conns.conn_map \subseteq Conn
  BY <1>1 DEF Worlds, Workers
<1>3. v.conns.closed \cup v.conns.websocket \subseteq v.conns.conn_map
  BY DEF Orderly
<1>4. \A d \in Conn : IsOpen(v, d) <=> IsOpen(w, d) /\ d # c
  BY DEF IsOpen
<1>5. ASSUME NEW u \in User \ {NoUser}, v.users[u] # NULL
      PROVE  IsOpen(v, v.users[u]) /\ v.conns.user_id[v.users[u]] = u
  <2>1. u # w.conns.user_id[c] /\ v.users[u] = w.users[u]
    BY <1>2, <1>5
  <2>2. IsOpen(w, w.users[u]) /\ w.conns.user_id[w.users[u]] = u
    BY <1>5, <2>1 DEF Orderly
  <2>3. w.users[u] \in Conn /\ w.users[u] # c
    BY <1>2, <2>1, <2>2, <1>5
  <2> QED
    BY <1>4, <2>1, <2>2, <2>3
<1>6. ASSUME NEW d \in Conn, IsOpen(v, d), v.conns.user_id[d] # NoUser
      PROVE  v.users[v.conns.user_id[d]] = d
  <2>1. IsOpen(w, d) /\ d # c
    BY <1>4, <1>6
  <2>2. w.users[w.conns.user_id[d]] = d
    BY <1>6, <2>1 DEF Orderly
  <2>3. w.conns.user_id[c] # NoUser => w.users[w.conns.user_id[c]] = c
    BY <1>1 DEF Orderly
  <2>4. w.conns.user_id[d] \in User
    BY <1>2
  <2> QED
    BY <1>2, <2>1, <2>2, <2>3, <2>4
<1>7. /\ \A d \in Conn : d \notin v.conns.conn_map => v.conns.user_id[d] = NoUser
      /\ \A d \in Conn : IsOpen(v, d) /\ d \notin v.conns.websocket /\ d # x => v.conns.user_id[d] = NoUser
  BY <1>4 DEF Orderly
<1> QED
  BY <1>3, <1>5, <1>6, <1>7 DEF Orderly

(* Closing a connection keeps a turn: the closing request it adds is     *)
(* paid for by the connection that is now closed.                        *)
LEMMA TurnClose ==
  ASSUME NEW v, NEW rx, NEW cy, NEW x, Turn(v, rx, cy, x), Types, NamesRight,
         v.sq \in Seq(Named), NEW c \in conns.conn_map, NEW send \in BOOLEAN
  PROVE  /\ Turn(Close(v, c, send), rx, cy, x) /\ Close(v, c, send).sq \in Seq(Named)
         /\ c \in Close(v, c, send).conns.closed
         /\ Close(v, c, send).conns.websocket = v.conns.websocket
<1>1. CASE c \in v.conns.closed
  BY <1>1 DEF Close
<1>2. CASE c \notin v.conns.closed
  <2> DEFINE y == Close(v, c, send)
             f == conns.fd[c]
  <2>1. v \in Worlds /\ c \in Conn /\ conns.fd[c] \in Fd /\ v.conns.fd = conns.fd
    BY DEF Turn, Types, TypeOK, Workers
  <2>2. /\ y \in Worlds
        /\ y.conns.closed = v.conns.closed \cup {c}
        /\ y.conns.conn_map = v.conns.conn_map /\ y.conns.fd = v.conns.fd
        /\ y.conns.websocket = v.conns.websocket /\ y.conns.timers = v.conns.timers
        /\ y.conns.user_id = v.conns.user_id
        /\ y.users = IF v.conns.user_id[c] = NoUser THEN v.users
                     ELSE [v.users EXCEPT ![v.conns.user_id[c]] = NULL]
        /\ y.ended = v.ended /\ y.sq = <<>>
        /\ \E k \in Named : Cancels(k, c, f) /\ y.issuing = v.issuing \o Append(v.sq, k)
    <3>1. v.conns.fd[c] \in Fd /\ v.conns.fd[c] = f
      BY <2>1
    <3> HIDE DEF f
    <3>2. /\ y \in Worlds
          /\ y.conns.closed = v.conns.closed \cup {c}
          /\ y.conns.conn_map = v.conns.conn_map /\ y.conns.fd = v.conns.fd
          /\ y.conns.websocket = v.conns.websocket /\ y.conns.timers = v.conns.timers
          /\ y.conns.user_id = v.conns.user_id
          /\ y.users = IF v.conns.user_id[c] = NoUser THEN v.users
                       ELSE [v.users EXCEPT ![v.conns.user_id[c]] = NULL]
          /\ y.ended = v.ended /\ y.sq = <<>>
          /\ \E k \in Named : Cancels(k, c, v.conns.fd[c]) /\ y.issuing = v.issuing \o Append(v.sq, k)
      BY <1>2, <2>1, <3>1, CloseIs, ZenonT(60)
    <3> QED
      BY <3>1, <3>2
  <2>3. PICK k \in Named : Cancels(k, c, f) /\ y.issuing = v.issuing \o Append(v.sq, k)
    BY <2>2
  <2> HIDE DEF y
  <2>4. Orderly(y, x)
    BY <1>2, <2>1, <2>2, OrderlyClose DEF Turn
  <2>5. /\ k.conn = c /\ k.fd = f
        /\ \A d \in Conn : One(k, RecvOf(d)) = 0 /\ One(k, CloserOf(d)) = One(d, {c})
    <3>1. \A d \in Conn : One(k, RecvOf(d)) = 0 /\ One(k, CloserOf(d)) = One(d, {c})
      <4> SUFFICES ASSUME NEW d \in Conn
                   PROVE  One(k, RecvOf(d)) = 0 /\ One(k, CloserOf(d)) = One(d, {c})
        OBVIOUS
      <4>1. /\ One(Req("cancel", c, f), RecvOf(d)) = 0
            /\ One(Req("cancel", c, f), CloserOf(d)) = One(d, {c})
            /\ One(Linked(Req("send", c, f), Req("cancel", c, f)), RecvOf(d)) = 0
            /\ One(Linked(Req("send", c, f), Req("cancel", c, f)), CloserOf(d)) = One(d, {c})
        BY <2>1, RequestsAre
      <4> QED
        BY <2>3, <4>1 DEF Cancels
    <3>2. k.conn = c /\ k.fd = f
      BY <2>3 DEF Cancels, Req, Linked
    <3> QED
      BY <3>1, <3>2
  <2>6. v.issuing \in Seq(Named)
    BY <2>1 DEF Worlds
  <2> DEFINE a == Append(v.sq, k)
  <2>7. \A P : /\ a \in Seq(Named)
               /\ Num(a, P) = Num(v.sq, P) + One(k, P)
               /\ ToSet(a) = ToSet(v.sq) \cup {k}
    BY NumAppend
  <2>8. a \in Seq(Named) /\ ToSet(a) = ToSet(v.sq) \cup {k}
    BY <2>7
  <2> HIDE DEF a
  <2>9. \A P : /\ Num(v.issuing \o a, P) = Num(v.issuing, P) + Num(a, P)
               /\ ToSet(v.issuing \o a) = ToSet(v.issuing) \cup ToSet(a)
    BY <2>6, <2>8, NumConcat
  <2>10. y.issuing = v.issuing \o a
    BY <2>3 DEF a
  <2>11. Held(y) = Held(v) \cup {k}
    BY <2>2, <2>8, <2>9, <2>10, NumEmpty DEF Held
  <2>12. \A P : Amount(y, P) = Amount(v, P) + One(k, P)
    <3> SUFFICES ASSUME NEW P PROVE Amount(y, P) = Amount(v, P) + One(k, P)
      OBVIOUS
    <3>1. Num(y.sq, P) = 0
      BY <2>2, NumEmpty
    <3>2. Num(y.issuing, P) = Num(v.issuing, P) + (Num(v.sq, P) + One(k, P))
      BY <2>7, <2>9, <2>10
    <3>3. Num(v.issuing, P) \in Nat /\ Num(v.sq, P) \in Nat /\ One(k, P) \in Nat
      BY <2>1, NumNat DEF One
    <3> QED
      BY <3>1, <3>2, <3>3 DEF Amount
  <2>13. \A r \in Held(y) : r \in Named /\ r \notin Held(World) => RightSlot(r.conn, r.fd)
    BY <2>1, <2>5, <2>11 DEF Turn, NamesRight, RightSlot
  <2>14. \A d \in Conn : Amount(y, RecvOf(d)) = Amount(World, RecvOf(d)) + One(d, rx)
    <3> SUFFICES ASSUME NEW d \in Conn PROVE Amount(y, RecvOf(d)) = Amount(World, RecvOf(d)) + One(d, rx)
      OBVIOUS
    <3>1. Amount(y, RecvOf(d)) = Amount(v, RecvOf(d)) + 0
      BY <2>5, <2>12
    <3>2. Amount(v, RecvOf(d)) \in Nat
      BY <2>1, NumNat
    <3>3. Amount(v, RecvOf(d)) = Amount(World, RecvOf(d)) + One(d, rx)
      BY DEF Turn
    <3> QED
      BY <3>1, <3>2, <3>3
  <2>15. \A d \in Conn : Amount(y, CloserOf(d))
                           = Amount(World, CloserOf(d)) + One(d, cy) + One(d, y.conns.closed \ conns.closed)
    <3> SUFFICES ASSUME NEW d \in Conn
                 PROVE  Amount(y, CloserOf(d))
                           = Amount(World, CloserOf(d)) + One(d, cy) + One(d, y.conns.closed \ conns.closed)
      OBVIOUS
    <3>1. Amount(y, CloserOf(d)) = Amount(v, CloserOf(d)) + One(d, {c})
      BY <2>5, <2>12
    <3>2. Amount(v, CloserOf(d))
            = Amount(World, CloserOf(d)) + One(d, cy) + One(d, v.conns.closed \ conns.closed)
      BY DEF Turn
    <3>3. conns.closed \subseteq v.conns.closed
      BY DEF Turn
    <3>4. One(d, y.conns.closed \ conns.closed) = One(d, v.conns.closed \ conns.closed) + One(d, {c})
      BY <1>2, <2>2, <3>3 DEF One
    <3>5. Amount(World, CloserOf(d)) \in Nat
      BY WorldType, NumNat
    <3>6. One(d, cy) \in Nat /\ One(d, v.conns.closed \ conns.closed) \in Nat /\ One(d, {c}) \in Nat
      BY DEF One
    <3> QED
      BY <3>1, <3>2, <3>4, <3>5, <3>6
  <2>16. Turn(y, rx, cy, x)
    BY <2>2, <2>4, <2>13, <2>14, <2>15 DEF Turn
  <2>17. y.sq \in Seq(Named)
    BY <2>2
  <2> QED
    BY <2>2, <2>16, <2>17 DEF y
<1> QED
  BY <1>1, <1>2

(* Upgrading a connection whose session may be new, or which is closed.    *)
LEMMA TurnUpgrade ==
  ASSUME NEW v, NEW rx, NEW cy, NEW c \in conns.conn_map, NEW x \in {c, NULL}, Turn(v, rx, cy, x), Types
  PROVE  /\ Turn(Upgraded(v, c), rx, cy, NULL)
         /\ Upgraded(v, c).sq = v.sq
<1>1. c \in Conn /\ v \in Worlds
  BY DEF Turn, Types, TypeOK, Workers
<1> DEFINE y == Upgraded(v, c)
<1>2. /\ y \in Worlds /\ y.conns.websocket = v.conns.websocket \cup {c}
      /\ y.conns.conn_map = v.conns.conn_map /\ y.conns.closed = v.conns.closed
      /\ y.conns.fd = v.conns.fd /\ y.conns.timers = v.conns.timers
      /\ y.conns.user_id = v.conns.user_id
      /\ y.users = v.users /\ y.sq = v.sq /\ y.issuing = v.issuing /\ y.ended = v.ended
  BY <1>1, UpgradedIs
<1> HIDE DEF y
<1>3. Orderly(y, NULL)
  <2>1. Orderly(v, x) /\ v.conns.conn_map = conns.conn_map
    BY DEF Turn
  <2> QED
    BY <1>2, <2>1 DEF Orderly, IsOpen
<1>4. Held(y) = Held(v) /\ \A P : Amount(y, P) = Amount(v, P)
  BY <1>2 DEF Held, Amount
<1>5. Turn(y, rx, cy, NULL)
  BY <1>2, <1>3, <1>4 DEF Turn
<1> QED
  BY <1>2, <1>5 DEF y

(* A connection that is closed need not be set apart any more. *)
LEMMA TurnClosed ==
  ASSUME NEW v, NEW rx, NEW cy, NEW c, Turn(v, rx, cy, c), c \in v.conns.closed
  PROVE  Turn(v, rx, cy, NULL)
<1>1. Orderly(v, NULL)
  BY DEF Turn, Orderly, IsOpen
<1> QED
  BY <1>1 DEF Turn

(* A session for a connection that has none. *)
LEMMA TurnSession ==
  ASSUME NEW v, NEW rx, NEW cy, NEW c \in conns.conn_map, Turn(v, rx, cy, NULL), Types,
         c \notin v.conns.closed, c \notin v.conns.websocket, NEW u \in User,
         AddUserSession(v, c, u).ended = "no"
  PROVE  /\ Turn(AddUserSession(v, c, u), rx, cy, c)
         /\ AddUserSession(v, c, u).sq = v.sq
<1>1. c \in Conn /\ v \in Worlds /\ v.ended = "no"
  BY DEF Turn, Types, TypeOK, Workers
<1> DEFINE y == AddUserSession(v, c, u)
<1>2. /\ y \in Worlds
      /\ y.conns.conn_map = v.conns.conn_map /\ y.conns.closed = v.conns.closed
      /\ y.conns.fd = v.conns.fd /\ y.conns.timers = v.conns.timers
      /\ y.conns.websocket = v.conns.websocket
      /\ y.sq = v.sq /\ y.issuing = v.issuing
      /\ v.users[u] # NULL => y.ended = "second_session"
      /\ v.users[u] = NULL => /\ y.users = [v.users EXCEPT ![u] = c]
                              /\ y.conns.user_id = [v.conns.user_id EXCEPT ![c] = u]
                              /\ y.ended = v.ended
  BY <1>1, AddUserSessionIs
<1>3. y.ended = "no"
  OBVIOUS
<1> HIDE DEF y
<1>4. /\ v.users[u] = NULL
      /\ y.users = [v.users EXCEPT ![u] = c]
      /\ y.conns.user_id = [v.conns.user_id EXCEPT ![c] = u]
      /\ y.ended = "no"
  BY <1>1, <1>2, <1>3
<1>5. v.users \in [User -> Conn \cup {NULL}] /\ v.conns.user_id \in [Conn -> User]
  BY <1>1 DEF Worlds, Workers
<1>6. Orderly(v, NULL) /\ v.conns.conn_map = conns.conn_map
  BY DEF Turn
<1>7. IsOpen(v, c) /\ v.conns.user_id[c] = NoUser
  <2>1. c # NULL
    BY <1>1, NullConn
  <2>2. IsOpen(v, c)
    BY <1>6 DEF IsOpen
  <2> QED
    BY <1>1, <1>6, <2>1, <2>2 DEF Orderly
<1>8. \A d \in Conn : IsOpen(y, d) <=> IsOpen(v, d)
  BY <1>2 DEF IsOpen
<1>9. ASSUME NEW w \in User \ {NoUser}, y.users[w] # NULL
      PROVE  IsOpen(y, y.users[w]) /\ y.conns.user_id[y.users[w]] = w
  <2>1. CASE w = u
    BY <1>1, <1>4, <1>5, <1>7, <1>8, <2>1
  <2>2. CASE w # u
    <3>1. y.users[w] = v.users[w] /\ v.users[w] \in Conn
      BY <1>4, <1>5, <1>9, <2>2
    <3>2. IsOpen(v, v.users[w]) /\ v.conns.user_id[v.users[w]] = w
      BY <1>6, <1>9, <3>1 DEF Orderly
    <3>3. v.users[w] # c
      BY <1>7, <3>2
    <3> QED
      BY <1>4, <1>5, <1>8, <3>1, <3>2, <3>3
  <2> QED
    BY <2>1, <2>2
<1>10. ASSUME NEW d \in Conn, IsOpen(y, d), y.conns.user_id[d] # NoUser
       PROVE  y.users[y.conns.user_id[d]] = d
  <2>1. CASE d = c
    BY <1>1, <1>4, <1>5, <2>1
  <2>2. CASE d # c
    <3>1. y.conns.user_id[d] = v.conns.user_id[d] /\ v.conns.user_id[d] \in User
      BY <1>4, <1>5, <2>2
    <3>2. v.users[v.conns.user_id[d]] = d
      BY <1>6, <1>8, <1>10, <3>1 DEF Orderly
    <3>3. v.conns.user_id[d] # u
      BY <1>4, <3>2, NullConn
    <3> QED
      BY <1>4, <1>5, <3>1, <3>2, <3>3
  <2> QED
    BY <2>1, <2>2
<1>11. /\ y.conns.closed \cup y.conns.websocket \subseteq y.conns.conn_map
       /\ \A d \in Conn : d \notin y.conns.conn_map => y.conns.user_id[d] = NoUser
       /\ \A d \in Conn : IsOpen(y, d) /\ d \notin y.conns.websocket /\ d # c => y.conns.user_id[d] = NoUser
  <2>1. y.conns.closed \cup y.conns.websocket \subseteq y.conns.conn_map
    BY <1>2, <1>6 DEF Orderly
  <2>2. \A d \in Conn : d # c => y.conns.user_id[d] = v.conns.user_id[d]
    BY <1>4, <1>5
  <2>3. \A d \in Conn : d # NULL
    BY NullConn
  <2> QED
    BY <1>2, <1>6, <1>8, <2>1, <2>2, <2>3 DEF Orderly
<1>12. Orderly(y, c)
  BY <1>9, <1>10, <1>11 DEF Orderly
<1>13. Held(y) = Held(v) /\ \A P : Amount(y, P) = Amount(v, P)
  BY <1>2 DEF Held, Amount
<1>14. Turn(y, rx, cy, c)
  BY <1>2, <1>4, <1>12, <1>13 DEF Turn
<1> QED
  BY <1>2, <1>14 DEF y
-------------------------------------------------------------------------
(* What every handler does to the completions and the connections. *)
LEMMA TailIs ==
  ASSUME Types, cq # <<>>, cq' = Tail(cq)
  PROVE  /\ Head(cq) \in Completion /\ cq' \in Seq(Completion)
         /\ Head(cq) \in Told /\ Told' \subseteq Told /\ Told \subseteq Told' \cup {Head(cq)}
         /\ Told \subseteq Completion
         /\ \A P : Num(cq, P) = One(Head(cq), P) + Num(cq', P)
         /\ \A P : Num(cq', P) \in Nat
<1>1. cq \in Seq(Completion)
  BY DEF Types
<1>2. \A P : /\ Head(cq) \in Completion /\ Tail(cq) \in Seq(Completion)
             /\ Num(cq, P) = One(Head(cq), P) + Num(Tail(cq), P)
             /\ ToSet(cq) = {Head(cq)} \cup ToSet(Tail(cq))
  BY <1>1, NumTail
<1>3. \A P : Num(cq', P) \in Nat
  BY <1>2, NumType
<1>4. Told \subseteq Completion
  BY <1>1 DEF Told, ToSet
<1> QED
  BY <1>2, <1>3, <1>4 DEF Told

(* Taking the first completion off the queue leaves the completions and  *)
(* slots as they have to be.                                             *)
LEMMA TailKeeps ==
  ASSUME Types, PassedOnce, SlotsAreLeft, NamelessEnds, cq # <<>>, cq' = Tail(cq), UNCHANGED kernel
  PROVE  /\ PassedOnce' /\ SlotsAreLeft'
         /\ \A c : Known(c) => Known(c)'
         /\ \A i \in DOMAIN cq' : cq'[i].op = "shutdown" => i + 1 \in DOMAIN cq' /\ Ends(cq'[i + 1])
<1>1. UNCHANGED <<requests, files, peer>>
  BY DEF kernel
<1>2. /\ Head(cq) \in Completion /\ cq' \in Seq(Completion)
      /\ Told' \subseteq Told /\ Told \subseteq Completion
      /\ \A P : Num(cq, P) = One(Head(cq), P) + Num(cq', P)
      /\ \A P : Num(cq', P) \in Nat
  BY TailIs
<1>3. \A c : Known(c) => Known(c)'
  BY <1>1, <1>2 DEF Known, Passes
<1>4. PassedOnce'
  <2>1. \A c \in Conn : Num(cq', Passes(c)) \in {0, 1}
    <3> SUFFICES ASSUME NEW c \in Conn PROVE Num(cq', Passes(c)) \in {0, 1}
      OBVIOUS
    <3>1. Num(cq, Passes(c)) \in {0, 1}
      BY DEF PassedOnce
    <3>2. Num(cq, Passes(c)) = One(Head(cq), Passes(c)) + Num(cq', Passes(c))
      BY <1>2
    <3>3. One(Head(cq), Passes(c)) \in Nat /\ Num(cq', Passes(c)) \in Nat
      BY <1>2 DEF One
    <3> QED
      BY <3>1, <3>2, <3>3
  <2>2. \A e \in Told' : e.op = "fd_pass" =>
          peer'[e.conn] # "none" /\ (e.res = "done" => files'[e.fd] = e.conn)
    BY <1>1, <1>2 DEF PassedOnce
  <2> QED
    BY <2>1, <2>2 DEF PassedOnce, Passes
<1>5. SlotsAreLeft'
  BY <1>1, <1>2 DEF SlotsAreLeft
<1>6. ASSUME NEW i \in DOMAIN cq', cq'[i].op = "shutdown"
      PROVE  i + 1 \in DOMAIN cq' /\ Ends(cq'[i + 1])
  <2>1. \A j \in DOMAIN cq : cq[j].op = "shutdown" => j + 1 \in DOMAIN cq /\ Ends(cq[j + 1])
    BY DEF NamelessEnds
  <2>2. cq \in Seq(Completion)
    BY DEF Types
  <2>3. i \in 1..(Len(cq) - 1) /\ cq'[i] = cq[i + 1]
    BY <1>6, <2>2
  <2>4. i + 1 \in DOMAIN cq /\ cq[i + 1].op = "shutdown"
    BY <1>6, <2>2, <2>3
  <2>5. (i + 1) + 1 \in DOMAIN cq /\ Ends(cq[(i + 1) + 1])
    BY <2>1, <2>4
  <2>6. i + 1 \in DOMAIN cq' /\ cq'[i + 1] = cq[(i + 1) + 1]
    BY <2>2, <2>3, <2>5
  <2> QED
    BY <2>5, <2>6
<1> QED
  BY <1>3, <1>4, <1>5, <1>6

(* What any handler keeps that changes no socket, deletes at most, and   *)
(* prepares requests for slots it knows.                                 *)
LEMMA HandlerFrame ==
  ASSUME Types, NamesRight, PassedOnce, OwnSockets, CanceledAreClosed, SlotsAreLeft, NamelessEnds,
         cq # <<>>, cq' = Tail(cq), UNCHANGED kernel,
         conns' \in Workers,
         \A c \in conns'.conn_map : /\ c \in conns.conn_map /\ conns'.fd[c] = conns.fd[c]
                                    /\ c \in conns.closed => c \in conns'.closed,
         \A r \in Underway' : r \in Named /\ r \notin Underway => RightSlot(r.conn, r.fd)
  PROVE  /\ NamesRight' /\ PassedOnce' /\ OwnSockets' /\ CanceledAreClosed' /\ SlotsAreLeft'
<1>1. UNCHANGED <<requests, files, peer>>
  BY DEF kernel
<1>2. Told' \subseteq Told /\ Told \subseteq Completion
  BY TailIs
<1>3. /\ PassedOnce' /\ SlotsAreLeft'
      /\ \A c : Known(c) => Known(c)'
  BY TailKeeps
<1>4. \A c, f : RightSlot(c, f) => RightSlot(c, f)'
  BY <1>3 DEF RightSlot
<1>5. \A c : IsOpen(World, c)' => IsOpen(World, c)
  BY DEF IsOpen, World
<1>6. NamesRight'
  <2>1. \A c \in conns'.conn_map : Known(c)'
    BY <1>3 DEF NamesRight
  <2>2. \A r \in Underway' : r \in Named => RightSlot(r.conn, r.fd)'
    BY <1>4 DEF NamesRight
  <2>3. \A e \in Told' : e.op \notin {"fd_pass", "timeout"} => RightSlot(e.conn, e.fd)'
    BY <1>2, <1>4 DEF NamesRight
  <2> QED
    BY <2>1, <2>2, <2>3 DEF NamesRight
<1>8. OwnSockets'
  BY <1>1, <1>5 DEF OwnSockets
<1>9. CanceledAreClosed'
  BY <1>2, <1>5 DEF CanceledAreClosed
<1> QED
  BY <1>3, <1>6, <1>8, <1>9

(* A turn that pays for the completion it has taken keeps the invariant. *)
LEMMA TurnKeeps ==
  ASSUME Types, SlotsAreOwned, Sound, Running, cq # <<>>, cq' = Tail(cq), UNCHANGED kernel,
         NEW v, NEW rx, NEW cy, Turn(v, rx, cy, NULL), Becomes(v),
         Head(cq).op \in {"fd_pass", "close"} => Head(cq).res # "done",
         \A d \in conns.conn_map \ v.conns.closed : One(Head(cq), EndedRecv(d)) = One(d, rx),
         \A d \in Conn : One(Head(cq), ClosingCqe(d)) = One(d, cy),
         v.sq \in Seq(Named) \/ (Tail(cq) # <<>> /\ Ends(Head(Tail(cq))))
  PROVE  IInv'
<1>1. UNCHANGED <<requests, files, peer, shut>>
  BY DEF kernel
<1>2. /\ conns' = v.conns /\ user_map' = v.users /\ sq' = v.sq /\ issuing' = v.issuing /\ ended' = "no"
      /\ v \in Worlds
  BY DEF Becomes, Turn
<1>3. /\ v.conns \in Workers /\ v.users \in [User -> Conn \cup {NULL}] /\ v.sq \in Seq(Request)
      /\ v.issuing \in Seq(Named)
  BY <1>2 DEF Worlds
<1>4. /\ v.conns.conn_map = conns.conn_map /\ v.conns.fd = conns.fd /\ conns.closed \subseteq v.conns.closed
      /\ \A t \in v.conns.timers : t[1] \in conns.conn_map
      /\ \A r \in Held(v) : r \in Named /\ r \notin Held(World) => RightSlot(r.conn, r.fd)
      /\ Orderly(v, NULL)
  BY DEF Turn
<1>5. /\ Head(cq) \in Completion /\ cq' \in Seq(Completion)
      /\ Told' \subseteq Told /\ Told \subseteq Told' \cup {Head(cq)} /\ Told \subseteq Completion
      /\ \A P : Num(cq, P) = One(Head(cq), P) + Num(cq', P)
      /\ \A P : Num(cq', P) \in Nat
  BY TailIs
<1>6. Types'
  <2>1. \A c \in conns'.conn_map : conns'.fd[c] # NULL
    BY <1>2, <1>4 DEF Types, TypeOK
  <2>2. TypeOK'
    BY <1>1, <1>2, <1>3, <1>4, <2>1 DEF Types, TypeOK
  <2> QED
    BY <1>1, <1>2, <1>3, <1>5, <2>2 DEF Types, Endings
<1>7. Orderly(World, NULL)'
  BY <1>2, <1>4 DEF Orderly, IsOpen, World
<1>8. /\ NamesRight' /\ PassedOnce' /\ OwnSockets' /\ CanceledAreClosed' /\ SlotsAreLeft'
  <2>1. \A r \in Underway' : r \in Named /\ r \notin Underway => RightSlot(r.conn, r.fd)
    BY <1>1, <1>2, <1>4 DEF Underway, Held, World
  <2> QED
    BY <1>2, <1>3, <1>4, <2>1, HandlerFrame DEF Sound
<1>9. SlotsAreOwned'
  <2>1. \A e \in Told : e.op \in {"fd_pass", "close"} /\ e.res = "done" => e \in Told'
    BY <1>5
  <2>2. \A f \in Fd : files'[f] # NULL =>
       \/ files'[f] \in conns'.conn_map /\ conns'.fd[files'[f]] = f
       \/ \E e \in Told' : e \in Passes(files'[f]) /\ e.res = "done" /\ e.fd = f
    BY <1>1, <1>2, <1>4, <2>1 DEF SlotsAreOwned, Passes
  <2>3. \A c \in conns'.conn_map :
       \/ files'[conns'.fd[c]] = c
       \/ \E e \in Told' : e.op = "close" /\ e.conn = c /\ e.res = "done"
    BY <1>1, <1>2, <1>4, <2>1 DEF SlotsAreOwned
  <2> QED
    BY <2>2, <2>3 DEF SlotsAreOwned, Passes
<1>10. NamelessEnds'
  <2>1. \A i \in DOMAIN cq' : cq'[i].op = "shutdown" => i + 1 \in DOMAIN cq' /\ Ends(cq'[i + 1])
    BY TailKeeps DEF Sound
  <2>2. sq' \in Seq(Named) \/ (cq' # <<>> /\ Ends(Head(cq')))
    BY <1>2
  <2> QED
    BY <2>1, <2>2 DEF NamelessEnds, Ends
<1> DEFINE K(A) == Num(requests, IssuedOf(A))
<1>11. \A A, B : /\ Total(A, B) = Amount(World, A) + K(A) + One(Head(cq), B) + Num(cq', B)
                 /\ Total(A, B)' = Amount(v, A) + K(A) + Num(cq', B)
                 /\ Amount(World, A) \in Nat /\ Amount(v, A) \in Nat /\ K(A) \in Nat
                 /\ One(Head(cq), B) \in Nat /\ Num(cq', B) \in Nat
  <2> SUFFICES ASSUME NEW A, NEW B
               PROVE  /\ Total(A, B) = Amount(World, A) + K(A) + One(Head(cq), B) + Num(cq', B)
                      /\ Total(A, B)' = Amount(v, A) + K(A) + Num(cq', B)
                      /\ Amount(World, A) \in Nat /\ Amount(v, A) \in Nat /\ K(A) \in Nat
                      /\ One(Head(cq), B) \in Nat /\ Num(cq', B) \in Nat
    OBVIOUS
  <2>1. Amount(World, A) \in Nat /\ Amount(v, A) \in Nat
    BY <1>2, WorldType, NumNat
  <2>2. K(A) \in Nat
    BY NumType DEF Types
  <2>3. One(Head(cq), B) \in Nat /\ Num(cq', B) \in Nat
    BY <1>5 DEF One
  <2>4. Num(cq, B) = One(Head(cq), B) + Num(cq', B)
    BY <1>5
  <2>5. Total(A, B) = Amount(World, A) + K(A) + Num(cq, B)
    BY DEF Total, Amount, World
  <2>6. Total(A, B)' = Amount(v, A) + K(A) + Num(cq', B)
    BY <1>1, <1>2 DEF Total, Amount
  <2> HIDE DEF K
  <2> QED
    BY <2>1, <2>2, <2>3, <2>4, <2>5, <2>6
<1> HIDE DEF K
<1>12. conns.conn_map \subseteq Conn
  BY DEF Types, TypeOK, Workers
<1>13. Listening'
  <2> SUFFICES ASSUME NEW d \in conns.conn_map \ v.conns.closed
               PROVE  Total(RecvOf(d), EndedRecv(d))' = 1
    BY <1>2, <1>4 DEF Listening, RecvOf, EndedRecv
  <2>1. d \in Conn /\ d \in conns.conn_map \ conns.closed
    BY <1>4, <1>12
  <2>2. Total(RecvOf(d), EndedRecv(d)) = 1
    BY <2>1 DEF Sound, Listening
  <2>3. Amount(v, RecvOf(d)) = Amount(World, RecvOf(d)) + One(d, rx)
    BY <2>1 DEF Turn
  <2>4. One(Head(cq), EndedRecv(d)) = One(d, rx)
    OBVIOUS
  <2>5. /\ Total(RecvOf(d), EndedRecv(d)) = Amount(World, RecvOf(d)) + K(RecvOf(d))
                                              + One(Head(cq), EndedRecv(d)) + Num(cq', EndedRecv(d))
        /\ Total(RecvOf(d), EndedRecv(d))' = Amount(v, RecvOf(d)) + K(RecvOf(d)) + Num(cq', EndedRecv(d))
        /\ Amount(World, RecvOf(d)) \in Nat /\ Amount(v, RecvOf(d)) \in Nat /\ K(RecvOf(d)) \in Nat
        /\ One(Head(cq), EndedRecv(d)) \in Nat /\ Num(cq', EndedRecv(d)) \in Nat
    BY <1>11
  <2> QED
    BY <2>2, <2>3, <2>4, <2>5
<1>14. Closing'
  <2> SUFFICES ASSUME NEW d \in Conn
               PROVE  Total(CloserOf(d), ClosingCqe(d))' = IF d \in v.conns.closed THEN 1 ELSE 0
    BY <1>2 DEF Closing, CloserOf, ClosingCqe
  <2>1. Total(CloserOf(d), ClosingCqe(d)) = IF d \in conns.closed THEN 1 ELSE 0
    BY DEF Sound, Closing
  <2>2. Amount(v, CloserOf(d))
          = Amount(World, CloserOf(d)) + One(d, cy) + One(d, v.conns.closed \ conns.closed)
    BY DEF Turn
  <2>3. One(Head(cq), ClosingCqe(d)) = One(d, cy)
    OBVIOUS
  <2>4. /\ Total(CloserOf(d), ClosingCqe(d)) = Amount(World, CloserOf(d)) + K(CloserOf(d))
                                              + One(Head(cq), ClosingCqe(d)) + Num(cq', ClosingCqe(d))
        /\ Total(CloserOf(d), ClosingCqe(d))' = Amount(v, CloserOf(d)) + K(CloserOf(d)) + Num(cq', ClosingCqe(d))
        /\ Amount(World, CloserOf(d)) \in Nat /\ Amount(v, CloserOf(d)) \in Nat /\ K(CloserOf(d)) \in Nat
        /\ One(Head(cq), ClosingCqe(d)) \in Nat /\ Num(cq', ClosingCqe(d)) \in Nat
    BY <1>11
  <2>5. (IF d \in conns.closed THEN 1 ELSE 0) + One(d, v.conns.closed \ conns.closed)
          = IF d \in v.conns.closed THEN 1 ELSE 0
    BY <1>4 DEF One
  <2>6. One(d, v.conns.closed \ conns.closed) \in Nat
    BY DEF One
  <2> QED
    BY <2>1, <2>2, <2>3, <2>4, <2>5, <2>6
<1> QED
  BY <1>6, <1>7, <1>8, <1>9, <1>10, <1>13, <1>14 DEF IInv, Sound

(* The end of the loop or the process. *)
LEMMA EndKeeps ==
  ASSUME Types, SlotsAreOwned, cq # <<>>, cq' = Tail(cq), UNCHANGED kernel,
         NEW v \in Worlds, Becomes(v), v.ended # "no",
         v.conns = conns /\ v.users = user_map /\ v.sq = sq /\ v.issuing = issuing,
         Head(cq).op \in {"fd_pass", "close"} => Head(cq).res # "done"
  PROVE  IInv'
<1>1. UNCHANGED <<requests, files, peer, shut, conns, user_map, sq, issuing>>
  BY DEF kernel, Becomes
<1>2. ended' = v.ended /\ v.ended \in Endings
  BY DEF Becomes, Worlds
<1>3. /\ cq' \in Seq(Completion)
      /\ Told' \subseteq Told /\ Told \subseteq Told' \cup {Head(cq)}
  BY TailIs
<1>4. Types'
  <2>1. TypeOK'
    BY <1>1 DEF Types, TypeOK
  <2> QED
    BY <1>1, <1>2, <1>3, <2>1 DEF Types
<1>5. SlotsAreOwned'
  <2>1. \A e \in Told : e.op \in {"fd_pass", "close"} /\ e.res = "done" => e \in Told'
    BY <1>3
  <2>2. \A f \in Fd : files'[f] # NULL =>
       \/ files'[f] \in conns'.conn_map /\ conns'.fd[files'[f]] = f
       \/ \E e \in Told' : e \in Passes(files'[f]) /\ e.res = "done" /\ e.fd = f
    BY <1>1, <2>1 DEF SlotsAreOwned, Passes
  <2>3. \A c \in conns'.conn_map :
       \/ files'[conns'.fd[c]] = c
       \/ \E e \in Told' : e.op = "close" /\ e.conn = c /\ e.res = "done"
    BY <1>1, <2>1 DEF SlotsAreOwned
  <2> QED
    BY <2>2, <2>3 DEF SlotsAreOwned, Passes
<1> QED
  BY <1>2, <1>4, <1>5 DEF IInv, Running

-------------------------------------------------------------------------
(* What the protocol handlers do with a receive of an open connection: the *)
(* process ends, or they have had a turn.                                  *)
LEMMA RecvTurn ==
  ASSUME Types, Running, Sound, sq \in Seq(Named), NEW c \in conns.conn_map, c \notin conns.closed,
         NEW w \in RecvHandle(World, c)
  PROVE  \/ Turn(w, {}, {}, NULL) /\ w.sq \in Seq(Named)
         \/ /\ w \in Worlds /\ w.ended # "no"
            /\ w.conns = conns /\ w.users = user_map /\ w.sq = sq /\ w.issuing = issuing
<1>1. /\ World \in Worlds
      /\ World.conns = conns /\ World.users = user_map /\ World.sq = sq
      /\ World.issuing = issuing /\ World.ended = "no"
  BY WorldType DEF Running
<1>2. Turn(World, {}, {}, NULL) /\ NamesRight
  BY TurnNothing DEF Sound
<1>3. c \in Conn /\ conns.fd[c] \in Fd /\ RightSlot(c, conns.fd[c])
  BY DEF Types, TypeOK, Workers, Sound, NamesRight, RightSlot
<1> DEFINE Good(v) == Turn(v, {}, {}, NULL) /\ v.sq \in Seq(Named)
<1>4. Good(World)
  BY <1>1, <1>2
<1>5. ASSUME NEW v, NEW x, Turn(v, {}, {}, x), v.sq \in Seq(Named)
      PROVE  Turn(Sent(v, c), {}, {}, x) /\ Sent(v, c).sq \in Seq(Named)
  <2> DEFINE r == Req("send", c, conns.fd[c])
  <2>1. r \in Named /\ r \in Request /\ r.conn = c /\ r.fd = conns.fd[c]
    BY <1>3, RequestsAre DEF Named, Request, Req
  <2>2. \A d \in Conn : One(r, RecvOf(d)) = 0 /\ One(r, CloserOf(d)) = 0
    BY <1>3, RequestsAre
  <2>3. Sent(v, c) = Prep(v, r)
    BY <1>5 DEF Sent, Turn
  <2> HIDE DEF r
  <2>4. \A d \in Conn : One(r, RecvOf(d)) + One(d, {}) = One(d, {}) /\ One(r, CloserOf(d)) + One(d, {}) = One(d, {})
    BY <2>2 DEF One
  <2>5. r \in Named => RightSlot(r.conn, r.fd)
    BY <1>3, <2>1
  <2> QED
    BY <1>5, <2>1, <2>3, <2>4, <2>5, TurnPrep, SMTT(30)
<1>6. ASSUME NEW v, NEW x, Turn(v, {}, {}, x), v.sq \in Seq(Named), NEW send \in BOOLEAN
      PROVE  /\ Turn(Close(v, c, send), {}, {}, x) /\ Close(v, c, send).sq \in Seq(Named)
             /\ c \in Close(v, c, send).conns.closed
  BY <1>2, <1>6, TurnClose
<1>7. CASE c \in conns.websocket
  <2> DEFINE pong == [World EXCEPT !.conns.timers = @ \ {<<c, "pong">>}]
  <2>1. Good(pong)
    <3> DEFINE T == conns.timers \ {<<c, "pong">>}
    <3>1. T \in SUBSET Timer /\ \A t \in T : t[1] \in conns.conn_map
      BY DEF Types, TypeOK, Workers
    <3>2. pong = [World EXCEPT !.conns.timers = T]
      BY <1>1
    <3> HIDE DEF T, pong
    <3>3. /\ pong \in Worlds /\ pong.conns.timers = T
          /\ pong.conns.conn_map = World.conns.conn_map /\ pong.conns.closed = World.conns.closed
          /\ pong.conns.fd = World.conns.fd /\ pong.conns.websocket = World.conns.websocket
          /\ pong.conns.user_id = World.conns.user_id
          /\ pong.users = World.users /\ pong.sq = World.sq /\ pong.issuing = World.issuing
          /\ pong.ended = World.ended
      BY <1>1, <3>1, <3>2, TimersAre, ZenonT(60)
    <3> QED
      BY <1>1, <1>2, <3>1, <3>3, TurnTimers
  <2> HIDE DEF pong
  <2>2. w \in {World, Sent(World, c), pong, Sent(pong, c), Close(World, c, FALSE), Close(World, c, TRUE)}
    BY <1>1, <1>7 DEF RecvHandle, WebSocketHandle, pong
  <2>3. Good(Sent(World, c)) /\ Good(Sent(pong, c))
    BY <1>4, <1>5, <2>1
  <2>4. Good(Close(World, c, FALSE)) /\ Good(Close(World, c, TRUE))
    BY <1>4, <1>6
  <2> QED
    BY <1>4, <2>1, <2>2, <2>3, <2>4
<1>8. CASE c \notin conns.websocket
  <2>1. CASE w \in {World, Close(World, c, TRUE)}
    BY <1>4, <1>6, <2>1
  <2>2. ASSUME NEW u \in User,
               w \in LET s == AddUserSession(World, c, u)
                     IN IF s.ended # "no" THEN {s}
                        ELSE {Close(s, c, TRUE), Upgraded(Sent(s, c), c), Upgraded(Close(s, c, FALSE), c)}
        PROVE  \/ Good(w)
               \/ /\ w \in Worlds /\ w.ended # "no"
                  /\ w.conns = conns /\ w.users = user_map /\ w.sq = sq /\ w.issuing = issuing
    <3> DEFINE s == AddUserSession(World, c, u)
    <3>1. CASE s.ended # "no"
      <4>1. w = s
        BY <2>2, <3>1
      <4>2. /\ s \in Worlds /\ s.sq = World.sq /\ s.issuing = World.issuing
            /\ World.users[u] # NULL => s.users = World.users /\ s.conns = World.conns
            /\ World.users[u] = NULL => s.ended = World.ended
        <5>1. World \in Worlds /\ c \in Conn /\ u \in User
          BY <1>1, <1>3, <2>2
        <5> QED
          BY <5>1, AddUserSessionIs, ZenonT(60)
      <4> HIDE DEF s
      <4> QED
        BY <1>1, <3>1, <4>1, <4>2
    <3>2. CASE s.ended = "no"
      <4>1. w \in {Close(s, c, TRUE), Upgraded(Sent(s, c), c), Upgraded(Close(s, c, FALSE), c)}
        BY <2>2, <3>2
      <4>2. Turn(s, {}, {}, c) /\ s.sq \in Seq(Named)
        <5>1. c \notin World.conns.closed /\ c \notin World.conns.websocket /\ u \in User
          BY <1>1, <1>8, <2>2
        <5>2. Turn(s, {}, {}, c) /\ s.sq = World.sq
          BY <1>2, <3>2, <5>1, TurnSession
        <5> QED
          BY <1>1, <5>2
      <4> HIDE DEF s
      <4>3. Good(Close(s, c, TRUE))
        BY <1>6, <4>2, TurnClosed
      <4>4. Good(Upgraded(Sent(s, c), c))
        BY <1>5, <4>2, TurnUpgrade
      <4>5. Good(Upgraded(Close(s, c, FALSE), c))
        BY <1>6, <4>2, TurnUpgrade
      <4> QED
        BY <4>1, <4>3, <4>4, <4>5
    <3> QED
      BY <3>1, <3>2
  <2>3. \/ w \in {World, Close(World, c, TRUE)}
        \/ \E u \in User : w \in LET s == AddUserSession(World, c, u)
                                 IN IF s.ended # "no" THEN {s}
                                    ELSE {Close(s, c, TRUE), Upgraded(Sent(s, c), c),
                                          Upgraded(Close(s, c, FALSE), c)}
    BY <1>1, <1>8 DEF RecvHandle, HttpHandle
  <2> QED
    BY <2>1, <2>2, <2>3
<1> QED
  BY <1>7, <1>8

(* What is known when a handler starts, and how a turn ends it. *)
LEMMA HandlerStarts ==
  ASSUME IInv, NEW op, Handle(op)
  PROVE  /\ Types /\ SlotsAreOwned /\ Sound /\ Running
         /\ cq # <<>> /\ cq' = Tail(cq) /\ UNCHANGED kernel
         /\ Head(cq) \in Completion /\ Head(cq) \in Told /\ Head(cq).op = op
         /\ World \in Worlds /\ World.conns = conns /\ World.users = user_map
         /\ World.sq = sq /\ World.issuing = issuing /\ World.ended = "no"
         /\ conns.conn_map \subseteq Conn
         /\ op # "close" => sq \in Seq(Named)
<1>1. /\ Types /\ SlotsAreOwned /\ Sound /\ Running
      /\ cq # <<>> /\ cq' = Tail(cq) /\ UNCHANGED kernel /\ Head(cq).op = op
  BY DEF IInv, Handle
<1>2. Head(cq) \in Completion /\ Head(cq) \in Told
  BY <1>1, TailIs
<1>3. op # "close" => sq \in Seq(Named)
  BY <1>1 DEF Sound, NamelessEnds, Ends
<1>4. conns.conn_map \subseteq Conn
  BY <1>1 DEF Types, TypeOK, Workers
<1> QED
  BY <1>1, <1>2, <1>3, <1>4, WorldType DEF Running

(* Setting the idle timer, and a receive that is submitted again. *)
LEMMA TurnIdle ==
  ASSUME NEW v, NEW c \in conns.conn_map, Turn(v, {}, {}, NULL), Types
  PROVE  Turn(AddTimer(v, c, "idle"), {}, {}, NULL) /\ AddTimer(v, c, "idle").sq = v.sq
<1>1. c \in Conn /\ v \in Worlds
  BY DEF Turn, Types, TypeOK, Workers
<1> DEFINE y == AddTimer(v, c, "idle")
<1>2. /\ y \in Worlds /\ y.conns.timers = v.conns.timers \cup {<<c, "idle">>}
      /\ y.conns.conn_map = v.conns.conn_map /\ y.conns.closed = v.conns.closed
      /\ y.conns.fd = v.conns.fd /\ y.conns.websocket = v.conns.websocket
      /\ y.conns.user_id = v.conns.user_id
      /\ y.users = v.users /\ y.sq = v.sq /\ y.issuing = v.issuing /\ y.ended = v.ended
  BY <1>1, AddTimerIs
<1> HIDE DEF y
<1>3. \A t \in y.conns.timers : t[1] \in conns.conn_map
  <2>1. \A t \in v.conns.timers : t[1] \in conns.conn_map
    BY DEF Turn
  <2> QED
    BY <1>2, <2>1
<1>4. Turn(y, {}, {}, NULL)
  BY <1>2, <1>3, TurnTimers
<1> QED
  BY <1>2, <1>4 DEF y

(* prep_recv adds one receive of its connection to a turn. *)
LEMMA TurnRecv ==
  ASSUME NEW v, NEW c \in Conn, NEW f \in Fd, Turn(v, {}, {}, NULL), v.sq \in Seq(Named),
         RightSlot(c, f), Types
  PROVE  /\ Turn(prep_recv(v, c, f), {c}, {}, NULL) /\ prep_recv(v, c, f).sq \in Seq(Named)
         /\ prep_recv(v, c, f).conns = v.conns
<1> DEFINE r == Req("recv", c, f)
<1>1. r \in Named /\ r \in Request /\ r.conn = c /\ r.fd = f
  BY RequestsAre DEF Named, Request, Req
<1>2. \A d \in Conn : One(r, RecvOf(d)) = One(d, {c}) /\ One(r, CloserOf(d)) = 0
  BY RequestsAre
<1>3. prep_recv(v, c, f) = Prep(v, r)
  BY DEF prep_recv
<1> HIDE DEF r
<1>4. \A d \in Conn : One(r, RecvOf(d)) + One(d, {}) = One(d, {c}) /\ One(r, CloserOf(d)) + One(d, {}) = One(d, {})
  BY <1>2 DEF One
<1>5. r \in Named => RightSlot(r.conn, r.fd)
  BY <1>1
<1> DEFINE C == {c}
           N == {}
<1>6. /\ Turn(v, N, N, NULL)
      /\ \A d \in Conn : One(r, RecvOf(d)) + One(d, N) = One(d, C) /\ One(r, CloserOf(d)) + One(d, N) = One(d, N)
  BY <1>4
<1> HIDE DEF C, N
<1>7. /\ Turn(Prep(v, r), C, N, NULL)
      /\ Prep(v, r).conns = v.conns
      /\ v.sq \in Seq(Named) /\ r \in Named => Prep(v, r).sq \in Seq(Named)
  BY <1>1, <1>5, <1>6, TurnPrep
<1> QED
  BY <1>1, <1>3, <1>7 DEF C, N

(* A receive: nothing, another receive, the end, a closing, or a turn of   *)
(* the protocol handler after which the receive goes on or is made again.  *)
LEMMA RecvKeeps ==
  ASSUME IInv, handle_recv
  PROVE  IInv'
<1> DEFINE e == Head(cq)
           c == e.conn
<1>1. /\ Types /\ SlotsAreOwned /\ Sound /\ Running
      /\ cq # <<>> /\ cq' = Tail(cq) /\ UNCHANGED kernel
      /\ e \in Completion /\ e \in Told /\ e.op = "recv"
      /\ World \in Worlds /\ World.conns = conns /\ World.users = user_map
      /\ World.sq = sq /\ World.issuing = issuing /\ World.ended = "no"
      /\ conns.conn_map \subseteq Conn /\ sq \in Seq(Named)
  BY HandlerStarts DEF handle_recv
<1>2. c \in Conn /\ e.fd \in Fd /\ (e.more => e.res = "data")
  BY <1>1 DEF Completion, Cqes
<1>3. RightSlot(c, e.fd) /\ NamesRight /\ CanceledAreClosed
  BY <1>1 DEF Sound, NamesRight
<1>4. Turn(World, {}, {}, NULL)
  BY <1>1, TurnNothing
<1>5. /\ \A d \in Conn : One(e, ClosingCqe(d)) = One(d, {})
      /\ \A d \in Conn : d # c => One(e, EndedRecv(d)) = 0
      /\ One(e, EndedRecv(c)) = IF e.more THEN 0 ELSE 1
      /\ \A d \in Conn : One(d, {}) = 0 /\ One(d, {c}) = IF d = c THEN 1 ELSE 0
  BY <1>1 DEF One, ClosingCqe, EndedRecv
<1>6. ASSUME NEW v, Turn(v, {}, {}, NULL), v.sq \in Seq(Named), Becomes(v), e.more \/ ~IsOpen(v, c)
      PROVE  IInv'
  <2>1. v.conns.conn_map = conns.conn_map
    BY <1>6 DEF Turn
  <2>2. \A d \in conns.conn_map \ v.conns.closed : One(e, EndedRecv(d)) = One(d, {})
    BY <1>1, <1>5, <1>6, <2>1 DEF IsOpen
  <2> QED
    BY <1>1, <1>5, <1>6, <2>2, TurnKeeps
<1>7. ASSUME NEW v, Turn(v, {}, {}, NULL), v.sq \in Seq(Named), Becomes(prep_recv(v, c, e.fd)), ~e.more
      PROVE  IInv'
  <2> DEFINE y == prep_recv(v, c, e.fd)
  <2>1. Turn(y, {c}, {}, NULL) /\ y.sq \in Seq(Named)
    BY <1>1, <1>2, <1>3, <1>7, TurnRecv
  <2>2. \A d \in conns.conn_map \ y.conns.closed : One(e, EndedRecv(d)) = One(d, {c})
    BY <1>1, <1>5, <1>7
  <2>3. Becomes(y)
    BY <1>7
  <2> HIDE DEF y
  <2> QED
    BY <1>1, <1>5, <2>1, <2>2, <2>3, TurnKeeps
<1>8. ASSUME NEW v \in Worlds, Becomes(v), v.ended # "no",
             v.conns = conns /\ v.users = user_map /\ v.sq = sq /\ v.issuing = issuing
      PROVE  IInv'
  BY <1>1, <1>8, EndKeeps
<1>9. ASSUME NEW why \in {"recv_error", "null"}, Becomes(Ending(why))
      PROVE  IInv'
  <2>1. /\ Ending(why) \in Worlds /\ Ending(why).ended = why /\ Ending(why).conns = conns
        /\ Ending(why).users = user_map /\ Ending(why).sq = sq /\ Ending(why).issuing = issuing
    BY <1>1 DEF Ending, Worlds, Endings
  <2> QED
    BY <1>8, <1>9, <2>1
<1>10. CASE e.res = "nobufs"
  <2>1. Becomes(prep_recv(World, c, e.fd))
    BY <1>10 DEF handle_recv
  <2> QED
    BY <1>1, <1>2, <1>4, <1>7, <1>10, <2>1
<1>11. CASE e.res = "canceled"
  <2>1. Becomes(World)
    BY <1>11 DEF handle_recv
  <2>2. ~IsOpen(World, c)
    BY <1>1, <1>3, <1>11 DEF CanceledAreClosed
  <2> QED
    BY <1>1, <1>4, <1>6, <2>1, <2>2
<1>12. CASE e.res = "error"
  <2>1. Becomes(Ending("recv_error"))
    BY <1>12 DEF handle_recv
  <2> QED
    BY <1>9, <2>1
<1>13. CASE e.res \notin {"nobufs", "canceled", "error"} /\ c \notin conns.conn_map
  <2>1. Becomes(Ending("null"))
    BY <1>13 DEF handle_recv
  <2> QED
    BY <1>9, <2>1
<1>14. CASE e.res = "end" /\ c \in conns.conn_map
  <2>1. Becomes(Close(World, c, FALSE))
    BY <1>14 DEF handle_recv
  <2>2. /\ Turn(Close(World, c, FALSE), {}, {}, NULL) /\ Close(World, c, FALSE).sq \in Seq(Named)
        /\ c \in Close(World, c, FALSE).conns.closed
    BY <1>1, <1>3, <1>4, <1>14, TurnClose
  <2>3. ~IsOpen(Close(World, c, FALSE), c)
    BY <2>2 DEF IsOpen
  <2> QED
    BY <1>6, <2>1, <2>2, <2>3
<1>15. CASE e.res \notin {"nobufs", "canceled", "error", "end"} /\ c \in conns.closed /\ c \in conns.conn_map
  <2>1. Becomes(World)
    BY <1>15 DEF handle_recv
  <2>2. ~IsOpen(World, c)
    BY <1>1, <1>15 DEF IsOpen
  <2> QED
    BY <1>1, <1>4, <1>6, <2>1, <2>2
<1>16. CASE e.res \notin {"nobufs", "canceled", "error", "end"} /\ c \notin conns.closed /\ c \in conns.conn_map
  <2>1. PICK w \in RecvHandle(World, c) :
               Becomes(IF w.ended # "no" THEN w ELSE Rearmed(AddTimer(w, c, "idle"), e))
    BY <1>16 DEF handle_recv
  <2>2. CASE w.ended # "no"
    <3>1. w \in Worlds /\ w.conns = conns /\ w.users = user_map /\ w.sq = sq /\ w.issuing = issuing
      BY <1>1, <1>16, <2>2, RecvTurn DEF Turn
    <3>2. Becomes(w)
      BY <2>1, <2>2
    <3> QED
      BY <1>8, <2>2, <3>1, <3>2
  <2>3. CASE w.ended = "no"
    <3> DEFINE y == AddTimer(w, c, "idle")
    <3>1. Turn(w, {}, {}, NULL) /\ w.sq \in Seq(Named)
      BY <1>1, <1>16, <2>3, RecvTurn
    <3>2. Turn(y, {}, {}, NULL) /\ y.sq \in Seq(Named)
      BY <1>1, <1>16, <3>1, TurnIdle
    <3>3. Becomes(Rearmed(y, e))
      BY <2>1, <2>3
    <3> HIDE DEF y
    <3>4. CASE e.more
      <4>1. Becomes(y)
        BY <3>3, <3>4 DEF Rearmed
      <4> QED
        BY <1>6, <3>2, <3>4, <4>1
    <3>5. CASE ~e.more
      <4>1. Becomes(prep_recv(y, c, e.fd))
        BY <3>3, <3>5 DEF Rearmed
      <4> QED
        BY <1>7, <3>2, <3>5, <4>1
    <3> QED
      BY <3>4, <3>5
  <2> QED
    BY <2>2, <2>3
<1> QED
  BY <1>10, <1>11, <1>12, <1>13, <1>14, <1>15, <1>16

(* A send that completes changes nothing; the end may come instead. *)
LEMMA SendKeeps ==
  ASSUME IInv, handle_send
  PROVE  IInv'
<1> DEFINE e == Head(cq)
<1>1. /\ Types /\ SlotsAreOwned /\ Sound /\ Running
      /\ cq # <<>> /\ cq' = Tail(cq) /\ UNCHANGED kernel
      /\ e \in Completion /\ e \in Told /\ e.op = "send"
      /\ World \in Worlds /\ World.conns = conns /\ World.users = user_map
      /\ World.sq = sq /\ World.issuing = issuing /\ World.ended = "no"
      /\ conns.conn_map \subseteq Conn /\ sq \in Seq(Named)
  BY HandlerStarts DEF handle_send
<1>2. Turn(World, {}, {}, NULL)
  BY <1>1, TurnNothing
<1>3. /\ \A d \in Conn : One(e, ClosingCqe(d)) = One(d, {})
      /\ \A d \in Conn : One(e, EndedRecv(d)) = One(d, {})
  BY <1>1 DEF One, ClosingCqe, EndedRecv
<1>4. Becomes(World) \/ \E why \in {"send_error", "null"} : Becomes(Ending(why))
  BY DEF handle_send
<1>5. CASE Becomes(World)
  BY <1>1, <1>2, <1>3, <1>5, TurnKeeps
<1>6. ASSUME NEW why \in {"send_error", "null"}, Becomes(Ending(why))
      PROVE  IInv'
  <2>1. /\ Ending(why) \in Worlds /\ Ending(why).ended = why /\ Ending(why).conns = conns
        /\ Ending(why).users = user_map /\ Ending(why).sq = sq /\ Ending(why).issuing = issuing
    BY <1>1 DEF Ending, Worlds, Endings
  <2> QED
    BY <1>1, <1>6, <2>1, EndKeeps
<1> QED
  BY <1>4, <1>5, <1>6

(* The shutdown and the close behind it take the place of the cancel. *)
LEMMA CancelKeeps ==
  ASSUME IInv, handle_cancel
  PROVE  IInv'
<1> DEFINE e == Head(cq)
           c == e.conn
           r == Linked(Req("shutdown", c, e.fd), Req("close", c, e.fd))
           C == {c}
           N == {}
           y == Prep(World, r)
<1>1. /\ Types /\ SlotsAreOwned /\ Sound /\ Running
      /\ cq # <<>> /\ cq' = Tail(cq) /\ UNCHANGED kernel
      /\ e \in Completion /\ e \in Told /\ e.op = "cancel"
      /\ World \in Worlds /\ World.conns = conns /\ World.users = user_map
      /\ World.sq = sq /\ World.issuing = issuing /\ World.ended = "no"
      /\ conns.conn_map \subseteq Conn /\ sq \in Seq(Named)
  BY HandlerStarts DEF handle_cancel
<1>2. c \in Conn /\ e.fd \in Fd
  BY <1>1 DEF Completion, Cqes
<1>3. RightSlot(c, e.fd)
  BY <1>1 DEF Sound, NamesRight
<1>4. Turn(World, N, N, NULL)
  BY <1>1, TurnNothing
<1>5. /\ \A d \in Conn : One(e, ClosingCqe(d)) = One(d, C)
      /\ \A d \in Conn : One(e, EndedRecv(d)) = One(d, N)
  BY <1>1, <1>2 DEF One, ClosingCqe, EndedRecv
<1>6. r \in Named /\ r \in Request /\ r.conn = c /\ r.fd = e.fd
  <2>1. r \in Chained
    BY <1>2, RequestsAre
  <2> QED
    BY <2>1 DEF Named, Request, Req, Linked
<1>7. \A d \in Conn : One(r, RecvOf(d)) = 0 /\ One(r, CloserOf(d)) = One(d, C)
  BY <1>2, RequestsAre
<1>8. Becomes(y)
  BY DEF handle_cancel, PrepClose
<1> HIDE DEF r
<1>9. \A d \in Conn : One(r, RecvOf(d)) + One(d, N) = One(d, N) /\ One(r, CloserOf(d)) + One(d, N) = One(d, C)
  BY <1>7 DEF One
<1> HIDE DEF C, N
<1>10. Turn(y, N, C, NULL) /\ y.sq \in Seq(Named)
  BY <1>1, <1>3, <1>4, <1>6, <1>9, TurnPrep
<1> HIDE DEF y
<1> QED
  BY <1>1, <1>5, <1>8, <1>10, TurnKeeps

(* A shutdown that failed: the close it prepares belongs to no connection, *)
(* and the next completion ends the loop.                                  *)
LEMMA ShutdownKeeps ==
  ASSUME IInv, handle_shutdown
  PROVE  IInv'
<1> DEFINE e == Head(cq)
           r == Req("close", NULL, e.fd)
           N == {}
           y == Prep(World, r)
<1>1. /\ Types /\ SlotsAreOwned /\ Sound /\ Running
      /\ cq # <<>> /\ cq' = Tail(cq) /\ UNCHANGED kernel
      /\ e \in Completion /\ e \in Told /\ e.op = "shutdown"
      /\ World \in Worlds /\ World.conns = conns /\ World.users = user_map
      /\ World.sq = sq /\ World.issuing = issuing /\ World.ended = "no"
      /\ conns.conn_map \subseteq Conn /\ sq \in Seq(Named)
  BY HandlerStarts DEF handle_shutdown
<1>2. e.conn \in Conn /\ e.fd \in Fd
  BY <1>1 DEF Completion, Cqes
<1>3. Turn(World, N, N, NULL)
  BY <1>1, TurnNothing
<1>4. /\ \A d \in Conn : One(e, ClosingCqe(d)) = One(d, N)
      /\ \A d \in Conn : One(e, EndedRecv(d)) = One(d, N)
  BY <1>1 DEF One, ClosingCqe, EndedRecv
<1>5. r \in Nameless /\ r \in Request /\ r \notin Named
  <2>1. r \in Nameless
    BY <1>2, RequestsAre
  <2>2. r.conn \notin Conn
    BY NullConn DEF Req
  <2> QED
    BY <2>1, <2>2 DEF Named, Request, Plain, Chained
<1>6. \A d \in Conn : One(r, RecvOf(d)) = 0 /\ One(r, CloserOf(d)) = 0
  BY <1>2, RequestsAre
<1>7. Becomes(y)
  BY DEF handle_shutdown
<1> HIDE DEF r
<1>8. \A d \in Conn : One(r, RecvOf(d)) + One(d, N) = One(d, N) /\ One(r, CloserOf(d)) + One(d, N) = One(d, N)
  BY <1>6 DEF One
<1> HIDE DEF N
<1>9. Turn(y, N, N, NULL)
  BY <1>1, <1>3, <1>5, <1>8, TurnPrep
<1> HIDE DEF y
<1>10. Tail(cq) # <<>> /\ Ends(Head(Tail(cq)))
  <2>1. cq \in Seq(Completion)
    BY <1>1 DEF Types
  <2>2. 1 \in DOMAIN cq /\ cq[1].op = "shutdown"
    BY <1>1, <2>1
  <2>3. 1 + 1 \in DOMAIN cq /\ Ends(cq[1 + 1])
    BY <1>1, <2>2 DEF Sound, NamelessEnds
  <2>4. Len(cq) \in Nat /\ Len(cq) >= 2
    BY <2>1, <2>3
  <2>5. Tail(cq) \in Seq(Completion) /\ Len(Tail(cq)) = Len(cq) - 1 /\ Tail(cq)[1] = cq[1 + 1]
    BY <2>1, <2>4
  <2> DEFINE q == Tail(cq)
  <2>6. q \in Seq(Completion) /\ Len(q) >= 1
    BY <2>4, <2>5
  <2> HIDE DEF q
  <2>7. q # <<>> /\ Head(q) = q[1]
    BY <2>6
  <2> QED
    BY <2>3, <2>5, <2>7 DEF q
<1> QED
  BY <1>1, <1>4, <1>7, <1>9, <1>10, TurnKeeps

(* The timers: none runs, or one that sends a ping or closes. *)
LEMMA TimeoutKeeps ==
  ASSUME IInv, handle_timeout
  PROVE  IInv'
<1> DEFINE e == Head(cq)
           N == {}
<1>1. /\ Types /\ SlotsAreOwned /\ Sound /\ Running
      /\ cq # <<>> /\ cq' = Tail(cq) /\ UNCHANGED kernel
      /\ e \in Completion /\ e \in Told /\ e.op = "timeout"
      /\ World \in Worlds /\ World.conns = conns /\ World.users = user_map
      /\ World.sq = sq /\ World.issuing = issuing /\ World.ended = "no"
      /\ conns.conn_map \subseteq Conn /\ sq \in Seq(Named)
  BY HandlerStarts DEF handle_timeout
<1>2. Turn(World, N, N, NULL) /\ NamesRight
  BY <1>1, TurnNothing DEF Sound
<1>3. /\ \A d \in Conn : One(e, ClosingCqe(d)) = One(d, N)
      /\ \A d \in Conn : One(e, EndedRecv(d)) = One(d, N)
  BY <1>1 DEF One, ClosingCqe, EndedRecv
<1> HIDE DEF N
<1>4. ASSUME NEW v, Turn(v, N, N, NULL), v.sq \in Seq(Named), Becomes(v)
      PROVE  IInv'
  BY <1>1, <1>3, <1>4, TurnKeeps
<1>5. CASE Becomes(World)
  BY <1>1, <1>2, <1>4, <1>5
<1>6. ASSUME NEW t \in conns.timers, Becomes(TimerRuns(World, t))
      PROVE  IInv'
  <2> DEFINE c == t[1]
             T == conns.timers \ {t}
             v == [World EXCEPT !.conns.timers = T]
  <2>1. /\ c \in conns.conn_map /\ c \in Conn /\ T \in SUBSET Timer
        /\ \A s \in T : s[1] \in conns.conn_map
        /\ conns.fd[c] \in Fd
    <3>1. conns \in Workers /\ conns.timers \subseteq Timer /\ conns.fd \in [Conn -> Fd \cup {NULL}]
      BY <1>1 DEF Types, TypeOK, Workers
    <3>2. \A s \in conns.timers : s[1] \in conns.conn_map
      BY <1>1 DEF Types, TypeOK
    <3>3. \A d \in conns.conn_map : conns.fd[d] # NULL
      BY <1>1 DEF Types, TypeOK
    <3> QED
      BY <1>1, <3>1, <3>2, <3>3
  <2>2. TimerRuns(World, t) = IF t[2] = "idle" /\ c \in conns.websocket THEN AddTimer(Sent(v, c), c, "pong")
                              ELSE Close(v, c, FALSE)
    BY <1>1 DEF TimerRuns
  <2> HIDE DEF c, T
  <2>3. /\ v \in Worlds /\ v.conns.timers = T
        /\ v.conns.conn_map = World.conns.conn_map /\ v.conns.closed = World.conns.closed
        /\ v.conns.fd = World.conns.fd /\ v.conns.websocket = World.conns.websocket
        /\ v.conns.user_id = World.conns.user_id
        /\ v.users = World.users /\ v.sq = World.sq /\ v.issuing = World.issuing /\ v.ended = World.ended
    BY <1>1, <2>1, TimersAre
  <2> HIDE DEF v
  <2>4. Turn(v, N, N, NULL) /\ v.sq \in Seq(Named)
    BY <1>1, <1>2, <2>1, <2>3, TurnTimers
  <2>5. Turn(Close(v, c, FALSE), N, N, NULL) /\ Close(v, c, FALSE).sq \in Seq(Named)
    BY <1>1, <1>2, <2>1, <2>4, TurnClose
  <2> DEFINE r == Req("send", c, conns.fd[c])
             s == Sent(v, c)
             y == AddTimer(s, c, "pong")
  <2>6. r \in Named /\ r \in Request /\ r.conn = c /\ r.fd = conns.fd[c]
    BY <2>1, RequestsAre DEF Named, Request, Req
  <2>7. \A d \in Conn : One(r, RecvOf(d)) = 0 /\ One(r, CloserOf(d)) = 0
    BY <2>1, RequestsAre
  <2>8. s = Prep(v, r)
    BY <1>1, <2>3 DEF Sent
  <2>9. RightSlot(c, conns.fd[c])
    BY <1>2, <2>1 DEF NamesRight, RightSlot
  <2> HIDE DEF r, s
  <2>10. \A d \in Conn : One(r, RecvOf(d)) + One(d, N) = One(d, N) /\ One(r, CloserOf(d)) + One(d, N) = One(d, N)
    BY <2>7 DEF One
  <2>11. Turn(s, N, N, NULL) /\ s.sq \in Seq(Named) /\ s.conns = v.conns
    BY <1>1, <2>4, <2>6, <2>8, <2>9, <2>10, TurnPrep
  <2>12. s \in Worlds
    BY <2>11 DEF Turn
  <2>13. /\ y \in Worlds /\ y.conns.timers = s.conns.timers \cup {<<c, "pong">>}
         /\ y.conns.conn_map = s.conns.conn_map /\ y.conns.closed = s.conns.closed
         /\ y.conns.fd = s.conns.fd /\ y.conns.websocket = s.conns.websocket
         /\ y.conns.user_id = s.conns.user_id
         /\ y.users = s.users /\ y.sq = s.sq /\ y.issuing = s.issuing /\ y.ended = s.ended
    BY <2>1, <2>12, AddTimerIs
  <2> HIDE DEF y
  <2>14. \A q \in y.conns.timers : q[1] \in conns.conn_map
    BY <2>1, <2>3, <2>11, <2>13
  <2>15. Turn(y, N, N, NULL) /\ y.sq \in Seq(Named)
    BY <2>11, <2>13, <2>14, TurnTimers
  <2>16. Becomes(y) \/ Becomes(Close(v, c, FALSE))
    BY <1>6, <2>2 DEF y, s
  <2> QED
    BY <1>4, <2>5, <2>15, <2>16
<1> QED
  BY <1>5, <1>6 DEF handle_timeout

(* Nothing under way and nothing told names a connection that is unknown.  *)
LEMMA UnknownIsNew ==
  ASSUME Types, NamesRight, NEW c \in Conn, ~Known(c)
  PROVE  /\ c \notin conns.conn_map
         /\ \A r \in Underway : r \in Named => r.conn # c
         /\ \A e \in Told : e.op \notin {"fd_pass", "timeout"} => e.conn # c
         /\ Total(RecvOf(c), EndedRecv(c)) = 0
<1>1. /\ c \notin conns.conn_map
      /\ \A r \in Underway : r \in Named => r.conn # c
      /\ \A e \in Told : e.op \notin {"fd_pass", "timeout"} => e.conn # c
  BY DEF NamesRight, RightSlot
<1>2. /\ sq \in Seq(Request) /\ issuing \in Seq(Named) /\ requests \in Seq(Issued) /\ cq \in Seq(Completion)
  BY DEF Types
<1>3. \A r \in RecvOf(c) : r \in Named /\ r.conn = c
  BY DEF RecvOf, Request, Named, Nameless
<1>4. Num(sq, RecvOf(c)) = 0
  <2>1. \A r \in ToSet(sq) : r \notin RecvOf(c)
    BY <1>1, <1>3 DEF Underway
  <2> QED
    BY <1>2, <2>1, NumType
<1>5. Num(issuing, RecvOf(c)) = 0
  <2>1. \A r \in ToSet(issuing) : r \notin RecvOf(c)
    BY <1>1, <1>3 DEF Underway
  <2> QED
    BY <1>2, <2>1, NumType
<1>6. Num(requests, IssuedOf(RecvOf(c))) = 0
  <2>1. \A x \in ToSet(requests) : x \notin IssuedOf(RecvOf(c))
    BY <1>1, <1>3 DEF Underway, IssuedOf
  <2> QED
    BY <1>2, <2>1, NumType
<1>7. Num(cq, EndedRecv(c)) = 0
  <2>1. \A e \in ToSet(cq) : e \notin EndedRecv(c)
    BY <1>1 DEF Told, EndedRecv
  <2> QED
    BY <1>2, <2>1, NumType
<1> QED
  BY <1>1, <1>4, <1>5, <1>6, <1>7 DEF Total

(* A connection is accepted: nothing names it before. *)
LEMMA AcceptKeeps ==
  ASSUME IInv, handle_fd_pass, Head(cq).res # "nfile"
  PROVE  IInv'
<1>0. PICK e, c, f, r : e = Head(cq) /\ c = e.conn /\ f = e.fd /\ r = Req("recv", c, f)
  OBVIOUS
<1> USE <1>0
<1>1. /\ Types /\ SlotsAreOwned /\ Sound /\ Running
      /\ cq # <<>> /\ cq' = Tail(cq) /\ UNCHANGED kernel
      /\ e \in Completion /\ e \in Told /\ e.op = "fd_pass"
      /\ World \in Worlds /\ World.conns = conns /\ World.users = user_map
      /\ World.sq = sq /\ World.issuing = issuing /\ World.ended = "no"
      /\ conns.conn_map \subseteq Conn /\ sq \in Seq(Named)
  BY HandlerStarts DEF handle_fd_pass
<1>2. /\ UNCHANGED <<requests, files, peer, shut>>
      /\ NamesRight /\ PassedOnce /\ OwnSockets /\ CanceledAreClosed /\ SlotsAreLeft
      /\ NamelessEnds /\ Listening /\ Closing /\ Orderly(World, NULL)
  BY <1>1 DEF kernel, Sound
<1>3. c \in Conn /\ f \in Fd /\ e.res = "done" /\ e \in Passes(c)
  BY <1>1 DEF Completion, Cqes, Passes
<1>4. peer[c] # "none" /\ files[f] = c
  BY <1>1, <1>2, <1>3 DEF PassedOnce
<1>5. /\ cq' \in Seq(Completion)
      /\ Told' \subseteq Told /\ Told \subseteq Told' \cup {e} /\ Told \subseteq Completion
      /\ \A P : Num(cq, P) = One(e, P) + Num(cq', P)
      /\ \A P : Num(cq', P) \in Nat
  BY <1>1, TailIs
<1>6. /\ c \notin conns.conn_map
      /\ \A q \in Underway : q \in Named => q.conn # c
      /\ \A d \in Told : d.op \notin {"fd_pass", "timeout"} => d.conn # c
      /\ Total(RecvOf(c), EndedRecv(c)) = 0
  BY <1>1, <1>2, <1>3, UnknownIsNew DEF Known
<1>7. /\ PassedOnce' /\ SlotsAreLeft'
      /\ \A d : Known(d) => Known(d)'
      /\ \A i \in DOMAIN cq' : cq'[i].op = "shutdown" => i + 1 \in DOMAIN cq' /\ Ends(cq'[i + 1])
  BY <1>1, <1>2, TailKeeps
<1>8. Known(c)'
  <2>1. Num(cq, Passes(c)) \in {0, 1} /\ One(e, Passes(c)) = 1
    BY <1>2, <1>3 DEF PassedOnce, One
  <2>2. Num(cq', Passes(c)) = 0
    BY <1>5, <2>1
  <2>3. \A d \in Told' : d \notin Passes(c)
    BY <1>5, <2>2, NumType DEF Told
  <2> QED
    BY <1>2, <1>4, <2>3 DEF Known, Passes
<1>9. /\ r \in Named /\ r \in Request /\ r.conn = c /\ r.fd = f
      /\ \A d \in Conn : One(r, RecvOf(d)) = One(d, {c}) /\ One(r, CloserOf(d)) = 0
  <2>1. r \in Named /\ r \in Request /\ r.conn = c /\ r.fd = f
    BY <1>3, RequestsAre DEF Named, Request, Req
  <2>2. \A d \in Conn : One(r, RecvOf(d)) = One(d, {c}) /\ One(r, CloserOf(d)) = 0
    BY <1>3, RequestsAre
  <2> QED
    BY <2>1, <2>2
<1>10. /\ conns'.conn_map = conns.conn_map \cup {c} /\ conns'.closed = conns.closed
       /\ conns'.fd = [conns.fd EXCEPT ![c] = f] /\ conns'.websocket = conns.websocket
       /\ conns'.user_id = conns.user_id /\ conns'.timers = conns.timers \cup {<<c, "idle">>}
       /\ conns' \in Workers
       /\ user_map' = user_map /\ sq' = Append(sq, r) /\ issuing' = issuing /\ ended' = "no"
  <2> DEFINE n == [conns EXCEPT !.conn_map = @ \cup {c}, !.fd = [conns.fd EXCEPT ![c] = f]]
             w == [World EXCEPT !.conns = n]
             y == AddTimer(w, c, "idle")
             z == Prep(y, r)
  <2>1. conns \in Workers /\ conns.fd \in [Conn -> Fd \cup {NULL}]
    BY <1>1 DEF Types, TypeOK, Workers
  <2>2. [conns.fd EXCEPT ![c] = f] \in [Conn -> Fd \cup {NULL}]
    BY <1>3, <2>1
  <2>3. /\ n \in Workers /\ n.conn_map = conns.conn_map \cup {c} /\ n.closed = conns.closed
        /\ n.fd = [conns.fd EXCEPT ![c] = f] /\ n.websocket = conns.websocket
        /\ n.user_id = conns.user_id /\ n.timers = conns.timers
    BY <1>3, <2>1, <2>2 DEF Workers
  <2>4. w = [World EXCEPT !.conns.conn_map = @ \cup {c}, !.conns.fd[c] = f]
    BY <1>1, <2>1 DEF Worlds, Workers
  <2>5. Becomes(z)
    <3>1. Becomes(prep_recv(AddTimer([World EXCEPT !.conns.conn_map = @ \cup {c}, !.conns.fd[c] = f], c, "idle"), c, f))
      BY <1>3 DEF handle_fd_pass
    <3> HIDE DEF n, w
    <3> QED
      BY <2>4, <3>1 DEF prep_recv
  <2> HIDE DEF n
  <2>6. /\ w \in Worlds /\ w.conns = n /\ w.users = user_map /\ w.sq = sq /\ w.issuing = issuing /\ w.ended = "no"
    BY <1>1, <2>3 DEF Worlds
  <2> HIDE DEF w
  <2>7. /\ y \in Worlds /\ y.conns.timers = n.timers \cup {<<c, "idle">>}
        /\ y.conns.conn_map = n.conn_map /\ y.conns.closed = n.closed
        /\ y.conns.fd = n.fd /\ y.conns.websocket = n.websocket /\ y.conns.user_id = n.user_id
        /\ y.users = user_map /\ y.sq = sq /\ y.issuing = issuing /\ y.ended = "no"
    <3>1. "idle" \in {"idle", "pong"}
      OBVIOUS
    <3>2. /\ y \in Worlds /\ y.conns.timers = w.conns.timers \cup {<<c, "idle">>}
          /\ y.conns.conn_map = w.conns.conn_map /\ y.conns.closed = w.conns.closed
          /\ y.conns.fd = w.conns.fd /\ y.conns.websocket = w.conns.websocket
          /\ y.conns.user_id = w.conns.user_id
          /\ y.users = w.users /\ y.sq = w.sq /\ y.issuing = w.issuing /\ y.ended = w.ended
      BY <1>3, <2>6, <3>1, AddTimerIs
    <3> QED
      BY <2>6, <3>2
  <2> HIDE DEF y
  <2>8. /\ z \in Worlds /\ z.sq = Append(y.sq, r) /\ z.conns = y.conns /\ z.users = y.users
        /\ z.issuing = y.issuing /\ z.ended = y.ended
    BY <1>9, <2>7, PrepIs
  <2> HIDE DEF z
  <2>9. z.conns \in Workers
    BY <2>8 DEF Worlds
  <2> QED
    BY <2>3, <2>5, <2>7, <2>8, <2>9 DEF Becomes
<1>11. conns.fd \in [Conn -> Fd \cup {NULL}] /\ conns.websocket \cup conns.closed \subseteq conns.conn_map
  BY <1>1, <1>2 DEF Types, TypeOK, Workers, Orderly
<1>12. \A d \in Conn : d # c => conns'.fd[d] = conns.fd[d]
  BY <1>10, <1>11
<1>13. conns'.fd[c] = f
  BY <1>3, <1>10, <1>11
<1> HIDE <1>0
<1>14. \A d \in Conn : IsOpen(World, d)' /\ d # c => IsOpen(World, d)
  BY <1>10 DEF IsOpen, World
<1>15. /\ sq \in Seq(Request) /\ sq \in Seq(Named) /\ issuing \in Seq(Named)
       /\ requests \in Seq(Issued) /\ cq \in Seq(Completion)
  BY <1>1 DEF Types
<1>16. \A P : /\ sq' \in Seq(Request) /\ Num(sq', P) = Num(sq, P) + One(r, P)
              /\ ToSet(sq') = ToSet(sq) \cup {r}
  <2> SUFFICES ASSUME NEW P
               PROVE  /\ sq' \in Seq(Request) /\ Num(sq', P) = Num(sq, P) + One(r, P)
                      /\ ToSet(sq') = ToSet(sq) \cup {r}
    OBVIOUS
  <2>1. sq \in Seq(Request) /\ r \in Request /\ sq' = Append(sq, r)
    BY <1>9, <1>10, <1>15
  <2>2. /\ Append(sq, r) \in Seq(Request) /\ Num(Append(sq, r), P) = Num(sq, P) + One(r, P)
        /\ ToSet(Append(sq, r)) = ToSet(sq) \cup {r}
    BY <2>1, NumAppend
  <2> QED
    BY <2>1, <2>2
<1>17. sq' \in Seq(Named) /\ sq' \in Seq(Request) /\ Underway' = Underway \cup {r}
  BY <1>2, <1>9, <1>10, <1>15, <1>16, NumAppend DEF Underway
<1>18. Types'
  <2>1. \A d \in conns'.conn_map : conns'.fd[d] # NULL
    BY <1>1, <1>3, <1>10, <1>12, <1>13, NullConn DEF Types, TypeOK
  <2>2. \A t \in conns'.timers : t[1] \in conns'.conn_map
    BY <1>1, <1>10 DEF Types, TypeOK
  <2>3. TypeOK'
    BY <1>1, <1>2, <1>10, <2>1, <2>2 DEF Types, TypeOK
  <2> QED
    BY <1>2, <1>5, <1>10, <1>15, <1>17, <2>3 DEF Types, Endings
<1>19. \A d \in Conn : \A g : RightSlot(d, g) => RightSlot(d, g)'
  <2> SUFFICES ASSUME NEW d \in Conn, NEW g, RightSlot(d, g) PROVE RightSlot(d, g)'
    OBVIOUS
  <2>1. Known(d) /\ d # c
    BY <1>1, <1>3 DEF RightSlot, Known
  <2>2. Known(d)' /\ (d \in conns'.conn_map => g = conns'.fd[d])
    BY <1>7, <1>10, <1>12, <2>1 DEF RightSlot
  <2> QED
    BY <2>2 DEF RightSlot
<1>20. NamesRight'
  <2>1. \A d \in conns'.conn_map : Known(d)'
    BY <1>2, <1>7, <1>8, <1>10 DEF NamesRight
  <2>2. ASSUME NEW q \in Underway', q \in Named PROVE RightSlot(q.conn, q.fd)'
    <3>1. CASE q = r
      BY <1>8, <1>9, <1>13, <3>1 DEF RightSlot
    <3>2. CASE q \in Underway
      <4>1. q.conn \in Conn /\ RightSlot(q.conn, q.fd)
        BY <1>2, <2>2, <3>2 DEF NamesRight, Named, Plain, Chained
      <4> QED
        BY <1>19, <4>1
    <3> QED
      BY <1>17, <2>2, <3>1, <3>2
  <2>3. ASSUME NEW d \in Told', d.op \notin {"fd_pass", "timeout"} PROVE RightSlot(d.conn, d.fd)'
    <3>1. d \in Told /\ d.conn \in Conn
      BY <1>5, <2>3 DEF Completion, Cqes
    <3> QED
      BY <1>2, <1>19, <2>3, <3>1 DEF NamesRight
  <2> QED
    BY <2>1, <2>2, <2>3 DEF NamesRight
<1>21. OwnSockets'
  <2> SUFFICES ASSUME NEW x \in ToSet(requests), IsOpen(World, x.req.conn)', x.req.op \in {"recv", "send"}
               PROVE  x.socket = x.req.conn
    BY <1>2 DEF OwnSockets
  <2>1. x \in Issued /\ x.req \in Underway
    BY <1>15 DEF ToSet, Underway
  <2>2. x.req \in Named /\ x.req.conn \in Conn
    BY <2>1 DEF Issued, Named, Plain, Chained
  <2>3. x.req.conn # c
    BY <1>6, <2>1, <2>2
  <2> QED
    BY <1>2, <1>14, <2>2, <2>3 DEF OwnSockets
<1>22. CanceledAreClosed'
  <2> SUFFICES ASSUME NEW d \in Told', d.op = "recv" /\ d.res = "canceled" PROVE ~IsOpen(World, d.conn)'
    BY DEF CanceledAreClosed
  <2>1. d \in Told /\ d.conn \in Conn /\ d.conn # c
    BY <1>5, <1>6 DEF Completion, Cqes
  <2> QED
    BY <1>2, <1>14, <2>1 DEF CanceledAreClosed
<1>23. SlotsAreOwned'
  <2>1. ASSUME NEW g \in Fd, files[g] # NULL
        PROVE  \/ files[g] \in conns'.conn_map /\ conns'.fd[files[g]] = g
               \/ \E d \in Told' : d \in Passes(files[g]) /\ d.res = "done" /\ d.fd = g
    <3>1. CASE files[g] \in conns.conn_map /\ conns.fd[files[g]] = g
      BY <1>1, <1>6, <1>10, <1>12, <3>1
    <3>2. CASE \E d \in Told : d \in Passes(files[g]) /\ d.res = "done" /\ d.fd = g
      <4>1. PICK d \in Told : d \in Passes(files[g]) /\ d.res = "done" /\ d.fd = g
        BY <3>2
      <4>2. CASE d = e
        BY <1>0, <1>10, <1>13, <4>1, <4>2 DEF Passes
      <4>3. CASE d # e
        BY <1>5, <4>1, <4>3
      <4> QED
        BY <4>2, <4>3
    <3> QED
      BY <1>1, <2>1, <3>1, <3>2 DEF SlotsAreOwned
  <2>2. ASSUME NEW d \in conns'.conn_map
        PROVE  \/ files[conns'.fd[d]] = d
               \/ \E k \in Told' : k.op = "close" /\ k.conn = d /\ k.res = "done"
    <3>1. CASE d = c
      BY <1>4, <1>13, <3>1
    <3>2. CASE d # c
      <4>1. d \in conns.conn_map /\ conns'.fd[d] = conns.fd[d]
        BY <1>1, <1>10, <1>12, <3>2
      <4>2. \A k \in Told : k.op = "close" => k \in Told'
        BY <1>1, <1>5
      <4> QED
        BY <1>1, <4>1, <4>2 DEF SlotsAreOwned
    <3> QED
      BY <3>1, <3>2
  <2> QED
    BY <1>2, <2>1, <2>2 DEF SlotsAreOwned, Passes
<1>24. NamelessEnds'
  BY <1>7, <1>17 DEF NamelessEnds, Ends
<1>25. \A A, B : /\ One(e, B) = 0 => Total(A, B)' = Total(A, B) + One(r, A)
                 /\ Total(A, B) \in Nat
  <2> SUFFICES ASSUME NEW A, NEW B
               PROVE  /\ One(e, B) = 0 => Total(A, B)' = Total(A, B) + One(r, A)
                      /\ Total(A, B) \in Nat
    OBVIOUS
  <2>1. Num(sq', A) = Num(sq, A) + One(r, A) /\ One(r, A) \in Nat
    BY <1>16 DEF One
  <2>2. Num(cq, B) = One(e, B) + Num(cq', B)
    BY <1>5
  <2>3. /\ Num(sq, A) \in Nat /\ Num(issuing, A) \in Nat /\ Num(requests, IssuedOf(A)) \in Nat
        /\ Num(cq', B) \in Nat /\ Num(cq, B) \in Nat
    BY <1>5, <1>15, NumType
  <2>4. Total(A, B)' = Num(sq', A) + Num(issuing, A) + Num(requests, IssuedOf(A)) + Num(cq', B)
    BY <1>2, <1>10 DEF Total
  <2>5. Total(A, B) = Num(sq, A) + Num(issuing, A) + Num(requests, IssuedOf(A)) + Num(cq, B)
    BY DEF Total
  <2> QED
    BY <2>1, <2>2, <2>3, <2>4, <2>5
<1>26. Listening'
  <2> SUFFICES ASSUME NEW d \in conns'.conn_map \ conns'.closed
               PROVE  Total(RecvOf(d), EndedRecv(d))' = 1
    BY DEF Listening, RecvOf, EndedRecv
  <2>1. d \in Conn /\ One(e, EndedRecv(d)) = 0 /\ (d # c => d \in conns.conn_map \ conns.closed)
    BY <1>1, <1>3, <1>10 DEF EndedRecv, One
  <2>2. One(r, RecvOf(d)) = IF d = c THEN 1 ELSE 0
    BY <1>9, <2>1 DEF One
  <2>3. /\ Total(RecvOf(d), EndedRecv(d))' = Total(RecvOf(d), EndedRecv(d)) + One(r, RecvOf(d))
        /\ Total(RecvOf(d), EndedRecv(d)) \in Nat
    BY <1>25, <2>1
  <2>4. Total(RecvOf(d), EndedRecv(d)) = IF d = c THEN 0 ELSE 1
    BY <1>2, <1>6, <2>1 DEF Listening
  <2> QED
    BY <2>2, <2>3, <2>4
<1>27. Closing'
  <2> SUFFICES ASSUME NEW d \in Conn
               PROVE  Total(CloserOf(d), ClosingCqe(d))' = IF d \in conns.closed THEN 1 ELSE 0
    BY <1>10 DEF Closing, CloserOf, ClosingCqe
  <2>1. One(e, ClosingCqe(d)) = 0
    BY <1>1 DEF ClosingCqe, One
  <2>2. /\ Total(CloserOf(d), ClosingCqe(d))' = Total(CloserOf(d), ClosingCqe(d)) + 0
        /\ Total(CloserOf(d), ClosingCqe(d)) \in Nat
    BY <1>9, <1>25, <2>1
  <2>3. Total(CloserOf(d), ClosingCqe(d)) = IF d \in conns.closed THEN 1 ELSE 0
    BY <1>2 DEF Closing
  <2> QED
    BY <2>2, <2>3
<1>28. Orderly(World, NULL)'
  <2>1. conns.user_id[c] = NoUser
    BY <1>1, <1>2, <1>3, <1>6 DEF Orderly
  <2>2. \A d \in Conn : d # c => (IsOpen(World, d)' <=> IsOpen(World, d))
    BY <1>10 DEF IsOpen, World
  <2>3. \A u \in User \ {NoUser} : user_map[u] # NULL => IsOpen(World, user_map[u]) /\ conns.user_id[user_map[u]] = u
    BY <1>1, <1>2 DEF Orderly
  <2>4. \A d \in Conn : IsOpen(World, d) /\ conns.user_id[d] # NoUser => user_map[conns.user_id[d]] = d
    BY <1>1, <1>2 DEF Orderly
  <2>5. \A d \in Conn : d \notin conns.conn_map \/ (IsOpen(World, d) /\ d \notin conns.websocket) =>
          conns.user_id[d] = NoUser
    BY <1>1, <1>2, NullConn DEF Orderly
  <2>6. user_map \in [User -> Conn \cup {NULL}]
    BY <1>1 DEF Types, TypeOK
  <2>7. \A u \in User \ {NoUser} : user_map[u] # NULL =>
          user_map[u] \in Conn /\ user_map[u] # c /\ IsOpen(World, user_map[u])' /\ conns.user_id[user_map[u]] = u
    BY <1>10, <2>1, <2>2, <2>3, <2>6
  <2>8. \A d \in Conn : IsOpen(World, d)' /\ conns.user_id[d] # NoUser => user_map[conns.user_id[d]] = d
    BY <2>1, <2>2, <2>4
  <2>9. \A d \in Conn : d \notin conns'.conn_map \/ (IsOpen(World, d)' /\ d \notin conns.websocket) =>
          conns.user_id[d] = NoUser
    BY <1>10, <2>1, <2>2, <2>5
  <2>10. conns'.closed \cup conns'.websocket \subseteq conns'.conn_map
    BY <1>10, <1>11
  <2> QED
    BY <1>10, <2>7, <2>8, <2>9, <2>10 DEF Orderly, World, IsOpen
<1> QED
  BY <1>7, <1>18, <1>20, <1>21, <1>22, <1>23, <1>24, <1>26, <1>27, <1>28 DEF IInv, Sound

(* A connection is deleted when its close has completed: it was closed, no *)
(* slot has its socket any more, and this was its only step of closing.    *)
LEMMA DeleteKeeps ==
  ASSUME IInv, handle_close, Head(cq).res = "done"
  PROVE  IInv'
<1>0. PICK e, c : e = Head(cq) /\ c = e.conn
  OBVIOUS
<1> USE <1>0
<1>1. /\ Types /\ SlotsAreOwned /\ Sound /\ Running
      /\ cq # <<>> /\ cq' = Tail(cq) /\ UNCHANGED kernel
      /\ e \in Completion /\ e \in Told /\ e.op = "close" /\ e.res = "done"
      /\ World \in Worlds /\ World.conns = conns /\ World.users = user_map
      /\ World.sq = sq /\ World.issuing = issuing /\ World.ended = "no"
      /\ conns.conn_map \subseteq Conn
  BY HandlerStarts DEF handle_close
<1>2. /\ UNCHANGED <<requests, files, peer, shut>>
      /\ NamesRight /\ PassedOnce /\ OwnSockets /\ CanceledAreClosed /\ SlotsAreLeft
      /\ NamelessEnds /\ Listening /\ Closing /\ Orderly(World, NULL)
  BY <1>1 DEF kernel, Sound
<1>3. c \in Conn
  BY <1>1 DEF Completion, Cqes
<1>4. /\ cq' \in Seq(Completion)
      /\ Told' \subseteq Told /\ Told \subseteq Told' \cup {e} /\ Told \subseteq Completion
      /\ \A P : Num(cq, P) = One(e, P) + Num(cq', P)
      /\ \A P : Num(cq', P) \in Nat
  BY <1>1, TailIs
<1>5. sq \in Seq(Named)
  BY <1>1, <1>2 DEF NamelessEnds, Ends
<1>6. /\ conns'.conn_map = conns.conn_map \ {c} /\ conns'.closed = conns.closed \ {c}
      /\ conns'.fd = [conns.fd EXCEPT ![c] = NULL] /\ conns'.websocket = conns.websocket \ {c}
      /\ conns'.user_id = [conns.user_id EXCEPT ![c] = NoUser]
      /\ conns'.timers = {t \in conns.timers : t[1] # c}
      /\ conns' \in Workers
      /\ user_map' = user_map /\ sq' = sq /\ issuing' = issuing /\ ended' = "no"
  <2> DEFINE y == Deleted(World, c)
  <2>1. Becomes(y)
    BY <1>1 DEF handle_close
  <2>2. /\ y \in Worlds
        /\ y.conns.conn_map = World.conns.conn_map \ {c} /\ y.conns.closed = World.conns.closed \ {c}
        /\ y.conns.fd = [World.conns.fd EXCEPT ![c] = NULL]
        /\ y.conns.timers = {t \in World.conns.timers : t[1] # c}
        /\ y.conns.websocket = World.conns.websocket \ {c}
        /\ y.conns.user_id = [World.conns.user_id EXCEPT ![c] = NoUser]
        /\ y.users = World.users /\ y.sq = World.sq /\ y.issuing = World.issuing /\ y.ended = World.ended
    BY <1>1, <1>3, DeletedIs
  <2> HIDE DEF y
  <2>3. y.conns \in Workers
    BY <2>2 DEF Worlds
  <2> QED
    BY <1>1, <2>1, <2>2, <2>3 DEF Becomes
<1> HIDE <1>0
<1>7. /\ conns.fd \in [Conn -> Fd \cup {NULL}] /\ conns.user_id \in [Conn -> User]
      /\ conns.websocket \cup conns.closed \subseteq conns.conn_map
  BY <1>1, <1>2 DEF Types, TypeOK, Workers, Orderly
<1>8. \A d \in Conn : d # c => conns'.fd[d] = conns.fd[d] /\ conns'.user_id[d] = conns.user_id[d]
  BY <1>6, <1>7
<1>9. conns'.user_id[c] = NoUser
  BY <1>3, <1>6, <1>7
<1>10. \A d \in Conn : IsOpen(World, d)' <=> IsOpen(World, d) /\ d # c
  BY <1>6 DEF IsOpen, World
<1>11. Types'
  <2>1. \A d \in conns'.conn_map : conns'.fd[d] # NULL
    BY <1>1, <1>6, <1>8 DEF Types, TypeOK
  <2>2. \A t \in conns'.timers : t[1] \in conns'.conn_map
    BY <1>1, <1>6 DEF Types, TypeOK
  <2>3. TypeOK'
    BY <1>1, <1>2, <1>6, <2>1, <2>2 DEF Types, TypeOK
  <2> QED
    BY <1>1, <1>2, <1>4, <1>6, <2>3 DEF Types, Endings
<1>12. /\ NamesRight' /\ PassedOnce' /\ OwnSockets' /\ CanceledAreClosed' /\ SlotsAreLeft'
  <2>1. Underway' = Underway
    BY <1>2, <1>6 DEF Underway
  <2>2. \A d \in conns'.conn_map : /\ d \in conns.conn_map /\ conns'.fd[d] = conns.fd[d]
                                   /\ d \in conns.closed => d \in conns'.closed
    BY <1>1, <1>6, <1>8
  <2> QED
    BY <1>1, <1>2, <1>6, <2>1, <2>2, HandlerFrame
<1>13. NamelessEnds'
  BY <1>1, <1>2, <1>5, <1>6, TailKeeps DEF NamelessEnds, Ends
<1>14. SlotsAreOwned'
  <2>1. \A g \in Fd : files[g] # c
    BY <1>0, <1>1, <1>2 DEF SlotsAreLeft
  <2>2. \A g \in Fd : files[g] # NULL =>
          \/ files[g] \in conns'.conn_map /\ conns'.fd[files[g]] = g
          \/ \E d \in Told' : d \in Passes(files[g]) /\ d.res = "done" /\ d.fd = g
    <3> SUFFICES ASSUME NEW g \in Fd, files[g] # NULL
                 PROVE  \/ files[g] \in conns'.conn_map /\ conns'.fd[files[g]] = g
                        \/ \E d \in Told' : d \in Passes(files[g]) /\ d.res = "done" /\ d.fd = g
      OBVIOUS
    <3>1. CASE files[g] \in conns.conn_map /\ conns.fd[files[g]] = g
      BY <1>1, <1>6, <1>8, <2>1, <3>1
    <3>2. CASE \E d \in Told : d \in Passes(files[g]) /\ d.res = "done" /\ d.fd = g
      BY <1>1, <1>4, <3>2 DEF Passes
    <3> QED
      BY <1>1, <3>1, <3>2 DEF SlotsAreOwned
  <2>3. \A d \in conns'.conn_map :
          \/ files[conns'.fd[d]] = d
          \/ \E k \in Told' : k.op = "close" /\ k.conn = d /\ k.res = "done"
    <3> SUFFICES ASSUME NEW d \in conns'.conn_map
                 PROVE  \/ files[conns'.fd[d]] = d
                        \/ \E k \in Told' : k.op = "close" /\ k.conn = d /\ k.res = "done"
      OBVIOUS
    <3>1. d \in conns.conn_map /\ d # c /\ conns'.fd[d] = conns.fd[d]
      BY <1>1, <1>6, <1>8
    <3>2. \A k \in Told : k.conn # c => k \in Told'
      BY <1>0, <1>4
    <3> QED
      BY <1>1, <3>1, <3>2 DEF SlotsAreOwned
  <2> QED
    BY <1>2, <2>2, <2>3 DEF SlotsAreOwned, Passes
<1>15. \A A, B : /\ Total(A, B) = Total(A, B)' + One(e, B)
                 /\ Total(A, B)' \in Nat /\ One(e, B) \in Nat
  <2> SUFFICES ASSUME NEW A, NEW B
               PROVE  /\ Total(A, B) = Total(A, B)' + One(e, B)
                      /\ Total(A, B)' \in Nat /\ One(e, B) \in Nat
    OBVIOUS
  <2>1. /\ sq \in Seq(Request) /\ issuing \in Seq(Named) /\ requests \in Seq(Issued) /\ cq \in Seq(Completion)
    BY <1>1 DEF Types
  <2>2. Num(cq, B) = One(e, B) + Num(cq', B)
    BY <1>4
  <2>3. /\ Num(sq, A) \in Nat /\ Num(issuing, A) \in Nat /\ Num(requests, IssuedOf(A)) \in Nat
        /\ Num(cq', B) \in Nat /\ One(e, B) \in Nat
    BY <1>4, <2>1, NumType DEF One
  <2>4. Total(A, B)' = Num(sq, A) + Num(issuing, A) + Num(requests, IssuedOf(A)) + Num(cq', B)
    BY <1>2, <1>6 DEF Total
  <2>5. Total(A, B) = Num(sq, A) + Num(issuing, A) + Num(requests, IssuedOf(A)) + Num(cq, B)
    BY DEF Total
  <2> QED
    BY <2>2, <2>3, <2>4, <2>5
<1>16. Listening'
  <2> SUFFICES ASSUME NEW d \in conns'.conn_map \ conns'.closed
               PROVE  Total(RecvOf(d), EndedRecv(d))' = 1
    BY DEF Listening, RecvOf, EndedRecv
  <2>1. d \in conns.conn_map \ conns.closed /\ One(e, EndedRecv(d)) = 0
    BY <1>1, <1>6 DEF EndedRecv, One
  <2>2. Total(RecvOf(d), EndedRecv(d)) = 1
    BY <1>2, <2>1 DEF Listening
  <2>3. /\ Total(RecvOf(d), EndedRecv(d)) = Total(RecvOf(d), EndedRecv(d))' + One(e, EndedRecv(d))
        /\ Total(RecvOf(d), EndedRecv(d))' \in Nat
    BY <1>15
  <2> QED
    BY <2>1, <2>2, <2>3
<1>17. Closing'
  <2> SUFFICES ASSUME NEW d \in Conn
               PROVE  Total(CloserOf(d), ClosingCqe(d))' = IF d \in conns.closed \ {c} THEN 1 ELSE 0
    BY <1>6 DEF Closing, CloserOf, ClosingCqe
  <2>1. One(e, ClosingCqe(d)) = IF d = c THEN 1 ELSE 0
    BY <1>0, <1>1 DEF ClosingCqe, One
  <2>2. /\ Total(CloserOf(d), ClosingCqe(d)) = Total(CloserOf(d), ClosingCqe(d))' + One(e, ClosingCqe(d))
        /\ Total(CloserOf(d), ClosingCqe(d))' \in Nat
    BY <1>15
  <2>3. Total(CloserOf(d), ClosingCqe(d)) = IF d \in conns.closed THEN 1 ELSE 0
    BY <1>2 DEF Closing
  <2> QED
    BY <2>1, <2>2, <2>3
<1>18. c \in conns.closed
  <2>1. One(e, ClosingCqe(c)) = 1
    BY <1>0, <1>1 DEF ClosingCqe, One
  <2>2. /\ Total(CloserOf(c), ClosingCqe(c)) = Total(CloserOf(c), ClosingCqe(c))' + One(e, ClosingCqe(c))
        /\ Total(CloserOf(c), ClosingCqe(c))' \in Nat
    BY <1>15
  <2>3. Total(CloserOf(c), ClosingCqe(c)) = IF c \in conns.closed THEN 1 ELSE 0
    BY <1>2, <1>3 DEF Closing
  <2> QED
    BY <2>1, <2>2, <2>3
<1>19. Orderly(World, NULL)'
  <2>1. \A d \in Conn : IsOpen(World, d)' <=> IsOpen(World, d)
    BY <1>1, <1>10, <1>18 DEF IsOpen
  <2>2. \A d \in Conn : IsOpen(World, d) => d # c
    BY <1>1, <1>18 DEF IsOpen
  <2>3. user_map \in [User -> Conn \cup {NULL}] /\ user_map' = user_map
    BY <1>1, <1>6 DEF Types, TypeOK
  <2>4. \A u \in User \ {NoUser} : user_map[u] # NULL =>
          user_map[u] \in Conn /\ IsOpen(World, user_map[u]) /\ conns'.user_id[user_map[u]] = u
    <3>1. \A u \in User \ {NoUser} : user_map[u] # NULL =>
            IsOpen(World, user_map[u]) /\ conns.user_id[user_map[u]] = u
      BY <1>1, <1>2 DEF Orderly
    <3> QED
      BY <1>8, <2>2, <2>3, <3>1
  <2>5. \A d \in Conn : IsOpen(World, d) /\ conns'.user_id[d] # NoUser => user_map[conns'.user_id[d]] = d
    <3>1. \A d \in Conn : IsOpen(World, d) /\ conns.user_id[d] # NoUser => user_map[conns.user_id[d]] = d
      BY <1>1, <1>2 DEF Orderly
    <3> QED
      BY <1>8, <2>2, <3>1
  <2>6. \A d \in Conn : d \notin conns'.conn_map \/ (IsOpen(World, d) /\ d \notin conns'.websocket) =>
          conns'.user_id[d] = NoUser
    <3>1. \A d \in Conn : d \notin conns.conn_map \/ (IsOpen(World, d) /\ d \notin conns.websocket) =>
            conns.user_id[d] = NoUser
      BY <1>1, <1>2, NullConn DEF Orderly
    <3> QED
      BY <1>6, <1>8, <1>9, <2>2, <3>1
  <2>7. conns'.closed \cup conns'.websocket \subseteq conns'.conn_map
    BY <1>6, <1>7
  <2>8. \A d \in Conn : IsOpen(World, d) <=> d \in conns'.conn_map /\ d \notin conns'.closed
    BY <2>1 DEF IsOpen, World
  <2> QED
    BY <2>3, <2>4, <2>5, <2>6, <2>7, <2>8 DEF Orderly, World, IsOpen
<1> QED
  BY <1>11, <1>12, <1>13, <1>14, <1>16, <1>17, <1>19 DEF IInv, Sound

(* The handlers all keep the invariant. *)
LEMMA HandlersKeep ==
  ASSUME IInv, EventHandler
  PROVE  IInv'
<1>1. CASE handle_fd_pass /\ Head(cq).res = "nfile"
  <2> DEFINE e == Head(cq)
  <2>1. /\ Types /\ SlotsAreOwned /\ Sound /\ Running
        /\ cq # <<>> /\ cq' = Tail(cq) /\ UNCHANGED kernel
        /\ e \in Completion /\ e.op = "fd_pass" /\ World.sq = sq /\ sq \in Seq(Named)
    BY <1>1, HandlerStarts DEF handle_fd_pass
  <2>2. Turn(World, {}, {}, NULL)
    BY <2>1, TurnNothing
  <2>3. Becomes(World)
    BY <1>1 DEF handle_fd_pass
  <2>4. /\ \A d \in Conn : One(e, ClosingCqe(d)) = One(d, {})
        /\ \A d : One(e, EndedRecv(d)) = One(d, {})
    BY <2>1 DEF One, ClosingCqe, EndedRecv
  <2>5. e.res # "done"
    BY <1>1
  <2> HIDE DEF e
  <2> QED
    BY <2>1, <2>2, <2>3, <2>4, <2>5, TurnKeeps DEF e
<1>2. CASE handle_fd_pass /\ Head(cq).res # "nfile"
  BY <1>2, AcceptKeeps
<1>3. CASE handle_close /\ Head(cq).res # "done"
  <2>1. /\ Types /\ SlotsAreOwned /\ Sound /\ Running
        /\ cq # <<>> /\ cq' = Tail(cq) /\ UNCHANGED kernel
        /\ Head(cq).op = "close" /\ World \in Worlds /\ World.conns = conns /\ World.users = user_map
        /\ World.sq = sq /\ World.issuing = issuing
    BY <1>3, HandlerStarts DEF handle_close
  <2>2. PICK why \in {"close_error", "close_canceled"} : Becomes(Ending(why))
    BY <1>3 DEF handle_close
  <2>3. /\ Ending(why) \in Worlds /\ Ending(why).ended = why /\ Ending(why).conns = conns
        /\ Ending(why).users = user_map /\ Ending(why).sq = sq /\ Ending(why).issuing = issuing
    BY <2>1 DEF Ending, Worlds, Endings
  <2> QED
    BY <1>3, <2>1, <2>2, <2>3, EndKeeps
<1>4. CASE handle_close /\ Head(cq).res = "done"
  BY <1>4, DeleteKeeps
<1> QED
  BY <1>1, <1>2, <1>3, <1>4, RecvKeeps, SendKeeps, CancelKeeps, ShutdownKeeps, TimeoutKeeps DEF EventHandler
-------------------------------------------------------------------------
(* The steps of the kernel.  A request becomes completions, and perhaps    *)
(* the request behind it, that count as much as it did.                    *)
Results == {"done", "error", "canceled", "data", "nobufs", "end"}
Balanced(A, B) ==
  /\ \A r \in Named :
       /\ \A res \in Results :
            One(Cqe(r, res, FALSE), B) + (IF r.link = NULL THEN 0 ELSE One(r.link, A)) = One(r, A)
       /\ One(Cqe(r, "data", TRUE), B) = 0
       /\ r.op = "shutdown" => One(r.link, A) = One(r, A)
  /\ \A e \in B : e.op \notin {"timeout", "fd_pass"}

(* A completion of a request, field by field. *)
LEMMA CqeIs ==
  ASSUME NEW r \in Named, NEW res \in Results, NEW more \in BOOLEAN
  PROVE  LET x == Cqe(r, res, more)
         IN /\ (more => r.op = "recv" /\ res = "data") => x \in Completion
            /\ x.op = r.op /\ x.conn = r.conn /\ x.fd = r.fd /\ x.res = res /\ x.more = more
            /\ r.op \in {"recv", "send", "cancel", "close", "shutdown"} /\ r.conn \in Conn /\ r.fd \in Fd
<1> DEFINE x == Cqe(r, res, more)
<1>1. r.op \in {"recv", "send", "cancel", "close", "shutdown"} /\ r.conn \in Conn /\ r.fd \in Fd
  BY DEF Named, Plain, Chained
<1>2. x.op = r.op /\ x.conn = r.conn /\ x.fd = r.fd /\ x.res = res /\ x.more = more
  BY DEF Cqe
<1>3. x \in Cqes
  BY <1>1 DEF Cqe, Cqes, Results
<1> HIDE DEF x
<1>4. (more => r.op = "recv" /\ res = "data") => x \in Completion
  BY <1>1, <1>2, <1>3 DEF Completion
<1> QED
  BY <1>1, <1>2, <1>4 DEF x

(* The request behind another. *)
LEMMA LinkIs ==
  ASSUME NEW r \in Named, r.link # NULL
  PROVE  /\ r.link \in Plain /\ r.link \in Named /\ r.link.link = NULL
         /\ r.link.conn = r.conn /\ r.link.fd = r.fd
         /\ <<r.op, r.link.op>> \in {<<"send", "cancel">>, <<"shutdown", "close">>}
<1>1. r \in Request /\ r \in Chained
  BY LinksAre DEF Request
<1>2. r.link \in Plain /\ r.link = Req(Behind(r.op), r.conn, r.fd) /\ r.op \in {"send", "shutdown"}
  BY <1>1, LinksAre DEF Chained
<1>3. /\ r.link.op = Behind(r.op) /\ r.link.conn = r.conn /\ r.link.fd = r.fd /\ r.link.link = NULL
  BY <1>2 DEF Req
<1> QED
  BY <1>2, <1>3 DEF Behind, Named

(* A completion that ends a receive stands for it. *)
LEMMA ReceivesBalance == \A c \in Conn : Balanced(RecvOf(c), EndedRecv(c))
<1> SUFFICES ASSUME NEW c \in Conn, NEW r \in Named
             PROVE  /\ \A res \in Results :
                         One(Cqe(r, res, FALSE), EndedRecv(c))
                           + (IF r.link = NULL THEN 0 ELSE One(r.link, RecvOf(c))) = One(r, RecvOf(c))
                    /\ One(Cqe(r, "data", TRUE), EndedRecv(c)) = 0
                    /\ r.op = "shutdown" => One(r.link, RecvOf(c)) = One(r, RecvOf(c))
  BY DEF Balanced, EndedRecv
<1>1. r \in Request
  BY DEF Request
<1>2. One(Cqe(r, "data", TRUE), EndedRecv(c)) = 0
  BY DEF Cqe, EndedRecv, One
<1>3. ASSUME NEW res \in Results
      PROVE  One(Cqe(r, res, FALSE), EndedRecv(c))
               + (IF r.link = NULL THEN 0 ELSE One(r.link, RecvOf(c))) = One(r, RecvOf(c))
  <2> DEFINE x == Cqe(r, res, FALSE)
  <2>0. res \in Results
    BY <1>3
  <2>1. x \in Completion /\ x.op = r.op /\ x.conn = r.conn /\ x.more = FALSE
    BY <2>0, CqeIs
  <2> HIDE DEF x
  <2>2. One(x, EndedRecv(c)) = IF r.op = "recv" /\ r.conn = c THEN 1 ELSE 0
    BY <2>1 DEF One, EndedRecv
  <2>3. One(r, RecvOf(c)) = IF r.op = "recv" /\ r.conn = c THEN 1 ELSE 0
    BY <1>1 DEF One, RecvOf
  <2>4. r.link # NULL => One(r.link, RecvOf(c)) = 0
    BY LinkIs DEF One, RecvOf
  <2>5. One(x, EndedRecv(c)) + (IF r.link = NULL THEN 0 ELSE One(r.link, RecvOf(c))) = One(r, RecvOf(c))
    BY <2>2, <2>3, <2>4
  <2> QED
    BY <2>5 DEF x
<1>4. ASSUME r.op = "shutdown" PROVE One(r.link, RecvOf(c)) = One(r, RecvOf(c))
  <2>1. r.link # NULL
    BY <1>1, <1>4, LinksAre DEF Named, Plain
  <2>2. One(r.link, RecvOf(c)) = 0
    BY <2>1, LinkIs DEF One, RecvOf
  <2> QED
    BY <1>4, <2>2 DEF One, RecvOf
<1> QED
  BY <1>2, <1>3, <1>4

(* A completion of a step of closing, or the step behind it, stands for it. *)
LEMMA ClosersBalance == \A c \in Conn : Balanced(CloserOf(c), ClosingCqe(c))
<1> SUFFICES ASSUME NEW c \in Conn, NEW r \in Named
             PROVE  /\ \A res \in Results :
                         One(Cqe(r, res, FALSE), ClosingCqe(c))
                           + (IF r.link = NULL THEN 0 ELSE One(r.link, CloserOf(c))) = One(r, CloserOf(c))
                    /\ One(Cqe(r, "data", TRUE), ClosingCqe(c)) = 0
                    /\ r.op = "shutdown" => One(r.link, CloserOf(c)) = One(r, CloserOf(c))
  BY DEF Balanced, ClosingCqe
<1>1. r \in Request
  BY DEF Request
<1>2. One(Cqe(r, "data", TRUE), ClosingCqe(c)) = 0
  <2> DEFINE x == Cqe(r, "data", TRUE)
  <2>1. x.more = TRUE
    BY DEF Cqe
  <2> HIDE DEF x
  <2>2. x \notin ClosingCqe(c)
    BY <2>1 DEF ClosingCqe, Completion, Cqes
  <2>3. One(x, ClosingCqe(c)) = 0
    BY <2>2 DEF One
  <2> QED
    BY <2>3 DEF x
<1>3. ASSUME NEW res \in Results
      PROVE  One(Cqe(r, res, FALSE), ClosingCqe(c))
               + (IF r.link = NULL THEN 0 ELSE One(r.link, CloserOf(c))) = One(r, CloserOf(c))
  <2> DEFINE x == Cqe(r, res, FALSE)
             b == IF r.link = NULL THEN 0 ELSE One(r.link, CloserOf(c))
  <2>0. res \in Results
    BY <1>3
  <2>1. x \in Completion /\ x.op = r.op /\ x.conn = r.conn
    BY <2>0, CqeIs
  <2> HIDE DEF x
  <2>2. One(x, ClosingCqe(c)) = IF r.op \in {"cancel", "close"} /\ r.conn = c THEN 1 ELSE 0
    BY <2>1 DEF One, ClosingCqe
  <2>3. One(r, CloserOf(c)) = IF r.conn = c /\ (r.op \in Closers \/ (r.op = "send" /\ r.link # NULL)) THEN 1 ELSE 0
    BY <1>1 DEF One, CloserOf
  <2>4. CASE r.link # NULL
    <3>1. r.link \in Named /\ r.link.conn = r.conn /\ <<r.op, r.link.op>> \in {<<"send", "cancel">>, <<"shutdown", "close">>}
      BY <2>4, LinkIs
    <3>2. r.link \in Request /\ r.link.op \in {"cancel", "close"} /\ r.op \in {"send", "shutdown"}
      BY <3>1 DEF Request
    <3>3. One(r.link, CloserOf(c)) = IF r.conn = c THEN 1 ELSE 0
      BY <3>1, <3>2 DEF One, CloserOf, Closers
    <3>4. b = IF r.conn = c THEN 1 ELSE 0
      BY <2>4, <3>3
    <3>5. One(x, ClosingCqe(c)) = 0
      BY <2>2, <3>2
    <3>6. One(r, CloserOf(c)) = IF r.conn = c THEN 1 ELSE 0
      BY <2>3, <2>4, <3>2 DEF Closers
    <3> HIDE DEF b
    <3>7. One(x, ClosingCqe(c)) + b = One(r, CloserOf(c))
      BY <3>4, <3>5, <3>6
    <3> QED
      BY <3>7 DEF b, x
  <2>5. CASE r.link = NULL
    <3>1. r \in Plain
      BY <1>1, <2>5, LinksAre DEF Named
    <3>2. r.op # "shutdown"
      BY <3>1 DEF Plain
    <3>3. b = 0
      BY <2>5
    <3> HIDE DEF b
    <3>4. One(x, ClosingCqe(c)) + b = One(r, CloserOf(c))
      BY <2>2, <2>3, <2>5, <3>2, <3>3 DEF Closers
    <3> QED
      BY <3>4 DEF b, x
  <2> QED
    BY <2>4, <2>5
<1>4. ASSUME r.op = "shutdown" PROVE One(r.link, CloserOf(c)) = One(r, CloserOf(c))
  <2>1. r.link # NULL
    BY <1>1, <1>4, LinksAre DEF Named, Plain
  <2>2. r.link \in Request /\ r.link.conn = r.conn /\ r.link.op = "close"
    BY <1>4, <2>1, LinkIs DEF Request
  <2>3. One(r.link, CloserOf(c)) = IF r.conn = c THEN 1 ELSE 0
    BY <2>2 DEF One, CloserOf, Closers
  <2>4. One(r, CloserOf(c)) = IF r.conn = c THEN 1 ELSE 0
    BY <1>1, <1>4 DEF One, CloserOf, Closers
  <2> QED
    BY <2>3, <2>4
<1> QED
  BY <1>2, <1>3, <1>4

(* A shutdown that failed is followed by the cancelation of its close. *)
Paired(s) == \A i \in DOMAIN s : s[i].op = "shutdown" => i + 1 \in DOMAIN s /\ Ends(s[i + 1])

(* Completions that are added to others. *)
LEMMA ConcatIs ==
  ASSUME NEW s \in Seq(Completion), NEW t \in Seq(Completion)
  PROVE  /\ s \o t \in Seq(Completion)
         /\ ToSet(s \o t) = ToSet(s) \cup ToSet(t)
         /\ \A P : /\ Num(s \o t, P) = Num(s, P) + Num(t, P)
                   /\ Num(s, P) \in Nat /\ Num(t, P) \in Nat
                   /\ Num(t, P) = 0 <=> \A x \in ToSet(t) : x \notin P
<1>1. \A P : /\ s \o t \in Seq(Completion)
             /\ ToSet(s \o t) = ToSet(s) \cup ToSet(t)
             /\ Num(s \o t, P) = Num(s, P) + Num(t, P)
  BY NumConcat
<1>2. \A P : Num(s, P) \in Nat /\ Num(t, P) \in Nat /\ (Num(t, P) = 0 <=> \A x \in ToSet(t) : x \notin P)
  BY NumType
<1> QED
  BY <1>1, <1>2

(* Two queues in which each shutdown has its close behind it, one after  *)
(* the other, are such a queue.                                          *)
LEMMA PairedConcat ==
  ASSUME NEW s \in Seq(Completion), NEW t \in Seq(Completion), Paired(s), Paired(t)
  PROVE  Paired(s \o t)
<1> DEFINE l == Len(s)
           m == Len(t)
           u == s \o t
<1>1. /\ DOMAIN s = 1..l /\ DOMAIN t = 1..m /\ DOMAIN u = 1..(l + m)
      /\ l \in Nat /\ m \in Nat
      /\ \A i \in 1..(l + m) : u[i] = IF i <= l THEN s[i] ELSE t[i - l]
  BY ConcatProperties
<1> HIDE DEF l, m, u
<1>2. ASSUME NEW i \in DOMAIN u, u[i].op = "shutdown"
      PROVE  i + 1 \in DOMAIN u /\ Ends(u[i + 1])
  <2>1. CASE i <= l
    <3>1. i \in DOMAIN s /\ u[i] = s[i]
      BY <1>1, <1>2, <2>1
    <3>2. i + 1 \in DOMAIN s /\ Ends(s[i + 1])
      BY <1>2, <3>1 DEF Paired
    <3>3. i + 1 \in DOMAIN u /\ u[i + 1] = s[i + 1]
      BY <1>1, <3>2
    <3> QED
      BY <3>2, <3>3
  <2>2. CASE ~(i <= l)
    <3>1. i - l \in DOMAIN t /\ u[i] = t[i - l]
      BY <1>1, <1>2, <2>2
    <3>2. (i - l) + 1 \in DOMAIN t /\ Ends(t[(i - l) + 1])
      BY <1>2, <3>1 DEF Paired
    <3>3. i + 1 \in 1..(l + m) /\ (i + 1) - l = (i - l) + 1 /\ ~(i + 1 <= l)
      BY <1>1, <1>2, <2>2, <3>2
    <3>4. i + 1 \in DOMAIN u /\ u[i + 1] = t[(i - l) + 1]
      BY <1>1, <3>3
    <3> QED
      BY <3>2, <3>4
  <2> QED
    BY <2>1, <2>2
<1> QED
  BY <1>2 DEF Paired, u

(* What becomes of a request that fails. *)
LEMMA FailedIs ==
  ASSUME NEW r \in Named, NEW res \in Results
  PROVE  /\ Failed(r, res) \in Seq(Completion)
         /\ \A A, B : Balanced(A, B) => Num(Failed(r, res), B) = One(r, A)
         /\ \A e \in ToSet(Failed(r, res)) :
              /\ e.conn = r.conn /\ e.fd = r.fd /\ e.op \notin {"fd_pass", "timeout"}
              /\ e.op = "recv" => e.op = r.op /\ e.res = res
              /\ e.op = "close" => e.res = "canceled" \/ (r.op = "close" /\ e.res = res)
         /\ Paired(Failed(r, res))
<1>1. /\ Cqe(r, res, FALSE) \in Completion
      /\ Cqe(r, res, FALSE).op = r.op /\ Cqe(r, res, FALSE).conn = r.conn
      /\ Cqe(r, res, FALSE).fd = r.fd /\ Cqe(r, res, FALSE).res = res
      /\ r.op \in {"recv", "send", "cancel", "close", "shutdown"}
  BY CqeIs
<1>2. CASE r.link = NULL
  <2> DEFINE x == Cqe(r, res, FALSE)
             t == <<x>>
  <2>1. Failed(r, res) = t
    BY <1>2 DEF Failed
  <2>2. x \in Completion /\ t \in Seq(Completion) /\ ToSet(t) = {x} /\ \A P : Num(t, P) = One(x, P)
    <3>1. x \in Completion
      BY <1>1
    <3> HIDE DEF x
    <3>2. t \in Seq(Completion)
      BY <3>1
    <3>3. ToSet(t) = {x} /\ \A P : Num(t, P) = One(x, P)
      BY NumOne
    <3> HIDE DEF t
    <3> QED
      BY <3>1, <3>2, <3>3
  <2>3. \A A, B : Balanced(A, B) => One(x, B) = One(r, A)
    <3> SUFFICES ASSUME NEW A, NEW B, Balanced(A, B) PROVE One(x, B) = One(r, A)
      OBVIOUS
    <3>1. One(x, B) + 0 = One(r, A)
      BY <1>2 DEF Balanced
    <3>2. One(x, B) \in Nat
      BY DEF One
    <3> HIDE DEF x
    <3> QED
      BY <3>1, <3>2
  <2>4. r.op # "shutdown"
    BY <1>2, LinksAre DEF Named, Plain, Request, Chained
  <2>5. x.conn = r.conn /\ x.fd = r.fd /\ x.op = r.op /\ x.res = res
    BY <1>1
  <2>6. DOMAIN t = {1} /\ t[1] = x
    OBVIOUS
  <2> HIDE DEF x, t
  <2>7. Paired(t)
    BY <2>4, <2>5, <2>6 DEF Paired
  <2> QED
    BY <1>1, <2>1, <2>2, <2>3, <2>4, <2>5, <2>7
<1>3. CASE r.link # NULL
  <2> DEFINE x == Cqe(r, res, FALSE)
             y == Cqe(r.link, "canceled", FALSE)
             t == <<x>>
             u == <<y>>
  <2>1. Failed(r, res) = t \o u
    BY <1>3 DEF Failed
  <2>2. /\ r.link \in Named /\ r.link.link = NULL /\ r.link.conn = r.conn /\ r.link.fd = r.fd
        /\ <<r.op, r.link.op>> \in {<<"send", "cancel">>, <<"shutdown", "close">>}
    BY <1>3, LinkIs
  <2>3. /\ y \in Completion /\ y.op = r.link.op /\ y.conn = r.conn /\ y.fd = r.fd /\ y.res = "canceled"
    <3>0. r.link \in Named /\ "canceled" \in Results
      BY <2>2 DEF Results
    <3>1. y \in Completion
      BY <3>0, CqeIs
    <3>2. y.op = r.link.op /\ y.conn = r.link.conn /\ y.fd = r.link.fd /\ y.res = "canceled"
      BY DEF Cqe
    <3> HIDE DEF y
    <3> QED
      BY <2>2, <3>1, <3>2
  <2>4. /\ x \in Completion /\ x.op = r.op /\ x.conn = r.conn /\ x.fd = r.fd /\ x.res = res
    BY <1>1
  <2>5. \A A, B : Balanced(A, B) => One(x, B) + One(y, B) = One(r, A)
    <3> SUFFICES ASSUME NEW A, NEW B, Balanced(A, B) PROVE One(x, B) + One(y, B) = One(r, A)
      OBVIOUS
    <3>1. One(x, B) + One(r.link, A) = One(r, A)
      BY <1>3 DEF Balanced
    <3>2. One(y, B) + 0 = One(r.link, A)
      BY <2>2 DEF Balanced, Results
    <3>3. One(y, B) \in Nat
      BY DEF One
    <3> HIDE DEF x, y
    <3> QED
      BY <3>1, <3>2, <3>3
  <2> HIDE DEF x, y
  <2>6. /\ t \in Seq(Completion) /\ ToSet(t) = {x} /\ \A P : Num(t, P) = One(x, P)
        /\ u \in Seq(Completion) /\ ToSet(u) = {y} /\ \A P : Num(u, P) = One(y, P)
    <3>1. x \in Completion /\ y \in Completion
      BY <2>3, <2>4
    <3>2. t \in Seq(Completion) /\ u \in Seq(Completion)
      BY <3>1
    <3>3. ToSet(t) = {x} /\ ToSet(u) = {y} /\ \A P : Num(t, P) = One(x, P) /\ Num(u, P) = One(y, P)
      BY NumOne
    <3> HIDE DEF t, u
    <3> QED
      BY <3>2, <3>3
  <2>7. DOMAIN (t \o u) = {1, 2} /\ (t \o u)[1] = x /\ (t \o u)[2] = y
    <3>1. /\ t \in Seq(Completion) /\ Len(t) = 1 /\ t[1] = x
          /\ u \in Seq(Completion) /\ Len(u) = 1 /\ u[1] = y
      BY <2>6
    <3> HIDE DEF t, u
    <3>2. /\ t \o u \in Seq(Completion) /\ Len(t \o u) = Len(t) + Len(u)
          /\ \A i \in 1..(Len(t) + Len(u)) : (t \o u)[i] = IF i <= Len(t) THEN t[i] ELSE u[i - Len(t)]
      BY <3>1, ConcatProperties
    <3>3. Len(t \o u) = 2 /\ (t \o u)[1] = x /\ (t \o u)[2] = y
      BY <3>1, <3>2
    <3>4. DOMAIN (t \o u) = 1..2 /\ 1..2 = {1, 2}
      BY <3>2, <3>3
    <3> QED
      BY <3>3, <3>4
  <2> HIDE DEF t, u
  <2>8. /\ t \o u \in Seq(Completion) /\ ToSet(t \o u) = {x, y}
        /\ \A P : Num(t \o u, P) = One(x, P) + One(y, P)
    <3>1. \A P : /\ t \o u \in Seq(Completion)
                 /\ Num(t \o u, P) = Num(t, P) + Num(u, P)
                 /\ ToSet(t \o u) = ToSet(t) \cup ToSet(u)
      BY <2>6, NumConcat
    <3> QED
      BY <2>6, <3>1
  <2>9. Paired(t \o u)
    <3>1. x.op = "shutdown" => y.op = "close"
      BY <2>2, <2>3, <2>4
    <3>2. y.op # "shutdown" /\ y.res = "canceled"
      BY <2>2, <2>3
    <3>3. 1 + 1 = 2
      OBVIOUS
    <3> QED
      BY <2>7, <3>1, <3>2, <3>3 DEF Ends, Paired
  <2>10. \A e \in {x, y} :
              /\ e.conn = r.conn /\ e.fd = r.fd /\ e.op \notin {"fd_pass", "timeout"}
              /\ e.op = "recv" => e.op = r.op /\ e.res = res
              /\ e.op = "close" => e.res = "canceled" \/ (r.op = "close" /\ e.res = res)
    BY <2>2, <2>3, <2>4
  <2> QED
    BY <2>1, <2>5, <2>8, <2>9, <2>10
<1> QED
  BY <1>2, <1>3-------------------------------------------------------------------------

(* A step of the kernel keeps the invariant: what it puts under way goes on *)
(* with something that was, what it tells is of such a thing too, and it    *)
(* takes the sockets of connections that it tells to be closed only.        *)
LEMMA KernelKeeps ==
  ASSUME Types, SlotsAreOwned, Sound, Running, UNCHANGED <<conns, user_map, ended>>,
         sq' = sq \/ sq' \in Seq(Named), issuing' \in Seq(Named), requests' \in Seq(Issued),
         files' \in [Fd -> Conn \cup {NULL}], peer' \in [Conn -> {"none", "open", "reset", "gone"}],
         shut' \subseteq Conn,
         NEW new \in Seq(Completion), cq' = cq \o new, Paired(new),
         \A x \in Underway' : x \in Named =>
            \E s \in Underway : s \in Named /\ s.conn = x.conn /\ s.fd = x.fd,
         \A e \in ToSet(new) :
            /\ e.op # "fd_pass"
            /\ e.op # "timeout" => \E s \in Underway : s \in Named /\ s.conn = e.conn /\ s.fd = e.fd
            /\ e.op = "recv" /\ e.res = "canceled" => ~IsOpen(World, e.conn)
            /\ e.op = "close" /\ e.res = "done" => \A f \in Fd : files'[f] # e.conn,
         \A c \in Conn : peer[c] # "none" => peer'[c] # "none",
         \A f \in Fd : \/ files'[f] = files[f]
                       \/ /\ files'[f] = NULL /\ files[f] \in conns.conn_map
                          /\ \E e \in ToSet(new) : e.op = "close" /\ e.conn = files[f] /\ e.res = "done",
         OwnSockets',
         \A A, B : Balanced(A, B) => Total(A, B)' = Total(A, B)
  PROVE  IInv'
<1>1. /\ ToSet(cq') = ToSet(cq) \cup ToSet(new)
      /\ \A P : /\ Num(cq', P) = Num(cq, P) + Num(new, P)
                /\ Num(cq, P) \in Nat /\ Num(new, P) \in Nat
                /\ Num(new, P) = 0 <=> \A x \in ToSet(new) : x \notin P
  <2>1. cq \in Seq(Completion)
    BY DEF Types
  <2> QED
    BY <2>1, ConcatIs
<1>16. Types'
  <2>1. cq \in Seq(Completion) /\ sq \in Seq(Request) /\ ended \in Endings
    BY DEF Types
  <2>2. cq' \in Seq(Completion)
    BY <2>1
  <2>3. sq' \in Seq(Request)
    BY <2>1 DEF Request
  <2>4. TypeOK'
    BY DEF Types, TypeOK
  <2> QED
    BY <2>1, <2>2, <2>3, <2>4 DEF Types
<1>2. Told' = Told \cup ToSet(new)
  BY <1>1 DEF Told
<1>17. /\ conns.conn_map \subseteq Conn
       /\ \A r \in Named : r.conn \in Conn
       /\ Told \subseteq Completion
       /\ \A e \in Completion : e.op # "timeout" => e.conn \in Conn
  <2>1. conns.conn_map \subseteq Conn
    BY DEF Types, TypeOK, Workers
  <2>2. \A r \in Named : r.conn \in Conn
    BY DEF Named, Plain, Chained
  <2>3. Told \subseteq Completion
    BY DEF Types, Told, ToSet
  <2>4. \A e \in Completion : e.op # "timeout" => e.conn \in Conn
    BY DEF Completion, Cqes
  <2> QED
    BY <2>1, <2>2, <2>3, <2>4
<1>3. \A c \in Conn : Known(c) => Known(c)'
  BY <1>2 DEF Known, Passes
<1>4. \A c \in Conn : \A f : RightSlot(c, f) => RightSlot(c, f)'
  BY <1>3 DEF RightSlot
<1>5. \A r \in Underway : r \in Named => RightSlot(r.conn, r.fd)
  BY DEF Sound, NamesRight
<1>6. NamesRight'
  <2>1. \A c \in conns'.conn_map : Known(c)'
    BY <1>3, <1>17 DEF Sound, NamesRight
  <2>2. \A r \in Underway' : r \in Named => RightSlot(r.conn, r.fd)'
    <3> SUFFICES ASSUME NEW x \in Underway', x \in Named PROVE RightSlot(x.conn, x.fd)'
      OBVIOUS
    <3>1. PICK s \in Underway : s \in Named /\ s.conn = x.conn /\ s.fd = x.fd
      OBVIOUS
    <3>2. RightSlot(x.conn, x.fd)
      BY <1>5, <3>1
    <3> QED
      BY <1>4, <1>17, <3>2
  <2>3. \A e \in Told' : e.op \notin {"fd_pass", "timeout"} => RightSlot(e.conn, e.fd)'
    <3> SUFFICES ASSUME NEW e \in Told', e.op \notin {"fd_pass", "timeout"}
                 PROVE  RightSlot(e.conn, e.fd)'
      OBVIOUS
    <3>1. CASE e \in Told
      BY <1>4, <1>17, <3>1 DEF Sound, NamesRight
    <3>2. CASE e \in ToSet(new)
      <4>1. PICK s \in Underway : s \in Named /\ s.conn = e.conn /\ s.fd = e.fd
        BY <3>2
      <4>2. RightSlot(e.conn, e.fd)
        BY <1>5, <4>1
      <4> QED
        BY <1>4, <1>17, <4>1, <4>2
    <3> QED
      BY <1>2, <3>1, <3>2
  <2> QED
    BY <2>1, <2>2, <2>3 DEF NamesRight
<1>7. \A f \in Fd : files'[f] # files[f] => files'[f] = NULL /\ files[f] \in conns.conn_map
  OBVIOUS
<1>8. PassedOnce'
  <2>1. \A c \in Conn : Num(cq', Passes(c)) \in {0, 1}
    <3> SUFFICES ASSUME NEW c \in Conn PROVE Num(cq', Passes(c)) \in {0, 1}
      OBVIOUS
    <3>1. Num(cq, Passes(c)) \in {0, 1}
      BY DEF Sound, PassedOnce
    <3>2. Num(new, Passes(c)) = 0
      BY <1>1 DEF Passes
    <3> QED
      BY <1>1, <3>1, <3>2
  <2>2. \A e \in Told' : e.op = "fd_pass" =>
          peer'[e.conn] # "none" /\ (e.res = "done" => files'[e.fd] = e.conn)
    <3> SUFFICES ASSUME NEW e \in Told', e.op = "fd_pass"
                 PROVE  peer'[e.conn] # "none" /\ (e.res = "done" => files'[e.fd] = e.conn)
      OBVIOUS
    <3>1. e \in Told
      BY <1>2
    <3>2. peer[e.conn] # "none" /\ (e.res = "done" => files[e.fd] = e.conn) /\ e.conn \in Conn
      BY <1>17, <3>1 DEF Sound, PassedOnce
    <3>3. e \in Completion
      BY <3>1 DEF Types, Told, ToSet
    <3>4. e \in Passes(e.conn) /\ (e.res = "done" => e.fd \in Fd)
      BY <3>3 DEF Passes, Completion, Cqes
    <3>5. e.conn \notin conns.conn_map
      BY <3>1, <3>4 DEF Sound, NamesRight, Known
    <3> QED
      BY <1>7, <3>2, <3>4, <3>5
  <2> QED
    BY <2>1, <2>2 DEF PassedOnce, Passes
<1>9. CanceledAreClosed'
  BY <1>2 DEF Sound, CanceledAreClosed, IsOpen, World
<1>10. SlotsAreLeft'
  <2> SUFFICES ASSUME NEW e \in Told', e.op = "close", e.res = "done", NEW f \in Fd
               PROVE  files'[f] # e.conn
    BY DEF SlotsAreLeft
  <2>1. CASE e \in ToSet(new)
    BY <2>1
  <2>2. CASE e \in Told
    <3>1. files[f] # e.conn
      BY <2>2 DEF Sound, SlotsAreLeft
    <3>2. e \in Completion
      BY <2>2 DEF Types, Told, ToSet
    <3>3. e.conn # NULL
      BY <3>2, NullConn DEF Completion, Cqes
    <3> QED
      BY <1>7, <3>1, <3>3
  <2> QED
    BY <1>2, <2>1, <2>2
<1>11. SlotsAreOwned'
  <2>1. ASSUME NEW f \in Fd, files'[f] # NULL
        PROVE  \/ files'[f] \in conns'.conn_map /\ conns'.fd[files'[f]] = f
               \/ \E e \in Told' : e \in Passes(files'[f]) /\ e.res = "done" /\ e.fd = f
    <3>1. files'[f] = files[f] /\ f \in Fd
      BY <1>7, <2>1
    <3> QED
      BY <1>2, <2>1, <3>1 DEF SlotsAreOwned
  <2>2. ASSUME NEW c \in conns.conn_map
        PROVE  \/ files'[conns.fd[c]] = c
               \/ \E e \in Told' : e.op = "close" /\ e.conn = c /\ e.res = "done"
    <3>1. conns.fd[c] \in Fd /\ c \in Conn
      BY <2>2 DEF Types, TypeOK, Workers
    <3>2. CASE files[conns.fd[c]] = c
      <4>1. PICK f \in Fd : f = conns.fd[c]
        BY <3>1
      <4>2. files'[f] # files[f] => \E e \in ToSet(new) : e.op = "close" /\ e.conn = c /\ e.res = "done"
        BY <3>2, <4>1
      <4> QED
        BY <1>2, <3>2, <4>1, <4>2
    <3>3. CASE files[conns.fd[c]] # c
      <4>1. \E e \in Told : e.op = "close" /\ e.conn = c /\ e.res = "done"
        BY <3>3 DEF SlotsAreOwned
      <4> QED
        BY <1>2, <4>1
    <3> QED
      BY <3>2, <3>3
  <2> QED
    BY <2>1, <2>2 DEF SlotsAreOwned, Passes
<1>12. NamelessEnds'
  <2>3. Paired(cq')
    <3>1. cq \in Seq(Completion) /\ Paired(cq)
      BY DEF Types, Sound, NamelessEnds, Paired
    <3> QED
      BY <3>1, PairedConcat
  <2>4. sq' \in Seq(Named) \/ (cq' # <<>> /\ Ends(Head(cq')))
    <3>1. CASE sq \in Seq(Named)
      BY <3>1
    <3>2. CASE cq # <<>> /\ Ends(Head(cq))
      <4>1. cq \in Seq(Completion)
        BY DEF Types
      <4>2. cq' # <<>> /\ Head(cq') = Head(cq)
        BY <3>2, <4>1
      <4> QED
        BY <3>2, <4>2
    <3> QED
      BY <3>1, <3>2 DEF Sound, NamelessEnds
  <2> QED
    BY <2>3, <2>4 DEF NamelessEnds, Paired, Ends
<1>13. Listening'
  <2> SUFFICES ASSUME NEW d \in conns.conn_map \ conns.closed
               PROVE  Total(RecvOf(d), EndedRecv(d))' = 1
    BY DEF Listening, RecvOf, EndedRecv
  <2>1. Total(RecvOf(d), EndedRecv(d)) = 1 /\ d \in Conn
    BY DEF Sound, Listening, Types, TypeOK, Workers
  <2> QED
    BY <2>1, ReceivesBalance
<1>14. Closing'
  <2> SUFFICES ASSUME NEW d \in Conn
               PROVE  Total(CloserOf(d), ClosingCqe(d))' = IF d \in conns.closed THEN 1 ELSE 0
    BY DEF Closing, CloserOf, ClosingCqe
  <2>1. Total(CloserOf(d), ClosingCqe(d)) = IF d \in conns.closed THEN 1 ELSE 0
    BY DEF Sound, Closing
  <2> QED
    BY <2>1, ClosersBalance
<1>15. Orderly(World, NULL)'
  BY DEF Sound, Orderly, IsOpen, World
<1> QED
  BY <1>6, <1>8, <1>9, <1>10, <1>11, <1>12, <1>13, <1>14, <1>15, <1>16 DEF IInv, Sound

(* The parts of a total are numbers. *)
LEMMA TotalIs ==
  ASSUME Types, NEW A, NEW B
  PROVE  /\ Num(sq, A) \in Nat /\ Num(issuing, A) \in Nat
         /\ Num(requests, IssuedOf(A)) \in Nat /\ Num(cq, B) \in Nat
         /\ Num(issuing, A) = 0 <=> \A x \in ToSet(issuing) : x \notin A
         /\ Num(cq, B) = 0 <=> \A x \in ToSet(cq) : x \notin B
<1>1. sq \in Seq(Request) /\ issuing \in Seq(Named) /\ requests \in Seq(Issued) /\ cq \in Seq(Completion)
  BY DEF Types
<1>2. Num(sq, A) \in Nat
  BY <1>1, NumType
<1>3. Num(issuing, A) \in Nat /\ (Num(issuing, A) = 0 <=> \A x \in ToSet(issuing) : x \notin A)
  BY <1>1, NumType
<1>4. Num(requests, IssuedOf(A)) \in Nat
  BY <1>1, NumType
<1>5. Num(cq, B) \in Nat /\ (Num(cq, B) = 0 <=> \A x \in ToSet(cq) : x \notin B)
  BY <1>1, NumType
<1> QED
  BY <1>2, <1>3, <1>4, <1>5

(* A connection whose close is not told has its socket in its slot. *)
LEMMA CloseIsTold ==
  ASSUME Types, SlotsAreOwned, Sound, NEW c \in conns.conn_map,
         Num(cq, ClosingCqe(c)) = 0
  PROVE  files[conns.fd[c]] = c /\ c \in Conn
<1>1. c \in Conn
  BY DEF Types, TypeOK, Workers
<1>2. \A e \in Told : e \notin ClosingCqe(c) /\ e \in Completion
  BY TotalIs DEF Told, Types, ToSet
<1>3. ~ \E e \in Told : e.op = "close" /\ e.conn = c /\ e.res = "done"
  BY <1>2 DEF ClosingCqe
<1> QED
  BY <1>1, <1>3 DEF SlotsAreOwned

(* An open connection has its socket in its slot. *)
LEMMA OpenOwns ==
  ASSUME Types, SlotsAreOwned, Sound, NEW c, IsOpen(World, c)
  PROVE  files[conns.fd[c]] = c
<1>1. c \in conns.conn_map /\ c \notin conns.closed
  BY DEF IsOpen, World
<1>2. c \in Conn
  BY <1>1 DEF Types, TypeOK, Workers
<1>3. Total(CloserOf(c), ClosingCqe(c)) = 0
  BY <1>1, <1>2 DEF Sound, Closing
<1> DEFINE A == CloserOf(c)
           B == ClosingCqe(c)
<1> HIDE DEF A, B
<1>4. /\ Num(sq, A) \in Nat /\ Num(issuing, A) \in Nat
      /\ Num(requests, IssuedOf(A)) \in Nat /\ Num(cq, B) \in Nat
  BY TotalIs
<1>5. Num(sq, A) + Num(issuing, A) + Num(requests, IssuedOf(A)) + Num(cq, B) = 0
  BY <1>3 DEF Total, A, B
<1>6. Num(cq, B) = 0
  BY <1>4, <1>5
<1> QED
  BY <1>1, <1>6, CloseIsTold DEF B

(* A step of closing that is issued is of a closed connection that still    *)
(* has its socket and slot.                                                 *)
LEMMA ClosingOwns ==
  ASSUME Types, SlotsAreOwned, Sound, NEW r \in ToSet(issuing), r.op \in Closers
  PROVE  /\ r.conn \in conns.closed /\ r.conn \in conns.conn_map /\ r.conn \in Conn
         /\ r.fd = conns.fd[r.conn] /\ files[r.fd] = r.conn
<1> DEFINE c == r.conn
<1>1. r \in Named /\ r \in Request /\ c \in Conn
  BY DEF Types, ToSet, Named, Request, Plain, Chained
<1>2. r \in CloserOf(c)
  BY <1>1 DEF CloserOf
<1> HIDE DEF c
<1> DEFINE A == CloserOf(c)
           B == ClosingCqe(c)
<1>3. Total(A, B) = IF c \in conns.closed THEN 1 ELSE 0
  BY <1>1 DEF Sound, Closing
<1>4. r \in A
  BY <1>2
<1> HIDE DEF A, B
<1>5. /\ Num(sq, A) \in Nat /\ Num(issuing, A) \in Nat
      /\ Num(requests, IssuedOf(A)) \in Nat /\ Num(cq, B) \in Nat
      /\ Num(issuing, A) # 0
  BY <1>4, TotalIs
<1>6. Num(sq, A) + Num(issuing, A) + Num(requests, IssuedOf(A)) + Num(cq, B)
        = IF c \in conns.closed THEN 1 ELSE 0
  BY <1>3 DEF Total
<1>7. c \in conns.closed /\ Num(cq, B) = 0
  BY <1>5, <1>6
<1>8. c \in conns.conn_map
  BY <1>7 DEF Sound, Orderly, World
<1>9. files[conns.fd[c]] = c
  BY <1>7, <1>8, CloseIsTold DEF B
<1>10. r \in Underway
  BY DEF Underway
<1>11. RightSlot(r.conn, r.fd)
  BY <1>1, <1>10 DEF Sound, NamesRight
<1>12. r.fd = conns.fd[c]
  BY <1>8, <1>11 DEF RightSlot, c
<1> QED
  BY <1>1, <1>7, <1>8, <1>9, <1>12 DEF c

(* Any slot with the socket of an accepted connection is its own. *)
LEMMA OneSlot ==
  ASSUME Types, SlotsAreOwned, Sound, NEW c \in conns.conn_map, NEW f \in Fd, files[f] = c
  PROVE  f = conns.fd[c]
<1>1. c \in Conn
  BY DEF Types, TypeOK, Workers
<1>2. c # NULL
  BY <1>1, NullConn
<1>3. \A e \in Told : e \notin Passes(c)
  BY DEF Sound, NamesRight, Known
<1> QED
  BY <1>2, <1>3 DEF SlotsAreOwned

(* What counts, but for the completions that were there. *)
LEMMA TotalsKeep ==
  ASSUME Types, sq' = sq, issuing' \in Seq(Named), requests' \in Seq(Issued),
         NEW new \in Seq(Completion), cq' = cq \o new,
         NEW A, NEW B,
         Num(issuing', A) + Num(requests', IssuedOf(A)) + Num(new, B)
           = Num(issuing, A) + Num(requests, IssuedOf(A))
  PROVE  Total(A, B)' = Total(A, B)
<1>1. /\ Num(sq, A) \in Nat /\ Num(issuing, A) \in Nat
      /\ Num(requests, IssuedOf(A)) \in Nat /\ Num(cq, B) \in Nat
  BY TotalIs
<1>2. cq \in Seq(Completion)
  BY DEF Types
<1>3. Num(cq', B) = Num(cq, B) + Num(new, B) /\ Num(new, B) \in Nat
  BY <1>2, ConcatIs
<1>4. Num(issuing', A) \in Nat /\ Num(requests', IssuedOf(A)) \in Nat
  BY NumType
<1>5. Total(A, B) = Num(sq, A) + Num(issuing, A) + Num(requests, IssuedOf(A)) + Num(cq, B)
  BY DEF Total
<1>6. Total(A, B)' = Num(sq, A) + Num(issuing', A) + Num(requests', IssuedOf(A)) + Num(cq', B)
  BY DEF Total
<1> DEFINE s == Num(sq, A)
           i == Num(issuing, A)
           j == Num(issuing', A)
           k == Num(requests, IssuedOf(A))
           l == Num(requests', IssuedOf(A))
           m == Num(cq, B)
           n == Num(new, B)
<1>7. /\ s \in Nat /\ i \in Nat /\ j \in Nat /\ k \in Nat /\ l \in Nat /\ m \in Nat /\ n \in Nat
      /\ j + l + n = i + k
  BY <1>1, <1>3, <1>4
<1>8. Total(A, B) = s + i + k + m /\ Total(A, B)' = s + j + l + (m + n)
  BY <1>3, <1>5, <1>6
<1> HIDE DEF s, i, j, k, l, m, n
<1>9. s + i + k + m = s + j + l + (m + n)
  BY <1>7
<1> QED
  BY <1>8, <1>9

(* A request is added to those that are issued, or taken out of them. *)
LEMMA AddedIs ==
  ASSUME NEW s \in Seq(Issued), NEW x \in Issued
  PROVE  /\ Append(s, x) \in Seq(Issued) /\ ToSet(Append(s, x)) = ToSet(s) \cup {x}
         /\ \A P : Num(Append(s, x), P) = Num(s, P) + One(x, P)
  BY NumAppend

(* What is left when a request of the kernel has been taken out. *)
LEMMA TakenIs ==
  ASSUME NEW s \in Seq(Issued), NEW i \in DOMAIN s
  PROVE  /\ RemoveAt(s, i) \in Seq(Issued) /\ ToSet(RemoveAt(s, i)) \subseteq ToSet(s)
         /\ s[i] \in Issued /\ s[i] \in ToSet(s)
         /\ \A P : Num(s, P) = Num(RemoveAt(s, i), P) + One(s[i], P)
  BY NumRemoveAt

(* The next request is taken. *)
LEMMA IssueStarts ==
  ASSUME IInv, Running, issuing # <<>>, issuing' = Tail(issuing)
  PROVE  /\ Types /\ SlotsAreOwned /\ Sound
         /\ Head(issuing) \in Named /\ Head(issuing) \in ToSet(issuing) /\ Head(issuing) \in Underway
         /\ RightSlot(Head(issuing).conn, Head(issuing).fd)
         /\ Head(issuing).conn \in Conn /\ Head(issuing).fd \in Fd
         /\ issuing' \in Seq(Named) /\ ToSet(issuing') \subseteq ToSet(issuing)
         /\ \A P : /\ Num(issuing, P) = One(Head(issuing), P) + Num(issuing', P)
                   /\ Num(issuing', P) \in Nat /\ One(Head(issuing), P) \in Nat
<1>1. Types /\ SlotsAreOwned /\ Sound
  BY DEF IInv
<1>2. issuing \in Seq(Named)
  BY <1>1 DEF Types
<1>3. \A P : /\ Head(issuing) \in Named /\ Tail(issuing) \in Seq(Named)
             /\ Num(issuing, P) = One(Head(issuing), P) + Num(Tail(issuing), P)
             /\ ToSet(issuing) = {Head(issuing)} \cup ToSet(Tail(issuing))
  BY <1>2, NumTail
<1>4. \A P : Num(issuing', P) \in Nat
  BY <1>3, NumType
<1>5. \A P : One(Head(issuing), P) \in Nat
  BY DEF One
<1>6. Head(issuing) \in Named /\ Head(issuing) \in ToSet(issuing) /\ Head(issuing) \in Underway
  BY <1>3 DEF Underway
<1>7. RightSlot(Head(issuing).conn, Head(issuing).fd)
  BY <1>1, <1>6 DEF Sound, NamesRight
<1>8. Head(issuing).conn \in Conn /\ Head(issuing).fd \in Fd
  BY <1>6 DEF Named, Plain, Chained
<1> QED
  BY <1>1, <1>3, <1>4, <1>5, <1>6, <1>7, <1>8

(* A request is issued on the socket that is in its slot. *)
LEMMA IssueAppends ==
  ASSUME IInv, Running, issuing # <<>>, issuing' = Tail(issuing),
         UNCHANGED <<conns, user_map, sq, ended, cq, files, peer, shut>>,
         Head(issuing).op \in {"recv", "send", "shutdown"}, files[Head(issuing).fd] # NULL,
         requests' = Append(requests, [req |-> Head(issuing), socket |-> files[Head(issuing).fd]])
  PROVE  IInv'
<1> DEFINE r == Head(issuing)
           x == [req |-> r, socket |-> files[r.fd]]
<1>1. /\ Types /\ SlotsAreOwned /\ Sound
      /\ r \in Named /\ r \in Underway /\ RightSlot(r.conn, r.fd) /\ r.conn \in Conn /\ r.fd \in Fd
      /\ issuing' \in Seq(Named) /\ ToSet(issuing') \subseteq ToSet(issuing)
      /\ \A P : /\ Num(issuing, P) = One(r, P) + Num(issuing', P)
                /\ Num(issuing', P) \in Nat /\ One(r, P) \in Nat
  BY IssueStarts
<1>2. /\ files \in [Fd -> Conn \cup {NULL}] /\ peer \in [Conn -> {"none", "open", "reset", "gone"}]
      /\ shut \subseteq Conn /\ requests \in Seq(Issued) /\ cq \in Seq(Completion)
  BY <1>1 DEF Types, TypeOK
<1>3. x \in Issued
  BY <1>1, <1>2 DEF Issued
<1>4. x.req = r /\ x.socket = files[r.fd]
  OBVIOUS
<1>5. requests' = Append(requests, x)
  OBVIOUS
<1>6. IsOpen(World, r.conn) => files[r.fd] = r.conn
  <2>1. IsOpen(World, r.conn) => r.fd = conns.fd[r.conn]
    BY <1>1 DEF RightSlot, IsOpen, World
  <2> HIDE DEF r
  <2> QED
    BY <1>1, <2>1, OpenOwns
<1> HIDE DEF x
<1>7. /\ requests' \in Seq(Issued)
      /\ \A P : Num(requests', P) = Num(requests, P) + One(x, P)
      /\ ToSet(requests') = ToSet(requests) \cup {x}
  BY <1>2, <1>3, <1>5, AddedIs
<1>8. Underway' \subseteq Underway
  BY <1>1, <1>4, <1>7 DEF Underway
<1>9. OwnSockets'
  BY <1>1, <1>4, <1>6, <1>7 DEF Sound, OwnSockets, IsOpen, World
<1> DEFINE new == <<>>
<1>10. new \in Seq(Completion) /\ cq' = cq \o new /\ ToSet(new) = {} /\ (\A P : Num(new, P) = 0) /\ Paired(new)
  <2>1. cq \o new = cq
    BY <1>2
  <2> QED
    BY <2>1, NumEmpty DEF Paired
<1> HIDE DEF r
<1>11. \A A, B : Balanced(A, B) => Total(A, B)' = Total(A, B)
  <2> SUFFICES ASSUME NEW A, NEW B PROVE Total(A, B)' = Total(A, B)
    OBVIOUS
  <2>1. One(x, IssuedOf(A)) = One(r, A)
    BY <1>3, <1>4 DEF One, IssuedOf
  <2>2. /\ Num(issuing, A) = One(r, A) + Num(issuing', A)
        /\ Num(requests', IssuedOf(A)) = Num(requests, IssuedOf(A)) + One(x, IssuedOf(A))
        /\ Num(new, B) = 0
        /\ Num(issuing', A) \in Nat /\ One(r, A) \in Nat /\ Num(requests, IssuedOf(A)) \in Nat
    BY <1>1, <1>7, <1>10, TotalIs
  <2> HIDE DEF new
  <2>3. Num(issuing', A) + Num(requests', IssuedOf(A)) + Num(new, B)
           = Num(issuing, A) + Num(requests, IssuedOf(A))
    BY <2>1, <2>2
  <2> QED
    BY <1>1, <1>7, <1>10, <2>3, TotalsKeep
<1> HIDE DEF new
<1> QED
  BY <1>1, <1>2, <1>7, <1>8, <1>9, <1>10, <1>11, KernelKeeps

(* The completion of a request that nothing is linked behind. *)
LEMMA AloneIs ==
  ASSUME NEW r \in Named, r.op \in {"recv", "cancel", "close"}, NEW res \in Results,
         NEW s \in Seq(Completion)
  PROVE  /\ r.link = NULL /\ Failed(r, res) = <<Cqe(r, res, FALSE)>>
         /\ Append(s, Cqe(r, res, FALSE)) = s \o Failed(r, res)
<1>1. r.link = NULL
  BY DEF Named, Plain, Chained
<1> DEFINE x == Cqe(r, res, FALSE)
<1>2. Failed(r, res) = <<x>>
  BY <1>1 DEF Failed
<1>3. x \in Completion
  BY CqeIs
<1> HIDE DEF x
<1>4. Append(s, x) = s \o <<x>>
  BY <1>3, AppendIsConcat
<1> QED
  BY <1>1, <1>2, <1>4 DEF x

(* A request cannot be issued. *)
LEMMA IssueFails ==
  ASSUME IInv, Running, issuing # <<>>, issuing' = Tail(issuing),
         UNCHANGED <<conns, user_map, sq, ended, requests, files, peer, shut>>,
         cq' = cq \o Failed(Head(issuing), "error")
  PROVE  IInv'
<1> DEFINE r == Head(issuing)
           new == Failed(r, "error")
<1>1. /\ Types /\ SlotsAreOwned /\ Sound
      /\ r \in Named /\ r \in Underway /\ RightSlot(r.conn, r.fd) /\ r.conn \in Conn /\ r.fd \in Fd
      /\ issuing' \in Seq(Named) /\ ToSet(issuing') \subseteq ToSet(issuing)
      /\ \A P : /\ Num(issuing, P) = One(r, P) + Num(issuing', P)
                /\ Num(issuing', P) \in Nat /\ One(r, P) \in Nat
  BY IssueStarts
<1>2. /\ files \in [Fd -> Conn \cup {NULL}] /\ peer \in [Conn -> {"none", "open", "reset", "gone"}]
      /\ shut \subseteq Conn /\ requests \in Seq(Issued) /\ cq \in Seq(Completion)
  BY <1>1 DEF Types, TypeOK
<1>3. /\ new \in Seq(Completion) /\ Paired(new)
      /\ \A A, B : Balanced(A, B) => Num(new, B) = One(r, A)
      /\ \A e \in ToSet(new) :
           /\ e.conn = r.conn /\ e.fd = r.fd /\ e.op \notin {"fd_pass", "timeout"}
           /\ e.op = "recv" => e.res = "error"
           /\ e.op = "close" => e.res # "done"
  <2>1. "error" \in Results /\ r \in Named
    BY <1>1 DEF Results
  <2> HIDE DEF r
  <2> QED
    BY <2>1, FailedIs
<1>4. cq' = cq \o new
  OBVIOUS
<1> HIDE DEF r, new
<1>5. Underway' \subseteq Underway
  BY <1>1 DEF Underway
<1>6. OwnSockets'
  BY <1>1 DEF Sound, OwnSockets, IsOpen, World
<1>7. \A A, B : Balanced(A, B) => Total(A, B)' = Total(A, B)
  <2> SUFFICES ASSUME NEW A, NEW B, Balanced(A, B) PROVE Total(A, B)' = Total(A, B)
    OBVIOUS
  <2>1. /\ Num(issuing, A) = One(r, A) + Num(issuing', A)
        /\ Num(requests', IssuedOf(A)) = Num(requests, IssuedOf(A))
        /\ Num(new, B) = One(r, A)
        /\ Num(issuing', A) \in Nat /\ One(r, A) \in Nat /\ Num(requests, IssuedOf(A)) \in Nat
    BY <1>1, <1>3, TotalIs
  <2>2. Num(issuing', A) + Num(requests', IssuedOf(A)) + Num(new, B)
           = Num(issuing, A) + Num(requests, IssuedOf(A))
    BY <2>1
  <2> QED
    BY <1>1, <1>2, <1>3, <1>4, <2>2, TotalsKeep
<1>8. \A e \in ToSet(new) :
        /\ e.op # "fd_pass"
        /\ e.op # "timeout" => \E s \in Underway : s \in Named /\ s.conn = e.conn /\ s.fd = e.fd
        /\ e.op = "recv" /\ e.res = "canceled" => ~IsOpen(World, e.conn)
        /\ e.op = "close" /\ e.res = "done" => \A f \in Fd : files'[f] # e.conn
  BY <1>1, <1>3
<1> QED
  BY <1>1, <1>2, <1>3, <1>4, <1>5, <1>6, <1>7, <1>8, KernelKeeps

(* A close takes the socket out of its slot. *)
LEMMA IssueCloses ==
  ASSUME IInv, Running, issuing # <<>>, issuing' = Tail(issuing),
         UNCHANGED <<conns, user_map, sq, ended, requests>>,
         Head(issuing).op = "close",
         files' = [files EXCEPT ![Head(issuing).fd] = NULL],
         peer' = [c \in Conn |-> IF c = files[Head(issuing).fd] THEN "gone" ELSE peer[c]],
         shut' = shut \ {files[Head(issuing).fd]},
         cq' = Append(cq, Cqe(Head(issuing), IF files[Head(issuing).fd] = NULL THEN "error" ELSE "done", FALSE))
  PROVE  IInv'
<1> DEFINE r == Head(issuing)
           new == Failed(r, "done")
<1>1. /\ Types /\ SlotsAreOwned /\ Sound
      /\ r \in Named /\ r \in Underway /\ RightSlot(r.conn, r.fd) /\ r.conn \in Conn /\ r.fd \in Fd
      /\ r \in ToSet(issuing)
      /\ issuing' \in Seq(Named) /\ ToSet(issuing') \subseteq ToSet(issuing)
      /\ \A P : /\ Num(issuing, P) = One(r, P) + Num(issuing', P)
                /\ Num(issuing', P) \in Nat /\ One(r, P) \in Nat
  BY IssueStarts
<1>2. /\ files \in [Fd -> Conn \cup {NULL}] /\ peer \in [Conn -> {"none", "open", "reset", "gone"}]
      /\ shut \subseteq Conn /\ requests \in Seq(Issued) /\ cq \in Seq(Completion)
  BY <1>1 DEF Types, TypeOK
<1>3. "done" \in Results
  BY DEF Results
<1>4. r.op = "close" /\ files' = [files EXCEPT ![r.fd] = NULL] /\ shut' = shut \ {files[r.fd]}
      /\ peer' = [c \in Conn |-> IF c = files[r.fd] THEN "gone" ELSE peer[c]]
      /\ cq' = Append(cq, Cqe(r, IF files[r.fd] = NULL THEN "error" ELSE "done", FALSE))
  OBVIOUS
<1> HIDE DEF r
<1>5. r.conn \in conns.closed /\ r.conn \in conns.conn_map /\ r.fd = conns.fd[r.conn] /\ files[r.fd] = r.conn
  BY <1>1, <1>4, ClosingOwns DEF Closers
<1>6. files[r.fd] # NULL
  BY <1>1, <1>5, NullConn
<1>7. r.link = NULL /\ cq' = cq \o new
  BY <1>1, <1>2, <1>3, <1>4, <1>6, AloneIs
<1>8. /\ new \in Seq(Completion) /\ Paired(new)
      /\ \A A, B : Balanced(A, B) => Num(new, B) = One(r, A)
      /\ \A e \in ToSet(new) :
           /\ e.conn = r.conn /\ e.fd = r.fd /\ e.op \notin {"fd_pass", "timeout"}
           /\ e.op # "recv"
  <2>1. /\ new \in Seq(Completion) /\ Paired(new)
        /\ \A A, B : Balanced(A, B) => Num(new, B) = One(r, A)
        /\ \A e \in ToSet(new) :
             /\ e.conn = r.conn /\ e.fd = r.fd /\ e.op \notin {"fd_pass", "timeout"}
             /\ e.op = "recv" => e.op = r.op
    BY <1>1, <1>3, FailedIs
  <2> QED
    BY <1>4, <2>1
<1>9. \E e \in ToSet(new) : e.op = "close" /\ e.conn = r.conn /\ e.res = "done"
  <2> DEFINE x == Cqe(r, "done", FALSE)
  <2>1. x.op = "close" /\ x.conn = r.conn /\ x.res = "done"
    BY <1>4 DEF Cqe
  <2>2. new = <<x>>
    BY <1>7 DEF Failed
  <2> HIDE DEF x, new
  <2>3. ToSet(new) = {x}
    BY <2>2, NumOne
  <2> QED
    BY <2>1, <2>3
<1> HIDE DEF new
<1>10. \A f \in Fd : files'[f] # r.conn
  <2> SUFFICES ASSUME NEW f \in Fd, files'[f] = r.conn PROVE FALSE
    OBVIOUS
  <2>1. f # r.fd
    BY <1>1, <1>2, <1>4, NullConn
  <2>2. files[f] = r.conn
    BY <1>2, <1>4, <2>1
  <2> QED
    BY <1>1, <1>5, <2>1, <2>2, OneSlot
<1>11. \A f \in Fd : \/ files'[f] = files[f]
                     \/ /\ files'[f] = NULL /\ files[f] \in conns.conn_map
                        /\ \E e \in ToSet(new) : e.op = "close" /\ e.conn = files[f] /\ e.res = "done"
  BY <1>2, <1>4, <1>5, <1>9
<1>12. /\ files' \in [Fd -> Conn \cup {NULL}] /\ peer' \in [Conn -> {"none", "open", "reset", "gone"}]
       /\ shut' \subseteq Conn
  BY <1>2, <1>4
<1>13. Underway' \subseteq Underway
  BY <1>1 DEF Underway
<1>14. OwnSockets'
  BY <1>1 DEF Sound, OwnSockets, IsOpen, World
<1>15. \A A, B : Balanced(A, B) => Total(A, B)' = Total(A, B)
  <2> SUFFICES ASSUME NEW A, NEW B, Balanced(A, B) PROVE Total(A, B)' = Total(A, B)
    OBVIOUS
  <2>1. /\ Num(issuing, A) = One(r, A) + Num(issuing', A)
        /\ Num(requests', IssuedOf(A)) = Num(requests, IssuedOf(A))
        /\ Num(new, B) = One(r, A)
        /\ Num(issuing', A) \in Nat /\ One(r, A) \in Nat /\ Num(requests, IssuedOf(A)) \in Nat
    BY <1>1, <1>8, TotalIs
  <2>2. Num(issuing', A) + Num(requests', IssuedOf(A)) + Num(new, B)
           = Num(issuing, A) + Num(requests, IssuedOf(A))
    BY <2>1
  <2> QED
    BY <1>1, <1>2, <1>7, <1>8, <2>2, TotalsKeep
<1>16. \A e \in ToSet(new) :
        /\ e.op # "fd_pass"
        /\ e.op # "timeout" => \E s \in Underway : s \in Named /\ s.conn = e.conn /\ s.fd = e.fd
        /\ e.op = "recv" /\ e.res = "canceled" => ~IsOpen(World, e.conn)
        /\ e.op = "close" /\ e.res = "done" => \A f \in Fd : files'[f] # e.conn
  BY <1>1, <1>8, <1>10
<1>17. \A c \in Conn : peer[c] # "none" => peer'[c] # "none"
  BY <1>2, <1>4
<1> QED
  BY <1>1, <1>2, <1>7, <1>8, <1>11, <1>12, <1>13, <1>14, <1>15, <1>16, <1>17, KernelKeeps

(* A cancel takes a receive or a send of a closed connection. *)
LEMMA IssueCancels ==
  ASSUME IInv, Running, issuing # <<>>, issuing' = Tail(issuing),
         UNCHANGED <<conns, user_map, sq, ended, files, peer, shut>>,
         Head(issuing).op = "cancel", files[Head(issuing).fd] # NULL,
         NEW i \in DOMAIN requests, requests[i].socket = files[Head(issuing).fd],
         requests[i].req.op \in {"recv", "send"},
         cq' = Append(cq, Cqe(Head(issuing), "done", FALSE)) \o Failed(requests[i].req, "canceled"),
         requests' = RemoveAt(requests, i)
  PROVE  IInv'
<1> DEFINE r == Head(issuing)
           q == requests[i].req
           s == Failed(r, "done")
           t == Failed(q, "canceled")
           new == s \o t
<1>1. /\ Types /\ SlotsAreOwned /\ Sound
      /\ r \in Named /\ r \in Underway /\ RightSlot(r.conn, r.fd) /\ r.conn \in Conn /\ r.fd \in Fd
      /\ r \in ToSet(issuing)
      /\ issuing' \in Seq(Named) /\ ToSet(issuing') \subseteq ToSet(issuing)
      /\ \A P : /\ Num(issuing, P) = One(r, P) + Num(issuing', P)
                /\ Num(issuing', P) \in Nat /\ One(r, P) \in Nat
  BY IssueStarts
<1>2. /\ files \in [Fd -> Conn \cup {NULL}] /\ peer \in [Conn -> {"none", "open", "reset", "gone"}]
      /\ shut \subseteq Conn /\ requests \in Seq(Issued) /\ cq \in Seq(Completion)
  BY <1>1 DEF Types, TypeOK
<1>3. /\ requests' \in Seq(Issued) /\ ToSet(requests') \subseteq ToSet(requests)
      /\ requests[i] \in Issued /\ requests[i] \in ToSet(requests)
      /\ \A P : Num(requests, P) = Num(requests', P) + One(requests[i], P)
  BY <1>2, TakenIs
<1>4. q \in Named /\ q \in Underway
  BY <1>3 DEF Issued, Underway
<1>5. /\ r.op = "cancel" /\ requests[i].socket = files[r.fd] /\ q.op \in {"recv", "send"}
      /\ cq' = Append(cq, Cqe(r, "done", FALSE)) \o t
  OBVIOUS
<1> HIDE DEF r, q
<1>6. r.conn \in conns.closed /\ files[r.fd] = r.conn
  BY <1>1, <1>5, ClosingOwns DEF Closers
<1>7. ~IsOpen(World, q.conn)
  <2>1. IsOpen(World, q.conn) => requests[i].socket = q.conn
    BY <1>1, <1>3, <1>5 DEF Sound, OwnSockets, q
  <2> QED
    BY <1>5, <1>6, <2>1 DEF IsOpen, World
<1>8. "done" \in Results /\ "canceled" \in Results
  BY DEF Results
<1>9. /\ s \in Seq(Completion) /\ Paired(s)
      /\ \A A, B : Balanced(A, B) => Num(s, B) = One(r, A)
      /\ \A e \in ToSet(s) :
           /\ e.conn = r.conn /\ e.fd = r.fd /\ e.op \notin {"fd_pass", "timeout"}
           /\ e.op # "recv" /\ e.op # "close"
  <2>1. /\ s \in Seq(Completion) /\ Paired(s)
        /\ \A A, B : Balanced(A, B) => Num(s, B) = One(r, A)
        /\ \A e \in ToSet(s) :
             /\ e.conn = r.conn /\ e.fd = r.fd /\ e.op \notin {"fd_pass", "timeout"}
             /\ e.op = "recv" => e.op = r.op
             /\ e.op = "close" => e.res = "canceled" \/ r.op = "close"
    BY <1>1, <1>8, FailedIs
  <2>2. s = <<Cqe(r, "done", FALSE)>>
    BY <1>1, <1>2, <1>5, <1>8, AloneIs
  <2>3. \A e \in ToSet(s) : e.op = "cancel"
    <3> DEFINE x == Cqe(r, "done", FALSE)
    <3>1. x.op = "cancel"
      BY <1>5 DEF Cqe
    <3> HIDE DEF x, s
    <3>2. ToSet(s) = {x}
      BY <2>2, NumOne DEF x
    <3> QED
      BY <3>1, <3>2
  <2> HIDE DEF s
  <2> QED
    BY <2>1, <2>3
<1>10. /\ t \in Seq(Completion) /\ Paired(t)
       /\ \A A, B : Balanced(A, B) => Num(t, B) = One(q, A)
       /\ \A e \in ToSet(t) :
            /\ e.conn = q.conn /\ e.fd = q.fd /\ e.op \notin {"fd_pass", "timeout"}
            /\ e.op = "close" => e.res # "done"
  <2>1. /\ t \in Seq(Completion) /\ Paired(t)
        /\ \A A, B : Balanced(A, B) => Num(t, B) = One(q, A)
        /\ \A e \in ToSet(t) :
             /\ e.conn = q.conn /\ e.fd = q.fd /\ e.op \notin {"fd_pass", "timeout"}
             /\ e.op = "close" => e.res = "canceled" \/ (q.op = "close" /\ e.res = "canceled")
    BY <1>4, <1>8, FailedIs
  <2> HIDE DEF t
  <2> QED
    BY <2>1
<1>11. cq' = cq \o new
  <2>1. Append(cq, Cqe(r, "done", FALSE)) = cq \o s
    BY <1>1, <1>2, <1>5, <1>8, AloneIs
  <2> HIDE DEF s, t
  <2>2. (cq \o s) \o t = cq \o (s \o t)
    BY <1>2, <1>9, <1>10, ConcatAssociative, SMTT(30)
  <2> QED
    BY <1>5, <2>1, <2>2
<1> HIDE DEF s, t
<1>12. /\ new \in Seq(Completion) /\ Paired(new) /\ ToSet(new) = ToSet(s) \cup ToSet(t)
       /\ \A P : Num(new, P) = Num(s, P) + Num(t, P)
  BY <1>9, <1>10, ConcatIs, PairedConcat
<1> HIDE DEF new
<1>13. Underway' \subseteq Underway
  BY <1>1, <1>3 DEF Underway
<1>14. OwnSockets'
  BY <1>1, <1>3 DEF Sound, OwnSockets, IsOpen, World
<1>15. \A A, B : Balanced(A, B) => Total(A, B)' = Total(A, B)
  <2> SUFFICES ASSUME NEW A, NEW B, Balanced(A, B) PROVE Total(A, B)' = Total(A, B)
    OBVIOUS
  <2>1. One(requests[i], IssuedOf(A)) = One(q, A)
    BY <1>3 DEF One, IssuedOf, q
  <2>2. /\ Num(issuing, A) = One(r, A) + Num(issuing', A)
        /\ Num(requests, IssuedOf(A)) = Num(requests', IssuedOf(A)) + One(q, A)
        /\ Num(new, B) = One(r, A) + One(q, A)
        /\ Num(issuing', A) \in Nat /\ One(r, A) \in Nat /\ One(q, A) \in Nat
    BY <1>1, <1>3, <1>9, <1>10, <1>12, <2>1, SMTT(30) DEF One
  <2>3. Num(requests', IssuedOf(A)) \in Nat
    BY <1>3, NumType
  <2>4. Num(issuing', A) + Num(requests', IssuedOf(A)) + Num(new, B)
           = Num(issuing, A) + Num(requests, IssuedOf(A))
    BY <2>2, <2>3
  <2> QED
    BY <1>1, <1>3, <1>11, <1>12, <2>4, TotalsKeep
<1>16. \A e \in ToSet(new) :
        /\ e.op # "fd_pass"
        /\ e.op # "timeout" => \E x \in Underway : x \in Named /\ x.conn = e.conn /\ x.fd = e.fd
        /\ e.op = "recv" /\ e.res = "canceled" => ~IsOpen(World, e.conn)
        /\ e.op = "close" /\ e.res = "done" => \A f \in Fd : files'[f] # e.conn
  <2>1. ASSUME NEW e \in ToSet(s)
        PROVE  /\ e.op \notin {"fd_pass", "recv", "close"}
               /\ e.op # "timeout" => \E x \in Underway : x \in Named /\ x.conn = e.conn /\ x.fd = e.fd
    BY <1>1, <1>9
  <2>2. ASSUME NEW e \in ToSet(t)
        PROVE  /\ e.op # "fd_pass" /\ ~IsOpen(World, e.conn) /\ ~(e.op = "close" /\ e.res = "done")
               /\ e.op # "timeout" => \E x \in Underway : x \in Named /\ x.conn = e.conn /\ x.fd = e.fd
    BY <1>4, <1>7, <1>10
  <2> QED
    BY <1>12, <2>1, <2>2
<1> QED
  BY <1>1, <1>2, <1>3, <1>11, <1>12, <1>13, <1>14, <1>15, <1>16, KernelKeeps

(* Issuing the next request keeps the invariant. *)
LEMMA IssueKeeps ==
  ASSUME IInv, Issue
  PROVE  IInv'
<1>0. PICK r, socket : r = Head(issuing) /\ socket = files[r.fd]
  OBVIOUS
<1>1. /\ Running /\ issuing # <<>> /\ issuing' = Tail(issuing) /\ UNCHANGED <<conns, user_map, sq, ended>>
  BY DEF Issue
<1>2. \/ /\ r.op \in {"recv", "send", "shutdown"} /\ socket # NULL
         /\ requests' = Append(requests, [req |-> r, socket |-> socket])
         /\ UNCHANGED <<cq, files, peer, shut>>
      \/ cq' = cq \o Failed(r, "error") /\ UNCHANGED <<requests, files, peer, shut>>
      \/ /\ r.op = "cancel" /\ cq' = Append(cq, Cqe(r, "error", FALSE)) 
         /\ UNCHANGED <<requests, files, peer, shut>>
      \/ /\ r.op = "cancel" /\ socket # NULL /\ UNCHANGED <<files, peer, shut>>
         /\ \E i \in DOMAIN requests :
              /\ requests[i].socket = socket /\ requests[i].req.op \in {"recv", "send"}
              /\ cq' = Append(cq, Cqe(r, "done", FALSE)) \o Failed(requests[i].req, "canceled")
              /\ requests' = RemoveAt(requests, i)
      \/ /\ r.op = "close" /\ UNCHANGED requests
         /\ files' = [files EXCEPT ![r.fd] = NULL]
         /\ peer' = [c \in Conn |-> IF c = socket THEN "gone" ELSE peer[c]]
         /\ shut' = shut \ {socket}
         /\ cq' = Append(cq, Cqe(r, IF socket = NULL THEN "error" ELSE "done", FALSE))
  BY <1>0 DEF Issue
<1>3. CASE /\ r.op \in {"recv", "send", "shutdown"} /\ socket # NULL
           /\ requests' = Append(requests, [req |-> r, socket |-> socket])
           /\ UNCHANGED <<cq, files, peer, shut>>
  BY <1>0, <1>1, <1>3, IssueAppends
<1>4. CASE cq' = cq \o Failed(r, "error") /\ UNCHANGED <<requests, files, peer, shut>>
  BY <1>0, <1>1, <1>4, IssueFails
<1>5. CASE /\ r.op = "cancel" /\ cq' = Append(cq, Cqe(r, "error", FALSE))
           /\ UNCHANGED <<requests, files, peer, shut>>
  <2>1. r \in Named /\ cq \in Seq(Completion) /\ "error" \in Results
    BY <1>0, <1>1, IssueStarts DEF Types, Results
  <2>2. cq' = cq \o Failed(r, "error")
    BY <1>5, <2>1, AloneIs
  <2> QED
    BY <1>0, <1>1, <1>5, <2>2, IssueFails
<1>6. CASE /\ r.op = "cancel" /\ socket # NULL /\ UNCHANGED <<files, peer, shut>>
           /\ \E i \in DOMAIN requests :
                /\ requests[i].socket = socket /\ requests[i].req.op \in {"recv", "send"}
                /\ cq' = Append(cq, Cqe(r, "done", FALSE)) \o Failed(requests[i].req, "canceled")
                /\ requests' = RemoveAt(requests, i)
  BY <1>0, <1>1, <1>6, IssueCancels
<1>7. CASE /\ r.op = "close" /\ UNCHANGED requests
           /\ files' = [files EXCEPT ![r.fd] = NULL]
           /\ peer' = [c \in Conn |-> IF c = socket THEN "gone" ELSE peer[c]]
           /\ shut' = shut \ {socket}
           /\ cq' = Append(cq, Cqe(r, IF socket = NULL THEN "error" ELSE "done", FALSE))
  BY <1>0, <1>1, <1>7, IssueCloses
<1> QED
  BY <1>2, <1>3, <1>4, <1>5, <1>6, <1>7

(* A request that is with the kernel. *)
LEMMA RequestIs ==
  ASSUME Types, Sound, NEW i \in DOMAIN requests
  PROVE  /\ requests \in Seq(Issued) /\ requests[i] \in Issued /\ requests[i] \in ToSet(requests)
         /\ requests[i].req \in Named /\ requests[i].req \in Underway
         /\ requests[i].req.conn \in Conn /\ requests[i].req.fd \in Fd
         /\ RemoveAt(requests, i) \in Seq(Issued) /\ ToSet(RemoveAt(requests, i)) \subseteq ToSet(requests)
         /\ \A A : /\ Num(requests, IssuedOf(A))
                        = Num(RemoveAt(requests, i), IssuedOf(A)) + One(requests[i].req, A)
                   /\ Num(RemoveAt(requests, i), IssuedOf(A)) \in Nat /\ One(requests[i].req, A) \in Nat
<1>1. requests \in Seq(Issued)
  BY DEF Types
<1>2. /\ RemoveAt(requests, i) \in Seq(Issued) /\ ToSet(RemoveAt(requests, i)) \subseteq ToSet(requests)
      /\ requests[i] \in Issued /\ requests[i] \in ToSet(requests)
      /\ \A P : Num(requests, P) = Num(RemoveAt(requests, i), P) + One(requests[i], P)
  BY <1>1, TakenIs
<1>3. requests[i].req \in Named /\ requests[i].req \in Underway
  BY <1>2 DEF Issued, Underway
<1>4. requests[i].req.conn \in Conn /\ requests[i].req.fd \in Fd
  BY <1>3 DEF Named, Plain, Chained
<1>5. \A A : /\ Num(requests, IssuedOf(A))
                  = Num(RemoveAt(requests, i), IssuedOf(A)) + One(requests[i].req, A)
             /\ Num(RemoveAt(requests, i), IssuedOf(A)) \in Nat /\ One(requests[i].req, A) \in Nat
  <2> SUFFICES ASSUME NEW A
               PROVE  /\ Num(requests, IssuedOf(A))
                           = Num(RemoveAt(requests, i), IssuedOf(A)) + One(requests[i].req, A)
                      /\ Num(RemoveAt(requests, i), IssuedOf(A)) \in Nat /\ One(requests[i].req, A) \in Nat
    OBVIOUS
  <2>1. One(requests[i], IssuedOf(A)) = One(requests[i].req, A)
    BY <1>2 DEF One, IssuedOf
  <2>2. Num(RemoveAt(requests, i), IssuedOf(A)) \in Nat
    BY <1>2, NumType
  <2>3. Num(requests, IssuedOf(A)) = Num(RemoveAt(requests, i), IssuedOf(A)) + One(requests[i], IssuedOf(A))
    BY <1>2
  <2> QED
    BY <2>1, <2>2, <2>3 DEF One
<1> QED
  BY <1>1, <1>2, <1>3, <1>4, <1>5

(* A request ends and what is linked behind it does not happen. *)
LEMMA FailsKeep ==
  ASSUME IInv, Running, NEW i \in DOMAIN requests, NEW res \in Results,
         requests[i].req.op # "close", res # "canceled",
         UNCHANGED <<conns, user_map, sq, issuing, files, ended>>,
         requests' = RemoveAt(requests, i), cq' = cq \o Failed(requests[i].req, res),
         peer' \in [Conn -> {"none", "open", "reset", "gone"}],
         \A c \in Conn : peer[c] # "none" => peer'[c] # "none",
         shut' \subseteq Conn
  PROVE  IInv'
<1> DEFINE r == requests[i].req
           new == Failed(r, res)
<1>1. Types /\ SlotsAreOwned /\ Sound
  BY DEF IInv
<1>2. /\ r \in Named /\ r \in Underway
      /\ requests' \in Seq(Issued) /\ ToSet(requests') \subseteq ToSet(requests)
      /\ \A A : /\ Num(requests, IssuedOf(A)) = Num(requests', IssuedOf(A)) + One(r, A)
                /\ Num(requests', IssuedOf(A)) \in Nat /\ One(r, A) \in Nat
  BY <1>1, RequestIs
<1>3. r.op # "close" /\ cq' = cq \o new
  OBVIOUS
<1> HIDE DEF r
<1>4. /\ new \in Seq(Completion) /\ Paired(new)
      /\ \A A, B : Balanced(A, B) => Num(new, B) = One(r, A)
      /\ \A e \in ToSet(new) :
           /\ e.conn = r.conn /\ e.fd = r.fd /\ e.op \notin {"fd_pass", "timeout"}
           /\ e.op = "recv" => e.res # "canceled"
           /\ e.op = "close" => e.res # "done"
  <2>1. /\ new \in Seq(Completion) /\ Paired(new)
        /\ \A A, B : Balanced(A, B) => Num(new, B) = One(r, A)
        /\ \A e \in ToSet(new) :
             /\ e.conn = r.conn /\ e.fd = r.fd /\ e.op \notin {"fd_pass", "timeout"}
             /\ e.op = "recv" => e.res = res
             /\ e.op = "close" => e.res = "canceled" \/ r.op = "close"
    BY <1>2, FailedIs
  <2> HIDE DEF new
  <2> QED
    BY <1>3, <2>1
<1> HIDE DEF new
<1>5. /\ files \in [Fd -> Conn \cup {NULL}] /\ issuing \in Seq(Named)
  BY <1>1 DEF Types, TypeOK
<1>6. Underway' \subseteq Underway
  BY <1>2 DEF Underway
<1>7. OwnSockets'
  BY <1>1, <1>2 DEF Sound, OwnSockets, IsOpen, World
<1>8. \A A, B : Balanced(A, B) => Total(A, B)' = Total(A, B)
  <2> SUFFICES ASSUME NEW A, NEW B, Balanced(A, B) PROVE Total(A, B)' = Total(A, B)
    OBVIOUS
  <2>1. /\ Num(issuing', A) = Num(issuing, A) /\ Num(issuing, A) \in Nat
        /\ Num(requests, IssuedOf(A)) = Num(requests', IssuedOf(A)) + One(r, A)
        /\ Num(new, B) = One(r, A)
        /\ One(r, A) \in Nat /\ Num(requests', IssuedOf(A)) \in Nat
    BY <1>1, <1>2, <1>4, TotalIs
  <2>2. Num(issuing', A) + Num(requests', IssuedOf(A)) + Num(new, B)
           = Num(issuing, A) + Num(requests, IssuedOf(A))
    BY <2>1
  <2> QED
    BY <1>1, <1>2, <1>3, <1>4, <1>5, <2>2, TotalsKeep
<1>9. \A e \in ToSet(new) :
        /\ e.op # "fd_pass"
        /\ e.op # "timeout" => \E s \in Underway : s \in Named /\ s.conn = e.conn /\ s.fd = e.fd
        /\ e.op = "recv" /\ e.res = "canceled" => ~IsOpen(World, e.conn)
        /\ e.op = "close" /\ e.res = "done" => \A f \in Fd : files'[f] # e.conn
  BY <1>2, <1>4
<1> QED
  BY <1>1, <1>2, <1>3, <1>4, <1>5, <1>6, <1>7, <1>8, <1>9, KernelKeeps

(* A request ends well: what is linked behind it counts for it. *)
LEMMA DoneKeeps ==
  ASSUME IInv, Running, issuing = <<>>, NEW i \in DOMAIN requests,
         NEW new \in Seq(Completion), Paired(new),
         \A A, B : Balanced(A, B) =>
            Num(new, B) + (IF requests[i].req.link = NULL THEN 0 ELSE One(requests[i].req.link, A))
              = One(requests[i].req, A),
         \A e \in ToSet(new) : /\ e.op \notin {"fd_pass", "timeout", "recv", "close"}
                               /\ e.conn = requests[i].req.conn /\ e.fd = requests[i].req.fd,
         UNCHANGED <<conns, user_map, sq, files, peer, ended>>,
         Done(i, new), shut' \subseteq Conn
  PROVE  IInv'
<1> DEFINE r == requests[i].req
<1>1. Types /\ SlotsAreOwned /\ Sound
  BY DEF IInv
<1>2. /\ r \in Named /\ r \in Underway
      /\ RemoveAt(requests, i) \in Seq(Issued) /\ ToSet(RemoveAt(requests, i)) \subseteq ToSet(requests)
      /\ \A A : /\ Num(requests, IssuedOf(A)) = Num(RemoveAt(requests, i), IssuedOf(A)) + One(r, A)
                /\ Num(RemoveAt(requests, i), IssuedOf(A)) \in Nat /\ One(r, A) \in Nat
  BY <1>1, RequestIs
<1>3. /\ requests' = RemoveAt(requests, i) /\ cq' = cq \o new
      /\ issuing' = IF r.link = NULL THEN <<>> ELSE <<r.link>>
  BY DEF Done
<1>4. /\ \A A, B : Balanced(A, B) => Num(new, B) + (IF r.link = NULL THEN 0 ELSE One(r.link, A)) = One(r, A)
      /\ \A e \in ToSet(new) : /\ e.op \notin {"fd_pass", "timeout", "recv", "close"}
                               /\ e.conn = r.conn /\ e.fd = r.fd
  OBVIOUS
<1> HIDE DEF r
<1>5. /\ files \in [Fd -> Conn \cup {NULL}] /\ peer \in [Conn -> {"none", "open", "reset", "gone"}]
  BY <1>1 DEF Types, TypeOK
<1>6. /\ issuing' \in Seq(Named)
      /\ \A A : Num(issuing', A) = (IF r.link = NULL THEN 0 ELSE One(r.link, A))
      /\ \A x \in ToSet(issuing') : x.conn = r.conn /\ x.fd = r.fd
  <2>1. CASE r.link = NULL
    <3>1. issuing' = <<>>
      BY <1>3, <2>1
    <3>2. <<>> \in Seq(Named)
      OBVIOUS
    <3> QED
      BY <2>1, <3>1, <3>2, NumEmpty
  <2>2. CASE r.link # NULL
    <3> DEFINE x == r.link
               s == <<x>>
    <3>1. x \in Named /\ x.conn = r.conn /\ x.fd = r.fd /\ issuing' = s
      BY <1>2, <1>3, <2>2, LinkIs
    <3> HIDE DEF x
    <3>2. s \in Seq(Named) /\ ToSet(s) = {x} /\ \A A : Num(s, A) = One(x, A)
      <4>1. s \in Seq(Named)
        BY <3>1
      <4>2. ToSet(s) = {x} /\ \A A : Num(s, A) = One(x, A)
        BY NumOne
      <4> QED
        BY <4>1, <4>2
    <3> HIDE DEF s
    <3> QED
      BY <2>2, <3>1, <3>2 DEF x
  <2> QED
    BY <2>1, <2>2
<1>7. \A x \in Underway' : x \in Named =>
        \E s \in Underway : s \in Named /\ s.conn = x.conn /\ s.fd = x.fd
  <2> SUFFICES ASSUME NEW x \in Underway', x \in Named
               PROVE  \E s \in Underway : s \in Named /\ s.conn = x.conn /\ s.fd = x.fd
    OBVIOUS
  <2>1. x \in Underway \/ x \in ToSet(issuing')
    BY <1>2, <1>3 DEF Underway
  <2> QED
    BY <1>2, <1>6, <2>1
<1>8. OwnSockets'
  BY <1>1, <1>2, <1>3 DEF Sound, OwnSockets, IsOpen, World
<1>9. \A A, B : Balanced(A, B) => Total(A, B)' = Total(A, B)
  <2> SUFFICES ASSUME NEW A, NEW B, Balanced(A, B) PROVE Total(A, B)' = Total(A, B)
    OBVIOUS
  <2> DEFINE k == IF r.link = NULL THEN 0 ELSE One(r.link, A)
  <2>1. /\ Num(issuing', A) = k /\ Num(issuing, A) = 0
        /\ Num(requests, IssuedOf(A)) = Num(requests', IssuedOf(A)) + One(r, A)
        /\ Num(new, B) + k = One(r, A)
        /\ One(r, A) \in Nat /\ Num(requests', IssuedOf(A)) \in Nat
    BY <1>2, <1>3, <1>4, <1>6, NumEmpty
  <2>2. Num(new, B) \in Nat /\ k \in Nat
    BY NumType DEF One
  <2> HIDE DEF k
  <2>3. Num(issuing', A) + Num(requests', IssuedOf(A)) + Num(new, B)
           = Num(issuing, A) + Num(requests, IssuedOf(A))
    BY <2>1, <2>2
  <2> QED
    BY <1>1, <1>2, <1>3, <1>6, <2>3, TotalsKeep
<1>10. \A e \in ToSet(new) :
        /\ e.op # "fd_pass"
        /\ e.op # "timeout" => \E s \in Underway : s \in Named /\ s.conn = e.conn /\ s.fd = e.fd
        /\ e.op = "recv" /\ e.res = "canceled" => ~IsOpen(World, e.conn)
        /\ e.op = "close" /\ e.res = "done" => \A f \in Fd : files'[f] # e.conn
  BY <1>2, <1>4
<1> QED
  BY <1>1, <1>2, <1>3, <1>5, <1>6, <1>7, <1>8, <1>9, <1>10, KernelKeeps

(* A client that resets its end. *)
LEMMA ResetIs ==
  ASSUME Types, NEW c \in Conn, UNCHANGED peer \/ IsReset(c)
  PROVE  /\ peer' \in [Conn -> {"none", "open", "reset", "gone"}]
         /\ \A d \in Conn : peer[d] # "none" => peer'[d] # "none"
<1>1. peer \in [Conn -> {"none", "open", "reset", "gone"}]
  BY DEF Types, TypeOK
<1> QED
  BY <1>1 DEF IsReset

(* Data for a receive that goes on. *)
LEMMA DataKeeps ==
  ASSUME IInv, Running, NEW i \in DOMAIN requests, requests[i].req.op = "recv",
         UNCHANGED <<conns, user_map, sq, issuing, requests, files, peer, shut, ended>>,
         cq' = Append(cq, Cqe(requests[i].req, "data", TRUE))
  PROVE  IInv'
<1> DEFINE r == requests[i].req
           x == Cqe(r, "data", TRUE)
           new == <<x>>
<1>1. Types /\ SlotsAreOwned /\ Sound
  BY DEF IInv
<1>2. r \in Named /\ r \in Underway
  BY <1>1, RequestIs
<1>3. /\ files \in [Fd -> Conn \cup {NULL}] /\ peer \in [Conn -> {"none", "open", "reset", "gone"}]
      /\ shut \subseteq Conn /\ requests \in Seq(Issued) /\ issuing \in Seq(Named) /\ cq \in Seq(Completion)
  BY <1>1 DEF Types, TypeOK
<1>4. x \in Completion /\ x.op = "recv" /\ x.res = "data" /\ x.conn = r.conn /\ x.fd = r.fd
  <2>1. "data" \in Results /\ r.op = "recv"
    BY DEF Results
  <2> HIDE DEF r
  <2> QED
    BY <1>2, <2>1, CqeIs
<1>5. \A A, B : Balanced(A, B) => One(x, B) = 0
  BY <1>2 DEF Balanced
<1> HIDE DEF r, x
<1>6. /\ new \in Seq(Completion) /\ cq' = cq \o new /\ ToSet(new) = {x} /\ Paired(new)
      /\ \A P : Num(new, P) = One(x, P)
  <2>1. new \in Seq(Completion)
    BY <1>4
  <2>2. ToSet(new) = {x} /\ \A P : Num(new, P) = One(x, P)
    BY NumOne
  <2>3. Append(cq, x) = cq \o new
    BY <1>3, <1>4, AppendIsConcat
  <2>4. DOMAIN new = {1} /\ new[1] = x
    OBVIOUS
  <2> HIDE DEF new
  <2>5. Paired(new)
    BY <1>4, <2>4 DEF Paired
  <2> QED
    BY <2>1, <2>2, <2>3, <2>5 DEF x, r
<1> HIDE DEF new
<1>7. Underway' = Underway
  BY DEF Underway
<1>8. OwnSockets'
  BY <1>1 DEF Sound, OwnSockets, IsOpen, World
<1>9. \A A, B : Balanced(A, B) => Total(A, B)' = Total(A, B)
  <2> SUFFICES ASSUME NEW A, NEW B, Balanced(A, B) PROVE Total(A, B)' = Total(A, B)
    OBVIOUS
  <2>1. /\ Num(issuing', A) = Num(issuing, A) /\ Num(issuing, A) \in Nat
        /\ Num(requests', IssuedOf(A)) = Num(requests, IssuedOf(A)) /\ Num(requests, IssuedOf(A)) \in Nat
        /\ Num(new, B) = 0
    BY <1>1, <1>5, <1>6, TotalIs
  <2>2. Num(issuing', A) + Num(requests', IssuedOf(A)) + Num(new, B)
           = Num(issuing, A) + Num(requests, IssuedOf(A))
    BY <2>1
  <2> QED
    BY <1>1, <1>3, <1>6, <2>2, TotalsKeep
<1> QED
  BY <1>1, <1>2, <1>3, <1>4, <1>6, <1>7, <1>8, <1>9, KernelKeeps

(* A receive that has data, or ends with an error or at the end of the   *)
(* stream.                                                               *)
LEMMA RecvCompletesKeeps ==
  ASSUME IInv, NEW i \in DOMAIN requests, RecvCompletes(i)
  PROVE  IInv'
<1>1. Types /\ Sound /\ Running
  BY DEF IInv, RecvCompletes, Calm
<1>2. requests[i].socket \in Conn /\ requests[i].req \in Named /\ cq \in Seq(Completion) /\ shut \subseteq Conn
  BY <1>1, RequestIs DEF Issued, Types, TypeOK
<1>3. /\ requests[i].req.op = "recv"
      /\ UNCHANGED <<conns, user_map, sq, issuing, files, shut, ended>>
  BY DEF RecvCompletes
<1>4. \/ cq' = Append(cq, Cqe(requests[i].req, "data", TRUE)) /\ UNCHANGED <<requests, peer>>
      \/ /\ requests' = RemoveAt(requests, i)
         /\ UNCHANGED peer \/ IsReset(requests[i].socket)
         /\ \E res \in {"data", "nobufs", "end", "error"} : cq' = Append(cq, Cqe(requests[i].req, res, FALSE))
  BY DEF RecvCompletes
<1>5. CASE cq' = Append(cq, Cqe(requests[i].req, "data", TRUE)) /\ UNCHANGED <<requests, peer>>
  BY <1>1, <1>3, <1>5, DataKeeps
<1>6. ASSUME NEW res \in {"data", "nobufs", "end", "error"},
             cq' = Append(cq, Cqe(requests[i].req, res, FALSE)),
             requests' = RemoveAt(requests, i), UNCHANGED peer \/ IsReset(requests[i].socket)
      PROVE  IInv'
  <2>1. res \in Results /\ res # "canceled" /\ requests[i].req.op # "close"
    BY <1>3, <1>6 DEF Results
  <2>2. cq' = cq \o Failed(requests[i].req, res)
    BY <1>2, <1>3, <1>6, <2>1, AloneIs
  <2>3. /\ peer' \in [Conn -> {"none", "open", "reset", "gone"}]
        /\ \A d \in Conn : peer[d] # "none" => peer'[d] # "none"
    BY <1>1, <1>2, <1>6, ResetIs
  <2>4. shut' \subseteq Conn
    BY <1>2, <1>3
  <2> QED
    BY <1>1, <1>3, <1>6, <2>1, <2>2, <2>3, <2>4, FailsKeep
<1> QED
  BY <1>4, <1>5, <1>6

(* A send that completes, falls short or fails, with the request that is *)
(* linked behind it.                                                     *)
LEMMA SendCompletesKeeps ==
  ASSUME IInv, NEW i \in DOMAIN requests, SendCompletes(i)
  PROVE  IInv'
<1> DEFINE r == requests[i].req
           c == requests[i].socket
<1>1. Types /\ Sound /\ Running /\ issuing = <<>>
  BY DEF IInv, SendCompletes, Calm
<1>2. c \in Conn /\ r \in Named /\ shut \subseteq Conn
  BY <1>1, RequestIs DEF Issued, Types, TypeOK
<1>3. r.op = "send" /\ UNCHANGED <<conns, user_map, sq, files, shut, ended>>
  BY DEF SendCompletes
<1>4. \/ Done(i, <<Cqe(r, "done", FALSE)>>) /\ UNCHANGED peer
      \/ /\ \E res \in {"done", "error"} : Fails(i, res)
         /\ UNCHANGED peer \/ IsReset(c)
  BY DEF SendCompletes
<1>5. CASE Done(i, <<Cqe(r, "done", FALSE)>>) /\ UNCHANGED peer
  <2> DEFINE x == Cqe(r, "done", FALSE)
             new == <<x>>
  <2>1. "done" \in Results
    BY DEF Results
  <2>2. \A A, B : Balanced(A, B) => One(x, B) + (IF r.link = NULL THEN 0 ELSE One(r.link, A)) = One(r, A)
    BY <1>2, <2>1 DEF Balanced
  <2>3. x.op = "send" /\ x.conn = r.conn /\ x.fd = r.fd /\ x \in Completion
    <3> HIDE DEF r
    <3> QED
      BY <1>2, <1>3, <2>1, CqeIs
  <2>4. Done(i, new)
    BY <1>5
  <2> HIDE DEF x
  <2>5. new \in Seq(Completion) /\ ToSet(new) = {x} /\ (\A P : Num(new, P) = One(x, P)) /\ Paired(new)
    <3>1. new \in Seq(Completion)
      BY <2>3
    <3>2. ToSet(new) = {x} /\ \A P : Num(new, P) = One(x, P)
      BY NumOne
    <3>3. DOMAIN new = {1} /\ new[1] = x
      OBVIOUS
    <3> HIDE DEF new
    <3>4. Paired(new)
      BY <2>3, <3>3 DEF Paired
    <3> QED
      BY <3>1, <3>2, <3>4
  <2> HIDE DEF new
  <2>6. \A e \in ToSet(new) : /\ e.op \notin {"fd_pass", "timeout", "recv", "close"}
                              /\ e.conn = r.conn /\ e.fd = r.fd
    BY <2>3, <2>5
  <2>7. shut' \subseteq Conn
    BY <1>2, <1>3
  <2>8. \A A, B : Balanced(A, B) => Num(new, B) + (IF r.link = NULL THEN 0 ELSE One(r.link, A)) = One(r, A)
    BY <2>2, <2>5
  <2> QED
    BY <1>1, <1>3, <1>5, <2>4, <2>5, <2>6, <2>7, <2>8, DoneKeeps
<1>6. ASSUME NEW res \in {"done", "error"}, Fails(i, res), UNCHANGED peer \/ IsReset(c)
      PROVE  IInv'
  <2>1. res \in Results /\ res # "canceled" /\ r.op # "close"
    BY <1>3, <1>6 DEF Results
  <2>2. cq' = cq \o Failed(r, res) /\ requests' = RemoveAt(requests, i) /\ UNCHANGED issuing
    BY <1>6 DEF Fails
  <2>3. /\ peer' \in [Conn -> {"none", "open", "reset", "gone"}]
        /\ \A d \in Conn : peer[d] # "none" => peer'[d] # "none"
    BY <1>1, <1>2, <1>6, ResetIs
  <2>4. shut' \subseteq Conn
    BY <1>2, <1>3
  <2> QED
    BY <1>1, <1>3, <2>1, <2>2, <2>3, <2>4, FailsKeep
<1> QED
  BY <1>4, <1>5, <1>6

(* A shutdown that succeeds, or fails and cancels the close behind it. *)
LEMMA ShutdownCompletesKeeps ==
  ASSUME IInv, NEW i \in DOMAIN requests, ShutdownCompletes(i)
  PROVE  IInv'
<1> DEFINE r == requests[i].req
           c == requests[i].socket
<1>1. Types /\ Sound /\ Running /\ issuing = <<>>
  BY DEF IInv, ShutdownCompletes, Calm
<1>2. c \in Conn /\ r \in Named /\ shut \subseteq Conn
  BY <1>1, RequestIs DEF Issued, Types, TypeOK
<1>3. r.op = "shutdown" /\ UNCHANGED <<conns, user_map, sq, files, ended>>
  BY DEF ShutdownCompletes
<1>4. \/ Fails(i, "error") /\ IsReset(c) /\ UNCHANGED shut
      \/ Done(i, <<>>) /\ shut' = shut \cup {c} /\ UNCHANGED peer
  BY DEF ShutdownCompletes
<1>5. CASE Fails(i, "error") /\ IsReset(c) /\ UNCHANGED shut
  <2>1. "error" \in Results /\ r.op # "close"
    BY <1>3 DEF Results
  <2>2. cq' = cq \o Failed(r, "error") /\ requests' = RemoveAt(requests, i) /\ UNCHANGED issuing
    BY <1>5 DEF Fails
  <2>3. /\ peer' \in [Conn -> {"none", "open", "reset", "gone"}]
        /\ \A d \in Conn : peer[d] # "none" => peer'[d] # "none"
    BY <1>1, <1>2, <1>5, ResetIs
  <2>4. shut' \subseteq Conn
    BY <1>2, <1>5
  <2> QED
    BY <1>1, <1>3, <2>1, <2>2, <2>3, <2>4, FailsKeep
<1>6. CASE Done(i, <<>>) /\ shut' = shut \cup {c} /\ UNCHANGED peer
  <2> DEFINE new == <<>>
  <2>1. r.link # NULL
    <3> HIDE DEF r
    <3> QED
      BY <1>2, <1>3, LinksAre DEF Named, Plain, Request
  <2>2. \A A, B : Balanced(A, B) => One(r.link, A) = One(r, A)
    BY <1>2, <1>3 DEF Balanced
  <2>3. /\ new \in Seq(Completion) /\ Paired(new) /\ ToSet(new) = {} /\ \A P : Num(new, P) = 0
    BY NumEmpty DEF Paired
  <2>4. Done(i, new)
    BY <1>6
  <2>5. shut' \subseteq Conn
    BY <1>2, <1>6
  <2> HIDE DEF new
  <2>6. \A A, B : Balanced(A, B) => Num(new, B) + (IF r.link = NULL THEN 0 ELSE One(r.link, A)) = One(r, A)
    BY <2>1, <2>2, <2>3 DEF One
  <2> QED
    BY <1>1, <1>3, <1>6, <2>3, <2>4, <2>5, <2>6, DoneKeeps
<1> QED
  BY <1>4, <1>5, <1>6

(* Completions that are not of a request, field by field. *)
LEMMA EventIs ==
  /\ LET x == Cqe(Req("timeout", NULL, NULL), "done", FALSE)
     IN x \in Completion /\ x.op = "timeout"
  /\ \A c \in Conn :
       LET x == Cqe(Req("fd_pass", c, NULL), "nfile", FALSE)
       IN x \in Completion /\ x.op = "fd_pass" /\ x.conn = c /\ x.res = "nfile"
<1>1. LET x == Cqe(Req("timeout", NULL, NULL), "done", FALSE)
      IN x \in Completion /\ x.op = "timeout"
  <2> DEFINE x == Cqe(Req("timeout", NULL, NULL), "done", FALSE)
  <2>1. x \in Cqes /\ x.op = "timeout" /\ x.more = FALSE
    BY DEF Cqe, Req, Cqes
  <2> HIDE DEF x
  <2>2. x \in Completion
    BY <2>1 DEF Completion
  <2> QED
    BY <2>1, <2>2 DEF x
<1>2. ASSUME NEW c \in Conn
      PROVE  LET x == Cqe(Req("fd_pass", c, NULL), "nfile", FALSE)
             IN x \in Completion /\ x.op = "fd_pass" /\ x.conn = c /\ x.res = "nfile"
  <2> DEFINE x == Cqe(Req("fd_pass", c, NULL), "nfile", FALSE)
  <2>1. x \in Cqes /\ x.op = "fd_pass" /\ x.conn = c /\ x.res = "nfile" /\ x.more = FALSE
    BY <1>2 DEF Cqe, Req, Cqes
  <2> HIDE DEF x
  <2>2. x \in Completion
    BY <1>2, <2>1 DEF Completion
  <2> QED
    BY <2>1, <2>2 DEF x
<1> QED
  BY <1>1, <1>2

(* One more completion, not of a request. *)
LEMMA ToldIs ==
  ASSUME Types, NEW x \in Completion, x.op \in {"timeout", "fd_pass"}, cq' = Append(cq, x),
         UNCHANGED <<sq, issuing, requests>>
  PROVE  /\ <<x>> \in Seq(Completion) /\ cq' = cq \o <<x>> /\ cq' \in Seq(Completion)
         /\ ToSet(<<x>>) = {x} /\ Told' = Told \cup {x} /\ Paired(<<x>>)
         /\ \A P : Num(cq', P) = Num(cq, P) + One(x, P) /\ Num(cq, P) \in Nat
         /\ \A A, B : Balanced(A, B) => Total(A, B)' = Total(A, B)
<1> DEFINE new == <<x>>
<1>1. cq \in Seq(Completion) /\ issuing \in Seq(Named) /\ requests \in Seq(Issued)
  BY DEF Types
<1>2. new \in Seq(Completion)
  OBVIOUS
<1>3. ToSet(new) = {x} /\ \A P : Num(new, P) = One(x, P)
  BY NumOne
<1>4. cq' = cq \o new
  BY <1>1, AppendIsConcat
<1>5. DOMAIN new = {1} /\ new[1] = x
  OBVIOUS
<1> HIDE DEF new
<1>6. Paired(new)
  BY <1>5 DEF Paired
<1>7. /\ cq' \in Seq(Completion) /\ Told' = Told \cup {x}
      /\ \A P : Num(cq', P) = Num(cq, P) + One(x, P) /\ Num(cq, P) \in Nat
  BY <1>1, <1>2, <1>3, <1>4, ConcatIs DEF Told
<1>8. \A A, B : Balanced(A, B) => Total(A, B)' = Total(A, B)
  <2> SUFFICES ASSUME NEW A, NEW B, Balanced(A, B) PROVE Total(A, B)' = Total(A, B)
    OBVIOUS
  <2>1. One(x, B) = 0
    BY DEF Balanced, One
  <2>2. /\ Num(issuing', A) = Num(issuing, A) /\ Num(issuing, A) \in Nat
        /\ Num(requests', IssuedOf(A)) = Num(requests, IssuedOf(A)) /\ Num(requests, IssuedOf(A)) \in Nat
        /\ Num(new, B) = 0
    BY <1>3, <2>1, TotalIs
  <2>3. Num(issuing', A) + Num(requests', IssuedOf(A)) + Num(new, B)
           = Num(issuing, A) + Num(requests, IssuedOf(A))
    BY <2>2
  <2> QED
    BY <1>1, <1>2, <1>4, <2>3, TotalsKeep
<1> QED
  BY <1>2, <1>3, <1>4, <1>6, <1>7, <1>8 DEF new

(* The timeout of the loop. *)
LEMMA TickKeeps ==
  ASSUME IInv, Tick
  PROVE  IInv'
<1> DEFINE x == Cqe(Req("timeout", NULL, NULL), "done", FALSE)
           new == <<x>>
<1>1. Types /\ SlotsAreOwned /\ Sound /\ Running
  BY DEF IInv, Tick, Calm
<1>2. /\ cq' = Append(cq, x)
      /\ UNCHANGED <<conns, user_map, sq, issuing, requests, files, peer, shut, ended>>
  BY DEF Tick, kernel
<1>3. x \in Completion /\ x.op = "timeout"
  BY EventIs
<1>4. /\ files \in [Fd -> Conn \cup {NULL}] /\ peer \in [Conn -> {"none", "open", "reset", "gone"}]
      /\ shut \subseteq Conn /\ requests \in Seq(Issued) /\ issuing \in Seq(Named)
  BY <1>1 DEF Types, TypeOK
<1> HIDE DEF x
<1>5. /\ new \in Seq(Completion) /\ cq' = cq \o new /\ ToSet(new) = {x} /\ Paired(new)
      /\ \A A, B : Balanced(A, B) => Total(A, B)' = Total(A, B)
  BY <1>1, <1>2, <1>3, ToldIs
<1> HIDE DEF new
<1>6. Underway' = Underway
  BY <1>2 DEF Underway
<1>7. OwnSockets'
  BY <1>1, <1>2 DEF Sound, OwnSockets, IsOpen, World
<1> QED
  BY <1>1, <1>2, <1>3, <1>4, <1>5, <1>6, <1>7, KernelKeeps

(* Requests that are submitted behind others. *)
LEMMA JoinedIs ==
  ASSUME NEW s \in Seq(Named), NEW t \in Seq(Named)
  PROVE  /\ s \o t \in Seq(Named) /\ ToSet(s \o t) = ToSet(s) \cup ToSet(t)
         /\ \A P : Num(s \o t, P) = Num(s, P) + Num(t, P)
  BY NumConcat

(* What is prepared is submitted: it names connections, as the loop has     *)
(* handled every completion.                                                *)
LEMMA SubmitKeeps ==
  ASSUME IInv, Submit
  PROVE  IInv'
<1> DEFINE new == <<>>
<1>1. Types /\ SlotsAreOwned /\ Sound /\ Running
  BY DEF IInv, Submit
<1>2. /\ cq = <<>> /\ issuing' = issuing \o sq /\ sq' = <<>>
      /\ UNCHANGED <<conns, user_map, requests, files, peer, shut, cq, ended>>
  BY DEF Submit, kernel
<1>3. sq \in Seq(Named)
  BY <1>1, <1>2 DEF Sound, NamelessEnds
<1>4. /\ files \in [Fd -> Conn \cup {NULL}] /\ peer \in [Conn -> {"none", "open", "reset", "gone"}]
      /\ shut \subseteq Conn /\ requests \in Seq(Issued) /\ issuing \in Seq(Named)
  BY <1>1 DEF Types, TypeOK
<1>5. /\ issuing' \in Seq(Named) /\ ToSet(issuing') = ToSet(issuing) \cup ToSet(sq)
      /\ \A P : Num(issuing', P) = Num(issuing, P) + Num(sq, P)
  BY <1>2, <1>3, <1>4, JoinedIs
<1>6. sq' \in Seq(Named) /\ ToSet(sq') = {} /\ \A P : Num(sq', P) = 0
  <2>1. <<>> \in Seq(Named)
    OBVIOUS
  <2> QED
    BY <1>2, <2>1, NumEmpty
<1>7. /\ new \in Seq(Completion) /\ cq' = cq \o new /\ ToSet(new) = {} /\ Paired(new)
  <2>1. cq = <<>> /\ cq' = <<>>
    BY <1>2
  <2> QED
    BY <2>1, NumEmpty DEF Paired
<1> HIDE DEF new
<1>8. Underway' \subseteq Underway
  BY <1>2, <1>5, <1>6 DEF Underway
<1>9. OwnSockets'
  BY <1>1, <1>2 DEF Sound, OwnSockets, IsOpen, World
<1>10. \A A, B : Total(A, B)' = Total(A, B)
  <2> SUFFICES ASSUME NEW A, NEW B PROVE Total(A, B)' = Total(A, B)
    OBVIOUS
  <2>1. /\ Num(sq, A) \in Nat /\ Num(issuing, A) \in Nat
        /\ Num(requests, IssuedOf(A)) \in Nat /\ Num(cq, B) \in Nat
    BY <1>1, TotalIs
  <2>2. /\ Num(sq', A) = 0 /\ Num(issuing', A) = Num(issuing, A) + Num(sq, A)
        /\ Num(requests', IssuedOf(A)) = Num(requests, IssuedOf(A)) /\ Num(cq', B) = Num(cq, B)
    BY <1>2, <1>5, <1>6
  <2>3. Num(sq', A) + Num(issuing', A) + Num(requests', IssuedOf(A)) + Num(cq', B)
          = Num(sq, A) + Num(issuing, A) + Num(requests, IssuedOf(A)) + Num(cq, B)
    BY <2>1, <2>2
  <2> QED
    BY <2>3 DEF Total
<1> QED
  BY <1>1, <1>2, <1>4, <1>5, <1>6, <1>7, <1>8, <1>9, <1>10, KernelKeeps

(* A connection is passed to the worker, with its socket in a free slot if *)
(* there is one.                                                           *)
LEMMA PassKeeps ==
  ASSUME IInv, NEW c \in Conn, PassFd(c)
  PROVE  IInv'
<1>1. Types /\ SlotsAreOwned /\ Sound /\ Running
  BY DEF IInv, PassFd, Calm
<1>2. /\ peer[c] = "none" /\ peer' = [peer EXCEPT ![c] = "open"]
      /\ UNCHANGED <<conns, user_map, sq, issuing, requests, shut, ended>>
  BY DEF PassFd
<1>3. \E x \in Completion :
        /\ x.op = "fd_pass" /\ x.conn = c /\ cq' = Append(cq, x)
        /\ \/ x.res # "done" /\ files' = files
           \/ x.res = "done" /\ x.fd \in Fd /\ files[x.fd] = NULL /\ files' = [files EXCEPT ![x.fd] = c]
  <2>1. CASE cq' = Append(cq, Cqe(Req("fd_pass", c, NULL), "nfile", FALSE)) /\ UNCHANGED files
    <3> DEFINE x == Cqe(Req("fd_pass", c, NULL), "nfile", FALSE)
    <3>2. x \in Completion /\ x.op = "fd_pass" /\ x.conn = c /\ x.res # "done"
      BY EventIs
    <3> QED
      BY <2>1, <3>2
  <2>2. ASSUME NEW f \in Fd, files[f] = NULL, files' = [files EXCEPT ![f] = c],
               cq' = Append(cq, Cqe(Req("fd_pass", c, f), "done", FALSE))
        PROVE  \E x \in Completion :
                 /\ x.op = "fd_pass" /\ x.conn = c /\ cq' = Append(cq, x)
                 /\ \/ x.res # "done" /\ files' = files
                    \/ x.res = "done" /\ x.fd \in Fd /\ files[x.fd] = NULL /\ files' = [files EXCEPT ![x.fd] = c]
    <3> DEFINE x == Cqe(Req("fd_pass", c, f), "done", FALSE)
    <3>1. x \in Cqes /\ x.op = "fd_pass" /\ x.conn = c /\ x.res = "done" /\ x.fd = f /\ x.more = FALSE
      BY <2>2 DEF Cqe, Req, Cqes
    <3>2. cq' = Append(cq, x)
      BY <2>2
    <3> HIDE DEF x
    <3>3. x \in Completion
      BY <2>2, <3>1 DEF Completion
    <3> QED
      BY <2>2, <3>1, <3>2, <3>3
  <2> QED
    BY <2>1, <2>2 DEF PassFd
<1>4. PICK x \in Completion :
        /\ x.op = "fd_pass" /\ x.conn = c /\ cq' = Append(cq, x)
        /\ \/ x.res # "done" /\ files' = files
           \/ x.res = "done" /\ x.fd \in Fd /\ files[x.fd] = NULL /\ files' = [files EXCEPT ![x.fd] = c]
  BY <1>3
<1>5. /\ <<x>> \in Seq(Completion) /\ cq' = cq \o <<x>> /\ cq' \in Seq(Completion)
      /\ Told' = Told \cup {x} /\ Paired(<<x>>)
      /\ \A P : Num(cq', P) = Num(cq, P) + One(x, P) /\ Num(cq, P) \in Nat
      /\ \A A, B : Balanced(A, B) => Total(A, B)' = Total(A, B)
  BY <1>1, <1>2, <1>4, ToldIs
<1>6. /\ files \in [Fd -> Conn \cup {NULL}] /\ peer \in [Conn -> {"none", "open", "reset", "gone"}]
      /\ shut \subseteq Conn /\ requests \in Seq(Issued) /\ issuing \in Seq(Named)
      /\ cq \in Seq(Completion) /\ Told \subseteq Completion
  BY <1>1 DEF Types, TypeOK, Told, ToSet
<1>7. /\ files' \in [Fd -> Conn \cup {NULL}] /\ peer' \in [Conn -> {"none", "open", "reset", "gone"}]
      /\ \A f \in Fd : files'[f] # files[f] => files[f] = NULL /\ files'[f] = c /\ x.res = "done" /\ x.fd = f
      /\ x.res = "done" => x.fd \in Fd /\ files'[x.fd] = c
      /\ peer'[c] # "none" /\ \A d \in Conn \ {c} : peer'[d] = peer[d]
  BY <1>2, <1>4, <1>6
<1>8. Types'
  <2>1. TypeOK'
    BY <1>1, <1>2, <1>7 DEF Types, TypeOK
  <2> QED
    BY <1>1, <1>2, <1>5, <2>1 DEF Types
<1>9. \A d \in Conn : Known(d) => d # c /\ Known(d)'
  <2> SUFFICES ASSUME NEW d \in Conn, Known(d) PROVE d # c /\ Known(d)'
    OBVIOUS
  <2>1. d # c /\ peer'[d] # "none"
    BY <1>2, <1>7 DEF Known
  <2>2. x \notin Passes(d)
    BY <1>4, <2>1 DEF Passes
  <2> QED
    BY <1>5, <2>1, <2>2 DEF Known, Passes
<1>10. \A d \in Conn : \A f : RightSlot(d, f) => RightSlot(d, f)'
  BY <1>2, <1>9 DEF RightSlot
<1>11. /\ conns.conn_map \subseteq Conn
       /\ \A r \in Named : r.conn \in Conn
       /\ \A e \in Completion : e.op # "timeout" => e.conn \in Conn
       /\ \A e \in Completion : e.op = "fd_pass" /\ e.res = "done" => e.fd \in Fd
  <2>1. conns.conn_map \subseteq Conn
    BY <1>1 DEF Types, TypeOK, Workers
  <2>2. \A r \in Named : r.conn \in Conn
    BY DEF Named, Plain, Chained
  <2>3. /\ \A e \in Completion : e.op # "timeout" => e.conn \in Conn
        /\ \A e \in Completion : e.op = "fd_pass" /\ e.res = "done" => e.fd \in Fd
    BY DEF Completion, Cqes
  <2> QED
    BY <2>1, <2>2, <2>3
<1>12. NamesRight'
  <2>1. \A d \in conns'.conn_map : Known(d)'
    BY <1>1, <1>2, <1>9, <1>11 DEF Sound, NamesRight
  <2>2. \A r \in Underway' : r \in Named => RightSlot(r.conn, r.fd)'
    BY <1>1, <1>2, <1>10, <1>11 DEF Sound, NamesRight, Underway
  <2>3. \A e \in Told' : e.op \notin {"fd_pass", "timeout"} => RightSlot(e.conn, e.fd)'
    <3>1. \A e \in Told : e.op \notin {"fd_pass", "timeout"} => RightSlot(e.conn, e.fd) /\ e.conn \in Conn
      BY <1>1, <1>6, <1>11 DEF Sound, NamesRight
    <3> QED
      BY <1>4, <1>5, <1>10, <3>1
  <2> QED
    BY <2>1, <2>2, <2>3 DEF NamesRight
<1>13. PassedOnce'
  <2>1. ASSUME NEW d \in Conn PROVE Num(cq', Passes(d)) \in {0, 1}
    <3>1. /\ Num(cq', Passes(d)) = Num(cq, Passes(d)) + One(x, Passes(d))
          /\ Num(cq, Passes(d)) \in {0, 1}
      BY <1>1, <1>5, <2>1 DEF Sound, PassedOnce
    <3>2. CASE d = c
      <4>1. \A e \in ToSet(cq) : e \notin Passes(c)
        BY <1>1, <1>2 DEF Sound, PassedOnce, Told, Passes
      <4>2. Num(cq, Passes(c)) = 0
        BY <1>6, <4>1, NumType
      <4> QED
        BY <3>1, <3>2, <4>2 DEF One
    <3>3. CASE d # c
      <4>1. One(x, Passes(d)) = 0
        BY <1>4, <3>3 DEF One, Passes
      <4> QED
        BY <3>1, <4>1
    <3> QED
      BY <3>2, <3>3
  <2>2. \A e \in Told' : e.op = "fd_pass" =>
          peer'[e.conn] # "none" /\ (e.res = "done" => files'[e.fd] = e.conn)
    <3> SUFFICES ASSUME NEW e \in Told', e.op = "fd_pass"
                 PROVE  peer'[e.conn] # "none" /\ (e.res = "done" => files'[e.fd] = e.conn)
      OBVIOUS
    <3>1. CASE e = x
      BY <1>4, <1>7, <3>1
    <3>2. CASE e \in Told
      <4>1. peer[e.conn] # "none" /\ (e.res = "done" => files[e.fd] = e.conn)
        BY <1>1, <3>2 DEF Sound, PassedOnce
      <4>2. e.conn \in Conn /\ e.conn # c /\ (e.res = "done" => e.fd \in Fd)
        BY <1>2, <1>6, <1>11, <3>2, <4>1
      <4>3. e.conn # NULL
        BY <4>2, NullConn
      <4> QED
        BY <1>7, <4>1, <4>2, <4>3
    <3> QED
      BY <1>5, <3>1, <3>2
  <2> QED
    BY <2>1, <2>2 DEF PassedOnce, Passes
<1>14. OwnSockets'
  BY <1>1, <1>2 DEF Sound, OwnSockets, IsOpen, World
<1>15. CanceledAreClosed'
  BY <1>1, <1>2, <1>4, <1>5 DEF Sound, CanceledAreClosed, IsOpen, World
<1>16. SlotsAreLeft'
  <2> SUFFICES ASSUME NEW e \in Told', e.op = "close", e.res = "done", NEW f \in Fd
               PROVE  files'[f] # e.conn
    BY DEF SlotsAreLeft
  <2>1. e \in Told /\ e \in Completion
    BY <1>4, <1>5, <1>6
  <2>2. files[f] # e.conn
    BY <1>1, <2>1 DEF Sound, SlotsAreLeft
  <2>3. RightSlot(e.conn, e.fd) /\ e.conn \in Conn
    BY <1>1, <1>11, <2>1 DEF Sound, NamesRight
  <2>4. e.conn # c
    BY <1>9, <2>3 DEF RightSlot
  <2> QED
    BY <1>7, <2>2, <2>4
<1>17. SlotsAreOwned'
  <2>1. ASSUME NEW f \in Fd, files'[f] # NULL
        PROVE  \/ files'[f] \in conns'.conn_map /\ conns'.fd[files'[f]] = f
               \/ \E e \in Told' : e \in Passes(files'[f]) /\ e.res = "done" /\ e.fd = f
    <3>1. CASE files'[f] = files[f]
      BY <1>1, <1>2, <1>5, <2>1, <3>1 DEF SlotsAreOwned
    <3>2. CASE files'[f] # files[f]
      <4>1. x \in Passes(files'[f]) /\ x.res = "done" /\ x.fd = f
        BY <1>4, <1>7, <3>2 DEF Passes
      <4> QED
        BY <1>5, <4>1
    <3> QED
      BY <3>1, <3>2
  <2>2. ASSUME NEW d \in conns.conn_map
        PROVE  \/ files'[conns.fd[d]] = d
               \/ \E e \in Told' : e.op = "close" /\ e.conn = d /\ e.res = "done"
    <3>1. d \in Conn /\ conns.fd[d] \in Fd /\ d # NULL
      BY <1>1, <1>11, <2>2, NullConn DEF Types, TypeOK, Workers
    <3>2. CASE files[conns.fd[d]] = d
      BY <1>7, <3>1, <3>2
    <3>3. CASE files[conns.fd[d]] # d
      <4>1. \E e \in Told : e.op = "close" /\ e.conn = d /\ e.res = "done"
        BY <1>1, <2>2, <3>3 DEF SlotsAreOwned
      <4> QED
        BY <1>5, <4>1
    <3> QED
      BY <3>2, <3>3
  <2> QED
    BY <1>2, <2>1, <2>2 DEF SlotsAreOwned, Passes
<1>18. NamelessEnds'
  <2>1. Paired(cq)
    BY <1>1 DEF Sound, NamelessEnds, Paired
  <2>2. Paired(cq')
    BY <1>5, <1>6, <2>1, PairedConcat
  <2>3. cq # <<>> => cq' # <<>> /\ Head(cq') = Head(cq)
    BY <1>4, <1>6
  <2>4. sq' \in Seq(Named) \/ (cq' # <<>> /\ Ends(Head(cq')))
    BY <1>1, <1>2, <2>3 DEF Sound, NamelessEnds, Ends
  <2> QED
    BY <2>2, <2>4 DEF NamelessEnds, Paired, Ends
<1>19. Listening'
  <2> SUFFICES ASSUME NEW d \in conns.conn_map \ conns.closed
               PROVE  Total(RecvOf(d), EndedRecv(d))' = 1
    BY <1>2 DEF Listening, RecvOf, EndedRecv
  <2>1. Total(RecvOf(d), EndedRecv(d)) = 1 /\ d \in Conn
    BY <1>1, <1>11 DEF Sound, Listening
  <2> QED
    BY <1>5, <2>1, ReceivesBalance
<1>20. Closing'
  <2> SUFFICES ASSUME NEW d \in Conn
               PROVE  Total(CloserOf(d), ClosingCqe(d))' = IF d \in conns.closed THEN 1 ELSE 0
    BY <1>2 DEF Closing, CloserOf, ClosingCqe
  <2>1. Total(CloserOf(d), ClosingCqe(d)) = IF d \in conns.closed THEN 1 ELSE 0
    BY <1>1 DEF Sound, Closing
  <2> QED
    BY <1>5, <2>1, ClosersBalance
<1>21. Orderly(World, NULL)'
  BY <1>1, <1>2 DEF Sound, Orderly, IsOpen, World
<1> QED
  BY <1>8, <1>12, <1>13, <1>14, <1>15, <1>16, <1>17, <1>18, <1>19, <1>20, <1>21 DEF IInv, Sound

(* The kernel keeps the invariant. *)
LEMMA KernelStepsKeep ==
  ASSUME IInv, Kernel
  PROVE  IInv'
  BY PassKeeps, SubmitKeeps, IssueKeeps, RecvCompletesKeeps, SendCompletesKeeps, ShutdownCompletesKeeps,
     TickKeeps DEF Kernel

-------------------------------------------------------------------------
(* The invariant holds in every reachable state. *)
LEMMA InitIs ==
  ASSUME Init
  PROVE  IInv
<1>1. /\ sq = <<>> /\ issuing = <<>> /\ requests = <<>> /\ cq = <<>>
      /\ conns.conn_map = {} /\ conns.closed = {} /\ conns.websocket = {} /\ conns.timers = {}
      /\ \A f \in Fd : files[f] = NULL
      /\ \A u \in User : user_map[u] = NULL
      /\ \A c \in Conn : conns.user_id[c] = NoUser
      /\ ended = "no"
  BY DEF Init
<1>2. Types
  <2>1. conns \in Workers
    BY Ids DEF Init, Workers
  <2>2. /\ user_map \in [User -> Conn \cup {NULL}] /\ files \in [Fd -> Conn \cup {NULL}]
        /\ peer \in [Conn -> {"none", "open", "reset", "gone"}] /\ shut \subseteq Conn
    BY DEF Init
  <2>3. TypeOK
    BY <1>1, <2>1, <2>2 DEF TypeOK
  <2>4. <<>> \in Seq(Request) /\ <<>> \in Seq(Named) /\ <<>> \in Seq(Issued) /\ <<>> \in Seq(Completion)
    OBVIOUS
  <2> QED
    BY <1>1, <2>3, <2>4 DEF Types, Endings
<1>3. Underway = {} /\ Told = {}
  <2>1. ToSet(sq) = {} /\ ToSet(issuing) = {} /\ ToSet(requests) = {} /\ ToSet(cq) = {}
    BY <1>1, NumEmpty
  <2> QED
    BY <2>1 DEF Underway, Told
<1>4. SlotsAreOwned
  BY <1>1 DEF SlotsAreOwned
<1>5. \A A, B : Total(A, B) = 0
  <2> SUFFICES ASSUME NEW A, NEW B PROVE Total(A, B) = 0
    OBVIOUS
  <2>1. /\ Num(sq, A) = 0 /\ Num(issuing, A) = 0 /\ Num(requests, IssuedOf(A)) = 0 /\ Num(cq, B) = 0
    BY <1>1, NumEmpty
  <2>2. Num(sq, A) + Num(issuing, A) + Num(requests, IssuedOf(A)) + Num(cq, B) = 0
    BY <2>1
  <2> QED
    BY <2>2 DEF Total
<1>6. Listening /\ Closing
  BY <1>1, <1>5 DEF Listening, Closing
<1>7. PassedOnce
  <2>1. \A c \in Conn : Num(cq, Passes(c)) = 0
    BY <1>1, NumEmpty
  <2> QED
    BY <1>3, <2>1 DEF PassedOnce
<1>8. NamesRight /\ CanceledAreClosed /\ SlotsAreLeft
  BY <1>1, <1>3 DEF NamesRight, CanceledAreClosed, SlotsAreLeft
<1>9. OwnSockets
  <2>1. ToSet(requests) = {}
    BY <1>1, NumEmpty
  <2> QED
    BY <2>1 DEF OwnSockets
<1>10. NamelessEnds
  <2>1. <<>> \in Seq(Named) /\ DOMAIN <<>> = {}
    OBVIOUS
  <2> QED
    BY <1>1, <2>1 DEF NamelessEnds
<1>11. Orderly(World, NULL)
  BY <1>1 DEF Orderly, World, IsOpen
<1> QED
  BY <1>2, <1>4, <1>6, <1>7, <1>8, <1>9, <1>10, <1>11 DEF IInv, Sound

(* A step that changes nothing. *)
LEMMA StutterKeeps ==
  ASSUME IInv, UNCHANGED vars
  PROVE  IInv'
<1>1. UNCHANGED <<conns, user_map, sq, issuing, requests, cq, files, peer, shut, ended>>
  BY DEF vars
<1>2. Types' /\ SlotsAreOwned' /\ (Running' <=> Running)
  BY <1>1 DEF IInv, Types, TypeOK, SlotsAreOwned, Told, Running
<1>3. ASSUME Sound PROVE Sound'
  <2>1. NamesRight' /\ PassedOnce' /\ OwnSockets' /\ CanceledAreClosed' /\ SlotsAreLeft'
    BY <1>1, <1>3 DEF Sound, NamesRight, PassedOnce, OwnSockets, CanceledAreClosed, SlotsAreLeft, Known,
                      RightSlot, Told, Underway, IsOpen, World
  <2>2. NamelessEnds' /\ Orderly(World, NULL)'
    BY <1>1, <1>3 DEF Sound, NamelessEnds, Orderly, World, IsOpen
  <2>3. Listening' /\ Closing'
    BY <1>1, <1>3 DEF Sound, Listening, Closing, Total
  <2> QED
    BY <2>1, <2>2, <2>3 DEF Sound
<1> QED
  BY <1>2, <1>3 DEF IInv

(* The inductive invariant, of which the others are consequences. *)
THEOREM Inductive == Spec => []IInv
<1>1. ASSUME IInv, [Next]_vars PROVE IInv'
  BY <1>1, HandlersKeep, KernelStepsKeep, StutterKeeps DEF Next
<1> QED
  BY InitIs, <1>1, PTL DEF Spec

(* Every variable of the worker keeps its shape, and a connection that is  *)
(* accepted has a slot until it is deleted with its timers.                *)
THEOREM TypeCorrect == Spec => []TypeOK
<1>1. IInv => TypeOK
  BY DEF IInv, Types
<1> QED
  BY <1>1, Inductive, PTL

(* A connection that is not closed listens, exactly once, whatever becomes *)
(* of its receives (handle_recv).                                          *)
THEOREM Listens == Spec => []OpenConnectionsListen
<1>1. IInv => OpenConnectionsListen
  <2> SUFFICES ASSUME IInv, Running, NEW c \in conns.conn_map \ conns.closed PROVE Receives(c) = 1
    BY DEF OpenConnectionsListen
  <2>1. Types /\ Sound
    BY DEF IInv
  <2>2. c \in Conn
    BY <2>1 DEF Types, TypeOK, Workers
  <2>3. Total(RecvOf(c), EndedRecv(c)) = 1
    BY <2>1 DEF Sound, Listening
  <2> QED
    BY <2>1, <2>2, <2>3, CountsAreTotals
<1> QED
  BY <1>1, Inductive, PTL

(* A closed connection is on its way to deletion, along one chain of       *)
(* cancel, shutdown and close; an open one is not (TcpConnection::close    *)
(* and the handlers of those three).                                       *)
THEOREM ClosedOnce == Spec => []ClosesOnce
<1>1. IInv => ClosesOnce
  <2> SUFFICES ASSUME IInv, Running, NEW c \in Conn
               PROVE  Closings(c) = IF c \in conns.closed THEN 1 ELSE 0
    BY DEF ClosesOnce
  <2>1. Types /\ Sound
    BY DEF IInv
  <2>2. Total(CloserOf(c), ClosingCqe(c)) = IF c \in conns.closed THEN 1 ELSE 0
    BY <2>1 DEF Sound, Closing
  <2> QED
    BY <2>1, <2>2, CountsAreTotals
<1> QED
  BY <1>1, Inductive, PTL

(* What is counted among the completions is there. *)
LEMMA WaitingIs ==
  ASSUME Types, NEW op \in {"fd_pass", "close"}, NEW c \in Conn,
         NEW e \in Told, e.op = op, e.conn = c, e.res = "done"
  PROVE  Waiting(LAMBDA x : x.op = op /\ x.conn = c /\ x.res = "done") > 0
<1> DEFINE P == {x \in Completion : x.op = op /\ x.conn = c /\ x.res = "done"}
<1>1. cq \in Seq(Completion)
  BY DEF Types
<1>2. {i \in DOMAIN cq : cq[i].op = op /\ cq[i].conn = c /\ cq[i].res = "done"} = Places(cq, P)
  BY <1>1 DEF Places
<1>3. e \in ToSet(cq) /\ e \in P
  BY <1>1 DEF Told, ToSet
<1> HIDE DEF P
<1>4. Num(cq, P) \in Nat /\ Num(cq, P) # 0
  BY <1>1, <1>3, NumType
<1>5. Waiting(LAMBDA x : x.op = op /\ x.conn = c /\ x.res = "done") = Num(cq, P)
  BY <1>2 DEF Waiting, Count, Num
<1> QED
  BY <1>4, <1>5

(* A slot has the socket of a connection that exists with that slot or is  *)
(* being passed, and a connection has its slot until its close has         *)
(* completed, also when the loop has ended.                                *)
THEOREM SlotsCorrect == Spec => []SlotsMatchConnections
<1>1. IInv => SlotsMatchConnections
  <2> SUFFICES ASSUME IInv PROVE SlotsMatchConnections
    OBVIOUS
  <2>1. Types /\ SlotsAreOwned
    BY DEF IInv
  <2>2. ASSUME NEW f \in Fd, files[f] # NULL
        PROVE  \/ files[f] \in conns.conn_map /\ conns.fd[files[f]] = f
               \/ Waiting(LAMBDA x : x.op = "fd_pass" /\ x.conn = files[f] /\ x.res = "done") > 0
    <3>1. PICK c \in Conn : c = files[f]
      BY <2>1, <2>2 DEF Types, TypeOK
    <3>2. CASE \E e \in Told : e \in Passes(c) /\ e.res = "done"
      <4>1. PICK e \in Told : e.op = "fd_pass" /\ e.conn = c /\ e.res = "done"
        BY <3>2 DEF Passes
      <4>2. Waiting(LAMBDA x : x.op = "fd_pass" /\ x.conn = c /\ x.res = "done") > 0
        BY <2>1, <4>1, WaitingIs
      <4> QED
        BY <3>1, <4>2
    <3>3. CASE c \in conns.conn_map /\ conns.fd[c] = f
      BY <3>1, <3>3
    <3> QED
      BY <2>1, <2>2, <3>1, <3>2, <3>3 DEF SlotsAreOwned
  <2>3. ASSUME NEW c \in conns.conn_map
        PROVE  \/ files[conns.fd[c]] = c
               \/ Waiting(LAMBDA x : x.op = "close" /\ x.conn = c /\ x.res = "done") > 0
    <3>1. c \in Conn
      BY <2>1, <2>3 DEF Types, TypeOK, Workers
    <3>2. CASE \E e \in Told : e.op = "close" /\ e.conn = c /\ e.res = "done"
      <4>1. PICK e \in Told : e.op = "close" /\ e.conn = c /\ e.res = "done"
        BY <3>2
      <4> QED
        BY <2>1, <3>1, <4>1, WaitingIs
    <3> QED
      BY <2>1, <2>3, <3>2 DEF SlotsAreOwned
  <2> QED
    BY <2>2, <2>3 DEF SlotsMatchConnections
<1> QED
  BY <1>1, Inductive, PTL

(* The entry of a user leads to an open connection of that user, and an    *)
(* open connection that has announced a user is found under its id         *)
(* (AddUserSession, DelUserSession).                                       *)
THEOREM SessionsLive == Spec => []SessionsAreLive
<1>1. IInv => SessionsAreLive
  BY DEF IInv, Sound, Orderly, World, SessionsAreLive
<1> QED
  BY <1>1, Inductive, PTL
===========================================================================
