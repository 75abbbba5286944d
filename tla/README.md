# jdocs: a verification project

jdocs is a server for documents that several people edit at the same time. A
client opens a websocket, opens a document by name, sends edits against the
revision it has seen, and receives the edits of the others. The server runs one
io_uring event loop per worker thread; documents are shared between threads.

This directory holds TLA+ modules that model the parts of the server where
interleavings and boundaries decide whether it is right, the configurations that
check them with TLC, and theorems about six of them with proofs for TLAPS.
The repository has no design documents; the models are read off the code, and
"the comment at" below names the few statements of intent it has.

## 1. Inventory

Paths are relative to `src/src/`.

| Component | State | Operations | Talks to |
|---|---|---|---|
| **DocumentService**, `services/document/document_service.*` | static registry `documents_` (name to `weak_ptr<Document>`) under `mutex_`; per connection `document_`, `node_` | OPEN, EDIT, CLOSE, destructor; `GetDocument`, `OpenDocument`, `CloseDocument` | Document; EventLoop for broadcasts |
| **Document**, `services/document/document.*` | `content_`, `revision_`, `min_revision_`, `history_` under `doc_mutex_`; `users_` under `users_mutex_` | `ApplyOp`, `PushToHistory`, `GetContent`, `JoinUser`, `ExitUser`, `GetUserList` | `ExitUser` calls back into the registry with `users_mutex_` held |
| **OT**, `services/document/ot.*` | none; operations are sequences of retain, insert and delete components with attributes | builders `OpRetain`, `OpInsert`, `OpDelete`; `OpIterator`; `transform`, `compose`, `compose_attributes` | used by Document |
| **TimeWheel**, `core/timer.*` | five levels of slots, intrusive lists, `current_tick_` | `AddTimer`, `timer_cancel`, destructor of a timer, `Tick`, `Update` | EventLoop ticks it; the idle timer of a connection and the pong timer of a websocket live in it |
| **EventLoop**, `core/event_loop.*`, `core/context.h` | the ring, pending requests, cross thread contexts with a reference count | `prep_*`, `handle_*` per completion | Worker's connections, BufferPool, TimeWheel, other loops by msg_ring |
| **BufferPool** on **BitMap**, `core/buffer.*`, `utils/bitmap.*` | receive and send blocks, free send indices, used count | take, return, grow | EventLoop, the protocol handlers |
| **Worker**, **TcpConnection**, `core/worker.*`, `net/*` | `conn_map_`; `closed_`, stage, handlers, idle timer | receive, send, close, switch stage, cross thread message | EventLoop, protocol and service handlers |
| **JdocsServer**, `core/server.*` | `user_map_`, `conn_count_`, the master's loop | accept and pass on; add, delete and look up a user's session; choose the next worker, find the ring of a connection | every loop, TcpConnection, ChatService |
| **WebSocketHandler/Parser**, `protocol/websocket/*` | parser state, handler state (normal, continued, closing), payload, pong flag and timer | bytes of a frame; data and control frames, timeout, send in fragments | TcpConnection, EventLoop, the service |
| **HttpHandler/Parser**, `protocol/http/*` | parser state, header state, counters, flags of what was found | bytes of a request; answers 101, 400, 404; timeout | TcpConnection |
| **ChatService**, `services/chat/*` | none | relay a message to a user | JdocsServer, EventLoop |
| **MysqlConnection**, `database/*` | client handle | not called by the server | - |
| helpers, main | none | time, numbers, start | - |

What is hard here, and what makes each component correct:

* **DocumentService and Document.** Handlers of different workers interleave at
  the locks. Correct: the users of one name share one Document, and its entry
  lives as long as they do; every edit reaches every user, by snapshot, OP or ACK;
  an edit is transformed over every edit since its version; a context has as
  many references as readers; no handler waits for ever; nothing is left in the
  registry when the last user has gone.
* **OT.** The arithmetic of overlapping components. Correct: a transformed
  operation does what its author meant, all replicas agree on the order of
  insertions at one place, and `content_` is the text (and formatting) its edits
  add up to.
* **TimeWheel.** Hashing over levels, cascades, and list surgery through a
  pointer to a pointer. Correct: a timer runs in its tick, once; lists stay whole
  under cancel and destruction.
* **EventLoop, connections.** Completions arrive after their connection was
  closed or deleted; linked requests are cancelled; contexts cross threads.
  Correct: no completion touches what is gone, each context is released once by
  each reader, a loop ends only when the server does.
* **BufferPool.** Correct: a buffer is never used twice at a time, and the used
  count follows the bits.
* **Messaging.** A broadcast is a counted context, posted entry by entry into the queue of one
  loop and handled by others, while users join, leave and close. Correct: a receiver is
  sought in the loop that holds it; the count is the number of messages not yet
  handled; a client gets what others edit, in each editor's order and without a gap.
* **HTTP and WebSocket.** The bytes come in buffers that end anywhere. Correct: the answer to a
  request does not depend on where; what is upgraded is a handshake, and a handshake is
  upgraded; the service gets the messages of the client, whole, once and in
  order; a connection that answers its ping is not closed for it, a silent one is closed.
* **Sessions.** Correct: a user's entry leads to his live connection.

`PROJECT.json` lists every hazard with its line and the properties that would notice it going wrong. Where a step that goes
wrong is in a model but no property forbids it (a call through `nullptr`, a loop or a process that ends), its note says so.

## 2. Modules

| Module | Role |
|---|---|
| `SharedDocuments` | abstract: one document per name, members, a revision, what each client was told |
| `DocumentService` | registry, documents and handlers, one action per critical section |
| `MCDocumentService` | symmetry for TLC |
| `DocumentServiceProofs` | inductive invariant and theorems, and that `DocumentService` implements `SharedDocuments` |
| `OT` | components, builders, iterator, `transform`, `compose` |
| `DocumentContent` | `Document::ApplyOp` over OT, beside the text its editors should see |
| `MCDocumentContent` | shapes of edits and attributes for TLC |
| `Timers` | abstract: a timer runs in the tick it is due |
| `TimeWheel` | the wheel down to `first`, `next` and `pprev` |
| `MCTimeWheel` | symmetry for TLC |
| `TimeWheelProofs` | lemmas on linked lists and levels, theorems: what breaks the wheel, and that a whole one is `Timers` |
| `BitMap` | the words, masks and used count of a bit map |
| `BufferLending` | abstract: a buffer is with one send at a time |
| `BufferPool` | the two pools, their growth, and the completions that give buffers back |
| `MCBufferPool` | the sizes for TLC |
| `BufferPoolProofs` | lemmas on bit maps, inductive invariant and theorems |
| `Connections` | the connections of one worker from acceptance to deletion, and the sessions of users |
| `MCConnections` | symmetry and view for TLC |
| `SequenceLemmas` | lemmas: how many elements of a sequence are in a set, over the operations on sequences; induction up to a number |
| `ConnectionsProofs` | inductive invariant and theorems |
| `HttpParser` | the parser of the handshake, a character at a time |
| `WebSocketParser` | the parser of frames, a byte at a time |
| `ProtocolHandlers` | one connection and its client: both handlers over the two parsers, the two timers |
| `MCProtocolHandlers` | the requests and frames for TLC |
| `ProtocolHandlersProofs` | lemmas on both parsers and the handlers, inductive invariants and theorems |
| `Messaging` | the loops of the master and the workers, accepts, messages between rings, contexts, broadcasts and chat |
| `MCMessaging` | the bounds for TLC |
| `MessagingProofs` | inductive invariant and theorems |
| `DeliveryProofs` | theorems on what clients get: the order of the edits, and that none is missing |

In each module an operator called `X_Something` in front of `X` is `X` with a
plausible mistake; it is used only to see that a property notices the mistake.

### DocumentService

The state is that of the code: `documents` maps a name to the Document its
`weak_ptr` refers to; `name`, `revision`, `min_revision`, `history`, `users` are
the members of Document; `document` is each connection's `document_`. A handler
is a sequence of steps, `pc` the call it makes next:

* OPEN: (`ExitUser`, `CloseDocument` if it was the last,) `GetDocument`,
  `OpenDocument` if that found nothing, `JoinUser`, `GetUserList` (and the NOTIFY
  broadcast), `GetContent`.
* EDIT: `ApplyOp` under `doc_mutex_` (action `EditHandle`), `GetUserList` and the OP
  broadcast.
* CLOSE, and the destructor of a dropped connection: `ExitUser`,
  (`CloseDocument`,) `GetUserList`, `Reset`.

A critical section is one step, because nothing else touches what its lock
guards. The exception is `ExitUser`, which calls `CloseDocument` (a section of
`mutex_`) with `users_mutex_` held: the model keeps the owner in `users_mutex` between the
two steps, and `JoinUser`, `ExitUser` and `GetUserList` wait for it. The
reference count is not a variable: every `shared_ptr` to a Document is the
`document_` of a connection, so `use_count()` is the number of connections that
hold it, and `weak_ptr::lock` succeeds while there is one. For the same reason a
Document with no holder and no entry is free, and its address may be reused.

Edits are revision numbers here: `history` holds the revision each entry
produced, `against` the entries an edit was transformed over, and `known` the
revisions a client has been sent. Refused edits (a version outside the window)
take the path they take in the code: nothing is applied, and the broadcast and
the ACK go on. A null dereference after `OpenDocument` ends the process
(`JoinNull`, `crashed`); `CHECK_DEADLOCK` is off for that reason.

Each connection has a worker of its own. Connections that share a worker have
fewer interleavings, so that all of them are covered, except for the shortcut of
`prep_cross_thread_msg` within one loop, which is in `Messaging`.

### OT and DocumentContent

An iterator is what is left of its operation. `peek` and `next` differ in the
length they use for an insertion (that of its text and the stored one), exactly as
in `ot.h:54-73`; the models keep both lengths. Characters are atoms with an
identity (edit, component, place), so that properties can say which character
went where; lengths count characters, and `MaxLength` stands for `UINT32_MAX`. The shapes of
edits have their attributes with them, so that formatting retains take part in every transformation.

`DocumentContent` lets editors send any operation of a bounded shape that fits
the text of the revision it is sent against, as an editor that follows the
protocol does. Next to `content` it keeps `texts`, the text at each revision by a
definition of its own (`Overlay`: which characters are deleted, and what is
inserted between which), independent of the iterators.

### TimeWheel

`links` holds every pointer of the lists; a `pprev` is the slot or the timer whose
pointer it writes through. A callback of the server sets timers other than those
that are running (`websocket_handler.cc:17-21`, or closes a connection, which
sets none), so callbacks are steps after their `Tick`. `Destroy` is the destructor
of a timer, fired or not; `Create` reuses its address.

Callers may do what they like, in any order. The wheel is `Whole` when its pointers make up lists in which no timer occurs twice,
each listed timer is alive, has not fired and waits where its time belongs, and each `pprev` is the pointer that leads to its timer or was
cleared. A timer of the last kind is an `Orphan`: it was behind a timer that was cancelled or set again, and it cannot take
itself out of its list any more (`timer.cc:25-30`). That alone breaks nothing; orphans run in their tick like others. Two steps of a caller
do break a wheel, and `Slip` is the name for both: a call that cancels, sets again or destroys an orphan, and the destruction of
a fired timer whose old pointers still lead somewhere (`timer.h:48-53`). TLC finds a broken wheel behind each of them when it is left
out of `Slip`.

`OnlySlipsBreak` and `ImplementsTimers` say that there is no third: not a cascade, not the new setting of a timer that others wait
behind, not the end of one that has not fired. They assume nothing of the callers, and say nothing of a wheel that is broken.
The server does slip: it sets the idle timer of a connection again at each receive, so that of two neighbours in a slot the second is an
orphan once the first has received, and its own receive touches it; and with a connection that has timed out it destroys
the timer that fired. What then comes of the lists is what `timer_destroy` shows, on every behaviour of the same `Spec`. Following a list that leads to a
destroyed timer is undefined, and one that leads to itself has no end: behaviours end there (`Defined`).

### BitMap and BufferPool

A word is the set of its bits that are 1, so that the masks of `bitmap.cc` are sets and
their edges stay what they are: `Below(n)` is the mask `(1 << n) - 1` with 0 taken for
a whole word.

`BufferPool` keeps next to the members of the class what the kernel has: the memory
registered for each index, the tags, the buffers in the ring. An attempt to grow has
every outcome the calls can have: no memory, or any number of registered buffers; fewer
than a block make the code free the block, while what was registered stays. A send goes
from `queued` over `reported` (its result) to its notification, which the kernel posts for
every send it has accepted, failed and cancelled ones too; sends overtake each other freely.
`GetRecvBuffer` is modelled with its check, including the read behind the end of the vector
(`Wild`, or something that looks like NULL), and with what it refuses. `ended` says why the loop returned, if it did;
nothing happens after that, and `CHECK_DEADLOCK` is off. Completions find their
connection here; that they may not is in `Connections`.

### Connections

The worker's state is `conns` (`conn_map_`, and of each connection `closed_`, `fd_`, its stage,
`user_id_` and which of its two timers are set) and `user_map_`. A request goes from `sq`
(prepared) over `issuing` (submitted) to `requests` (with the kernel), and comes back as an entry of
`cq`; each handler of `event_loop.cc` takes the first entry. What makes the order hard:

* `submit_cancel` submits in the middle of a handler, so that whatever was prepared before goes
  with it, while everything else waits for the top of the loop (`Submit`);
* `prep_close`, and a last answer before a close, are linked: a request that fails or falls
  short cancels the one behind it, and only then does a shutdown have a completion;
* `IORING_OP_ASYNC_CANCEL` without `ALL` takes one request of the socket, so that a receive or a
  send may outlive the cancel, and complete after the connection has been deleted;
* a slot is looked up when a request is issued (`Issue`), and may by then belong to nobody or to
  another connection, whereas a request that has been issued stays with its socket.

The kernel and the clients are external. A client that resets its connection is noticed at the
completion that reports it: `peer` is then `reset`. Data of a receive is what the protocol handler
makes of it (`HttpHandle`, `WebSocketHandle`), one frame or request to a receive, as a choice among the
outcomes the handler has; both kinds of send are one (`BufferPool` tells them apart), and OPs from other
threads, which can only add sends, are left to `Messaging`. A tick runs at most one timer; ticks may follow one another.
The wheel is a set here (`TimeWheel` has the rest). `ended` says why the loop or the process ended:
a failed receive or send, a close that failed or was cancelled, a completion for a connection that is gone
(`null`, a call through `nullptr` at `event_loop.cc:306` or `:342`), or a second session of a user.

### HttpParser, WebSocketParser and ProtocolHandlers

The parsers are functions from a parser and a character to a parser, one case for each
case of the switch, and `ParserExecute` folds them over a buffer; `returned` stands for its early
returns. In `HttpParser` a word that is looked for is cut into its first letter and the rest, one character
each (`<<"u", "pgrade">>`): enough to begin like it, to be it and to go on behind it, which is all the
parser's index tells apart. Letters are in lower case. Limits are small: 12 for a URI, 8 for an element, 2 for the key,
2 bytes for a payload and for the mask.

`ProtocolHandlers` puts them under the handlers of one connection. The client writes one request and then
frames into `wire`; a receive takes one byte, or all there is (`MaxChunk`), together with a number of free
send buffers (`Room`): none, one, or enough. Every answer is a buffer that is taken; without one the connection is closed.
The two timers count ticks; the idle timer is set again by every receive, and both in the orders in which the wheel may
run them. `close()` ends the model; what follows it is in `Connections`.

A frame whose length is refused at the last byte of a 16 or 64 bit length leaves the parser in its length
state with nothing remaining, and the next byte is written behind `payload_length_`. From there (`"Lost"`) what it
makes of a buffer is a free choice: no frame, or any frame. The error code, which is never reset, is kept.

Behaviour the models have, the properties step around, and the repository says nothing of:

* a version with a wrong first letter is accepted when the request comes whole in one buffer, and refused
  otherwise (`http_parser.cc:197`, where the `return` is missing);
* a header whose name only begins like that of a list (`c: upgrade`) sets the flag of the item; a name that goes on
  behind a required one takes the flag of that back; items that are the beginning of the required one, or go on behind it, can
  have a handshake refused; a key shorter than 24 characters is accepted; a URI of exactly the
  full length is refused, because the blank behind it is counted;
* a text frame inside a fragmented message replaces it, and its handler goes on waiting for a continuation;
* when the close frame cannot be sent for want of a buffer, the service may be called once more on the
  closed connection; when the 101 cannot be sent, the connection is closed and passes to the next stage all the same.

### Messaging

Each loop, the master's (0) and those of the workers, has a submission queue `sq`, a queue of completions `cq` and at most
one handler of a service under way (`task`). Handlers of one loop run to their ends; those of different loops interleave at each
lock and each entry they prepare. The entries of one submission are issued in one step, in their order, which loses nothing, since
the others' entries for the same ring come before or after each of them in some other behaviour. The queue is shared with
everything else a loop sends, so that `GetSqe` may find it full and submit at any call: `Submit` may happen at any time.

A connection is accepted by the master, given to a worker by turns (`NextRing`) and looked for by its id (`ConnectionIdToRing`). A message is
the number of an edit in the order in which `ApplyOp` took it, or `Notice` for everything else (NOTIFY, chat). `contexts` has every
`CTContext` with its count; a context is freed at 0, which no variable has to say. `inbox` is what a connection was given to send to its client, and
`since` how many edits the content had that its last OPEN was answered with. The registry is left to `DocumentService`, sessions to `Connections` (a
chat line goes to any connection that is open), closing and deleting are two steps, the second of which leaves the document.

A request between rings may fail; its completion reads as a NOP and is ignored, and its share of the context is never
released (`lost`). A message for a connection of the same loop is handled at once, and the entry already taken is submitted as it is. The rings are in their
first round, where such an entry is zeros; in later rounds it is an older request again, which may name a context that is gone.

OPs of different editors may reach a client in another order than that of their revisions, and OPs of a document left earlier still
arrive. Both are in the model; the code promises no more than what `EachEditorInOrder` and `NoEditLost` say. `EditsArrive` is one leads-to over all
OPs together, which is enough since edits are finitely many: what is on its way at all is at last on its way no more.

## 3. Runs

| Run | Module, instance | Shows |
|---|---|---|
| `doc_safety` | 3 connections, 1 name, 3 Documents, capacity 2, 3 edits; symmetric | type invariant; users of a name share its Document; exact context references; the history window; an edit transformed over exactly the edits since its version; no missed edit; refinement of `SharedDocuments` |
| `doc_liveness` | 2 connections, 2 names, fair | a handler that has begun returns, or the process died |
| `doc_registry` | 2 connections, 1 name | **violated**: an expired entry stays in the registry |
| `ot_transform` | 4 edits of up to 2 components of length 1 or 2, one of them a retain that makes text bold | intention preserved over up to three transformations; server insertions first; `compose` right on a sound content; content compact |
| `ot_text` | 3 edits of one component of length 1 | **violated**: `content_` loses text |
| `timer_wheel` | 2 timers, 5 levels of 2 slots, 10 ticks, timeouts of 1 and 8 ticks, any calls; symmetric | only slips break the lists; a whole wheel is `Timers`, operation by operation; no timer waits longer than its timeout |
| `timer_destroy` | the same, 12 ticks, timeouts of 1, 3, 5 and 11 ticks | **violated**: a destroyed timer stays listed |
| `buffers` | blocks of 2 buffers, at most 6 of a kind, words of 2 bits, 2 receives waiting | bits and used count follow the loans; refusal only in need; the kernel sends what was written; receive buffers conserved; exact ranges; refinement of `BufferLending` |
| `connections` | 2 connections, 2 slots, user 0 and another, 1 send under way when something arrives, 2 completions waiting; symmetric, with a view | a connection listens once while it is open, is closed along one chain of requests, keeps its slot until it is deleted, and is found under its user while it is open |
| `protocols` | 1 connection, 88 requests: a handshake and what differs from it in one thing, 12 kinds of frames of which 3 are sent, 2 ticks to idle and 1 to the pong | the answer does not depend on the split; exactly handshakes upgrade; messages delivered as sent; an answered ping keeps the connection; a silent client is closed |
| `messaging` | 3 connections, 2 workers, 1 document, 6 mixes of requests (below) | a connection is where its id leads; exact counts; each editor's edits in order; no edit lost, and none on its way for ever |
| `messaging_same_loop` | the same | **violated**: a worker accepts, and its loop ends |

**Why the bounds suffice.** In `doc_safety` three connections are what it takes for
one to close, one to open and one to hold on; one name, because documents of
different names share only the registry lock; three addresses, so that a new
Document never has to wait for a dead entry; capacity 2 with 3 edits slides the
window once, and versions from 0 to one too new reach both ends of it.
`doc_liveness` gives up edits and the third connection for a second name, so that a
connection may move between documents. In `ot_transform`, four edits let the last one cross
two others on a text that is not empty, with components that overlap partly. In
the wheel, levels of two slots make every timeout above 1 cross a border; a
timeout of 8 enters at level 4 and comes down through all levels, from ticks 0, 1 and 2; level 5 is reached in the code neither, for 32 bits of milliseconds in ticks of 100 ms, but here by a timer that a broken list
keeps behind its time. Two timers are what a slip takes (one before the other in a list), and the proofs are for any number;
longer timeouts and a third timer are beyond TLC, since whoever may call at any time makes every order of the slots.
In `buffers`, three blocks of sends fill the pool twice over its first size and meet the limit, and
three words give a range a first word, a last one and one between; every bit pattern of the pool
arises, and `RangesAreExact` tries every range on each. Receives stop at two blocks, because no more
than `MaxReceived` buffers wait at a time; with a kernel that fills buffers in any order, a third
block adds no case.
In `connections`, two connections are what it takes to be in each other's slot or session; each has at most
one answer under way when more data arrives or a timer runs, to which closing adds one that is linked, so that
a cancel has a receive and two sends to choose from; two completions wait, to which cancels and links add more, so that
every pair of them is handled in both orders with the other pending. The kernel may complete what it has in any order, so that
states which differ only in the order of its requests are taken for one (`View`). The run takes about 75
seconds; with three completions over one slot nothing else was found.

In `protocols`, a buffer of one byte or of all there is puts the end of a buffer in front of every byte and behind it, and
a state of a parser does not remember how it was reached; three frames are what a fragmented message with a control
frame inside it takes, or two messages and a pong; one send buffer answers a frame and not a reply of two fragments.
In `messaging`, two workers and three connections give a broadcast one receiver in its own loop and one in another, or two in another, and the third
connection goes round to the first worker. The mixes (`Budgets`): the server starts and accepts, with two accepts that end the request,
a failed pass of a descriptor and one client that closes; three open the document and one edits; two open, two edits and one request that fails; two open, an
edit and one who leaves or closes; two open, an edit and a chat line; three open and one leaves. The mix of all of
them at once is beyond TLC: each has one pair or triple of requests that meet in the users, the contexts or the queues.

**Fairness** (`doc_liveness`): weak fairness of each handler's next step, since a
worker runs a handler to its end without waiting for anything but a lock; strong
fairness of the three steps that take `users_mutex_`, since a thread that waits for
a `shared_mutex` is woken whenever it becomes free and is not passed over for ever.
With weak fairness alone, `JoinUser` could be overtaken for ever by others that exit and
open. Requests are not fair: a client may fall silent. In `protocols` only `Tick` is weakly
fair: time passes, and a loop handles its timeouts; neither client nor network has to do anything. In `messaging` the steps of each loop (submitting, handling a
completion, going on with a handler) are weakly fair, since a loop waits for nothing but locks, which are held for
one step here, and for completions in `io_uring_submit_and_wait`, which has submitted everything first. Clients are not fair.

## 4. What the violated runs say

* **An entry that outlives its document** (`RegistryIsLive`). `CloseDocument` erases the
  entry when the count is 1. If A has left `users_` but not yet reset `document_` when B,
  the last user, closes, B sees 2 and erases nothing, and A closes no more. The
  next OPEN of the name finds the entry, locks nothing, and dereferences null. The
  abstract specification still holds up to that point: nobody is served a
  wrong document.
* **Text lost by compose** (`ContentIsText`). `OpInsert` merges two insertions and
  leaves the stored length of the first. `compose` then walks `content_` by stored
  lengths. `ComposeKeepsText`, which passes, says that this is the only reason: from
  a content with true lengths every single composition is right.
* **A destroyed timer in a list** (`NoDanglingTimer`). `timer_cancel` clears `pprev` before
  handing it on. The destructor of a fired timer has a like mistake (stale `next` and
  `pprev` are written into a slot), by which the same property is violated when the first is mended. Both are the slips
  that `OnlySlipsBreak` allows, and the only ones.
* **A worker that accepts** (`WorkersNeverAccept`). `prep_cross_thread_msg` takes an entry with `GetSqe` before it compares
  the rings (`event_loop.cc:201-205`). For a receiver in its own loop the entry stays as it is and is submitted: zeros are a NOP with
  user data 0, which reads as `__ACCEPT`, and `handle_accept` says "Cannot Accept New Connection In Worker Thread." and ends the loop.
  Two users of one document in one worker suffice, or a line of chat to a neighbour or to oneself.

**What the models also contain**, with no statement in the repository precise enough to be violated, so that no run counts it:

* *Formatting spreads.* `OpInsert` and `OpRetain` merge neighbours of different formatting into one with the composed attributes, in
  `content_` and in what `transform` returns (`ot.cc:12-16`, `:25`). A bold and a plain character inserted next to each other are both bold.
* *A send refused for want of a receive buffer.* `handle_send_zc` asks `GetRecvBuffer` for a send index (`event_loop.cc:367`). With
  more blocks of send than of receive buffers it gets NULL and returns -1, which ends the loop; at one block more it reads behind the vector first. 513 sends
  that wait at once reach this in the server.
* *A failed shutdown ends the worker.* The comment at `event_loop.cc:381` says that the connection should then be closed directly; the close
  linked behind the shutdown is cancelled, and `handle_close` takes that for an error. The direct close that `handle_shutdown` prepares
  carries connection 0 and would delete none.
* *A full table ends the master.* The descriptors the master passes on are never closed in its own table (the TODO at
  `event_loop.cc:234` asks whether they should be); once the table is full an accept fails and the loop of the master ends.
* *A lost share.* The context of a message whose request failed is never freed (`event_loop.cc:95`).

`SessionsAreLive` leaves user 0 out: `close` deletes a session only `if (user_id_)`, so that the entry of user
0 stays in `user_map_` for ever and the next connection with that id ends the process. The same exit meets the
second connection of any user. Both, and the call through `nullptr`, are paths of the model that end it; the repository
does not say they are wrong, so no run counts them as violations.

## 5. Proofs

The theorems hold for every value of the constants that the assumptions of the modules allow.

| Module | Theorem | Statement |
|---|---|---|
| `DocumentServiceProofs` | `Inductive` | `Spec => []IInv` |
| | `TypeCorrect` | `Spec => []TypeOK` |
| | `SharedByName` | `Spec => []JoinedIsRegistered` |
| | `ContextsAreExact` | `Spec => []ContextRefsExact` |
| | `HistoryIsExact` | `Spec => []HistoryWindow` |
| | `TransformIsComplete` | `Spec => TransformedOverGap` |
| | `EditsReachEveryone` | `Spec => []NoMissedEdit` |
| | `Refinement` | `Spec => ImplementsSharedDocuments` |
| `TimeWheelProofs` | `Types` | `Spec => []TypeOK` |
| | `BreaksBySlips` | `Spec => OnlySlipsBreak` |
| | `Refinement` | `Spec => ImplementsTimers` |
| `BufferPoolProofs` | `Inductive` | `Spec => []IInv` |
| | `TypeCorrect` | `Spec => []TypeOK` |
| | `BitsCorrect` | `Spec => []BitsFollowLoans` |
| | `RefusalJustified` | `Spec => []RefusedOnlyInNeed` |
| | `SendsWhatWasWritten` | `Spec => []KernelSendsWhatWasWritten` |
| | `Conserved` | `Spec => []BuffersConserved` |
| | `BitMapExact` | `Spec => []RangesAreExact` |
| | `LendingImplemented` | `Spec => ImplementsBufferLending` |
| `ConnectionsProofs` | `Inductive` | `Spec => []IInv` |
| | `TypeCorrect` | `Spec => []TypeOK` |
| | `Listens` | `Spec => []OpenConnectionsListen` |
| | `ClosedOnce` | `Spec => []ClosesOnce` |
| | `SlotsCorrect` | `Spec => []SlotsMatchConnections` |
| | `SessionsLive` | `Spec => []SessionsAreLive` |
| `MessagingProofs` | `TypeCorrect` | `Spec => []TypeOK` |
| | `AlwaysSoughtWhereHeld` | `Spec => []SoughtWhereHeld` |
| | `AlwaysContextsExact` | `Spec => []ContextsExact` |
| `ProtocolHandlersProofs` | `Types` | `Spec => []TypeOK` |
| | `Splits` | `Spec => []SplitsDontMatter` |
| | `Delivered` | `Spec => []DeliveredAsSent` |
| | `PingsKept` | `Spec => []AnsweredPingsKeep` |
| `DeliveryProofs` | `EditsInOrder` | `Spec => []EachEditorInOrder` |
| | `NoEditIsLost` | `Spec => []NoEditLost` |

### DocumentService

Assumed: `Conn` finite, `NULL` no value of its own, `Capacity` positive, `MaxRevision` a natural number.

The inductive invariant `IInv` is a conjunction of named parts, each needed by another:

* `TypeOK`;
* `Control`: which handler may be at which call, with which `document_`, `doc_name` and edit;
* `UsersAreJoined`: `users_` of a document are exactly the connections that hold it and are
  `Joined`: idle, at `ExitUser` or `GetContent`, or at the `GetUserList` of an OPEN or EDIT. This makes
  `ContextRefsExact` a count;
* `MutexOwner`: `users_mutex_` is owned exactly by the connection whose handler is at `CloseDocument`
  for that document, so that no one joins while the last user decides on the entry;
* `Named`: the Document of an entry carries the entry's name, and a held Document has a name;
* `Registered`: a held Document is the one its name's entry leads to, or its only holder has left it
  (`Detached`) and is about to let it go. `CloseDocument` preserves it because a count of 1 means that
  the closing connection is the only holder (lemma `OnlyHolder`), so that nobody is about to join;
* `HistoryWindow`: by the arithmetic of the window (lemma `Pushed`). `TransformedOverGap`, which says of each accepted EDIT that it
  was transformed over the edits `v + 1` to `r - 1`, v being the version it names and r its revision, follows from it (lemma `TransformedIs`);
* `NoMissedEdit`: each revision is known to a client or is in the hands of an editor that has
  yet to read the user list, and a joiner is in that list before it reads the content.

Each part has a lemma that a step preserves it, with one case per action (`StepCases`). `IInv` was checked
by TLC on the instances of `doc_safety` and `doc_liveness` before it was proved.

**Refinement.** The abstract members of a name are the users of the Documents that carry it. From `IInv` they are those who
have the name open (`HasOpen`, lemma `MembersAre`), and whatever one of them has open is what the name's entry leads to
(`OpenIsRegistered`), so that the abstract revision is that of one Document. The mapping needs one thing more than `IInv`: a handler that
creates a Document holds none (`HoldsNothing`). The steps that take effect are `JoinUser`, `ExitUser`, an accepted edit, and a
`Reset` or `GetDocument` that drops the last reference; for the last, `LetGo` shows that nobody had the name open, which is what lets the
abstract service forget its revision. All others are stutters.

### TimeWheel

Assumed: slots and ticks are positive, timeouts are natural numbers, timers are finitely many, and a timer, a slot, a number
and `NULL` are never the same. The sizes of the levels are any; in the code they are powers of two (`timer.h:15-20`), which is
only what makes a shift a division.

The theorems are about `Spec`, with no assumption on callers. `Types` holds of every state, also of broken wheels: whatever a list is, following
it gives timers (`WalkTyped`, `ListTyped`), and a time of expiry is only ever set within the timeout and the clock only moves on. The other two are
about steps from a whole wheel. That the step is no slip is used in `UnlinkKeeps` and `CancelKeeps` (the timer has a `pprev` to be taken
out by, `HasPprev`) and in `DestroySound` (a fired timer writes nothing), and nowhere else: this is where the two slips come from.

The pointers are related to sequences: `Chained(l, M)` says that the pointers `l` make up the lists `M`, one to a slot, in which no
timer occurs twice and each `pprev` is the place that leads to it, or `NULL`. `ListIs` shows that whoever follows `next` from a slot then walks
along its list and comes to the end of it (the list has at most as many timers as there are, by counting). Each piece of surgery takes
lists to lists: `InsertKeeps`, `UnlinkKeeps`, `CancelKeeps`, `ClearKeeps`, and `CascadeKeeps` for a slot that is emptied and whose timers are
added again one by one (an induction over the list, by a least counterexample).

`Timely(s, e, now)` says that slot s is right for a timer due at e: it is the place for e at its level, and on level 1 e is less than a turn
away, on a level above the level's quotient of e is still to come. It is established by every insertion
(`AddIsTimely`), stays true of a tick unless the level comes round to that slot (`StaysTimely`), and makes what level 1 has at hand exactly
what is due (`DueIsAtHand`). In the middle of a tick the levels already cascaded are right for the new tick and those above for the old one
(`Mid`, `RoundKeeps`), which is why the order of the cascades matters. `Whole` is `Sound(Lists)` (`WholeIs`), where `Sound` joins

* `Chained` for the lists there are;
* a listed timer is alive, has not fired, is due later than now, and its slot is `Timely`;
* a timer that is alive, has not fired and is in no list has neither `next` nor `pprev`, so that cancelling or destroying it writes nowhere.

A timer that has fired keeps stale pointers, and `Whole` says nothing of them: `timer_cancel` looks at `flag` first. Each operation takes
sound lists to sound lists (`TickSound`, `CreateSound`, `DestroySound`, `CancelSound`, `AddSound`), which is `BreaksBySlips`; and it changes the
set of listed timers as `Timers` does (`TickKeeps`, `UnsetKeeps`, `AddKeeps`), which is `Refinement`. Both properties were checked by TLC before they were
proved, on the instance of `timer_wheel`.

### BitMap and BufferPool

Assumed: the sizes are positive, a pool is a whole number of blocks (`kBufferEntriesMax` is a multiple of `kBufferCount`, both compile
time constants), the map has a bit for each buffer, and `NULL` is no address of a buffer (`NullIsNoBuffer`).

`BufferPoolProofs` begins with what the pool needs of the map: when the set of used indices has as many elements as
the count says (`Exact`), each operation leaves it so and changes the set by what its name says. Ranges are the hard
part: the masks of a range are a tail of one word, whole words and a head of another, or a piece of a single word
(`RangeMaskIs`, over `Lexicographic`: indices compare by word, then by bit), and what they add to the count are the bits of those
words that were not set (`UsedWithinIs`). That `FirstFree` finds an index exactly when one is free needs the
least of a set of numbers, which `LeastNatural` gives.

`IInv` says of the send pool (`PoolOK`) that its blocks are distinct, their number fits the count, the map is exact, its used indices are
those in use and those not created yet, and *every index below the count is registered with the memory that* `GetSendBuffer`
*computes for it*. The last part is inductive only because it leaves out the indices above: a growth that failed half way has registered
freed memory there, and the next one writes over it. `RecvOK` says that the entries of the ring and those received are disjoint and
together one for each index, with the address the handler will compute; `BuffersConserved` follows by counting
addresses, which differ as pool, block and place differ (`AddressesDiffer`). `LendingImplemented` maps the stage of each index and the
address registered for it to `BufferLending`.

### Connections

Assumed: `NULL` is no connection, slot or request (`Ids`, `NullIsNoRequest`), user 0 is a user, and the bounds on sends and
completions are natural numbers. Connections, slots and users are any sets.

The two central properties are counts over four queues, each of which any step may reorder or shorten: an open connection has one receive, a closed one
one step of closing. `SequenceLemmas` has the arithmetic of such counts (`Num(s, P)`, over concatenation, the first
element and one taken out of the middle). The invariant is `IInv == Types /\ SlotsAreOwned /\ (Running => Sound)`, where `Sound` joins

* `Listening` and `Closing`: the counts (`Total`);
* `NamesRight`: whatever request or completion names a connection names one that was accepted, and its slot as long as it exists;
* `PassedOnce`: a connection is passed once, and its socket is in the slot that the completion tells;
* `OwnSockets`: what an open connection receives and sends with at the kernel is its own socket;
* `CanceledAreClosed`: only what was closed has a receive cancelled, so that `handle_recv` is right not to listen again;
* `SlotsAreLeft`: once a close has completed, no slot has the socket of its connection;
* `NamelessEnds`: the close with connection 0 that `handle_shutdown` prepares comes with a cancelled close that ends the loop before it is submitted;
* `Orderly`: sessions and connections lead to each other, and a connection has a user only behind its handshake.

`SlotsAreOwned` has to hold after the loop has ended as well, since the kernel goes on.

The handlers share their helpers, so that a step is not proved by expanding it. `Turn(w, rx, cy, x)` says of the world a
handler has made so far that it is orderly but for connection x, and by how many receives (of the connections in rx) and closings (of those in
cy) it is ahead of the state. Each helper (`prep_recv`, `Close`, `AddTimer`, ...) takes a turn to a turn; a handler ends with a turn that is ahead by
exactly what its completion stood for (`TurnKeeps`). On the other side `Balanced` says that a request of the kernel becomes
completions, and perhaps the request linked behind it, that count as much as it did (`KernelKeeps`). `IInv` was
checked by TLC on the instance of `connections` (6.2 million states) before it was proved.

### Messaging

Assumed: connection ids count from 1 (`Ids`: `conn_count_` starts at 0 and is incremented before it is used), there is a worker, `NULL` is no
document and no number (`NullIsNothing`), and the bounds are numbers that fit the ids and the table (`Bounds`).

The invariant is `Inductive == Types /\ Placed /\ Accepting /\ Control /\ Listed /\ Exact`:

* `Placed`: a connection, and every entry that goes to one, is in the loop or on its way to the loop that its id leads to; what names a context
  names one that was created; an entry that is taken and not prepared is a worker's. `SoughtWhereHeld` is its first part, and it takes the rest of it: `handle_accept` computes
  the ring of an entry by turns, and much later the entry puts a connection into a loop;
* `Accepting`: a slot of the table is taken for each id given out and each accept that waits, so that ids stay in `Conn`;
* `Control`: what a handler knows at each stage, and that its connection is one of its loop's: only this loop changes
  the `document_` that the handler goes by;
* `Listed`: the users of a document are those who have it open, once each, but for one who is still to join. This is what makes
  `users.size() - 1` the number of receivers: the editor is among them, and he who leaves is not;
* `Exact`: the references of a context are its messages that are not handled (`Shares`), and a message to one connection is
  somewhere at most once. The second part is needed because `lost` is a set: a request that fails must not be lost already.

The counts are again those of `SequenceLemmas`, added up over the loops (`Tally`). `Only`, by which the kernel deals entries out to
the rings and a document leaves users out, is written with ranks: a lemma (`OnlyIs`) says that it has the elements in question, in their order and as often. Each handler then moves shares
between the tasks, the queues and `lost` (`SubmitMoves`, `HandleMoves`, `PostMoves`) or begins a context with as many as it lists (`ExactBegun`).
`Inductive` was checked by TLC on the instance of `messaging` before it was proved.

`DeliveryProofs` adds what clients get, with `Addressed`, `InOrder` and `Joined`, which TLC checked on the same instance:

* `Addressed`: an OP is for another than its editor. In a submission queue it is one of an editor of the same loop, in a completion queue one of
  another loop. This is what the order rests on: the OPs of one editor to one connection all take the same way, either through the submission queue of
  the editor's loop and the completion queue of the receiver's, or neither, because `Post` handles them at once;
* `InOrder`: for one editor and one connection, what is in the inbox is earlier than what is in the queues, in a queue the front is earlier than the rest, a completion queue
  is earlier than the submission queues, and what a handler has still to post is the latest. Nothing is said of two editors, whose OPs do overtake each other.
  A submission needs `Addressed`: it puts OPs into a completion queue behind others, while other loops have OPs for the same ring waiting in theirs;
* `Joined`: who has been sent the content of a document has it open, so by `Listed` it is one of its users, and its loop has it in `conn_map_` (`Placed`).

`NoEditLost` is then inductive with `Joined` and `Inductive`: an edit is taken by a handler that has still to list the users (`Unlisted`), and each later step moves an
OP on (`GetsUserList`, `GetsPost`, `GetsSubmit`, `GetsHandle`), the request that fails into `lost`. An OPEN answered later starts over at the number of edits there are.

### HttpParser, WebSocketParser and ProtocolHandlers

Assumed: the limits are positive, a frame is one of bytes and its payload fits the form its length is written in, up to two bytes of length
(`Sizes`, `FramesOfBytes`), the idle timer is longer than the wait for a pong
(`Timeouts`, 60 seconds and 30 in the code), and no proper beginning of a request is a request (`RequestsEnd`): the client sends nothing
behind its request until that is answered. TLC evaluates all of them on the 88 requests of `protocols`.

Both parsers are functions over the places of a buffer (`Rounds`, `AfterBytes`); `RoundsAre` and `AfterBytesAre` unfold them by induction over
the places. A buffer that ends at n and one that begins there then make the rounds of one buffer (`RoundsOfPrefix`, `RoundsGoOn`), and a parser that
has returned stays as it is (`RoundsStop`). The invariant is `ParsedOnce == Typed /\ Parsing /\ Upgraded /\ Answered`:

* `Parsing`: until the answer, the parser is where it would be behind the characters received so far had all come in one buffer, and has neither
  returned nor seen an error. This is what the missing `return` at `http_parser.cc:197` breaks, for an error that a buffer's end reports and the next
  character forgets. `AlwaysSound` shows that it is the only place: each round goes on without an error, returns with one, returns with a whole
  request, or reads a wrong letter behind the second blank (`StepRound`, case by case over the states of the loop);
* `Answered`: the answer given is the one to the whole request. `RequestsEnd` is needed here, since a request that ends early would leave bytes that one
  buffer gives to the parser and two give to the next handler;
* `Upgraded`: behind the upgrade only bytes of frames are under way;
* `Typed`: the parser of frames collects as many bytes as the length it has accepted (`Collected`), and every call of the handler keeps its
  record sound (the lemmas `...Kept`), also those of a parser that has lost its place.

The frames take a second invariant, `Following`. `Reassembled(frames)[j]` is what RFC 6455 makes of the first j frames, and nothing in it knows of buffers,
bytes or states of a parser. An upgraded connection is where the bytes put it that it has received:

* `EncodedAre` says which byte of a frame is where; `OnWay(p, f, i)` says what a parser has read behind i bytes of frame f, byte by byte: the length so far
  (which it caps one above the limit, lemma `LengthOfBytes`), the mask, the payload unmasked (`XorTwice`). `FrameBytes`: the next byte takes it one further, or it refuses the
  frame for good, or it has the frame (`AtEnd`);
* `FrameDoneIs`: a frame handled takes a connection that has delivered what the frames amount to (`Good`) to one that has delivered what one more amounts
  to, or the connection is closing. This is where the limit for the whole message, the frames of unknown kind and those that continue nothing are
  compared with `NextFrame`, and where a pong ends the wait;
* `Followed`, behind each byte of a buffer: of the first j frames nothing is missing and the parser is inside the next (`InPlace`), or the connection is closing
  and has delivered a beginning of the messages (`Loose`), or it has refused a frame and will be closing when the buffer ends (`Stopped`). `Rested` is the same
  between two buffers, without the last case: `BufferDone` sends the close frame (`BufferDoneRested`);
* `OnWire`: the bytes under way are the last of those of the frames;
* a wait for a pong that goes on has seen none among the frames since the ping (`NoPong`), so that when it closes the connection there was none (`Unanswered`).

A connection that goes on has handled exactly the frames received to their last byte (`InPlaceWhole`), which makes `Following` the two properties; one that is closing
has delivered no more than they amount to, since more frames take no message away (`LooseAtLast`). A parser that has lost its place belongs to a connection that is closing
(`LostRecvFollowing`): this is why whatever it reads there is delivered to no one.

### What is not proved

Liveness (`HandlerReturns`, `EventuallyClosed`, `EditsArrive`) is out of the prover's reach, and so is everything about `OT` and
`DocumentContent`, whose recursive operators it does not handle: what `transform` and `compose` compute is an induction over the
components. Of the requests that are upgraded (`OnlyHandshakesUpgrade`, `HandshakesUpgrade`) TLC checks the run `protocols`; they would take a proof
that the parser of requests inverts what the client writes, field by field, as is proved of the parser of frames.

## 6. Not modelled, and the plan

1. *Done*: document service with its proofs, transformation and content, timer wheel, buffer pool, connections and sessions of
   one worker, protocol handlers with their parsers, messaging between loops with accepts, broadcasts and chat.
2. *Done*: proofs about the document service and its refinement, the bit map and the buffer pool with its refinement, the connections
   of a worker, the messages between loops: places, counts, order and completeness, the wheel: what breaks it, and its refinement, and the protocol handlers:
   requests in pieces, frames delivered as sent, pings.
3. **Connections**: that a closed connection is deleted in the end, under fairness of the kernel.
4. A byte model of texts in `OT`, for the lengths that count bytes (`ot.cc:161`).

Not in any model: rings beyond their first round and the wrap-around of 28 bit connection ids; a failure of
`io_uring_submit_and_wait` itself; the clock behind `TimeWheel::Update` and its cache of deadlines.

Left out for good: MysqlConnection (unused), helpers and main (no state), JSON and log
formatting, socket and ring set-up (system calls).
