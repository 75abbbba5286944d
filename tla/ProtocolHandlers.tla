-------------------------- MODULE ProtocolHandlers --------------------------
(***************************************************************************)
(* What one connection makes of the bytes of its client: HttpHandler until *)
(* the handshake is answered, WebSocketHandler from then on, with their    *)
(* parsers, the idle timer and the timer that waits for a pong.            *)
(*                                                                         *)
(* The client writes one request, and frames once it has been upgraded.    *)
(* TCP hands the bytes over in order, in buffers that end anywhere.  What  *)
(* happens after close() is told in Connections; here it ends the story.   *)
(***************************************************************************)
EXTENDS Naturals, Sequences, FiniteSets, SequencesExt

CONSTANTS UriSize, ElementSize, KeySize,  \* see HttpParser
          MaxPayloadLength, MaskSize,     \* see WebSocketParser
          Requests,     \* requests that the client may begin with
          Frames,       \* frames that the client may send
          Mask,         \* the key they are masked with
          PingPayload,  \* WS_PING_PAYLOAD
          IdleTicks,    \* kConnIdleTimeout in ticks of the wheel
          PongTicks,    \* kTimeToCloseAfterPing in ticks of the wheel
          Room,         \* send buffers that may be free when data arrives
          MaxFragments, \* bound: fragments of the reply of a service
          MaxChunk,     \* bound: bytes of a buffer that does not take all there are
          MaxFrames,    \* bound: frames that the client sends
          MaxWire       \* bound: bytes that are under way when it sends one

ASSUME Sizes == /\ {UriSize, ElementSize, KeySize, MaskSize} \subseteq Nat \ {0}
                /\ MaxPayloadLength \in Nat \ {0} /\ MaxFrames \in Nat /\ Room \subseteq Nat
ASSUME Timeouts == PongTicks \in Nat \ {0} /\ IdleTicks \in Nat /\ IdleTicks > PongTicks

Http == INSTANCE HttpParser
Ws == INSTANCE WebSocketParser

VARIABLES
  request,    \* the request of the client, until its first frame
  frames,     \* the frames it has sent
  wire,       \* bytes that are sent and not received
  conn,       \* TcpConnection: stage_, why it is closed, ticks of idle_timer_
  http,       \* HttpHandler::parser
  ws,         \* WebSocketHandler::parser
  handler,    \* handle_state_, payload_cache, wait_pong_flag, ticks of wait_pong_timer_
  delivered,  \* payloads that the service has been given
  pinged      \* frames that had been received when the last ping was sent

client == <<request, frames>>
vars == <<request, frames, wire, conn, http, ws, handler, delivered, pinged>>

(* The characters of a request: arguments are pairs of key and value, and a *)
(* field has its items set apart by commas.                                 *)
Joined(parts, sep) == FoldLeft(LAMBDA s, part : s \o sep \o part, Head(parts), Tail(parts))

Uri(r) == r.path \o (IF r.args = <<>> THEN <<>>
                     ELSE <<"?">> \o Joined([i \in DOMAIN r.args |->
                                               r.args[i][1] \o <<"=">> \o r.args[i][2]], <<"&">>))

Value(f) == <<" ">> \o Joined(f.items, <<",", " ">>)

Text(r) ==
  LET Line(f) == f.name \o <<":">> \o Value(f) \o <<"\r", "\n">>
  IN IF r.method = <<>> THEN <<>>
     ELSE r.method \o <<" ">> \o Uri(r) \o <<" ">> \o r.version \o <<"\r", "\n">>
          \o FlattenSeq([i \in DOMAIN r.fields |-> Line(r.fields[i])]) \o <<"\r", "\n">>

(* The client sends nothing behind its request until that is answered. *)
ASSUME RequestsEnd ==
  \A r \in Requests :
    /\ Text(r) \in Seq(STRING)
    /\ \A n \in 1..Len(Text(r)) - 1 :
         ~Http!IsDone(Http!ParserExecute(Http!Reset, SubSeq(Text(r), 1, n)))

(* A payload that fits the form its length is written in; bound: of eight   *)
(* bytes of length only the last two are used.                              *)
ASSUME FramesOfBytes ==
  /\ Frames \subseteq [fin : BOOLEAN, opcode : 0..15, payload : Seq(0..255), masked : BOOLEAN,
                       form : {7, 16, 64}]
  /\ \A f \in Frames : Len(f.payload) < IF f.form = 7 THEN 126 ELSE 256 * 256
  /\ Mask \in [1..MaskSize -> 0..255]
  /\ PingPayload \in Seq(0..255) /\ Len(PingPayload) <= MaxPayloadLength

Forgotten == [method |-> <<>>, path |-> <<>>, args |-> <<>>, version |-> <<>>, fields |-> <<>>]

(* The bytes of a frame. *)
Encoded == [f \in Frames |-> Ws!Bytes(f, Mask)]

Init ==
  /\ request \in Requests
  /\ frames = <<>>
  /\ wire = Text(request)
  /\ conn = [stage |-> "http", closed |-> "no", idle |-> IdleTicks]
  /\ http = Http!Reset
  /\ ws = Ws!Fresh
  /\ handler = [state |-> "Normal", cache |-> <<>>, wait_pong |-> FALSE, timer |-> 0]
  /\ delivered = <<>>
  /\ pinged = 0

Open == conn.closed = "no"

(* The client sends a frame. *)
Send(f) ==
  /\ Open
  /\ conn.stage = "websocket"
  /\ Len(frames) < MaxFrames /\ Len(wire) <= MaxWire
  /\ request' = Forgotten
  /\ frames' = Append(frames, f)
  /\ wire' = wire \o Encoded[f]
  /\ UNCHANGED <<conn, http, ws, handler, delivered, pinged>>

-----------------------------------------------------------------------------
(* HttpHandler *)

(* request_uri_parse: the path and the user of the connection. *)
Routed(p) ==
  LET users == SelectSeq(p.args, LAMBDA a : a[1] = <<"user_id">>)
  IN /\ p.location \in {<<"/", "c", "hat">>, <<"/", "document">>}
     /\ users # <<>>
     /\ users[1][2][1] = "7"

(* RecvDataHandle.  The reply to a handshake needs a send buffer; without  *)
(* one the connection is closed, and passes to the next stage all the same. *)
HttpRecv(buffer, room) ==
  LET p == Http!ParserExecute(http, buffer)
      upgraded == [conn EXCEPT !.stage = "websocket"]
      answered == IF Http!IsDone(p)
                  THEN IF ~Routed(p) THEN [conn EXCEPT !.closed = "not_found"]
                       ELSE IF room = 0 THEN [upgraded EXCEPT !.closed = "no_buffer"] ELSE upgraded
                  ELSE IF p.error # "none" THEN [conn EXCEPT !.closed = "bad_request"] ELSE conn
  IN /\ conn' = [answered EXCEPT !.idle = IdleTicks]
     /\ http' = IF answered.stage = "websocket" THEN Http!Reset ELSE p
     /\ UNCHANGED <<ws, handler, delivered>>

-----------------------------------------------------------------------------
(* WebSocketHandler.  Its calls work on a record w of what they change: the *)
(* connection, the parser, the handler, what is delivered, the send buffers *)
(* that are free, and whether the buffer ends inside a frame.               *)

Closed(w, why) == IF w.conn.closed = "no" THEN [w EXCEPT !.conn.closed = why] ELSE w

(* Takes n send buffers one after the other, or closes the connection. *)
Sent(w, n) == IF w.room < n THEN Closed([w EXCEPT !.room = 0], "no_buffer")
              ELSE [w EXCEPT !.room = @ - n]

SendCloseFrame(w) ==
  IF w.room = 0 THEN Closed(w, "no_buffer") ELSE [Sent(w, 1) EXCEPT !.handler.state = "Closing"]

(* Mutant for TypeOK: the limit is not checked for the whole message. *)
Continue_Unbounded(w) ==
  IF w.handler.state # "Continued" THEN SendCloseFrame(w)
  ELSE [w EXCEPT !.handler.state = IF w.ws.fin THEN "Normal" ELSE @, !.handler.cache = @ \o w.ws.data]

Continue(w) ==
  LET whole == [w EXCEPT !.handler.state = IF w.ws.fin THEN "Normal" ELSE @]
  IN IF w.handler.state # "Continued" THEN SendCloseFrame(w)
     ELSE IF Len(w.handler.cache) + Len(w.ws.data) > MaxPayloadLength THEN SendCloseFrame(whole)
     ELSE [whole EXCEPT !.handler.cache = @ \o w.ws.data]

(* Mutant for DeliveredAsSent: data frames are handled while closing. *)
FrameHandle_Closing(w) ==
  IF w.ws.opcode = Ws!CONTINUED THEN Continue(w)
  ELSE IF w.ws.opcode \in {Ws!TEXT, Ws!BINARY}
  THEN [w EXCEPT !.handler.state = IF w.ws.fin THEN @ ELSE "Continued",
                 !.handler.cache = w.ws.data]
  ELSE SendCloseFrame(w)

FrameHandle(w) ==
  IF w.handler.state = "Closing" THEN w
  ELSE IF w.ws.opcode = Ws!CONTINUED THEN Continue(w)
  ELSE IF w.ws.opcode \in {Ws!TEXT, Ws!BINARY}
  THEN [w EXCEPT !.handler.state = IF w.ws.fin THEN @ ELSE "Continued",
                 !.handler.cache = w.ws.data]
  ELSE SendCloseFrame(w)

(* The service gets the payload, and its reply is sent in fragments. *)
Served(w, fragments) ==
  IF w.handler.state # "Normal" THEN w
  ELSE Sent([w EXCEPT !.delivered = Append(@, w.handler.cache), !.handler.cache = <<>>], fragments)

(* Mutant for AnsweredPingsKeep: the right pong does not end the wait. *)
Pong_StillWaiting(w) ==
  IF w.handler.wait_pong /\ w.ws.data # PingPayload THEN SendCloseFrame(w) ELSE w

Pong(w) ==
  IF ~w.handler.wait_pong THEN w
  ELSE [IF w.ws.data # PingPayload THEN SendCloseFrame(w) ELSE w
        EXCEPT !.handler.wait_pong = FALSE, !.handler.timer = 0]

ControlFrameHandle(w) ==
  CASE w.ws.opcode = Ws!CLOSE ->
         Closed(IF w.handler.state # "Closing" THEN SendCloseFrame(w) ELSE w, "peer")
    [] w.ws.opcode = Ws!PING -> Sent(w, 1)
    [] w.ws.opcode = Ws!PONG -> Pong(w)
    [] OTHER -> SendCloseFrame(w)

FrameDone(w, fragments) ==
  LET handled == IF Ws!IsControl(w.ws.opcode) THEN ControlFrameHandle(w)
                 ELSE Served(FrameHandle(w), fragments)
  IN [handled EXCEPT !.ws = Ws!Reset(w.ws), !.inside = FALSE]

(* RecvDataHandle: the frames of a buffer one after the other, until the    *)
(* connection is closed; a parser with an error answers with a close frame  *)
(* whenever a buffer ends inside a frame.                                   *)
NextByte(w, byte, fragments) ==
  LET q == [w EXCEPT !.ws = Ws!Step(w.ws, byte), !.inside = TRUE]
  IN IF w.ws.returned \/ w.conn.closed # "no" THEN w
     ELSE IF q.ws.state = "Done" THEN FrameDone(q, fragments) ELSE q

BufferDone(w) == IF w.inside /\ w.ws.error # "none" THEN SendCloseFrame(w) ELSE w

Before(room) == [conn |-> conn, ws |-> [ws EXCEPT !.returned = FALSE], handler |-> handler,
                 delivered |-> delivered, room |-> room, inside |-> FALSE]

(* handle_recv sets the idle timer again. *)
After(w) == /\ conn' = [w.conn EXCEPT !.idle = IdleTicks]
            /\ ws' = w.ws
            /\ handler' = w.handler
            /\ delivered' = w.delivered
            /\ UNCHANGED http

(* The record behind each byte of a buffer. *)
AfterBytes(buffer, room, fragments) ==
  LET after[i \in 0..Len(buffer)] ==
        IF i = 0 THEN Before(room) ELSE NextByte(after[i - 1], buffer[i], fragments)
  IN after

WsRecv(buffer, room, fragments) ==
  After(BufferDone(AfterBytes(buffer, room, fragments)[Len(buffer)]))

(* What a parser that has lost its place makes of a buffer is undefined: it *)
(* may find no end of a frame, or any frame.                                *)
LostRecv(room) ==
  \/ After(BufferDone([Before(room) EXCEPT !.inside = TRUE]))
  \/ \E opcode \in {Ws!TEXT, Ws!CLOSE, Ws!PING, Ws!PONG, 11}, data \in {<<>>, PingPayload} :
       After(FrameDone([Before(room) EXCEPT !.ws.opcode = opcode, !.ws.fin = TRUE, !.ws.data = data], 1))

-----------------------------------------------------------------------------
(* A receive completes with n bytes. *)
Recv(n) ==
  /\ Open
  /\ n <= Len(wire)
  /\ n <= MaxChunk \/ n = Len(wire)
  /\ wire' = SubSeq(wire, n + 1, Len(wire))
  /\ \E room \in Room :
       \/ conn.stage = "http" /\ HttpRecv(SubSeq(wire, 1, n), room)
       \/ /\ conn.stage = "websocket" /\ ws.state # "Lost"
          /\ \E fragments \in 1..MaxFragments : WsRecv(SubSeq(wire, 1, n), room, fragments)
       \/ conn.stage = "websocket" /\ ws.state = "Lost" /\ LostRecv(room)
  /\ UNCHANGED <<client, pinged>>

(* Where frames end, and those that have been received to their last byte:  *)
(* no more is under way than what was sent behind them.                     *)
Ends(fs) ==
  LET ends[i \in 0..Len(fs)] == IF i = 0 THEN 0 ELSE ends[i - 1] + Len(Encoded[fs[i]])
  IN ends
Whole ==
  LET ends == Ends(frames)
  IN Cardinality({i \in DOMAIN frames : ends[i] + Len(wire) <= ends[Len(frames)]})

(* Mutant for EventuallyClosed: a ping without a wait for its pong. *)
Ping_NoTimer == /\ handler' = [handler EXCEPT !.wait_pong = TRUE]
                /\ pinged' = Whole
                /\ conn' = [conn EXCEPT !.idle = 0]

(* WebSocketHandler::TimeoutHandle *)
Ping == /\ handler' = [handler EXCEPT !.wait_pong = TRUE, !.timer = PongTicks]
        /\ pinged' = Whole
        /\ conn' = [conn EXCEPT !.idle = 0]

(* A tick of the wheel; a timer that runs out is not set again by itself.  *)
Expires(timer) == timer = 1
Tick ==
  /\ Open
  /\ \/ /\ Expires(conn.idle) /\ conn.stage = "http"
        /\ conn' = [conn EXCEPT !.idle = 0, !.closed = "idle"]
        /\ UNCHANGED <<handler, pinged>>
     \/ /\ Expires(conn.idle) /\ conn.stage = "websocket"
        /\ Ping
     \/ /\ ~Expires(conn.idle) /\ conn.idle + handler.timer # 0
        /\ conn' = [conn EXCEPT !.idle = IF @ = 0 THEN 0 ELSE @ - 1,
                                !.closed = IF Expires(handler.timer) /\ handler.wait_pong
                                           THEN "pong" ELSE @]
        /\ handler' = [handler EXCEPT !.timer = IF @ = 0 THEN 0 ELSE @ - 1]
        /\ UNCHANGED pinged
  /\ UNCHANGED <<client, wire, http, ws, delivered>>

Next == \/ \E f \in Frames : Send(f)
        \/ \E n \in 1..Len(wire) : Recv(n)
        \/ Tick

Spec == Init /\ [][Next]_vars /\ WF_vars(Tick)

-----------------------------------------------------------------------------
(* Properties *)

(* The records are what they should be; while both timers run, the wait for *)
(* a pong ends first, so that no ping is sent while another is waited for.  *)
TypeOK ==
  /\ request \in Requests \cup {Forgotten}
  /\ ToSet(frames) \subseteq Frames /\ Len(frames) <= MaxFrames
  /\ conn \in [stage : {"http", "websocket"}, idle : 0..IdleTicks,
               closed : {"no", "bad_request", "not_found", "idle", "no_buffer", "peer", "pong"}]
  /\ handler.state \in {"Normal", "Continued", "Closing"}
  /\ Len(handler.cache) <= MaxPayloadLength
  /\ handler.timer \in 0..PongTicks
  /\ handler.timer # 0 => handler.wait_pong /\ (conn.idle = 0 \/ conn.idle > handler.timer)
  /\ ws.state # "Done" /\ Len(ws.data) < MaxPayloadLength

(* What a request is answered does not depend on where its buffers end: it  *)
(* is what it is answered when it comes in one buffer (http_parser.cc:9,    *)
(* HttpHandler::RecvDataHandle).  The one exception is a version that does  *)
(* not begin with H, which is an error only if the buffer ends before the   *)
(* request does (http_parser.cc:197).  Read as a version is what comes      *)
(* behind the second blank, wherever that is.                               *)
WrongVersion(text) ==
  \E i \in 2..Len(text) : /\ text[i - 1] = Http!SP
                         /\ Cardinality({j \in 1..i - 1 : text[j] = Http!SP}) = 2
                         /\ text[i] \notin {Http!Version[1], Http!SP}

SplitsDontMatter ==
  LET p == Http!ParserExecute(Http!Reset, Text(request))
  IN request # Forgotten /\ ~WrongVersion(Text(request)) =>
       /\ conn.stage = "websocket" => Http!IsDone(p) /\ Routed(p)
       /\ conn.closed = "not_found" => Http!IsDone(p) /\ ~Routed(p)
       /\ conn.closed = "bad_request" => ~Http!IsDone(p) /\ p.error # "none"
       /\ Open /\ conn.stage = "http" /\ wire = <<>> => ~Http!IsDone(p) /\ p.error = "none"

(* Only a handshake is upgraded: each required field is there by its whole  *)
(* name, and each required item is listed whole by a field whose name is    *)
(* that of its field or begins it (http_parser.cc:261-552).                 *)
Lists(f, h) == IsPrefix(f.name, Http!Name[h]) /\ Http!Item[h] \in ToSet(f.items)
OnlyHandshakesUpgrade ==
  request # Forgotten /\ conn.stage = "websocket" =>
    /\ \A h \in Http!Required : \E f \in ToSet(request.fields) : f.name = Http!Name[h]
    /\ \A h \in DOMAIN Http!Item : \E f \in ToSet(request.fields) : Lists(f, h)

(* A handshake for one of the services with a numeric user, in any order of *)
(* its fields and with any other fields and items, is upgraded, whatever    *)
(* the buffers.  Not promised to names that go on behind a required one, to *)
(* items that begin or extend the required one, and to a URI of full length.*)
PathOf(r) == r.path \in {<<"/", "c", "hat">>, <<"/", "%", "6", "3", "hat">>, <<"/", "document">>}
ArgsOf(r) ==
  /\ \A i \in DOMAIN r.args : \A part \in {r.args[i][1], r.args[i][2]} :
       part # <<>> /\ ToSet(part) \cap {" ", "#", "%", "&", "="} = {}
  /\ \E i \in DOMAIN r.args : /\ r.args[i][1] = <<"user_id">> /\ r.args[i][2][1] = "7"
                             /\ \A j \in 1..i - 1 : r.args[j][1] # <<"user_id">>
PlainField(f) ==
  /\ f.name # <<>> /\ Len(f.name) < ElementSize /\ \A i \in DOMAIN f.name : Http!InName(f.name[i])
  /\ \A h \in Http!Required : IsPrefix(Http!Name[h], f.name) => f.name = Http!Name[h]
  /\ Len(Value(f)) < ElementSize
  /\ \A item \in ToSet(f.items) :
       /\ item # <<>> /\ ToSet(item) \cap {"\r", "\n", ",", " "} = {}
       /\ \A h \in DOMAIN Http!Item :
            /\ IsPrefix(f.name, Http!Name[h])
            /\ IsPrefix(item, Http!Item[h]) \/ IsPrefix(Http!Item[h], item)
            => item = Http!Item[h]
  /\ f.name = Http!Name["key"] =>
       LET key == Joined(f.items, <<",">>)
       IN Len(key) <= KeySize /\ \A i \in DOMAIN key : Http!InKey(key[i])
WellFormed(r) ==
  /\ r.method = Http!Method /\ r.version = Http!Version
  /\ PathOf(r) /\ ArgsOf(r) /\ Len(Uri(r)) < UriSize
  /\ \A f \in ToSet(r.fields) : PlainField(f)
  /\ \A h \in Http!Required : \E f \in ToSet(r.fields) :
       f.name = Http!Name[h] /\ (h \in DOMAIN Http!Item => Lists(f, h))

HandshakesUpgrade ==
  request # Forgotten /\ wire = <<>> /\ WellFormed(request) =>
    conn.stage = "websocket" \/ conn.closed = "idle"

(* What RFC 6455 makes of frames: the messages, and how they end: with a    *)
(* frame that no server accepts, with a close frame, or with a new message  *)
(* inside one that is not complete.                                         *)
Faulty(m, f) == \/ ~f.masked
                \/ Len(f.payload) > MaxPayloadLength
                \/ f.opcode \notin {Ws!CONTINUED, Ws!TEXT, Ws!BINARY, Ws!CLOSE, Ws!PING, Ws!PONG}
                \/ /\ f.opcode = Ws!CONTINUED
                   /\ ~m.begun \/ Len(m.text) + Len(f.payload) > MaxPayloadLength
NextFrame(m, f) ==
  IF m.end # "none" THEN m
  ELSE IF Faulty(m, f) THEN [m EXCEPT !.end = "fault"]
  ELSE IF f.opcode = Ws!CLOSE THEN [m EXCEPT !.end = "close"]
  ELSE IF Ws!IsControl(f.opcode) THEN m
  ELSE IF m.begun /\ f.opcode # Ws!CONTINUED THEN [m EXCEPT !.end = "interrupted"]
  ELSE LET text == m.text \o f.payload
       IN IF f.fin THEN [m EXCEPT !.text = <<>>, !.begun = FALSE, !.messages = Append(@, text)]
          ELSE [m EXCEPT !.text = text, !.begun = TRUE]
NoFrame == [messages |-> <<>>, text |-> <<>>, begun |-> FALSE, end |-> "none"]
Reassembled(fs) ==
  LET after[i \in 0..Len(fs)] ==
        IF i = 0 THEN NoFrame ELSE NextFrame(after[i - 1], fs[i])
  IN after

(* The service is given the messages of the client, whole, once and in      *)
(* order, whatever the buffers, fragments and control frames between them   *)
(* (websocket_handler.cc:22-59, :100-131).  While the connection goes on it *)
(* has them all and no frame was faulty; once it is closing it has no more. *)
(* For want of a send buffer one more call may be made, when the close      *)
(* frame could not be sent.  Nothing is said of interrupted messages.       *)
DeliveredAsSent ==
  LET received == Reassembled(frames)[Whole]
  IN received.end # "interrupted" =>
       /\ Open /\ handler.state # "Closing" =>
            received.end = "none" /\ delivered = received.messages
       /\ \/ IsPrefix(delivered, received.messages)
          \/ /\ conn.closed = "no_buffer"
             /\ IsPrefix(Front(delivered), received.messages)

(* The wait for a pong closes only connections whose client has sent none   *)
(* since the ping (websocket_handler.h:67, websocket_handler.cc:150).       *)
AnsweredPingsKeep ==
  conn.closed = "pong" /\ handler.state # "Closing" =>
    \A i \in pinged + 1..Whole : frames[i].opcode # Ws!PONG \/ ~frames[i].masked

(* A client that stops sending is closed in the end: before the upgrade by  *)
(* the idle timer, behind it by a ping that it does not answer              *)
(* (http_handler.cc:20, websocket_handler.cc:17).                           *)
EventuallyClosed == <>(conn.closed # "no")

=============================================================================
