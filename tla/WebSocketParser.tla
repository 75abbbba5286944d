-------------------------- MODULE WebSocketParser --------------------------
(***************************************************************************)
(* The parser of WebSocket frames (protocol/websocket/                     *)
(* websocket_parser.cc), a byte at a time, and the frames as a client      *)
(* writes them.  Bytes are numbers up to 255.                              *)
(***************************************************************************)
EXTENDS Naturals, Sequences, FiniteSetsExt

CONSTANTS MaxPayloadLength,  \* kMaxPayloadLength
          MaskSize           \* 4, the bytes of a masking key

CONTINUED == 0
TEXT == 1
BINARY == 2
CLOSE == 8
PING == 9
PONG == 10
IsControl(opcode) == opcode >= 8

(* The exclusive or of two bytes, from a table for their halves. *)
Differ(a, b, k) == k * ((a \div k + b \div k) % 2)
XorTable == [a \in 0..15 |-> [b \in 0..15 |->
               Differ(a, b, 1) + Differ(a, b, 2) + Differ(a, b, 4) + Differ(a, b, 8)]]
Xor(a, b) == 16 * XorTable[a \div 16][b \div 16] + XorTable[a % 16][b % 16]

-----------------------------------------------------------------------------
(* A parser; returned is set when ParserExecute refuses a frame and with    *)
(* it the rest of the buffer.  In state "Lost" a length has been refused    *)
(* with none of its bytes remaining, and the parser goes on to write behind *)
(* payload_length_.  Reset keeps the error; the fields of the last frame,   *)
(* which it keeps too, are not read before they are written again.          *)

Fresh == [state |-> "FinAndOpcode", remain |-> 1, data |-> <<>>, error |-> "none",
          fin |-> FALSE, opcode |-> CONTINUED, length |-> 0, mask |-> <<>>, returned |-> FALSE]

Reset(p) == [Fresh EXCEPT !.error = p.error]

Refused(p, e) == [p EXCEPT !.error = e, !.returned = TRUE]

(* The length is known: the masking key is next. *)
WithLength(p, length) ==
  [p EXCEPT !.state = "MaskingKey", !.length = length, !.remain = MaskSize, !.mask = <<>>]

FinAndOpcode(p, byte) ==
  [p EXCEPT !.fin = byte \div 128 = 1, !.opcode = byte % 16, !.state = "MaskAndLen"]

MaskAndLen(p, byte) ==
  LET length == byte % 128
      Extended(s, bytes) == [p EXCEPT !.state = s, !.remain = bytes, !.length = 0]
  IN IF byte < 128 THEN Refused(p, "PROTOCOL_ERROR")
     ELSE IF length = 126 THEN Extended("PayloadLen16", 2)
     ELSE IF length = 127 THEN Extended("PayloadLen64", 8)
     ELSE IF length > MaxPayloadLength THEN Refused(p, "PAYLOAD_TOO_BIG")
     ELSE WithLength(p, length)

(* A byte of a length in network order.  Lengths above the limit are not   *)
(* told apart.                                                             *)
PayloadLen(p, byte) ==
  LET length == Min({256 * p.length + byte, MaxPayloadLength + 1})
      q == [p EXCEPT !.length = length, !.remain = @ - 1]
  IN IF q.remain # 0 THEN q
     ELSE IF length > MaxPayloadLength
     THEN Refused([q EXCEPT !.state = "Lost"], "PAYLOAD_TOO_BIG")
     ELSE WithLength(q, length)

MaskingKey(p, byte) ==
  LET q == [p EXCEPT !.mask = Append(@, byte), !.remain = @ - 1]
  IN IF q.remain # 0 THEN q
     ELSE [q EXCEPT !.state = IF q.length # 0 THEN "PayloadData" ELSE "Done", !.remain = q.length]

PayloadData(p, byte) ==
  LET index == p.length - p.remain
      q == [p EXCEPT !.data = Append(@, Xor(byte, p.mask[(index % MaskSize) + 1])),
                     !.remain = @ - 1]
  IN IF q.remain = 0 THEN [q EXCEPT !.state = "Done"] ELSE q

(* One round of the loop of ParserExecute. *)
Step(p, byte) ==
  CASE p.state = "FinAndOpcode" -> FinAndOpcode(p, byte)
    [] p.state = "MaskAndLen" -> MaskAndLen(p, byte)
    [] p.state \in {"PayloadLen16", "PayloadLen64"} -> PayloadLen(p, byte)
    [] p.state = "MaskingKey" -> MaskingKey(p, byte)
    [] p.state = "PayloadData" -> PayloadData(p, byte)

-----------------------------------------------------------------------------
(* A frame of a client, with the form its length is written in, and its    *)
(* bytes.  A frame that is not masked has no key.                          *)
Bytes(frame, mask) ==
  LET n == Len(frame.payload)
      head == <<(IF frame.fin THEN 128 ELSE 0) + frame.opcode>>
      form == CASE frame.form = 7 -> <<n>>
                [] frame.form = 16 -> <<126, n \div 256, n % 256>>
                [] frame.form = 64 -> <<127, 0, 0, 0, 0, 0, 0, n \div 256, n % 256>>
      masked == [form EXCEPT ![1] = @ + 128]
      key == [i \in 1..MaskSize |-> mask[i]]
  IN head \o (IF frame.masked
              THEN masked \o key
                   \o [i \in 1..n |-> Xor(frame.payload[i], mask[((i - 1) % MaskSize) + 1])]
              ELSE form \o frame.payload)

=============================================================================
