---------------------------- MODULE HttpParser ----------------------------
(***************************************************************************)
(* The parser of the request that opens a WebSocket connection             *)
(* (protocol/http/http_parser.cc), which is given the bytes of the request *)
(* in buffers that end anywhere.                                           *)
(*                                                                         *)
(* Every word that the parser looks for is cut into its first letter and   *)
(* the rest, which the model takes for one character each: enough to begin *)
(* like a word, to be it, and to go on behind it.  Letters are in lower    *)
(* case, as the table tokens makes them.  What is only stored (host,       *)
(* origin, the bytes of the key) is left out.                              *)
(***************************************************************************)
EXTENDS Naturals, Sequences, SequencesExt

CONSTANTS UriSize,      \* kHttpRequestUriSize
          ElementSize,  \* kHttpHeaderElementSize
          KeySize       \* 24, the length of a Sec-WebSocket-Key

SP == " "
COMMA == ","
Method == <<"G", "ET">>
Version == <<"H", "TTP/1.1">>

(* The names of header fields, and the item that three of them must list.  *)
Name ==
  LET Sec(word) == <<"s", "ec-websocket-">> \o word
  IN [origin |-> <<"o", "rigin">>, host |-> <<"h", "ost">>, upgrade |-> <<"u", "pgrade">>,
      connection |-> <<"c", "onnection">>, sec_websocket |-> Sec(<<>>),
      key |-> Sec(<<"k", "ey">>), version |-> Sec(<<"v", "ersion">>),
      protocol |-> Sec(<<"p", "rotocol">>), extensions |-> Sec(<<"e", "xtensions">>)]
Item == [connection |-> <<"u", "pgrade">>, upgrade |-> <<"w", "ebsocket">>, version |-> <<"1", "3">>]

(* flags_ of a complete handshake: the names, and the items by the state   *)
(* that the parser is in while it reads them.                              *)
Required == {"host", "connection", "upgrade", "key", "version"}
ItemState == [connection |-> "connection_upgrade", upgrade |-> "upgrade_websocket",
              version |-> "version_13"]
COMPLETE == Required \cup {ItemState[h] : h \in DOMAIN ItemState}

(* The tables tokens, websocket_key_valid and uri_encode_valid, for the    *)
(* characters that are not letters; "junk" is a byte that is in no table.  *)
Blank == {SP, "\t"}
InName(ch) == ch \notin Blank \cup {COMMA, ":", "/", "?", "=", "\r", "\n", "junk"}
InKey(ch) == ch \notin Blank \cup {COMMA, ":", "?", "%", "&", "#", "\r", "\n", "junk", "ec-websocket-"}
Hex == {"6", "3"}
Byte(high, low) == IF <<high, low>> = <<"6", "3">> THEN "c" ELSE "junk"

-----------------------------------------------------------------------------
(* A parser; returned is set when ParserExecute returns before the end of  *)
(* its buffer.                                                             *)

Reset == [state |-> "Start", header |-> "normal", error |-> "none", index |-> 0, count |-> 0,
          flags |-> {}, location |-> <<>>, key |-> <<>>, value |-> <<>>, args |-> <<>>,
          returned |-> FALSE]

(* Mutant for SplitsDontMatter: an error that does not end the parse. *)
Fail_GoesOn(p, e) == [p EXCEPT !.error = e]

Fail(p, e) == [p EXCEPT !.error = e, !.returned = TRUE]
Enter(p, s) == [p EXCEPT !.state = s, !.index = 0]
Stepped(p) == [p EXCEPT !.index = @ + 1]

Start(p, ch) == IF ch = Method[1] THEN Enter(p, "Method") ELSE Fail(p, "INVALID_METHOD")

(* The rest of a word that must be there. *)
Rest(p, ch, word, next, e) ==
  LET i == p.index + 1
  IN IF ch # word[i + 1] THEN Fail(p, e)
     ELSE IF i = Len(word) - 1 THEN Enter(p, next) ELSE Stepped(p)

AfterUri(p, ch) ==
  IF ch = SP
  THEN IF p.index >= 1 THEN Fail(p, "PROTOCOL_ERROR") ELSE Stepped(p)
  ELSE LET q == IF ch = Version[1] THEN p ELSE [p EXCEPT !.error = "PROTOCOL_ERROR"]
       IN IF p.index # 1 THEN Fail(p, "PROTOCOL_ERROR") ELSE Enter(q, "Version")

(* Characters of the URI are counted up to the blank behind it. *)
UriTooLong(p) == p.index >= UriSize

UriLocation(p, ch) ==
  IF UriTooLong(p) \/ ch = "#" THEN Fail(p, "INVALID_URI")
  ELSE IF ch = SP THEN AfterUri(Enter(p, "AfterUri"), ch)
  ELSE IF ch = "?" THEN [Stepped(p) EXCEPT !.state = "UriQueryKey"]
  ELSE IF ch = "%" THEN [Stepped(p) EXCEPT !.state = "UriLocationDecode", !.count = 0]
  ELSE [Stepped(p) EXCEPT !.location = Append(@, ch)]

BeforeUri(p, ch) ==
  IF ch = SP /\ p.index = 0 THEN Stepped(p)
  ELSE IF ch # "/" \/ p.index # 1 THEN Fail(p, "PROTOCOL_ERROR")
  ELSE UriLocation(Enter(p, "UriLocation"), ch)

(* One of the two digits behind a "%", into location_ or one of the caches. *)
Decode(p, ch, cache, back) ==
  IF UriTooLong(p) \/ ch \notin Hex THEN Fail(p, "INVALID_URI")
  ELSE IF p.count = 0 THEN [Stepped(p) EXCEPT !.count = 1, ![cache] = Append(@, ch)]
  ELSE [Stepped(p) EXCEPT !.state = back, ![cache] = Append(Front(@), Byte(Last(@), ch))]

UriQueryKey(p, ch) ==
  IF UriTooLong(p) \/ ch \in {SP, "#"} THEN Fail(p, "INVALID_URI")
  ELSE IF ch = "="
  THEN IF p.key = <<>> THEN Fail(p, "PROTOCOL_ERROR")
       ELSE [Stepped(p) EXCEPT !.state = "UriQueryValue"]
  ELSE IF ch = "%" THEN [Stepped(p) EXCEPT !.state = "UriQueryKeyDecode", !.count = 0]
  ELSE [Stepped(p) EXCEPT !.key = Append(@, IF ch = "+" THEN SP ELSE ch)]

(* query_args_, as the pairs of key and value in their order. *)
UriQueryValue(p, ch) ==
  LET stored == [p EXCEPT !.args = Append(@, <<p.key, p.value>>), !.key = <<>>, !.value = <<>>]
  IN IF UriTooLong(p) \/ ch = "#" THEN Fail(p, "INVALID_URI")
     ELSE IF ch \in {SP, "&"} /\ p.value = <<>> THEN Fail(p, "PROTOCOL_ERROR")
     ELSE IF ch = SP THEN AfterUri(Enter(stored, "AfterUri"), ch)
     ELSE IF ch = "&" THEN [Stepped(stored) EXCEPT !.state = "UriQueryKey"]
     ELSE IF ch = "%" THEN [Stepped(p) EXCEPT !.state = "UriQueryValueDecode", !.count = 0]
     ELSE [Stepped(p) EXCEPT !.value = Append(@, IF ch = "+" THEN SP ELSE ch)]

-----------------------------------------------------------------------------
(* Header lines. *)

AfterVersion(p, ch) ==
  IF ch = "\r" THEN [p EXCEPT !.state = "HeaderLineAlmostDone"] ELSE Fail(p, "PROTOCOL_ERROR")

HeaderLineAlmostDone(p, ch) ==
  IF ch = "\n" THEN [p EXCEPT !.state = "HeaderLineDone", !.count = 0] ELSE Fail(p, "PROTOCOL_ERROR")

Finished(p, ch) ==
  IF ch # "\n" THEN Fail(p, "PROTOCOL_ERROR")
  ELSE IF p.flags # COMPLETE THEN Fail(p, "NOT_FOUND_REQUIRED_FIELD")
  ELSE [p EXCEPT !.state = "Done", !.returned = TRUE]

(* The first letter of a name tells which name it may be. *)
FirstOfName(p, ch) ==
  LET candidates == {h \in {"origin", "host", "connection", "upgrade", "sec_websocket"} :
                       Name[h][1] = ch}
  IN IF candidates = {} THEN p ELSE [p EXCEPT !.header = CHOOSE h \in candidates : TRUE]

(* The letter behind "sec-websocket-". *)
SecWebsocket(p, ch) ==
  LET candidates == {h \in {"key", "version", "protocol", "extensions"} :
                       Name[h][p.index + 1] = ch}
  IN [p EXCEPT !.header = IF candidates = {} THEN "normal" ELSE CHOOSE h \in candidates : TRUE]

(* Mutant for OnlyHandshakesUpgrade: a longer name keeps the flag. *)
Extended_KeepsFlag(p, h) == [p EXCEPT !.header = "normal"]

(* A letter that goes on behind a whole name takes its flag back. *)
Extended(p, h) == [p EXCEPT !.header = "normal", !.flags = @ \ {h}]

InsideName(p, ch) ==
  LET h == p.header
  IN IF h = "normal" THEN p
     ELSE IF p.index >= Len(Name[h])
     THEN IF h = "sec_websocket" THEN SecWebsocket(p, ch) ELSE Extended(p, h)
     ELSE IF ch # Name[h][p.index + 1] THEN [p EXCEPT !.header = "normal"]
     ELSE IF p.index = Len(Name[h]) - 1 /\ h \in Required
     THEN [p EXCEPT !.flags = @ \cup {h}] ELSE p

HeaderField(p, ch) ==
  IF p.index >= ElementSize THEN Fail(p, "FIELD_OUT_OF_RANGE")
  ELSE IF ch = ":" /\ p.index # 0 THEN Enter(p, "FieldValue")
  ELSE IF ~InName(ch) THEN Fail(p, "INVALID_HEADER_FIELD")
  ELSE Stepped(IF p.index = 0 THEN FirstOfName(p, ch) ELSE InsideName(p, ch))

HeaderLineDone(p, ch) ==
  IF ch = SP THEN Fail(p, "PROTOCOL_ERROR")
  ELSE IF ch = "\r" THEN [p EXCEPT !.state = "Finished"]
  ELSE HeaderField([p EXCEPT !.state = "HeaderField"], ch)

(* Mutant for HandshakesUpgrade: a comma does not begin a new item. *)
InList_KeepsIndex(p, ch) ==
  IF ch = COMMA THEN IF p.index = 0 THEN Fail(p, "PROTOCOL_ERROR") ELSE p
  ELSE Stepped(IF p.index = 0 /\ ch = Item[p.header][1]
               THEN [p EXCEPT !.header = ItemState[p.header]] ELSE p)

(* A list: an item is looked for behind each comma. *)
InList(p, ch) ==
  LET h == p.header
  IN IF ch = COMMA THEN IF p.index = 0 THEN Fail(p, "PROTOCOL_ERROR") ELSE [p EXCEPT !.index = 0]
     ELSE Stepped(IF p.index = 0 /\ ch = Item[h][1] THEN [p EXCEPT !.header = ItemState[h]] ELSE p)

(* An item that began like the one that h must list.  When it is not that  *)
(* item, the list goes on with the character that told so already read.     *)
InItem(p, ch, h) ==
  Stepped(IF p.index >= Len(Item[h])
          THEN IF ch = COMMA THEN [p EXCEPT !.header = "normal"]
               ELSE IF ch \in Blank THEN p ELSE [p EXCEPT !.flags = @ \ {ItemState[h]}]
          ELSE IF ch # Item[h][p.index + 1] THEN [p EXCEPT !.header = h]
          ELSE IF p.index = Len(Item[h]) - 1 THEN [p EXCEPT !.flags = @ \cup {ItemState[h]}]
          ELSE p)

SecWebsocketKey(p, ch) ==
  IF IF p.index >= KeySize THEN ch \in Blank ELSE InKey(ch)
  THEN Stepped(p) ELSE Fail(p, "INVALID_FIELD_VALUE")

FieldValue(p, ch) ==
  LET q == [p EXCEPT !.count = @ + 1]
  IN IF p.count >= ElementSize THEN Fail(q, "FIELD_OUT_OF_RANGE")
     ELSE IF ch = "\r"
     THEN IF p.index = 0 THEN Fail(q, "INVALID_FIELD_VALUE")
          ELSE [Enter(q, "HeaderLineAlmostDone") EXCEPT !.header = "normal"]
     ELSE IF ch \in Blank /\ p.index = 0 THEN q
     ELSE IF p.header \in DOMAIN Item THEN InList(q, ch)
     ELSE IF p.header = "key" THEN SecWebsocketKey(q, ch)
     ELSE IF \E h \in DOMAIN Item : p.header = ItemState[h]
     THEN InItem(q, ch, CHOOSE h \in DOMAIN Item : p.header = ItemState[h])
     ELSE Stepped(q)

-----------------------------------------------------------------------------
(* One round of the loop of ParserExecute. *)
Step(p, ch) ==
  CASE p.state = "Start" -> Start(p, ch)
    [] p.state = "Method" -> Rest(p, ch, Method, "BeforeUri", "INVALID_METHOD")
    [] p.state = "BeforeUri" -> BeforeUri(p, ch)
    [] p.state = "UriLocation" -> UriLocation(p, ch)
    [] p.state = "UriLocationDecode" -> Decode(p, ch, "location", "UriLocation")
    [] p.state = "UriQueryKey" -> UriQueryKey(p, ch)
    [] p.state = "UriQueryKeyDecode" -> Decode(p, ch, "key", "UriQueryKey")
    [] p.state = "UriQueryValue" -> UriQueryValue(p, ch)
    [] p.state = "UriQueryValueDecode" -> Decode(p, ch, "value", "UriQueryValue")
    [] p.state = "AfterUri" -> AfterUri(p, ch)
    [] p.state = "Version" -> Rest(p, ch, Version, "AfterVersion", "PROTOCOL_ERROR")
    [] p.state = "AfterVersion" -> AfterVersion(p, ch)
    [] p.state = "HeaderLineAlmostDone" -> HeaderLineAlmostDone(p, ch)
    [] p.state = "HeaderLineDone" -> HeaderLineDone(p, ch)
    [] p.state = "HeaderField" -> HeaderField(p, ch)
    [] p.state = "FieldValue" -> FieldValue(p, ch)
    [] p.state = "Finished" -> Finished(p, ch)

(* The parser behind each character of a buffer. *)
Rounds(p, buffer) ==
  LET after[i \in 0..Len(buffer)] ==
        IF i = 0 THEN [p EXCEPT !.returned = FALSE]
        ELSE LET q == after[i - 1] IN IF q.returned THEN q ELSE Step(q, buffer[i])
  IN after

ParserExecute(p, buffer) == IF p.state = "Done" THEN p ELSE Rounds(p, buffer)[Len(buffer)]

IsDone(p) == p.state = "Done"

=============================================================================
