----------------------- MODULE ProtocolHandlersProofs -----------------------
(***************************************************************************)
(* What one connection makes of its bytes, as theorems: for requests and   *)
(* frames of any number and length, buffers that end anywhere, and any     *)
(* limits.  First the parser of requests, the types of the parser and      *)
(* handler of frames, and how a request is parsed; then what the frames    *)
(* come to, byte by byte, frame by frame and buffer by buffer.             *)
(***************************************************************************)
EXTENDS ProtocolHandlers, SequenceLemmas

-----------------------------------------------------------------------------
(* The parser of requests. *)

(* What Rounds computes, character by character. *)
LEMMA RoundsAre ==
  ASSUME NEW p, NEW b, Len(b) \in Nat
  PROVE  /\ Http!Rounds(p, b)[0] = [p EXCEPT !.returned = FALSE]
         /\ \A i \in 1..Len(b) :
              Http!Rounds(p, b)[i] = IF Http!Rounds(p, b)[i - 1].returned
                                     THEN Http!Rounds(p, b)[i - 1]
                                     ELSE Http!Step(Http!Rounds(p, b)[i - 1], b[i])
<1> DEFINE n == Len(b)
           F(q, i) == IF q.returned THEN q ELSE Http!Step(q, b[i])
           start == [p EXCEPT !.returned = FALSE]
           E(w) == w = [i \in 0..n |-> IF i = 0 THEN start ELSE F(w[i - 1], i)]
           Good(m, g) == /\ g = [i \in 0..m |-> g[i]] /\ g[0] = start
                         /\ \A i \in 1..m : g[i] = F(g[i - 1], i)
           h == Http!Rounds(p, b)
<1>1. h = CHOOSE w : E(w)
  BY DEF Http!Rounds
<1> HIDE DEF F, start, h
<1>2. \A m \in 0..n : \E g : Good(m, g)
  <2> DEFINE S == {m \in 0..n : \E g : Good(m, g)}
  <2>1. 0 \in S
    <3> DEFINE g == [i \in 0..0 |-> start]
    <3>1. Good(0, g)
      OBVIOUS
    <3> HIDE DEF Good, g
    <3>2. 0 \in 0..n
      OBVIOUS
    <3> QED
      BY <3>1, <3>2
  <2>2. ASSUME NEW m \in 1..n, m - 1 \in S PROVE m \in S
    <3>1. PICK f : Good(m - 1, f)
      BY <2>2
    <3> DEFINE g == [i \in 0..m |-> IF i = m THEN F(f[m - 1], m) ELSE f[i]]
    <3>2. \A i \in 0..m : g[i] = IF i = m THEN F(f[m - 1], m) ELSE f[i]
      OBVIOUS
    <3>3. g = [i \in 0..m |-> g[i]]
      OBVIOUS
    <3> HIDE DEF g
    <3>4. g[0] = start
      BY <3>1, <3>2
    <3>5. ASSUME NEW i \in 1..m PROVE g[i] = F(g[i - 1], i)
      <4>1. i - 1 \in 0..m /\ i - 1 # m /\ g[i - 1] = f[i - 1]
        BY <3>2
      <4>2. CASE i = m
        BY <3>2, <4>1, <4>2
      <4>3. CASE i # m
        <5>1. i \in 1..(m - 1) /\ g[i] = f[i]
          BY <3>2, <4>3
        <5> QED
          BY <3>1, <4>1, <5>1
      <4> QED
        BY <4>2, <4>3
    <3>6. Good(m, g)
      BY <3>3, <3>4, <3>5
    <3> HIDE DEF Good
    <3>7. m \in 0..n
      OBVIOUS
    <3> QED
      BY <3>6, <3>7
  <2> HIDE DEF S
  <2>3. \A i \in 0..n : i \in S
    BY <2>1, <2>2, UpTo
  <2> QED
    BY <2>3 DEF S
<1>3. PICK g : Good(n, g)
  BY <1>2
<1>4. E(g)
  <2>1. \A i \in 0..n : g[i] = IF i = 0 THEN start ELSE F(g[i - 1], i)
    BY <1>3
  <2>2. g = [i \in 0..n |-> g[i]]
    BY <1>3
  <2> HIDE DEF n
  <2> QED
    BY <2>1, <2>2
<1>5. E(h)
  <2> HIDE DEF E
  <2> QED
    BY <1>1, <1>4
<1>6. h[0] = start /\ \A i \in 1..n : h[i] = F(h[i - 1], i)
  <2>1. \A i \in 0..n : h[i] = IF i = 0 THEN start ELSE F(h[i - 1], i)
    <3> HIDE DEF n
    <3> QED
      BY <1>5
  <2> QED
    BY <2>1
<1> QED
  BY <1>6 DEF F, start, h

(* The fields of a parser, the states of its loop, and a parser that is fit *)
(* to go on: ParserExecute has not returned.                               *)
Parts == {"state", "header", "error", "index", "count", "flags", "location", "key", "value",
          "args", "returned"}
UriStates == {"UriLocation", "UriLocationDecode", "UriQueryKey", "UriQueryKeyDecode",
              "UriQueryValue", "UriQueryValueDecode"}
LoopStates == UriStates \cup
  {"Start", "Method", "BeforeUri", "AfterUri", "Version", "AfterVersion", "HeaderLineAlmostDone",
   "HeaderLineDone", "HeaderField", "FieldValue", "Finished"}
IsParser(p) == p = [f \in Parts |-> p[f]]
Ready(p) == IsParser(p) /\ p.returned = FALSE /\ p.state \in LoopStates

(* Where a parser is tells how many blanks it has read, up to the second.  *)
Spot(p, blanks, last) ==
  /\ p.state = "Start" => blanks = 0
  /\ p.state = "Method" => blanks = 0 /\ p.index = 0
  /\ p.state = "BeforeUri" => blanks \in {0, 1} /\ p.index = blanks
  /\ p.state \in UriStates => blanks = 1
  /\ p.state = "AfterUri" => blanks = 2 /\ last = Http!SP /\ p.index = 1

(* What a round makes of a parser that is ready: it goes on, or returns with *)
(* a whole request or an error.  Only a wrong version is an error that it   *)
(* goes on with.                                                            *)
Outcome(p, ch, blanks, q) ==
  /\ IsParser(q)
  /\ q.returned \in BOOLEAN
  /\ q.returned => IF q.state = "Done" THEN q.error = p.error ELSE q.error # "none"
  /\ ~q.returned =>
       /\ q.state \in LoopStates
       /\ Spot(q, IF ch = Http!SP THEN blanks + 1 ELSE blanks, ch)
       /\ \/ q.error = p.error
          \/ q.error # "none" /\ p.state = "AfterUri" /\ ch \notin {Http!Version[1], Http!SP}

(* No letter that the parser of the URI looks for is a blank. *)
LEMMA Blanks == Http!SP \notin {"/", "ET", "G", "6", "3", "#"}
<1> QED
  BY Zenon DEF Http!SP

(* The blank behind the URI. *)
LEMMA AfterUriBlank ==
  ASSUME NEW p, IsParser(p), p.returned = FALSE, p.index = 0,
         NEW q, q = Http!AfterUri(p, Http!SP)
  PROVE  IsParser(q) /\ q.returned = FALSE /\ q.state = p.state /\ q.index = 1 /\ q.error = p.error
<1>1. ~(p.index >= 1) /\ p.index + 1 = 1
  OBVIOUS
<1>2. q = Http!Stepped(p)
  BY <1>1, Zenon DEF Http!AfterUri
<1> QED
  BY <1>1, <1>2 DEF Http!Stepped, IsParser, Parts

(* The rounds in the URI, where the first blank has been read. *)
LEMMA UriRounds ==
  ASSUME NEW p, NEW ch, NEW blanks \in Nat, NEW last, Ready(p), Spot(p, blanks, last)
  PROVE  /\ p.state = "UriLocation" => Outcome(p, ch, blanks, Http!UriLocation(p, ch))
         /\ p.state = "UriQueryKey" => Outcome(p, ch, blanks, Http!UriQueryKey(p, ch))
         /\ p.state = "UriQueryValue" => Outcome(p, ch, blanks, Http!UriQueryValue(p, ch))
         /\ p.state \in UriStates => 
              \A cache \in {"location", "key", "value"}, 
                 back \in {"UriLocation", "UriQueryKey", "UriQueryValue"} :
                Outcome(p, ch, blanks, Http!Decode(p, ch, cache, back))
<1> USE DEF Ready, IsParser, Parts, Spot, Outcome, UriStates, LoopStates
<1>1. p.state = "UriLocation" => Outcome(p, ch, blanks, Http!UriLocation(p, ch))
  <2> SUFFICES ASSUME p.state = "UriLocation"
               PROVE  Outcome(p, ch, blanks, Http!UriLocation(p, ch))
    OBVIOUS
  <2>1. CASE ch = Http!SP /\ ~Http!UriTooLong(p)
    <3> DEFINE q == Http!Enter(p, "AfterUri")
    <3>1. Http!UriLocation(p, ch) = Http!AfterUri(q, ch)
      BY <2>1, Blanks DEF Http!UriLocation
    <3>2. IsParser(q) /\ q.returned = FALSE /\ q.error = p.error /\ q.state = "AfterUri" /\ q.index = 0
      BY DEF Http!Enter
    <3> DEFINE r == Http!AfterUri(q, ch)
    <3>3. IsParser(r) /\ r.returned = FALSE /\ r.state = "AfterUri" /\ r.index = 1 /\ r.error = p.error
      <4>1. r = Http!AfterUri(q, Http!SP)
        BY <2>1, Zenon
      <4> HIDE DEF q, r, IsParser, Ready, Spot, Outcome, Parts, UriStates, LoopStates
      <4>2. IsParser(r) /\ r.returned = FALSE /\ r.state = q.state /\ r.index = 1 /\ r.error = q.error
        BY <3>2, <4>1, AfterUriBlank
      <4> QED
        BY <3>2, <4>2
    <3> HIDE DEF r, IsParser
    <3>4. Spot(r, blanks + 1, ch)
      BY <2>1, <3>3
    <3>5. Outcome(p, ch, blanks, r)
      BY <2>1, <3>3, <3>4
    <3> QED
      BY <3>1, <3>5, Zenon DEF r
  <2>2. CASE ~(ch = Http!SP /\ ~Http!UriTooLong(p))
    BY <2>2 DEF Http!UriLocation, Http!Fail, Http!Stepped
  <2> QED
    BY <2>1, <2>2
<1>2. p.state = "UriQueryKey" => Outcome(p, ch, blanks, Http!UriQueryKey(p, ch))
  BY DEF Http!UriQueryKey, Http!UriTooLong, Http!Fail, Http!Stepped
<1>3. p.state = "UriQueryValue" => Outcome(p, ch, blanks, Http!UriQueryValue(p, ch))
  <2> SUFFICES ASSUME p.state = "UriQueryValue"
               PROVE  Outcome(p, ch, blanks, Http!UriQueryValue(p, ch))
    OBVIOUS
  <2> DEFINE r == [p EXCEPT !.args = Append(@, <<p.key, p.value>>), !.key = <<>>, !.value = <<>>]
  <2>0. Ready(r) /\ r.state = p.state /\ r.error = p.error
    OBVIOUS
  <2>1. CASE ch = Http!SP /\ ~Http!UriTooLong(p) /\ p.value # <<>>
    <3> DEFINE q == Http!Enter(r, "AfterUri")
    <3>1. Http!UriQueryValue(p, ch) = Http!AfterUri(q, ch)
      BY <2>1, Blanks DEF Http!UriQueryValue
    <3>2. IsParser(q) /\ q.returned = FALSE /\ q.error = p.error /\ q.state = "AfterUri" /\ q.index = 0
      <4> HIDE DEF r
      <4> QED
        BY <2>0 DEF Http!Enter
    <3> DEFINE s == Http!AfterUri(q, ch)
    <3>3. IsParser(s) /\ s.returned = FALSE /\ s.state = "AfterUri" /\ s.index = 1 /\ s.error = p.error
      <4>1. s = Http!AfterUri(q, Http!SP)
        BY <2>1, Zenon
      <4> HIDE DEF q, s, IsParser, Ready, Spot, Outcome, Parts, UriStates, LoopStates
      <4>2. IsParser(s) /\ s.returned = FALSE /\ s.state = q.state /\ s.index = 1 /\ s.error = q.error
        BY <3>2, <4>1, AfterUriBlank
      <4> QED
        BY <3>2, <4>2
    <3> HIDE DEF s, IsParser
    <3>4. Spot(s, blanks + 1, ch)
      BY <2>1, <3>3
    <3>5. Outcome(p, ch, blanks, s)
      BY <2>1, <3>3, <3>4
    <3> QED
      BY <3>1, <3>5, Zenon DEF s
  <2>2. CASE ~(ch = Http!SP /\ ~Http!UriTooLong(p) /\ p.value # <<>>)
    BY <2>2, ZenonT(60) DEF Http!UriQueryValue, Http!Fail, Http!Stepped
  <2> QED
    BY <2>1, <2>2
<1>4. ASSUME NEW cache \in {"location", "key", "value"}, p.state \in UriStates,
             NEW back \in {"UriLocation", "UriQueryKey", "UriQueryValue"}
      PROVE  Outcome(p, ch, blanks, Http!Decode(p, ch, cache, back))
  BY <1>4, Blanks, ZenonT(60) DEF Http!Decode, Http!UriTooLong, Http!Fail, Http!Stepped, Http!Hex
<1> QED
  BY <1>1, <1>2, <1>3, <1>4

(* The other rounds in the first line; a wrong version is told here. *)
LEMMA LineRounds ==
  ASSUME NEW p, NEW ch, NEW blanks \in Nat, NEW last, Ready(p), Spot(p, blanks, last)
  PROVE  /\ p.state = "Start" => Outcome(p, ch, blanks, Http!Start(p, ch))
         /\ p.state = "Method" => Outcome(p, ch, blanks,
              Http!Rest(p, ch, Http!Method, "BeforeUri", "INVALID_METHOD"))
         /\ p.state = "BeforeUri" => Outcome(p, ch, blanks, Http!BeforeUri(p, ch))
         /\ p.state = "AfterUri" => Outcome(p, ch, blanks, Http!AfterUri(p, ch))
         /\ p.state = "Version" => Outcome(p, ch, blanks,
              Http!Rest(p, ch, Http!Version, "AfterVersion", "PROTOCOL_ERROR"))
<1> USE DEF Ready, IsParser, Parts, Spot, Outcome, UriStates, LoopStates
<1>1. p.state = "Start" => Outcome(p, ch, blanks, Http!Start(p, ch))
  BY Blanks DEF Http!Start, Http!Method, Http!Fail, Http!Enter
<1>2. p.state = "Method" => Outcome(p, ch, blanks,
              Http!Rest(p, ch, Http!Method, "BeforeUri", "INVALID_METHOD"))
  <2> SUFFICES ASSUME p.state = "Method"
               PROVE  Outcome(p, ch, blanks,
                        Http!Rest(p, ch, Http!Method, "BeforeUri", "INVALID_METHOD"))
    OBVIOUS
  <2>1. Http!Rest(p, ch, Http!Method, "BeforeUri", "INVALID_METHOD") =
          IF ch # "ET" THEN Http!Fail(p, "INVALID_METHOD") ELSE Http!Enter(p, "BeforeUri")
    BY DEF Http!Rest, Http!Method
  <2> QED
    BY <2>1, Blanks DEF Http!Fail, Http!Enter
<1>3. p.state = "BeforeUri" => Outcome(p, ch, blanks, Http!BeforeUri(p, ch))
  <2> SUFFICES ASSUME p.state = "BeforeUri"
               PROVE  Outcome(p, ch, blanks, Http!BeforeUri(p, ch))
    OBVIOUS
  <2>1. CASE p.state = "BeforeUri" /\ ch = "/" /\ p.index = 1
    <3> DEFINE q == Http!Enter(p, "UriLocation")
    <3>1. Ready(q) /\ Spot(q, blanks, last) /\ q.state = "UriLocation" /\ q.error = p.error
      BY <2>1 DEF Http!Enter
    <3>2. Http!BeforeUri(p, ch) = Http!UriLocation(q, ch)
      BY <2>1 DEF Http!BeforeUri
    <3> HIDE DEF q
    <3>3. Outcome(q, ch, blanks, Http!UriLocation(q, ch))
      <4> HIDE DEF Ready, IsParser, Parts, Spot, Outcome, UriStates, LoopStates
      <4> QED
        BY <3>1, UriRounds
    <3> HIDE DEF IsParser
    <3>4. Outcome(p, ch, blanks, Http!UriLocation(q, ch))
      <4> DEFINE r == Http!UriLocation(q, ch)
      <4>1. Outcome(q, ch, blanks, r)
        BY <3>3
      <4>2. q.state # "AfterUri" /\ q.error = p.error
        BY <3>1
      <4>3. Outcome(p, ch, blanks, r)
        <5> HIDE DEF r, Ready, Parts, Spot, UriStates, LoopStates
        <5> QED
          BY <4>1, <4>2
      <4> HIDE DEF Outcome
      <4> QED
        BY <4>3
    <3> QED
      BY <3>2, <3>4, Zenon
  <2>2. CASE p.state = "BeforeUri" /\ ch = Http!SP /\ p.index = 0
    <3>1. Http!BeforeUri(p, ch) = Http!Stepped(p)
      BY <2>2, Zenon DEF Http!BeforeUri
    <3> DEFINE r == Http!Stepped(p)
    <3>2. blanks = 0 /\ p.index = 0
      BY <2>2
    <3>3. IsParser(r) /\ r.returned = FALSE /\ r.error = p.error /\ r.state = "BeforeUri" /\ r.index = 1
      BY <3>2 DEF Http!Stepped
    <3> HIDE DEF r, IsParser
    <3>4. Outcome(p, ch, blanks, r)
      <4>1. Spot(r, 1, ch)
        BY <3>3
      <4>2. (IF ch = Http!SP THEN blanks + 1 ELSE blanks) = 1
        BY <2>2, <3>2
      <4> HIDE DEF Spot
      <4> QED
        BY <3>3, <4>1, <4>2
    <3> QED
      BY <3>1, <3>4, Zenon DEF r
  <2>3. CASE ~(ch = "/" /\ p.index = 1) /\ ~(ch = Http!SP /\ p.index = 0)
    <3>1. Http!BeforeUri(p, ch) = Http!Fail(p, "PROTOCOL_ERROR")
      BY <2>3, Zenon DEF Http!BeforeUri
    <3> QED
      BY <3>1 DEF Http!Fail
  <2> HIDE DEF Ready, IsParser, Parts, Spot, Outcome, UriStates, LoopStates
  <2> QED
    BY <2>1, <2>2, <2>3, Zenon
<1>4. p.state = "AfterUri" => Outcome(p, ch, blanks, Http!AfterUri(p, ch))
  <2> SUFFICES ASSUME p.state = "AfterUri" PROVE Outcome(p, ch, blanks, Http!AfterUri(p, ch))
    OBVIOUS
  <2>1. CASE ch = Http!SP
    <3>1. p.index >= 1
      OBVIOUS
    <3>2. Http!AfterUri(p, ch) = Http!Fail(p, "PROTOCOL_ERROR")
      BY <2>1, <3>1, Zenon DEF Http!AfterUri
    <3> QED
      BY <2>1, <3>2 DEF Http!Fail
  <2>2. CASE ch # Http!SP
    <3> DEFINE r == IF ch = Http!Version[1] THEN p ELSE [p EXCEPT !.error = "PROTOCOL_ERROR"]
               q == Http!Enter(r, "Version")
    <3>1. p.index = 1
      OBVIOUS
    <3>2. Http!AfterUri(p, ch) = q
      BY <2>2, <3>1, Zenon DEF Http!AfterUri
    <3>3. /\ IsParser(r) /\ r.returned = FALSE
          /\ r.error = p.error \/ (r.error # "none" /\ ch # Http!Version[1])
      OBVIOUS
    <3> HIDE DEF r
    <3>4. IsParser(q) /\ q.returned = FALSE /\ q.state = "Version" /\ q.error = r.error
      BY <3>3 DEF Http!Enter
    <3> HIDE DEF q, IsParser
    <3>5. Outcome(p, ch, blanks, q)
      BY <2>2, <3>3, <3>4
    <3> QED
      BY <3>2, <3>5, Zenon
  <2> QED
    BY <2>1, <2>2
<1>5. p.state = "Version" => Outcome(p, ch, blanks,
              Http!Rest(p, ch, Http!Version, "AfterVersion", "PROTOCOL_ERROR"))
  BY DEF Http!Rest, Http!Fail, Http!Enter, Http!Stepped
<1> QED
  BY <1>1, <1>2, <1>3, <1>4, <1>5

(* The rounds in the fields. *)
LEMMA HeaderRounds ==
  ASSUME NEW p, NEW ch, NEW blanks \in Nat, NEW last, Ready(p), Spot(p, blanks, last)
  PROVE  /\ p.state = "AfterVersion" => Outcome(p, ch, blanks, Http!AfterVersion(p, ch))
         /\ p.state = "HeaderLineAlmostDone" =>
              Outcome(p, ch, blanks, Http!HeaderLineAlmostDone(p, ch))
         /\ p.state = "Finished" => Outcome(p, ch, blanks, Http!Finished(p, ch))
         /\ p.state = "HeaderField" => Outcome(p, ch, blanks, Http!HeaderField(p, ch))
         /\ p.state = "HeaderLineDone" => Outcome(p, ch, blanks, Http!HeaderLineDone(p, ch))
         /\ p.state = "FieldValue" => Outcome(p, ch, blanks, Http!FieldValue(p, ch))
<1> USE DEF Ready, IsParser, Parts, Spot, Outcome, UriStates, LoopStates
<1>1. p.state = "AfterVersion" => Outcome(p, ch, blanks, Http!AfterVersion(p, ch))
  BY DEF Http!AfterVersion, Http!Fail
<1>2. p.state = "HeaderLineAlmostDone" =>
        Outcome(p, ch, blanks, Http!HeaderLineAlmostDone(p, ch))
  BY DEF Http!HeaderLineAlmostDone, Http!Fail
<1>3. p.state = "Finished" => Outcome(p, ch, blanks, Http!Finished(p, ch))
  BY DEF Http!Finished, Http!Fail
<1> DEFINE Same(q, r) == /\ IsParser(r) /\ r.state = q.state
                         /\ r.error = q.error /\ r.returned = q.returned
<1>4. ASSUME NEW q, Ready(q), q.state = "HeaderField"
      PROVE  Outcome(q, ch, blanks, Http!HeaderField(q, ch))
  <2>1. Same(q, Http!FirstOfName(q, ch))
    BY <1>4 DEF Http!FirstOfName
  <2>2. Same(q, Http!InsideName(q, ch))
    BY <1>4 DEF Http!InsideName, Http!SecWebsocket, Http!Extended
  <2> DEFINE r == IF q.index = 0 THEN Http!FirstOfName(q, ch) ELSE Http!InsideName(q, ch)
  <2>3. Same(q, r)
    BY <2>1, <2>2, Zenon
  <2>4. Http!HeaderField(q, ch) \in
          {Http!Fail(q, "FIELD_OUT_OF_RANGE"), Http!Enter(q, "FieldValue"),
           Http!Fail(q, "INVALID_HEADER_FIELD"), Http!Stepped(r)}
    BY Zenon DEF Http!HeaderField
  <2> HIDE DEF r
  <2> QED
    BY <1>4, <2>3, <2>4 DEF Http!Fail, Http!Enter, Http!Stepped
<1>5. p.state = "HeaderField" => Outcome(p, ch, blanks, Http!HeaderField(p, ch))
  <2> HIDE DEF Ready, IsParser, Parts, Spot, Outcome, UriStates, LoopStates
  <2> QED
    BY <1>4
<1>6. p.state = "HeaderLineDone" => Outcome(p, ch, blanks, Http!HeaderLineDone(p, ch))
  <2> SUFFICES ASSUME p.state = "HeaderLineDone"
               PROVE  Outcome(p, ch, blanks, Http!HeaderLineDone(p, ch))
    OBVIOUS
  <2> DEFINE q == [p EXCEPT !.state = "HeaderField"]
  <2>1. Ready(q) /\ q.state = "HeaderField" /\ q.error = p.error
    OBVIOUS
  <2>2. Outcome(q, ch, blanks, Http!HeaderField(q, ch))
    <3> HIDE DEF q, Ready, IsParser, Parts, Spot, Outcome, UriStates, LoopStates
    <3> QED
      BY <1>4, <2>1
  <2>3. Outcome(p, ch, blanks, Http!HeaderField(q, ch))
    <3> HIDE DEF q, Ready, IsParser, Parts, Spot, UriStates, LoopStates
    <3> QED
      BY <2>1, <2>2
  <2> HIDE DEF q
  <2>4. CASE ch = Http!SP
    BY <2>4 DEF Http!HeaderLineDone, Http!Fail
  <2>5. CASE ch # Http!SP /\ ch = "\r"
    BY <2>5 DEF Http!HeaderLineDone
  <2>6. CASE ch # Http!SP /\ ch # "\r"
    BY <2>3, <2>6, Zenon DEF Http!HeaderLineDone, q
  <2> QED
    BY <2>4, <2>5, <2>6
<1>7. p.state = "FieldValue" => Outcome(p, ch, blanks, Http!FieldValue(p, ch))
  <2> SUFFICES ASSUME p.state = "FieldValue"
               PROVE  Outcome(p, ch, blanks, Http!FieldValue(p, ch))
    OBVIOUS
  <2> DEFINE q == [p EXCEPT !.count = @ + 1]
             Fits(r) == /\ IsParser(r) /\ r.state \in {"FieldValue", "HeaderLineAlmostDone"}
                        /\ \/ r.error = q.error /\ r.returned = FALSE
                           \/ r.error # "none" /\ r.returned = TRUE
  <2>1. Ready(q) /\ q.state = "FieldValue" /\ q.error = p.error
    OBVIOUS
  <2> HIDE DEF q
  <2>2. ASSUME NEW e, e # "none" PROVE Fits(Http!Fail(q, e))
    BY <2>1, <2>2 DEF Http!Fail
  <2>3. Fits([Http!Enter(q, "HeaderLineAlmostDone") EXCEPT !.header = "normal"])
    BY <2>1 DEF Http!Enter
  <2>4. Fits(q) /\ Fits(Http!Stepped(q))
    BY <2>1 DEF Http!Stepped
  <2>5. Fits(Http!InList(q, ch))
    BY <2>1 DEF Http!InList, Http!Fail, Http!Stepped
  <2>6. ASSUME NEW h PROVE Fits(Http!InItem(q, ch, h))
    BY <2>1 DEF Http!InItem, Http!Stepped
  <2>7. Fits(Http!SecWebsocketKey(q, ch))
    BY <2>2, <2>4, Zenon DEF Http!SecWebsocketKey
  <2>8. Fits(Http!FieldValue(p, ch))
    <3> HIDE DEF Fits
    <3>1. Fits(Http!Fail(q, "FIELD_OUT_OF_RANGE")) /\ Fits(Http!Fail(q, "INVALID_FIELD_VALUE"))
      BY <2>2
    <3> DEFINE r == Http!FieldValue(p, ch)
    <3>2. \/ r \in {Http!Fail(q, "FIELD_OUT_OF_RANGE"), Http!Fail(q, "INVALID_FIELD_VALUE"),
                    [Http!Enter(q, "HeaderLineAlmostDone") EXCEPT !.header = "normal"], q,
                    Http!InList(q, ch), Http!SecWebsocketKey(q, ch), Http!Stepped(q)}
          \/ \E h : r = Http!InItem(q, ch, h)
      BY Zenon DEF Http!FieldValue, q
    <3> QED
      BY <2>3, <2>4, <2>5, <2>6, <2>7, <3>1, <3>2, Zenon
  <2> DEFINE r == Http!FieldValue(p, ch)
  <2>9. Fits(r)
    BY <2>8
  <2> HIDE DEF r
  <2>10. Outcome(p, ch, blanks, r)
    BY <2>1, <2>9
  <2> QED
    BY <2>10 DEF r
<1> QED
  BY <1>1, <1>2, <1>3, <1>5, <1>6, <1>7

(* Every round of the loop. *)
LEMMA StepRound ==
  ASSUME NEW p, NEW ch, NEW blanks \in Nat, NEW last, Ready(p), Spot(p, blanks, last)
  PROVE  Outcome(p, ch, blanks, Http!Step(p, ch))
<1>1. CASE p.state \in UriStates
  BY <1>1, UriRounds DEF Http!Step, UriStates
<1>2. CASE p.state \in {"Start", "Method", "BeforeUri", "AfterUri", "Version"}
  BY <1>2, LineRounds DEF Http!Step
<1>3. CASE p.state \in {"AfterVersion", "HeaderLineAlmostDone", "Finished", "HeaderField",
                        "HeaderLineDone", "FieldValue"}
  BY <1>3, HeaderRounds DEF Http!Step
<1> QED
  BY <1>1, <1>2, <1>3 DEF Ready, LoopStates

(* Buffers *)

(* A parser that has returned is not given the rest of its buffer.          *)
LEMMA RoundsStop ==
  ASSUME NEW p, NEW b, Len(b) \in Nat, NEW i \in 0..Len(b), Http!Rounds(p, b)[i].returned
  PROVE  \A j \in i..Len(b) : Http!Rounds(p, b)[j] = Http!Rounds(p, b)[i]
<1> DEFINE r == Http!Rounds(p, b)
           S == {k \in 0..(Len(b) - i) : r[i + k] = r[i]}
<1>1. /\ r[0] = [p EXCEPT !.returned = FALSE]
      /\ \A j \in 1..Len(b) :
           r[j] = IF r[j - 1].returned THEN r[j - 1] ELSE Http!Step(r[j - 1], b[j])
  BY RoundsAre
<1> HIDE DEF r
<1>2. 0 \in S
  OBVIOUS
<1>3. ASSUME NEW k \in 1..(Len(b) - i), k - 1 \in S PROVE k \in S
  <2>1. i + k \in 1..Len(b) /\ (i + k) - 1 = i + (k - 1) /\ r[i + (k - 1)] = r[i]
    BY <1>3
  <2>2. r[i + k] = r[i]
    BY <1>1, <2>1 DEF r
  <2> QED
    BY <2>2
<1>4. Len(b) - i \in Nat
  OBVIOUS
<1> HIDE DEF S
<1>5. \A k \in 0..(Len(b) - i) : k \in S
  BY <1>2, <1>3, <1>4, UpTo
<1>6. ASSUME NEW j \in i..Len(b) PROVE r[j] = r[i]
  <2>1. j - i \in 0..(Len(b) - i) /\ i + (j - i) = j
    OBVIOUS
  <2> QED
    BY <1>5, <2>1 DEF S
<1> QED
  BY <1>6 DEF r

(* The rounds of the characters behind the n first ones are those of a      *)
(* buffer that begins there.                                                *)
LEMMA RoundsGoOn ==
  ASSUME NEW p, NEW t, NEW S, t \in Seq(S), NEW n \in 0..Len(t), NEW k \in 0..(Len(t) - n),
         NEW q, q = [q EXCEPT !.returned = FALSE], q = Http!Rounds(p, t)[n]
  PROVE  Http!Rounds(q, SubSeq(t, n + 1, n + k))[k] = Http!Rounds(p, t)[n + k]
<1> DEFINE b == SubSeq(t, n + 1, n + k)
           r == Http!Rounds(p, t)
           s == Http!Rounds(q, b)
           Same == {i \in 0..k : s[i] = r[n + i]}
<1>1. Len(b) = k /\ \A i \in 1..k : b[i] = t[n + i]
  <2>1. n + 1 \in Nat /\ n + k \in Nat /\ (n + k) - (n + 1) + 1 = k /\ n + k <= Len(t)
    OBVIOUS
  <2>2. Len(b) = k
    BY <2>1
  <2>3. ASSUME NEW i \in 1..k PROVE b[i] = t[n + i]
    <3> DEFINE m == n + 1
               l == n + k
    <3>1. /\ m \in Int /\ l \in Int /\ m + i - 1 = n + i /\ i \in 1..(l - m + 1)
          /\ \A j \in m..l : t[j] \in S
      OBVIOUS
    <3> HIDE DEF m, l
    <3>2. SubSeq(t, m, l)[i] = t[m + i - 1]
      BY <3>1, SubSeqProperties
    <3> QED
      BY <3>1, <3>2 DEF m, l
  <2> QED
    BY <2>2, <2>3
<1>2. /\ r[0] = [p EXCEPT !.returned = FALSE]
      /\ \A j \in 1..Len(t) :
           r[j] = IF r[j - 1].returned THEN r[j - 1] ELSE Http!Step(r[j - 1], t[j])
  BY RoundsAre
<1>3. /\ s[0] = [q EXCEPT !.returned = FALSE]
      /\ \A j \in 1..k : s[j] = IF s[j - 1].returned THEN s[j - 1] ELSE Http!Step(s[j - 1], b[j])
  <2> HIDE DEF b
  <2>1. Len(b) \in Nat
    BY <1>1
  <2> QED
    BY <1>1, <2>1, RoundsAre
<1> HIDE DEF b, r, s
<1>4. 0 \in Same
  BY <1>3 DEF r
<1>5. ASSUME NEW i \in 1..k, i - 1 \in Same PROVE i \in Same
  <2>1. n + i \in 1..Len(t) /\ (n + i) - 1 = n + (i - 1) /\ s[i - 1] = r[n + (i - 1)]
    BY <1>5
  <2>2. b[i] = t[n + i] /\ r[n + i] = (IF s[i - 1].returned THEN s[i - 1] ELSE Http!Step(s[i - 1], t[n + i]))
    BY <1>1, <1>2, <2>1
  <2>3. s[i] = (IF s[i - 1].returned THEN s[i - 1] ELSE Http!Step(s[i - 1], b[i]))
    BY <1>3
  <2> QED
    BY <2>2, <2>3
<1> HIDE DEF Same
<1>6. \A i \in 0..k : i \in Same
  BY <1>4, <1>5, UpTo
<1> QED
  BY <1>6 DEF Same, b, r, s

(* The rounds of the first characters do not depend on the others.          *)
LEMMA RoundsOfPrefix ==
  ASSUME NEW p, NEW t, NEW S, t \in Seq(S), NEW n \in 0..Len(t)
  PROVE  Http!Rounds(p, SubSeq(t, 1, n))[n] = Http!Rounds(p, t)[n]
<1> DEFINE b == SubSeq(t, 1, n)
           r == Http!Rounds(p, t)
           s == Http!Rounds(p, b)
           Same == {i \in 0..n : s[i] = r[i]}
<1>1. Len(b) = n /\ \A i \in 1..n : b[i] = t[i]
  OBVIOUS
<1>2. /\ r[0] = [p EXCEPT !.returned = FALSE]
      /\ \A j \in 1..Len(t) :
           r[j] = IF r[j - 1].returned THEN r[j - 1] ELSE Http!Step(r[j - 1], t[j])
  BY RoundsAre
<1>3. /\ s[0] = [p EXCEPT !.returned = FALSE]
      /\ \A j \in 1..n : s[j] = IF s[j - 1].returned THEN s[j - 1] ELSE Http!Step(s[j - 1], b[j])
  <2> HIDE DEF b
  <2>1. Len(b) \in Nat
    BY <1>1
  <2> QED
    BY <1>1, <2>1, RoundsAre
<1> HIDE DEF b, r, s
<1>4. 0 \in Same
  BY <1>2, <1>3
<1>5. ASSUME NEW i \in 1..n, i - 1 \in Same PROVE i \in Same
  <2>1. i \in 1..Len(t) /\ s[i - 1] = r[i - 1]
    BY <1>5
  <2>2. s[i] = r[i]
    BY <1>1, <1>2, <1>3, <2>1
  <2> QED
    BY <2>2
<1> HIDE DEF Same
<1>6. \A i \in 0..n : i \in Same
  BY <1>4, <1>5, UpTo
<1> QED
  BY <1>6 DEF Same, b, r, s

(* The blanks among the first characters of a text. *)
BlanksUpTo(t, i) == {j \in 1..i : t[j] = Http!SP}
Spaces(t, i) == Cardinality(BlanksUpTo(t, i))

(* One more character is one more blank or none. *)
LEMMA SpacesAre ==
  ASSUME NEW t, NEW i \in Nat
  PROVE  /\ Spaces(t, 0) = 0
         /\ Spaces(t, i) \in Nat
         /\ Spaces(t, i + 1) = IF t[i + 1] = Http!SP THEN Spaces(t, i) + 1 ELSE Spaces(t, i)
<1>1. Spaces(t, 0) = 0
  <2>1. BlanksUpTo(t, 0) = {}
    BY DEF BlanksUpTo
  <2> QED
    BY <2>1, FS_EmptySet DEF Spaces
<1>2. IsFiniteSet(BlanksUpTo(t, i))
  <2>1. IsFiniteSet(1..i)
    BY FS_Interval
  <2> QED
    BY <2>1, FS_Subset DEF BlanksUpTo
<1>3. Spaces(t, i) \in Nat
  BY <1>2, FS_CardinalityType DEF Spaces
<1>4. BlanksUpTo(t, i + 1) = IF t[i + 1] = Http!SP THEN BlanksUpTo(t, i) \cup {i + 1} ELSE BlanksUpTo(t, i)
  <2>1. 1..(i + 1) = (1..i) \cup {i + 1}
    OBVIOUS
  <2> QED
    BY <2>1 DEF BlanksUpTo
<1>5. i + 1 \notin BlanksUpTo(t, i)
  BY DEF BlanksUpTo
<1>6. CASE t[i + 1] = Http!SP
  BY <1>1, <1>2, <1>3, <1>4, <1>5, <1>6, FS_AddElement DEF Spaces
<1>7. CASE t[i + 1] # Http!SP
  BY <1>1, <1>3, <1>4, <1>7 DEF Spaces
<1> QED
  BY <1>6, <1>7

(* What is true of the parser of a text behind its first i characters.      *)
Sound(t, i) ==
  LET p == Http!Rounds(Http!Reset, t)[i]
  IN /\ IsParser(p) /\ p.returned \in BOOLEAN
     /\ p.returned => p.state = "Done" \/ p.error # "none"
     /\ ~p.returned => /\ p.state \in LoopStates
                       /\ Spot(p, Spaces(t, i), t[i])
                       /\ p.error # "none" => WrongVersion(t)

(* The parser of a text is sound behind each character. *)
LEMMA AlwaysSound ==
  ASSUME NEW S, NEW t \in Seq(S)
  PROVE  \A i \in 0..Len(t) : Sound(t, i)
<1> DEFINE r == Http!Rounds(Http!Reset, t)
           T == {i \in 0..Len(t) : Sound(t, i)}
<1>1. /\ r[0] = [Http!Reset EXCEPT !.returned = FALSE]
      /\ \A i \in 1..Len(t) :
           r[i] = IF r[i - 1].returned THEN r[i - 1] ELSE Http!Step(r[i - 1], t[i])
  BY RoundsAre
<1>2. Len(t) \in Nat
  OBVIOUS
<1> HIDE DEF r
<1>3. 0 \in T
  <2>1. IsParser(r[0]) /\ r[0].returned = FALSE /\ r[0].state = "Start" /\ r[0].error = "none"
    BY <1>1 DEF Http!Reset, IsParser, Parts
  <2>2. Spaces(t, 0) = 0
    BY SpacesAre
  <2>3. Sound(t, 0)
    BY <2>1, <2>2 DEF Sound, Spot, LoopStates, UriStates, r
  <2> QED
    BY <1>2, <2>3
<1>4. ASSUME NEW i \in 1..Len(t), i - 1 \in T PROVE i \in T
  <2> DEFINE p == r[i - 1]
             q == r[i]
             blanks == Spaces(t, i - 1)
  <2>1. /\ IsParser(p) /\ p.returned \in BOOLEAN
        /\ p.returned => p.state = "Done" \/ p.error # "none"
        /\ ~p.returned => /\ p.state \in LoopStates
                          /\ Spot(p, blanks, t[i - 1])
                          /\ p.error # "none" => WrongVersion(t)
    BY <1>4 DEF Sound, r
  <2>2. q = IF p.returned THEN p ELSE Http!Step(p, t[i])
    BY <1>1
  <2>3. blanks \in Nat /\ Spaces(t, i) = IF t[i] = Http!SP THEN blanks + 1 ELSE blanks
    <3>1. i - 1 \in Nat /\ (i - 1) + 1 = i
      OBVIOUS
    <3> QED
      BY <3>1, SpacesAre
  <2> HIDE DEF p, q, blanks
  <2>4. CASE p.returned
    <3>1. q = p
      BY <2>2, <2>4
    <3>2. Sound(t, i)
      BY <2>1, <2>4, <3>1 DEF Sound, q, r
    <3> QED
      BY <3>2
  <2>5. CASE ~p.returned
    <3>1. q = Http!Step(p, t[i])
      BY <2>2, <2>5
    <3>2. Ready(p)
      BY <2>1, <2>5 DEF Ready
    <3>3. Outcome(p, t[i], blanks, q)
      BY <2>1, <2>3, <2>5, <3>1, <3>2, StepRound
    <3>4. p.state = "AfterUri" /\ t[i] \notin {Http!Version[1], Http!SP} => WrongVersion(t)
      <4> SUFFICES ASSUME p.state = "AfterUri", t[i] \notin {Http!Version[1], Http!SP}
                   PROVE  WrongVersion(t)
        OBVIOUS
      <4>1. blanks = 2 /\ t[i - 1] = Http!SP
        BY <2>1, <2>5 DEF Spot
      <4>2. i # 1
        <5> SUFFICES ASSUME i = 1 PROVE FALSE
          OBVIOUS
        <5>1. blanks = 0
          BY SpacesAre DEF blanks
        <5> QED
          BY <4>1, <5>1
      <4>3. i \in 2..Len(t)
        BY <4>2
      <4> QED
        BY <4>1, <4>3 DEF WrongVersion, blanks, Spaces, BlanksUpTo
    <3>5. q.returned => q.state = "Done" \/ q.error # "none"
      BY <3>3 DEF Outcome
    <3>6. ASSUME ~q.returned
          PROVE  /\ q.state \in LoopStates
                 /\ Spot(q, Spaces(t, i), t[i])
                 /\ q.error # "none" => WrongVersion(t)
      BY <2>1, <2>3, <2>5, <3>3, <3>4, <3>6 DEF Outcome
    <3>7. IsParser(q) /\ q.returned \in BOOLEAN
      BY <3>3 DEF Outcome
    <3>8. Sound(t, i)
      BY <3>5, <3>6, <3>7 DEF Sound, q, r
    <3> QED
      BY <3>8
  <2> QED
    BY <2>1, <2>4, <2>5
<1> HIDE DEF T
<1>5. \A i \in 0..Len(t) : i \in T
  BY <1>2, <1>3, <1>4, UpTo
<1> QED
  BY <1>5 DEF T

-----------------------------------------------------------------------------
(* Frames *)

(* A sequence, of whatever.                                                 *)
IsSeq(s) == \E S : s \in Seq(S)

(* Sequences grow by one element and by another sequence. *)
LEMMA SeqGrows ==
  ASSUME NEW s, IsSeq(s), NEW u, IsSeq(u), NEW x
  PROVE  /\ Len(s) \in Nat
         /\ IsSeq(Append(s, x)) /\ Len(Append(s, x)) = Len(s) + 1
         /\ IsSeq(s \o u) /\ Len(s \o u) = Len(s) + Len(u)
<1>1. PICK S : s \in Seq(S)
  BY DEF IsSeq
<1>2. PICK U : u \in Seq(U)
  BY DEF IsSeq
<1> DEFINE A == S \cup {x}
           B == S \cup U
<1>3. s \in Seq(A) /\ x \in A
  BY <1>1
<1>4. s \in Seq(B) /\ u \in Seq(B)
  BY <1>1, <1>2
<1> HIDE DEF A, B
<1>5. Append(s, x) \in Seq(A) /\ Len(Append(s, x)) = Len(s) + 1
  BY <1>3
<1>6. s \o u \in Seq(B) /\ Len(s \o u) = Len(s) + Len(u)
  BY <1>4
<1> QED
  BY <1>1, <1>5, <1>6 DEF IsSeq

(* The sequence of nothing. *)
LEMMA EmptyIsSeq ==
  ASSUME NEW s, s = <<>>
  PROVE  IsSeq(s) /\ Len(s) = 0
<1>1. s \in Seq({})
  OBVIOUS
<1>2. IsSeq(s)
  BY <1>1, Zenon DEF IsSeq
<1>3. Len(s) = 0
  OBVIOUS
<1> QED
  BY <1>2, <1>3, Zenon

(* The parser of frames: it collects no more than a message may have.       *)
WsParts == {"state", "remain", "data", "error", "fin", "opcode", "length", "mask", "returned"}
Heads == {"FinAndOpcode", "MaskAndLen", "PayloadLen16", "PayloadLen64", "MaskingKey", "Lost"}
Collected(p) ==
  /\ p = [f \in WsParts |-> p[f]]
  /\ p.state \in Heads \cup {"PayloadData", "Done"}
  /\ p.length \in Nat /\ p.remain \in Int
  /\ IsSeq(p.data)
  /\ p.state \in Heads => Len(p.data) = 0
  /\ p.state = "MaskingKey" => p.length <= MaxPayloadLength
  /\ p.state = "PayloadData" => /\ Len(p.data) + p.remain = p.length /\ p.remain > 0
                               /\ p.length <= MaxPayloadLength
  /\ p.state = "Done" => Len(p.data) <= MaxPayloadLength
WsOK(p) == Collected(p) /\ (p.state = "Lost" => p.returned = TRUE)

(* The lesser of two lengths is a length. *)
LEMMA MinType ==
  ASSUME NEW a \in Nat, NEW b \in Nat
  PROVE  Ws!Min({a, b}) \in Nat
<1>1. \E x \in {a, b} : \A y \in {a, b} : x <= y
  OBVIOUS
<1> QED
  BY <1>1 DEF Ws!Min

(* A parser of frames has these fields. *)
IsWs(p) == p = [f \in WsParts |-> p[f]]

(* A byte leads from a sound parser of frames to a sound one. *)
LEMMA WsRound ==
  ASSUME NEW p, WsOK(p), p.state # "Done", p.state # "Lost", NEW byte \in Nat
  PROVE  WsOK(Ws!Step(p, byte))
<1>1. MaxPayloadLength \in Nat \ {0} /\ MaskSize \in Nat \ {0}
  BY Sizes
<1>2. /\ IsWs(p) /\ p.length \in Nat /\ p.remain \in Int /\ IsSeq(p.data) /\ Len(p.data) \in Nat
      /\ p.state \in Heads => Len(p.data) = 0
  BY SeqGrows DEF WsOK, Collected, IsWs
<1> DEFINE Same(q, r) == r.data = q.data /\ r.returned = q.returned
<1>3. ASSUME NEW q, NEW e, WsOK(q), q.state \in {"MaskAndLen", "Lost"}
      PROVE  WsOK(Ws!Refused(q, e))
  <2> DEFINE r == Ws!Refused(q, e)
  <2>1. IsWs(r) /\ r.state = q.state /\ r.length = q.length /\ r.remain = q.remain
        /\ r.data = q.data /\ r.returned = TRUE
    BY <1>3 DEF Ws!Refused, WsOK, Collected, IsWs, WsParts
  <2> HIDE DEF r
  <2>2. WsOK(r)
    BY <1>3, <2>1 DEF WsOK, Collected, IsWs, Heads
  <2> QED
    BY <2>2 DEF r
<1>4. ASSUME NEW q, IsWs(q), IsSeq(q.data), Len(q.data) = 0, 
             NEW length \in Nat, ~(length > MaxPayloadLength)
      PROVE  WsOK(Ws!WithLength(q, length))
  <2> DEFINE r == Ws!WithLength(q, length)
  <2>1. IsWs(r) /\ r.state = "MaskingKey" /\ r.length = length /\ r.remain = MaskSize /\ r.data = q.data
    BY <1>4 DEF Ws!WithLength, IsWs, WsParts
  <2> HIDE DEF r
  <2>2. WsOK(r)
    BY <1>1, <1>4, <2>1 DEF WsOK, Collected, IsWs, Heads
  <2> QED
    BY <2>2 DEF r
<1>5. CASE p.state = "FinAndOpcode"
  <2> DEFINE r == Ws!FinAndOpcode(p, byte)
  <2>1. Ws!Step(p, byte) = r
    BY <1>5 DEF Ws!Step
  <2>2. IsWs(r) /\ r.state = "MaskAndLen" /\ r.length = p.length /\ r.remain = p.remain /\ r.data = p.data
    BY <1>2 DEF Ws!FinAndOpcode, IsWs, WsParts
  <2> HIDE DEF r
  <2>3. WsOK(r)
    BY <1>2, <1>5, <2>2 DEF WsOK, Collected, IsWs, Heads
  <2> QED
    BY <2>1, <2>3
<1>6. CASE p.state = "MaskAndLen"
  <2> DEFINE length == byte % 128
             Extended(s, bytes) == [p EXCEPT !.state = s, !.remain = bytes, !.length = 0]
  <2>1. Ws!Step(p, byte) = Ws!MaskAndLen(p, byte)
    BY <1>6 DEF Ws!Step
  <2>2. length \in Nat
    OBVIOUS
  <2> HIDE DEF length
  <2>3. \A e : WsOK(Ws!Refused(p, e))
    BY <1>3, <1>6
  <2>4. ASSUME NEW s \in {"PayloadLen16", "PayloadLen64"}, NEW bytes \in Nat
        PROVE  WsOK(Extended(s, bytes))
    <3> DEFINE r == Extended(s, bytes)
    <3>1. IsWs(r) /\ r.state = s /\ r.length = 0 /\ r.remain = bytes /\ r.data = p.data
      BY <1>2 DEF IsWs, WsParts
    <3> HIDE DEF r
    <3>2. WsOK(r)
      BY <1>2, <1>6, <3>1 DEF WsOK, Collected, IsWs, Heads
    <3> QED
      BY <3>2 DEF r
  <2>5. WsOK(Extended("PayloadLen16", 2)) /\ WsOK(Extended("PayloadLen64", 8))
    <3> HIDE DEF Extended
    <3> QED
      BY <2>4
  <2>6. ~(length > MaxPayloadLength) => WsOK(Ws!WithLength(p, length))
    BY <1>2, <1>4, <1>6, <2>2 DEF Heads
  <2>7. Ws!MaskAndLen(p, byte) =
          IF byte < 128 THEN Ws!Refused(p, "PROTOCOL_ERROR")
          ELSE IF length = 126 THEN Extended("PayloadLen16", 2)
          ELSE IF length = 127 THEN Extended("PayloadLen64", 8)
          ELSE IF length > MaxPayloadLength THEN Ws!Refused(p, "PAYLOAD_TOO_BIG")
          ELSE Ws!WithLength(p, length)
    BY Zenon DEF Ws!MaskAndLen, length
  <2> DEFINE a == Extended("PayloadLen16", 2)
             b == Extended("PayloadLen64", 8)
             c == Ws!WithLength(p, length)
  <2>8. WsOK(a) /\ WsOK(b) /\ (~(length > MaxPayloadLength) => WsOK(c))
    BY <2>5, <2>6
  <2>9. \/ \E e : Ws!MaskAndLen(p, byte) = Ws!Refused(p, e)
        \/ Ws!MaskAndLen(p, byte) = a
        \/ Ws!MaskAndLen(p, byte) = b
        \/ Ws!MaskAndLen(p, byte) = c /\ ~(length > MaxPayloadLength)
    BY <2>7, Zenon
  <2> HIDE DEF a, b, c
  <2> QED
    BY <2>1, <2>3, <2>8, <2>9, Zenon
<1>7. CASE p.state \in {"PayloadLen16", "PayloadLen64"}
  <2> DEFINE length == Ws!Min({256 * p.length + byte, MaxPayloadLength + 1})
             q == [p EXCEPT !.length = length, !.remain = @ - 1]
             r == [q EXCEPT !.state = "Lost"]
  <2>1. Ws!Step(p, byte) = Ws!PayloadLen(p, byte)
    BY <1>7 DEF Ws!Step
  <2>2. length \in Nat
    <3>1. 256 * p.length + byte \in Nat /\ MaxPayloadLength + 1 \in Nat
      BY <1>1, <1>2
    <3> QED
      BY <3>1, MinType
  <2>3. Ws!PayloadLen(p, byte) =
          IF q.remain # 0 THEN q
          ELSE IF length > MaxPayloadLength THEN Ws!Refused(r, "PAYLOAD_TOO_BIG")
          ELSE Ws!WithLength(q, length)
    BY DEF Ws!PayloadLen
  <2> HIDE DEF length
  <2>4. IsWs(q) /\ q.state = p.state /\ q.length = length /\ q.remain \in Int /\ q.data = p.data
    <3>1. IsWs(q) /\ q.state = p.state /\ q.length = length /\ q.remain = p.remain - 1 /\ q.data = p.data
      BY <1>2 DEF IsWs, WsParts
    <3> HIDE DEF q
    <3> QED
      BY <1>2, <3>1
  <2>5. WsOK(q)
    <3> HIDE DEF q
    <3> QED
      BY <1>2, <1>7, <2>2, <2>4 DEF WsOK, Collected, IsWs, Heads
  <2> HIDE DEF q
  <2>6. Ws!Refused(r, "PAYLOAD_TOO_BIG") = [[q EXCEPT !.state = "Lost"] EXCEPT !.error = "PAYLOAD_TOO_BIG", !.returned = TRUE]
    BY DEF Ws!Refused
  <2>7. WsOK(Ws!Refused(r, "PAYLOAD_TOO_BIG"))
    <3> DEFINE s == Ws!Refused(r, "PAYLOAD_TOO_BIG")
    <3>1. IsWs(s) /\ s.state = "Lost" /\ s.length = q.length /\ s.remain = q.remain /\ s.data = q.data
          /\ s.returned = TRUE
      BY <2>4, <2>6 DEF IsWs, WsParts
    <3> HIDE DEF s
    <3>2. WsOK(s)
      BY <1>2, <1>7, <2>2, <2>4, <3>1 DEF WsOK, Collected, IsWs, Heads
    <3> QED
      BY <3>2 DEF s
  <2>8. ~(length > MaxPayloadLength) => WsOK(Ws!WithLength(q, length))
    BY <1>2, <1>4, <1>7, <2>2, <2>4 DEF Heads
  <2> HIDE DEF r
  <2> QED
    BY <2>1, <2>3, <2>5, <2>7, <2>8, Zenon
<1>8. CASE p.state = "MaskingKey"
  <2> DEFINE q == [p EXCEPT !.mask = Append(@, byte), !.remain = @ - 1]
             next == IF q.length # 0 THEN "PayloadData" ELSE "Done"
             r == [q EXCEPT !.state = next, !.remain = q.length]
  <2>1. Ws!Step(p, byte) = Ws!MaskingKey(p, byte)
    BY <1>8 DEF Ws!Step
  <2>2. Ws!MaskingKey(p, byte) = IF q.remain # 0 THEN q ELSE r
    BY DEF Ws!MaskingKey
  <2>3. /\ IsWs(q) /\ q.state = "MaskingKey" /\ q.length = p.length /\ q.remain \in Int
        /\ q.data = p.data
    <3>1. IsWs(q) /\ q.state = p.state /\ q.length = p.length /\ q.remain = p.remain - 1 /\ q.data = p.data
      BY <1>2 DEF IsWs, WsParts
    <3> HIDE DEF q
    <3> QED
      BY <1>2, <1>8, <3>1
  <2>4. p.length <= MaxPayloadLength
    BY <1>8 DEF WsOK, Collected
  <2> HIDE DEF q
  <2>5. WsOK(q)
    BY <1>2, <1>8, <2>3, <2>4 DEF WsOK, Collected, IsWs, Heads
  <2>6. IsWs(r) /\ r.state = next /\ r.length = q.length /\ r.remain = q.length /\ r.data = q.data
    BY <2>3 DEF IsWs, WsParts
  <2> HIDE DEF r
  <2>7. WsOK(r)
    <3>1. CASE q.length # 0
      BY <1>1, <1>2, <1>8, <2>3, <2>4, <2>6, <3>1 DEF WsOK, Collected, IsWs, Heads
    <3>2. CASE q.length = 0
      BY <1>1, <1>2, <1>8, <2>3, <2>4, <2>6, <3>2 DEF WsOK, Collected, IsWs, Heads
    <3> QED
      BY <3>1, <3>2
  <2> QED
    BY <2>1, <2>2, <2>5, <2>7, Zenon
<1>9. CASE p.state = "PayloadData"
  <2> DEFINE x == Ws!Xor(byte, p.mask[((p.length - p.remain) % MaskSize) + 1])
             q == [p EXCEPT !.data = Append(@, x), !.remain = @ - 1]
             r == [q EXCEPT !.state = "Done"]
  <2>1. Ws!Step(p, byte) = Ws!PayloadData(p, byte)
    BY <1>9 DEF Ws!Step
  <2>2. Ws!PayloadData(p, byte) = IF q.remain = 0 THEN r ELSE q
    BY DEF Ws!PayloadData
  <2> HIDE DEF x
  <2>3. /\ IsSeq(Append(p.data, x)) /\ Len(Append(p.data, x)) = Len(p.data) + 1
    BY <1>2, SeqGrows
  <2>4. /\ Len(p.data) + p.remain = p.length /\ p.remain > 0 /\ p.length <= MaxPayloadLength
    BY <1>9 DEF WsOK, Collected
  <2>5. /\ IsWs(q) /\ q.state = "PayloadData" /\ q.length = p.length /\ q.remain = p.remain - 1
        /\ q.data = Append(p.data, x)
    BY <1>2, <1>9 DEF IsWs, WsParts
  <2> HIDE DEF q
  <2>6. IsWs(r) /\ r.state = "Done" /\ r.length = q.length /\ r.remain = q.remain /\ r.data = q.data
    BY <2>5 DEF IsWs, WsParts
  <2> HIDE DEF r
  <2>7. IsSeq(q.data) /\ Len(q.data) = Len(p.data) + 1
    BY <2>3, <2>5
  <2>8. Len(q.data) + q.remain = p.length /\ q.remain \in Int
    BY <1>2, <2>4, <2>5, <2>7
  <2>9. q.remain # 0 => WsOK(q)
    BY <1>1, <1>2, <2>4, <2>5, <2>7, <2>8, SMTT(30) DEF WsOK, Collected, IsWs, Heads
  <2>10. ASSUME q.remain = 0 PROVE WsOK(r)
    <3>1. Len(q.data) <= MaxPayloadLength
      BY <1>1, <1>2, <2>4, <2>7, <2>8, <2>10
    <3>2. /\ IsWs(r) /\ r.state = "Done" /\ r.length \in Nat /\ r.remain \in Int /\ IsSeq(r.data)
          /\ Len(r.data) <= MaxPayloadLength
      BY <1>2, <2>5, <2>6, <2>7, <2>8, <3>1
    <3> QED
      BY <3>2 DEF WsOK, Collected, IsWs, Heads
  <2> QED
    BY <2>1, <2>2, <2>9, <2>10, Zenon
<1> QED
  BY <1>5, <1>6, <1>7, <1>8, <1>9 DEF WsOK, Collected, Heads

(* A new parser and one that has been set back are sound. *)
LEMMA WsFresh ==
  /\ WsOK(Ws!Fresh) /\ Ws!Fresh.state = "FinAndOpcode"
  /\ \A p : WsOK(Ws!Reset(p)) /\ Ws!Reset(p).state = "FinAndOpcode"
<1> DEFINE s == <<>>
<1>0. IsSeq(s) /\ Len(s) = 0
  <2>1. s = <<>>
    OBVIOUS
  <2> HIDE DEF s
  <2> QED
    BY <2>1, EmptyIsSeq, Zenon
<1>1. WsOK(Ws!Fresh) /\ Ws!Fresh.state = "FinAndOpcode"
  <2> DEFINE r == Ws!Fresh
  <2>1. IsWs(r) /\ r.state = "FinAndOpcode" /\ r.length = 0 /\ r.remain = 1 /\ r.data = s
    BY DEF IsWs, WsParts, Ws!Fresh
  <2> HIDE DEF r, s
  <2>2. WsOK(r)
    BY <1>0, <2>1 DEF WsOK, Collected, IsWs, Heads
  <2> QED
    BY <2>1, <2>2 DEF r
<1>2. ASSUME NEW p PROVE WsOK(Ws!Reset(p)) /\ Ws!Reset(p).state = "FinAndOpcode"
  <2> DEFINE r == Ws!Reset(p)
  <2>1. IsWs(r) /\ r.state = "FinAndOpcode" /\ r.length = 0 /\ r.remain = 1 /\ r.data = s
    BY DEF IsWs, WsParts, Ws!Fresh, Ws!Reset
  <2> HIDE DEF r, s
  <2>2. WsOK(r)
    BY <1>0, <2>1 DEF WsOK, Collected, IsWs, Heads
  <2> QED
    BY <2>1, <2>2 DEF r
<1> QED
  BY <1>1, <1>2

(* What the calls of the handler work on.                                   *)
Whys == {"no", "bad_request", "not_found", "idle", "no_buffer", "peer", "pong"}
ConnOK(c) ==
  /\ c = [f \in {"stage", "idle", "closed"} |-> c[f]]
  /\ c.stage = "websocket" /\ c.idle \in 0..IdleTicks /\ c.closed \in Whys

(* The handler: no message in the making is longer than one may be. *)
HandlerParts == {"state", "cache", "wait_pong", "timer"}
IsHandler(h) == h = [f \in HandlerParts |-> h[f]]
HandlerOK(h) ==
  /\ IsHandler(h)
  /\ h.state \in {"Normal", "Continued", "Closing"}
  /\ IsSeq(h.cache) /\ Len(h.cache) <= MaxPayloadLength
  /\ h.timer \in 0..PongTicks
  /\ h.timer # 0 => h.wait_pong

(* The record of a call, and what every call keeps of it.              *)
WorkParts == {"conn", "ws", "handler", "delivered", "room", "inside"}
IsWork(w) == w = [f \in WorkParts |-> w[f]]
WorkOK(w) == IsWork(w) /\ ConnOK(w.conn) /\ HandlerOK(w.handler)
Kept(w, v) == WorkOK(v) /\ v.ws = w.ws

(* The payload of a frame is no longer than a message may be.               *)
DataOK(w) == IsSeq(w.ws.data) /\ Len(w.ws.data) <= MaxPayloadLength

(* close(), whatever for. *)
LEMMA ClosedKept ==
  ASSUME NEW w, WorkOK(w), NEW why \in Whys
  PROVE  Kept(w, Closed(w, why))
<1> DEFINE v == [w EXCEPT !.conn.closed = why]
           c == [w.conn EXCEPT !.closed = why]
<1>1. ConnOK(c)
  BY DEF WorkOK, ConnOK
<1>2. IsWork(v) /\ v.conn = c /\ v.handler = w.handler /\ v.ws = w.ws
  BY DEF WorkOK, IsWork, WorkParts
<1> HIDE DEF v, c
<1>3. Kept(w, v)
  BY <1>1, <1>2 DEF Kept, WorkOK
<1> QED
  BY <1>3, Zenon DEF Closed, v, Kept

(* A record that differs from w only in the room that is left. *)
LEMMA RoomKept ==
  ASSUME NEW w, WorkOK(w), NEW room
  PROVE  Kept(w, [w EXCEPT !.room = room])
<1> DEFINE v == [w EXCEPT !.room = room]
<1>1. IsWork(v) /\ v.conn = w.conn /\ v.handler = w.handler /\ v.ws = w.ws
  BY DEF WorkOK, IsWork, WorkParts
<1> HIDE DEF v
<1>2. Kept(w, v)
  BY <1>1 DEF Kept, WorkOK
<1> QED
  BY <1>2 DEF v

(* A send takes buffers, or closes. *)
LEMMA SentKept ==
  ASSUME NEW w, WorkOK(w), NEW n
  PROVE  Kept(w, Sent(w, n))
<1> DEFINE v == [w EXCEPT !.room = 0]
           u == [w EXCEPT !.room = w.room - n]
<1>1. Kept(w, v) /\ Kept(w, u)
  BY RoomKept
<1>2. Sent(w, n) = IF w.room < n THEN Closed(v, "no_buffer") ELSE u
  BY DEF Sent
<1> HIDE DEF v, u
<1>3. Kept(v, Closed(v, "no_buffer"))
  BY <1>1, ClosedKept DEF Kept, Whys
<1> QED
  BY <1>1, <1>2, <1>3 DEF Kept

(* A record that differs from w only in the handler. *)
LEMMA HandlerKept ==
  ASSUME NEW w, WorkOK(w), NEW h, HandlerOK(h), NEW v, v = [w EXCEPT !.handler = h]
  PROVE  Kept(w, v) /\ v.handler = h
<1>1. IsWork(v) /\ v.conn = w.conn /\ v.handler = h /\ v.ws = w.ws
  BY DEF WorkOK, IsWork, WorkParts
<1> QED
  BY <1>1 DEF Kept, WorkOK

(* A close frame, with which the handler is closing. *)
LEMMA SendCloseFrameKept ==
  ASSUME NEW w, WorkOK(w)
  PROVE  Kept(w, SendCloseFrame(w))
<1> DEFINE u == Sent(w, 1)
           h == [u.handler EXCEPT !.state = "Closing"]
           v == [u EXCEPT !.handler = h]
<1>1. Kept(w, u)
  BY SentKept
<1>2. Kept(w, Closed(w, "no_buffer"))
  BY ClosedKept DEF Whys
<1> HIDE DEF u
<1>3. HandlerOK(h)
  BY <1>1 DEF Kept, WorkOK, HandlerOK, IsHandler, HandlerParts
<1> HIDE DEF h
<1>4. Kept(u, v)
  <2>1. v = [u EXCEPT !.handler = h]
    OBVIOUS
  <2> HIDE DEF v
  <2> QED
    BY <1>1, <1>3, <2>1, HandlerKept DEF Kept
<1>5. SendCloseFrame(w) = IF w.room = 0 THEN Closed(w, "no_buffer") ELSE v
  BY DEF SendCloseFrame, u, h
<1> HIDE DEF v
<1> QED
  BY <1>1, <1>2, <1>4, <1>5 DEF Kept

(* A continuation is no longer than what a message may have left. *)
LEMMA ContinueKept ==
  ASSUME NEW w, WorkOK(w), DataOK(w)
  PROVE  Kept(w, Continue(w))
<1> DEFINE state == IF w.ws.fin THEN "Normal" ELSE w.handler.state
           g == [w.handler EXCEPT !.state = state]
           whole == [w EXCEPT !.handler = g]
           cache == w.handler.cache \o w.ws.data
           h == [g EXCEPT !.cache = cache]
           v == [whole EXCEPT !.handler = h]
<1>1. HandlerOK(w.handler) /\ state \in {"Normal", "Continued", "Closing"}
  BY DEF WorkOK, HandlerOK
<1>2. IsSeq(cache) /\ Len(cache) = Len(w.handler.cache) + Len(w.ws.data)
  BY <1>1, SeqGrows DEF HandlerOK, DataOK
<1>3. Continue(w) =
        IF w.handler.state # "Continued" THEN SendCloseFrame(w)
        ELSE IF Len(w.handler.cache) + Len(w.ws.data) > MaxPayloadLength
        THEN SendCloseFrame(whole)
        ELSE [whole EXCEPT !.handler.cache = @ \o w.ws.data]
  BY DEF Continue
<1> HIDE DEF state
<1>4. HandlerOK(g) /\ g.cache = w.handler.cache
  BY <1>1 DEF HandlerOK, IsHandler, HandlerParts
<1> HIDE DEF cache, g
<1>5. Kept(w, whole) /\ whole.handler = g
  <2>1. whole = [w EXCEPT !.handler = g]
    OBVIOUS
  <2> HIDE DEF whole
  <2> QED
    BY <1>4, <2>1, HandlerKept
<1>6. [whole EXCEPT !.handler.cache = @ \o w.ws.data] = v
  BY <1>4, <1>5 DEF cache
<1> HIDE DEF whole
<1>7. Len(cache) <= MaxPayloadLength => HandlerOK(h)
  BY <1>2, <1>4 DEF HandlerOK, IsHandler, HandlerParts
<1> HIDE DEF h
<1>8. HandlerOK(h) => Kept(whole, v)
  <2>1. v = [whole EXCEPT !.handler = h]
    OBVIOUS
  <2> HIDE DEF v
  <2> QED
    BY <1>5, <2>1, HandlerKept DEF Kept
<1> HIDE DEF v
<1>9. Kept(w, SendCloseFrame(w)) /\ Kept(whole, SendCloseFrame(whole))
  BY <1>5, SendCloseFrameKept DEF Kept
<1>10. CASE w.handler.state # "Continued"
  BY <1>3, <1>9, <1>10
<1>11. CASE w.handler.state = "Continued" /\ Len(cache) > MaxPayloadLength
  BY <1>2, <1>3, <1>5, <1>9, <1>11 DEF Kept
<1>12. CASE w.handler.state = "Continued" /\ ~(Len(cache) > MaxPayloadLength)
  <2>1. Continue(w) = v
    BY <1>2, <1>3, <1>6, <1>12
  <2>2. Len(cache) <= MaxPayloadLength
    <3>1. Len(cache) \in Nat /\ MaxPayloadLength \in Nat
      BY <1>2, Sizes, SeqGrows
    <3> QED
      BY <1>12, <3>1
  <2> QED
    BY <1>5, <1>7, <1>8, <2>1, <2>2 DEF Kept
<1> QED
  BY <1>10, <1>11, <1>12

(* A data frame. *)
LEMMA FrameHandleKept ==
  ASSUME NEW w, WorkOK(w), DataOK(w)
  PROVE  Kept(w, FrameHandle(w))
<1> DEFINE state == IF w.ws.fin THEN w.handler.state ELSE "Continued"
           h == [w.handler EXCEPT !.state = state, !.cache = w.ws.data]
           v == [w EXCEPT !.handler = h]
<1>1. HandlerOK(w.handler) /\ state \in {"Normal", "Continued", "Closing"}
  BY DEF WorkOK, HandlerOK
<1>2. FrameHandle(w) =
        IF w.handler.state = "Closing" THEN w
        ELSE IF w.ws.opcode = Ws!CONTINUED THEN Continue(w)
        ELSE IF w.ws.opcode \in {Ws!TEXT, Ws!BINARY}
        THEN [w EXCEPT !.handler.state = IF w.ws.fin THEN @ ELSE "Continued",
                       !.handler.cache = w.ws.data]
        ELSE SendCloseFrame(w)
  BY DEF FrameHandle
<1>3. [w EXCEPT !.handler.state = IF w.ws.fin THEN @ ELSE "Continued",
                !.handler.cache = w.ws.data] = v
  BY DEF WorkOK, IsWork, WorkParts
<1> HIDE DEF state
<1>4. HandlerOK(h)
  BY <1>1 DEF HandlerOK, IsHandler, HandlerParts, DataOK
<1> HIDE DEF h
<1>5. Kept(w, v)
  <2>1. v = [w EXCEPT !.handler = h]
    OBVIOUS
  <2> HIDE DEF v
  <2> QED
    BY <1>4, <2>1, HandlerKept
<1> HIDE DEF v
<1>6. Kept(w, w) /\ Kept(w, SendCloseFrame(w)) /\ Kept(w, Continue(w))
  BY SendCloseFrameKept, ContinueKept DEF Kept
<1>7. FrameHandle(w) \in {w, Continue(w), v, SendCloseFrame(w)}
  BY <1>2, <1>3, Zenon
<1> QED
  BY <1>5, <1>6, <1>7, Zenon

(* The service is called. *)
LEMMA ServedKept ==
  ASSUME NEW w, WorkOK(w), NEW fragments
  PROVE  Kept(w, Served(w, fragments))
<1> DEFINE none == <<>>
           h == [w.handler EXCEPT !.cache = none]
           u == [w EXCEPT !.delivered = Append(@, w.handler.cache)]
           v == [u EXCEPT !.handler = h]
<1>1. IsSeq(none) /\ Len(none) = 0
  <2>1. none = <<>>
    OBVIOUS
  <2> HIDE DEF none
  <2> QED
    BY <2>1, EmptyIsSeq
<1>2. Served(w, fragments) =
        IF w.handler.state # "Normal" THEN w
        ELSE Sent([w EXCEPT !.delivered = Append(@, w.handler.cache), !.handler.cache = <<>>], fragments)
  BY DEF Served
<1>3. [w EXCEPT !.delivered = Append(@, w.handler.cache), !.handler.cache = <<>>] = v
  BY DEF WorkOK, IsWork, WorkParts
<1> HIDE DEF none
<1>4. HandlerOK(h)
  BY <1>1, Sizes DEF WorkOK, HandlerOK, IsHandler, HandlerParts
<1> HIDE DEF h
<1>5. IsWork(u) /\ u.conn = w.conn /\ u.handler = w.handler /\ u.ws = w.ws
  BY DEF WorkOK, IsWork, WorkParts
<1> HIDE DEF u
<1>6. Kept(u, v)
  <2>1. v = [u EXCEPT !.handler = h]
    OBVIOUS
  <2>2. WorkOK(u)
    BY <1>5 DEF WorkOK
  <2> HIDE DEF v
  <2> QED
    BY <1>4, <2>1, <2>2, HandlerKept
<1> HIDE DEF v
<1>7. Kept(v, Sent(v, fragments))
  BY <1>6, SentKept DEF Kept
<1>8. Served(w, fragments) \in {w, Sent(v, fragments)}
  BY <1>2, <1>3, Zenon
<1> QED
  BY <1>5, <1>6, <1>7, <1>8 DEF Kept

(* A pong ends the wait for it. *)
LEMMA PongKept ==
  ASSUME NEW w, WorkOK(w)
  PROVE  Kept(w, Pong(w))
<1> DEFINE u == IF w.ws.data # PingPayload THEN SendCloseFrame(w) ELSE w
           h == [u.handler EXCEPT !.wait_pong = FALSE, !.timer = 0]
           v == [u EXCEPT !.handler = h]
<1>1. Kept(w, u)
  BY SendCloseFrameKept DEF Kept
<1>2. Pong(w) = IF ~w.handler.wait_pong THEN w
                ELSE [u EXCEPT !.handler.wait_pong = FALSE, !.handler.timer = 0]
  BY DEF Pong
<1> HIDE DEF u
<1>3. [u EXCEPT !.handler.wait_pong = FALSE, !.handler.timer = 0] = v
  BY <1>1 DEF Kept, WorkOK, IsWork, WorkParts
<1>4. HandlerOK(h)
  <2>1. HandlerOK(u.handler)
    BY <1>1 DEF Kept, WorkOK
  <2>2. /\ IsHandler(h) /\ h.timer = 0
        /\ h.state = u.handler.state /\ h.cache = u.handler.cache
    BY <2>1 DEF HandlerOK, IsHandler, HandlerParts
  <2> HIDE DEF h
  <2> QED
    BY <2>1, <2>2, Timeouts DEF HandlerOK
<1> HIDE DEF h
<1>5. Kept(u, v)
  <2>1. v = [u EXCEPT !.handler = h]
    OBVIOUS
  <2> HIDE DEF v
  <2> QED
    BY <1>1, <1>4, <2>1, HandlerKept DEF Kept
<1> HIDE DEF v
<1>6. Pong(w) \in {w, v}
  BY <1>2, <1>3, Zenon
<1> QED
  BY <1>1, <1>5, <1>6 DEF Kept

(* A control frame. *)
LEMMA ControlFrameKept ==
  ASSUME NEW w, WorkOK(w)
  PROVE  Kept(w, ControlFrameHandle(w))
<1> DEFINE u == IF w.handler.state # "Closing" THEN SendCloseFrame(w) ELSE w
<1>1. Kept(w, u)
  BY SendCloseFrameKept DEF Kept
<1>2. Kept(w, Closed(u, "peer"))
  <2> HIDE DEF u
  <2>1. Kept(u, Closed(u, "peer"))
    BY <1>1, ClosedKept DEF Kept, Whys
  <2> QED
    BY <1>1, <2>1 DEF Kept
<1>3. Kept(w, Sent(w, 1)) /\ Kept(w, Pong(w)) /\ Kept(w, SendCloseFrame(w))
  BY SentKept, PongKept, SendCloseFrameKept
<1>4. CASE w.ws.opcode = Ws!CLOSE
  BY <1>2, <1>4 DEF ControlFrameHandle, Ws!CLOSE, Ws!PING, Ws!PONG
<1>5. CASE w.ws.opcode = Ws!PING
  BY <1>3, <1>5 DEF ControlFrameHandle, Ws!CLOSE, Ws!PING
<1>6. CASE w.ws.opcode = Ws!PONG
  BY <1>3, <1>6 DEF ControlFrameHandle, Ws!CLOSE, Ws!PING, Ws!PONG
<1>7. CASE w.ws.opcode \notin {Ws!CLOSE, Ws!PING, Ws!PONG}
  BY <1>3, <1>7 DEF ControlFrameHandle
<1> QED
  BY <1>4, <1>5, <1>6, <1>7

(* A frame is handled, and the parser is set back. *)
LEMMA FrameDoneKept ==
  ASSUME NEW w, WorkOK(w), DataOK(w), NEW fragments
  PROVE  LET v == FrameDone(w, fragments)
         IN WorkOK(v) /\ WsOK(v.ws) /\ v.ws.state \notin {"Done", "Lost"}
<1> DEFINE u == IF Ws!IsControl(w.ws.opcode) THEN ControlFrameHandle(w)
                ELSE Served(FrameHandle(w), fragments)
           p == Ws!Reset(w.ws)
           v == [u EXCEPT !.ws = p, !.inside = FALSE]
<1>1. Kept(w, u)
  <2>1. Kept(w, ControlFrameHandle(w))
    BY ControlFrameKept
  <2>2. Kept(w, FrameHandle(w))
    BY FrameHandleKept
  <2>3. Kept(FrameHandle(w), Served(FrameHandle(w), fragments))
    BY <2>2, ServedKept DEF Kept
  <2> QED
    BY <2>1, <2>2, <2>3 DEF Kept
<1>2. FrameDone(w, fragments) = v
  BY Zenon DEF FrameDone
<1> HIDE DEF u
<1>3. WsOK(p) /\ p.state = "FinAndOpcode"
  BY WsFresh
<1> HIDE DEF p
<1>4. IsWork(v) /\ v.conn = u.conn /\ v.handler = u.handler /\ v.ws = p
  BY <1>1 DEF Kept, WorkOK, IsWork, WorkParts
<1> HIDE DEF v
<1> QED
  BY <1>1, <1>2, <1>3, <1>4 DEF Kept, WorkOK

(* The record between two bytes. *)
Working(w) == WorkOK(w) /\ WsOK(w.ws) /\ w.ws.state # "Done"

(* A byte, and the frame that it completes. *)
LEMMA NextByteKept ==
  ASSUME NEW w, Working(w), NEW byte \in Nat, NEW fragments
  PROVE  Working(NextByte(w, byte, fragments))
<1> DEFINE p == Ws!Step(w.ws, byte)
           q == [w EXCEPT !.ws = p, !.inside = TRUE]
<1>1. NextByte(w, byte, fragments) =
        IF w.ws.returned \/ w.conn.closed # "no" THEN w
        ELSE IF q.ws.state = "Done" THEN FrameDone(q, fragments) ELSE q
  BY DEF NextByte
<1>2. CASE w.ws.returned \/ w.conn.closed # "no"
  BY <1>1, <1>2
<1>3. CASE ~(w.ws.returned \/ w.conn.closed # "no")
  <2>1. w.ws.state # "Lost"
    BY <1>3 DEF Working, WsOK, Collected
  <2>2. WsOK(p)
    BY <2>1, WsRound DEF Working
  <2> HIDE DEF p
  <2>3. IsWork(q) /\ q.conn = w.conn /\ q.handler = w.handler /\ q.ws = p
    BY DEF Working, WorkOK, IsWork, WorkParts
  <2> HIDE DEF q
  <2>4. WorkOK(q)
    BY <2>3 DEF Working, WorkOK
  <2>5. CASE q.ws.state = "Done"
    <3>1. DataOK(q)
      BY <2>2, <2>3, <2>5 DEF WsOK, Collected, DataOK
    <3>2. Working(FrameDone(q, fragments))
      BY <2>4, <3>1, FrameDoneKept DEF Working
    <3> QED
      BY <1>1, <1>3, <2>5, <3>2
  <2>6. CASE q.ws.state # "Done"
    <3>1. Working(q)
      BY <2>2, <2>3, <2>4, <2>6 DEF Working
    <3> QED
      BY <1>1, <1>3, <2>6, <3>1
  <2> QED
    BY <2>5, <2>6
<1> QED
  BY <1>2, <1>3

(* The end of a buffer. *)
LEMMA BufferDoneKept ==
  ASSUME NEW w, WorkOK(w)
  PROVE  Kept(w, BufferDone(w))
BY SendCloseFrameKept DEF BufferDone, Kept

(* What AfterBytes computes, byte by byte, as for Rounds. *)
LEMMA AfterBytesAre ==
  ASSUME NEW b, Len(b) \in Nat, NEW room, NEW fragments
  PROVE  /\ AfterBytes(b, room, fragments)[0] = Before(room)
         /\ \A i \in 1..Len(b) :
              AfterBytes(b, room, fragments)[i] =
                NextByte(AfterBytes(b, room, fragments)[i - 1], b[i], fragments)
<1> DEFINE n == Len(b)
           F(q, i) == NextByte(q, b[i], fragments)
           start == Before(room)
           E(w) == w = [i \in 0..n |-> IF i = 0 THEN start ELSE F(w[i - 1], i)]
           Good(m, g) == /\ g = [i \in 0..m |-> g[i]] /\ g[0] = start
                         /\ \A i \in 1..m : g[i] = F(g[i - 1], i)
           h == AfterBytes(b, room, fragments)
<1>1. h = CHOOSE w : E(w)
  BY DEF AfterBytes
<1> HIDE DEF F, start, h
<1>2. \A m \in 0..n : \E g : Good(m, g)
  <2> DEFINE S == {m \in 0..n : \E g : Good(m, g)}
  <2>1. 0 \in S
    <3> DEFINE g == [i \in 0..0 |-> start]
    <3>1. Good(0, g)
      OBVIOUS
    <3> HIDE DEF Good, g
    <3>2. 0 \in 0..n
      OBVIOUS
    <3> QED
      BY <3>1, <3>2
  <2>2. ASSUME NEW m \in 1..n, m - 1 \in S PROVE m \in S
    <3>1. PICK f : Good(m - 1, f)
      BY <2>2
    <3> DEFINE g == [i \in 0..m |-> IF i = m THEN F(f[m - 1], m) ELSE f[i]]
    <3>2. \A i \in 0..m : g[i] = IF i = m THEN F(f[m - 1], m) ELSE f[i]
      OBVIOUS
    <3>3. g = [i \in 0..m |-> g[i]]
      OBVIOUS
    <3> HIDE DEF g
    <3>4. g[0] = start
      BY <3>1, <3>2
    <3>5. ASSUME NEW i \in 1..m PROVE g[i] = F(g[i - 1], i)
      <4>1. i - 1 \in 0..m /\ i - 1 # m /\ g[i - 1] = f[i - 1]
        BY <3>2
      <4>2. CASE i = m
        BY <3>2, <4>1, <4>2
      <4>3. CASE i # m
        <5>1. i \in 1..(m - 1) /\ g[i] = f[i]
          BY <3>2, <4>3
        <5> QED
          BY <3>1, <4>1, <5>1
      <4> QED
        BY <4>2, <4>3
    <3>6. Good(m, g)
      BY <3>3, <3>4, <3>5
    <3> HIDE DEF Good
    <3>7. m \in 0..n
      OBVIOUS
    <3> QED
      BY <3>6, <3>7
  <2> HIDE DEF S
  <2>3. \A i \in 0..n : i \in S
    BY <2>1, <2>2, UpTo
  <2> QED
    BY <2>3 DEF S
<1>3. PICK g : Good(n, g)
  BY <1>2
<1>4. E(g)
  <2>1. \A i \in 0..n : g[i] = IF i = 0 THEN start ELSE F(g[i - 1], i)
    BY <1>3, SMTT(30)
  <2>2. g = [i \in 0..n |-> g[i]]
    BY <1>3
  <2> HIDE DEF n
  <2> QED
    BY <2>1, <2>2
<1>5. E(h)
  <2> HIDE DEF E
  <2> QED
    BY <1>1, <1>4
<1>6. h[0] = start /\ \A i \in 1..n : h[i] = F(h[i - 1], i)
  <2>1. \A i \in 0..n : h[i] = IF i = 0 THEN start ELSE F(h[i - 1], i)
    <3> HIDE DEF n
    <3> QED
      BY <1>5
  <2> QED
    BY <2>1
<1> QED
  BY <1>6 DEF F, start, h

(* The record is sound behind each byte of a buffer. *)
LEMMA AlwaysWorking ==
  ASSUME NEW b \in Seq(Nat), NEW room, NEW fragments, Working(Before(room))
  PROVE  Working(AfterBytes(b, room, fragments)[Len(b)])
<1> DEFINE w == AfterBytes(b, room, fragments)
           T == {i \in 0..Len(b) : Working(w[i])}
<1>1. Len(b) \in Nat /\ \A i \in 1..Len(b) : b[i] \in Nat
  OBVIOUS
<1>2. w[0] = Before(room) /\ \A i \in 1..Len(b) : w[i] = NextByte(w[i - 1], b[i], fragments)
  BY <1>1, AfterBytesAre
<1> HIDE DEF w
<1>3. 0 \in T
  BY <1>1, <1>2
<1>4. ASSUME NEW i \in 1..Len(b), i - 1 \in T PROVE i \in T
  <2>1. Working(w[i - 1])
    BY <1>4
  <2>2. Working(w[i])
    BY <1>1, <1>2, <2>1, NextByteKept
  <2> QED
    BY <2>2
<1> HIDE DEF T
<1>5. \A i \in 0..Len(b) : i \in T
  BY <1>1, <1>3, <1>4, UpTo
<1> QED
  BY <1>1, <1>5 DEF T, w

(* The parser and the handler between two buffers.                          *)
SocketOK == HandlerOK(handler) /\ Collected(ws) /\ ws.state # "Done"

(* What a buffer is handled with is kept. *)
LEMMA AfterKept ==
  ASSUME NEW w, WorkOK(w), Collected(w.ws), w.ws.state # "Done", After(w)
  PROVE  SocketOK' /\ ConnOK(conn') /\ conn'.idle = IdleTicks
<1> DEFINE c == [w.conn EXCEPT !.idle = IdleTicks]
<1>1. ConnOK(c) /\ c.idle = IdleTicks
  BY Timeouts DEF WorkOK, ConnOK
<1>2. conn' = c /\ ws' = w.ws /\ handler' = w.handler
  BY DEF After
<1> HIDE DEF c
<1> QED
  BY <1>1, <1>2 DEF SocketOK, WorkOK

(* The record that a buffer is handled with. *)
LEMMA BeforeFits ==
  ASSUME SocketOK, ConnOK(conn), NEW room
  PROVE  LET w == Before(room)
         IN WorkOK(w) /\ Collected(w.ws) /\ w.ws.state = ws.state /\ w.ws.data = ws.data
<1> DEFINE p == [ws EXCEPT !.returned = FALSE]
           w == [conn |-> conn, ws |-> p, handler |-> handler, delivered |-> delivered,
                 room |-> room, inside |-> FALSE]
<1>1. /\ p = [f \in WsParts |-> p[f]]
      /\ p.state = ws.state /\ p.length = ws.length /\ p.remain = ws.remain /\ p.data = ws.data
  BY DEF SocketOK, Collected, WsParts
<1>2. Before(room) = w
  BY DEF Before
<1> HIDE DEF p
<1>3. Collected(p)
  BY <1>1 DEF SocketOK, Collected
<1>4. IsWork(w) /\ w.conn = conn /\ w.handler = handler /\ w.ws = p
  BY DEF IsWork, WorkParts
<1> HIDE DEF w
<1>5. WorkOK(w)
  BY <1>4 DEF WorkOK, SocketOK
<1> QED
  BY <1>1, <1>2, <1>3, <1>4, <1>5

(* A buffer for a parser that knows its place. *)
LEMMA WsRecvKept ==
  ASSUME SocketOK, ConnOK(conn), ws.state # "Lost", NEW b \in Seq(Nat), NEW room, NEW fragments,
         WsRecv(b, room, fragments)
  PROVE  SocketOK' /\ ConnOK(conn') /\ conn'.idle = IdleTicks
<1> DEFINE u == AfterBytes(b, room, fragments)[Len(b)]
           w == BufferDone(u)
<1>1. Working(Before(room))
  BY BeforeFits DEF Working, WsOK, SocketOK
<1>2. Working(u)
  BY <1>1, AlwaysWorking
<1>3. After(w)
  BY DEF WsRecv
<1> HIDE DEF u
<1>4. Kept(u, w)
  BY <1>2, BufferDoneKept DEF Working
<1> HIDE DEF w
<1>5. WorkOK(w) /\ Collected(w.ws) /\ w.ws.state # "Done"
  BY <1>2, <1>4 DEF Kept, Working, WsOK
<1> QED
  BY <1>3, <1>5, AfterKept

(* A buffer for a parser that has lost its place. *)
LEMMA LostRecvKept ==
  ASSUME SocketOK, ConnOK(conn), NEW room, LostRecv(room)
  PROVE  SocketOK' /\ ConnOK(conn') /\ conn'.idle = IdleTicks
<1> DEFINE w == Before(room)
<1>1. WorkOK(w) /\ Collected(w.ws) /\ w.ws.state = ws.state /\ w.ws.data = ws.data
  BY BeforeFits
<1>2. ws.state # "Done"
  BY DEF SocketOK
<1>3. CASE After(BufferDone([w EXCEPT !.inside = TRUE]))
  <2> DEFINE u == [w EXCEPT !.inside = TRUE]
             v == BufferDone(u)
  <2>1. After(v)
    BY <1>3
  <2> HIDE DEF w
  <2>2. IsWork(u) /\ u.conn = w.conn /\ u.handler = w.handler /\ u.ws = w.ws
    BY <1>1 DEF WorkOK, IsWork, WorkParts
  <2> HIDE DEF u
  <2>3. WorkOK(u)
    BY <1>1, <2>2 DEF WorkOK
  <2>4. Kept(u, v)
    BY <2>3, BufferDoneKept
  <2> HIDE DEF v
  <2> QED
    BY <1>1, <1>2, <2>1, <2>2, <2>4, AfterKept DEF Kept
<1>4. ASSUME NEW opcode, NEW data \in {<<>>, PingPayload},
             After(FrameDone([w EXCEPT !.ws.opcode = opcode, !.ws.fin = TRUE, !.ws.data = data], 1))
      PROVE  SocketOK' /\ ConnOK(conn') /\ conn'.idle = IdleTicks
  <2> DEFINE p == [w.ws EXCEPT !.opcode = opcode, !.fin = TRUE, !.data = data]
             u == [w EXCEPT !.ws = p]
             v == FrameDone(u, 1)
  <2>1. [w EXCEPT !.ws.opcode = opcode, !.ws.fin = TRUE, !.ws.data = data] = u
    <3> HIDE DEF w
    <3> QED
      BY <1>1 DEF WorkOK, IsWork, WorkParts
  <2>2. After(v)
    BY <1>4, <2>1
  <2> HIDE DEF w
  <2>3. p.data = data
    BY <1>1 DEF Collected, WsParts
  <2> HIDE DEF p
  <2>4. IsWork(u) /\ u.conn = w.conn /\ u.handler = w.handler /\ u.ws = p
    BY <1>1 DEF WorkOK, IsWork, WorkParts
  <2> HIDE DEF u
  <2>5. WorkOK(u)
    BY <1>1, <2>4 DEF WorkOK
  <2>6. IsSeq(data) /\ Len(data) <= MaxPayloadLength
    <3>1. CASE data = <<>>
      BY <3>1, EmptyIsSeq, Sizes
    <3>2. CASE data = PingPayload
      BY <3>2, FramesOfBytes DEF IsSeq
    <3> QED
      BY <3>1, <3>2
  <2>7. DataOK(u)
    BY <2>3, <2>4, <2>6 DEF DataOK
  <2>8. WorkOK(v) /\ WsOK(v.ws) /\ v.ws.state # "Done"
    BY <2>5, <2>7, FrameDoneKept
  <2> HIDE DEF v
  <2> QED
    BY <2>2, <2>8, AfterKept DEF WsOK
<1> QED
  BY <1>3, <1>4 DEF LostRecv

(* The exclusive or of bytes is a number. *)
LEMMA XorType ==
  ASSUME NEW a \in 0..255, NEW b \in 0..255
  PROVE  Ws!Xor(a, b) \in Nat
<1>1. \A i, j \in 0..15, k \in {1, 2, 4, 8} : Ws!Differ(i, j, k) \in Nat
  BY DEF Ws!Differ
<1>2. \A i, j \in 0..15 : Ws!XorTable[i][j] \in Nat
  BY <1>1 DEF Ws!XorTable
<1>3. a \div 16 \in 0..15 /\ a % 16 \in 0..15
  OBVIOUS
<1>4. b \div 16 \in 0..15 /\ b % 16 \in 0..15
  OBVIOUS
<1>5. \A i, j, k, l \in 0..15 : 16 * Ws!XorTable[i][j] + Ws!XorTable[k][l] \in Nat
  BY <1>2, SMTT(30)
<1> DEFINE ad == a \div 16  am == a % 16  bd == b \div 16  bm == b % 16
<1>6. Ws!Xor(a, b) = 16 * Ws!XorTable[ad][bd] + Ws!XorTable[am][bm]
  BY DEF Ws!Xor
<1> HIDE DEF ad, am, bd, bm
<1>7. ad \in 0..15 /\ am \in 0..15 /\ bd \in 0..15 /\ bm \in 0..15
  BY <1>3, <1>4 DEF ad, am, bd, bm
<1> QED
  BY <1>5, <1>6, <1>7, ZenonT(60)

(* The bytes of a frame are numbers. *)
LEMMA EncodedIsBytes ==
  ASSUME NEW f \in Frames
  PROVE  Encoded[f] \in Seq(Nat)
<1>1. f \in [fin : BOOLEAN, opcode : 0..15, payload : Seq(0..255), masked : BOOLEAN,
             form : {7, 16, 64}]
  BY FramesOfBytes
<1> DEFINE Byte == 0..255
           s == f.payload
<1>2. s \in Seq(Byte)
  BY <1>1
<1>3. Len(s) \in Nat /\ \A i \in 1..Len(s) : s[i] \in Byte
  <2> HIDE DEF Byte, s
  <2> QED
    BY <1>2
<1>4. s \in Seq(Nat)
  <2>1. Byte \subseteq Nat
    OBVIOUS
  <2> HIDE DEF Byte, s
  <2>2. \A i \in 1..Len(s) : s[i] \in Nat
    BY <1>3, <2>1
  <2>3. s = [i \in 1..Len(s) |-> s[i]]
    BY <1>2
  <2> QED
    BY <1>3, <2>2, <2>3
<1>0. Mask \in [1..MaskSize -> Byte] /\ MaskSize \in Nat \ {0}
  BY FramesOfBytes, Sizes
<1> DEFINE n == Len(s)
           head == <<(IF f.fin THEN 128 ELSE 0) + f.opcode>>
           form == CASE f.form = 7 -> <<n>>
                     [] f.form = 16 -> <<126, n \div 256, n % 256>>
                     [] f.form = 64 -> <<127, 0, 0, 0, 0, 0, 0, n \div 256, n % 256>>
           masked == [form EXCEPT ![1] = @ + 128]
           key == [i \in 1..MaskSize |-> Mask[i]]
           body == [i \in 1..n |-> Ws!Xor(s[i], Mask[((i - 1) % MaskSize) + 1])]
<1> HIDE DEF s
<1>5. Encoded[f] = head \o (IF f.masked THEN masked \o key \o body ELSE form \o s)
  BY Zenon DEF Encoded, Ws!Bytes, s
<1>6. head \in Seq(Nat)
  <2>1. (IF f.fin THEN 128 ELSE 0) + f.opcode \in Nat
    <3>1. f.opcode \in Nat
      BY <1>1
    <3> QED
      BY <3>1
  <2> QED
    BY <2>1
<1>7. form \in Seq(Nat) /\ Len(form) >= 1
  <2>0. n \in Nat
    BY <1>3
  <2> HIDE DEF n
  <2>1. n \div 256 \in Nat /\ n % 256 \in Nat
    BY ONLY <2>0
  <2>2. CASE f.form = 7
    BY <2>0, <2>2
  <2>3. CASE f.form = 16
    BY <2>1, <2>3
  <2>4. CASE f.form = 64
    BY <2>1, <2>4
  <2> QED
    BY <1>1, <2>2, <2>3, <2>4
<1>8. masked \in Seq(Nat)
  <2> HIDE DEF form
  <2>1. form[1] + 128 \in Nat
    BY <1>7
  <2> QED
    BY <1>7, <2>1, ExceptSeq
<1>9. key \in Seq(Nat)
  <2> HIDE DEF form, masked, body
  <2>1. \A i \in 1..MaskSize : Mask[i] \in Nat
    <3>1. Byte \subseteq Nat
      OBVIOUS
    <3> HIDE DEF Byte, key
    <3> QED
      BY <1>0, <3>1
  <2> QED
    BY <1>0, <2>1
<1>10. body \in Seq(Nat)
  <2> HIDE DEF form, masked, key
  <2>2. \A i \in 1..n : ((i - 1) % MaskSize) + 1 \in 1..MaskSize
    BY <1>0, <1>3
  <2>3. \A i \in 1..n : Mask[((i - 1) % MaskSize) + 1] \in 0..255
    BY <1>0, <2>2
  <2>4. \A i \in 1..n : Ws!Xor(s[i], Mask[((i - 1) % MaskSize) + 1]) \in Nat
    BY <1>3, <2>3, XorType
  <2> QED
    BY <1>3, <2>4
<1> HIDE DEF head, form, masked, key, body
<1> QED
  BY <1>4, <1>5, <1>6, <1>7, <1>8, <1>9, <1>10

(* The characters of a request, also of none. *)
LEMMA TextIsText ==
  ASSUME NEW r \in Requests \cup {Forgotten}
  PROVE  Text(r) \in Seq(STRING) /\ (r = Forgotten => Len(Text(r)) = 0)
<1>1. CASE r = Forgotten
  <2>1. r.method = <<>>
    BY <1>1 DEF Forgotten
  <2>2. Text(r) = <<>>
    BY <2>1, Zenon DEF Text
  <2> QED
    BY <2>2
<1>2. CASE r # Forgotten
  BY <1>2, RequestsEnd
<1> QED
  BY <1>1, <1>2

-----------------------------------------------------------------------------
(* The connection *)

(* The parser behind each character of a request that comes in one buffer. *)
Parsed(r) == Http!Rounds(Http!Reset, Text(r))

(* ParserExecute on the whole request is the last of them. *)
LEMMA WholeRequest ==
  ASSUME NEW r \in Requests \cup {Forgotten}
  PROVE  Http!ParserExecute(Http!Reset, Text(r)) = Parsed(r)[Len(Text(r))]
<1>1. Http!Reset.state # "Done"
  BY DEF Http!Reset
<1> QED
  BY <1>1, Zenon DEF Http!ParserExecute, Parsed

(* A parser that goes on with the next buffer is where one buffer would     *)
(* have led it; what it reports there is what it reports of the whole.      *)
LEMMA NextBuffer ==
  ASSUME NEW r \in Requests \cup {Forgotten}, NEW t, t = Text(r),
         NEW n \in 0..Len(t), NEW k \in 1..(Len(t) - n),
         NEW p, p = Parsed(r)[n], ~p.returned,
         NEW q, q = Http!ParserExecute(p, SubSeq(t, n + 1, n + k))
  PROVE  /\ q = Parsed(r)[n + k]
         /\ q.state = "Done" => n + k = Len(t)
         /\ q.state # "Done" /\ q.error # "none" /\ ~WrongVersion(t) =>
              Parsed(r)[Len(t)].state # "Done" /\ Parsed(r)[Len(t)].error # "none"
         /\ q.state # "Done" /\ q.error = "none" => ~q.returned
<1> DEFINE b == SubSeq(t, n + 1, n + k)
           h == Http!Rounds(Http!Reset, t)
<1>1. t \in Seq(STRING) /\ Len(t) \in Nat
  BY TextIsText
<1>2. r \in Requests
  BY TextIsText
<1>3. p = h[n]
  BY Zenon DEF Parsed
<1>4. n + k \in 0..Len(t) /\ n + k >= 1
  BY <1>1
<1>5. Len(b) = k
  BY <1>1
<1>6. IsParser(p) /\ p.returned = FALSE /\ p.state \in LoopStates
  BY <1>1, <1>3, AlwaysSound DEF Sound
<1>7. p = [p EXCEPT !.returned = FALSE] /\ p.state # "Done"
  BY <1>6 DEF IsParser, LoopStates, UriStates, Parts
<1>8. q = h[n + k]
  <2>1. q = Http!Rounds(p, b)[Len(b)]
    BY <1>7, Zenon DEF Http!ParserExecute
  <2>2. Http!Rounds(p, b)[k] = h[n + k]
    <3>1. k \in 0..(Len(t) - n)
      BY <1>1
    <3> HIDE DEF b, h
    <3> QED
      BY <1>1, <1>3, <1>7, <3>1, RoundsGoOn DEF b, h
  <2> HIDE DEF b, h
  <2> QED
    BY <1>5, <2>1, <2>2
<1>9. IsParser(q) /\ q.returned \in BOOLEAN
      /\ (q.returned => q.state = "Done" \/ q.error # "none")
      /\ (~q.returned => (q.error # "none" => WrongVersion(t)))
  BY <1>1, <1>4, <1>8, AlwaysSound DEF Sound
<1>10. q.state = "Done" => n + k = Len(t)
  <2> SUFFICES ASSUME q.state = "Done", n + k # Len(t) PROVE FALSE
    OBVIOUS
  <2>1. n + k \in 1..Len(Text(r)) - 1
    BY <1>1, <1>4
  <2>2. ~Http!IsDone(Http!ParserExecute(Http!Reset, SubSeq(Text(r), 1, n + k)))
    BY <1>2, <2>1, RequestsEnd
  <2> DEFINE a == SubSeq(t, 1, n + k)
  <2>3. Len(a) = n + k
    BY <1>1, <1>4
  <2>4. Http!ParserExecute(Http!Reset, a) = Http!Rounds(Http!Reset, a)[Len(a)]
    <3>1. Http!Reset.state # "Done"
      BY DEF Http!Reset
    <3> QED
      BY <3>1, Zenon DEF Http!ParserExecute
  <2>5. Http!Rounds(Http!Reset, a)[n + k] = h[n + k]
    BY <1>1, <1>4, RoundsOfPrefix
  <2> HIDE DEF a, h
  <2>6. Http!ParserExecute(Http!Reset, a) = q
    BY <1>8, <2>3, <2>4, <2>5
  <2> QED
    BY <2>2, <2>6, Zenon DEF Http!IsDone, a
<1>11. q.returned => h[Len(t)] = q
  <2>1. Len(t) \in (n + k)..Len(t)
    BY <1>1, <1>4
  <2> HIDE DEF h
  <2> QED
    BY <1>1, <1>4, <1>8, <2>1, RoundsStop DEF h
<1>12. q = Parsed(r)[n + k] /\ Parsed(r)[Len(t)] = h[Len(t)]
  BY <1>8, Zenon DEF Parsed
<1> HIDE DEF h
<1> QED
  BY <1>9, <1>10, <1>11, <1>12

(* A piece of the rest of a text, and the rest behind it. *)
LEMMA PieceOfRest ==
  ASSUME NEW S, NEW t \in Seq(S), NEW n \in 0..Len(t), NEW w, w = SubSeq(t, n + 1, Len(t))
  PROVE  /\ w \in Seq(S) /\ Len(w) = Len(t) - n
         /\ \A k \in 1..Len(w) : /\ SubSeq(w, 1, k) = SubSeq(t, n + 1, n + k)
                                 /\ SubSeq(w, k + 1, Len(w)) = SubSeq(t, n + k + 1, Len(t))
<1>1. /\ w \in Seq(S) /\ Len(w) = Len(t) - n
      /\ \A i \in 1..(Len(t) - n) : w[i] = t[n + i]
  OBVIOUS
<1> SUFFICES ASSUME NEW k \in 1..Len(w)
             PROVE  /\ SubSeq(w, 1, k) = SubSeq(t, n + 1, n + k)
                    /\ SubSeq(w, k + 1, Len(w)) = SubSeq(t, n + k + 1, Len(t))
  BY <1>1
<1> DEFINE a == SubSeq(w, 1, k)
           b == SubSeq(t, n + 1, n + k)
           c == SubSeq(w, k + 1, Len(w))
           d == SubSeq(t, n + k + 1, Len(t))
<1>2. /\ a \in Seq(S) /\ Len(a) = k
      /\ \A i \in 1..k : a[i] = w[i]
  BY <1>1
<1>3. /\ b \in Seq(S) /\ Len(b) = k
      /\ \A i \in 1..k : b[i] = t[n + i]
  BY <1>1
<1>4. /\ c \in Seq(S) /\ Len(c) = Len(w) - k
      /\ \A i \in 1..(Len(w) - k) : c[i] = w[k + i]
  BY <1>1
<1>5. /\ d \in Seq(S) /\ Len(d) = Len(w) - k
      /\ \A i \in 1..(Len(w) - k) : d[i] = t[n + k + i]
  BY <1>1
<1> HIDE DEF a, b, c, d
<1>6. a = b
  <2>1. \A i \in 1..k : a[i] = b[i]
    BY <1>1, <1>2, <1>3, SMTT(30)
  <2> QED
    BY <1>2, <1>3, <2>1
<1>7. c = d
  <2>1. \A i \in 1..(Len(w) - k) : k + i \in 1..(Len(t) - n) /\ n + (k + i) = n + k + i
    BY <1>1
  <2>2. ASSUME NEW i \in 1..(Len(w) - k) PROVE c[i] = d[i]
    <3>1. w[k + i] = t[n + (k + i)]
      BY <1>1, <2>1
    <3>2. t[n + (k + i)] = t[n + k + i]
      BY <2>1
    <3>3. c[i] = w[k + i] /\ d[i] = t[n + k + i]
      BY <1>4, <1>5
    <3> QED
      BY <3>1, <3>2, <3>3
  <2>3. Len(w) - k \in Nat
    BY <1>1
  <2>4. Len(c) = Len(d) /\ \A i \in 1..Len(c) : c[i] = d[i]
    BY <1>4, <1>5, <2>2
  <2> QED
    BY <1>4, <1>5, <2>4, SeqEqual
<1> QED
  BY <1>6, <1>7 DEF a, b, c, d

(* The records are what they should be. *)
Timed == handler.timer # 0 => conn.idle = 0 \/ conn.idle > handler.timer
ConnTyped(c) == /\ c = [f \in {"stage", "idle", "closed"} |-> c[f]]
                /\ c.stage \in {"http", "websocket"} /\ c.idle \in 0..IdleTicks
                /\ c.closed \in Whys
Typed == /\ request \in Requests \cup {Forgotten}
         /\ frames \in Seq(Frames) /\ Len(frames) <= MaxFrames
         /\ ConnTyped(conn) /\ SocketOK /\ Timed

(* Until it is answered, what has been received of a request has been       *)
(* parsed, and the parser is where it would be had it come in one buffer.   *)
Parsing ==
  Open /\ conn.stage = "http" =>
    \E n \in 0..Len(Text(request)) :
      /\ wire = SubSeq(Text(request), n + 1, Len(Text(request)))
      /\ http = Parsed(request)[n]
      /\ ~http.returned /\ http.error = "none"

(* Once it is upgraded there are only bytes of frames under way. *)
Upgraded ==
  conn.stage = "websocket" => wire \in Seq(Nat) /\ (request # Forgotten => Len(wire) = 0)

(* The answer is that to the whole request. *)
Answered ==
  LET p == Parsed(request)[Len(Text(request))]
  IN request # Forgotten =>
       /\ conn.stage = "websocket" => /\ p.state = "Done" /\ Routed(p)
                                      /\ conn.closed \notin {"not_found", "bad_request"}
       /\ conn.closed = "not_found" => p.state = "Done" /\ ~Routed(p)
       /\ conn.closed = "bad_request" /\ ~WrongVersion(Text(request)) =>
            p.state # "Done" /\ p.error # "none"

(* The invariant. *)
ParsedOnce == Typed /\ Parsing /\ Upgraded /\ Answered

(* Nothing has been received of a new connection. *)
LEMMA InitParsedOnce == Init => ParsedOnce
<1> SUFFICES ASSUME Init PROVE ParsedOnce
  OBVIOUS
<1>0. request \in Requests /\ wire = Text(request) /\ http = Http!Reset /\ ws = Ws!Fresh
      /\ frames = <<>>
  BY DEF Init
<1>1. Typed
  <2>1. /\ conn = [stage |-> "http", closed |-> "no", idle |-> IdleTicks]
        /\ handler = [state |-> "Normal", cache |-> <<>>, wait_pong |-> FALSE, timer |-> 0]
    BY DEF Init
  <2>2. ConnTyped(conn)
    BY <2>1, Timeouts DEF ConnTyped, Whys
  <2>3. IsHandler(handler) /\ handler.timer = 0 /\ handler.state = "Normal" /\ handler.cache = <<>>
    BY <2>1 DEF IsHandler, HandlerParts
  <2>4. IsSeq(handler.cache) /\ Len(handler.cache) = 0
    BY <2>3, EmptyIsSeq
  <2>5. HandlerOK(handler)
    BY <2>3, <2>4, Sizes, Timeouts DEF HandlerOK
  <2>6. SocketOK
    BY <1>0, <2>5, WsFresh DEF SocketOK, WsOK
  <2>7. frames \in Seq(Frames) /\ Len(frames) <= MaxFrames
    BY <1>0, Sizes
  <2> QED
    BY <1>0, <2>2, <2>3, <2>6, <2>7 DEF Typed, Timed
<1>2. conn.stage = "http" /\ conn.closed = "no"
  BY DEF Init
<1>3. Parsing
  <2> DEFINE t == Text(request)
  <2>1. t \in Seq(STRING)
    BY <1>0, TextIsText
  <2>2. Parsed(request)[0] = [Http!Reset EXCEPT !.returned = FALSE]
    BY <2>1, RoundsAre DEF Parsed
  <2>3. [Http!Reset EXCEPT !.returned = FALSE] = Http!Reset
        /\ ~Http!Reset.returned /\ Http!Reset.error = "none"
    <3> DEFINE p == Http!Reset
    <3>1. IsParser(p) /\ p.returned = FALSE /\ p.error = "none"
      BY DEF Http!Reset, IsParser, Parts
    <3> HIDE DEF p
    <3>2. [p EXCEPT !.returned = FALSE] = p
      BY <3>1 DEF IsParser, Parts
    <3> QED
      BY <3>1, <3>2 DEF p
  <2>4. SubSeq(t, 0 + 1, Len(t)) = t /\ 0 \in 0..Len(t)
    <3> HIDE DEF t
    <3> QED
      BY <2>1
  <2>5. /\ wire = SubSeq(t, 0 + 1, Len(t)) /\ http = Parsed(request)[0]
        /\ ~http.returned /\ http.error = "none"
    BY <1>0, <2>2, <2>3, <2>4
  <2> QED
    BY <2>4, <2>5 DEF Parsing
<1>4. Upgraded /\ Answered
  BY <1>2 DEF Upgraded, Answered
<1> QED
  BY <1>1, <1>3, <1>4 DEF ParsedOnce

(* A frame is sent: from then on the request is forgotten. *)
LEMMA SendParsedOnce ==
  ASSUME ParsedOnce, NEW f \in Frames, Send(f)
  PROVE  ParsedOnce'
<1>1. /\ Len(frames) < MaxFrames /\ request' = Forgotten /\ frames' = Append(frames, f)
      /\ wire' = wire \o Encoded[f] /\ conn.stage = "websocket"
      /\ UNCHANGED <<conn, http, ws, handler>>
  BY DEF Send
<1>2. Typed'
  <2>1. frames \in Seq(Frames) /\ MaxFrames \in Nat
    BY Sizes DEF ParsedOnce, Typed
  <2>2. frames' \in Seq(Frames) /\ Len(frames') <= MaxFrames
    BY <1>1, <2>1
  <2>3. SocketOK' /\ Timed'
    BY <1>1 DEF ParsedOnce, Typed, SocketOK, Timed
  <2> QED
    BY <1>1, <2>2, <2>3 DEF ParsedOnce, Typed
<1>3. Upgraded'
  <2>1. wire \in Seq(Nat) /\ Encoded[f] \in Seq(Nat)
    BY <1>1, EncodedIsBytes DEF ParsedOnce, Upgraded
  <2>2. wire' \in Seq(Nat)
    BY <1>1, <2>1
  <2> QED
    BY <1>1, <2>2 DEF Upgraded
<1>4. Parsing' /\ Answered'
  BY <1>1 DEF Parsing, Answered
<1> QED
  BY <1>2, <1>3, <1>4 DEF ParsedOnce

(* A buffer for the parser of requests. *)
LEMMA HttpRecvParsedOnce ==
  ASSUME ParsedOnce, Open, conn.stage = "http", NEW k \in 1..Len(wire), NEW room,
         HttpRecv(SubSeq(wire, 1, k), room), wire' = SubSeq(wire, k + 1, Len(wire)),
         UNCHANGED client
  PROVE  ParsedOnce'
<1> DEFINE t == Text(request)
           m == Len(t)
           h == Parsed(request)
<1>1. request \in Requests \cup {Forgotten} /\ ConnTyped(conn) /\ SocketOK
      /\ frames \in Seq(Frames) /\ Len(frames) <= MaxFrames
  BY DEF ParsedOnce, Typed
<1>2. t \in Seq(STRING) /\ m \in Nat
  BY <1>1, TextIsText
<1>3. PICK n \in 0..m : /\ wire = SubSeq(t, n + 1, m) /\ http = h[n]
                        /\ ~http.returned /\ http.error = "none"
  BY DEF ParsedOnce, Parsing
<1>4. request' = request /\ frames' = frames
  BY DEF client
<1> DEFINE q == Http!ParserExecute(http, SubSeq(wire, 1, k))
           upgraded == [conn EXCEPT !.stage = "websocket"]
           answered == IF Http!IsDone(q)
                       THEN IF ~Routed(q) THEN [conn EXCEPT !.closed = "not_found"]
                            ELSE IF room = 0 THEN [upgraded EXCEPT !.closed = "no_buffer"] ELSE upgraded
                       ELSE IF q.error # "none" THEN [conn EXCEPT !.closed = "bad_request"] ELSE conn
<1>5. /\ conn' = [answered EXCEPT !.idle = IdleTicks]
      /\ http' = IF answered.stage = "websocket" THEN Http!Reset ELSE q
      /\ UNCHANGED <<ws, handler>>
  BY Zenon DEF HttpRecv
<1>6. /\ k \in 1..(m - n) /\ n + k \in 0..m
      /\ q = Http!ParserExecute(http, SubSeq(t, n + 1, n + k))
      /\ wire' = SubSeq(t, (n + k) + 1, m)
  <2>1. Len(wire) = m - n
    BY <1>2, <1>3, PieceOfRest
  <2>2. SubSeq(wire, 1, k) = SubSeq(t, n + 1, n + k)
    BY <1>2, <1>3, PieceOfRest
  <2>3. wire' = SubSeq(t, n + k + 1, m)
    BY <1>2, <1>3, PieceOfRest
  <2> HIDE DEF t, m, answered
  <2>4. k \in 1..(m - n) /\ n + k \in 0..m
    BY <1>2, <2>1
  <2> QED
    BY <2>2, <2>3, <2>4
<1> DEFINE p == h[m]
<1>7. /\ q = h[n + k]
      /\ q.state = "Done" => n + k = m
      /\ q.state # "Done" /\ q.error # "none" /\ ~WrongVersion(t) => p.state # "Done" /\ p.error # "none"
      /\ q.state # "Done" /\ q.error = "none" => ~q.returned
  BY <1>1, <1>3, <1>6, NextBuffer, ZenonT(60)
<1>8. Http!IsDone(q) <=> q.state = "Done"
  BY Zenon DEF Http!IsDone
<1> HIDE DEF q
<1>9. /\ ConnTyped(conn') /\ conn'.idle = IdleTicks
      /\ conn'.stage = answered.stage /\ conn'.closed = answered.closed
  <2>1. conn.closed = "no" /\ IdleTicks \in 0..IdleTicks
    BY Timeouts DEF Open
  <2>2. ConnTyped(answered)
    BY <1>1, <2>1 DEF ConnTyped, Whys
  <2> HIDE DEF answered
  <2> QED
    BY <1>5, <2>1, <2>2 DEF ConnTyped
<1>10. Typed'
  <2>1. SocketOK' /\ Timed'
    BY <1>1, <1>5, <1>9, Timeouts DEF SocketOK, Timed, HandlerOK
  <2> QED
    BY <1>1, <1>4, <1>9, <2>1 DEF Typed
<1>11. Text(request') = t /\ Parsed(request') = h
  BY <1>4
<1>12. CASE q.state = "Done"
  <2>1. q = p /\ n + k = m
    BY <1>7, <1>12
  <2>2. Len(wire') = 0 /\ wire' \in Seq(Nat)
    <3> HIDE DEF t
    <3> DEFINE s == wire'
    <3>1. s = <<>>
      BY <1>2, <1>6, <2>1
    <3> HIDE DEF s
    <3>2. Len(s) = 0 /\ s \in Seq(Nat)
      BY <3>1
    <3> QED
      BY <3>2 DEF s
  <2>3. CASE Routed(p)
    <3>1. conn'.stage = "websocket" /\ conn'.closed \in {"no", "no_buffer"}
      <4> HIDE DEF p
      <4>1. answered = IF room = 0 THEN [upgraded EXCEPT !.closed = "no_buffer"] ELSE upgraded
        BY <1>8, <1>12, <2>1, <2>3, Zenon
      <4>2. conn.closed = "no"
        BY DEF Open
      <4> HIDE DEF answered
      <4>3. answered.stage = "websocket" /\ answered.closed \in {"no", "no_buffer"}
        BY <1>1, <4>1, <4>2 DEF ConnTyped
      <4> QED
        BY <1>9, <4>3
    <3> HIDE DEF answered, p, h, t
    <3>2. Answered'
      BY <1>11, <1>12, <2>1, <2>3, <3>1 DEF Answered, p, m
    <3> QED
      BY <1>10, <2>2, <3>1, <3>2 DEF ParsedOnce, Parsing, Upgraded
  <2>4. CASE ~Routed(p)
    <3>1. conn'.stage = "http" /\ conn'.closed = "not_found"
      <4> HIDE DEF p
      <4>1. answered = [conn EXCEPT !.closed = "not_found"]
        BY <1>8, <1>12, <2>1, <2>4, Zenon
      <4> HIDE DEF answered
      <4>2. answered.stage = "http" /\ answered.closed = "not_found"
        BY <1>1, <4>1 DEF ConnTyped
      <4> QED
        BY <1>9, <4>2
    <3> HIDE DEF answered, p, h, t
    <3>2. Answered'
      BY <1>11, <1>12, <2>1, <2>4, <3>1 DEF Answered, p, m
    <3> QED
      BY <1>10, <3>1, <3>2 DEF ParsedOnce, Parsing, Upgraded, Open
  <2> QED
    BY <2>3, <2>4
<1>13. CASE q.state # "Done" /\ q.error # "none"
  <2>1. answered = [conn EXCEPT !.closed = "bad_request"]
    BY <1>8, <1>13, Zenon
  <2> HIDE DEF answered, p, h, t
  <2>2. conn'.stage = "http" /\ conn'.closed = "bad_request"
    BY <1>1, <1>9, <2>1 DEF ConnTyped
  <2>3. Answered'
    BY <1>7, <1>11, <1>13, <2>2 DEF Answered, p, m
  <2> QED
    BY <1>10, <2>2, <2>3 DEF ParsedOnce, Parsing, Upgraded, Open
<1>14. CASE q.state # "Done" /\ q.error = "none"
  <2>1. answered = conn
    BY <1>8, <1>14, Zenon
  <2> HIDE DEF answered, p, h, t
  <2>2. conn'.stage = "http" /\ conn'.closed = "no"
    BY <1>9, <2>1 DEF Open
  <2>3. http' = q
    BY <1>5, <2>1
  <2>4. Parsing'
    BY <1>6, <1>7, <1>11, <1>14, <2>3 DEF Parsing, m
  <2> QED
    BY <1>10, <2>2, <2>4 DEF ParsedOnce, Upgraded, Answered
<1> QED
  BY <1>12, <1>13, <1>14

(* A buffer for the parser of frames: only frames are under way. *)
LEMMA WsStepParsedOnce ==
  ASSUME ParsedOnce, conn.stage = "websocket", NEW k \in 1..Len(wire), NEW room,
         \/ ws.state # "Lost" /\ \E fragments \in 1..MaxFragments :
              WsRecv(SubSeq(wire, 1, k), room, fragments)
         \/ LostRecv(room),
         wire' = SubSeq(wire, k + 1, Len(wire)), UNCHANGED client
  PROVE  ParsedOnce'
<1>1. wire \in Seq(Nat) /\ request = Forgotten
  BY DEF ParsedOnce, Upgraded
<1>2. wire' \in Seq(Nat) /\ SubSeq(wire, 1, k) \in Seq(Nat)
  BY <1>1
<1>3. SocketOK /\ ConnOK(conn) /\ frames \in Seq(Frames) /\ Len(frames) <= MaxFrames
  BY DEF ParsedOnce, Typed, ConnTyped, ConnOK
<1>4. SocketOK' /\ ConnOK(conn') /\ conn'.idle = IdleTicks
  <2>1. CASE LostRecv(room)
    BY <1>3, <2>1, LostRecvKept
  <2>2. ASSUME NEW fragments \in 1..MaxFragments, ws.state # "Lost",
               WsRecv(SubSeq(wire, 1, k), room, fragments)
        PROVE  SocketOK' /\ ConnOK(conn') /\ conn'.idle = IdleTicks
    BY <1>2, <1>3, <2>2, WsRecvKept
  <2> QED
    BY <2>1, <2>2
<1>5. request' = Forgotten /\ frames' = frames
  BY <1>1 DEF client
<1>6. Timed'
  BY <1>4, Timeouts DEF SocketOK, HandlerOK, Timed
<1>7. Typed'
  BY <1>3, <1>4, <1>5, <1>6 DEF Typed, ConnOK, ConnTyped
<1> QED
  BY <1>2, <1>4, <1>5, <1>7 DEF ParsedOnce, Parsing, Upgraded, Answered, ConnOK

(* A tick of the wheel. *)
LEMMA TickParsedOnce ==
  ASSUME ParsedOnce, Tick
  PROVE  ParsedOnce'
<1>1. conn.closed = "no" /\ ConnTyped(conn) /\ SocketOK /\ Timed
  BY DEF Tick, Open, ParsedOnce, Typed
<1>2. request' = request /\ frames' = frames /\ wire' = wire /\ http' = http /\ ws' = ws
  BY DEF Tick, client
<1>3. HandlerOK(handler) /\ handler.timer \in Nat /\ conn.idle \in 0..IdleTicks
  BY <1>1 DEF SocketOK, HandlerOK, ConnTyped
<1>4. /\ ConnTyped(conn') /\ HandlerOK(handler') /\ Timed'
      /\ conn'.stage = conn.stage /\ conn'.closed \in {"no", "idle", "pong"}
  <2>1. CASE /\ conn' = [conn EXCEPT !.idle = 0, !.closed = "idle"]
             /\ UNCHANGED handler
    <3>1. /\ conn'.stage = conn.stage /\ conn'.idle = 0 /\ conn'.closed = "idle"
          /\ conn' = [f \in {"stage", "idle", "closed"} |-> conn'[f]]
      BY <1>1, <2>1 DEF ConnTyped
    <3> QED
      BY <1>1, <1>3, <2>1, <3>1, Timeouts DEF ConnTyped, Whys, Timed
  <2>2. CASE /\ handler' = [handler EXCEPT !.wait_pong = TRUE, !.timer = PongTicks]
             /\ conn' = [conn EXCEPT !.idle = 0]
    <3>1. /\ conn'.stage = conn.stage /\ conn'.idle = 0 /\ conn'.closed = conn.closed
          /\ conn' = [f \in {"stage", "idle", "closed"} |-> conn'[f]]
      BY <1>1, <2>2 DEF ConnTyped
    <3>2. /\ IsHandler(handler') /\ handler'.timer = PongTicks /\ handler'.wait_pong
          /\ handler'.state = handler.state /\ handler'.cache = handler.cache
      BY <1>3, <2>2 DEF HandlerOK, IsHandler, HandlerParts
    <3>3. HandlerOK(handler')
      BY <1>3, <3>2, Timeouts DEF HandlerOK
    <3> QED
      BY <1>1, <3>1, <3>3, Timeouts DEF ConnTyped, Timed
  <2>3. CASE /\ ~Expires(conn.idle)
             /\ conn' = [conn EXCEPT !.idle = IF @ = 0 THEN 0 ELSE @ - 1,
                                     !.closed = IF Expires(handler.timer) /\ handler.wait_pong
                                                THEN "pong" ELSE @]
             /\ handler' = [handler EXCEPT !.timer = IF @ = 0 THEN 0 ELSE @ - 1]
    <3>1. /\ conn'.stage = conn.stage /\ conn'.closed \in {"no", "pong"}
          /\ conn'.idle = IF conn.idle = 0 THEN 0 ELSE conn.idle - 1
          /\ conn' = [f \in {"stage", "idle", "closed"} |-> conn'[f]]
      BY <1>1, <2>3 DEF ConnTyped
    <3>2. /\ IsHandler(handler') /\ handler'.wait_pong = handler.wait_pong
          /\ handler'.timer = IF handler.timer = 0 THEN 0 ELSE handler.timer - 1
          /\ handler'.state = handler.state /\ handler'.cache = handler.cache
      BY <1>3, <2>3 DEF HandlerOK, IsHandler, HandlerParts
    <3>3. HandlerOK(handler')
      BY <1>3, <3>2, Timeouts DEF HandlerOK
    <3>4. conn'.idle \in 0..IdleTicks
      BY <1>3, <3>1, Timeouts
    <3>5. ConnTyped(conn')
      BY <1>1, <3>1, <3>4 DEF ConnTyped, Whys
    <3>6. Timed'
      BY <1>1, <1>3, <3>1, <3>2 DEF Timed
    <3> QED
      BY <3>1, <3>3, <3>5, <3>6
  <2> QED
    BY <2>1, <2>2, <2>3 DEF Tick, Ping
<1>5. Typed'
  BY <1>1, <1>2, <1>4 DEF ParsedOnce, Typed, SocketOK
<1>6. Parsing'
  <2>1. conn.stage = "http" => Parsing' \/ conn'.closed # "no"
    BY <1>1, <1>2 DEF ParsedOnce, Parsing, Open
  <2> QED
    BY <1>4, <2>1 DEF Parsing, Open
<1>7. Upgraded' /\ Answered'
  BY <1>2, <1>4 DEF ParsedOnce, Upgraded, Answered
<1> QED
  BY <1>5, <1>6, <1>7 DEF ParsedOnce

(* Every step of the connection. *)
LEMMA NextParsedOnce == ParsedOnce /\ [Next]_vars => ParsedOnce'
<1> SUFFICES ASSUME ParsedOnce, [Next]_vars PROVE ParsedOnce'
  OBVIOUS
<1>1. ASSUME NEW f \in Frames, Send(f) PROVE ParsedOnce'
  BY <1>1, SendParsedOnce
<1>2. ASSUME NEW k \in 1..Len(wire), Recv(k) PROVE ParsedOnce'
  <2>1. Open /\ wire' = SubSeq(wire, k + 1, Len(wire)) /\ UNCHANGED client
    BY <1>2 DEF Recv
  <2>2. PICK room \in Room :
           \/ conn.stage = "http" /\ HttpRecv(SubSeq(wire, 1, k), room)
           \/ /\ conn.stage = "websocket" /\ ws.state # "Lost"
              /\ \E fragments \in 1..MaxFragments : WsRecv(SubSeq(wire, 1, k), room, fragments)
           \/ conn.stage = "websocket" /\ ws.state = "Lost" /\ LostRecv(room)
    BY <1>2 DEF Recv
  <2>3. CASE conn.stage = "http" /\ HttpRecv(SubSeq(wire, 1, k), room)
    BY <2>1, <2>3, HttpRecvParsedOnce
  <2>4. CASE conn.stage = "websocket" /\ \/ ws.state # "Lost" /\ \E fragments \in 1..MaxFragments :
                                              WsRecv(SubSeq(wire, 1, k), room, fragments)
                                         \/ LostRecv(room)
    BY <2>1, <2>4, WsStepParsedOnce
  <2> QED
    BY <2>2, <2>3, <2>4
<1>3. CASE Tick
  BY <1>3, TickParsedOnce
<1>4. CASE UNCHANGED vars
  BY <1>4 DEF vars, ParsedOnce, Typed, ConnTyped, SocketOK, Timed, Parsing, Upgraded, Answered, Open
<1> QED
  BY <1>1, <1>2, <1>3, <1>4 DEF Next

(* What is received of a request is parsed as if it came in one buffer.     *)
LEMMA AlwaysParsedOnce == Spec => []ParsedOnce
BY InitParsedOnce, NextParsedOnce, PTL DEF Spec

(* The records are what they should be: no message in the making and no     *)
(* payload is longer than a message may be, and while both timers run the   *)
(* wait for a pong ends first (WebSocketHandler, WebSocketParser).          *)
THEOREM Types == Spec => []TypeOK
<1>1. ParsedOnce => TypeOK
  <2> SUFFICES ASSUME ParsedOnce PROVE TypeOK
    OBVIOUS
  <2>1. /\ request \in Requests \cup {Forgotten} /\ frames \in Seq(Frames) /\ Len(frames) <= MaxFrames
        /\ ConnTyped(conn) /\ HandlerOK(handler) /\ Collected(ws) /\ ws.state # "Done" /\ Timed
    BY DEF ParsedOnce, Typed, SocketOK
  <2>2. ToSet(frames) \subseteq Frames
    BY <2>1 DEF ToSet
  <2>3. conn \in [stage : {"http", "websocket"}, idle : 0..IdleTicks,
                  closed : {"no", "bad_request", "not_found", "idle", "no_buffer", "peer", "pong"}]
    BY <2>1 DEF ConnTyped, Whys
  <2>4. Len(ws.data) < MaxPayloadLength
    <3>1. Len(ws.data) \in Nat
      BY <2>1, SeqGrows, EmptyIsSeq DEF Collected
    <3> QED
      BY <2>1, <3>1, Sizes DEF Collected
  <2> QED
    BY <2>1, <2>2, <2>3, <2>4 DEF TypeOK, HandlerOK, Timed
<1> QED
  BY <1>1, AlwaysParsedOnce, PTL

(* What a request is answered is what it is answered when it comes in one   *)
(* buffer (HttpParser::ParserExecute, HttpHandler::RecvDataHandle).         *)
THEOREM Splits == Spec => []SplitsDontMatter
<1>1. ParsedOnce => SplitsDontMatter
  <2> SUFFICES ASSUME ParsedOnce, request # Forgotten, ~WrongVersion(Text(request))
               PROVE  LET p == Http!ParserExecute(Http!Reset, Text(request))
                      IN /\ conn.stage = "websocket" => Http!IsDone(p) /\ Routed(p)
                         /\ conn.closed = "not_found" => Http!IsDone(p) /\ ~Routed(p)
                         /\ conn.closed = "bad_request" => ~Http!IsDone(p) /\ p.error # "none"
                         /\ Open /\ conn.stage = "http" /\ wire = <<>> =>
                              ~Http!IsDone(p) /\ p.error = "none"
    BY Zenon DEF SplitsDontMatter
  <2> DEFINE t == Text(request)
             p == Parsed(request)[Len(t)]
  <2>1. request \in Requests \cup {Forgotten}
    BY DEF ParsedOnce, Typed
  <2>2. Http!ParserExecute(Http!Reset, t) = p
    BY <2>1, WholeRequest
  <2>3. Http!IsDone(p) <=> p.state = "Done"
    BY Zenon DEF Http!IsDone
  <2>4. t \in Seq(STRING) /\ Len(t) \in Nat
    BY <2>1, TextIsText
  <2>5. ASSUME Open, conn.stage = "http", wire = <<>>
        PROVE  p.state # "Done" /\ p.error = "none"
    <3>1. PICK n \in 0..Len(t) : /\ wire = SubSeq(t, n + 1, Len(t)) /\ http = Parsed(request)[n]
                                 /\ ~http.returned /\ http.error = "none"
      BY <2>5 DEF ParsedOnce, Parsing
    <3> HIDE DEF t
    <3>2. Len(wire) = Len(t) - n /\ Len(wire) = 0
      <4>1. Len(wire) = Len(t) - n
        BY <2>4, <3>1, PieceOfRest
      <4>2. Len(wire) = 0
        BY <2>5
      <4> QED
        BY <4>1, <4>2
    <3>3. n = Len(t)
      BY <2>4, <3>2
    <3>4. http = p
      BY <3>1, <3>3
    <3>5. p.state \in LoopStates
      <4>1. Sound(t, Len(t))
        BY <2>4, AlwaysSound
      <4>2. http = Http!Rounds(Http!Reset, t)[Len(t)]
        BY <3>4, Zenon DEF Parsed, t
      <4> QED
        BY <3>1, <3>4, <4>1, <4>2 DEF Sound
    <3> HIDE DEF p
    <3> QED
      BY <3>1, <3>4, <3>5 DEF LoopStates, UriStates
  <2>6. /\ conn.stage = "websocket" => p.state = "Done" /\ Routed(p)
        /\ conn.closed = "not_found" => p.state = "Done" /\ ~Routed(p)
        /\ conn.closed = "bad_request" => p.state # "Done" /\ p.error # "none"
    BY DEF ParsedOnce, Answered
  <2> HIDE DEF p
  <2> QED
    BY <2>2, <2>3, <2>5, <2>6
<1> QED
  BY <1>1, AlwaysParsedOnce, PTL

-----------------------------------------------------------------------------
(* The bytes of a frame. *)

(* The exclusive or of bytes is a byte, and undone by the same byte.        *)
LEMMA XorTwice ==
  ASSUME NEW a \in 0..255, NEW b \in 0..255
  PROVE  Ws!Xor(a, b) \in 0..255 /\ Ws!Xor(Ws!Xor(a, b), b) = a
<1> DEFINE Half == 0..15
           t == Ws!XorTable
<1>1. \A i, j \in Half : t[i][j] = Ws!Differ(i, j, 1) + Ws!Differ(i, j, 2) + Ws!Differ(i, j, 4) + Ws!Differ(i, j, 8)
  BY DEF Ws!XorTable
<1> HIDE DEF t
<1>2. ASSUME NEW i \in Half, NEW j \in Half
      PROVE  t[i][j] \in Half /\ t[t[i][j]][j] = i
  <2>1. ASSUME NEW x \in Half
        PROVE  \E c, d, e, g \in {0, 1} : x = 8 * c + 4 * d + 2 * e + g
    OBVIOUS
  <2>2. PICK c \in {0, 1}, d \in {0, 1}, e \in {0, 1}, g \in {0, 1} : i = 8 * c + 4 * d + 2 * e + g
    BY <2>1
  <2>3. PICK k \in {0, 1}, l \in {0, 1}, m \in {0, 1}, n \in {0, 1} : j = 8 * k + 4 * l + 2 * m + n
    BY <2>1
  <2> DEFINE E(x, y) == (x + y) % 2
  <2>4. \A x, y \in {0, 1} : E(x, y) \in {0, 1} /\ E(E(x, y), y) = x
    OBVIOUS
  <2>5. ASSUME NEW x \in Half, NEW c1 \in {0, 1}, NEW d1 \in {0, 1}, NEW e1 \in {0, 1}, NEW g1 \in {0, 1},
               x = 8 * c1 + 4 * d1 + 2 * e1 + g1
        PROVE  t[x][j] = 8 * E(c1, k) + 4 * E(d1, l) + 2 * E(e1, m) + E(g1, n)
    <3>1. x \div 8 = c1 /\ x \div 4 = 2 * c1 + d1 /\ x \div 2 = 4 * c1 + 2 * d1 + e1 /\ x \div 1 = x
      BY <2>5
    <3>2. j \div 8 = k /\ j \div 4 = 2 * k + l /\ j \div 2 = 4 * k + 2 * l + m /\ j \div 1 = j
      BY <2>3
    <3>3. Ws!Differ(x, j, 8) = 8 * E(c1, k)
      BY <3>1, <3>2 DEF Ws!Differ
    <3>4. Ws!Differ(x, j, 4) = 4 * E(d1, l)
      BY <3>1, <3>2 DEF Ws!Differ
    <3>5. Ws!Differ(x, j, 2) = 2 * E(e1, m)
      BY <3>1, <3>2 DEF Ws!Differ
    <3>6. Ws!Differ(x, j, 1) = E(g1, n)
      BY <3>1, <3>2, <2>3, <2>5 DEF Ws!Differ
    <3> HIDE DEF E
    <3>7. E(c1, k) \in {0, 1} /\ E(d1, l) \in {0, 1} /\ E(e1, m) \in {0, 1} /\ E(g1, n) \in {0, 1}
      BY <2>4
    <3> QED
      BY <1>1, <3>3, <3>4, <3>5, <3>6, <3>7
  <2> HIDE DEF E
  <2>6. t[i][j] = 8 * E(c, k) + 4 * E(d, l) + 2 * E(e, m) + E(g, n)
    BY <2>2, <2>5
  <2>7. E(c, k) \in {0, 1} /\ E(d, l) \in {0, 1} /\ E(e, m) \in {0, 1} /\ E(g, n) \in {0, 1}
    BY <2>4
  <2>8. t[i][j] \in Half
    BY <2>6, <2>7
  <2>9. t[t[i][j]][j] = 8 * E(E(c, k), k) + 4 * E(E(d, l), l) + 2 * E(E(e, m), m) + E(E(g, n), n)
    BY <2>5, <2>6, <2>7, <2>8
  <2> QED
    BY <2>2, <2>4, <2>8, <2>9
<1> DEFINE ad == a \div 16  am == a % 16  bd == b \div 16  bm == b % 16
           x == t[ad][bd]
           y == t[am][bm]
<1>3. ad \in Half /\ am \in Half /\ a = 16 * ad + am
  OBVIOUS
<1>4. bd \in Half /\ bm \in Half
  OBVIOUS
<1>5. Ws!Xor(a, b) = 16 * x + y
  BY DEF Ws!Xor, t
<1>6. \A c \in Half, d \in Half : (16 * c + d) \div 16 = c /\ (16 * c + d) % 16 = d /\ 16 * c + d \in 0..255
  OBVIOUS
<1> HIDE DEF ad, am, Half
<1>7. \A c : Ws!Xor(c, b) = 16 * t[c \div 16][bd] + t[c % 16][bm]
  BY DEF Ws!Xor, t
<1> HIDE DEF bd, bm
<1>8. x \in Half /\ y \in Half /\ t[x][bd] = ad /\ t[y][bm] = am
  BY <1>2, <1>3, <1>4
<1> HIDE DEF x, y
<1>9. (16 * x + y) \div 16 = x /\ (16 * x + y) % 16 = y /\ 16 * x + y \in 0..255
  BY <1>6, <1>8
<1>10. Ws!Xor(16 * x + y, b) = 16 * ad + am
  BY <1>7, <1>8, <1>9, Zenon
<1> QED
  BY <1>3, <1>5, <1>9, <1>10, Zenon

(* A byte, and a frame with its fields.                                     *)
Byte == 0..255

(* What the frames are, field by field. *)
LEMMA FrameIs ==
  ASSUME NEW f \in Frames
  PROVE  /\ f.fin \in BOOLEAN /\ f.opcode \in 0..15 /\ f.masked \in BOOLEAN /\ f.form \in {7, 16, 64}
         /\ f.payload \in Seq(Byte) /\ Len(f.payload) \in Nat
         /\ \A i \in 1..Len(f.payload) : f.payload[i] \in Byte
         /\ Len(f.payload) < 256 * 256 /\ (f.form = 7 => Len(f.payload) < 126)
         /\ Mask \in [1..MaskSize -> Byte]
<1>1. f \in [fin : BOOLEAN, opcode : 0..15, payload : Seq(0..255), masked : BOOLEAN,
             form : {7, 16, 64}]
  BY FramesOfBytes
<1>2. f.payload \in Seq(Byte)
  BY <1>1 DEF Byte
<1>3. Len(f.payload) \in Nat /\ \A i \in 1..Len(f.payload) : f.payload[i] \in Byte
  <2> DEFINE s == f.payload
  <2> HIDE DEF s
  <2>1. s \in Seq(Byte)
    BY <1>2 DEF s
  <2>2. Len(s) \in Nat /\ \A i \in 1..Len(s) : s[i] \in Byte
    BY <2>1
  <2> QED
    BY <2>2 DEF s
<1>4. Len(f.payload) < IF f.form = 7 THEN 126 ELSE 256 * 256
  BY FramesOfBytes
<1>5. Mask \in [1..MaskSize -> Byte]
  BY FramesOfBytes DEF Byte
<1> QED
  BY <1>1, <1>2, <1>3, <1>4, <1>5

(* The bytes that the length of a payload takes. *)
FormSize(f) == IF f.form = 7 THEN 1 ELSE IF f.form = 16 THEN 3 ELSE 9
(* The bytes before the payload of a masked frame. *)
HeadSize(f) == 1 + FormSize(f) + MaskSize

(* The byte of a length at a place of the form it is written in.            *)
LengthByte(f, i) ==
  LET n == Len(f.payload)
  IN IF i = 1 THEN CASE f.form = 7 -> n [] f.form = 16 -> 126 [] f.form = 64 -> 127
     ELSE IF i = FormSize(f) THEN n % 256
     ELSE IF i = FormSize(f) - 1 THEN n \div 256
     ELSE 0

(* One sequence of numbers behind another. *)
LEMMA Joins ==
  ASSUME NEW s \in Seq(Nat), NEW u \in Seq(Nat)
  PROVE  /\ s \o u \in Seq(Nat) /\ Len(s \o u) = Len(s) + Len(u)
         /\ \A i \in 1..Len(s) : (s \o u)[i] = s[i]
         /\ \A i \in 1..Len(u) : (s \o u)[Len(s) + i] = u[i]
<1> DEFINE t == s \o u
<1>1. Len(s) \in Nat /\ Len(u) \in Nat
  OBVIOUS
<1>2. t \in Seq(Nat) /\ Len(t) = Len(s) + Len(u)
  OBVIOUS
<1>3. \A i \in 1..Len(s) : t[i] = s[i]
  OBVIOUS
<1>4. \A i \in 1..Len(u) : t[Len(s) + i] = u[i]
  BY <1>1
<1> QED
  BY <1>2, <1>3, <1>4

(* The bytes of a frame, one by one. *)
LEMMA EncodedAre ==
  ASSUME NEW f \in Frames
  PROVE  LET e == Encoded[f]
             n == Len(f.payload)
         IN /\ e \in Seq(Nat)
            /\ Len(e) = 1 + FormSize(f) + (IF f.masked THEN MaskSize ELSE 0) + n
            /\ e[1] = (IF f.fin THEN 128 ELSE 0) + f.opcode
            /\ ~f.masked => e[2] < 128
            /\ f.masked => /\ e[2] = LengthByte(f, 1) + 128
                           /\ \A i \in 2..FormSize(f) : e[1 + i] = LengthByte(f, i)
                           /\ \A i \in 1..MaskSize : e[1 + FormSize(f) + i] = Mask[i]
                           /\ \A i \in 1..n : e[HeadSize(f) + i] =
                                Ws!Xor(f.payload[i], Mask[((i - 1) % MaskSize) + 1])
<1> DEFINE s == f.payload
           n == Len(s)
           head == <<(IF f.fin THEN 128 ELSE 0) + f.opcode>>
           form == CASE f.form = 7 -> <<n>>
                     [] f.form = 16 -> <<126, n \div 256, n % 256>>
                     [] f.form = 64 -> <<127, 0, 0, 0, 0, 0, 0, n \div 256, n % 256>>
           masked == [form EXCEPT ![1] = @ + 128]
           key == [i \in 1..MaskSize |-> Mask[i]]
           body == [i \in 1..n |-> Ws!Xor(s[i], Mask[((i - 1) % MaskSize) + 1])]
           k == FormSize(f)
<1>0. MaskSize \in Nat \ {0} /\ Mask \in [1..MaskSize -> Byte]
  BY FrameIs, Sizes
<1>1. /\ f.opcode \in 0..15 /\ f.form \in {7, 16, 64} /\ n \in Nat /\ (f.form = 7 => n < 126)
      /\ \A i \in 1..n : s[i] \in Byte
  BY FrameIs
<1>2. s \in Seq(Byte)
  BY FrameIs
<1>3. Byte \subseteq Nat
  BY DEF Byte
<1> HIDE DEF s
<1>5. Encoded[f] = head \o (IF f.masked THEN masked \o key \o body ELSE form \o s)
  BY Zenon DEF Encoded, Ws!Bytes, s
<1>6. head \in Seq(Nat) /\ Len(head) = 1 /\ head[1] = (IF f.fin THEN 128 ELSE 0) + f.opcode
  <2>1. (IF f.fin THEN 128 ELSE 0) + f.opcode \in Nat
    <3>1. f.opcode \in Nat
      BY <1>1
    <3> QED
      BY <3>1
  <2> QED
    BY <2>1
<1>7. /\ form \in Seq(Nat) /\ Len(form) = k /\ k \in {1, 3, 9}
      /\ \A i \in 1..k : form[i] = LengthByte(f, i)
      /\ form[1] < 128
  <2>0. n \in Nat
    BY <1>1
  <2>5. n = Len(f.payload)
    BY DEF s
  <2> DEFINE hi == n \div 256  lo == n % 256
  <2>1. hi \in Nat /\ lo \in Nat
    <3> HIDE DEF n
    <3>1. n \div 256 \in Nat /\ n % 256 \in Nat
      BY ONLY <2>0
    <3> QED
      BY <3>1
  <2>2. CASE f.form = 7
    <3>1. form = <<n>> /\ k = 1
      BY <2>2 DEF FormSize
    <3>2. LengthByte(f, 1) = n
      BY <2>5, <2>2 DEF LengthByte
    <3> HIDE DEF n, form
    <3> QED
      BY <1>1, <2>0, <2>2, <3>1, <3>2
  <2>3. CASE f.form = 16
    <3>1. form = <<126, hi, lo>> /\ k = 3
      BY <2>3 DEF FormSize
    <3>2. LengthByte(f, 1) = 126 /\ LengthByte(f, 2) = hi /\ LengthByte(f, 3) = lo
      BY <2>5, <2>3 DEF LengthByte, FormSize
    <3> HIDE DEF n, form, hi, lo
    <3> QED
      BY <2>1, <3>1, <3>2
  <2>4. CASE f.form = 64
    <3>1. form = <<127, 0, 0, 0, 0, 0, 0, hi, lo>> /\ k = 9
      BY <2>4 DEF FormSize
    <3>2. /\ LengthByte(f, 1) = 127 /\ LengthByte(f, 8) = hi /\ LengthByte(f, 9) = lo
          /\ \A i \in 2..7 : LengthByte(f, i) = 0
      BY <2>5, <2>4 DEF LengthByte, FormSize
    <3> HIDE DEF n, form, hi, lo
    <3>3. form \in Seq(Nat) /\ Len(form) = 9 /\ form[1] = 127 /\ form[8] = hi /\ form[9] = lo
      BY <2>1, <3>1
    <3>4. \A i \in 2..7 : form[i] = 0
      BY <3>1
    <3>5. \A i \in 1..9 : i = 1 \/ i = 8 \/ i = 9 \/ i \in 2..7
      OBVIOUS
    <3> QED
      BY <3>1, <3>2, <3>3, <3>4, <3>5
  <2> QED
    BY <1>1, <2>2, <2>3, <2>4
<1> HIDE DEF head, form
<1>8. /\ masked \in Seq(Nat) /\ Len(masked) = k
      /\ masked[1] = LengthByte(f, 1) + 128
      /\ \A i \in 2..k : masked[i] = LengthByte(f, i)
  <2>1. form[1] + 128 \in Nat /\ 1 \in 1..Len(form)
    BY <1>7
  <2>2. masked \in Seq(Nat)
    BY <1>7, <2>1, ExceptSeq
  <2>3. Len(masked) = k
    BY <1>7, <2>1, ExceptSeq
  <2>4. \A i \in 1..k : masked[i] = IF i = 1 THEN form[1] + 128 ELSE form[i]
    BY <1>7
  <2> HIDE DEF masked, k
  <2> QED
    BY <1>7, <2>2, <2>3, <2>4
<1>9. key \in Seq(Nat) /\ Len(key) = MaskSize /\ \A i \in 1..MaskSize : key[i] = Mask[i]
  <2> HIDE DEF masked, body
  <2>1. \A i \in 1..MaskSize : Mask[i] \in Nat
    BY <1>0, <1>3
  <2> QED
    BY <1>0, <2>1
<1>10. /\ body \in Seq(Nat) /\ Len(body) = n
       /\ \A i \in 1..n : body[i] = Ws!Xor(s[i], Mask[((i - 1) % MaskSize) + 1])
  <2> HIDE DEF masked, key
  <2>2. \A i \in 1..n : ((i - 1) % MaskSize) + 1 \in 1..MaskSize
    BY <1>0, <1>1
  <2>3. \A i \in 1..n : Mask[((i - 1) % MaskSize) + 1] \in 0..255
    BY <1>0, <2>2 DEF Byte
  <2>4. \A i \in 1..n : Ws!Xor(s[i], Mask[((i - 1) % MaskSize) + 1]) \in Nat
    BY <1>1, <2>3, XorType DEF Byte
  <2> QED
    BY <1>1, <2>4
<1>11. s \in Seq(Nat)
  <2>1. \A i \in 1..n : s[i] \in Nat
    BY <1>1, <1>3
  <2>2. s = [i \in 1..n |-> s[i]]
    BY <1>2
  <2> QED
    BY <1>1, <2>1, <2>2
<1> HIDE DEF masked, key, body
<1>12. f.masked \in BOOLEAN
  BY FrameIs
<1>13. CASE f.masked
  <2> DEFINE e == Encoded[f]
  <2>0. e = head \o (masked \o key \o body)
    BY <1>5, <1>13
  <2> HIDE DEF n, k, e
  <2>1. /\ e \in Seq(Nat) /\ Len(e) = 1 + k + MaskSize + n
        /\ e[1] = head[1]
        /\ \A i \in 1..k : e[1 + i] = masked[i]
        /\ \A i \in 1..MaskSize : e[1 + k + i] = key[i]
        /\ \A i \in 1..n : e[1 + k + MaskSize + i] = body[i]
    <3> DEFINE a == masked \o key
               b == a \o body
    <3>1. /\ a \in Seq(Nat) /\ Len(a) = k + MaskSize
          /\ \A i \in 1..k : a[i] = masked[i]
          /\ \A i \in 1..MaskSize : a[k + i] = key[i]
      <4>1. /\ a \in Seq(Nat) /\ Len(a) = Len(masked) + Len(key)
            /\ \A i \in 1..Len(masked) : a[i] = masked[i]
            /\ \A i \in 1..Len(key) : a[Len(masked) + i] = key[i]
        BY <1>8, <1>9, Joins
      <4> HIDE DEF a
      <4> QED
        BY <1>8, <1>9, <4>1
    <3> HIDE DEF a
    <3>2. /\ b \in Seq(Nat) /\ Len(b) = k + MaskSize + n
          /\ \A i \in 1..k : b[i] = masked[i]
          /\ \A i \in 1..MaskSize : b[k + i] = key[i]
          /\ \A i \in 1..n : b[k + MaskSize + i] = body[i]
      <4>1. /\ b \in Seq(Nat) /\ Len(b) = Len(a) + Len(body)
            /\ \A i \in 1..Len(a) : b[i] = a[i]
            /\ \A i \in 1..Len(body) : b[Len(a) + i] = body[i]
        BY <1>10, <3>1, Joins
      <4> HIDE DEF b
      <4>2. \A i \in 1..k : i \in 1..Len(a)
        BY <1>0, <1>7, <3>1
      <4>3. \A i \in 1..MaskSize : k + i \in 1..Len(a)
        BY <1>0, <1>7, <3>1
      <4> QED
        BY <1>10, <3>1, <4>1, <4>2, <4>3
    <3> HIDE DEF b
    <3>3. e = head \o b
      BY <2>0 DEF a, b
    <3>4. /\ e \in Seq(Nat) /\ Len(e) = 1 + Len(b) /\ e[1] = head[1]
          /\ \A i \in 1..Len(b) : e[1 + i] = b[i]
      <4>1. /\ e \in Seq(Nat) /\ Len(e) = Len(head) + Len(b)
            /\ \A i \in 1..Len(head) : e[i] = head[i]
            /\ \A i \in 1..Len(b) : e[Len(head) + i] = b[i]
        BY <1>6, <3>2, <3>3, Joins
      <4> QED
        BY <1>6, <4>1
    <3>5. \A i \in 1..k : i \in 1..Len(b) /\ e[1 + i] = masked[i]
      BY <1>0, <1>1, <1>7, <3>2, <3>4
    <3>6. \A i \in 1..MaskSize : k + i \in 1..Len(b) /\ 1 + (k + i) = 1 + k + i
      BY <1>0, <1>1, <1>7, <3>2
    <3>7. \A i \in 1..n : k + MaskSize + i \in 1..Len(b) /\ 1 + (k + MaskSize + i) = 1 + k + MaskSize + i
      BY <1>0, <1>1, <1>7, <3>2
    <3>8. Len(e) = 1 + k + MaskSize + n
      BY <1>0, <1>1, <1>7, <3>2, <3>4
    <3>9. ASSUME NEW i \in 1..MaskSize PROVE e[1 + k + i] = key[i]
      <4>1. e[1 + (k + i)] = b[k + i] /\ b[k + i] = key[i]
        BY <3>2, <3>4, <3>6
      <4> QED
        BY <3>6, <4>1
    <3>10. ASSUME NEW i \in 1..n PROVE e[1 + k + MaskSize + i] = body[i]
      <4>1. e[1 + (k + MaskSize + i)] = b[k + MaskSize + i] /\ b[k + MaskSize + i] = body[i]
        BY <3>2, <3>4, <3>7
      <4> QED
        BY <3>7, <4>1
    <3> QED
      BY <3>4, <3>5, <3>8, <3>9, <3>10
  <2>2. e[2] = masked[1]
    BY <1>7, <2>1
  <2>3. \A i \in 2..k : e[1 + i] = LengthByte(f, i)
    BY <1>7, <1>8, <2>1
  <2>4. HeadSize(f) = 1 + k + MaskSize
    BY DEF HeadSize, k
  <2> QED
    BY <1>6, <1>8, <1>9, <1>10, <1>13, <2>1, <2>2, <2>3, <2>4 DEF e, k, n, s
<1>14. CASE ~f.masked
  <2> DEFINE e == Encoded[f]
  <2>0. e = head \o (form \o s)
    BY <1>5, <1>14
  <2> HIDE DEF n, k, e
  <2>1. e \in Seq(Nat) /\ Len(e) = 1 + k + n /\ e[1] = head[1] /\ e[2] = form[1]
    <3> DEFINE b == form \o s
    <3>1. b \in Seq(Nat) /\ Len(b) = k + n /\ b[1] = form[1]
      <4>1. /\ b \in Seq(Nat) /\ Len(b) = Len(form) + Len(s)
            /\ \A i \in 1..Len(form) : b[i] = form[i]
        BY <1>7, <1>11, Joins
      <4> HIDE DEF b
      <4> QED
        BY <1>7, <4>1 DEF n
    <3> HIDE DEF b
    <3>2. e = head \o b
      BY <2>0 DEF b
    <3>3. /\ e \in Seq(Nat) /\ Len(e) = Len(head) + Len(b)
          /\ \A i \in 1..Len(head) : e[i] = head[i]
          /\ \A i \in 1..Len(b) : e[Len(head) + i] = b[i]
      BY <1>6, <3>1, <3>2, Joins
    <3>4. n \in Nat /\ 1 \in 1..Len(b) /\ 1 \in 1..Len(head)
      BY <1>1, <1>6, <1>7, <3>1 DEF n
    <3> QED
      BY <1>6, <1>7, <3>1, <3>3, <3>4
  <2>2. Len(e) = 1 + k + 0 + n
    BY <1>1, <1>7, <2>1 DEF n
  <2> QED
    BY <1>6, <1>7, <1>14, <2>1, <2>2 DEF e, k, n, s
<1> QED
  BY <1>12, <1>13, <1>14

-----------------------------------------------------------------------------
(* The parser of frames, byte by byte. *)

(* A parser that has read i bytes of a frame, and goes on.                  *)
OnWay(p, f, i) ==
  LET n == Len(f.payload)
  IN /\ IsWs(p) /\ p.error = "none" /\ p.returned = FALSE /\ p.data \in Seq(Nat)
     /\ i < HeadSize(f) => Len(p.data) = 0
     /\ i = 0 => p.state = "FinAndOpcode"
     /\ i > 0 => p.fin = f.fin /\ p.opcode = f.opcode
     /\ i = 1 => p.state = "MaskAndLen"
     /\ i > 1 => f.masked
     /\ i \in 2..FormSize(f) =>
          /\ p.state \in {"PayloadLen16", "PayloadLen64"}
          /\ p.remain = 1 + FormSize(f) - i
          /\ p.length = IF i = FormSize(f) THEN Ws!Min({n \div 256, MaxPayloadLength + 1}) ELSE 0
     /\ i \in 1 + FormSize(f)..HeadSize(f) - 1 =>
          /\ p.state = "MaskingKey" /\ p.length = n /\ n <= MaxPayloadLength
          /\ p.remain = HeadSize(f) - i
          /\ p.mask \in Seq(Nat) /\ Len(p.mask) = i - 1 - FormSize(f)
          /\ \A k \in 1..i - 1 - FormSize(f) : p.mask[k] = Mask[k]
     /\ i >= HeadSize(f) =>
          /\ p.state = "PayloadData" /\ p.length = n /\ n <= MaxPayloadLength
          /\ p.remain = HeadSize(f) + n - i
          /\ \A k \in 1..MaskSize : p.mask[k] = Mask[k]
          /\ Len(p.data) = i - HeadSize(f)
          /\ \A k \in 1..i - HeadSize(f) : p.data[k] = f.payload[k]

(* A parser that has read a frame that it accepts to its end, one that has  *)
(* refused a frame, and what a byte of a frame makes of a parser.           *)
AtEnd(p, f) == /\ IsWs(p) /\ p.error = "none" /\ p.state = "Done"
               /\ p.fin = f.fin /\ p.opcode = f.opcode /\ p.data = f.payload
               /\ f.masked /\ Len(f.payload) <= MaxPayloadLength
Refusing(p) == IsWs(p) /\ p.error # "none" /\ p.returned = TRUE /\ p.state # "Done"
ByteRead(p, f, i) == \/ Refusing(p)
                     \/ i < Len(Encoded[f]) /\ OnWay(p, f, i)
                     \/ i = Len(Encoded[f]) /\ AtEnd(p, f)

(* The lesser of two numbers. *)
LEMMA MinIs ==
  ASSUME NEW a \in Nat, NEW b \in Nat
  PROVE  Ws!Min({a, b}) = IF a <= b THEN a ELSE b
<1> DEFINE m == IF a <= b THEN a ELSE b
<1>1. m \in {a, b} /\ \A y \in {a, b} : m <= y
  OBVIOUS
<1>2. ASSUME NEW x \in {a, b}, \A y \in {a, b} : x <= y PROVE x = m
  BY <1>2
<1>3. Ws!Min({a, b}) = CHOOSE x \in {a, b} : \A y \in {a, b} : x <= y
  BY DEF Ws!Min
<1> HIDE DEF m
<1> QED
  BY <1>1, <1>2, <1>3

(* The sizes of a frame. *)
LEMMA FrameSizes ==
  ASSUME NEW f \in Frames
  PROVE  /\ FormSize(f) \in {1, 3, 9} /\ MaskSize \in Nat /\ MaskSize > 0
         /\ HeadSize(f) \in Nat /\ HeadSize(f) = 1 + FormSize(f) + MaskSize
         /\ MaxPayloadLength \in Nat
         /\ Len(f.payload) \in Nat
         /\ Len(Encoded[f]) \in Nat /\ Len(Encoded[f]) >= 2
         /\ f.masked => Len(Encoded[f]) = HeadSize(f) + Len(f.payload)
<1>1. FormSize(f) \in {1, 3, 9}
  BY DEF FormSize
<1>2. MaskSize \in Nat /\ MaskSize > 0 /\ MaxPayloadLength \in Nat
  BY Sizes
<1>3. HeadSize(f) = 1 + FormSize(f) + MaskSize
  BY DEF HeadSize
<1>4. HeadSize(f) \in Nat
  BY <1>1, <1>2, <1>3
<1>5. Len(f.payload) \in Nat
  BY FrameIs
<1>6. Len(Encoded[f]) = 1 + FormSize(f) + (IF f.masked THEN MaskSize ELSE 0) + Len(f.payload)
  BY EncodedAre
<1> HIDE DEF FormSize, HeadSize
<1> QED
  BY <1>1, <1>2, <1>3, <1>4, <1>5, <1>6

(* The length is known, and small enough. *)
LEMMA LengthKnown ==
  ASSUME NEW f \in Frames, NEW p, IsWs(p), p.error = "none", p.returned = FALSE,
         p.data \in Seq(Nat), Len(p.data) = 0, p.fin = f.fin, p.opcode = f.opcode, f.masked,
         Len(f.payload) <= MaxPayloadLength
  PROVE  OnWay(Ws!WithLength(p, Len(f.payload)), f, 1 + FormSize(f))
<1> DEFINE n == Len(f.payload)
           q == Ws!WithLength(p, n)
           none == <<>>
           k == FormSize(f)
<1>1. /\ IsWs(q) /\ q.state = "MaskingKey" /\ q.length = n /\ q.remain = MaskSize /\ q.mask = none
      /\ q.error = p.error /\ q.returned = p.returned /\ q.data = p.data /\ q.fin = p.fin
      /\ q.opcode = p.opcode
  BY DEF Ws!WithLength, IsWs, WsParts
<1>2. none \in Seq(Nat) /\ Len(none) = 0
  OBVIOUS
<1> HIDE DEF q, none
<1>3. /\ k \in {1, 3, 9} /\ MaskSize \in Nat /\ MaskSize > 0
      /\ HeadSize(f) = 1 + k + MaskSize
  BY FrameSizes
<1> HIDE DEF k
<1>4. /\ 1 + k < HeadSize(f) /\ 1 + k > 1 /\ 1 + k # 0 /\ 1 + k # 1 /\ 1 + k \notin 2..k
      /\ ~(1 + k >= HeadSize(f)) /\ HeadSize(f) - (1 + k) = MaskSize /\ 1 + k - 1 - k = 0
  BY <1>3
<1> DEFINE i == 1 + k
<1>5. /\ i < HeadSize(f) /\ i > 1 /\ i # 0 /\ i # 1 /\ i \notin 2..k
      /\ ~(i >= HeadSize(f)) /\ HeadSize(f) - i = MaskSize /\ i - 1 - k = 0
  BY <1>3
<1> HIDE DEF i
<1>6. /\ IsWs(q) /\ q.error = "none" /\ q.returned = FALSE /\ q.data \in Seq(Nat) /\ Len(q.data) = 0
      /\ q.fin = f.fin /\ q.opcode = f.opcode /\ f.masked
  BY <1>1
<1>7. /\ q.state = "MaskingKey" /\ q.length = n /\ n <= MaxPayloadLength /\ q.remain = HeadSize(f) - i
      /\ q.mask \in Seq(Nat) /\ Len(q.mask) = i - 1 - k
      /\ \A j \in 1..i - 1 - k : q.mask[j] = Mask[j]
  BY <1>1, <1>2, <1>5
<1>8. OnWay(q, f, i)
  BY <1>5, <1>6, <1>7 DEF OnWay, k
<1> QED
  BY <1>8 DEF q, k, i

(* The first two bytes of a frame. *)
LEMMA HeadBytes ==
  ASSUME NEW f \in Frames, NEW i \in {0, 1}, NEW p, OnWay(p, f, i)
  PROVE  ByteRead(Ws!Step(p, Encoded[f][i + 1]), f, i + 1)
<1> DEFINE k == FormSize(f)
           n == Len(f.payload)
           e == Encoded[f]
<1>1. /\ k \in {1, 3, 9} /\ MaskSize \in Nat /\ MaskSize > 0 /\ HeadSize(f) = 1 + k + MaskSize
      /\ MaxPayloadLength \in Nat /\ n \in Nat /\ Len(e) \in Nat /\ Len(e) >= 2
  BY FrameSizes
<1>2. /\ f.fin \in BOOLEAN /\ f.opcode \in 0..15 /\ f.masked \in BOOLEAN /\ f.form \in {7, 16, 64}
      /\ (f.form = 7 => n < 126)
  BY FrameIs
<1>3. /\ e[1] = (IF f.fin THEN 128 ELSE 0) + f.opcode
      /\ ~f.masked => e[2] < 128
      /\ f.masked => e[2] = LengthByte(f, 1) + 128
  BY EncodedAre
<1>4. i < HeadSize(f)
  BY <1>1
<1>5. /\ IsWs(p) /\ p.error = "none" /\ p.returned = FALSE /\ p.data \in Seq(Nat) /\ Len(p.data) = 0
  BY <1>4 DEF OnWay
<1> HIDE DEF k, n, e
<1>6. CASE i = 0
  <2> DEFINE b == e[1]
             q == Ws!FinAndOpcode(p, b)
  <2>1. p.state = "FinAndOpcode"
    BY <1>6 DEF OnWay
  <2>2. Ws!Step(p, b) = q
    BY <2>1 DEF Ws!Step
  <2>3. (b \div 128 = 1) = f.fin /\ b % 16 = f.opcode
    <3>1. /\ \A x \in 0..15 : (128 + x) \div 128 = 1 /\ (128 + x) % 16 = x
          /\ \A x \in 0..15 : (0 + x) \div 128 = 0 /\ (0 + x) % 16 = x
      OBVIOUS
    <3>2. b = (IF f.fin THEN 128 ELSE 0) + f.opcode
      BY <1>3
    <3> HIDE DEF b
    <3>3. CASE f.fin
      BY <1>2, <3>1, <3>2, <3>3
    <3>4. CASE ~f.fin
      BY <1>2, <3>1, <3>2, <3>4
    <3> QED
      BY <1>2, <3>3, <3>4
  <2> HIDE DEF b
  <2>4. /\ IsWs(q) /\ q.state = "MaskAndLen" /\ q.fin = (b \div 128 = 1) /\ q.opcode = b % 16
        /\ q.error = p.error /\ q.returned = p.returned /\ q.data = p.data
    BY <1>5 DEF Ws!FinAndOpcode, IsWs, WsParts
  <2> HIDE DEF q
  <2>5. /\ 1 < HeadSize(f) /\ 1 \notin 2..FormSize(f) /\ 1 \notin 1 + FormSize(f)..HeadSize(f) - 1
    BY <1>1 DEF k
  <2>6. OnWay(q, f, 1)
    BY <1>1, <1>5, <2>3, <2>4, <2>5 DEF OnWay
  <2>7. i + 1 = 1 /\ 1 < Len(e)
    BY <1>1, <1>6
  <2> QED
    BY <2>2, <2>6, <2>7 DEF ByteRead, b, e
<1>7. CASE i = 1
  <2> DEFINE b == e[2]
             length == b % 128
             Extended(s, bytes) == [p EXCEPT !.state = s, !.remain = bytes, !.length = 0]
  <2>1. p.state = "MaskAndLen" /\ p.fin = f.fin /\ p.opcode = f.opcode
    BY <1>7 DEF OnWay
  <2>2. Ws!Step(p, b) = Ws!MaskAndLen(p, b)
    BY <2>1 DEF Ws!Step
  <2>3. Ws!MaskAndLen(p, b) =
          IF b < 128 THEN Ws!Refused(p, "PROTOCOL_ERROR")
          ELSE IF length = 126 THEN Extended("PayloadLen16", 2)
          ELSE IF length = 127 THEN Extended("PayloadLen64", 8)
          ELSE IF length > MaxPayloadLength THEN Ws!Refused(p, "PAYLOAD_TOO_BIG")
          ELSE Ws!WithLength(p, length)
    BY Zenon DEF Ws!MaskAndLen, length
  <2>4. ASSUME NEW err, err # "none" PROVE Refusing(Ws!Refused(p, err))
    <3> DEFINE q == Ws!Refused(p, err)
    <3>1. IsWs(q) /\ q.error = err /\ q.returned = TRUE /\ q.state = p.state
      BY <1>5 DEF Ws!Refused, IsWs, WsParts
    <3> HIDE DEF q
    <3> QED
      BY <2>1, <2>4, <3>1 DEF Refusing, q
  <2>5. Refusing(Ws!Refused(p, "PROTOCOL_ERROR")) /\ Refusing(Ws!Refused(p, "PAYLOAD_TOO_BIG"))
    BY <2>4
  <2>6. i + 1 = 2
    BY <1>7
  <2>7. CASE ~f.masked
    <3>1. b < 128
      BY <1>3, <2>7
    <3>2. Ws!Step(p, b) = Ws!Refused(p, "PROTOCOL_ERROR")
      BY <2>2, <2>3, <3>1, Zenon
    <3> QED
      BY <2>5, <2>6, <3>2 DEF ByteRead, b, e
  <2>8. CASE f.masked
    <3>1. /\ ~(b < 128)
          /\ length = IF f.form = 7 THEN n ELSE IF f.form = 16 THEN 126 ELSE 127
      <4>1. LengthByte(f, 1) = IF f.form = 7 THEN n ELSE IF f.form = 16 THEN 126 ELSE 127
        BY <1>2 DEF LengthByte, n
      <4>2. LengthByte(f, 1) \in 0..127 /\ b = LengthByte(f, 1) + 128
        <5>1. LengthByte(f, 1) \in 0..127
          <6>1. n \in Nat /\ (f.form = 7 => n < 126)
            BY <1>1, <1>2
          <6>2. CASE f.form = 7
            BY <4>1, <6>1, <6>2
          <6>3. CASE f.form # 7
            BY <4>1, <6>3
          <6> QED
            BY <6>2, <6>3
        <5>2. b = LengthByte(f, 1) + 128
          BY <1>3, <2>8
        <5> QED
          BY <5>1, <5>2
      <4> HIDE DEF b
      <4>3. b % 128 = LengthByte(f, 1) /\ ~(b < 128)
        BY <4>2
      <4> QED
        BY <4>1, <4>3
    <3> HIDE DEF b, length
    <3>2. Len(e) = HeadSize(f) + n
      BY <2>8, FrameSizes DEF e, n
    <3>3. 2 < Len(e)
      BY <1>1, <3>2
    <3>4. ASSUME NEW s \in {"PayloadLen16", "PayloadLen64"}, NEW bytes \in {2, 8},
                 bytes = k - 1, k # 2
          PROVE  OnWay(Extended(s, bytes), f, 2)
      <4> DEFINE q == Extended(s, bytes)
      <4>1. /\ IsWs(q) /\ q.state = s /\ q.length = 0 /\ q.remain = bytes /\ q.data = p.data
            /\ q.error = p.error /\ q.returned = p.returned /\ q.fin = p.fin /\ q.opcode = p.opcode
        BY <1>5 DEF IsWs, WsParts
      <4> HIDE DEF q
      <4>2. /\ 2 < HeadSize(f) /\ 2 \notin 1 + FormSize(f)..HeadSize(f) - 1 /\ ~(2 >= HeadSize(f))
            /\ 1 + FormSize(f) - 2 = bytes /\ 2 # FormSize(f)
        BY <1>1, <3>4 DEF k
      <4>3. OnWay(q, f, 2)
        BY <1>5, <2>1, <2>8, <3>4, <4>1, <4>2 DEF OnWay
      <4> QED
        BY <4>3 DEF q
    <3>5. CASE f.form = 7
      <4>1. k = 1 /\ length = n /\ n # 126 /\ n # 127
        BY <1>1, <1>2, <3>1, <3>5 DEF k, FormSize
      <4>2. CASE n > MaxPayloadLength
        <5>1. Ws!Step(p, b) = Ws!Refused(p, "PAYLOAD_TOO_BIG")
          BY <2>2, <2>3, <3>1, <4>1, <4>2, Zenon
        <5> QED
          BY <2>5, <2>6, <5>1 DEF ByteRead, b, e
      <4>3. CASE ~(n > MaxPayloadLength)
        <5>1. Ws!Step(p, b) = Ws!WithLength(p, n)
          BY <2>2, <2>3, <3>1, <4>1, <4>3, Zenon
        <5>2. n <= MaxPayloadLength
          BY <1>1, <4>3
        <5>3. OnWay(Ws!WithLength(p, n), f, 1 + k)
          BY <1>5, <2>1, <2>8, <5>2, LengthKnown DEF n, k
        <5>4. 1 + k = 2
          BY <4>1
        <5> QED
          BY <2>6, <3>3, <5>1, <5>3, <5>4 DEF ByteRead, b, e
      <4> QED
        BY <4>2, <4>3
    <3>6. CASE f.form = 16
      <4>1. k = 3 /\ length = 126
        BY <3>1, <3>6 DEF k, FormSize
      <4>2. Ws!Step(p, b) = Extended("PayloadLen16", 2)
        BY <2>2, <2>3, <3>1, <4>1, Zenon
      <4> HIDE DEF Extended
      <4>3. OnWay(Extended("PayloadLen16", 2), f, 2)
        BY <3>4, <4>1
      <4> QED
        BY <2>6, <3>3, <4>2, <4>3 DEF ByteRead, b, e
    <3>7. CASE f.form = 64
      <4>1. k = 9 /\ length = 127
        BY <3>1, <3>7 DEF k, FormSize
      <4>2. Ws!Step(p, b) = Extended("PayloadLen64", 8)
        <5>1. length # 126 /\ length = 127
          BY <4>1
        <5> QED
          BY <2>2, <2>3, <3>1, <5>1, Zenon
      <4> HIDE DEF Extended
      <4>3. OnWay(Extended("PayloadLen64", 8), f, 2)
        BY <3>4, <4>1
      <4> QED
        BY <2>6, <3>3, <4>2, <4>3 DEF ByteRead, b, e
    <3> QED
      BY <1>2, <3>5, <3>6, <3>7
  <2> QED
    BY <1>2, <2>7, <2>8
<1> QED
  BY <1>6, <1>7

(* A length of which the high byte has been read, and the low byte.         *)
LEMMA LengthOfBytes ==
  ASSUME NEW n \in Nat, NEW m \in Nat
  PROVE  /\ n \div 256 \in Nat /\ n % 256 \in Nat /\ Ws!Min({n \div 256, m + 1}) \in Nat
         /\ n <= m => Ws!Min({256 * Ws!Min({n \div 256, m + 1}) + (n % 256), m + 1}) = n
         /\ ~(n <= m) => ~(Ws!Min({256 * Ws!Min({n \div 256, m + 1}) + (n % 256), m + 1}) <= m)
<1> DEFINE high == n \div 256
           low == n % 256
           part == Ws!Min({high, m + 1})
<1>1. high \in Nat /\ low \in 0..255 /\ n = 256 * high + low
  OBVIOUS
<1> HIDE DEF high, low
<1>2. part = IF high <= m + 1 THEN high ELSE m + 1
  BY <1>1, MinIs
<1>3. part \in Nat
  BY <1>1, <1>2
<1> HIDE DEF part
<1>4. 256 * part + low \in Nat /\ m + 1 \in Nat
  BY <1>1, <1>3
<1>5. Ws!Min({256 * part + low, m + 1}) = IF 256 * part + low <= m + 1 THEN 256 * part + low ELSE m + 1
  BY <1>4, MinIs
<1> DEFINE sum == 256 * part + low
           least == Ws!Min({sum, m + 1})
<1>6. (n <= m => least = n) /\ (~(n <= m) => ~(least <= m))
  <2>1. least = IF sum <= m + 1 THEN sum ELSE m + 1
    BY <1>5
  <2> HIDE DEF least
  <2>2. CASE high <= m + 1
    <3>1. sum = n
      BY <1>1, <1>2, <2>2
    <3> HIDE DEF sum
    <3> QED
      BY <2>1, <3>1
  <2>3. CASE ~(high <= m + 1)
    <3>1. sum > m + 1 /\ n > m /\ sum \in Nat
      BY <1>1, <1>2, <2>3
    <3> HIDE DEF sum
    <3> QED
      BY <2>1, <3>1
  <2> QED
    BY <2>2, <2>3
<1>7. high \in Nat /\ low \in Nat
  BY <1>1
<1> HIDE DEF least
<1> QED
  BY <1>3, <1>6, <1>7, Zenon DEF high, low, part, sum, least

(* The bytes of a longer length. *)
LEMMA LengthBytes ==
  ASSUME NEW f \in Frames, NEW i \in 2..FormSize(f), NEW p, OnWay(p, f, i)
  PROVE  ByteRead(Ws!Step(p, Encoded[f][i + 1]), f, i + 1)
<1> DEFINE k == FormSize(f)
           n == Len(f.payload)
           e == Encoded[f]
           b == LengthByte(f, i)
           m == MaxPayloadLength
           high == n \div 256
           low == n % 256
           part == Ws!Min({high, m + 1})
           length == Ws!Min({256 * p.length + b, m + 1})
           q == [p EXCEPT !.length = length, !.remain = @ - 1]
           r == [q EXCEPT !.state = "Lost"]
<1>1. /\ k \in {3, 9} /\ MaskSize \in Nat /\ MaskSize > 0 /\ HeadSize(f) = 1 + k + MaskSize
      /\ m \in Nat /\ n \in Nat /\ i \in Nat
  BY FrameSizes
<1>2. i < HeadSize(f) /\ i # 0 /\ i # 1 /\ i > 1 /\ i > 0 /\ i <= k
  BY <1>1
<1>3. /\ IsWs(p) /\ p.error = "none" /\ p.returned = FALSE /\ p.data \in Seq(Nat) /\ Len(p.data) = 0
      /\ p.fin = f.fin /\ p.opcode = f.opcode /\ f.masked
      /\ p.state \in {"PayloadLen16", "PayloadLen64"} /\ p.remain = 1 + k - i
      /\ p.length = IF i = k THEN part ELSE 0
  BY <1>2 DEF OnWay
<1>4. e[i + 1] = b /\ Len(e) = HeadSize(f) + n
  <2>1. e[1 + i] = b
    BY <1>3, EncodedAre
  <2>2. 1 + i = i + 1
    BY <1>1
  <2>3. Len(e) = HeadSize(f) + n
    BY <1>3, FrameSizes
  <2> QED
    BY <2>1, <2>2, <2>3
<1>5. /\ high \in Nat /\ low \in Nat /\ part \in Nat
      /\ n <= m => Ws!Min({256 * part + low, m + 1}) = n
      /\ ~(n <= m) => ~(Ws!Min({256 * part + low, m + 1}) <= m)
  <2> HIDE DEF n, m, k, e, b
  <2>1. n \in Nat /\ m \in Nat
    BY <1>1
  <2>2. n \div 256 \in Nat
    BY ONLY <2>1
  <2>3. n % 256 \in Nat
    BY ONLY <2>1
  <2>4. Ws!Min({n \div 256, m + 1}) \in Nat
    BY <2>1, LengthOfBytes, ZenonT(60)
  <2>5. n <= m => Ws!Min({256 * Ws!Min({n \div 256, m + 1}) + (n % 256), m + 1}) = n
    BY <2>1, LengthOfBytes, ZenonT(60)
  <2>6. ~(n <= m) => ~(Ws!Min({256 * Ws!Min({n \div 256, m + 1}) + (n % 256), m + 1}) <= m)
    BY <2>1, LengthOfBytes, ZenonT(60)
  <2> QED
    BY <2>2, <2>3, <2>4, <2>5, <2>6, Zenon
<1>6. b = IF i = k THEN low ELSE IF i = k - 1 THEN high ELSE 0
  BY <1>2 DEF LengthByte
<1>7. Ws!Step(p, b) = Ws!PayloadLen(p, b)
  BY <1>3 DEF Ws!Step
<1>8. Ws!PayloadLen(p, b) =
        IF q.remain # 0 THEN q
        ELSE IF length > m THEN Ws!Refused(r, "PAYLOAD_TOO_BIG")
        ELSE Ws!WithLength(q, length)
  BY DEF Ws!PayloadLen
<1> HIDE DEF k, n, e, b, m, high, low, part
<1>9. /\ i = k => length = Ws!Min({256 * part + low, m + 1})
      /\ i = k - 1 => length = part
      /\ i < k - 1 => length = 0
  <2>1. i = k => length = Ws!Min({256 * part + low, m + 1})
    BY <1>3, <1>6
  <2>2. ASSUME i = k - 1 PROVE length = part
    <3>1. i # k /\ 256 * 0 + b = high
      BY <1>1, <1>5, <1>6, <2>2
    <3>2. length = Ws!Min({256 * 0 + b, m + 1})
      BY <1>3, <3>1
    <3> QED
      BY <3>1, <3>2 DEF part
  <2>3. ASSUME i < k - 1 PROVE length = 0
    <3>1. i # k /\ i # k - 1 /\ 256 * 0 + b = 0
      BY <1>1, <1>6, <2>3
    <3>2. length = Ws!Min({256 * 0 + b, m + 1})
      BY <1>3, <3>1
    <3>3. Ws!Min({0, m + 1}) = 0
      <4>1. 0 \in Nat /\ m + 1 \in Nat /\ 0 <= m + 1
        BY <1>1
      <4> QED
        BY <4>1, MinIs
    <3> QED
      BY <3>1, <3>2, <3>3
  <2> HIDE DEF length
  <2> QED
    BY <2>1, <2>2, <2>3
<1> HIDE DEF length
<1>10. /\ IsWs(q) /\ q.state = p.state /\ q.length = length /\ q.remain = p.remain - 1
       /\ q.data = p.data /\ q.error = p.error /\ q.returned = p.returned /\ q.fin = p.fin
       /\ q.opcode = p.opcode
  BY <1>3 DEF IsWs, WsParts
<1> HIDE DEF q
<1>11. Refusing(Ws!Refused(r, "PAYLOAD_TOO_BIG"))
  <2> DEFINE s == Ws!Refused(r, "PAYLOAD_TOO_BIG")
  <2>1. IsWs(s) /\ s.state = "Lost" /\ s.error = "PAYLOAD_TOO_BIG" /\ s.returned = TRUE
    BY <1>10 DEF Ws!Refused, IsWs, WsParts
  <2> HIDE DEF s
  <2> QED
    BY <2>1 DEF Refusing, s
<1> HIDE DEF r
<1>12. i + 1 < Len(e)
  BY <1>1, <1>2, <1>4
<1>13. CASE i = k
  <2>1. q.remain = 0
    BY <1>1, <1>3, <1>10, <1>13
  <2>2. CASE n <= m
    <3>1. length = n /\ ~(length > m)
      BY <1>1, <1>5, <1>9, <1>13, <2>2
    <3>2. Ws!Step(p, b) = Ws!WithLength(q, n)
      BY <1>7, <1>8, <2>1, <3>1, Zenon
    <3>3. OnWay(Ws!WithLength(q, n), f, 1 + k)
      BY <1>3, <1>10, <2>2, LengthKnown DEF n, k, m
    <3>4. i + 1 = 1 + k
      BY <1>1, <1>13
    <3> QED
      BY <1>4, <1>12, <3>2, <3>3, <3>4 DEF ByteRead, b, e
  <2>3. CASE ~(n <= m)
    <3>1. length > m
      <4>1. ~(length <= m)
        BY <1>5, <1>9, <1>13, <2>3
      <4>2. length \in Nat
        <5>1. 256 * part + low \in Nat /\ m + 1 \in Nat
          BY <1>1, <1>5
        <5> QED
          BY <1>9, <1>13, <5>1, MinType
      <4> QED
        BY <1>1, <4>1, <4>2
    <3>2. Ws!Step(p, b) = Ws!Refused(r, "PAYLOAD_TOO_BIG")
      BY <1>7, <1>8, <2>1, <3>1, Zenon
    <3> QED
      BY <1>4, <1>11, <3>2 DEF ByteRead, b, e
  <2> QED
    BY <2>2, <2>3
<1>14. CASE i # k
  <2> DEFINE j == i + 1
  <2>1. q.remain # 0 /\ q.remain = 1 + k - j
    BY <1>1, <1>2, <1>3, <1>10, <1>14
  <2>2. Ws!Step(p, b) = q
    BY <1>7, <1>8, <2>1, Zenon
  <2>3. length = IF j = k THEN part ELSE 0
    BY <1>1, <1>2, <1>9, <1>14
  <2>4. /\ j < HeadSize(f) /\ j > 1 /\ j # 0 /\ j # 1 /\ j \in 2..k /\ ~(j >= HeadSize(f))
        /\ j \notin 1 + k..HeadSize(f) - 1
    BY <1>1, <1>2, <1>14
  <2> HIDE DEF j
  <2>5. OnWay(q, f, j)
    BY <1>3, <1>10, <2>1, <2>3, <2>4 DEF OnWay, k, n, m, part, high
  <2> QED
    BY <1>4, <1>12, <2>2, <2>5 DEF ByteRead, b, e, j
<1> QED
  BY <1>13, <1>14

(* The bytes of the masking key. *)
LEMMA KeyBytes ==
  ASSUME NEW f \in Frames, NEW i \in 1 + FormSize(f)..HeadSize(f) - 1, NEW p, OnWay(p, f, i)
  PROVE  ByteRead(Ws!Step(p, Encoded[f][i + 1]), f, i + 1)
<1> DEFINE k == FormSize(f)
           n == Len(f.payload)
           e == Encoded[f]
           h == HeadSize(f)
           b == Mask[i - k]
           q == [p EXCEPT !.mask = Append(@, b), !.remain = @ - 1]
           next == IF q.length # 0 THEN "PayloadData" ELSE "Done"
           r == [q EXCEPT !.state = next, !.remain = q.length]
<1>1. /\ k \in {1, 3, 9} /\ MaskSize \in Nat /\ MaskSize > 0 /\ h = 1 + k + MaskSize
      /\ n \in Nat /\ i \in Nat
  BY FrameSizes
<1>2. i < h /\ i # 0 /\ i # 1 /\ i > 1 /\ i > 0 /\ i - k \in 1..MaskSize /\ i - 1 - k \in Nat
  BY <1>1
<1>3. /\ IsWs(p) /\ p.error = "none" /\ p.returned = FALSE /\ p.data \in Seq(Nat) /\ Len(p.data) = 0
      /\ p.fin = f.fin /\ p.opcode = f.opcode /\ f.masked
      /\ p.state = "MaskingKey" /\ p.length = n /\ n <= MaxPayloadLength
      /\ p.remain = h - i
      /\ p.mask \in Seq(Nat) /\ Len(p.mask) = i - 1 - k
      /\ \A j \in 1..i - 1 - k : p.mask[j] = Mask[j]
  BY <1>2 DEF OnWay
<1>4. e[i + 1] = b /\ Len(e) = h + n
  <2>1. e[1 + k + (i - k)] = b
    BY <1>2, <1>3, EncodedAre
  <2>2. 1 + k + (i - k) = i + 1
    BY <1>1
  <2>3. Len(e) = h + n
    BY <1>3, FrameSizes
  <2> QED
    BY <2>1, <2>2, <2>3
<1>5. b \in Nat
  <2>1. b \in Byte
    BY <1>2, FrameIs
  <2> QED
    BY <2>1 DEF Byte
<1>6. Ws!Step(p, b) = Ws!MaskingKey(p, b)
  BY <1>3 DEF Ws!Step
<1>7. Ws!MaskingKey(p, b) = IF q.remain # 0 THEN q ELSE r
  BY DEF Ws!MaskingKey
<1>15. i - k = i - 1 - k + 1
  BY <1>1
<1>16. b = Mask[i - k]
  OBVIOUS
<1> HIDE DEF k, n, e, b, h
<1>8. /\ IsWs(q) /\ q.state = "MaskingKey" /\ q.length = p.length /\ q.remain = p.remain - 1
      /\ q.data = p.data /\ q.error = p.error /\ q.returned = p.returned /\ q.fin = p.fin
      /\ q.opcode = p.opcode /\ q.mask = Append(p.mask, b)
  BY <1>3 DEF IsWs, WsParts
<1> HIDE DEF q
<1>9. /\ q.mask \in Seq(Nat) /\ Len(q.mask) = i - k
      /\ \A j \in 1..i - k : q.mask[j] = Mask[j]
  <2> DEFINE x == i - 1 - k
             t == Append(p.mask, b)
  <2>1. x \in Nat /\ Len(p.mask) = x /\ i - k = x + 1
    BY <1>2, <1>3, <1>15
  <2> HIDE DEF x
  <2>2. t \in Seq(Nat) /\ Len(t) = x + 1 /\ t[x + 1] = b /\ \A j \in 1..x : t[j] = p.mask[j]
    BY <1>3, <1>5, <2>1
  <2> HIDE DEF t
  <2>3. \A j \in 1..x : p.mask[j] = Mask[j]
    BY <1>3 DEF x
  <2>4. \A j \in 1..(x + 1) : t[j] = Mask[j]
    BY <1>16, <2>1, <2>2, <2>3
  <2> QED
    BY <1>8, <2>1, <2>2, <2>4 DEF t
<1> DEFINE j == i + 1
<1>10. CASE i # h - 1
  <2>1. q.remain # 0 /\ q.remain = h - j
    BY <1>1, <1>2, <1>3, <1>8, <1>10
  <2>2. Ws!Step(p, b) = q
    BY <1>6, <1>7, <2>1, Zenon
  <2>3. /\ j < h /\ j > 1 /\ j # 0 /\ j # 1 /\ j > 0 /\ j \notin 2..k /\ ~(j >= h)
        /\ j - 1 - k = i - k /\ j < h + n
    BY <1>1, <1>2, <1>10
  <2> HIDE DEF j
  <2>4. OnWay(q, f, j)
    BY <1>3, <1>8, <1>9, <2>1, <2>3 DEF OnWay, k, n, h
  <2> QED
    BY <1>4, <2>2, <2>3, <2>4 DEF ByteRead, b, e, j
<1>11. CASE i = h - 1
  <2>1. q.remain = 0 /\ j = h /\ i - k = MaskSize
    BY <1>1, <1>2, <1>3, <1>8, <1>11
  <2>2. Ws!Step(p, b) = r
    BY <1>6, <1>7, <2>1, Zenon
  <2>3. /\ IsWs(r) /\ r.state = next /\ r.length = q.length /\ r.remain = q.length
        /\ r.data = q.data /\ r.error = q.error /\ r.returned = q.returned /\ r.fin = q.fin
        /\ r.opcode = q.opcode /\ r.mask = q.mask
    BY <1>8 DEF IsWs, WsParts
  <2> HIDE DEF r
  <2>4. \A x \in 1..MaskSize : r.mask[x] = Mask[x]
    BY <1>9, <2>1, <2>3
  <2>5. /\ ~(h < h) /\ h > 1 /\ h # 0 /\ h # 1 /\ h > 0 /\ h \notin 2..k /\ h >= h
        /\ h \notin 1 + k..h - 1 /\ h + n - h = n /\ h - h = 0
    BY <1>1
  <2>6. CASE n = 0
    <3>1. r.state = "Done" /\ Len(e) = j
      BY <1>1, <1>3, <1>4, <1>8, <2>1, <2>3, <2>6
    <3>2. r.data = f.payload
      <4>1. f.payload \in Seq(Byte) /\ Len(f.payload) = 0
        BY <2>6, FrameIs DEF n
      <4>2. r.data \in Seq(Nat) /\ Len(r.data) = 0
        BY <1>3, <1>8, <2>3
      <4>3. f.payload = <<>>
        <5> DEFINE s == f.payload
        <5> HIDE DEF s
        <5>1. s \in Seq(Byte) /\ Len(s) = 0
          BY <4>1 DEF s
        <5>2. s = <<>>
          BY <5>1
        <5> QED
          BY <5>2 DEF s
      <4>4. r.data = <<>>
        <5> DEFINE s == r.data
        <5> HIDE DEF s
        <5>1. s \in Seq(Nat) /\ Len(s) = 0
          BY <4>2 DEF s
        <5>2. s = <<>>
          BY <5>1
        <5> QED
          BY <5>2 DEF s
      <4> QED
        BY <4>3, <4>4, Zenon
    <3>3. AtEnd(r, f)
      BY <1>3, <1>8, <2>3, <3>1, <3>2 DEF AtEnd, n
    <3> QED
      BY <1>4, <2>2, <3>1, <3>3 DEF ByteRead, b, e, j
  <2>7. CASE n # 0
    <3>1. r.state = "PayloadData" /\ j < Len(e)
      BY <1>1, <1>3, <1>4, <1>8, <2>1, <2>3, <2>7
    <3>2. OnWay(r, f, h)
      <4>1. /\ IsWs(r) /\ r.error = "none" /\ r.returned = FALSE /\ r.data \in Seq(Nat)
            /\ r.fin = f.fin /\ r.opcode = f.opcode /\ f.masked
        BY <1>3, <1>8, <2>3
      <4>2. /\ r.length = n /\ n <= MaxPayloadLength /\ r.remain = h + n - h /\ Len(r.data) = h - h
        BY <1>3, <1>8, <2>3, <2>5
      <4>3. \A x \in 1..h - h : r.data[x] = f.payload[x]
        BY <2>5
      <4> QED
        BY <2>4, <2>5, <3>1, <4>1, <4>2, <4>3 DEF OnWay, k, n, h
    <3> QED
      BY <1>4, <2>1, <2>2, <3>1, <3>2 DEF ByteRead, b, e, j
  <2> QED
    BY <2>6, <2>7
<1> QED
  BY <1>10, <1>11

(* The bytes of the payload. *)
LEMMA PayloadBytes ==
  ASSUME NEW f \in Frames, NEW i \in Nat, i >= HeadSize(f), i < Len(Encoded[f]), NEW p, OnWay(p, f, i)
  PROVE  ByteRead(Ws!Step(p, Encoded[f][i + 1]), f, i + 1)
<1> DEFINE k == FormSize(f)
           n == Len(f.payload)
           e == Encoded[f]
           h == HeadSize(f)
           d == i - h
           key == Mask[(d % MaskSize) + 1]
           b == Ws!Xor(f.payload[d + 1], key)
           x == Ws!Xor(b, p.mask[((p.length - p.remain) % MaskSize) + 1])
           q == [p EXCEPT !.data = Append(@, x), !.remain = @ - 1]
           r == [q EXCEPT !.state = "Done"]
<1>1. /\ k \in {1, 3, 9} /\ MaskSize \in Nat /\ MaskSize > 0 /\ h \in Nat /\ h = 1 + k + MaskSize
      /\ n \in Nat
  BY FrameSizes
<1>2. /\ ~(i < h) /\ i # 0 /\ i # 1 /\ i > 1 /\ i > 0 /\ d \in Nat /\ i \notin 2..k
      /\ i \notin 1 + k..h - 1
  BY <1>1
<1>3. /\ IsWs(p) /\ p.error = "none" /\ p.returned = FALSE /\ p.data \in Seq(Nat)
      /\ p.fin = f.fin /\ p.opcode = f.opcode /\ f.masked
      /\ p.state = "PayloadData" /\ p.length = n /\ n <= MaxPayloadLength
      /\ p.remain = h + n - i
      /\ \A j \in 1..MaskSize : p.mask[j] = Mask[j]
      /\ Len(p.data) = d
      /\ \A j \in 1..d : p.data[j] = f.payload[j]
  BY <1>2 DEF OnWay
<1>4. Len(e) = h + n
  BY <1>3, FrameSizes
<1>5. d + 1 \in 1..n /\ (d + 1) - 1 = d /\ p.length - p.remain = d
  <2>1. i < h + n /\ p.length - p.remain = n - (h + n - i)
    BY <1>3, <1>4
  <2> HIDE DEF k, n, h, e
  <2> QED
    BY <1>1, <1>2, <2>1
<1>6. e[i + 1] = b
  <2>1. \A j \in 1..n : e[h + j] = Ws!Xor(f.payload[j], Mask[((j - 1) % MaskSize) + 1])
    BY <1>3, EncodedAre
  <2>2. h + (d + 1) = i + 1
    BY <1>1, <1>2
  <2> HIDE DEF n, e, h, d
  <2>3. e[h + (d + 1)] = Ws!Xor(f.payload[d + 1], Mask[(((d + 1) - 1) % MaskSize) + 1])
    BY <1>5, <2>1
  <2>4. e[h + (d + 1)] = b
    BY <1>5, <2>3
  <2> QED
    BY <2>2, <2>4
<1>7. f.payload[d + 1] \in 0..255 /\ key \in 0..255 /\ p.mask[(d % MaskSize) + 1] = key
  <2>1. (d % MaskSize) + 1 \in 1..MaskSize
    <3> HIDE DEF d
    <3> QED
      BY <1>1, <1>2
  <2>2. f.payload[d + 1] \in Byte /\ Mask[(d % MaskSize) + 1] \in Byte
    BY <1>5, <2>1, FrameIs
  <2> QED
    BY <1>3, <2>1, <2>2 DEF Byte
<1>8. x = f.payload[d + 1] /\ x \in Nat
  <2>1. Ws!Xor(b, key) = f.payload[d + 1]
    <3> DEFINE c == f.payload[d + 1]
    <3> HIDE DEF c, key
    <3>1. c \in 0..255 /\ key \in 0..255
      BY <1>7 DEF c
    <3> QED
      BY <3>1, XorTwice DEF c
  <2>2. x = Ws!Xor(b, key)
    BY <1>5, <1>7
  <2>3. f.payload[d + 1] \in 0..255
    BY <1>7
  <2> HIDE DEF d, key, b, x
  <2>4. f.payload[d + 1] \in Nat
    <3> DEFINE c == f.payload[d + 1]
    <3>1. c \in 0..255
      BY <2>3
    <3> HIDE DEF c
    <3>2. c \in Nat
      BY <3>1
    <3> QED
      BY <3>2 DEF c
  <2> QED
    BY <2>1, <2>2, <2>4, Zenon
<1>9. Ws!Step(p, b) = Ws!PayloadData(p, b)
  BY <1>3 DEF Ws!Step
<1>10. Ws!PayloadData(p, b) = IF q.remain = 0 THEN r ELSE q
  BY DEF Ws!PayloadData
<1>11. i + 1 - h = d + 1 /\ h + n - (i + 1) = p.remain - 1 /\ p.remain - 1 = n - (d + 1)
  <2>1. n \in Nat /\ h \in Nat /\ p.remain = h + n - i /\ d = i - h
    BY <1>1, <1>3
  <2> HIDE DEF n, h, d
  <2>2. \A a, c, l \in Nat : /\ (a + 1) - c = (a - c) + 1
                            /\ (c + l) - (a + 1) = ((c + l) - a) - 1
                            /\ ((c + l) - a) - 1 = l - ((a - c) + 1)
    OBVIOUS
  <2>3. i + 1 - h = d + 1 /\ h + n - (i + 1) = p.remain - 1
    BY <2>1, <2>2
  <2>4. p.remain - 1 = n - (d + 1)
    BY <2>1, <2>2
  <2> QED
    BY <2>3, <2>4
<1> HIDE DEF k, n, e, h, d, b, x
<1>12. /\ IsWs(q) /\ q.state = "PayloadData" /\ q.length = p.length /\ q.remain = p.remain - 1
       /\ q.data = Append(p.data, x) /\ q.error = p.error /\ q.returned = p.returned
       /\ q.fin = p.fin /\ q.opcode = p.opcode /\ q.mask = p.mask
  BY <1>3 DEF IsWs, WsParts
<1> HIDE DEF q
<1>13. /\ IsWs(r) /\ r.state = "Done" /\ r.data = q.data /\ r.error = q.error /\ r.fin = q.fin
       /\ r.opcode = q.opcode
  BY <1>12 DEF IsWs, WsParts
<1> HIDE DEF r
<1>14. /\ q.data \in Seq(Nat) /\ Len(q.data) = d + 1
       /\ \A j \in 1..d + 1 : q.data[j] = f.payload[j]
  <2> DEFINE t == Append(p.data, x)
             s == p.data
  <2>1. s \in Seq(Nat) /\ Len(s) = d /\ d \in Nat /\ x \in Nat /\ t = Append(s, x)
    BY <1>2, <1>3, <1>8
  <2> HIDE DEF s, t
  <2>2. t \in Seq(Nat) /\ Len(t) = d + 1 /\ t[d + 1] = x /\ \A j \in 1..d : t[j] = s[j]
    BY <2>1
  <2>3. \A j \in 1..d : s[j] = f.payload[j]
    BY <1>3 DEF s
  <2>4. \A j \in 1..d + 1 : j = d + 1 \/ j \in 1..d
    BY <2>1
  <2>5. \A j \in 1..d + 1 : t[j] = f.payload[j]
    BY <1>8, <2>2, <2>3, <2>4
  <2> QED
    BY <1>12, <2>2, <2>5 DEF t
<1> DEFINE j == i + 1
<1>15. /\ ~(j < h) /\ j > 1 /\ j # 0 /\ j # 1 /\ j > 0 /\ j \notin 2..k /\ j >= h
       /\ j \notin 1 + k..h - 1 /\ j \in Nat
  BY <1>1, <1>2
<1>16. CASE q.remain = 0
  <2>1. Ws!Step(p, b) = r
    BY <1>9, <1>10, <1>16, Zenon
  <2>2. j = Len(e) /\ n = d + 1
    BY <1>1, <1>2, <1>3, <1>4, <1>11, <1>12, <1>16
  <2>3. r.data = f.payload
    <3> DEFINE s == f.payload
               t == r.data
    <3>1. s \in Seq(Byte) /\ \A l \in 1..Len(s) : s[l] \in Byte
      BY FrameIs
    <3>2. Len(s) = n
      BY DEF n
    <3> HIDE DEF s
    <3>3. s \in Seq(Nat)
      <4>1. Byte \subseteq Nat
        BY DEF Byte
      <4>2. \A l \in 1..Len(s) : s[l] \in Nat
        BY <3>1, <4>1
      <4>3. s = [l \in 1..Len(s) |-> s[l]] /\ Len(s) \in Nat
        BY <3>1
      <4> QED
        BY <4>2, <4>3
    <3>4. t \in Seq(Nat) /\ Len(t) = n /\ \A l \in 1..n : t[l] = s[l]
      BY <1>13, <1>14, <2>2 DEF s
    <3> HIDE DEF t
    <3>5. t = s
      BY <3>2, <3>3, <3>4, SeqEqual
    <3> QED
      BY <3>5 DEF s, t
  <2>4. AtEnd(r, f)
    BY <1>3, <1>12, <1>13, <2>3 DEF AtEnd, n
  <2> QED
    BY <1>6, <2>1, <2>2, <2>4 DEF ByteRead, b, e
<1>17. CASE q.remain # 0
  <2>1. Ws!Step(p, b) = q
    BY <1>9, <1>10, <1>17, Zenon
  <2>2. j < Len(e)
    BY <1>1, <1>2, <1>3, <1>4, <1>5, <1>11, <1>12, <1>17
  <2>3. j - h = d + 1 /\ h + n - j = q.remain
    BY <1>1, <1>2, <1>3, <1>11, <1>12
  <2> HIDE DEF j
  <2>4. /\ IsWs(q) /\ q.error = "none" /\ q.returned = FALSE /\ q.data \in Seq(Nat)
        /\ q.fin = f.fin /\ q.opcode = f.opcode /\ f.masked
        /\ q.state = "PayloadData" /\ q.length = n /\ n <= MaxPayloadLength
        /\ q.remain = h + n - j
        /\ \A l \in 1..MaskSize : q.mask[l] = Mask[l]
        /\ Len(q.data) = j - h
        /\ \A l \in 1..j - h : q.data[l] = f.payload[l]
    BY <1>3, <1>12, <1>14, <2>3
  <2>5. OnWay(q, f, j)
    BY <1>15, <2>4 DEF OnWay, k, n, h
  <2> QED
    BY <1>6, <2>1, <2>2, <2>5 DEF ByteRead, b, e, j
<1> QED
  BY <1>16, <1>17

(* A byte of a frame: the parser goes on, refuses the frame, or has it.     *)
LEMMA FrameBytes ==
  ASSUME NEW f \in Frames, NEW i \in Nat, i < Len(Encoded[f]), NEW p, OnWay(p, f, i)
  PROVE  /\ ByteRead(Ws!Step(p, Encoded[f][i + 1]), f, i + 1)
         /\ p.state \notin {"Done", "Lost"} /\ p.error = "none" /\ p.returned = FALSE
<1> DEFINE k == FormSize(f)
           h == HeadSize(f)
<1>1. k \in {1, 3, 9} /\ MaskSize \in Nat /\ h \in Nat /\ h = 1 + k + MaskSize
  BY FrameSizes
<1> HIDE DEF k, h
<1>2. i \in {0, 1} \/ i \in 2..k \/ i \in 1 + k..h - 1 \/ i >= h
  BY <1>1
<1>3. ByteRead(Ws!Step(p, Encoded[f][i + 1]), f, i + 1)
  BY <1>2, HeadBytes, LengthBytes, KeyBytes, PayloadBytes DEF k, h
<1>4. p.error = "none" /\ p.returned = FALSE
  BY DEF OnWay
<1>5. p.state \notin {"Done", "Lost"}
  BY <1>2 DEF OnWay, k, h
<1> QED
  BY <1>3, <1>4, <1>5

-----------------------------------------------------------------------------
(* What frames amount to, and the handler that follows them. *)

(* What is made of frames: a record of these fields.                        *)
MadeParts == {"messages", "text", "begun", "end"}
Made(m) == m = [part \in MadeParts |-> m[part]] /\ IsSeq(m.messages)

(* Opcodes of data frames that begin a message, and those that the handler *)
(* knows.                                                                  *)
Begins(f) == f.opcode \in {Ws!TEXT, Ws!BINARY}
Known == {Ws!CONTINUED, Ws!TEXT, Ws!BINARY, Ws!CLOSE, Ws!PING, Ws!PONG}
Fits(m, f) == m.begun /\ ~(Len(m.text) + Len(f.payload) > MaxPayloadLength)

(* What a frame that the parser accepts adds to a message.                  *)
Joining(m, f) == \/ f.opcode = Ws!CONTINUED /\ Fits(m, f)
                 \/ Begins(f) /\ ~m.begun

(* The frames one by one, as RFC 6455 has it. *)
LEMMA NextFrameIs ==
  ASSUME NEW m, Made(m), NEW f
  PROVE  LET n == NextFrame(m, f)
         IN /\ Made(n)
            /\ n.messages = m.messages \/ \E x : n.messages = Append(m.messages, x)
            /\ m.end # "none" => n = m
            /\ m.end = "none" /\ f.masked /\ ~(Len(f.payload) > MaxPayloadLength) =>
                 /\ \/ f.opcode \notin Known
                    \/ f.opcode = Ws!CONTINUED /\ ~Fits(m, f)
                    => n.end = "fault" /\ n.messages = m.messages
                 /\ f.opcode = Ws!CLOSE => n.end = "close" /\ n.messages = m.messages
                 /\ f.opcode \in {Ws!PING, Ws!PONG} => n = m
                 /\ Begins(f) /\ m.begun => n.end = "interrupted"
                 /\ Joining(m, f) /\ f.fin =>
                      /\ n.messages = Append(m.messages, m.text \o f.payload)
                      /\ n.text = <<>> /\ n.begun = FALSE /\ n.end = "none"
                 /\ Joining(m, f) /\ ~f.fin =>
                      /\ n.messages = m.messages /\ n.text = m.text \o f.payload
                      /\ n.begun = TRUE /\ n.end = "none"
<1> DEFINE none == <<>>
           text == m.text \o f.payload
           Ended(e) == [m EXCEPT !.end = e]
           whole == [m EXCEPT !.text = none, !.begun = FALSE, !.messages = Append(@, text)]
           part == [m EXCEPT !.text = text, !.begun = TRUE]
           n == NextFrame(m, f)
<1>1. n = IF m.end # "none" THEN m
          ELSE IF Faulty(m, f) THEN Ended("fault")
          ELSE IF f.opcode = Ws!CLOSE THEN Ended("close")
          ELSE IF Ws!IsControl(f.opcode) THEN m
          ELSE IF m.begun /\ f.opcode # Ws!CONTINUED THEN Ended("interrupted")
          ELSE IF f.fin THEN whole ELSE part
  BY Zenon DEF NextFrame
<1>2. \A e : Made(Ended(e)) /\ Ended(e).messages = m.messages /\ Ended(e).end = e
  BY DEF Made, MadeParts
<1> HIDE DEF text, none
<1>3. /\ Made(whole) /\ whole.messages = Append(m.messages, text) /\ whole.text = none
      /\ whole.begun = FALSE /\ whole.end = m.end
  <2>1. IsSeq(Append(m.messages, text))
    BY SeqGrows DEF Made
  <2> QED
    BY <2>1 DEF Made, MadeParts
<1>4. /\ Made(part) /\ part.messages = m.messages /\ part.text = text /\ part.begun = TRUE
      /\ part.end = m.end
  BY DEF Made, MadeParts
<1> HIDE DEF Ended, whole, part, n
<1>5. n \in {m, Ended("fault"), Ended("close"), Ended("interrupted"), whole, part}
  BY <1>1, Zenon
<1>6. Made(n)
  BY <1>2, <1>3, <1>4, <1>5
<1>7. n.messages = m.messages \/ \E x : n.messages = Append(m.messages, x)
  BY <1>2, <1>3, <1>4, <1>5
<1>8. m.end # "none" => n = m
  BY <1>1, Zenon
<1>9. ASSUME m.end = "none", f.masked, ~(Len(f.payload) > MaxPayloadLength)
      PROVE  /\ \/ f.opcode \notin Known
                \/ f.opcode = Ws!CONTINUED /\ ~Fits(m, f)
                => n.end = "fault" /\ n.messages = m.messages
             /\ f.opcode = Ws!CLOSE => n.end = "close" /\ n.messages = m.messages
             /\ f.opcode \in {Ws!PING, Ws!PONG} => n = m
             /\ Begins(f) /\ m.begun => n.end = "interrupted"
             /\ Joining(m, f) /\ f.fin =>
                  /\ n.messages = Append(m.messages, text)
                  /\ n.text = none /\ n.begun = FALSE /\ n.end = "none"
             /\ Joining(m, f) /\ ~f.fin =>
                  /\ n.messages = m.messages /\ n.text = text
                  /\ n.begun = TRUE /\ n.end = "none"
  <2>1. Faulty(m, f) <=> (f.opcode \notin Known \/ (f.opcode = Ws!CONTINUED /\ ~Fits(m, f)))
    BY <1>9, Zenon DEF Faulty, Known, Fits
  <2> DEFINE o == f.opcode
  <2>2. /\ o = Ws!CLOSE => o \in Known /\ o # Ws!CONTINUED
        /\ o \in {Ws!PING, Ws!PONG} =>
             o \in Known /\ o # Ws!CONTINUED /\ o # Ws!CLOSE /\ Ws!IsControl(o)
        /\ Begins(f) => o \in Known /\ o # Ws!CONTINUED /\ o # Ws!CLOSE /\ ~Ws!IsControl(o)
        /\ o = Ws!CONTINUED => o \in Known /\ ~Begins(f) /\ o # Ws!CLOSE /\ ~Ws!IsControl(o)
    BY DEF Known, Begins, Ws!CONTINUED, Ws!TEXT, Ws!BINARY, Ws!CLOSE, Ws!PING, Ws!PONG, Ws!IsControl
  <2>3. Faulty(m, f) => n.end = "fault" /\ n.messages = m.messages
    <3>1. Faulty(m, f) => n = Ended("fault")
      BY <1>1, <1>9, Zenon
    <3> QED
      BY <1>2, <3>1
  <2>4. o = Ws!CLOSE => n.end = "close" /\ n.messages = m.messages
    <3>1. o = Ws!CLOSE => n = Ended("close")
      BY <1>1, <1>9, <2>1, <2>2, Zenon
    <3> QED
      BY <1>2, <3>1
  <2>5. o \in {Ws!PING, Ws!PONG} => n = m
    BY <1>1, <1>9, <2>1, <2>2, Zenon
  <2>6. Begins(f) /\ m.begun => n.end = "interrupted"
    <3>1. Begins(f) /\ m.begun => n = Ended("interrupted")
      BY <1>1, <1>9, <2>1, <2>2, Zenon
    <3> QED
      BY <1>2, <3>1
  <2>7. Joining(m, f) => n = IF f.fin THEN whole ELSE part
    <3>1. Joining(m, f) => ~Faulty(m, f) /\ o # Ws!CLOSE /\ ~Ws!IsControl(o)
                           /\ ~(m.begun /\ o # Ws!CONTINUED)
      BY <2>1, <2>2, Zenon DEF Joining
    <3> QED
      BY <1>1, <1>9, <3>1, Zenon
  <2>8. ASSUME Joining(m, f), f.fin
        PROVE  n.messages = Append(m.messages, text) /\ n.text = none /\ n.begun = FALSE /\ n.end = "none"
    <3>1. n = whole
      BY <2>7, <2>8, Zenon
    <3> QED
      BY <1>3, <1>9, <3>1
  <2>9. ASSUME Joining(m, f), ~f.fin
        PROVE  n.messages = m.messages /\ n.text = text /\ n.begun = TRUE /\ n.end = "none"
    <3>1. n = part
      BY <2>7, <2>9, Zenon
    <3> QED
      BY <1>4, <1>9, <3>1
  <2> QED
    BY <2>1, <2>3, <2>4, <2>5, <2>6, <2>8, <2>9, Zenon
<1> QED
  BY <1>6, <1>7, <1>8, <1>9, Zenon DEF n, text, none

(* A sequence is a prefix of itself. *)
LEMMA PrefixOfItself ==
  ASSUME NEW t, IsSeq(t)
  PROVE  IsPrefix(t, t)
<1>1. PICK T : t \in Seq(T)
  BY Zenon DEF IsSeq
<1> QED
  BY <1>1 DEF IsPrefix

(* A prefix is one of what follows, too. *)
LEMMA PrefixGoesOn ==
  ASSUME NEW d, IsSeq(d), NEW t, IsSeq(t), NEW x, IsPrefix(d, t)
  PROVE  IsPrefix(d, Append(t, x))
<1>1. PICK D : d \in Seq(D)
  BY Zenon DEF IsSeq
<1>2. PICK T : t \in Seq(T)
  BY Zenon DEF IsSeq
<1> DEFINE A == T \cup {x}
           a == Append(t, x)
<1>3. t \in Seq(A) /\ x \in A
  BY <1>2
<1>4. Len(d) \in Nat /\ Len(d) <= Len(t) /\ SubSeq(d, 1, Len(d)) = SubSeq(t, 1, Len(d))
  BY <1>1 DEF IsPrefix
<1> HIDE DEF A
<1>5. a \in Seq(A) /\ Len(a) = Len(t) + 1 /\ \A i \in 1..Len(t) : a[i] = t[i]
  BY <1>3
<1> HIDE DEF a
<1>6. SubSeq(a, 1, Len(d)) = SubSeq(t, 1, Len(d))
  BY <1>3, <1>4, <1>5
<1>7. Len(d) <= Len(a)
  BY <1>3, <1>4, <1>5
<1> QED
  BY <1>4, <1>6, <1>7 DEF IsPrefix, a

(* What is before the last of a sequence. *)
LEMMA FrontIs ==
  ASSUME NEW d, IsSeq(d), NEW x
  PROVE  Front(Append(d, x)) = d
<1>1. PICK D : d \in Seq(D)
  BY Zenon DEF IsSeq
<1>2. Front(Append(d, x)) = d
  <2> DEFINE A == D \cup {x}
             a == Append(d, x)
  <2>1. d \in Seq(A) /\ x \in A
    BY <1>1
  <2> HIDE DEF A
  <2>2. a \in Seq(A) /\ Len(a) = Len(d) + 1 /\ \A i \in 1..Len(d) : a[i] = d[i]
    BY <2>1
  <2> HIDE DEF a
  <2>3. Len(a) - 1 = Len(d)
    BY <2>1, <2>2
  <2>4. SubSeq(a, 1, Len(d)) = d
    BY <2>1, <2>2
  <2> QED
    BY <2>3, <2>4 DEF Front, a
<1> QED
  BY <1>2

(* The connection goes on: it is open and no close frame has been sent.     *)
Live(w) == w.conn.closed = "no" /\ w.handler.state # "Closing"

(* A call that gives the service nothing: no wait for a pong begins or      *)
(* ends the connection, and what is closed or closing stays so.             *)
Quiet(w, v) ==
  /\ v.delivered = w.delivered
  /\ v.handler.wait_pong => w.handler.wait_pong
  /\ w.conn.closed # "no" => v.conn.closed = w.conn.closed
  /\ v.conn.closed = "pong" => w.conn.closed = "pong"
  /\ w.handler.state = "Closing" => v.handler.state = "Closing"

(* close() *)
LEMMA ClosedIs ==
  ASSUME NEW w, WorkOK(w), NEW why \in Whys, why # "pong"
  PROVE  LET v == Closed(w, why)
         IN /\ Quiet(w, v) /\ v.handler = w.handler
            /\ v.conn.closed = IF w.conn.closed = "no" THEN why ELSE w.conn.closed
<1> DEFINE c == [w.conn EXCEPT !.closed = why]
           v == [w EXCEPT !.conn.closed = why]
<1>1. c.closed = why
  BY DEF WorkOK, ConnOK
<1>2. v.conn = c /\ v.handler = w.handler /\ v.delivered = w.delivered
  BY DEF WorkOK, IsWork, WorkParts
<1>3. Closed(w, why) = IF w.conn.closed = "no" THEN v ELSE w
  BY Zenon DEF Closed
<1> HIDE DEF c, v
<1> QED
  BY <1>1, <1>2, <1>3 DEF Quiet

(* A send is one, or closes. *)
LEMMA SentIs ==
  ASSUME NEW w, WorkOK(w), NEW n
  PROVE  LET v == Sent(w, n)
         IN /\ Quiet(w, v) /\ v.handler = w.handler
            /\ v.conn.closed = w.conn.closed \/ v.conn.closed = "no_buffer"
<1> DEFINE v == [w EXCEPT !.room = 0]
           u == [w EXCEPT !.room = w.room - n]
<1>1. Sent(w, n) = IF w.room < n THEN Closed(v, "no_buffer") ELSE u
  BY DEF Sent
<1>2. /\ v.conn = w.conn /\ v.handler = w.handler /\ v.delivered = w.delivered
      /\ u.conn = w.conn /\ u.handler = w.handler /\ u.delivered = w.delivered
  BY DEF WorkOK, IsWork, WorkParts
<1>3. WorkOK(v)
  BY RoomKept DEF Kept
<1> HIDE DEF v, u
<1> DEFINE c == Closed(v, "no_buffer")
<1>4. /\ Quiet(v, c) /\ c.handler = v.handler
      /\ c.conn.closed = IF v.conn.closed = "no" THEN "no_buffer" ELSE v.conn.closed
  BY <1>3, ClosedIs DEF Whys
<1> HIDE DEF c
<1>5. Sent(w, n) = IF w.room < n THEN c ELSE u
  BY <1>1 DEF c
<1> QED
  BY <1>2, <1>4, <1>5 DEF Quiet

(* A close frame, or no buffer for one. *)
LEMMA SendCloseFrameIs ==
  ASSUME NEW w, WorkOK(w)
  PROVE  LET v == SendCloseFrame(w)
         IN /\ Quiet(w, v) /\ ~Live(v)
            /\ v.handler.cache = w.handler.cache
            /\ v.handler.state # "Closing" =>
                 v.handler = w.handler /\ (w.conn.closed = "no" => v.conn.closed = "no_buffer")
<1> DEFINE u == Sent(w, 1)
           h == [u.handler EXCEPT !.state = "Closing"]
           v == [u EXCEPT !.handler = h]
           c == Closed(w, "no_buffer")
<1>1. Quiet(w, u) /\ u.handler = w.handler
  BY SentIs
<1>2. /\ Quiet(w, c) /\ c.handler = w.handler
      /\ c.conn.closed = IF w.conn.closed = "no" THEN "no_buffer" ELSE w.conn.closed
  BY ClosedIs DEF Whys
<1>3. SendCloseFrame(w) = IF w.room = 0 THEN c ELSE v
  BY DEF SendCloseFrame
<1>4. WorkOK(u)
  BY SentKept DEF Kept
<1> HIDE DEF u, c
<1>5. /\ h.state = "Closing" /\ h.cache = u.handler.cache
      /\ h.wait_pong = u.handler.wait_pong
  BY <1>4 DEF WorkOK, HandlerOK, IsHandler, HandlerParts
<1> HIDE DEF h
<1>6. v.handler = h /\ v.conn = u.conn /\ v.delivered = u.delivered
  BY <1>4 DEF WorkOK, IsWork, WorkParts
<1> HIDE DEF v
<1>7. Quiet(w, v) /\ v.handler.state = "Closing" /\ v.handler.cache = w.handler.cache
  BY <1>1, <1>5, <1>6 DEF Quiet
<1> DEFINE x == SendCloseFrame(w)
<1>8. x = c \/ x = v
  BY <1>3
<1>9. CASE x = c
  BY <1>2, <1>9 DEF Live
<1>10. CASE x = v
  BY <1>7, <1>10 DEF Live
<1> QED
  BY <1>8, <1>9, <1>10

(* A pong. *)
LEMMA PongIs ==
  ASSUME NEW w, WorkOK(w)
  PROVE  LET v == Pong(w)
         IN /\ Quiet(w, v) /\ ~v.handler.wait_pong
            /\ Live(v) => v.handler.state = w.handler.state /\ v.handler.cache = w.handler.cache
<1> DEFINE u == IF w.ws.data # PingPayload THEN SendCloseFrame(w) ELSE w
           h == [u.handler EXCEPT !.wait_pong = FALSE, !.timer = 0]
           v == [u EXCEPT !.handler = h]
<1>1. WorkOK(u) /\ Quiet(w, u) /\ (u = w \/ ~Live(u))
  <2>1. WorkOK(SendCloseFrame(w))
    BY SendCloseFrameKept DEF Kept
  <2>2. Quiet(w, SendCloseFrame(w)) /\ ~Live(SendCloseFrame(w))
    BY SendCloseFrameIs
  <2>3. Quiet(w, w)
    BY DEF Quiet
  <2> QED
    BY <2>1, <2>2, <2>3
<1>2. Pong(w) = IF ~w.handler.wait_pong THEN w
                ELSE [u EXCEPT !.handler.wait_pong = FALSE, !.handler.timer = 0]
  BY DEF Pong
<1> HIDE DEF u
<1>3. [u EXCEPT !.handler.wait_pong = FALSE, !.handler.timer = 0] = v
  BY <1>1 DEF WorkOK, IsWork, WorkParts
<1>4. h.state = u.handler.state /\ h.cache = u.handler.cache /\ h.wait_pong = FALSE
  BY <1>1 DEF WorkOK, HandlerOK, IsHandler, HandlerParts
<1> HIDE DEF h
<1>5. v.handler = h /\ v.conn = u.conn /\ v.delivered = u.delivered
  BY <1>1 DEF WorkOK, IsWork, WorkParts
<1> HIDE DEF v
<1>6. Quiet(w, v) /\ ~v.handler.wait_pong
  BY <1>1, <1>4, <1>5 DEF Quiet
<1>7. Live(v) => v.handler.state = w.handler.state /\ v.handler.cache = w.handler.cache
  BY <1>1, <1>4, <1>5 DEF Live
<1>8. Pong(w) = IF ~w.handler.wait_pong THEN w ELSE v
  BY <1>2, <1>3
<1>9. Quiet(w, w)
  BY DEF Quiet
<1> QED
  BY <1>6, <1>7, <1>8, <1>9

(* A control frame. *)
LEMMA ControlFrameIs ==
  ASSUME NEW w, WorkOK(w)
  PROVE  LET v == ControlFrameHandle(w)
         IN /\ Quiet(w, v)
            /\ Live(v) => /\ w.ws.opcode \in {Ws!PING, Ws!PONG}
                          /\ v.handler.state = w.handler.state /\ v.handler.cache = w.handler.cache
            /\ w.ws.opcode = Ws!PONG => ~v.handler.wait_pong
<1> DEFINE u == IF w.handler.state # "Closing" THEN SendCloseFrame(w) ELSE w
           c == Closed(u, "peer")
           v == ControlFrameHandle(w)
           o == w.ws.opcode
<1>1. WorkOK(u) /\ Quiet(w, u) /\ ~Live(u)
  <2>1. WorkOK(SendCloseFrame(w)) /\ Quiet(w, SendCloseFrame(w)) /\ ~Live(SendCloseFrame(w))
    BY SendCloseFrameKept, SendCloseFrameIs DEF Kept
  <2>2. Quiet(w, w) /\ (w.handler.state = "Closing" => ~Live(w))
    BY DEF Quiet, Live
  <2> QED
    BY <2>1, <2>2
<1> HIDE DEF u
<1>2. Quiet(w, c) /\ ~Live(c)
  <2>1. /\ Quiet(u, c) /\ c.conn.closed = IF u.conn.closed = "no" THEN "peer" ELSE u.conn.closed
    BY <1>1, ClosedIs DEF Whys
  <2> HIDE DEF c
  <2> QED
    BY <1>1, <2>1 DEF Quiet, Live
<1>3. v = CASE o = Ws!CLOSE -> c
            [] o = Ws!PING -> Sent(w, 1)
            [] o = Ws!PONG -> Pong(w)
            [] OTHER -> SendCloseFrame(w)
  BY DEF ControlFrameHandle, u
<1>4. Ws!CLOSE # Ws!PING /\ Ws!CLOSE # Ws!PONG /\ Ws!PING # Ws!PONG
  BY DEF Ws!CLOSE, Ws!PING, Ws!PONG
<1> HIDE DEF v, c, o
<1>5. CASE o = Ws!CLOSE
  <2>1. v = c
    BY <1>3, <1>4, <1>5
  <2> QED
    BY <1>2, <1>4, <1>5, <2>1 DEF v, o
<1>6. CASE o = Ws!PING
  <2>1. v = Sent(w, 1)
    BY <1>3, <1>4, <1>6
  <2>2. Quiet(w, v) /\ v.handler = w.handler
    BY <2>1, SentIs
  <2> QED
    BY <1>4, <1>6, <2>2 DEF v, o
<1>7. CASE o = Ws!PONG
  <2>1. v = Pong(w)
    BY <1>3, <1>4, <1>7
  <2> QED
    BY <1>7, <2>1, PongIs DEF v, o
<1>8. CASE o \notin {Ws!CLOSE, Ws!PING, Ws!PONG}
  <2>1. v = SendCloseFrame(w)
    BY <1>3, <1>8
  <2> QED
    BY <1>8, <2>1, SendCloseFrameIs DEF v, o
<1> QED
  BY <1>5, <1>6, <1>7, <1>8

(* A record with another handler. *)
LEMMA HandlerIs ==
  ASSUME NEW w, WorkOK(w), NEW h, NEW v, v = [w EXCEPT !.handler = h]
  PROVE  v.handler = h /\ v.conn = w.conn /\ v.delivered = w.delivered
<1> QED
  BY DEF WorkOK, IsWork, WorkParts

(* A continuation either fits the message or is answered by a close frame.  *)
LEMMA ContinueIs ==
  ASSUME NEW w, WorkOK(w), DataOK(w), Live(w)
  PROVE  LET v == Continue(w)
             fits == /\ w.handler.state = "Continued"
                     /\ ~(Len(w.handler.cache) + Len(w.ws.data) > MaxPayloadLength)
         IN /\ Quiet(w, v)
            /\ fits => /\ v.conn.closed = "no"
                       /\ v.handler.state = IF w.ws.fin THEN "Normal" ELSE "Continued"
                       /\ v.handler.cache = w.handler.cache \o w.ws.data
            /\ ~fits => ~Live(v) /\ (v.handler.state # "Closing" => v.conn.closed = "no_buffer")
<1> DEFINE state == IF w.ws.fin THEN "Normal" ELSE w.handler.state
           g == [w.handler EXCEPT !.state = state]
           whole == [w EXCEPT !.handler = g]
           cache == w.handler.cache \o w.ws.data
           h == [g EXCEPT !.cache = cache]
           v == [whole EXCEPT !.handler = h]
           long == Len(w.handler.cache) + Len(w.ws.data) > MaxPayloadLength
<1>1. HandlerOK(w.handler) /\ state \in {"Normal", "Continued", "Closing"}
  BY DEF WorkOK, HandlerOK
<1>2. Continue(w) =
        IF w.handler.state # "Continued" THEN SendCloseFrame(w)
        ELSE IF long THEN SendCloseFrame(whole)
        ELSE [whole EXCEPT !.handler.cache = @ \o w.ws.data]
  BY DEF Continue
<1> HIDE DEF state, long
<1>3. /\ HandlerOK(g) /\ g.cache = w.handler.cache /\ g.state = state
      /\ g.wait_pong = w.handler.wait_pong
  BY <1>1 DEF HandlerOK, IsHandler, HandlerParts
<1> HIDE DEF cache, g
<1>4. WorkOK(whole) /\ whole.handler = g /\ whole.conn = w.conn /\ whole.delivered = w.delivered
  <2>1. whole = [w EXCEPT !.handler = g]
    OBVIOUS
  <2> HIDE DEF whole
  <2> QED
    BY <1>3, <2>1, HandlerKept, HandlerIs DEF Kept
<1>5. [whole EXCEPT !.handler.cache = @ \o w.ws.data] = v
  BY <1>3, <1>4 DEF cache
<1> HIDE DEF whole
<1>6. h.state = state /\ h.cache = cache /\ h.wait_pong = g.wait_pong
  BY <1>3 DEF HandlerOK, IsHandler, HandlerParts
<1> HIDE DEF h
<1>7. v.handler = h /\ v.conn = whole.conn /\ v.delivered = whole.delivered
  <2>1. v = [whole EXCEPT !.handler = h]
    OBVIOUS
  <2> HIDE DEF v
  <2> QED
    BY <1>4, <2>1, HandlerIs
<1> HIDE DEF v
<1> DEFINE x == Continue(w)
           fits == w.handler.state = "Continued" /\ ~long
<1>8. CASE w.handler.state # "Continued"
  <2>1. x = SendCloseFrame(w)
    BY <1>2, <1>8, Zenon
  <2> HIDE DEF x
  <2>2. Quiet(w, x) /\ ~Live(x) /\ (x.handler.state # "Closing" => x.conn.closed = "no_buffer")
    BY <2>1, SendCloseFrameIs DEF Live
  <2> QED
    BY <1>8, <2>2 DEF x
<1>9. CASE w.handler.state = "Continued" /\ long
  <2>1. x = SendCloseFrame(whole)
    BY <1>2, <1>9, Zenon
  <2> HIDE DEF x
  <2>2. Quiet(whole, x) /\ ~Live(x)
        /\ (x.handler.state # "Closing" /\ whole.conn.closed = "no" => x.conn.closed = "no_buffer")
    BY <1>4, <2>1, SendCloseFrameIs
  <2>3. Quiet(w, x)
    BY <1>3, <1>4, <2>2 DEF Quiet, Live
  <2> QED
    BY <1>4, <1>9, <2>2, <2>3 DEF x, long, Live
<1>10. CASE fits
  <2>1. x = v
    BY <1>2, <1>5, <1>10, Zenon
  <2> HIDE DEF x
  <2>2. Quiet(w, x) /\ x.conn.closed = "no" /\ x.handler.state = state /\ x.handler.cache = cache
    BY <1>3, <1>4, <1>6, <1>7, <2>1 DEF Quiet, Live
  <2>3. state = IF w.ws.fin THEN "Normal" ELSE "Continued"
    BY <1>10 DEF state
  <2> QED
    BY <1>10, <2>2, <2>3 DEF x, long, cache
<1> QED
  BY <1>8, <1>9, <1>10

(* What a data frame adds to the message, or else it is answered by a close *)
(* frame.                                                                   *)
LEMMA FrameHandleIs ==
  ASSUME NEW w, WorkOK(w), DataOK(w), Live(w)
  PROVE  LET v == FrameHandle(w)
             o == w.ws.opcode
             fits == /\ w.handler.state = "Continued"
                     /\ ~(Len(w.handler.cache) + Len(w.ws.data) > MaxPayloadLength)
         IN /\ Quiet(w, v)
            /\ o = Ws!CONTINUED /\ fits =>
                 /\ v.conn.closed = "no"
                 /\ v.handler.state = IF w.ws.fin THEN "Normal" ELSE "Continued"
                 /\ v.handler.cache = w.handler.cache \o w.ws.data
            /\ o \in {Ws!TEXT, Ws!BINARY} =>
                 /\ v.conn.closed = "no"
                 /\ v.handler.state = IF w.ws.fin THEN w.handler.state ELSE "Continued"
                 /\ v.handler.cache = w.ws.data
            /\ \/ o = Ws!CONTINUED /\ ~fits
               \/ o \notin {Ws!CONTINUED, Ws!TEXT, Ws!BINARY}
               => ~Live(v) /\ (v.handler.state # "Closing" => v.conn.closed = "no_buffer")
<1> DEFINE state == IF w.ws.fin THEN w.handler.state ELSE "Continued"
           h == [w.handler EXCEPT !.state = state, !.cache = w.ws.data]
           v == [w EXCEPT !.handler = h]
           o == w.ws.opcode
           x == FrameHandle(w)
           fits == /\ w.handler.state = "Continued"
                   /\ ~(Len(w.handler.cache) + Len(w.ws.data) > MaxPayloadLength)
<1>1. HandlerOK(w.handler) /\ w.handler.state # "Closing" /\ w.conn.closed = "no"
  BY DEF WorkOK, Live
<1>2. x = IF o = Ws!CONTINUED THEN Continue(w)
          ELSE IF o \in {Ws!TEXT, Ws!BINARY}
          THEN [w EXCEPT !.handler.state = IF w.ws.fin THEN @ ELSE "Continued",
                         !.handler.cache = w.ws.data]
          ELSE SendCloseFrame(w)
  BY <1>1, Zenon DEF FrameHandle
<1>3. [w EXCEPT !.handler.state = IF w.ws.fin THEN @ ELSE "Continued",
                !.handler.cache = w.ws.data] = v
  BY DEF WorkOK, IsWork, WorkParts
<1> HIDE DEF state, x
<1>4. h.state = state /\ h.cache = w.ws.data /\ h.wait_pong = w.handler.wait_pong
  BY <1>1 DEF HandlerOK, IsHandler, HandlerParts
<1> HIDE DEF h
<1>5. v.handler = h /\ v.conn = w.conn /\ v.delivered = w.delivered
  <2>1. v = [w EXCEPT !.handler = h]
    OBVIOUS
  <2> HIDE DEF v
  <2> QED
    BY <2>1, HandlerIs
<1> HIDE DEF v
<1>6. Ws!CONTINUED \notin {Ws!TEXT, Ws!BINARY}
  BY DEF Ws!CONTINUED, Ws!TEXT, Ws!BINARY
<1> HIDE DEF fits, o
<1>7. CASE o = Ws!CONTINUED
  <2>1. x = Continue(w)
    BY <1>2, <1>7, Zenon
  <2>2. /\ Quiet(w, x)
        /\ fits => /\ x.conn.closed = "no"
                   /\ x.handler.state = IF w.ws.fin THEN "Normal" ELSE "Continued"
                   /\ x.handler.cache = w.handler.cache \o w.ws.data
        /\ ~fits => ~Live(x) /\ (x.handler.state # "Closing" => x.conn.closed = "no_buffer")
    BY <2>1, ContinueIs, Zenon DEF fits
  <2> QED
    BY <1>6, <1>7, <2>2, Zenon DEF x, o, fits
<1>8. CASE o \in {Ws!TEXT, Ws!BINARY}
  <2>1. x = v
    BY <1>2, <1>3, <1>6, <1>8, Zenon
  <2>2. Quiet(w, x) /\ x.conn.closed = "no" /\ x.handler.state = state /\ x.handler.cache = w.ws.data
    BY <1>1, <1>4, <1>5, <2>1 DEF Quiet
  <2> QED
    BY <1>6, <1>8, <2>2, Zenon DEF x, o, fits, state
<1>9. CASE o \notin {Ws!CONTINUED, Ws!TEXT, Ws!BINARY}
  <2>1. x = SendCloseFrame(w)
    BY <1>2, <1>9, Zenon
  <2>2. Quiet(w, x) /\ ~Live(x) /\ (x.handler.state # "Closing" => x.conn.closed = "no_buffer")
    BY <1>1, <2>1, SendCloseFrameIs
  <2> QED
    BY <1>9, <2>2, Zenon DEF x, o, fits
<1> QED
  BY <1>7, <1>8, <1>9

(* The service gets a message that is whole. *)
LEMMA ServedIs ==
  ASSUME NEW w, WorkOK(w), NEW fragments
  PROVE  LET v == Served(w, fragments)
         IN /\ w.handler.state # "Normal" => v = w
            /\ w.handler.state = "Normal" =>
                 /\ v.delivered = Append(w.delivered, w.handler.cache)
                 /\ v.handler.cache = <<>> /\ v.handler.state = "Normal"
                 /\ v.handler.wait_pong = w.handler.wait_pong
                 /\ v.conn.closed = w.conn.closed \/ v.conn.closed = "no_buffer"
                 /\ w.conn.closed # "no" => v.conn.closed = w.conn.closed
<1> DEFINE none == <<>>
           h == [w.handler EXCEPT !.cache = none]
           u == [w EXCEPT !.delivered = Append(@, w.handler.cache)]
           v == [u EXCEPT !.handler = h]
           x == Served(w, fragments)
<1>1. IsSeq(none) /\ Len(none) = 0
  <2>1. none = <<>>
    OBVIOUS
  <2> HIDE DEF none
  <2> QED
    BY <2>1, EmptyIsSeq
<1>2. Served(w, fragments) =
        IF w.handler.state # "Normal" THEN w
        ELSE Sent([w EXCEPT !.delivered = Append(@, w.handler.cache), !.handler.cache = <<>>], fragments)
  BY DEF Served
<1>3. [w EXCEPT !.delivered = Append(@, w.handler.cache), !.handler.cache = <<>>] = v
  BY DEF WorkOK, IsWork, WorkParts
<1> HIDE DEF none
<1>4. HandlerOK(h) /\ h.cache = none /\ h.state = w.handler.state /\ h.wait_pong = w.handler.wait_pong
  BY <1>1, Sizes DEF WorkOK, HandlerOK, IsHandler, HandlerParts
<1> HIDE DEF h
<1>5. WorkOK(u) /\ u.conn = w.conn /\ u.delivered = Append(w.delivered, w.handler.cache)
  <2>1. /\ IsWork(u) /\ u.conn = w.conn /\ u.handler = w.handler
        /\ u.delivered = Append(w.delivered, w.handler.cache)
    BY DEF WorkOK, IsWork, WorkParts
  <2> HIDE DEF u
  <2> QED
    BY <2>1 DEF WorkOK
<1> HIDE DEF u
<1>6. WorkOK(v) /\ v.handler = h /\ v.conn = u.conn /\ v.delivered = u.delivered
  <2>1. v = [u EXCEPT !.handler = h]
    OBVIOUS
  <2> HIDE DEF v
  <2> QED
    BY <1>4, <1>5, <2>1, HandlerKept, HandlerIs DEF Kept
<1> HIDE DEF v
<1> DEFINE y == Sent(v, fragments)
<1>7. /\ Quiet(v, y) /\ y.handler = v.handler
      /\ y.conn.closed = v.conn.closed \/ y.conn.closed = "no_buffer"
  BY <1>6, SentIs
<1>8. x = IF w.handler.state # "Normal" THEN w ELSE y
  BY <1>2, <1>3, Zenon
<1> HIDE DEF x, y
<1>9. ASSUME w.handler.state = "Normal"
      PROVE  /\ x.delivered = Append(w.delivered, w.handler.cache)
             /\ x.handler.cache = none /\ x.handler.state = "Normal"
             /\ x.handler.wait_pong = w.handler.wait_pong
             /\ x.conn.closed = w.conn.closed \/ x.conn.closed = "no_buffer"
             /\ w.conn.closed # "no" => x.conn.closed = w.conn.closed
  BY <1>4, <1>5, <1>6, <1>7, <1>8, <1>9 DEF Quiet
<1> QED
  BY <1>8, <1>9, Zenon DEF x, none

(* The handler and the service have what the frames amount to, unless a     *)
(* message is interrupted.                                                  *)
Complete(w, m) ==
  /\ m.end = "none" /\ w.delivered = m.messages /\ w.handler.cache = m.text
  /\ w.handler.state = IF m.begun THEN "Continued" ELSE "Normal"
  /\ ~m.begun => m.text = <<>>
Good(w, m) == m.end = "interrupted" \/ Complete(w, m)

(* The service has no more than what the frames amount to, up to one call   *)
(* for want of a send buffer.                                               *)
Within(d, m) == IsSeq(d) /\ IsPrefix(d, m.messages)
Loose(w, m) == \/ m.end = "interrupted"
               \/ Within(w.delivered, m)
               \/ w.conn.closed = "no_buffer" /\ Within(Front(w.delivered), m)

(* Who has all has no more. *)
LEMMA GoodIsLoose ==
  ASSUME NEW w, NEW m, Made(m), Good(w, m)
  PROVE  Loose(w, m)
<1> QED
  BY PrefixOfItself DEF Made, Good, Complete, Loose, Within

(* A frame more does not take a message away. *)
LEMMA LooseGoesOn ==
  ASSUME NEW w, NEW m, Made(m), Loose(w, m), NEW f
  PROVE  Loose(w, NextFrame(m, f))
<1> DEFINE n == NextFrame(m, f)
<1>1. /\ n.messages = m.messages \/ \E x : n.messages = Append(m.messages, x)
      /\ m.end # "none" => n = m
  BY NextFrameIs
<1> HIDE DEF n
<1>2. IsSeq(m.messages)
  BY DEF Made
<1>3. \A d : Within(d, m) => Within(d, n)
  BY <1>1, <1>2, PrefixGoesOn DEF Within
<1> QED
  BY <1>1, <1>3 DEF Loose, n

(* A message that nothing has been read of. *)
LEMMA EmptyJoins ==
  ASSUME NEW s, s = <<>>, NEW S, NEW u \in Seq(S)
  PROVE  s \o u = u
<1> QED
  OBVIOUS

(* A frame that the parser accepts, handled while the connection goes on.   *)
LEMMA DataFrameIs ==
  ASSUME NEW w, WorkOK(w), DataOK(w), Live(w), NEW f \in Frames, AtEnd(w.ws, f),
         ~Ws!IsControl(f.opcode), NEW m, Made(m), Complete(w, m), NEW fragments
  PROVE  LET u == Served(FrameHandle(w), fragments)
             n == NextFrame(m, f)
         IN (Live(u) => Good(u, n)) /\ Loose(u, n)
<1> DEFINE x == FrameHandle(w)
           u == Served(x, fragments)
           n == NextFrame(m, f)
           o == f.opcode
           text == m.text \o f.payload
           none == <<>>
           fits == /\ w.handler.state = "Continued"
                   /\ ~(Len(w.handler.cache) + Len(w.ws.data) > MaxPayloadLength)
<1>1. /\ w.ws.opcode = o /\ w.ws.data = f.payload /\ w.ws.fin = f.fin
      /\ f.masked /\ ~(Len(f.payload) > MaxPayloadLength)
  <2>1. Len(f.payload) \in Nat /\ MaxPayloadLength \in Nat
    BY FrameIs, Sizes
  <2> QED
    BY <2>1 DEF AtEnd
<1>2. /\ m.end = "none" /\ w.delivered = m.messages /\ w.handler.cache = m.text
      /\ w.handler.state = IF m.begun THEN "Continued" ELSE "Normal"
      /\ ~m.begun => m.text = none
      /\ IsSeq(m.messages)
  BY DEF Complete, Made
<1>3. /\ Made(n)
      /\ \/ o \notin Known
         \/ o = Ws!CONTINUED /\ ~Fits(m, f)
         => n.end = "fault" /\ n.messages = m.messages
      /\ Begins(f) /\ m.begun => n.end = "interrupted"
      /\ Joining(m, f) /\ f.fin =>
           /\ n.messages = Append(m.messages, text)
           /\ n.text = none /\ n.begun = FALSE /\ n.end = "none"
      /\ Joining(m, f) /\ ~f.fin =>
           /\ n.messages = m.messages /\ n.text = text
           /\ n.begun = TRUE /\ n.end = "none"
  BY <1>1, <1>2, NextFrameIs, Zenon
<1>4. WorkOK(x)
  BY FrameHandleKept DEF Kept
<1>5. /\ Quiet(w, x)
      /\ o = Ws!CONTINUED /\ fits =>
           /\ x.conn.closed = "no"
           /\ x.handler.state = IF f.fin THEN "Normal" ELSE "Continued"
           /\ x.handler.cache = w.handler.cache \o f.payload
      /\ o \in {Ws!TEXT, Ws!BINARY} =>
           /\ x.conn.closed = "no"
           /\ x.handler.state = IF f.fin THEN w.handler.state ELSE "Continued"
           /\ x.handler.cache = f.payload
      /\ \/ o = Ws!CONTINUED /\ ~fits
         \/ o \notin {Ws!CONTINUED, Ws!TEXT, Ws!BINARY}
         => ~Live(x) /\ (x.handler.state # "Closing" => x.conn.closed = "no_buffer")
  <2>1. /\ Quiet(w, x)
        /\ w.ws.opcode = Ws!CONTINUED /\ fits =>
             /\ x.conn.closed = "no"
             /\ x.handler.state = IF w.ws.fin THEN "Normal" ELSE "Continued"
             /\ x.handler.cache = w.handler.cache \o w.ws.data
        /\ w.ws.opcode \in {Ws!TEXT, Ws!BINARY} =>
             /\ x.conn.closed = "no"
             /\ x.handler.state = IF w.ws.fin THEN w.handler.state ELSE "Continued"
             /\ x.handler.cache = w.ws.data
        /\ \/ w.ws.opcode = Ws!CONTINUED /\ ~fits
           \/ w.ws.opcode \notin {Ws!CONTINUED, Ws!TEXT, Ws!BINARY}
           => ~Live(x) /\ (x.handler.state # "Closing" => x.conn.closed = "no_buffer")
    BY FrameHandleIs, Zenon
  <2> HIDE DEF x, n, fits
  <2> QED
    BY <1>1, <2>1
<1> HIDE DEF x, n
<1>6. /\ x.handler.state # "Normal" => u = x
      /\ x.handler.state = "Normal" =>
           /\ u.delivered = Append(x.delivered, x.handler.cache)
           /\ u.handler.cache = none /\ u.handler.state = "Normal"
           /\ x.conn.closed # "no" => u.conn.closed = x.conn.closed
  BY <1>4, ServedIs, Zenon
<1>7. x.delivered = m.messages
  BY <1>2, <1>5 DEF Quiet
<1>8. fits <=> Fits(m, f)
  BY <1>1, <1>2 DEF Fits
<1>9. o \in Known => Begins(f) \/ o = Ws!CONTINUED
  <2>1. /\ Ws!CLOSE >= 8 /\ Ws!PING >= 8 /\ Ws!PONG >= 8
    BY DEF Ws!CLOSE, Ws!PING, Ws!PONG
  <2> QED
    BY <2>1 DEF Known, Begins, Ws!IsControl
<1> HIDE DEF u, fits, none, text
<1>10. CASE Begins(f) /\ m.begun
  BY <1>3, <1>10 DEF Good, Loose, n, u, x
<1>11. CASE Joining(m, f)
  <2>1. x.handler.cache = text
    <3>1. CASE o = Ws!CONTINUED /\ Fits(m, f)
      BY <1>2, <1>5, <1>8, <3>1 DEF text
    <3>2. CASE Begins(f) /\ ~m.begun
      <4>1. m.text = <<>> /\ f.payload \in Seq(Byte)
        BY <1>2, <3>2, FrameIs DEF none
      <4>2. text = f.payload
        BY <4>1, EmptyJoins DEF text
      <4> QED
        BY <1>5, <3>2, <4>2 DEF Begins
    <3> QED
      BY <1>11, <3>1, <3>2 DEF Joining
  <2>2. x.handler.state = IF f.fin THEN "Normal" ELSE "Continued"
    BY <1>2, <1>5, <1>8, <1>11, Zenon DEF Joining, Begins
  <2>3. Complete(u, n)
    <3>1. CASE f.fin
      BY <1>3, <1>6, <1>7, <1>11, <2>1, <2>2, <3>1 DEF Complete, none
    <3>2. CASE ~f.fin
      BY <1>3, <1>6, <1>7, <1>11, <2>1, <2>2, <3>2 DEF Complete
    <3> QED
      BY <3>1, <3>2
  <2> QED
    BY <1>3, <2>3, GoodIsLoose DEF Good, n, u, x
<1>12. CASE ~(Begins(f) /\ m.begun) /\ ~Joining(m, f)
  <2>1. \/ o \notin Known
        \/ o = Ws!CONTINUED /\ ~Fits(m, f)
    BY <1>9, <1>12, Zenon DEF Joining
  <2>2. n.messages = m.messages
    BY <1>3, <2>1
  <2>3. ~Live(x) /\ (x.handler.state # "Closing" => x.conn.closed = "no_buffer")
    BY <1>5, <1>8, <2>1, Zenon DEF Known
  <2>4. Within(m.messages, n)
    BY <1>2, <2>2, PrefixOfItself DEF Within
  <2>5. CASE x.handler.state = "Normal"
    <3>1. u.conn.closed = "no_buffer"
      BY <1>6, <2>3, <2>5
    <3>2. u.delivered = Append(m.messages, x.handler.cache)
      BY <1>6, <1>7, <2>5
    <3>3. Front(u.delivered) = m.messages
      BY <1>2, <3>2, FrontIs
    <3> QED
      BY <2>4, <3>1, <3>3 DEF Live, Loose, n, u, x
  <2>6. CASE x.handler.state # "Normal"
    BY <1>6, <1>7, <2>3, <2>4, <2>6 DEF Loose, n, u, x
  <2> QED
    BY <2>5, <2>6
<1> QED
  BY <1>10, <1>11, <1>12

(* A control frame is no part of a message. *)
LEMMA ControlNext ==
  ASSUME NEW m, Made(m), m.end = "none", NEW f, f.masked, ~(Len(f.payload) > MaxPayloadLength)
  PROVE  /\ f.opcode \notin Known => NextFrame(m, f).messages = m.messages
         /\ f.opcode = Ws!CLOSE => NextFrame(m, f).messages = m.messages
         /\ f.opcode \in {Ws!PING, Ws!PONG} => NextFrame(m, f) = m
<1> DEFINE n == NextFrame(m, f)
           o == f.opcode
<1>1. o \notin Known => n.messages = m.messages
  BY NextFrameIs, Zenon
<1> DEFINE ended == [m EXCEPT !.end = "close"]
<1>2. /\ Ws!CLOSE # Ws!CONTINUED /\ Ws!PING # Ws!CONTINUED /\ Ws!PONG # Ws!CONTINUED
      /\ Ws!CLOSE # Ws!PING /\ Ws!CLOSE # Ws!PONG /\ Ws!IsControl(Ws!PING) /\ Ws!IsControl(Ws!PONG)
  BY DEF Ws!CONTINUED, Ws!CLOSE, Ws!PING, Ws!PONG, Ws!IsControl
<1>3. o = Ws!CLOSE \/ o = Ws!PING \/ o = Ws!PONG => ~Faulty(m, f)
  BY <1>2, Zenon DEF Faulty
<1>4. o = Ws!CLOSE => n = ended
  BY <1>3, Zenon DEF NextFrame
<1>5. ended.messages = m.messages
  BY DEF Made, MadeParts
<1>6. o = Ws!PING \/ o = Ws!PONG => n = m
  BY <1>2, <1>3, Zenon DEF NextFrame
<1> HIDE DEF n, ended
<1> QED
  BY <1>1, <1>4, <1>5, <1>6 DEF n

(* A frame that the parser accepts, handled while the connection goes on.   *)
LEMMA FrameDoneIs ==
  ASSUME NEW w, WorkOK(w), DataOK(w), Live(w), NEW f \in Frames, AtEnd(w.ws, f),
         NEW m, Made(m), Good(w, m), NEW fragments
  PROVE  LET v == FrameDone(w, fragments)
             n == NextFrame(m, f)
         IN /\ Live(v) => Good(v, n)
            /\ Loose(v, n)
            /\ v.handler.wait_pong => w.handler.wait_pong /\ f.opcode # Ws!PONG
            /\ v.ws = Ws!Reset(w.ws)
            /\ v.conn.closed # "pong"
<1> DEFINE x == FrameHandle(w)
           s == Served(x, fragments)
           c == ControlFrameHandle(w)
           u == IF Ws!IsControl(w.ws.opcode) THEN c ELSE s
           p == Ws!Reset(w.ws)
           v == [u EXCEPT !.ws = p, !.inside = FALSE]
           n == NextFrame(m, f)
           o == f.opcode
<1>1. /\ w.ws.opcode = o /\ f.masked /\ ~(Len(f.payload) > MaxPayloadLength)
  <2>1. Len(f.payload) \in Nat /\ MaxPayloadLength \in Nat
    BY FrameIs, Sizes
  <2> QED
    BY <2>1 DEF AtEnd
<1>2. WorkOK(u) /\ WorkOK(x)
  <2>1. WorkOK(c) /\ WorkOK(x)
    BY ControlFrameKept, FrameHandleKept DEF Kept
  <2>2. WorkOK(s)
    BY <2>1, ServedKept DEF Kept
  <2> HIDE DEF c, s, x
  <2> QED
    BY <2>1, <2>2
<1>3. FrameDone(w, fragments) = v
  BY Zenon DEF FrameDone
<1> HIDE DEF u
<1>4. v.conn = u.conn /\ v.handler = u.handler /\ v.delivered = u.delivered /\ v.ws = p
  BY <1>2 DEF WorkOK, IsWork, WorkParts
<1> HIDE DEF p, v, n
<1>5. (Live(u) => Good(u, n)) /\ Loose(u, n)
  <2>1. Made(n) /\ (m.end # "none" => n = m)
    BY NextFrameIs DEF n
  <2>2. CASE m.end = "interrupted"
    BY <2>1, <2>2 DEF Good, Loose
  <2>3. CASE Complete(w, m) /\ ~Ws!IsControl(o)
    <3>1. u = s
      BY <1>1, <2>3 DEF u
    <3> QED
      BY <2>3, <3>1, DataFrameIs DEF n
  <2>4. CASE Complete(w, m) /\ Ws!IsControl(o)
    <3>1. u = c
      BY <1>1, <2>4 DEF u
    <3>2. /\ Quiet(w, u)
          /\ Live(u) => /\ o \in {Ws!PING, Ws!PONG}
                        /\ u.handler.state = w.handler.state /\ u.handler.cache = w.handler.cache
      BY <1>1, <3>1, ControlFrameIs
    <3>3. /\ o \notin Known => n.messages = m.messages
          /\ o = Ws!CLOSE => n.messages = m.messages
          /\ o \in {Ws!PING, Ws!PONG} => n = m
      <4>1. m.end = "none"
        BY <2>4 DEF Complete
      <4> QED
        BY <1>1, <4>1, ControlNext, Zenon DEF n
    <3>4. o \notin {Ws!CONTINUED, Ws!TEXT, Ws!BINARY}
      BY <2>4 DEF Ws!IsControl, Ws!CONTINUED, Ws!TEXT, Ws!BINARY
    <3>5. n.messages = m.messages
      BY <3>3, <3>4, Zenon DEF Known
    <3>6. Live(u) => Complete(u, n)
      BY <2>4, <3>2, <3>3 DEF Complete, Quiet
    <3>7. Within(u.delivered, n)
      BY <2>4, <3>2, <3>5, PrefixOfItself DEF Complete, Quiet, Made, Within
    <3> QED
      BY <3>6, <3>7 DEF Good, Loose
  <2> QED
    BY <2>2, <2>3, <2>4 DEF Good
<1>6. /\ u.handler.wait_pong => w.handler.wait_pong /\ o # Ws!PONG
      /\ u.conn.closed # "pong"
  <2>1. CASE Ws!IsControl(o)
    <3>1. u = c
      BY <1>1, <2>1 DEF u
    <3> QED
      BY <1>1, <3>1, ControlFrameIs DEF Quiet, Live
  <2>2. CASE ~Ws!IsControl(o)
    <3>1. u = s
      BY <1>1, <2>2 DEF u
    <3>2. o # Ws!PONG
      BY <2>2 DEF Ws!IsControl, Ws!PONG
    <3>3. Quiet(w, x)
      BY FrameHandleIs
    <3> HIDE DEF x
    <3>4. \/ s = x
          \/ /\ s.handler.wait_pong = x.handler.wait_pong
             /\ s.conn.closed = x.conn.closed \/ s.conn.closed = "no_buffer"
      BY <1>2, ServedIs
    <3> HIDE DEF s
    <3> QED
      BY <3>1, <3>2, <3>3, <3>4 DEF Quiet, Live
  <2> QED
    BY <2>1, <2>2
<1>7. (Live(v) => Good(v, n)) /\ Loose(v, n)
  BY <1>4, <1>5 DEF Live, Good, Complete, Loose
<1>8. /\ v.handler.wait_pong => w.handler.wait_pong /\ o # Ws!PONG
      /\ v.conn.closed # "pong"
  BY <1>4, <1>6
<1> QED
  BY <1>3, <1>4, <1>7, <1>8, Zenon DEF p, n

(* A frame handled while the connection is closing. *)
LEMMA ClosingFrameDone ==
  ASSUME NEW w, WorkOK(w), w.handler.state = "Closing", NEW fragments
  PROVE  LET v == FrameDone(w, fragments)
         IN /\ v.handler.state = "Closing" /\ v.delivered = w.delivered
            /\ v.conn.closed = "pong" => w.conn.closed = "pong"
<1> DEFINE c == ControlFrameHandle(w)
           u == IF Ws!IsControl(w.ws.opcode) THEN c ELSE Served(FrameHandle(w), fragments)
           v == [u EXCEPT !.ws = Ws!Reset(w.ws), !.inside = FALSE]
<1>1. FrameDone(w, fragments) = v
  BY Zenon DEF FrameDone
<1>2. FrameHandle(w) = w /\ Served(w, fragments) = w
  BY DEF FrameHandle, Served
<1>3. WorkOK(c) /\ Quiet(w, c)
  BY ControlFrameKept, ControlFrameIs DEF Kept
<1>4. u = c \/ u = w
  BY <1>2
<1> HIDE DEF u, c
<1>5. /\ WorkOK(u) /\ u.handler.state = "Closing" /\ u.delivered = w.delivered
      /\ u.conn.closed = "pong" => w.conn.closed = "pong"
  BY <1>3, <1>4 DEF Quiet
<1>6. v.handler = u.handler /\ v.delivered = u.delivered /\ v.conn = u.conn
  BY <1>5 DEF WorkOK, IsWork, WorkParts
<1> HIDE DEF v
<1> QED
  BY <1>1, <1>5, <1>6

-----------------------------------------------------------------------------
(* Frames and bytes under way. *)

(* A way to go on from a number to the next, and a function that does.     *)
Leads(n, S, start, G) == start \in S /\ \A x \in S, i \in 1..n : G[<<x, i>>] \in S
Unfolds(g, n, S, start, G) == /\ g \in [0..n -> S] /\ g[0] = start
                              /\ \A i \in 1..n : g[i] = G[<<g[i - 1], i>>]

(* There is a function for every way to go on. *)
LEMMA Unfolded ==
  ASSUME NEW n \in Nat, NEW S, NEW start, NEW G, Leads(n, S, start, G)
  PROVE  \E g : Unfolds(g, n, S, start, G)
<1>0. start \in S /\ \A x \in S, i \in 1..n : G[<<x, i>>] \in S
  BY DEF Leads
<1> DEFINE Grown(m, g) == /\ g \in [0..m -> S] /\ g[0] = start
                         /\ \A i \in 1..m : g[i] = G[<<g[i - 1], i>>]
           T == {m \in 0..n : \E g : Grown(m, g)}
<1>1. 0 \in T
  <2> DEFINE g == [i \in 0..0 |-> start]
  <2>1. Grown(0, g)
    BY <1>0
  <2> HIDE DEF Grown, g
  <2>2. 0 \in 0..n
    OBVIOUS
  <2> QED
    BY <2>1, <2>2
<1>2. ASSUME NEW m \in 1..n, m - 1 \in T PROVE m \in T
  <2>1. PICK f : Grown(m - 1, f)
    BY <1>2
  <2>2. f[m - 1] \in S
    BY <2>1
  <2>3. G[<<f[m - 1], m>>] \in S
    BY <1>0, <2>2
  <2> DEFINE g == [i \in 0..m |-> IF i = m THEN G[<<f[m - 1], m>>] ELSE f[i]]
  <2>4. \A i \in 0..m : g[i] = IF i = m THEN G[<<f[m - 1], m>>] ELSE f[i]
    OBVIOUS
  <2>5. g \in [0..m -> S]
    <3>1. \A i \in 0..m : g[i] \in S
      BY <2>1, <2>3, <2>4
    <3> QED
      BY <3>1
  <2> HIDE DEF g
  <2>6. g[0] = start
    BY <2>1, <2>4
  <2>7. ASSUME NEW i \in 1..m PROVE g[i] = G[<<g[i - 1], i>>]
    <3>1. i - 1 \in 0..m /\ i - 1 # m /\ g[i - 1] = f[i - 1]
      BY <2>4
    <3>2. CASE i = m
      BY <2>4, <3>1, <3>2
    <3>3. CASE i # m
      <4>1. i \in 1..(m - 1) /\ g[i] = f[i]
        BY <2>4, <3>3
      <4> QED
        BY <2>1, <3>1, <4>1
    <3> QED
      BY <3>2, <3>3
  <2>8. Grown(m, g)
    BY <2>5, <2>6, <2>7
  <2> HIDE DEF Grown
  <2>9. m \in 0..n
    OBVIOUS
  <2> QED
    BY <2>8, <2>9
<1> HIDE DEF T
<1>3. \A i \in 0..n : i \in T
  BY <1>1, <1>2, UpTo
<1> QED
  BY <1>3 DEF T, Unfolds

(* Where frames end. *)
LEMMA EndsAre ==
  ASSUME NEW fs \in Seq(Frames)
  PROVE  /\ Ends(fs) \in [0..Len(fs) -> Nat] /\ Ends(fs)[0] = 0
         /\ \A i \in 1..Len(fs) : Ends(fs)[i] = Ends(fs)[i - 1] + Len(Encoded[fs[i]])
<1> DEFINE n == Len(fs)
           L == [i \in 1..n |-> Len(Encoded[fs[i]])]
           G == [x \in Nat \X (1..n) |-> x[1] + L[x[2]]]
           E(w) == w = [i \in 0..n |-> IF i = 0 THEN 0 ELSE w[i - 1] + Len(Encoded[fs[i]])]
           h == Ends(fs)
<1>1. n \in Nat /\ \A i \in 1..n : fs[i] \in Frames
  OBVIOUS
<1>2. \A i \in 1..n : L[i] \in Nat /\ L[i] = Len(Encoded[fs[i]])
  BY <1>1, FrameSizes
<1> HIDE DEF n, L, h
<1>3. G \in [Nat \X (1..n) -> Nat]
  BY <1>2
<1>4. \A i \in Nat, k \in 1..n : G[<<i, k>>] = i + L[k]
  OBVIOUS
<1> HIDE DEF G
<1>5. PICK g : /\ g \in [0..n -> Nat] /\ g[0] = 0
               /\ \A i \in 1..n : g[i] = G[<<g[i - 1], i>>]
  <2>1. 0 \in Nat
    OBVIOUS
  <2>2. Leads(n, Nat, 0, G)
    BY <1>3, <2>1 DEF Leads
  <2>3. PICK g : Unfolds(g, n, Nat, 0, G)
    BY <1>1, <2>2, Unfolded
  <2> QED
    BY <2>3 DEF Unfolds
<1>6. \A i \in 1..n : g[i] = g[i - 1] + Len(Encoded[fs[i]])
  <2> SUFFICES ASSUME NEW i \in 1..n PROVE g[i] = g[i - 1] + Len(Encoded[fs[i]])
    OBVIOUS
  <2>1. i - 1 \in 0..n
    BY <1>1
  <2> QED
    BY <1>2, <1>4, <1>5, <2>1
<1>7. E(g)
  <2>1. \A i \in 0..n : g[i] = IF i = 0 THEN 0 ELSE g[i - 1] + Len(Encoded[fs[i]])
    BY <1>1, <1>5, <1>6
  <2>2. g = [i \in 0..n |-> g[i]]
    BY <1>5
  <2> QED
    BY <2>1, <2>2, Zenon
<1>8. h = CHOOSE w : E(w)
  BY Zenon DEF Ends, n, h
<1>9. E(h)
  <2> HIDE DEF E
  <2> QED
    BY <1>7, <1>8
<1>10. \A i \in 0..n : h[i] = IF i = 0 THEN 0 ELSE h[i - 1] + Len(Encoded[fs[i]])
  BY <1>9
<1>11. \A i \in 0..n : h[i] \in Nat
  <2> DEFINE T == {i \in 0..n : h[i] \in Nat}
  <2>1. 0 \in T
    BY <1>1, <1>10
  <2>2. ASSUME NEW i \in 1..n, i - 1 \in T PROVE i \in T
    <3>1. h[i - 1] \in Nat /\ i \in 0..n /\ i # 0
      BY <1>1, <2>2
    <3>2. h[i] = h[i - 1] + L[i]
      BY <1>2, <1>10, <3>1
    <3> QED
      BY <1>2, <3>1, <3>2
  <2> HIDE DEF T
  <2>3. \A i \in 0..n : i \in T
    BY <1>1, <2>1, <2>2, UpTo
  <2> QED
    BY <2>3 DEF T
<1>12. h = [i \in 0..n |-> h[i]]
  <2>1. DOMAIN h = 0..n
    BY <1>9
  <2> QED
    BY <1>9
<1>13. h \in [0..n -> Nat]
  BY <1>11, <1>12
<1>14. h[0] = 0 /\ \A i \in 1..n : h[i] = h[i - 1] + Len(Encoded[fs[i]])
  BY <1>1, <1>10
<1> QED
  BY <1>13, <1>14 DEF h, n

(* What is made of frames, with its types. *)
Messages == [messages : Seq(Seq(Byte)), text : Seq(Byte), begun : BOOLEAN,
             end : {"none", "fault", "close", "interrupted"}]

(* A frame more. *)
LEMMA NextFrameType ==
  ASSUME NEW m \in Messages, NEW f \in Frames
  PROVE  NextFrame(m, f) \in Messages
<1> DEFINE none == <<>>
           text == m.text \o f.payload
           Ended(e) == [m EXCEPT !.end = e]
           whole == [m EXCEPT !.text = none, !.begun = FALSE, !.messages = Append(@, text)]
           part == [m EXCEPT !.text = text, !.begun = TRUE]
           n == NextFrame(m, f)
<1>1. n = IF m.end # "none" THEN m
          ELSE IF Faulty(m, f) THEN Ended("fault")
          ELSE IF f.opcode = Ws!CLOSE THEN Ended("close")
          ELSE IF Ws!IsControl(f.opcode) THEN m
          ELSE IF m.begun /\ f.opcode # Ws!CONTINUED THEN Ended("interrupted")
          ELSE IF f.fin THEN whole ELSE part
  BY Zenon DEF NextFrame
<1>2. \A e \in {"fault", "close", "interrupted"} : Ended(e) \in Messages
  BY DEF Messages
<1>3. text \in Seq(Byte) /\ none \in Seq(Byte)
  <2>1. m.text \in Seq(Byte) /\ f.payload \in Seq(Byte)
    BY FrameIs DEF Messages
  <2> DEFINE s == m.text
             u == f.payload
  <2> HIDE DEF s, u
  <2>2. s \in Seq(Byte) /\ u \in Seq(Byte) => s \o u \in Seq(Byte)
    OBVIOUS
  <2> QED
    BY <2>1, <2>2 DEF s, u
<1> HIDE DEF text, none
<1>4. Append(m.messages, text) \in Seq(Seq(Byte))
  <2>1. m.messages \in Seq(Seq(Byte))
    BY DEF Messages
  <2> DEFINE T == Seq(Byte)
  <2> HIDE DEF T
  <2>2. m.messages \in Seq(T) /\ text \in T => Append(m.messages, text) \in Seq(T)
    OBVIOUS
  <2> QED
    BY <1>3, <2>1, <2>2 DEF T
<1>5. whole \in Messages /\ part \in Messages
  BY <1>3, <1>4 DEF Messages
<1> HIDE DEF Ended, whole, part, n
<1>6. n \in {m, Ended("fault"), Ended("close"), Ended("interrupted"), whole, part}
  BY <1>1, Zenon
<1> QED
  BY <1>2, <1>5, <1>6 DEF n

(* What the first frames amount to. *)
LEMMA ReassembledAre ==
  ASSUME NEW fs \in Seq(Frames)
  PROVE  /\ Reassembled(fs)[0] = NoFrame
         /\ \A i \in 1..Len(fs) : Reassembled(fs)[i] = NextFrame(Reassembled(fs)[i - 1], fs[i])
         /\ \A i \in 0..Len(fs) : Made(Reassembled(fs)[i])
<1> DEFINE n == Len(fs)
           G == [x \in Messages \X (1..n) |-> NextFrame(x[1], fs[x[2]])]
           E(w) == w = [i \in 0..n |-> IF i = 0 THEN NoFrame ELSE NextFrame(w[i - 1], fs[i])]
           h == Reassembled(fs)
<1>1. n \in Nat /\ \A i \in 1..n : fs[i] \in Frames
  OBVIOUS
<1>2. h = CHOOSE w : E(w)
  BY Zenon DEF Reassembled
<1>3. NoFrame \in Messages
  <2> DEFINE none == <<>>
  <2>1. none \in Seq(Seq(Byte)) /\ none \in Seq(Byte)
    OBVIOUS
  <2>2. NoFrame = [messages |-> none, text |-> none, begun |-> FALSE, end |-> "none"]
    BY DEF NoFrame
  <2> HIDE DEF none
  <2> QED
    BY <2>1, <2>2 DEF Messages
<1> HIDE DEF n, h
<1>4. \A m \in Messages, i \in 1..n : G[<<m, i>>] = NextFrame(m, fs[i])
  OBVIOUS
<1>5. Leads(n, Messages, NoFrame, G)
  BY <1>1, <1>3, <1>4, NextFrameType DEF Leads
<1> HIDE DEF G
<1>6. PICK g : Unfolds(g, n, Messages, NoFrame, G)
  BY <1>1, <1>5, Unfolded
<1>7. g \in [0..n -> Messages] /\ g[0] = NoFrame /\ \A i \in 1..n : g[i] = G[<<g[i - 1], i>>]
  BY <1>6 DEF Unfolds
<1>8. \A i \in 1..n : g[i] = NextFrame(g[i - 1], fs[i])
  <2> SUFFICES ASSUME NEW i \in 1..n PROVE g[i] = NextFrame(g[i - 1], fs[i])
    OBVIOUS
  <2>1. i - 1 \in 0..n
    BY <1>1
  <2> QED
    BY <1>4, <1>7, <2>1
<1>9. E(g)
  <2>1. \A i \in 0..n : g[i] = IF i = 0 THEN NoFrame ELSE NextFrame(g[i - 1], fs[i])
    BY <1>1, <1>7, <1>8
  <2>2. g = [i \in 0..n |-> g[i]]
    BY <1>7
  <2> QED
    BY <2>1, <2>2, Zenon
<1>10. E(h)
  <2> HIDE DEF E
  <2> QED
    BY <1>2, <1>9
<1>11. \A i \in 0..n : h[i] = IF i = 0 THEN NoFrame ELSE NextFrame(h[i - 1], fs[i])
  BY <1>10
<1>12. h[0] = NoFrame /\ \A i \in 1..n : h[i] = NextFrame(h[i - 1], fs[i])
  BY <1>1, <1>11
<1>13. \A i \in 0..n : h[i] \in Messages
  <2> DEFINE T == {i \in 0..n : h[i] \in Messages}
  <2>1. 0 \in T
    BY <1>1, <1>3, <1>12
  <2>2. ASSUME NEW i \in 1..n, i - 1 \in T PROVE i \in T
    <3>1. h[i - 1] \in Messages /\ i \in 0..n
      BY <1>1, <2>2
    <3> QED
      BY <1>1, <1>12, <3>1, NextFrameType
  <2> HIDE DEF T
  <2>3. \A i \in 0..n : i \in T
    BY <1>1, <2>1, <2>2, UpTo
  <2> QED
    BY <2>3 DEF T
<1>14. \A m \in Messages : Made(m)
  <2> SUFFICES ASSUME NEW m \in Messages PROVE Made(m)
    OBVIOUS
  <2>1. IsSeq(m.messages)
    BY DEF Messages, IsSeq
  <2>2. m = [part \in MadeParts |-> m[part]]
    BY DEF Messages, MadeParts
  <2> QED
    BY <2>1, <2>2 DEF Made
<1> QED
  BY <1>12, <1>13, <1>14 DEF n, h

(* A frame ends behind those before it. *)
LEMMA EndsGrow ==
  ASSUME NEW fs \in Seq(Frames), NEW j \in 0..Len(fs), NEW i \in 0..j
  PROVE  Ends(fs)[i] <= Ends(fs)[j]
<1> DEFINE n == Len(fs)
           E == Ends(fs)
           T == {k \in 0..n : \A l \in 0..k : E[l] <= E[k]}
<1>1. /\ n \in Nat /\ E \in [0..n -> Nat]
      /\ \A k \in 1..n : E[k] = E[k - 1] + Len(Encoded[fs[k]]) /\ Len(Encoded[fs[k]]) \in Nat
  BY EndsAre, FrameSizes
<1> HIDE DEF E, n
<1>2. 0 \in T
  BY <1>1
<1>3. ASSUME NEW k \in 1..n, k - 1 \in T PROVE k \in T
  <2>1. k - 1 \in 0..n /\ k \in 0..n /\ E[k - 1] \in Nat /\ E[k] \in Nat /\ E[k - 1] <= E[k]
    <3>1. k - 1 \in 0..n /\ k \in 0..n
      BY <1>1
    <3>2. E[k - 1] \in Nat /\ E[k] \in Nat
      BY <1>1, <3>1
    <3>3. E[k] = E[k - 1] + Len(Encoded[fs[k]]) /\ Len(Encoded[fs[k]]) \in Nat
      BY <1>1
    <3> HIDE DEF T
    <3> QED
      BY <3>1, <3>2, <3>3
  <2>2. ASSUME NEW l \in 0..k PROVE E[l] <= E[k]
    <3>1. CASE l = k
      BY <2>1, <3>1
    <3>2. CASE l # k
      <4>1. l \in 0..(k - 1) /\ l \in 0..n
        BY <1>1, <3>2
      <4>2. E[l] <= E[k - 1] /\ E[l] \in Nat
        BY <1>1, <1>3, <4>1
      <4> QED
        BY <2>1, <4>2
    <3> QED
      BY <3>1, <3>2
  <2> QED
    BY <2>1, <2>2
<1> HIDE DEF T
<1>4. \A k \in 0..n : k \in T
  BY <1>1, <1>2, <1>3, UpTo
<1> QED
  BY <1>4 DEF T, E, n

(* A frame more leaves what is made of those before it. *)
LEMMA OneMore ==
  ASSUME NEW fs \in Seq(Frames), NEW f \in Frames
  PROVE  LET gs == Append(fs, f)
             n == Len(fs)
         IN /\ gs \in Seq(Frames) /\ Len(gs) = n + 1 /\ gs[n + 1] = f
            /\ \A i \in 1..n : gs[i] = fs[i]
            /\ \A i \in 0..n : Ends(gs)[i] = Ends(fs)[i] /\ Reassembled(gs)[i] = Reassembled(fs)[i]
            /\ Ends(gs)[n + 1] = Ends(fs)[n] + Len(Encoded[f])
<1> DEFINE gs == Append(fs, f)
           n == Len(fs)
           E == Ends(fs)
           H == Ends(gs)
           M == Reassembled(fs)
           N == Reassembled(gs)
           T == {i \in 0..n : H[i] = E[i] /\ N[i] = M[i]}
<1>1. /\ gs \in Seq(Frames) /\ n \in Nat /\ Len(gs) = n + 1 /\ gs[n + 1] = f
      /\ \A i \in 1..n : gs[i] = fs[i]
  OBVIOUS
<1> HIDE DEF gs, n
<1>2. /\ E[0] = 0 /\ \A i \in 1..n : E[i] = E[i - 1] + Len(Encoded[fs[i]])
      /\ M[0] = NoFrame /\ \A i \in 1..n : M[i] = NextFrame(M[i - 1], fs[i])
  BY EndsAre, ReassembledAre DEF n
<1>3. /\ H[0] = 0 /\ \A i \in 1..(n + 1) : H[i] = H[i - 1] + Len(Encoded[gs[i]])
      /\ N[0] = NoFrame /\ \A i \in 1..(n + 1) : N[i] = NextFrame(N[i - 1], gs[i])
  BY <1>1, EndsAre, ReassembledAre
<1> HIDE DEF E, H, M, N
<1>4. 0 \in T
  BY <1>1, <1>2, <1>3
<1>5. ASSUME NEW i \in 1..n, i - 1 \in T PROVE i \in T
  <2>1. i \in 1..(n + 1) /\ i \in 0..n /\ H[i - 1] = E[i - 1] /\ N[i - 1] = M[i - 1]
    BY <1>1, <1>5
  <2>2. H[i] = E[i] /\ N[i] = M[i]
    BY <1>1, <1>2, <1>3, <2>1
  <2> QED
    BY <2>1, <2>2
<1> HIDE DEF T
<1>6. \A i \in 0..n : i \in T
  BY <1>1, <1>4, <1>5, UpTo
<1>7. \A i \in 0..n : H[i] = E[i] /\ N[i] = M[i]
  BY <1>6 DEF T
<1>8. H[n + 1] = E[n] + Len(Encoded[f])
  <2>1. n + 1 \in 1..(n + 1) /\ (n + 1) - 1 = n /\ n \in 0..n
    BY <1>1
  <2>2. H[n + 1] = H[(n + 1) - 1] + Len(Encoded[gs[n + 1]])
    BY <1>3, <2>1
  <2> QED
    BY <1>1, <1>7, <2>1, <2>2
<1> QED
  BY <1>1, <1>7, <1>8, Zenon DEF gs, n, E, H, M, N

(* The bytes that have been received. *)
Received == Ends(frames)[Len(frames)] - Len(wire)

(* Frames received to their last byte. *)
LEMMA WholeIs ==
  ASSUME frames \in Seq(Frames), Len(wire) \in Nat
  PROVE  /\ Whole \in 0..Len(frames)
         /\ \A j \in 0..Len(frames) :
              Ends(frames)[j] <= Received =>
                /\ j <= Whole
                /\ j = Len(frames) \/ Received < Ends(frames)[j + 1] => Whole = j
<1> DEFINE n == Len(frames)
           E == Ends(frames)
           r == Received
           S == {i \in DOMAIN frames : E[i] + Len(wire) <= E[n]}
<1>1. n \in Nat /\ DOMAIN frames = 1..n
  OBVIOUS
<1>2. E \in [0..n -> Nat]
  BY EndsAre
<1>3. Whole = Cardinality(S)
  BY Zenon DEF Whole
<1>4. r \in Int /\ \A i \in 1..n : i \in S <=> E[i] <= r
  <2>1. r = E[n] - Len(wire)
    BY DEF Received
  <2> HIDE DEF E, n, r
  <2>2. E[n] \in Nat /\ \A i \in 1..n : E[i] \in Nat
    BY <1>1, <1>2
  <2>3. r \in Int
    BY <2>1, <2>2
  <2> QED
    BY <1>1, <2>1, <2>2, <2>3 DEF n
<1>5. \A j \in 0..n : \A i \in 0..j : E[i] <= E[j]
  BY EndsGrow
<1>6. S \subseteq 1..n
  BY <1>1
<1> HIDE DEF S, E, n, r
<1>7. /\ IsFiniteSet(1..n) /\ Cardinality(1..n) = n
      /\ \A j \in 0..n : IsFiniteSet(1..j) /\ Cardinality(1..j) = j
  <2>1. \A j \in Nat : IsFiniteSet(1..j) /\ Cardinality(1..j) = j
    <3> SUFFICES ASSUME NEW j \in Nat PROVE IsFiniteSet(1..j) /\ Cardinality(1..j) = j
      OBVIOUS
    <3>1. 1 \in Int /\ j \in Int
      OBVIOUS
    <3>2. Cardinality(1..j) = IF 1 > j THEN 0 ELSE j - 1 + 1
      BY <3>1, FS_Interval
    <3> QED
      BY <3>1, <3>2, FS_Interval
  <2> QED
    BY <1>1, <2>1
<1>8. IsFiniteSet(S) /\ Cardinality(S) \in Nat /\ Cardinality(S) <= n
  BY <1>6, <1>7, FS_Subset, FS_CardinalityType
<1>9. ASSUME NEW j \in 0..n, E[j] <= r
      PROVE  j <= Cardinality(S) /\ (j = n \/ r < E[j + 1] => Cardinality(S) = j)
  <2>1. 1..j \subseteq S
    <3> SUFFICES ASSUME NEW i \in 1..j PROVE i \in S
      OBVIOUS
    <3>1. i \in 1..n /\ i \in 0..j /\ i \in 0..n
      BY <1>1
    <3>2. E[i] <= E[j] /\ E[i] \in Nat /\ E[j] \in Nat
      BY <1>2, <1>5, <3>1
    <3>3. E[i] <= r
      BY <1>4, <1>9, <3>2
    <3> QED
      BY <1>4, <3>1, <3>3
  <2>2. j <= Cardinality(S)
    <3>1. Cardinality(1..j) <= Cardinality(S)
      BY <1>8, <2>1, FS_Subset
    <3> QED
      BY <1>7, <3>1
  <2>3. ASSUME j = n \/ r < E[j + 1] PROVE S \subseteq 1..j
    <3> SUFFICES ASSUME NEW i \in S, i \notin 1..j PROVE FALSE
      OBVIOUS
    <3>1. i \in 1..n /\ i \in 0..n /\ j + 1 \in 0..i /\ j # n
      BY <1>1, <1>6
    <3>2. E[j + 1] <= E[i] /\ E[i] <= r
      BY <1>4, <1>5, <3>1
    <3>3. E[j + 1] \in Nat /\ E[i] \in Nat
      <4>1. j + 1 \in 0..n
        BY <1>1, <3>1
      <4> QED
        BY <1>2, <3>1, <4>1
    <3> QED
      BY <1>4, <2>3, <3>1, <3>2, <3>3
  <2>4. ASSUME j = n \/ r < E[j + 1] PROVE Cardinality(S) = j
    <3>1. S = 1..j
      BY <2>1, <2>3, <2>4
    <3> QED
      BY <1>7, <3>1
  <2> QED
    BY <2>2, <2>4
<1>10. Whole \in 0..n
  BY <1>1, <1>3, <1>8
<1> QED
  BY <1>3, <1>9, <1>10 DEF n, E, r

(* What the service has is no more than what more frames amount to. *)
LEMMA LooseAtLast ==
  ASSUME NEW fs \in Seq(Frames), NEW k \in 0..Len(fs), NEW j \in 0..k,
         NEW w, Loose(w, Reassembled(fs)[j])
  PROVE  Loose(w, Reassembled(fs)[k])
<1> DEFINE n == Len(fs)
           M == Reassembled(fs)
           T == {d \in 0..(k - j) : Loose(w, M[j + d])}
<1>1. /\ \A i \in 1..n : M[i] = NextFrame(M[i - 1], fs[i])
      /\ \A i \in 0..n : Made(M[i])
  BY ReassembledAre
<1>2. n \in Nat /\ k - j \in Nat
  OBVIOUS
<1> HIDE DEF M
<1>3. 0 \in T
  <2>1. j + 0 = j
    OBVIOUS
  <2> QED
    BY <1>2, <2>1 DEF M
<1> HIDE DEF n
<1>4. ASSUME NEW d \in 1..(k - j), d - 1 \in T PROVE d \in T
  <2>1. (j + d) - 1 \in 0..n /\ j + d \in 1..n /\ (j + d) - 1 = j + (d - 1) /\ d \in 0..(k - j)
    BY <1>2 DEF n
  <2>2. Loose(w, M[(j + d) - 1])
    BY <1>4, <2>1
  <2>3. M[j + d] = NextFrame(M[(j + d) - 1], fs[j + d]) /\ Made(M[(j + d) - 1])
    BY <1>1, <2>1
  <2>4. Loose(w, M[j + d])
    BY <2>2, <2>3, LooseGoesOn
  <2> QED
    BY <2>1, <2>4
<1> HIDE DEF T
<1>5. \A d \in 0..(k - j) : d \in T
  BY <1>2, <1>3, <1>4, UpTo
<1>6. k - j \in T
  BY <1>2, <1>5
<1>7. j + (k - j) = k
  OBVIOUS
<1> QED
  BY <1>6, <1>7 DEF T, M

(* A parser between two frames. *)
Idle(p) == /\ IsWs(p) /\ p.error = "none" /\ p.returned = FALSE
           /\ p.data \in Seq(Nat) /\ Len(p.data) = 0 /\ p.state = "FinAndOpcode"

(* No pong has been received since the last ping. *)
NoPong(fs, ping, j) == \A i \in ping + 1..j : fs[i].opcode # Ws!PONG \/ ~fs[i].masked

(* A connection that goes on, where it should be behind the first k bytes   *)
(* of the frames: the first j frames have been handled, and the parser is   *)
(* inside the next.                                                         *)
InPlace(w, fs, ping, j, k) ==
  /\ Live(w) /\ Good(w, Reassembled(fs)[j])
  /\ w.handler.wait_pong => NoPong(fs, ping, j)
  /\ j = Len(fs) => Idle(w.ws) /\ k = Ends(fs)[j]
  /\ j # Len(fs) => k < Ends(fs)[j + 1] /\ OnWay(w.ws, fs[j + 1], k - Ends(fs)[j])

(* A connection that is closing, or will when the buffer ends. *)
Stopped(w) == ~Live(w) \/ (w.ws.returned = TRUE /\ w.inside = TRUE /\ w.ws.error # "none")

(* What holds behind k bytes of the frames. *)
Followed(w, fs, ping, k) ==
  \E j \in 0..Len(fs) : /\ Ends(fs)[j] <= k
                        /\ Loose(w, Reassembled(fs)[j])
                        /\ Stopped(w) \/ InPlace(w, fs, ping, j, k)

(* Between two frames is before the next. *)
LEMMA IdleIsOnWay ==
  ASSUME NEW p, Idle(p), NEW f \in Frames
  PROVE  OnWay(p, f, 0)
<1> DEFINE h == HeadSize(f)
           k == FormSize(f)
<1>1. h \in Nat /\ k \in {1, 3, 9} /\ h > k /\ MaskSize \in Nat /\ MaskSize > 0 /\ h = 1 + k + MaskSize
  BY FrameSizes
<1> HIDE DEF h, k
<1>2. ~(0 > 0) /\ 0 # 1 /\ ~(0 > 1) /\ 0 \notin 2..k /\ 0 \notin 1 + k..h - 1 /\ ~(0 >= h)
  BY <1>1
<1> QED
  BY <1>2 DEF OnWay, Idle, h, k

(* The parser is set back behind a frame. *)
LEMMA ResetIsIdle ==
  ASSUME NEW p, IsWs(p), p.error = "none"
  PROVE  Idle(Ws!Reset(p))
<1> DEFINE none == <<>>
           fresh == [state |-> "FinAndOpcode", remain |-> 1, data |-> none, error |-> "none",
                     fin |-> FALSE, opcode |-> Ws!CONTINUED, length |-> 0, mask |-> none,
                     returned |-> FALSE]
           q == [fresh EXCEPT !.error = p.error]
<1>1. Ws!Reset(p) = q
  BY DEF Ws!Reset, Ws!Fresh
<1>2. none \in Seq(Nat) /\ Len(none) = 0
  OBVIOUS
<1> HIDE DEF none
<1>3. Idle(q)
  BY <1>2 DEF Idle, IsWs, WsParts
<1> QED
  BY <1>1, <1>3, Zenon

(* What a byte makes of a record: the parser takes it, and a frame may be   *)
(* complete.                                                                *)
Taking(q, v, w, byte, fragments) ==
  /\ WorkOK(q) /\ q.ws = Ws!Step(w.ws, byte) /\ q.inside = TRUE
  /\ q.conn = w.conn /\ q.handler = w.handler /\ q.delivered = w.delivered
  /\ q.ws.state = "Done" => DataOK(q)
  /\ v = IF q.ws.state = "Done" THEN FrameDone(q, fragments) ELSE q

(* A byte that the parser takes. *)
LEMMA Taken ==
  ASSUME NEW w, Working(w), NEW byte \in Nat, NEW fragments,
         w.ws.returned = FALSE, w.conn.closed = "no"
  PROVE  \E q : Taking(q, NextByte(w, byte, fragments), w, byte, fragments)
<1> DEFINE p == Ws!Step(w.ws, byte)
           q == [w EXCEPT !.ws = p, !.inside = TRUE]
<1>1. w.ws.state # "Lost"
  BY DEF Working, WsOK, Collected
<1>2. WsOK(p)
  BY <1>1, WsRound DEF Working
<1>3. NextByte(w, byte, fragments) = IF q.ws.state = "Done" THEN FrameDone(q, fragments) ELSE q
  BY Zenon DEF NextByte
<1> HIDE DEF p
<1>4. /\ IsWork(q) /\ q.conn = w.conn /\ q.handler = w.handler /\ q.ws = p
      /\ q.inside = TRUE /\ q.delivered = w.delivered
  BY DEF Working, WorkOK, IsWork, WorkParts
<1> HIDE DEF q
<1>5. WorkOK(q)
  BY <1>4 DEF Working, WorkOK
<1>6. q.ws.state = "Done" => DataOK(q)
  BY <1>2, <1>4 DEF WsOK, Collected, DataOK
<1> QED
  <2>1. Taking(q, NextByte(w, byte, fragments), w, byte, fragments)
    BY <1>3, <1>4, <1>5, <1>6, Zenon DEF p, Taking
  <2> QED
    BY <2>1

(* The bytes behind the stop of a connection. *)
LEMMA StoppedByte ==
  ASSUME NEW w, Working(w), Stopped(w), NEW byte \in Nat, NEW fragments
  PROVE  LET v == NextByte(w, byte, fragments)
         IN /\ Stopped(v)
            /\ \A m : Loose(w, m) => Loose(v, m)
            /\ v.conn.closed = "pong" => w.conn.closed = "pong"
<1> DEFINE v == NextByte(w, byte, fragments)
           q == [w EXCEPT !.ws = Ws!Step(w.ws, byte), !.inside = TRUE]
<1>1. CASE w.ws.returned \/ w.conn.closed # "no"
  <2>1. v = w
    BY <1>1, Zenon DEF NextByte
  <2> HIDE DEF v
  <2> QED
    BY <2>1 DEF v
<1>2. CASE ~(w.ws.returned \/ w.conn.closed # "no")
  <2>1. w.handler.state = "Closing"
    BY <1>2 DEF Stopped, Live
  <2>3. v = IF q.ws.state = "Done" THEN FrameDone(q, fragments) ELSE q
    BY <1>2, Zenon DEF NextByte
  <2>4. /\ WorkOK(q) /\ q.conn = w.conn /\ q.handler = w.handler /\ q.delivered = w.delivered
    <3> DEFINE p == Ws!Step(w.ws, byte)
    <3> HIDE DEF p
    <3>1. /\ IsWork(q) /\ q.conn = w.conn /\ q.handler = w.handler /\ q.delivered = w.delivered
      BY DEF Working, WorkOK, IsWork, WorkParts
    <3> HIDE DEF q
    <3> QED
      BY <3>1 DEF Working, WorkOK
  <2> HIDE DEF q
  <2>5. LET u == FrameDone(q, fragments)
        IN /\ u.handler.state = "Closing" /\ u.delivered = q.delivered
           /\ u.conn.closed = "pong" => q.conn.closed = "pong"
    BY <2>1, <2>4, ClosingFrameDone
  <2> HIDE DEF v
  <2>6. /\ v.handler.state = "Closing" /\ v.delivered = w.delivered
        /\ v.conn.closed = "pong" => w.conn.closed = "pong"
    BY <2>1, <2>3, <2>4, <2>5
  <2>7. \A m : Loose(w, m) => Loose(v, m)
    BY <1>2, <2>6 DEF Loose
  <2> QED
    BY <2>6, <2>7 DEF Stopped, Live, v
<1> QED
  BY <1>1, <1>2

(* A byte of a frame, while the connection goes on. *)
LEMMA InPlaceByte ==
  ASSUME NEW w, Working(w), NEW fs \in Seq(Frames), NEW ping \in Nat,
         NEW j \in 0..Len(fs), j # Len(fs), NEW k \in Nat, Ends(fs)[j] <= k,
         InPlace(w, fs, ping, j, k), NEW fragments,
         NEW byte, byte = Encoded[fs[j + 1]][k - Ends(fs)[j] + 1]
  PROVE  LET v == NextByte(w, byte, fragments)
         IN Followed(v, fs, ping, k + 1) /\ v.conn.closed # "pong"
<1> DEFINE f == fs[j + 1]
           n == Len(fs)
           E == Ends(fs)
           M == Reassembled(fs)
           i == k - E[j]
           v == NextByte(w, byte, fragments)
<1>1. n \in Nat /\ j + 1 \in 1..n /\ f \in Frames
  OBVIOUS
<1>2. /\ \A l \in 0..n : E[l] \in Nat
      /\ \A l \in 1..n : /\ E[l] = E[l - 1] + Len(Encoded[fs[l]])
                         /\ Len(Encoded[fs[l]]) \in Nat /\ Len(Encoded[fs[l]]) >= 2
  <2>1. /\ E \in [0..n -> Nat]
        /\ \A l \in 1..n : E[l] = E[l - 1] + Len(Encoded[fs[l]])
    BY EndsAre
  <2>2. \A l \in 1..n : fs[l] \in Frames
    OBVIOUS
  <2> HIDE DEF E, n
  <2> QED
    BY <2>1, <2>2, FrameSizes
<1>3. /\ \A l \in 1..n : M[l] = NextFrame(M[l - 1], fs[l])
      /\ \A l \in 0..n : Made(M[l])
  BY ReassembledAre
<1>4. /\ Live(w) /\ Good(w, M[j]) /\ (w.handler.wait_pong => NoPong(fs, ping, j))
      /\ k < E[j + 1] /\ OnWay(w.ws, f, i)
  BY DEF InPlace
<1> HIDE DEF E, n, M
<1>5. /\ E[j] \in Nat /\ E[j + 1] \in Nat /\ E[j + 1] = E[j] + Len(Encoded[f])
      /\ Len(Encoded[f]) \in Nat
  <2>1. (j + 1) - 1 = j /\ j + 1 \in 0..n
    BY <1>1
  <2>2. E[j + 1] = E[(j + 1) - 1] + Len(Encoded[f]) /\ Len(Encoded[f]) \in Nat
    BY <1>1, <1>2
  <2>3. E[j] \in Nat /\ E[j + 1] \in Nat
    BY <1>2, <2>1 DEF n
  <2> QED
    BY <2>1, <2>2, <2>3
<1>6. i \in Nat /\ i < Len(Encoded[f]) /\ (k + 1) - E[j] = i + 1
  <2>1. E[j] <= k
    BY DEF E
  <2> QED
    BY <1>4, <1>5, <2>1
<1>7. byte \in Nat /\ byte = Encoded[f][i + 1]
  <2>1. Encoded[f] \in Seq(Nat)
    BY <1>1, EncodedIsBytes
  <2>2. byte = Encoded[f][i + 1]
    BY DEF E
  <2> HIDE DEF f, i
  <2>3. i + 1 \in 1..Len(Encoded[f])
    BY <1>5, <1>6
  <2> QED
    BY <2>1, <2>2, <2>3
<1> HIDE DEF f, i
<1>8. ByteRead(Ws!Step(w.ws, byte), f, i + 1) /\ w.ws.returned = FALSE
  BY <1>1, <1>4, <1>6, <1>7, FrameBytes
<1>9. w.conn.closed = "no"
  BY <1>4 DEF Live
<1> HIDE DEF v
<1>10. PICK q : Taking(q, v, w, byte, fragments)
  <2>1. \E q : Taking(q, NextByte(w, byte, fragments), w, byte, fragments)
    BY <1>7, <1>8, <1>9, Taken
  <2> QED
    BY <2>1, Zenon DEF v
<1>11. /\ WorkOK(q) /\ q.ws = Ws!Step(w.ws, byte) /\ q.inside = TRUE
       /\ q.conn = w.conn /\ q.handler = w.handler /\ q.delivered = w.delivered
       /\ q.ws.state = "Done" => DataOK(q)
       /\ v = IF q.ws.state = "Done" THEN FrameDone(q, fragments) ELSE q
  BY <1>10, Zenon DEF Taking
<1>12. ByteRead(q.ws, f, i + 1)
  BY <1>8, <1>11
<1>13. Live(q) /\ Good(q, M[j]) /\ Made(M[j])
  BY <1>1, <1>3, <1>4, <1>11 DEF Live, Good, Complete, n
<1>14. Loose(q, M[j])
  BY <1>13, GoodIsLoose
<1>15. E[j] <= k + 1
  BY <1>5 DEF E
<1>16. CASE Refusing(q.ws)
  <2>1. v = q /\ Stopped(q)
    BY <1>11, <1>16 DEF Refusing, Stopped
  <2>2. v.conn.closed # "pong"
    BY <1>9, <1>11, <2>1
  <2> QED
    BY <1>14, <1>15, <2>1, <2>2 DEF Followed, E, M, v
<1>17. CASE i + 1 < Len(Encoded[f]) /\ OnWay(q.ws, f, i + 1)
  <2>1. q.ws.state # "Done"
    <3>1. i + 1 \in Nat
      BY <1>6
    <3>2. q.ws.state \notin {"Done", "Lost"}
      BY <1>1, <1>17, <3>1, FrameBytes
    <3> QED
      BY <3>2
  <2>2. v = q
    BY <1>11, <2>1
  <2>3. InPlace(q, fs, ping, j, k + 1)
    <3>1. k + 1 < E[j + 1]
      BY <1>5, <1>6, <1>17
    <3>2. q.handler.wait_pong => NoPong(fs, ping, j)
      BY <1>4, <1>11
    <3> QED
      BY <1>6, <1>13, <1>17, <3>1, <3>2 DEF InPlace, E, M, f
  <2>4. v.conn.closed # "pong"
    BY <1>9, <1>11, <2>2
  <2> QED
    BY <1>14, <1>15, <2>2, <2>3, <2>4 DEF Followed, E, M, v
<1>18. CASE i + 1 = Len(Encoded[f]) /\ AtEnd(q.ws, f)
  <2>1. v = FrameDone(q, fragments) /\ DataOK(q)
    BY <1>11, <1>18 DEF AtEnd
  <2>2. M[j + 1] = NextFrame(M[j], f)
    <3>1. (j + 1) - 1 = j
      OBVIOUS
    <3> QED
      BY <1>1, <1>3, <3>1 DEF f
  <2>3. /\ Live(v) => Good(v, M[j + 1])
        /\ Loose(v, M[j + 1])
        /\ v.handler.wait_pong => q.handler.wait_pong /\ f.opcode # Ws!PONG
        /\ v.ws = Ws!Reset(q.ws)
        /\ v.conn.closed # "pong"
    <3> DEFINE m == M[j]
    <3> HIDE DEF m
    <3>1. Made(m) /\ Good(q, m)
      BY <1>13 DEF m
    <3>2. /\ Live(v) => Good(v, NextFrame(m, f))
          /\ Loose(v, NextFrame(m, f))
          /\ v.handler.wait_pong => q.handler.wait_pong /\ f.opcode # Ws!PONG
          /\ v.ws = Ws!Reset(q.ws)
          /\ v.conn.closed # "pong"
      BY <1>1, <1>11, <1>13, <1>18, <2>1, <3>1, FrameDoneIs
    <3> QED
      BY <2>2, <3>2 DEF m
  <2>4. k + 1 = E[j + 1] /\ j + 1 \in 0..n
    BY <1>1, <1>5, <1>6, <1>18
  <2>5. Idle(v.ws)
    BY <1>18, <2>3, ResetIsIdle DEF AtEnd
  <2>6. Live(v) => InPlace(v, fs, ping, j + 1, k + 1)
    <3> SUFFICES ASSUME Live(v) PROVE InPlace(v, fs, ping, j + 1, k + 1)
      OBVIOUS
    <3>1. v.handler.wait_pong => NoPong(fs, ping, j + 1)
      <4> SUFFICES ASSUME v.handler.wait_pong, NEW l \in ping + 1..j + 1
                   PROVE  fs[l].opcode # Ws!PONG \/ ~fs[l].masked
        BY DEF NoPong
      <4>1. l = j + 1 \/ l \in ping + 1..j
        BY <1>1
      <4> QED
        BY <1>4, <1>11, <2>3, <4>1 DEF NoPong, f
    <3>2. j + 1 # n =>
            /\ k + 1 < E[(j + 1) + 1]
            /\ OnWay(v.ws, fs[(j + 1) + 1], (k + 1) - E[j + 1])
      <4> SUFFICES ASSUME j + 1 # n
                   PROVE  /\ k + 1 < E[(j + 1) + 1]
                          /\ OnWay(v.ws, fs[(j + 1) + 1], (k + 1) - E[j + 1])
        OBVIOUS
      <4>1. (j + 1) + 1 \in 1..n /\ ((j + 1) + 1) - 1 = j + 1
        BY <1>1, <2>4
      <4> DEFINE l == (j + 1) + 1
      <4> HIDE DEF l
      <4>2. /\ E[l] = E[l - 1] + Len(Encoded[fs[l]])
            /\ Len(Encoded[fs[l]]) \in Nat /\ Len(Encoded[fs[l]]) >= 2
        BY <1>2, <4>1 DEF l
      <4>3. l - 1 = j + 1
        BY <4>1 DEF l
      <4>4. k + 1 < E[l]
        BY <1>5, <2>4, <4>2, <4>3
      <4>5. fs[l] \in Frames /\ (k + 1) - E[j + 1] = 0
        BY <1>5, <2>4, <4>1 DEF l, n
      <4>6. OnWay(v.ws, fs[l], 0)
        BY <2>5, <4>5, IdleIsOnWay
      <4> QED
        BY <4>4, <4>5, <4>6 DEF l
    <3> QED
      BY <2>3, <2>4, <2>5, <3>1, <3>2 DEF InPlace, E, M, n
  <2>7. E[j + 1] <= k + 1
    BY <2>4
  <2> QED
    BY <2>3, <2>4, <2>6, <2>7 DEF Followed, Stopped, E, M, n, v
<1> QED
  BY <1>12, <1>16, <1>17, <1>18 DEF ByteRead

(* The bytes of the client that have been received. *)
Behind(fs, bytes) == Ends(fs)[Len(fs)] - Len(bytes)

(* The bytes under way are the last of those of the frames. *)
OnWire(fs, bytes) ==
  /\ bytes \in Seq(Nat) /\ Behind(fs, bytes) \in Nat
  /\ \A j \in 1..Len(fs) : \A i \in 1..Len(Encoded[fs[j]]) :
       Ends(fs)[j - 1] + i - Behind(fs, bytes) > 0 =>
         bytes[Ends(fs)[j - 1] + i - Behind(fs, bytes)] = Encoded[fs[j]][i]

(* A buffer. *)
LEMMA BufferFollowed ==
  ASSUME NEW fs \in Seq(Frames), NEW bytes, OnWire(fs, bytes), NEW ping \in Nat,
         NEW n \in 1..Len(bytes), NEW room, NEW fragments, Working(Before(room)),
         Followed(Before(room), fs, ping, Behind(fs, bytes)), conn.closed # "pong"
  PROVE  LET w == AfterBytes(SubSeq(bytes, 1, n), room, fragments)[n]
         IN /\ Working(w) /\ w.conn.closed # "pong"
            /\ Followed(w, fs, ping, Behind(fs, bytes) + n)
<1> DEFINE b == SubSeq(bytes, 1, n)
           r == Behind(fs, bytes)
           E == Ends(fs)
           L == Len(fs)
           A == AfterBytes(b, room, fragments)
           Fine(i) == /\ Working(A[i]) /\ A[i].conn.closed # "pong"
                      /\ Followed(A[i], fs, ping, r + i)
           T == {i \in 0..n : Fine(i)}
<1>1. /\ bytes \in Seq(Nat) /\ r \in Nat /\ Len(bytes) \in Nat
      /\ r = E[L] - Len(bytes)
      /\ \A j \in 1..L : \A i \in 1..Len(Encoded[fs[j]]) :
           E[j - 1] + i - r > 0 => bytes[E[j - 1] + i - r] = Encoded[fs[j]][i]
  BY DEF OnWire, Behind
<1>2. b \in Seq(Nat) /\ Len(b) = n /\ n \in Nat /\ \A i \in 1..n : b[i] = bytes[i] /\ b[i] \in Nat
  BY <1>1
<1>3. L \in Nat /\ \A j \in 0..L : E[j] \in Nat
  BY EndsAre
<1>4. \A j \in 1..L : E[j] = E[j - 1] + Len(Encoded[fs[j]]) /\ Len(Encoded[fs[j]]) \in Nat
  BY EndsAre, FrameSizes
<1> HIDE DEF b, r, E, L
<1>5. A[0] = Before(room) /\ \A i \in 1..n : A[i] = NextByte(A[i - 1], b[i], fragments)
  <2>1. Len(b) \in Nat
    BY <1>2
  <2>2. A[0] = Before(room) /\ \A i \in 1..Len(b) : A[i] = NextByte(A[i - 1], b[i], fragments)
    BY <2>1, AfterBytesAre
  <2> HIDE DEF A
  <2> QED
    BY <1>2, <2>2
<1> HIDE DEF A
<1>6. 0 \in T
  <2>1. Before(room).conn = conn
    BY DEF Before
  <2>2. r + 0 = r
    BY <1>1
  <2>3. Fine(0)
    BY <1>5, <2>1, <2>2 DEF r
  <2> HIDE DEF Fine
  <2> QED
    BY <1>2, <2>3
<1>7. ASSUME NEW i \in 1..n, i - 1 \in T PROVE i \in T
  <2> DEFINE w == A[i - 1]
             k == r + (i - 1)
             v == NextByte(w, b[i], fragments)
  <2>1. Working(w) /\ w.conn.closed # "pong" /\ Followed(w, fs, ping, k)
    BY <1>7
  <2>2. k \in Nat /\ k + 1 = r + i /\ b[i] \in Nat
    BY <1>1, <1>2
  <2>3. A[i] = v
    BY <1>5
  <2> HIDE DEF w, Fine
  <2>4. Working(v)
    BY <2>1, <2>2, NextByteKept
  <2>5. PICK j \in 0..L : /\ E[j] <= k /\ Loose(w, Reassembled(fs)[j])
                          /\ Stopped(w) \/ InPlace(w, fs, ping, j, k)
    BY <2>1 DEF Followed, E, L
  <2>6. Followed(v, fs, ping, k + 1) /\ v.conn.closed # "pong"
    <3>1. CASE Stopped(w)
      <4>1. Stopped(v) /\ Loose(v, Reassembled(fs)[j]) /\ v.conn.closed # "pong"
        BY <2>1, <2>2, <2>5, <3>1, StoppedByte
      <4>2. E[j] <= k + 1
        BY <1>3, <2>2, <2>5
      <4> HIDE DEF v, k
      <4> QED
        BY <4>1, <4>2 DEF Followed, E, L
    <3>2. CASE InPlace(w, fs, ping, j, k)
      <4>1. j # L
        <5> SUFFICES ASSUME j = L PROVE FALSE
          OBVIOUS
        <5> HIDE DEF k, v
        <5>1. k = E[j]
          BY <3>2 DEF InPlace, L, E
        <5>2. E[L] \in Nat /\ r = E[L] - Len(bytes) /\ r \in Nat /\ Len(bytes) \in Nat
          BY <1>1, <1>3
        <5>3. n \in Nat /\ n <= Len(bytes) /\ i <= n /\ i \in Nat
          BY <1>1, <1>2
        <5>4. r + (i - 1) = E[L]
          BY <5>1 DEF k
        <5> QED
          BY <5>2, <5>3, <5>4
      <4> DEFINE f == fs[j + 1]
                 i1 == k - E[j] + 1
      <4>2. j + 1 \in 1..L /\ (j + 1) - 1 = j /\ E[j] \in Nat
        BY <1>3, <4>1
      <4>3. k < E[j + 1]
        BY <3>2, <4>1 DEF InPlace, L, E
      <4>4. E[j + 1] = E[j] + Len(Encoded[f]) /\ Len(Encoded[f]) \in Nat
        <5>1. E[j + 1] = E[(j + 1) - 1] + Len(Encoded[fs[j + 1]]) /\ Len(Encoded[fs[j + 1]]) \in Nat
          BY <1>4, <4>2
        <5> QED
          BY <4>2, <5>1
      <4>5. i1 \in 1..Len(Encoded[f]) /\ E[j] + i1 - r = i
        <5>1. k \in Nat /\ k = r + (i - 1) /\ r \in Nat /\ i \in Nat
          BY <1>1, <1>2, <2>2
        <5>2. E[j] <= k
          BY <2>5
        <5> HIDE DEF k, f
        <5> QED
          BY <4>2, <4>3, <4>4, <5>1, <5>2
      <4> HIDE DEF i1, k, f
      <4>6. bytes[i] = Encoded[f][i1]
        <5>1. E[(j + 1) - 1] + i1 - r = i
          BY <4>2, <4>5
        <5>2. i > 0
          BY <1>2
        <5>3. E[(j + 1) - 1] + i1 - r > 0 => bytes[E[(j + 1) - 1] + i1 - r] = Encoded[fs[j + 1]][i1]
          BY <1>1, <4>2, <4>5 DEF f
        <5> QED
          BY <5>1, <5>2, <5>3 DEF f
      <4>7. b[i] = Encoded[fs[j + 1]][k - E[j] + 1]
        BY <1>2, <4>6 DEF i1, f
      <4> QED
        BY <2>1, <2>2, <2>5, <3>2, <4>1, <4>7, InPlaceByte DEF E, L
    <3> QED
      BY <2>5, <3>1, <3>2
  <2>7. Fine(i)
    BY <2>2, <2>3, <2>4, <2>6 DEF Fine
  <2> QED
    BY <1>2, <2>7
<1> HIDE DEF T
<1>8. \A i \in 0..n : i \in T
  BY <1>2, <1>6, <1>7, UpTo
<1>9. n \in T
  BY <1>2, <1>8
<1> QED
  BY <1>9 DEF T, A, r, b

-----------------------------------------------------------------------------
(* The connection, from buffer to buffer. *)

(* What holds behind k bytes of the frames, between two buffers. *)
Rested(v, fs, ping, k) ==
  \E j \in 0..Len(fs) : /\ Ends(fs)[j] <= k
                        /\ Loose(v, Reassembled(fs)[j])
                        /\ ~Live(v) \/ InPlace(v, fs, ping, j, k)

(* The end of a buffer: who had to stop has stopped. *)
LEMMA BufferDoneRested ==
  ASSUME NEW w, WorkOK(w), NEW fs, NEW ping, NEW k, Followed(w, fs, ping, k),
         w.conn.closed # "pong"
  PROVE  LET v == BufferDone(w)
         IN Rested(v, fs, ping, k) /\ v.conn.closed # "pong"
<1> DEFINE v == BufferDone(w)
<1>1. PICK j \in 0..Len(fs) : /\ Ends(fs)[j] <= k
                              /\ Loose(w, Reassembled(fs)[j])
                              /\ Stopped(w) \/ InPlace(w, fs, ping, j, k)
  BY DEF Followed
<1>2. CASE w.inside /\ w.ws.error # "none"
  <2>1. v = SendCloseFrame(w)
    BY <1>2, Zenon DEF BufferDone
  <2>2. Quiet(w, v) /\ ~Live(v)
    BY <2>1, SendCloseFrameIs, Zenon
  <2> HIDE DEF v
  <2>3. v.delivered = w.delivered /\ v.conn.closed # "pong"
        /\ (w.conn.closed = "no_buffer" => v.conn.closed = "no_buffer")
    BY <2>2 DEF Quiet
  <2>4. Loose(v, Reassembled(fs)[j])
    BY <1>1, <2>3 DEF Loose
  <2> QED
    BY <1>1, <2>2, <2>3, <2>4 DEF Rested, v
<1>3. CASE ~(w.inside /\ w.ws.error # "none")
  <2>1. v = w
    BY <1>3, Zenon DEF BufferDone
  <2>2. ~Live(w) \/ InPlace(w, fs, ping, j, k)
    BY <1>1, <1>3 DEF Stopped
  <2> HIDE DEF v
  <2> QED
    BY <1>1, <2>1, <2>2 DEF Rested, v
<1> QED
  BY <1>2, <1>3

(* The connection between two buffers, as a record. *)
Now == [conn |-> conn, ws |-> ws, handler |-> handler, delivered |-> delivered]

(* It is only these parts that matter. *)
LEMMA RestedAlike ==
  ASSUME NEW w, NEW v, w.conn.closed = v.conn.closed, w.handler = v.handler,
         w.delivered = v.delivered, w.ws = v.ws,
         NEW fs, NEW ping, NEW k, Rested(w, fs, ping, k)
  PROVE  Rested(v, fs, ping, k)
<1>1. PICK j \in 0..Len(fs) : /\ Ends(fs)[j] <= k
                              /\ Loose(w, Reassembled(fs)[j])
                              /\ ~Live(w) \/ InPlace(w, fs, ping, j, k)
  BY DEF Rested
<1>2. Loose(v, Reassembled(fs)[j])
  BY <1>1 DEF Loose
<1>3. Live(v) => Live(w)
  BY DEF Live
<1>4. InPlace(w, fs, ping, j, k) => InPlace(v, fs, ping, j, k)
  BY DEF InPlace, Live, Good, Complete
<1> QED
  BY <1>1, <1>2, <1>3, <1>4 DEF Rested

(* The wait for a pong has closed the connection only if none was received. *)
Unanswered == conn.closed = "pong" /\ handler.state # "Closing" => NoPong(frames, pinged, Whole)

(* Nothing has been received on a connection before its upgrade. *)
Unused == /\ frames = <<>> /\ delivered = <<>> /\ ws = Ws!Fresh /\ conn.closed # "pong"
          /\ handler = [state |-> "Normal", cache |-> <<>>, wait_pong |-> FALSE, timer |-> 0]

(* The invariant: an upgraded connection is where the bytes put it that it  *)
(* has received.                                                            *)
Following == /\ pinged \in Nat /\ Unanswered
             /\ conn.stage = "http" => Unused
             /\ conn.stage = "websocket" =>
                  /\ OnWire(frames, wire)
                  /\ Rested(Now, frames, pinged, Behind(frames, wire))

(* A new connection. *)
LEMMA InitFollowing == Init => Following
BY DEF Init, Following, Unanswered, Unused

(* A frame is sent. *)
LEMMA SendFollowing ==
  ASSUME ParsedOnce, Following, NEW f \in Frames, Send(f)
  PROVE  Following'
<1> DEFINE fs == frames
           gs == Append(frames, f)
           n == Len(frames)
           e == Encoded[f]
           bytes == wire \o e
           r == Behind(fs, wire)
           E == Ends(fs)
           H == Ends(gs)
<1>1. /\ frames' = gs /\ wire' = bytes /\ conn.stage = "websocket" /\ conn.closed = "no"
      /\ UNCHANGED <<conn, ws, handler, delivered, pinged>>
  BY DEF Send, Open
<1>2. fs \in Seq(Frames) /\ n \in Nat /\ pinged \in Nat
  BY DEF ParsedOnce, Typed, Following
<1>3. /\ gs \in Seq(Frames) /\ Len(gs) = n + 1 /\ gs[n + 1] = f
      /\ \A i \in 1..n : gs[i] = fs[i]
      /\ \A i \in 0..n : H[i] = E[i] /\ Reassembled(gs)[i] = Reassembled(fs)[i]
      /\ H[n + 1] = E[n] + Len(e)
  BY <1>2, OneMore
<1>4. wire \in Seq(Nat) /\ e \in Seq(Nat) /\ Len(e) \in Nat /\ Len(e) >= 2
  BY <1>1, EncodedIsBytes, FrameSizes DEF ParsedOnce, Upgraded
<1>5. /\ r \in Nat /\ r = E[n] - Len(wire)
      /\ \A j \in 1..n : \A i \in 1..Len(Encoded[fs[j]]) :
           E[j - 1] + i - r > 0 => wire[E[j - 1] + i - r] = Encoded[fs[j]][i]
  BY <1>1 DEF Following, OnWire, Behind
<1>6. \A j \in 0..n : E[j] \in Nat
  BY <1>2, EndsAre
<1>7. \A j \in 1..n : /\ E[j] = E[j - 1] + Len(Encoded[fs[j]]) /\ Len(Encoded[fs[j]]) \in Nat
                      /\ E[j] <= E[n]
  <2>1. \A j \in 1..n : E[j] = E[j - 1] + Len(Encoded[fs[j]])
    BY <1>2, EndsAre
  <2>2. \A j \in 1..n : fs[j] \in Frames
    BY <1>2
  <2>3. \A j \in 1..n : Len(Encoded[fs[j]]) \in Nat
    BY <2>2, FrameSizes
  <2>4. ASSUME NEW j \in 1..n PROVE E[j] <= E[n]
    <3>1. j \in 0..n /\ n \in 0..n
      BY <1>2
    <3> QED
      BY <1>2, <3>1, EndsGrow
  <2> HIDE DEF E
  <2> QED
    BY <2>1, <2>3, <2>4
<1> HIDE DEF gs, e, r, E, H
<1>8. /\ bytes \in Seq(Nat) /\ Len(bytes) = Len(wire) + Len(e)
      /\ \A i \in 1..Len(wire) : bytes[i] = wire[i]
      /\ \A i \in 1..Len(e) : bytes[Len(wire) + i] = e[i]
  BY <1>4
<1> HIDE DEF bytes
<1>9. Behind(gs, bytes) = r
  <2>1. E[n] \in Nat /\ Len(wire) \in Nat
    BY <1>2, <1>4, <1>6
  <2>2. Behind(gs, bytes) = H[n + 1] - Len(bytes)
    BY <1>3, Zenon DEF Behind, H
  <2>3. H[n + 1] = E[n] + Len(e) /\ Len(bytes) = Len(wire) + Len(e) /\ r = E[n] - Len(wire)
    BY <1>3, <1>5, <1>8
  <2>4. \A a, b, c \in Nat : (a + c) - (b + c) = a - b
    OBVIOUS
  <2>5. (E[n] + Len(e)) - (Len(wire) + Len(e)) = E[n] - Len(wire)
    BY <1>4, <2>1, <2>4
  <2> QED
    BY <2>2, <2>3, <2>5
<1>10. OnWire(gs, bytes)
  <2>1. ASSUME NEW j \in 1..n + 1, NEW i \in 1..Len(Encoded[gs[j]]), H[j - 1] + i - r > 0
        PROVE  bytes[H[j - 1] + i - r] = Encoded[gs[j]][i]
    <3>1. CASE j = n + 1
      <4>1. H[j - 1] = E[n] /\ gs[j] = f
        BY <1>2, <1>3, <3>1
      <4>2. i \in 1..Len(e) /\ i \in Nat
        BY <1>4, <4>1 DEF e
      <4>3. H[j - 1] + i - r = Len(wire) + i
        <5>1. E[n] \in Nat /\ Len(wire) \in Nat
          BY <1>2, <1>4, <1>6
        <5> QED
          BY <1>5, <4>1, <4>2, <5>1
      <4> QED
        BY <1>8, <4>1, <4>2, <4>3 DEF e
    <3>2. CASE j # n + 1
      <4>1. j \in 1..n /\ j - 1 \in 0..n
        BY <1>2, <3>2
      <4>2. H[j - 1] = E[j - 1] /\ gs[j] = fs[j]
        BY <1>3, <4>1
      <4>3. i \in 1..Len(Encoded[fs[j]]) /\ i \in Nat
        BY <1>7, <4>1, <4>2
      <4>4. wire[E[j - 1] + i - r] = Encoded[fs[j]][i]
        BY <1>5, <2>1, <4>1, <4>2, <4>3
      <4>5. E[j - 1] + i - r \in 1..Len(wire)
        <5>1. E[j - 1] \in Nat /\ E[n] \in Nat /\ Len(wire) \in Nat
          BY <1>2, <1>4, <1>6, <4>1
        <5>2. E[j - 1] + i - r > 0 /\ E[j - 1] + i <= E[n]
          <6>1. i <= Len(Encoded[fs[j]]) /\ Len(Encoded[fs[j]]) \in Nat
            BY <1>7, <4>1, <4>3
          <6>2. E[j] = E[j - 1] + Len(Encoded[fs[j]]) /\ E[j] <= E[n]
            BY <1>7, <4>1
          <6>3. E[j - 1] + i - r > 0
            BY <2>1, <4>2
          <6> QED
            BY <4>3, <5>1, <6>1, <6>2, <6>3
        <5>3. r \in Nat /\ r = E[n] - Len(wire)
          BY <1>5
        <5> DEFINE a == E[j - 1]
                   b == E[n]
        <5> HIDE DEF a, b
        <5>4. a + i - r \in Int /\ a + i - r <= Len(wire) /\ a + i - r > 0
          <6> DEFINE c == Len(wire)
          <6>1. a \in Nat /\ b \in Nat /\ c \in Nat /\ a + i <= b /\ r \in Nat /\ r = b - c
            BY <5>1, <5>2, <5>3 DEF a, b
          <6>2. a + i - r > 0
            BY <5>2 DEF a
          <6> HIDE DEF c
          <6>3. a + i - r \in Int /\ a + i - r <= c
            BY <4>3, <6>1
          <6> QED
            BY <6>2, <6>3 DEF c
        <5> QED
          BY <5>1, <5>4 DEF a
      <4> QED
        BY <1>8, <4>2, <4>4, <4>5
    <3> QED
      BY <3>1, <3>2
  <2> QED
    BY <1>3, <1>5, <1>8, <1>9, <2>1 DEF OnWire, H
<1>11. Rested(Now, gs, pinged, r)
  <2>1. PICK j \in 0..n : /\ E[j] <= r
                          /\ Loose(Now, Reassembled(fs)[j])
                          /\ ~Live(Now) \/ InPlace(Now, fs, pinged, j, r)
    BY <1>1 DEF Following, Rested, E, r
  <2>2. j \in 0..Len(gs) /\ H[j] = E[j] /\ Reassembled(gs)[j] = Reassembled(fs)[j] /\ j # n + 1
    BY <1>2, <1>3, <2>1
  <2>3. ASSUME InPlace(Now, fs, pinged, j, r) PROVE InPlace(Now, gs, pinged, j, r)
    <3> DEFINE w == Now
    <3> HIDE DEF w
    <3>1. Live(w) /\ Good(w, Reassembled(gs)[j])
      BY <2>2, <2>3 DEF InPlace, w
    <3>2. w.handler.wait_pong => NoPong(gs, pinged, j)
      <4>1. w.handler.wait_pong => NoPong(fs, pinged, j)
        BY <2>3 DEF InPlace, w
      <4>2. \A i \in pinged + 1..j : gs[i] = fs[i]
        BY <1>2, <1>3
      <4> QED
        BY <4>1, <4>2 DEF NoPong
    <3>3. /\ r < H[j + 1] /\ OnWay(w.ws, gs[j + 1], r - H[j])
      <4>1. CASE j = n
        <5>1. Idle(w.ws) /\ r = E[n]
          BY <2>3, <4>1 DEF InPlace, w, E
        <5>2. E[n] \in Nat
          BY <1>2, <1>6
        <5>3. r < H[j + 1] /\ r - H[j] = 0
          BY <1>3, <1>4, <2>2, <4>1, <5>1, <5>2
        <5>4. OnWay(w.ws, f, 0)
          BY <5>1, IdleIsOnWay
        <5> QED
          BY <1>3, <4>1, <5>3, <5>4
      <4>2. CASE j # n
        <5>1. r < E[j + 1] /\ OnWay(w.ws, fs[j + 1], r - E[j])
          BY <2>3, <4>2 DEF InPlace, w, E
        <5>2. j + 1 \in 0..n /\ j + 1 \in 1..n
          BY <1>2, <4>2
        <5>3. H[j + 1] = E[j + 1] /\ gs[j + 1] = fs[j + 1]
          BY <1>3, <5>2
        <5> QED
          BY <2>2, <5>1, <5>3
      <4> QED
        BY <4>1, <4>2
    <3> QED
      BY <1>3, <2>2, <3>1, <3>2, <3>3 DEF InPlace, w, H
  <2> QED
    BY <2>1, <2>2, <2>3 DEF Rested, H
<1>12. Now' = Now
  BY <1>1 DEF Now
<1>13. Unanswered'
  BY <1>1 DEF Unanswered
<1> QED
  BY <1>1, <1>2, <1>9, <1>10, <1>11, <1>12, <1>13 DEF Following

(* The parser of a connection that goes on knows its place. *)
LEMMA InPlaceParser ==
  ASSUME NEW w, NEW fs \in Seq(Frames), NEW ping, NEW j \in 0..Len(fs), NEW k \in Nat,
         Ends(fs)[j] <= k, InPlace(w, fs, ping, j, k)
  PROVE  IsWs(w.ws) /\ w.ws.returned = FALSE /\ w.ws.state # "Lost"
<1>1. CASE j = Len(fs)
  BY <1>1 DEF InPlace, Idle
<1>2. CASE j # Len(fs)
  <2> DEFINE f == fs[j + 1]
             i == k - Ends(fs)[j]
             a == Ends(fs)[j]
             b == Ends(fs)[j + 1]
             l == Len(Encoded[f])
  <2>1. k < b /\ OnWay(w.ws, f, i)
    BY <1>2 DEF InPlace
  <2>2. j + 1 \in 1..Len(fs) /\ (j + 1) - 1 = j /\ f \in Frames
    BY <1>2
  <2>3. a \in Nat /\ b = a + l
    <3>1. Ends(fs)[j + 1] = Ends(fs)[(j + 1) - 1] + Len(Encoded[fs[j + 1]]) /\ Ends(fs)[j] \in Nat
      BY <2>2, EndsAre
    <3> QED
      BY <2>2, <3>1
  <2>4. l \in Nat
    BY <2>2, FrameSizes
  <2>5. a <= k
    OBVIOUS
  <2> HIDE DEF f, a, b, l
  <2>6. k - a \in Nat /\ k - a < l
    BY <2>1, <2>3, <2>4, <2>5
  <2>7. i \in Nat /\ i < Len(Encoded[f])
    BY <2>6 DEF a, l
  <2> HIDE DEF i
  <2>8. w.ws.state \notin {"Done", "Lost"} /\ w.ws.returned = FALSE
    BY <2>1, <2>2, <2>7, FrameBytes
  <2>9. IsWs(w.ws)
    BY <2>1 DEF OnWay
  <2> QED
    BY <2>8, <2>9
<1> QED
  BY <1>1, <1>2

(* The bytes behind those that a buffer takes. *)
LEMMA OnWireGoesOn ==
  ASSUME NEW fs \in Seq(Frames), NEW bytes, OnWire(fs, bytes), NEW n \in 1..Len(bytes)
  PROVE  LET rest == SubSeq(bytes, n + 1, Len(bytes))
         IN OnWire(fs, rest) /\ Behind(fs, rest) = Behind(fs, bytes) + n
<1> DEFINE rest == SubSeq(bytes, n + 1, Len(bytes))
           l == Len(bytes)
           r == Behind(fs, bytes)
           E == Ends(fs)
           L == Len(fs)
<1>1. bytes \in Seq(Nat) /\ r \in Nat /\ r = E[L] - l /\ l \in Nat /\ E[L] \in Nat
  <2>1. L \in 0..L
    OBVIOUS
  <2> QED
    BY <2>1, EndsAre DEF OnWire, Behind
<1>2. \A j \in 1..L : /\ E[j - 1] \in Nat /\ Len(Encoded[fs[j]]) \in Nat
                      /\ E[j] = E[j - 1] + Len(Encoded[fs[j]]) /\ E[j] \in Nat /\ E[j] <= E[L]
  <2> SUFFICES ASSUME NEW j \in 1..L
               PROVE  /\ E[j - 1] \in Nat /\ Len(Encoded[fs[j]]) \in Nat
                      /\ E[j] = E[j - 1] + Len(Encoded[fs[j]]) /\ E[j] \in Nat /\ E[j] <= E[L]
    OBVIOUS
  <2>1. fs[j] \in Frames /\ j \in 0..L /\ j - 1 \in 0..L /\ L \in 0..L
    OBVIOUS
  <2>2. E[j - 1] \in Nat /\ E[j] \in Nat /\ E[j] = E[j - 1] + Len(Encoded[fs[j]])
    BY <2>1, EndsAre
  <2>3. Len(Encoded[fs[j]]) \in Nat
    BY <2>1, FrameSizes
  <2>4. E[j] <= E[L]
    BY <2>1, EndsGrow
  <2> QED
    BY <2>2, <2>3, <2>4
<1>3. /\ rest \in Seq(Nat) /\ Len(rest) = l - n
      /\ \A i \in 1..(l - n) : rest[i] = bytes[n + i]
  BY <1>1
<1>4. \A j \in 1..L : \A i \in 1..Len(Encoded[fs[j]]) :
        E[j - 1] + i - r > 0 => bytes[E[j - 1] + i - r] = Encoded[fs[j]][i]
  BY DEF OnWire
<1>5. Behind(fs, rest) = E[L] - Len(rest)
  BY DEF Behind
<1> HIDE DEF rest, r, E
<1>6. Behind(fs, rest) = r + n
  <2> DEFINE a == E[L]
  <2>1. a \in Nat /\ r = a - l /\ l \in Nat /\ Behind(fs, rest) = a - (l - n)
    BY <1>1, <1>3, <1>5
  <2> HIDE DEF a, l
  <2> QED
    BY <2>1
<1>7. ASSUME NEW j \in 1..L, NEW i \in 1..Len(Encoded[fs[j]]), E[j - 1] + i - (r + n) > 0
      PROVE  rest[E[j - 1] + i - (r + n)] = Encoded[fs[j]][i]
  <2> DEFINE a == E[j - 1]
             c == E[L]
             k == Len(Encoded[fs[j]])
  <2>1. /\ a \in Nat /\ k \in Nat /\ a + k <= c /\ c \in Nat /\ r = c - l /\ r \in Nat /\ l \in Nat
        /\ i <= k /\ i \in Nat /\ n \in Nat /\ a + i - (r + n) > 0
    BY <1>1, <1>2, <1>7
  <2>2. bytes[a + i - r] = Encoded[fs[j]][i] \/ ~(a + i - r > 0)
    BY <1>4
  <2> HIDE DEF a, c, k, l
  <2>3. /\ a + i - (r + n) \in 1..(l - n) /\ n + (a + i - (r + n)) = a + i - r
        /\ a + i - r > 0
    BY <2>1
  <2>4. rest[a + i - (r + n)] = bytes[n + (a + i - (r + n))]
    BY <1>3, <2>3
  <2> QED
    BY <2>2, <2>3, <2>4 DEF a
<1>8. r + n \in Nat
  BY <1>1
<1>9. OnWire(fs, rest)
  BY <1>3, <1>6, <1>7, <1>8 DEF OnWire, E
<1> QED
  BY <1>6, <1>9 DEF rest, r

(* A buffer for a parser that knows its place. *)
LEMMA WsRecvFollowing ==
  ASSUME ParsedOnce, Following, Open, conn.stage = "websocket", NEW n \in 1..Len(wire),
         NEW room, NEW fragments, WsRecv(SubSeq(wire, 1, n), room, fragments),
         ws.state # "Lost",
         wire' = SubSeq(wire, n + 1, Len(wire)), UNCHANGED <<frames, pinged>>
  PROVE  Following'
<1> DEFINE b == SubSeq(wire, 1, n)
           fs == frames
           r == Behind(frames, wire)
           w == Before(room)
           u == AfterBytes(b, room, fragments)[n]
           v == BufferDone(u)
<1>1. /\ fs \in Seq(Frames) /\ pinged \in Nat /\ OnWire(fs, wire) /\ r \in Nat
      /\ Rested(Now, fs, pinged, r) /\ conn.closed = "no" /\ wire \in Seq(Nat)
  BY DEF ParsedOnce, Typed, Following, OnWire, Open
<1>2. SocketOK /\ ConnOK(conn) /\ n \in Nat
  BY <1>1 DEF ParsedOnce, Typed, ConnTyped, ConnOK
<1>3. Working(w)
  <2>1. WorkOK(w) /\ Collected(w.ws) /\ w.ws.state = ws.state
    BY <1>2, BeforeFits
  <2>2. ws.state # "Done"
    BY <1>2 DEF SocketOK
  <2> HIDE DEF w
  <2> QED
    BY <2>1, <2>2 DEF Working, WsOK
<1>4. Followed(w, fs, pinged, r)
  <2>1. PICK j \in 0..Len(fs) : /\ Ends(fs)[j] <= r
                                /\ Loose(Now, Reassembled(fs)[j])
                                /\ ~Live(Now) \/ InPlace(Now, fs, pinged, j, r)
    BY <1>1 DEF Rested
  <2>2. w.conn = conn /\ w.handler = handler /\ w.delivered = delivered
        /\ w.ws = [ws EXCEPT !.returned = FALSE]
    BY DEF Before
  <2>3. Now.conn = conn /\ Now.handler = handler /\ Now.delivered = delivered /\ Now.ws = ws
    BY DEF Now
  <2> HIDE DEF w
  <2>4. Loose(w, Reassembled(fs)[j])
    BY <2>1, <2>2, <2>3 DEF Loose
  <2>5. CASE ~Live(Now)
    BY <2>1, <2>2, <2>3, <2>4, <2>5 DEF Live, Stopped, Followed
  <2>6. CASE InPlace(Now, fs, pinged, j, r)
    <3> DEFINE p == ws
    <3>1. IsWs(Now.ws) /\ Now.ws.returned = FALSE
      <4> DEFINE x == Now
      <4>1. InPlace(x, fs, pinged, j, r)
        BY <2>6
      <4> HIDE DEF x, r, fs
      <4>2. IsWs(x.ws) /\ x.ws.returned = FALSE
        BY <1>1, <2>1, <4>1, InPlaceParser
      <4> QED
        BY <4>2 DEF x
    <3>2. [ws EXCEPT !.returned = FALSE] = ws
      BY <2>3, <3>1 DEF IsWs, WsParts
    <3>3. InPlace(w, fs, pinged, j, r)
      BY <2>2, <2>3, <2>6, <3>2 DEF InPlace, Live, Good, Complete
    <3> QED
      BY <2>1, <2>4, <3>3 DEF Followed
  <2> QED
    BY <2>1, <2>5, <2>6
<1>5. Working(u) /\ u.conn.closed # "pong" /\ Followed(u, fs, pinged, r + n)
  <2> HIDE DEF w
  <2> QED
    BY <1>1, <1>3, <1>4, BufferFollowed DEF w
<1>6. Len(b) = n
  BY <1>1
<1>7. After(v)
  BY <1>6 DEF WsRecv
<1> HIDE DEF u, w
<1>8. Rested(v, fs, pinged, r + n) /\ v.conn.closed # "pong"
  BY <1>5, BufferDoneRested DEF Working
<1>9. WorkOK(v)
  BY <1>5, BufferDoneKept DEF Working, Kept
<1> HIDE DEF v
<1>10. /\ ws' = v.ws /\ handler' = v.handler /\ delivered' = v.delivered
       /\ conn'.closed = v.conn.closed /\ conn'.stage = "websocket"
  BY <1>7, <1>9 DEF After, WorkOK, ConnOK
<1>11. OnWire(fs, wire') /\ Behind(fs, wire') = r + n
  BY <1>1, OnWireGoesOn
<1>12. Rested(Now', fs, pinged, r + n)
  <2> DEFINE x == Now'
  <2>1. x.conn = conn' /\ x.ws = ws' /\ x.handler = handler' /\ x.delivered = delivered'
    BY DEF Now
  <2> HIDE DEF x, r, fs
  <2>2. Rested(x, fs, pinged, r + n)
    BY <1>8, <1>10, <2>1, RestedAlike
  <2> QED
    BY <2>2 DEF x
<1> HIDE DEF r
<1> QED
  BY <1>1, <1>8, <1>10, <1>11, <1>12 DEF Following, Unanswered

(* A buffer for a parser that has lost its place: the connection is closing,*)
(* and stays so.                                                            *)
LEMMA LostRecvFollowing ==
  ASSUME ParsedOnce, Following, Open, conn.stage = "websocket", NEW n \in 1..Len(wire),
         NEW room, LostRecv(room), ws.state = "Lost",
         wire' = SubSeq(wire, n + 1, Len(wire)), UNCHANGED <<frames, pinged>>
  PROVE  Following'
<1> DEFINE fs == frames
           r == Behind(frames, wire)
           w == Before(room)
<1>1. /\ fs \in Seq(Frames) /\ pinged \in Nat /\ OnWire(fs, wire) /\ r \in Nat
      /\ Rested(Now, fs, pinged, r) /\ conn.closed = "no" /\ wire \in Seq(Nat)
  BY DEF ParsedOnce, Typed, Following, OnWire, Open
<1>2. SocketOK /\ ConnOK(conn) /\ n \in Nat
  BY <1>1 DEF ParsedOnce, Typed, ConnTyped, ConnOK
<1>3. Now.conn = conn /\ Now.handler = handler /\ Now.delivered = delivered /\ Now.ws = ws
  BY DEF Now
<1>4. PICK j \in 0..Len(fs) : /\ Ends(fs)[j] <= r
                              /\ Loose(Now, Reassembled(fs)[j])
                              /\ ~Live(Now) \/ InPlace(Now, fs, pinged, j, r)
  BY <1>1 DEF Rested
<1>5. handler.state = "Closing"
  <2>1. ~InPlace(Now, fs, pinged, j, r)
    <3> DEFINE x == Now
    <3>1. x.ws.state = "Lost"
      BY <1>3
    <3> HIDE DEF x, r, fs
    <3>2. ~InPlace(x, fs, pinged, j, r)
      BY <1>1, <1>4, <3>1, InPlaceParser
    <3> QED
      BY <3>2 DEF x
  <2> QED
    BY <1>1, <1>3, <1>4, <2>1 DEF Live
<1>6. /\ WorkOK(w) /\ w.conn = conn /\ w.handler = handler /\ w.delivered = delivered
  BY <1>2, BeforeFits DEF Before
<1> HIDE DEF w, r, fs
<1>7. PICK v : /\ After(v) /\ ConnOK(v.conn) /\ v.handler.state = "Closing"
               /\ v.delivered = delivered /\ v.conn.closed # "pong"
  <2>1. CASE After(BufferDone([w EXCEPT !.inside = TRUE]))
    <3> DEFINE u == [w EXCEPT !.inside = TRUE]
               v == BufferDone(u)
    <3>1. IsWork(u) /\ u.conn = w.conn /\ u.handler = w.handler /\ u.delivered = w.delivered
      BY <1>6 DEF WorkOK, IsWork, WorkParts
    <3>2. After(v)
      BY <2>1
    <3> HIDE DEF u
    <3>3. WorkOK(u)
      BY <1>6, <3>1 DEF WorkOK
    <3>4. v = SendCloseFrame(u) \/ v = u
      BY Zenon DEF BufferDone
    <3>5. WorkOK(v)
      BY <3>3, BufferDoneKept DEF Kept
    <3> HIDE DEF v
    <3>6. v.handler.state = "Closing" /\ v.delivered = delivered /\ v.conn.closed # "pong"
      <4>1. CASE v = u
        BY <1>1, <1>5, <1>6, <3>1, <4>1
      <4>2. CASE v = SendCloseFrame(u)
        <5>1. Quiet(u, v)
          BY <3>3, <4>2, SendCloseFrameIs, Zenon
        <5> QED
          BY <1>1, <1>5, <1>6, <3>1, <5>1 DEF Quiet
      <4> QED
        BY <3>4, <4>1, <4>2
    <3> QED
      BY <3>2, <3>5, <3>6 DEF WorkOK
  <2>2. ASSUME NEW opcode, NEW data \in {<<>>, PingPayload},
               After(FrameDone([w EXCEPT !.ws.opcode = opcode, !.ws.fin = TRUE, !.ws.data = data], 1))
        PROVE  \E v : /\ After(v) /\ ConnOK(v.conn) /\ v.handler.state = "Closing"
                      /\ v.delivered = delivered /\ v.conn.closed # "pong"
    <3> DEFINE p == [w.ws EXCEPT !.opcode = opcode, !.fin = TRUE, !.data = data]
               u == [w EXCEPT !.ws = p]
               v == FrameDone(u, 1)
    <3>1. [w EXCEPT !.ws.opcode = opcode, !.ws.fin = TRUE, !.ws.data = data] = u
      BY <1>6 DEF WorkOK, IsWork, WorkParts
    <3>2. After(v)
      BY <2>2, <3>1
    <3>3. Collected(w.ws)
      BY <1>2, BeforeFits DEF w
    <3>4. p.data = data
      BY <3>3 DEF Collected, WsParts
    <3> HIDE DEF p
    <3>5. IsWork(u) /\ u.conn = w.conn /\ u.handler = w.handler /\ u.delivered = w.delivered
          /\ u.ws = p
      BY <1>6 DEF WorkOK, IsWork, WorkParts
    <3> HIDE DEF u
    <3>6. WorkOK(u) /\ u.handler.state = "Closing"
      BY <1>5, <1>6, <3>5 DEF WorkOK
    <3>7. IsSeq(data) /\ Len(data) <= MaxPayloadLength
      <4>1. CASE data = <<>>
        BY <4>1, EmptyIsSeq, Sizes
      <4>2. CASE data = PingPayload
        BY <4>2, FramesOfBytes DEF IsSeq
      <4> QED
        BY <4>1, <4>2
    <3>8. DataOK(u)
      BY <3>4, <3>5, <3>7 DEF DataOK
    <3>9. WorkOK(v)
      BY <3>6, <3>8, FrameDoneKept
    <3>10. /\ v.handler.state = "Closing" /\ v.delivered = u.delivered
           /\ v.conn.closed = "pong" => u.conn.closed = "pong"
      BY <3>6, ClosingFrameDone
    <3> HIDE DEF v
    <3> QED
      BY <1>1, <1>6, <3>2, <3>5, <3>9, <3>10 DEF WorkOK
  <2> QED
    BY <2>1, <2>2 DEF LostRecv, w
<1>8. /\ conn'.closed # "pong" /\ conn'.stage = "websocket"
      /\ handler'.state = "Closing" /\ delivered' = delivered
  BY <1>7 DEF After, ConnOK
<1>9. OnWire(fs, wire') /\ Behind(fs, wire') = r + n
  BY <1>1, OnWireGoesOn DEF r, fs
<1>10. Rested(Now', fs, pinged, r + n)
  <2> DEFINE x == Now'
             y == Now
  <2>1. x.conn = conn' /\ x.handler = handler' /\ x.delivered = delivered'
    BY DEF Now
  <2>2. y.conn.closed = "no" /\ y.delivered = delivered /\ Loose(y, Reassembled(fs)[j])
    BY <1>1, <1>3, <1>4
  <2> HIDE DEF x, y
  <2>3. ~Live(x)
    BY <1>8, <2>1 DEF Live
  <2>4. Loose(x, Reassembled(fs)[j])
    BY <1>8, <2>1, <2>2 DEF Loose
  <2>5. Ends(fs)[j] <= r + n
    <3>1. Ends(fs)[j] \in Nat
      BY <1>1, EndsAre
    <3> QED
      BY <1>1, <1>2, <1>4, <3>1
  <2>6. Rested(x, fs, pinged, r + n)
    BY <2>3, <2>4, <2>5 DEF Rested
  <2> QED
    BY <2>6 DEF x
<1> QED
  BY <1>1, <1>8, <1>9, <1>10 DEF Following, Unanswered, fs

(* A parser of frames that has been given nothing yet. *)
LEMMA FreshIsIdle == Idle(Ws!Fresh)
<1> DEFINE none == <<>>
           p == [state |-> "FinAndOpcode", remain |-> 1, data |-> none, error |-> "none",
                 fin |-> FALSE, opcode |-> Ws!CONTINUED, length |-> 0, mask |-> none,
                 returned |-> FALSE]
<1>1. Ws!Fresh = p
  BY DEF Ws!Fresh
<1>2. none \in Seq(Nat) /\ Len(none) = 0
  OBVIOUS
<1> HIDE DEF none
<1>3. Idle(p)
  BY <1>2 DEF Idle, IsWs, WsParts
<1> QED
  BY <1>1, <1>3, Zenon

(* A handshake is answered, and nothing has been received behind it. *)
LEMMA HttpRecvFollowing ==
  ASSUME ParsedOnce, ParsedOnce', Following, Open, conn.stage = "http", NEW k \in 1..Len(wire),
         NEW room, HttpRecv(SubSeq(wire, 1, k), room),
         UNCHANGED <<client, pinged>>
  PROVE  Following'
<1> DEFINE q == Http!ParserExecute(http, SubSeq(wire, 1, k))
           upgraded == [conn EXCEPT !.stage = "websocket"]
           answered == IF Http!IsDone(q)
                       THEN IF ~Routed(q) THEN [conn EXCEPT !.closed = "not_found"]
                            ELSE IF room = 0 THEN [upgraded EXCEPT !.closed = "no_buffer"] ELSE upgraded
                       ELSE IF q.error # "none" THEN [conn EXCEPT !.closed = "bad_request"] ELSE conn
<1>1. /\ conn' = [answered EXCEPT !.idle = IdleTicks]
      /\ UNCHANGED <<ws, handler, delivered>>
  BY Zenon DEF HttpRecv
<1>2. /\ frames' = frames /\ request' = request /\ pinged' = pinged /\ pinged \in Nat
      /\ Unused /\ conn.closed = "no" /\ ConnTyped(conn)
  BY DEF client, Following, Open, ParsedOnce, Typed
<1>3. /\ conn'.closed # "pong" /\ conn'.stage \in {"http", "websocket"}
  <2>1. answered \in {[conn EXCEPT !.closed = "not_found"], [upgraded EXCEPT !.closed = "no_buffer"],
                      upgraded, [conn EXCEPT !.closed = "bad_request"], conn}
    BY Zenon
  <2> HIDE DEF answered
  <2>2. ConnTyped(answered) /\ answered.closed # "pong"
    BY <1>2, <2>1 DEF ConnTyped, Whys
  <2> QED
    BY <1>1, <2>2 DEF ConnTyped
<1> HIDE DEF answered
<1>4. Unused'
  BY <1>1, <1>2, <1>3 DEF Unused
<1>5. ASSUME conn'.stage = "websocket"
      PROVE  /\ OnWire(frames', wire')
             /\ Rested(Now', frames', pinged', Behind(frames', wire'))
  <2> DEFINE none == <<>>
             bytes == wire'
             x == Now'
  <2>1. request # Forgotten
    <3> SUFFICES ASSUME request = Forgotten PROVE FALSE
      OBVIOUS
    <3> DEFINE t == Text(request)
    <3>1. t = <<>>
      BY DEF Text, Forgotten
    <3>2. PICK n \in 0..Len(t) : wire = SubSeq(t, n + 1, Len(t))
      BY DEF ParsedOnce, Parsing
    <3> HIDE DEF t
    <3>3. wire = <<>>
      BY <3>1, <3>2
    <3>4. Len(wire) = 0
      BY <3>3
    <3> QED
      BY <3>4
  <2>2. bytes \in Seq(Nat) /\ Len(bytes) = 0
    BY <1>2, <1>5, <2>1 DEF ParsedOnce, Upgraded
  <2>3. frames' = none /\ none \in Seq(Frames) /\ Len(none) = 0
    BY <1>2 DEF Unused
  <2>4. /\ x.conn = conn' /\ x.ws = Ws!Fresh /\ x.delivered = none
        /\ x.handler.state = "Normal" /\ x.handler.cache = none /\ x.handler.wait_pong = FALSE
    BY <1>1, <1>2 DEF Now, Unused
  <2>5. NoFrame.messages = none /\ NoFrame.text = none /\ NoFrame.begun = FALSE /\ NoFrame.end = "none"
    BY DEF NoFrame
  <2> HIDE DEF none, bytes, x
  <2>6. Ends(none)[0] = 0 /\ Reassembled(none)[0] = NoFrame /\ Made(NoFrame) /\ 0 \in 0..Len(none)
    <3>1. 0 \in 0..Len(none)
      BY <2>3
    <3> QED
      BY <2>3, <3>1, EndsAre, ReassembledAre
  <2>7. Behind(none, bytes) = 0
    BY <2>2, <2>3, <2>6 DEF Behind
  <2>8. OnWire(none, bytes)
    BY <2>2, <2>3, <2>7 DEF OnWire
  <2>9. Good(x, NoFrame)
    <3>1. ~NoFrame.begun /\ NoFrame.text = <<>>
      BY <2>5 DEF none
    <3>2. x.handler.state = IF NoFrame.begun THEN "Continued" ELSE "Normal"
      BY <2>4, <3>1, Zenon
    <3> QED
      BY <2>4, <2>5, <3>1, <3>2, Zenon DEF Good, Complete
  <2>10. Loose(x, NoFrame)
    BY <2>6, <2>9, GoodIsLoose
  <2>11. Live(x) => InPlace(x, none, pinged', 0, 0)
    BY <2>3, <2>4, <2>6, <2>9, FreshIsIdle DEF InPlace
  <2>12. Rested(x, none, pinged', 0)
    BY <2>3, <2>6, <2>10, <2>11 DEF Rested
  <2> QED
    BY <2>3, <2>7, <2>8, <2>12 DEF bytes, x
<1> QED
  BY <1>2, <1>3, <1>4, <1>5 DEF Following, Unanswered

(* Where a connection is that goes on: as many frames have been handled as  *)
(* have been received.                                                      *)
LEMMA InPlaceWhole ==
  ASSUME frames \in Seq(Frames), Len(wire) \in Nat, NEW w, NEW ping, NEW j \in 0..Len(frames),
         Ends(frames)[j] <= Received, InPlace(w, frames, ping, j, Received)
  PROVE  Whole = j
BY WholeIs DEF InPlace

(* A tick of the wheel. *)
LEMMA TickFollowing ==
  ASSUME ParsedOnce, Following, Tick
  PROVE  Following'
<1> DEFINE fs == frames
           r == Behind(frames, wire)
<1>1. /\ frames' = frames /\ wire' = wire /\ ws' = ws /\ delivered' = delivered
      /\ conn.closed = "no" /\ ConnTyped(conn) /\ HandlerOK(handler)
      /\ pinged \in Nat /\ fs \in Seq(Frames)
  BY DEF Tick, client, Open, ParsedOnce, Typed, SocketOK, Following
<1>2. r = Received
  BY DEF Behind, Received
<1>3. CASE /\ conn.stage = "http" /\ UNCHANGED <<handler, pinged>>
           /\ conn' = [conn EXCEPT !.idle = 0, !.closed = "idle"]
  <2>1. conn'.stage = "http" /\ conn'.closed = "idle"
    BY <1>1, <1>3 DEF ConnTyped
  <2>2. Unused
    BY <1>3 DEF Following
  <2>3. Unused'
    BY <1>1, <1>3, <2>1, <2>2 DEF Unused
  <2> QED
    BY <1>1, <1>3, <2>1, <2>3 DEF Following, Unanswered
<1>4. ASSUME conn.stage = "websocket"
      PROVE  /\ OnWire(fs, wire) /\ Len(wire) \in Nat /\ Whole \in 0..Len(fs)
             /\ \E j \in 0..Len(fs) :
                  /\ Ends(fs)[j] <= r /\ Loose(Now, Reassembled(fs)[j])
                  /\ \/ ~Live(Now)
                     \/ InPlace(Now, fs, pinged, j, r) /\ Whole = j
  <2>1. OnWire(fs, wire) /\ Len(wire) \in Nat /\ Rested(Now, fs, pinged, r)
    BY <1>4 DEF Following, OnWire
  <2>2. PICK j \in 0..Len(fs) : /\ Ends(fs)[j] <= r
                                /\ Loose(Now, Reassembled(fs)[j])
                                /\ ~Live(Now) \/ InPlace(Now, fs, pinged, j, r)
    BY <2>1 DEF Rested
  <2>3. InPlace(Now, fs, pinged, j, r) => Whole = j
    <3> DEFINE x == Now
    <3> HIDE DEF x, r
    <3>1. InPlace(x, fs, pinged, j, r) => Whole = j
      BY <1>1, <1>2, <2>1, <2>2, InPlaceWhole
    <3> QED
      BY <3>1 DEF x
  <2>4. Whole \in 0..Len(fs)
    BY <1>1, <2>1, WholeIs
  <2> HIDE DEF r, fs
  <2> QED
    BY <2>1, <2>2, <2>3, <2>4
<1>5. /\ Now.conn = conn /\ Now.ws = ws /\ Now.handler = handler /\ Now.delivered = delivered
      /\ Now'.conn = conn' /\ Now'.ws = ws' /\ Now'.handler = handler'
      /\ Now'.delivered = delivered'
  BY DEF Now
<1>6. CASE conn.stage = "websocket" /\ Ping
  <2>1. PICK j \in 0..Len(fs) :
          /\ Ends(fs)[j] <= r /\ Loose(Now, Reassembled(fs)[j])
          /\ \/ ~Live(Now)
             \/ InPlace(Now, fs, pinged, j, r) /\ Whole = j
    BY <1>4, <1>6
  <2>2. /\ conn'.stage = "websocket" /\ conn'.closed = "no"
        /\ handler'.state = handler.state /\ handler'.cache = handler.cache
        /\ pinged' = Whole /\ Whole \in 0..Len(fs)
    BY <1>1, <1>4, <1>6 DEF Ping, ConnTyped, HandlerOK, IsHandler, HandlerParts
  <2>3. Rested(Now', fs, Whole, r)
    <3> DEFINE x == Now'
               y == Now
    <3>1. /\ x.conn.closed = y.conn.closed /\ x.ws = y.ws /\ x.delivered = y.delivered
          /\ x.handler.state = y.handler.state /\ x.handler.cache = y.handler.cache
      BY <1>1, <1>5, <2>2
    <3>2. /\ Ends(fs)[j] <= r /\ Loose(y, Reassembled(fs)[j])
          /\ ~Live(y) \/ (InPlace(y, fs, pinged, j, r) /\ Whole = j)
      BY <2>1
    <3> HIDE DEF x, y, r
    <3>3. Loose(x, Reassembled(fs)[j])
      BY <3>1, <3>2 DEF Loose
    <3>4. Live(x) => Live(y)
      BY <3>1 DEF Live
    <3>5. NoPong(fs, j, j)
      BY DEF NoPong
    <3>6. ASSUME InPlace(y, fs, pinged, j, r), Whole = j PROVE InPlace(x, fs, Whole, j, r)
      BY <3>1, <3>5, <3>6 DEF InPlace, Live, Good, Complete
    <3>7. Rested(x, fs, Whole, r)
      BY <3>2, <3>3, <3>4, <3>6 DEF Rested
    <3> QED
      BY <3>7 DEF x
  <2>4. Whole \in Nat /\ OnWire(fs, wire)
    BY <1>1, <1>4, <1>6, <2>2
  <2> QED
    BY <1>1, <2>2, <2>3, <2>4 DEF Following, Unanswered
<1>7. CASE /\ conn' = [conn EXCEPT !.idle = IF @ = 0 THEN 0 ELSE @ - 1,
                                   !.closed = IF Expires(handler.timer) /\ handler.wait_pong
                                              THEN "pong" ELSE @]
           /\ handler' = [handler EXCEPT !.timer = IF @ = 0 THEN 0 ELSE @ - 1]
           /\ UNCHANGED pinged
  <2>1. /\ conn'.stage = conn.stage /\ conn'.closed \in {"no", "pong"}
        /\ conn'.closed = "pong" => handler.wait_pong
        /\ handler'.state = handler.state /\ handler'.cache = handler.cache
        /\ handler'.wait_pong = handler.wait_pong
    BY <1>1, <1>7 DEF ConnTyped, HandlerOK, IsHandler, HandlerParts
  <2>2. CASE conn.stage = "http"
    <3>1. Unused
      BY <2>2 DEF Following
    <3>2. conn'.closed = "no"
      BY <2>1, <3>1 DEF Unused
    <3>3. handler' = handler
      BY <1>7, <3>1 DEF Unused
    <3>4. Unused'
      BY <1>1, <3>1, <3>2, <3>3 DEF Unused
    <3> QED
      BY <1>1, <1>7, <2>1, <2>2, <3>2, <3>4 DEF Following, Unanswered
  <2>3. CASE conn.stage = "websocket"
    <3>1. PICK j \in 0..Len(fs) :
            /\ Ends(fs)[j] <= r /\ Loose(Now, Reassembled(fs)[j])
            /\ \/ ~Live(Now)
               \/ InPlace(Now, fs, pinged, j, r) /\ Whole = j
      BY <1>4, <2>3
    <3>2. Rested(Now', fs, pinged, r)
      <4> DEFINE x == Now'
                 y == Now
      <4>1. /\ y.conn.closed = "no" /\ x.conn.closed \in {"no", "pong"}
            /\ x.ws = y.ws /\ x.delivered = y.delivered
            /\ x.handler.state = y.handler.state /\ x.handler.cache = y.handler.cache
            /\ x.handler.wait_pong = y.handler.wait_pong
        BY <1>1, <1>5, <2>1
      <4>2. /\ Ends(fs)[j] <= r /\ Loose(y, Reassembled(fs)[j])
            /\ ~Live(y) \/ InPlace(y, fs, pinged, j, r)
        BY <3>1
      <4> HIDE DEF x, y, r
      <4>3. Loose(x, Reassembled(fs)[j])
        BY <4>1, <4>2 DEF Loose
      <4>4. Live(x) => Live(y)
        BY <4>1 DEF Live
      <4>5. ASSUME InPlace(y, fs, pinged, j, r), Live(x) PROVE InPlace(x, fs, pinged, j, r)
        BY <4>1, <4>5 DEF InPlace, Good, Complete
      <4>6. Rested(x, fs, pinged, r)
        BY <4>2, <4>3, <4>4, <4>5 DEF Rested
      <4> QED
        BY <4>6 DEF x
    <3>3. ASSUME conn'.closed = "pong", handler'.state # "Closing"
          PROVE  NoPong(fs, pinged, Whole)
      <4> DEFINE y == Now
      <4>1. /\ y.conn.closed = "no" /\ y.handler.wait_pong /\ y.handler.state # "Closing"
        BY <1>1, <1>5, <2>1, <3>3
      <4>2. ~Live(y) \/ (InPlace(y, fs, pinged, j, r) /\ Whole = j)
        BY <3>1
      <4> HIDE DEF y, r
      <4> QED
        BY <4>1, <4>2 DEF InPlace, Live
    <3>4. Whole' = Whole
      BY <1>1 DEF Whole
    <3>5. OnWire(fs, wire)
      BY <1>4, <2>3
    <3> HIDE DEF r
    <3>6. Rested(Now', frames', pinged', Behind(frames', wire'))
      BY <1>1, <1>7, <3>2 DEF r
    <3>7. Unanswered'
      BY <1>1, <1>7, <3>3, <3>4 DEF Unanswered
    <3> QED
      BY <1>1, <1>7, <2>1, <2>3, <3>5, <3>6, <3>7 DEF Following
  <2> QED
    BY <1>1, <2>2, <2>3 DEF ConnTyped
<1> QED
  BY <1>3, <1>6, <1>7 DEF Tick

(* Every step of the connection. *)
LEMMA NextFollowing == ParsedOnce /\ ParsedOnce' /\ Following /\ [Next]_vars => Following'
<1> SUFFICES ASSUME ParsedOnce, ParsedOnce', Following, [Next]_vars PROVE Following'
  OBVIOUS
<1>1. ASSUME NEW f \in Frames, Send(f) PROVE Following'
  BY <1>1, SendFollowing
<1>2. ASSUME NEW n \in 1..Len(wire), Recv(n) PROVE Following'
  <2>1. /\ Open /\ wire' = SubSeq(wire, n + 1, Len(wire))
        /\ UNCHANGED <<client, pinged>> /\ UNCHANGED <<frames, pinged>>
    BY <1>2 DEF Recv, client
  <2>2. PICK room \in Room :
          \/ conn.stage = "http" /\ HttpRecv(SubSeq(wire, 1, n), room)
          \/ /\ conn.stage = "websocket" /\ ws.state # "Lost"
             /\ \E fragments \in 1..MaxFragments : WsRecv(SubSeq(wire, 1, n), room, fragments)
          \/ conn.stage = "websocket" /\ ws.state = "Lost" /\ LostRecv(room)
    BY <1>2 DEF Recv
  <2>3. CASE conn.stage = "http" /\ HttpRecv(SubSeq(wire, 1, n), room)
    BY <2>1, <2>3, HttpRecvFollowing
  <2>4. ASSUME conn.stage = "websocket", ws.state # "Lost", NEW fragments \in 1..MaxFragments,
               WsRecv(SubSeq(wire, 1, n), room, fragments)
        PROVE  Following'
    BY <2>1, <2>4, WsRecvFollowing
  <2>5. CASE conn.stage = "websocket" /\ ws.state = "Lost" /\ LostRecv(room)
    BY <2>1, <2>5, LostRecvFollowing
  <2> QED
    BY <2>2, <2>3, <2>4, <2>5
<1>3. CASE Tick
  BY <1>3, TickFollowing
<1>4. CASE UNCHANGED vars
  <2>1. /\ frames' = frames /\ wire' = wire /\ conn' = conn /\ ws' = ws /\ handler' = handler
        /\ delivered' = delivered /\ pinged' = pinged
    BY <1>4 DEF vars
  <2>2. Now' = Now /\ Whole' = Whole /\ (Unused' <=> Unused)
    BY <2>1 DEF Now, Whole, Unused
  <2> QED
    BY <2>1, <2>2 DEF Following, Unanswered
<1> QED
  BY <1>1, <1>2, <1>3, <1>4 DEF Next

(* An upgraded connection is where the bytes put it that it has received.   *)
LEMMA AlwaysFollowing == Spec => []Following
BY InitFollowing, NextFollowing, AlwaysParsedOnce, PTL DEF Spec

(* The service is given the messages of the client, whole, once and in      *)
(* order, whatever the buffers, fragments, limits and control frames        *)
(* between them (WebSocketHandler::RecvDataHandle, FrameHandle and          *)
(* ControlFrameHandle, WebSocketParser::ParserExecute).                     *)
THEOREM Delivered == Spec => []DeliveredAsSent
<1>1. ParsedOnce /\ Following => DeliveredAsSent
  <2> SUFFICES ASSUME ParsedOnce, Following PROVE DeliveredAsSent
    OBVIOUS
  <2> DEFINE m == Reassembled(frames)[Whole]
  <2>1. frames \in Seq(Frames) /\ ConnTyped(conn)
    BY DEF ParsedOnce, Typed
  <2>2. CASE conn.stage = "http"
    <3> DEFINE none == <<>>
    <3>1. Unused
      BY <2>2 DEF Following
    <3>2. frames = none /\ delivered = none
      BY <3>1 DEF Unused
    <3>3. Whole = 0
      <4> DEFINE S == {i \in DOMAIN frames : Ends(frames)[i] + Len(wire) <= Ends(frames)[Len(frames)]}
      <4>1. DOMAIN frames = {}
        BY <3>2
      <4>2. S = {}
        BY <4>1
      <4> HIDE DEF S
      <4> QED
        BY <4>2, FS_EmptySet DEF Whole, S
    <3>4. m = NoFrame
      BY <2>1, <3>3, ReassembledAre
    <3>5. NoFrame.messages = none /\ NoFrame.end = "none"
      BY DEF NoFrame
    <3>6. IsPrefix(none, none)
      <4>1. IsSeq(none)
        BY EmptyIsSeq
      <4> QED
        BY <4>1, PrefixOfItself
    <3> HIDE DEF none, m
    <3> QED
      BY <3>2, <3>4, <3>5, <3>6 DEF DeliveredAsSent, m
  <2>3. CASE conn.stage = "websocket"
    <3> DEFINE w == Now
    <3>1. OnWire(frames, wire) /\ Rested(w, frames, pinged, Behind(frames, wire))
      BY <2>3 DEF Following
    <3>2. Len(wire) \in Nat /\ Behind(frames, wire) = Received
      BY <3>1 DEF OnWire, Behind, Received
    <3>3. w.conn = conn /\ w.handler = handler /\ w.delivered = delivered
      BY DEF Now
    <3> HIDE DEF w
    <3>4. PICK j \in 0..Len(frames) :
            /\ Ends(frames)[j] <= Received
            /\ Loose(w, Reassembled(frames)[j])
            /\ ~Live(w) \/ InPlace(w, frames, pinged, j, Received)
      BY <3>1, <3>2 DEF Rested
    <3>5. Whole \in 0..Len(frames) /\ j \in 0..Whole
      BY <2>1, <3>2, <3>4, WholeIs
    <3>6. Loose(w, m)
      BY <2>1, <3>4, <3>5, LooseAtLast
    <3>7. Live(w) => Good(w, m)
      <4> SUFFICES ASSUME Live(w) PROVE Good(w, m)
        OBVIOUS
      <4>1. InPlace(w, frames, pinged, j, Received)
        BY <3>4
      <4>2. Whole = j
        BY <2>1, <3>2, <3>4, <4>1, InPlaceWhole
      <4>3. Good(w, Reassembled(frames)[j])
        BY <4>1 DEF InPlace
      <4> QED
        BY <4>2, <4>3
    <3> HIDE DEF m
    <3>8. ASSUME m.end # "interrupted"
          PROVE  /\ Open /\ handler.state # "Closing" => m.end = "none" /\ delivered = m.messages
                 /\ \/ IsPrefix(delivered, m.messages)
                    \/ conn.closed = "no_buffer" /\ IsPrefix(Front(delivered), m.messages)
      BY <3>3, <3>6, <3>7, <3>8 DEF Open, Live, Good, Complete, Loose, Within
    <3> QED
      BY <3>8 DEF DeliveredAsSent, m
  <2> QED
    BY <2>1, <2>2, <2>3 DEF ConnTyped
<1> QED
  BY <1>1, AlwaysParsedOnce, AlwaysFollowing, PTL

(* The wait for a pong closes only connections whose client has sent none   *)
(* since the ping (WebSocketHandler::TimeoutHandle, ControlFrameHandle).    *)
THEOREM PingsKept == Spec => []AnsweredPingsKeep
<1>1. Following => AnsweredPingsKeep
  BY DEF Following, Unanswered, NoPong, AnsweredPingsKeep
<1> QED
  BY <1>1, AlwaysFollowing, PTL

=============================================================================
