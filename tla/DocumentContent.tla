------------------------- MODULE DocumentContent -------------------------
(***************************************************************************)
(* The text of one document: Document::ApplyOp with the operations that    *)
(* module DocumentService leaves out.  Editors send operations against any *)
(* revision the document has had; each is transformed over the history     *)
(* since, composed into content_ and appended to history_.                 *)
(*                                                                         *)
(* Editors are those whose operations fit the text they edit.  Next to     *)
(* content_ the module keeps the text every editor should see, as cells    *)
(* with a character and its formatting; characters are told apart by the   *)
(* edit, the component and the place they were typed at.                   *)
(***************************************************************************)
EXTENDS OT

CONSTANTS Shape,          \* components an edit is made of: <<type, length, attributes>>
          MaxComponents,  \* bound: components in one edit
          MaxEdits        \* bound: edits in one behaviour, below capacity_

VARIABLES content,  \* Document::content_
          history,  \* Document::history_
          texts,    \* texts[r + 1]: the text editors should see at revision r
          last      \* the last edit: what the client sent, against which revision

vars == <<content, history, texts, last>>

--------------------------------------------------------------------------
(* What an operation does to a text, component by component. *)

(* Characters of the text that the first i - 1 components go over. *)
Position(o, i) ==
  FoldLeft(LAMBDA n, c : IF c.type = "insert" THEN n ELSE n + c.length, 0, SubSeq(o, 1, i - 1))

Covered(o, i) == (Position(o, i) + 1)..(Position(o, i) + o[i].length)

Deleted(o) == UNION {Covered(o, i) : i \in {j \in DOMAIN o : o[j].type = "delete"}}

(* Formatting with null values taken away. *)
Effective(attr) ==
  IF attr = NULL THEN <<>>
  ELSE [k \in {l \in DOMAIN attr : attr[l] # NULL} |-> attr[k]]

CellsOf(c) == [k \in 1..Len(c.text) |-> [char |-> c.text[k], format |-> Effective(c.attributes)]]

Inserted(o, p) ==
  FoldLeftDomain(LAMBDA s, i : IF o[i].type = "insert" /\ Position(o, i) = p
                                 THEN s \o CellsOf(o[i]) ELSE s, <<>>, o)

(* The cell at place p as formatted by the retain that covers it. *)
Formatted(o, p, cell) ==
  LET by == {i \in DOMAIN o : o[i].type = "retain" /\ o[i].attributes # NULL /\ p \in Covered(o, i)}
  IN IF by = {} THEN cell
     ELSE [cell EXCEPT !.format =
             Effective(compose_attributes(o[CHOOSE i \in by : TRUE].attributes, @))]

(* Two operations on one text; where both insert, the first one's comes first. *)
Overlay(text, first, second) ==
  LET kept == DOMAIN text \ (Deleted(first) \cup Deleted(second))
  IN FlattenSeq([p \in 1..(Len(text) + 1) |->
       Inserted(first, p - 1) \o Inserted(second, p - 1)
         \o (IF p \in kept THEN <<Formatted(second, p, Formatted(first, p, text[p]))>> ELSE <<>>)])

Applied(text, o) == Overlay(text, o, <<>>)

Characters(text) == [k \in DOMAIN text |-> text[k].char]

--------------------------------------------------------------------------
Init == /\ content = <<>>
        /\ history = <<>>
        /\ texts = << <<>> >>
        /\ last = [op |-> <<>>, version |-> 0]

(* The operations an editor may send for revision r: its i-th component is  *)
(* of a given shape, and new characters are named after r and i.            *)
Component(shape, r, i) ==
  CASE shape[1] = "retain" -> Retain(shape[2], shape[3])
    [] shape[1] = "insert" -> Insert([k \in 1..shape[2] |-> <<r, i, k>>], shape[3])
    [] shape[1] = "delete" -> Delete(shape[2])

Fits(o, text) == Position(o, Len(o) + 1) <= Len(text)

EditsOf(r, text) ==
  {o \in UNION {{[i \in 1..k |-> Component(s[i], r, i)] :
                   s \in [1..k -> Shape]} : k \in 1..MaxComponents} :
     Fits(o, text)}

(* The edits applied since version, in order. *)
Since_SkipsOne(version) == SubSeq(history, version + 2, Len(history))
Since(version) == SubSeq(history, version + 1, Len(history))

ApplyOp(op, version) ==
  LET client == FoldLeft(transform, op, Since(version))
  IN /\ content' = compose(content, client)
     /\ history' = Append(history, client)
     /\ texts' = Append(texts, Applied(Last(texts), client))
     /\ last' = [op |-> op, version |-> version]

Next == /\ Len(history) < MaxEdits
        /\ \E version \in 0..Len(history) :
             \E op \in EditsOf(Len(history) + 1, texts[version + 1]) : ApplyOp(op, version)

Spec == Init /\ [][Next]_vars

--------------------------------------------------------------------------
(* Properties. *)

ComponentOK(c) ==
  /\ c.type \in {"retain", "insert", "delete"}
  /\ c.length \in 1..MaxLength
  /\ (c.type = "insert") = (c.text # <<>>)

(* Types; content_ is compact, with no two neighbours of one type. *)
TypeOK ==
  /\ \A i \in DOMAIN content : ComponentOK(content[i])
  /\ \A i \in 1..(Len(content) - 1) : content[i].type # content[i + 1].type
  /\ \A r \in DOMAIN history : \A i \in DOMAIN history[r] : ComponentOK(history[r][i])
  /\ Len(texts) = Len(history) + 1
  /\ last.version \in 0..Len(history)

(* The texts before and after the last edit, and what its editor saw. *)
Before == texts[Len(texts) - 1]
After == Last(texts)
Solo == Applied(texts[last.version + 1], last.op)

Restricted(text, other) == SelectSeq(text, LAMBDA x : x \in ToSet(other))

(* However many edits a client's operation is transformed over, it does to  *)
(* the current text exactly what its author meant: it deletes what he       *)
(* deleted, if still there, inserts what he typed, and keeps the order of   *)
(* his view and of the current text (ot.cc:44-79, document.cc:21-24).       *)
IntentionKept ==
  history # <<>> =>
    LET before == Characters(Before)
        after == Characters(After)
        solo == Characters(Solo)
        base == Characters(texts[last.version + 1])
    IN /\ ToSet(after) = (ToSet(before) \ (ToSet(base) \ ToSet(solo)))
                           \cup (ToSet(solo) \ ToSet(base))
       /\ Restricted(after, solo) = Restricted(solo, after)
       /\ Restricted(after, before) = Restricted(before, after)

(* An operation that crossed one other gives the text of both laid over the *)
(* text they share, the server's insertion first where they meet            *)
(* (ot.cc:51, "the server's insertion takes precedence").                   *)
ServerInsertsFirst ==
  last.version + 2 = Len(history) /\ history # <<>> =>
    Characters(After) = Characters(Overlay(texts[last.version + 1],
                                           history[last.version + 1], last.op))

(* The text of content_ as the client of an OPEN reads it. *)
ContentCells == FlattenSeq([i \in DOMAIN content |-> CellsOf(content[i])])

TrueLengths == \A i \in DOMAIN content : content[i].type = "insert"
                                           /\ content[i].length = Len(content[i].text)

(* compose is right wherever content_ is sound: from a content_ that holds  *)
(* the current text, each insertion stored with the length of its text,     *)
(* ApplyOp leads to a content_ that holds the new text (ot.cc:81-130).      *)
ComposeKeepsText ==
  [][TrueLengths /\ Characters(ContentCells) = Characters(Last(texts))
       => Characters(ContentCells') = Characters(Last(texts'))]_vars

(* content_, into which compose "merges the operations" to save space       *)
(* (ot.h:82), holds the text its edits add up to.                           *)
ContentIsText == Characters(ContentCells) = Characters(Last(texts))
==========================================================================
