-------------------------------- MODULE OT --------------------------------
(***************************************************************************)
(* Operational transformation: operations as sequences of components, the  *)
(* builders that append to one, and the two functions that walk a pair of  *)
(* operations with iterators, transform and compose.                       *)
(*                                                                         *)
(* An iterator (index_, offset_) is what is left of its operation: the     *)
(* sequence of components it has not consumed, the first one shortened.    *)
(***************************************************************************)
EXTENDS Naturals, Sequences, SequencesExt

CONSTANTS NULL,      \* a json null
          MaxLength  \* UINT32_MAX

ASSUME MaxLengthPositive == MaxLength \in Nat \ {0}

Retain(n, attr) == [type |-> "retain", length |-> n, text |-> <<>>, attributes |-> attr]
Insert(s, attr) == [type |-> "insert", length |-> Len(s), text |-> s, attributes |-> attr]
Delete(n) == [type |-> "delete", length |-> n, text |-> <<>>, attributes |-> NULL]

(***************************************************************************)
(* Attributes are NULL or a function from keys to values, where the value  *)
(* NULL takes the key away.                                                *)
(***************************************************************************)
compose_attributes(new, old) ==
  IF NULL \in {new, old}
    THEN IF new = NULL THEN old ELSE new
    ELSE LET cancelled == {k \in DOMAIN new : new[k] = NULL}
         IN [k \in (DOMAIN old \cup DOMAIN new) \ cancelled |->
               IF k \in DOMAIN new THEN new[k] ELSE old[k]]

(* Appending to a component of the same type: an insertion's length stays   *)
(* what it was when the component was made.                                 *)
Extended(back, c) ==
  [back EXCEPT !.attributes = compose_attributes(c.attributes, @),
               !.text = @ \o c.text,
               !.length = IF c.type = "insert" THEN @ ELSE (@ + c.length) % (MaxLength + 1)]

(* The builders drop an empty component and extend one of the same type. *)
Merges_Never(ops, c) == FALSE
Merges(ops, c) == ops # <<>> /\ Last(ops).type = c.type

Push(ops, c) == IF c.length = 0 THEN ops
                ELSE IF Merges(ops, c)
                THEN Append(Front(ops), Extended(Last(ops), c))
                ELSE Append(ops, c)

OpRetain(ops, n, attr) == Push(ops, Retain(n, attr))
OpInsert(ops, s, attr) == Push(ops, Insert(s, attr))
OpDelete(ops, n) == Push(ops, Delete(n))

(* OpIterator.  An insertion that is peeked at has the length of its text; *)
(* whether it has been consumed is decided by the length it was stored with. *)
peek(it) == IF it = <<>> THEN Retain(MaxLength, NULL)
            ELSE IF Head(it).type = "insert" THEN Insert(Head(it).text, Head(it).attributes)
            ELSE Head(it)

next(it, n) ==
  IF it = <<>> \/ n >= Head(it).length
    THEN SubSeq(it, 2, Len(it))
    ELSE <<[Head(it) EXCEPT !.length = @ - n,
                            !.text = SubSeq(@, n + 1, Len(@))]>> \o Tail(it)

Shorter(x, y) == IF x.length < y.length THEN x.length ELSE y.length

(***************************************************************************)
(* transform: the client's operation, rewritten to apply after the         *)
(* server's.  At one position the server's insertion comes first.          *)
(***************************************************************************)
ServerInserts_Last(x, y) == y.type = "insert" /\ x.type # "insert"
ServerInserts(x, y) == y.type = "insert"

(* A stretch that neither side inserts: kept, deleted once, or gone. *)
Rewritten_DeletesTwice(ops, x, y, n) ==
  IF x.type = "delete" THEN OpDelete(ops, n)
  ELSE IF y.type = "delete" THEN ops
  ELSE OpRetain(ops, n, x.attributes)
Rewritten(ops, x, y, n) ==
  IF y.type = "delete" THEN ops
  ELSE IF x.type = "delete" THEN OpDelete(ops, n)
  ELSE OpRetain(ops, n, x.attributes)

RECURSIVE TransformRest(_, _, _)
TransformRest(a, b, ops) ==
  LET x == peek(a)
      y == peek(b)
      n == Shorter(x, y)
  IN IF a = <<>> /\ b = <<>> THEN ops
     ELSE IF ServerInserts(x, y)
     THEN TransformRest(a, next(b, y.length), OpRetain(ops, y.length, NULL))
     ELSE IF x.type = "insert"
     THEN TransformRest(next(a, x.length), b, OpInsert(ops, x.text, x.attributes))
     ELSE TransformRest(next(a, n), next(b, n), Rewritten(ops, x, y, n))

transform(client, server) == TransformRest(client, server, <<>>)

(***************************************************************************)
(* compose: one operation with the effect of op_old followed by op_new.    *)
(***************************************************************************)
Composed_KeepsDeleted(ops, x, y, n) ==
  LET attr == compose_attributes(y.attributes, x.attributes)
  IN IF x.type = "insert" THEN OpInsert(ops, SubSeq(x.text, 1, n), attr)
     ELSE IF y.type = "delete" THEN OpDelete(ops, n)
     ELSE OpRetain(ops, n, attr)
Composed(ops, x, y, n) ==
  LET attr == compose_attributes(y.attributes, x.attributes)
  IN IF x.type = "insert"
       THEN IF y.type = "delete" THEN ops ELSE OpInsert(ops, SubSeq(x.text, 1, n), attr)
     ELSE IF y.type = "delete" THEN OpDelete(ops, n)
     ELSE OpRetain(ops, n, attr)

RECURSIVE ComposeRest(_, _, _)
ComposeRest(a, b, ops) ==
  LET x == peek(a)
      y == peek(b)
      n == Shorter(x, y)
  IN IF a = <<>> /\ b = <<>> THEN ops
     ELSE IF y.type = "insert"
     THEN ComposeRest(a, next(b, y.length), OpInsert(ops, y.text, y.attributes))
     ELSE IF x.type = "delete"
     THEN ComposeRest(next(a, x.length), b, OpDelete(ops, x.length))
     ELSE ComposeRest(next(a, n), next(b, n), Composed(ops, x, y, n))

compose(op_old, op_new) == ComposeRest(op_old, op_new, <<>>)
==========================================================================
