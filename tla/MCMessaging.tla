---------------------------- MODULE MCMessaging ----------------------------
(* A small instance of Messaging for TLC: two workers, and three           *)
(* connections of which the first and the third share one.                  *)
EXTENDS Messaging

MCConn == 1..3

Asked(served, last_accept, failure, open, edit, leave, chat) ==
  [served |-> served, last_accept |-> last_accept, failure |-> failure,
   open |-> open, edit |-> edit, leave |-> leave, chat |-> chat]

(* The server is started and clients connect; or all are connected, and     *)
(* three users share a document, two edit it while a request fails, one     *)
(* goes while the other edits, one is sent a line of a chat, or one of      *)
(* three goes.                                                              *)
MCBudgets == {Asked(0, 2, 1, 0, 0, 1, 0), Asked(3, 0, 0, 3, 1, 0, 0),
              Asked(3, 0, 1, 2, 2, 0, 0), Asked(3, 0, 0, 2, 1, 1, 0),
              Asked(3, 0, 0, 2, 1, 0, 1), Asked(3, 0, 0, 3, 0, 1, 0)}
============================================================================
