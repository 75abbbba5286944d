------------------------ MODULE MCDocumentService ------------------------
(* A small instance of DocumentService for TLC. *)
EXTENDS DocumentService, TLC

(* Documents and connections are interchangeable. *)
MCSymmetry == Permutations(Conn) \cup Permutations(Doc)
==========================================================================
