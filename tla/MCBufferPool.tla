--------------------------- MODULE MCBufferPool ---------------------------
(* Two buffers in a block, two bits in a word: the smallest sizes at which  *)
(* a range has a first word, a last and one between.                        *)
EXTENDS BufferPool
=============================================================================
