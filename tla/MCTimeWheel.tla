--------------------------- MODULE MCTimeWheel ---------------------------
(* Small instances of TimeWheel: five levels of two slots each. *)
EXTENDS TimeWheel, TLC

MCSymmetry == Permutations(Timer)
==========================================================================
