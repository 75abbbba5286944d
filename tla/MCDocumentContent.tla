------------------------ MODULE MCDocumentContent ------------------------
(* Small instances of DocumentContent. *)
EXTENDS DocumentContent, TLC

(* One retain makes what it goes over bold.                                 *)
MCShapeMixed == {<<"retain", 1, NULL>>, <<"retain", 1, "bold" :> "true">>,
                 <<"insert", 2, NULL>>, <<"delete", 1, NULL>>, <<"delete", 2, NULL>>}
MCShapeSingle == {"retain", "insert", "delete"} \X {1} \X {NULL}
==========================================================================
