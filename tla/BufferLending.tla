-------------------------- MODULE BufferLending ---------------------------
(***************************************************************************)
(* What a pool of send buffers promises: a buffer is lent to one send at a *)
(* time, from the moment it is handed out until the kernel has reported    *)
(* the send and let go of the buffer; and only buffers of the pool are     *)
(* lent, new ones when all others are out.                                 *)
(***************************************************************************)
VARIABLES stock,    \* the buffers of the pool
          sending,  \* those with a send that has not been reported
          held      \* those whose send is reported and that the kernel holds

vars == <<stock, sending, held>>

Init == sending = {} /\ held = {}

Lend(b) == /\ b \in stock \ (sending \cup held)
           /\ sending' = sending \cup {b}
           /\ UNCHANGED <<stock, held>>

GrowAndLend(b) == /\ sending \cup held = stock
                  /\ stock \subseteq stock'
                  /\ b \in stock' \ stock
                  /\ sending' = sending \cup {b}
                  /\ UNCHANGED held

Report(b) == /\ b \in sending
             /\ sending' = sending \ {b}
             /\ held' = held \cup {b}
             /\ UNCHANGED stock

Return(b) == /\ b \in held
             /\ held' = held \ {b}
             /\ UNCHANGED <<stock, sending>>

Next == \E b \in stock' : Lend(b) \/ GrowAndLend(b) \/ Report(b) \/ Return(b)

Spec == Init /\ [][Next]_vars
=============================================================================
