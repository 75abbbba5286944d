------------------------------ MODULE Timers ------------------------------
(***************************************************************************)
(* What a timer wheel promises: a timer that was added, and neither        *)
(* cancelled, destroyed nor added again since, runs its callback in the    *)
(* tick it is due, once, and in no other.                                  *)
(***************************************************************************)
EXTENDS Naturals

CONSTANTS Timer,   \* timer objects
          Ticks,   \* after how many ticks a timer may be asked to run
          NEVER    \* the due tick of a timer that is not set

VARIABLES tick,   \* the current tick
          due,    \* due[t]: the tick t will run in, or NEVER
          fired   \* the timers whose callback ran in the last step

avars == <<tick, due, fired>>

AInit == /\ tick = 0
         /\ due = [t \in Timer |-> NEVER]
         /\ fired = {}

Set(t, n) == /\ due' = [due EXCEPT ![t] = tick + n]
             /\ fired' = {}
             /\ UNCHANGED tick

Unset(t) == /\ due' = [due EXCEPT ![t] = NEVER]
            /\ fired' = {}
            /\ UNCHANGED tick

Advance == /\ tick' = tick + 1
           /\ fired' = {t \in Timer : due[t] = tick'}
           /\ due' = [t \in Timer |-> IF t \in fired' THEN NEVER ELSE due[t]]

ANext == \/ Advance
         \/ \E t \in Timer : Unset(t) \/ \E n \in Ticks : Set(t, n)

ASpec == AInit /\ [][ANext]_avars
==========================================================================
