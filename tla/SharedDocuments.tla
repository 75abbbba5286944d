------------------------- MODULE SharedDocuments -------------------------
(***************************************************************************)
(* What the document service promises its clients, without registry,       *)
(* reference counts, locks or handler steps: one shared document per name, *)
(* which lives at least as long as somebody has it open, whose revision    *)
(* grows by one with every accepted edit, and whose members are told the   *)
(* revision their snapshot or their accepted edit has.                     *)
(***************************************************************************)
EXTENDS Naturals

CONSTANTS Conn,  \* client connections
          Name   \* document names

VARIABLES members,  \* members[n]: the connections that have n open
          rev,      \* rev[n]: the revision of the document called n
          ver       \* ver[c]: the last revision the service reported to c

avars == <<members, rev, ver>>

AInit == /\ members = [n \in Name |-> {}]
         /\ rev = [n \in Name |-> 0]
         /\ ver = [c \in Conn |-> 0]

(* A connection has at most one document open at a time. *)
Join(c, n) == /\ \A m \in Name : c \notin members[m]
              /\ members' = [members EXCEPT ![n] = @ \cup {c}]
              /\ UNCHANGED <<rev, ver>>

Leave(c, n) == /\ c \in members[n]
               /\ members' = [members EXCEPT ![n] = @ \ {c}]
               /\ ver' = [ver EXCEPT ![c] = 0]
               /\ UNCHANGED rev

Snapshot(c, n) == /\ c \in members[n]
                  /\ ver' = [ver EXCEPT ![c] = rev[n]]
                  /\ UNCHANGED <<members, rev>>

Edit(c, n) == /\ c \in members[n]
              /\ rev' = [rev EXCEPT ![n] = @ + 1]
              /\ ver' = [ver EXCEPT ![c] = rev[n] + 1]
              /\ UNCHANGED members

(* A document may be dropped, with its content, once nobody has it open. *)
Discard(n) == /\ members[n] = {}
              /\ rev' = [rev EXCEPT ![n] = 0]
              /\ UNCHANGED <<members, ver>>

ANext == \E n \in Name : \/ Discard(n)
                         \/ \E c \in Conn : \/ Join(c, n)
                                            \/ Leave(c, n)
                                            \/ Snapshot(c, n)
                                            \/ Edit(c, n)

ASpec == AInit /\ [][ANext]_avars
==========================================================================
