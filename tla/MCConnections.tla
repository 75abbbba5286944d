--------------------------- MODULE MCConnections --------------------------
(* Connection ids and slots are interchangeable, and the kernel may take   *)
(* its requests in any order: two states that differ in the order of       *)
(* requests only have the same steps and the same properties.              *)
EXTENDS Connections, TLC

Symmetry == Permutations(Conn) \cup Permutations(Fd)

WithKernel == {<<r, Count(requests, LAMBDA x : x = r)>> : r \in {requests[i] : i \in DOMAIN requests}}
View == <<conns, user_map, sq, issuing, WithKernel, cq, files, peer, shut, ended>>
=============================================================================
