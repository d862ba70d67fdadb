---------------------------- MODULE MCSelection ----------------------------
(* Three members, one of them with a narrow window; calls in two replicas. *)
EXTENDS Selection

CONSTANTS a, b, d, p1, p2, c1, c2, c3

MCMembers == <<a, b, d>>
MCReplicaOf == [c \in Calls |-> IF c = c1 THEN p1 ELSE p2]
MCRequests == [tried : {{}}, big : BOOLEAN]
                \cup [tried : {{a}, {a, b, d}}, big : {FALSE}]
=============================================================================
