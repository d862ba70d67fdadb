----------------------------- MODULE MCCatalog -----------------------------
(* One account of at most two models, two requests in different replicas. *)
EXTENDS Catalog

CONSTANTS n1, m1, m2, x, y, r1, r2, h1, h2

MCReplicaOf == [h \in Handlers |-> IF h = h1 THEN r1 ELSE r2]
=============================================================================
