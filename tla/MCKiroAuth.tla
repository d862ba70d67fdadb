----------------------------- MODULE MCKiroAuth -----------------------------
(* Two instances: a replica and another, or its own successor. *)
EXTENDS KiroAuth, TLC

CONSTANTS i1, i2

MCSymmetry == Permutations(Instances)
=============================================================================
