----------------------------- MODULE MCHotState -----------------------------
(* All calls are about one target: nothing in the code relates the state   *)
(* of two, and calls about one are the ones that meet.                     *)
EXTENDS HotState, TLC

CONSTANTS m1, c1, c2, c3

MCTargetOf == [c \in Calls |-> m1]
MCSymmetry == Permutations(Calls)
=============================================================================
