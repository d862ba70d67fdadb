----------------------------- MODULE MCForward -----------------------------
(* Two targets serve the request's model, two the compress model; one of   *)
(* each is shared, and one of the compress model cannot be spoken to.      *)
EXTENDS Forward

CONSTANTS t1, t2, t3, requestId, limits

MCServes == [m \in Models |-> IF m = "orig" THEN {t1, t2} ELSE {t2, t3}]
(* t1 reports its rate limits, the others do not. *)
MCSends == [t \in Targets |-> Headers \ (IF t = t1 THEN {} ELSE {limits})]
=============================================================================
