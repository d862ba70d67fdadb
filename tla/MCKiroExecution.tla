-------------------------- MODULE MCKiroExecution --------------------------
(* Small instance of KiroExecution: answers of up to three frames. *)
EXTENDS KiroExecution

ThreeFrames == 3
=============================================================================
