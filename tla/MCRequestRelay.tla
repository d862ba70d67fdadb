--------------------------- MODULE MCRequestRelay ---------------------------
(* Small instance of RequestRelay: histories of up to four turns, two of   *)
(* them of any kind; one of a single turn is sent with every tool list and *)
(* tool choice.                                                            *)
EXTENDS RequestRelay

FourTurns == 4
TwoTurns == 2
OneTurn == 1
=============================================================================
