-------------------------- MODULE MCReportDelivery --------------------------
(* ReportDelivery for TLC. *)
EXTENDS ReportDelivery
CONSTANTS r1, r2, a1, a2

(* Both requests are served by the first replica; the outbox is shared, so *)
(* the second replica's worker competes for the same rows.                 *)
MCHome == [r \in Reports |-> a1]
=============================================================================
