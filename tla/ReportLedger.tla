---------------------------- MODULE ReportLedger ----------------------------
(***************************************************************************)
(* What the three services together promise about a result report,        *)
(* whatever the transport does: Upstream records it at most once, acts on  *)
(* it (account penalty and usage) at most once and only after recording    *)
(* it, and the Agent forgets it only once it is recorded, unless it gives  *)
(* it up. ReportDelivery implements this module.                           *)
(***************************************************************************)
EXTENDS Naturals

CONSTANT Reports

VARIABLES
  recorded,   \* reports in Upstream's result_reports table
  acted,      \* acted[r]: how often the account manager has been told of r
  settled,    \* reports the Agent needs to do nothing more about
  givenUp     \* reports the Agent has stopped trying to deliver

vars == <<recorded, acted, settled, givenUp>>

Init ==
  /\ recorded = {}
  /\ acted = [r \in Reports |-> 0]
  /\ settled = {}
  /\ givenUp = {}

Record(r) ==
  /\ r \notin recorded
  /\ recorded' = recorded \cup {r}
  /\ UNCHANGED <<acted, settled, givenUp>>

ActOn(r) ==
  /\ r \in recorded
  /\ acted[r] = 0
  /\ acted' = [acted EXCEPT ![r] = 1]
  /\ UNCHANGED <<recorded, settled, givenUp>>

Settle(r) ==
  /\ r \in recorded \ (settled \cup givenUp)
  /\ settled' = settled \cup {r}
  /\ UNCHANGED <<recorded, acted, givenUp>>

GiveUp(G) ==
  /\ G \cap (settled \cup givenUp) = {}
  /\ givenUp' = givenUp \cup G
  /\ UNCHANGED <<recorded, acted, settled>>

Next ==
  \/ \E r \in Reports : Record(r) \/ ActOn(r) \/ Settle(r)
  \/ \E G \in SUBSET Reports : GiveUp(G)

Spec == Init /\ [][Next]_vars
=============================================================================
