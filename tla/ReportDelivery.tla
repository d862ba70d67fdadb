--------------------------- MODULE ReportDelivery ---------------------------
(***************************************************************************)
(* The journey of a result report: the Agent's forwarder (finishReport),   *)
(* its durable outbox and the worker of each Agent replica, an HTTP call   *)
(* to Replay, which records the report and calls Upstream, which records   *)
(* it and then tells the account manager. Calls time out, connections      *)
(* break, responses are lost and processes crash; a call its sender has    *)
(* given up goes on inside the servers until it ends on its own.           *)
(*                                                                         *)
(* A report is a model value: which outcome it carries does not matter     *)
(* here (HotState models what Upstream makes of it), only that it changes  *)
(* target_cache and model_state, as every outcome but context_exceeded     *)
(* does. A call occupies a slot, one exchange Agent -> Replay -> Upstream. *)
(***************************************************************************)
EXTENDS Naturals

CONSTANTS
  Reports,      \* report ids
  Agents,       \* Agent replicas, each with one outbox worker
  Home,         \* Home[r]: the replica whose forwarder produces r
  Slots,        \* exchanges that may be in progress at once
  MaxTries,     \* direct tries of finishReport (3 in the code)
  MaxFaults,    \* bound on the environment's faults in a behaviour
  Orphans,      \* reports whose schedule group or model may be deleted
  Forwarder,    \* owner of a call made by finishReport
  None

ASSUME ReportDeliveryAssumption ==
  /\ Home \in [Reports -> Agents]
  /\ MaxTries \in Nat \ {0}
  /\ MaxFaults \in Nat
  /\ Orphans \subseteq Reports
  /\ None \notin Reports \cup Agents \cup {Forwarder}
  /\ Forwarder \notin Agents

VARIABLES
  fwd,          \* fwd[r]: where finishReport stands with r
  tries,        \* tries[r]: direct calls made so far
  expired,      \* reports whose 5 s context has ended
  outbox,       \* rows of report_outbox (shared by the replicas)
  due,          \* reports whose next_attempt_at has passed
  batch,        \* batch[a]: items of the last Due query still to be sent
  wpc, witem,   \* worker of a: its step, and the item it is working on
  call,         \* call[s]: the exchange in slot s
  replayLedger, \* report ids in Replay's result_reports
  upLedger,     \* report ids in Upstream's result_reports
  effects,      \* effects[r]: how often the account manager acted on r
  cutShort,     \* history: Upstream died between its commit and the manager
  unread,       \* history: recorded by a call that had not got to read the model
  groupGone, modelGone,  \* reports whose group, whose model, was deleted
  faults

agentVars == <<fwd, tries, expired>>
outboxVars == <<outbox, due, batch, witem>>
ledgerVars == <<replayLedger, upLedger, effects, cutShort, unread>>
envVars == <<groupGone, modelGone, faults>>
vars == <<agentVars, outboxVars, wpc, call, ledgerVars, envVars>>

IdleCall == [stage |-> "idle", rep |-> None, owner |-> None]

Init ==
  /\ fwd = [r \in Reports |-> "idle"]
  /\ tries = [r \in Reports |-> 0]
  /\ expired = {}
  /\ outbox = {} /\ due = {}
  /\ batch = [a \in Agents |-> {}]
  /\ wpc = [a \in Agents |-> "idle"]
  /\ witem = [a \in Agents |-> None]
  /\ call = [s \in Slots |-> IdleCall]
  /\ replayLedger = {} /\ upLedger = {}
  /\ effects = [r \in Reports |-> 0]
  /\ cutShort = {} /\ unread = {}
  /\ groupGone = {} /\ modelGone = {}
  /\ faults = 0

Fault == faults < MaxFaults /\ faults' = faults + 1

(* A request leaves for Replay in a free slot. *)
Post(s, r, owner) ==
  /\ call[s].stage = "idle"
  /\ call' = [call EXCEPT ![s] = [stage |-> "replay", rep |-> r, owner |-> owner]]

(* The bound of finishReport's loop.                                       *)
TriesLeft(r) == tries[r] < MaxTries

(* The sender of the call in slot s, if it still waits, gets the outcome.  *)
(* finishReport returns on success, tries again or turns to the outbox; a  *)
(* worker acknowledges the item or puts it off.                            *)
Answer(s, ok) ==
  LET r == call[s].rep
      o == call[s].owner
  IN \/ /\ o = None
        /\ UNCHANGED <<fwd, wpc>>
     \/ /\ o = Forwarder
        /\ fwd' = [fwd EXCEPT ![r] = IF ok THEN "done"
                                     ELSE IF TriesLeft(r) THEN "sending"
                                     ELSE "enqueue"]
        /\ UNCHANGED wpc
     \/ /\ o \in Agents
        /\ wpc' = [wpc EXCEPT ![o] = IF ok THEN "ack" ELSE "retry"]
        /\ UNCHANGED fwd

Advance(s, stage) == call' = [call EXCEPT ![s].stage = stage]
Free(s) == call' = [call EXCEPT ![s] = IdleCall]
-----------------------------------------------------------------------------
(* The forwarder, after an attempt on a target. *)

FinishReport(r) ==
  /\ fwd[r] = "idle"
  /\ fwd' = [fwd EXCEPT ![r] = "sending"]
  /\ UNCHANGED <<tries, expired, outboxVars, wpc, call, ledgerVars, envVars>>

SendReport(r) ==
  /\ fwd[r] = "sending"
  /\ \E s \in Slots : Post(s, r, Forwarder)
  /\ fwd' = [fwd EXCEPT ![r] = "waiting"]
  /\ tries' = [tries EXCEPT ![r] = @ + 1]
  /\ UNCHANGED <<expired, outboxVars, wpc, ledgerVars, envVars>>

(* The 5 s of finishReport are over: a call in progress returns the        *)
(* context's error at once, and the loop of tries is left.                 *)
ContextExpires(r) ==
  /\ fwd[r] \in {"sending", "waiting", "enqueue"}
  /\ r \notin expired
  /\ Fault
  /\ expired' = expired \cup {r}
  /\ fwd' = [fwd EXCEPT ![r] = "enqueue"]
  /\ call' = [s \in Slots |-> IF call[s].rep = r /\ call[s].owner = Forwarder
                              THEN [call[s] EXCEPT !.owner = None] ELSE call[s]]
  /\ UNCHANGED <<tries, outboxVars, wpc, ledgerVars, groupGone, modelGone>>

(* Enqueue runs its INSERT under the same context. The INSERT may fail for *)
(* reasons of its own; either way the error is only logged.                *)
Enqueue(r) ==
  /\ fwd[r] = "enqueue"
  /\ \/ /\ r \notin expired
        /\ outbox' = outbox \cup {r}
        /\ due' = due \cup {r}
        /\ fwd' = [fwd EXCEPT ![r] = "queued"]
        /\ UNCHANGED faults
     \/ /\ r \in expired
        /\ fwd' = [fwd EXCEPT ![r] = "dropped"]
        /\ UNCHANGED <<outbox, due, faults>>
     \/ /\ Fault
        /\ fwd' = [fwd EXCEPT ![r] = "unsaved"]
        /\ UNCHANGED <<outbox, due>>
  /\ UNCHANGED <<tries, expired, batch, wpc, witem, call, ledgerVars, groupGone, modelGone>>
-----------------------------------------------------------------------------
(* The outbox worker of a replica. *)

(* Due's query is a snapshot: another replica may send or acknowledge its  *)
(* items meanwhile. Its LIMIT of 100 is above any outbox of the model.     *)
LoadDue(a) ==
  /\ wpc[a] = "idle" /\ batch[a] = {}
  /\ due \cap outbox # {}
  /\ batch' = [batch EXCEPT ![a] = due \cap outbox]
  /\ UNCHANGED <<agentVars, outbox, due, wpc, witem, call, ledgerVars, envVars>>

SendItem(a) ==
  /\ wpc[a] = "idle"
  /\ \E r \in batch[a], s \in Slots :
       /\ Post(s, r, a)
       /\ witem' = [witem EXCEPT ![a] = r]
       /\ batch' = [batch EXCEPT ![a] = @ \ {r}]
  /\ wpc' = [wpc EXCEPT ![a] = "waiting"]
  /\ UNCHANGED <<agentVars, outbox, due, ledgerVars, envVars>>

WorkerDone(a) ==
  /\ wpc' = [wpc EXCEPT ![a] = "idle"]
  /\ witem' = [witem EXCEPT ![a] = None]
  /\ UNCHANGED <<agentVars, batch, call, ledgerVars, groupGone, modelGone>>

(* An Ack that reports success and deletes nothing. *)
AckOfNoRow(a) ==
  /\ wpc[a] = "ack"
  /\ WorkerDone(a)
  /\ UNCHANGED <<outbox, due, faults>>

(* The error of Ack is ignored: the row may stay, and be sent again. *)
Ack(a) ==
  /\ wpc[a] = "ack"
  /\ \/ /\ outbox' = outbox \ {witem[a]}
        /\ UNCHANGED <<due, faults>>
     \/ /\ Fault
        /\ UNCHANGED <<outbox, due>>
  /\ WorkerDone(a)

(* A worker that gives an item up after a failed delivery. *)
RetryNever(a) ==
  /\ wpc[a] = "retry"
  /\ outbox' = outbox \ {witem[a]}
  /\ WorkerDone(a)
  /\ UNCHANGED <<due, faults>>

Retry(a) ==
  /\ wpc[a] = "retry"
  /\ due' = due \ {witem[a]}
  /\ WorkerDone(a)
  /\ UNCHANGED <<outbox, faults>>

BackoffElapses(r) ==
  /\ r \in outbox \ due
  /\ due' = due \cup {r}
  /\ UNCHANGED <<agentVars, outbox, batch, wpc, witem, call, ledgerVars, envVars>>
-----------------------------------------------------------------------------
(* The servers. *)

(* Where a call goes after Replay's commit: to Upstream, also when Replay   *)
(* knew the report; NextHopIfNew would take Replay's table as proof that   *)
(* Upstream was told.                                                      *)
NextHopIfNew(r) == IF r \in replayLedger THEN "reply" ELSE "upstream"
NextHop(r) == "upstream"

(* Replay's transaction: a known report id commits without touching        *)
(* target_cache, so only a new one needs its schedule group.               *)
ReplayApplies(s) ==
  LET r == call[s].rep IN
  /\ call[s].stage = "replay"
  /\ r \in replayLedger \/ r \notin groupGone
  /\ replayLedger' = replayLedger \cup {r}
  /\ Advance(s, NextHop(r))
  /\ UNCHANGED <<agentVars, outboxVars, wpc, upLedger, effects, cutShort, unread, envVars>>

(* Report reads the model first and ignores the error: a read that fails,  *)
(* or finds no row, leaves it without the account to tell.                 *)
ReadModel(s) ==
  LET r == call[s].rep IN
  /\ call[s].stage = "upstream"
  /\ \/ r \notin modelGone /\ Advance(s, "known") /\ UNCHANGED faults
     \/ r \in modelGone /\ Advance(s, "unknown") /\ UNCHANGED faults
     \/ Fault /\ Advance(s, "unknown")
  /\ UNCHANGED <<agentVars, outboxVars, wpc, ledgerVars, groupGone, modelGone>>

(* Only a call whose row was new, and that knows the model, goes on to the *)
(* account manager. The others: without the check of the row, and with one *)
(* on the caller's context.                                                *)
AfterCommitAlways(s) == IF call[s].stage = "unknown" THEN "reply" ELSE "manager"
AfterCommitWhileAwaited(s) ==
  IF call[s].rep \in upLedger \/ call[s].owner = None \/ call[s].stage = "unknown"
  THEN "reply" ELSE "manager"
AfterCommit(s) ==
  IF call[s].rep \in upLedger \/ call[s].stage = "unknown" THEN "reply" ELSE "manager"

(* Upstream's transaction: likewise with model_state and the model's row. *)
UpstreamApplies(s) ==
  LET r == call[s].rep IN
  /\ call[s].stage \in {"known", "unknown"}
  /\ r \in upLedger \/ r \notin modelGone
  /\ upLedger' = upLedger \cup {r}
  /\ unread' = IF call[s].stage = "unknown" THEN unread \cup ({r} \ upLedger) ELSE unread
  /\ Advance(s, AfterCommit(s))
  /\ UNCHANGED <<agentVars, outboxVars, wpc, replayLedger, effects, cutShort, envVars>>

ManagerActs(s) ==
  LET r == call[s].rep IN
  /\ call[s].stage = "manager"
  /\ effects' = [effects EXCEPT ![r] = @ + 1]
  /\ Advance(s, "reply")
  /\ UNCHANGED <<agentVars, outboxVars, wpc, replayLedger, upLedger, cutShort, unread, envVars>>

Reply(s) ==
  /\ call[s].stage = "reply"
  /\ Answer(s, TRUE)
  /\ Free(s)
  /\ UNCHANGED <<tries, expired, outboxVars, ledgerVars, envVars>>

(* The row a new report refers to is gone: the transaction fails. *)
RejectOrphan(s) ==
  LET r == call[s].rep IN
  /\ \/ call[s].stage = "replay" /\ r \in groupGone \ replayLedger
     \/ call[s].stage \in {"known", "unknown"} /\ r \in modelGone \ upLedger
  /\ Answer(s, FALSE)
  /\ Free(s)
  /\ UNCHANGED <<tries, expired, outboxVars, ledgerVars, envVars>>
-----------------------------------------------------------------------------
(* Faults. *)

(* A server fails or dies under the call, or the call is cancelled there.  *)
(* Once its sender is gone this may happen at any time.                    *)
ServerFails(s) ==
  /\ call[s].stage # "idle"
  /\ IF call[s].owner = None THEN UNCHANGED faults ELSE Fault
  /\ cutShort' = IF call[s].stage = "manager" THEN cutShort \cup {call[s].rep}
                                              ELSE cutShort
  /\ Answer(s, FALSE)
  /\ Free(s)
  /\ UNCHANGED <<tries, expired, outboxVars, replayLedger, upLedger, effects, unread,
                 groupGone, modelGone>>

(* The sender's connection breaks or times out; the servers go on. *)
SenderGivesUp(s) ==
  /\ call[s].stage # "idle" /\ call[s].owner # None
  /\ Fault
  /\ Answer(s, FALSE)
  /\ call' = [call EXCEPT ![s].owner = None]
  /\ UNCHANGED <<tries, expired, outboxVars, ledgerVars, groupGone, modelGone>>

Running == {"sending", "waiting", "enqueue"}
OfAgent(a, c) == c.owner = a \/ (c.owner = Forwarder /\ Home[c.rep] = a)

(* An Agent replica crashes and comes back: its requests are gone, its     *)
(* worker starts again, the outbox is as it was.                           *)
AgentCrash(a) ==
  /\ Fault
  /\ fwd' = [r \in Reports |-> IF Home[r] = a /\ fwd[r] \in Running
                               THEN "crashed" ELSE fwd[r]]
  /\ wpc' = [wpc EXCEPT ![a] = "idle"]
  /\ witem' = [witem EXCEPT ![a] = None]
  /\ batch' = [batch EXCEPT ![a] = {}]
  /\ call' = [s \in Slots |-> IF OfAgent(a, call[s])
                              THEN [call[s] EXCEPT !.owner = None] ELSE call[s]]
  /\ UNCHANGED <<tries, expired, outbox, due, ledgerVars, groupGone, modelGone>>

(* An administrator deletes the schedule group, or the account of the model. *)
DeleteGroup(r) ==
  /\ r \in Orphans \ groupGone
  /\ groupGone' = groupGone \cup {r}
  /\ UNCHANGED <<agentVars, outboxVars, wpc, call, ledgerVars, modelGone, faults>>

DeleteModel(r) ==
  /\ r \in Orphans \ modelGone
  /\ modelGone' = modelGone \cup {r}
  /\ UNCHANGED <<agentVars, outboxVars, wpc, call, ledgerVars, groupGone, faults>>
-----------------------------------------------------------------------------
ForwarderStep(r) == SendReport(r) \/ Enqueue(r)
WorkerStep(a) == LoadDue(a) \/ SendItem(a) \/ Ack(a) \/ Retry(a)
ServerStep(s) ==
  \/ ReplayApplies(s) \/ ReadModel(s) \/ UpstreamApplies(s) \/ ManagerActs(s)
  \/ Reply(s) \/ RejectOrphan(s)

(* Every report is settled or lost and nothing is under way: no deadlock. *)
Quiescent ==
  /\ \A r \in Reports : fwd[r] \in {"done", "queued", "dropped", "unsaved", "crashed"}
  /\ outbox = {}
  /\ \A s \in Slots : call[s].stage = "idle"
  /\ UNCHANGED vars

Next ==
  \/ \E r \in Reports :
       \/ FinishReport(r) \/ ForwarderStep(r) \/ ContextExpires(r)
       \/ BackoffElapses(r) \/ DeleteGroup(r) \/ DeleteModel(r)
  \/ \E a \in Agents : WorkerStep(a) \/ AgentCrash(a)
  \/ \E s \in Slots : ServerStep(s) \/ ServerFails(s) \/ SenderGivesUp(s)
  \/ Quiescent

(* Goroutines run, the ticker ticks, the clock moves and a request that a  *)
(* server has accepted ends; the environment's faults are never required.  *)
Fairness ==
  /\ \A r \in Reports : WF_vars(ForwarderStep(r)) /\ WF_vars(BackoffElapses(r))
  /\ \A a \in Agents : WF_vars(WorkerStep(a))
  /\ \A s \in Slots : WF_vars(ServerStep(s))

Spec == Init /\ [][Next]_vars
FairSpec == Spec /\ Fairness
-----------------------------------------------------------------------------
(* Properties. *)

Owners == Agents \cup {Forwarder, None}
Stages == {"replay", "upstream", "known", "unknown", "manager", "reply"}
Calls == [stage : Stages, rep : Reports, owner : Owners] \cup {IdleCall}
ForwarderStates ==
  {"idle", "sending", "waiting", "enqueue", "done", "queued", "dropped", "unsaved",
   "crashed"}

TypeOK ==
  /\ fwd \in [Reports -> ForwarderStates]
  /\ tries \in [Reports -> 0 .. MaxTries]
  /\ expired \subseteq Reports
  /\ outbox \subseteq Reports /\ due \subseteq Reports
  /\ batch \in [Agents -> SUBSET Reports]
  /\ wpc \in [Agents -> {"idle", "waiting", "ack", "retry"}]
  /\ witem \in [Agents -> Reports \cup {None}]
  /\ call \in [Slots -> Calls]
  /\ replayLedger \subseteq Reports /\ upLedger \subseteq Reports
  /\ effects \in [Reports -> Nat]
  /\ cutShort \subseteq Reports /\ unread \subseteq Reports
  /\ groupGone \subseteq Reports /\ modelGone \subseteq Reports
  /\ faults \in Nat

(* However often a report is sent, by whichever replica, and whatever      *)
(* arrives twice or late, the account manager acts on it at most once: the *)
(* row of result_reports guards penalty and usage (service.go Report).     *)
ActedOnAtMostOnce == \A r \in Reports : effects[r] <= 1

(* The Agent forgets a report - finishReport returned a response, or the   *)
(* worker deleted its outbox row - only when Replay and Upstream have both *)
(* recorded it, so nothing is left to retry.                               *)
Settled(r) == fwd[r] = "done" \/ (fwd[r] = "queued" /\ r \notin outbox)
ForgottenOnlyIfRecorded ==
  \A r \in Reports : Settled(r) => r \in replayLedger /\ r \in upLedger

(* A report in Upstream's table is in one of four cases: the account       *)
(* manager acted on it, a call is about to tell it, Upstream died in       *)
(* between, or the call that wrote the row could not read the model and so *)
(* told nobody. The last two are final: the row makes every resend a no-op *)
(* and duplicates never swallow, or repeat, the effect of another call.    *)
EffectAccountedFor ==
  \A r \in upLedger :
    \/ effects[r] = 1 /\ r \notin unread
    \/ \E s \in Slots : call[s].stage = "manager" /\ call[s].rep = r
    \/ effects[r] = 0 /\ r \in cutShort \cup unread

(* Once the environment's faults are over, every report in the outbox is   *)
(* delivered and its row deleted, unless the group or model it refers to   *)
(* was deleted before it could be recorded: that row is retried for ever.  *)
Orphaned(r) == r \in groupGone \ replayLedger \/ r \in modelGone \ upLedger
OutboxDrains ==
  \A r \in Reports : r \in outbox ~> (r \notin outbox \/ Orphaned(r))

(* The services keep the promises of ReportLedger. *)
Ledger == INSTANCE ReportLedger WITH
  recorded <- upLedger,
  acted <- effects,
  settled <- {r \in Reports : Settled(r)},
  givenUp <- {r \in Reports : fwd[r] \in {"dropped", "unsaved", "crashed"}}
LedgerSpec == Ledger!Spec

(* design/deployment-modes.md promises exactly-once reports from a durable *)
(* queue and idempotence: a report that could not be delivered stays in    *)
(* the outbox. Only a crash of the Agent or a database that refuses the    *)
(* row may lose one.                                                       *)
NeverDropped == \A r \in Reports : fwd[r] # "dropped"
=============================================================================
