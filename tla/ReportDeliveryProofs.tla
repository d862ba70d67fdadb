------------------------ MODULE ReportDeliveryProofs ------------------------
(***************************************************************************)
(* Proofs about ReportDelivery, for any sets of reports, replicas and      *)
(* exchanges and any bounds: type correctness, that a report is acted on   *)
(* at most once and forgotten only when recorded, and that the services    *)
(* implement ReportLedger.                                                 *)
(***************************************************************************)
EXTENDS ReportDelivery, TLAPS

(* Every action of the module, for a step that takes them one by one. *)
Step ==
  \/ \E r \in Reports :
       \/ FinishReport(r) \/ SendReport(r) \/ Enqueue(r) \/ ContextExpires(r)
       \/ BackoffElapses(r) \/ DeleteGroup(r) \/ DeleteModel(r)
  \/ \E a \in Agents : LoadDue(a) \/ SendItem(a) \/ Ack(a) \/ Retry(a) \/ AgentCrash(a)
  \/ \E s \in Slots :
       \/ ReplayApplies(s) \/ ReadModel(s) \/ UpstreamApplies(s) \/ ManagerActs(s)
       \/ Reply(s) \/ RejectOrphan(s) \/ ServerFails(s) \/ SenderGivesUp(s)

LEMMA StepOfNext == [Next]_vars => Step \/ UNCHANGED vars
  BY DEF Next, Step, ForwarderStep, WorkerStep, ServerStep, Quiescent

(* What TypeOK needs to be inductive: a try is left whenever one is due. *)
TriesBound ==
  \A r \in Reports : /\ fwd[r] = "idle" => tries[r] = 0
                     /\ fwd[r] = "sending" => tries[r] < MaxTries
Typed == TypeOK /\ TriesBound

LEMMA TypedInit == Init => Typed
  BY ReportDeliveryAssumption
  DEF Init, Typed, TypeOK, TriesBound, Calls, IdleCall, ForwarderStates

(* A busy slot holds a call proper, with a report and an owner. *)
LEMMA BusyCall ==
  ASSUME TypeOK, NEW s \in Slots, call[s].stage # "idle"
  PROVE  /\ call[s] \in [stage : Stages, rep : Reports, owner : Owners]
         /\ call[s].rep \in Reports /\ call[s].owner \in Owners
  BY DEF TypeOK, Calls, IdleCall

(* An answer moves its sender on within its states, and sends again only   *)
(* while a try is left.                                                    *)
LEMMA AnswerTypes ==
  ASSUME Typed, NEW s \in Slots, call[s].stage # "idle", NEW ok \in BOOLEAN,
         Answer(s, ok), UNCHANGED tries
  PROVE  /\ fwd' \in [Reports -> ForwarderStates]
         /\ wpc' \in [Agents -> {"idle", "waiting", "ack", "retry"}]
         /\ TriesBound'
<1>1. call[s].rep \in Reports
  BY BusyCall DEF Typed
<1>2. CASE UNCHANGED <<fwd, wpc>>
  BY <1>2 DEF Typed, TypeOK, TriesBound
<1>3. CASE \E a \in Agents : wpc' = [wpc EXCEPT ![a] = IF ok THEN "ack" ELSE "retry"] /\ fwd' = fwd
  BY <1>3 DEF Typed, TypeOK, TriesBound
<1>4. CASE /\ fwd' = [fwd EXCEPT ![call[s].rep] = IF ok THEN "done"
                                                  ELSE IF TriesLeft(call[s].rep) THEN "sending"
                                                  ELSE "enqueue"]
           /\ wpc' = wpc
  BY <1>1, <1>4 DEF Typed, TypeOK, TriesBound, ForwarderStates, TriesLeft
<1> QED
  BY <1>2, <1>3, <1>4 DEF Answer

LEMMA TypedStep == Typed /\ [Next]_vars => Typed'
<1> SUFFICES ASSUME Typed, Step \/ UNCHANGED vars PROVE Typed'
  BY StepOfNext
<1> USE ReportDeliveryAssumption
    DEF Typed, TypeOK, TriesBound, Calls, IdleCall, Stages, Owners, ForwarderStates,
        agentVars, outboxVars, ledgerVars, envVars
<1>1. ASSUME NEW r \in Reports, FinishReport(r) PROVE Typed'
  BY <1>1 DEF FinishReport
<1>2. ASSUME NEW r \in Reports, SendReport(r) PROVE Typed'
  BY <1>2 DEF SendReport, Post
<1>3. ASSUME NEW r \in Reports, Enqueue(r) PROVE Typed'
  BY <1>3 DEF Enqueue, Fault
<1>4. ASSUME NEW r \in Reports, ContextExpires(r) PROVE Typed'
  BY <1>4 DEF ContextExpires, Fault
<1>5. ASSUME NEW r \in Reports, BackoffElapses(r) PROVE Typed'
  BY <1>5 DEF BackoffElapses
<1>6. ASSUME NEW r \in Reports, DeleteGroup(r) PROVE Typed'
  BY <1>6 DEF DeleteGroup
<1>7. ASSUME NEW r \in Reports, DeleteModel(r) PROVE Typed'
  BY <1>7 DEF DeleteModel
<1>8. ASSUME NEW a \in Agents, LoadDue(a) PROVE Typed'
  BY <1>8 DEF LoadDue
<1>9. ASSUME NEW a \in Agents, SendItem(a) PROVE Typed'
  BY <1>9 DEF SendItem, Post
<1>10. ASSUME NEW a \in Agents, Ack(a) PROVE Typed'
  BY <1>10 DEF Ack, WorkerDone, Fault
<1>11. ASSUME NEW a \in Agents, Retry(a) PROVE Typed'
  BY <1>11 DEF Retry, WorkerDone
<1>12. ASSUME NEW a \in Agents, AgentCrash(a) PROVE Typed'
  BY <1>12 DEF AgentCrash, Fault, OfAgent, Running
<1>13. ASSUME NEW s \in Slots, ReplayApplies(s) PROVE Typed'
  BY <1>13, BusyCall DEF ReplayApplies, Advance, NextHop
<1>14. ASSUME NEW s \in Slots, UpstreamApplies(s) PROVE Typed'
  BY <1>14, BusyCall DEF UpstreamApplies, Advance, AfterCommit
<1>15. ASSUME NEW s \in Slots, ManagerActs(s) PROVE Typed'
  BY <1>15, BusyCall DEF ManagerActs, Advance
<1>16. ASSUME NEW s \in Slots, Reply(s) PROVE Typed'
  <2>1. call[s].stage # "idle" /\ Answer(s, TRUE) /\ UNCHANGED tries
    BY <1>16 DEF Reply
  <2>2. /\ fwd' \in [Reports -> ForwarderStates]
        /\ wpc' \in [Agents -> {"idle", "waiting", "ack", "retry"}]
        /\ TriesBound'
    BY <2>1, AnswerTypes
  <2> QED
    BY <1>16, <2>1, <2>2, BusyCall DEF Reply, Free
<1>17. ASSUME NEW s \in Slots, RejectOrphan(s) PROVE Typed'
  <2>1. call[s].stage # "idle" /\ Answer(s, FALSE) /\ UNCHANGED tries
    BY <1>17 DEF RejectOrphan
  <2>2. /\ fwd' \in [Reports -> ForwarderStates]
        /\ wpc' \in [Agents -> {"idle", "waiting", "ack", "retry"}]
        /\ TriesBound'
    BY <2>1, AnswerTypes
  <2> QED
    BY <1>17, <2>1, <2>2, BusyCall DEF RejectOrphan, Free
<1>18. ASSUME NEW s \in Slots, ServerFails(s) PROVE Typed'
  <2>1. call[s].stage # "idle" /\ Answer(s, FALSE) /\ UNCHANGED tries
    BY <1>18 DEF ServerFails
  <2>2. /\ fwd' \in [Reports -> ForwarderStates]
        /\ wpc' \in [Agents -> {"idle", "waiting", "ack", "retry"}]
        /\ TriesBound'
    BY <2>1, AnswerTypes
  <2> QED
    BY <1>18, <2>1, <2>2, BusyCall DEF ServerFails, Free, Fault
<1>19. ASSUME NEW s \in Slots, SenderGivesUp(s) PROVE Typed'
  <2>1. call[s].stage # "idle" /\ Answer(s, FALSE) /\ UNCHANGED tries
    BY <1>19 DEF SenderGivesUp
  <2>2. /\ fwd' \in [Reports -> ForwarderStates]
        /\ wpc' \in [Agents -> {"idle", "waiting", "ack", "retry"}]
        /\ TriesBound'
    BY <2>1, AnswerTypes
  <2> QED
    BY <1>19, <2>1, <2>2, BusyCall DEF SenderGivesUp, Fault
<1>21. ASSUME NEW s \in Slots, ReadModel(s) PROVE Typed'
  BY <1>21, BusyCall DEF ReadModel, Advance, Fault
<1>20. CASE UNCHANGED vars
  BY <1>20 DEF vars
<1> QED
  BY <1>1, <1>2, <1>3, <1>4, <1>5, <1>6, <1>7, <1>8, <1>9, <1>10, <1>11, <1>12, <1>13, <1>14, <1>15, <1>16, <1>17, <1>18, <1>19, <1>20, <1>21 DEF Step

(* Every variable keeps its type. *)
THEOREM TypeCorrect == Spec => []TypeOK
<1>1. Typed => TypeOK
  BY DEF Typed
<1> QED
  BY TypedInit, TypedStep, <1>1, PTL DEF Spec
-----------------------------------------------------------------------------
(* A sender waits for at most one call, and the call is about what it sent. *)
SendersWait ==
  /\ \A s \in Slots : call[s].owner = Forwarder =>
       /\ fwd[call[s].rep] = "waiting"
       /\ \A t \in Slots : call[t].owner = Forwarder /\ call[t].rep = call[s].rep => t = s
  /\ \A s \in Slots : call[s].owner \in Agents =>
       /\ wpc[call[s].owner] = "waiting"
       /\ witem[call[s].owner] = call[s].rep
       /\ \A t \in Slots : call[t].owner = call[s].owner => t = s

(* How far a call is shows who has recorded its report. *)
CallsRecorded ==
  /\ \A s \in Slots :
       /\ call[s].stage \in {"upstream", "known", "unknown", "manager", "reply"} => call[s].rep \in replayLedger
       /\ call[s].stage \in {"manager", "reply"} => call[s].rep \in upLedger
  /\ \A a \in Agents :
       wpc[a] = "ack" => witem[a] \in replayLedger /\ witem[a] \in upLedger

(* One call at most takes a report from the commit to the account manager. *)
EffectOnce ==
  /\ \A r \in Reports : effects[r] \in {0, 1}
  /\ \A r \in Reports \ upLedger : effects[r] = 0 /\ r \notin unread
  /\ \A r \in unread : effects[r] = 0
  /\ \A s \in Slots : call[s].stage = "manager" =>
       /\ effects[call[s].rep] = 0
       /\ call[s].rep \notin unread
       /\ \A t \in Slots : call[t].stage = "manager" /\ call[t].rep = call[s].rep => t = s

IInv ==
  /\ Typed /\ SendersWait /\ CallsRecorded /\ EffectOnce
  /\ ForgottenOnlyIfRecorded /\ EffectAccountedFor

LEMMA IInvInit == Init => IInv
  BY TypedInit, ReportDeliveryAssumption
  DEF Init, IInv, SendersWait, CallsRecorded, EffectOnce, ForgottenOnlyIfRecorded,
      Settled, EffectAccountedFor, IdleCall

LEMMA SendersWaitStep == IInv /\ [Next]_vars => SendersWait'
<1> SUFFICES ASSUME IInv, Step \/ UNCHANGED vars PROVE SendersWait'
  BY StepOfNext
<1> USE ReportDeliveryAssumption
    DEF IInv, Typed, TypeOK, Calls, IdleCall, Stages, Owners, ForwarderStates,
        SendersWait,
        agentVars, outboxVars, ledgerVars, envVars
<1>1. ASSUME NEW r \in Reports, FinishReport(r) PROVE SendersWait'
  BY <1>1 DEF FinishReport
<1>2. ASSUME NEW r \in Reports, SendReport(r) PROVE SendersWait'
  BY <1>2 DEF SendReport, Post
<1>3. ASSUME NEW r \in Reports, Enqueue(r) PROVE SendersWait'
  BY <1>3 DEF Enqueue, Fault
<1>4. ASSUME NEW r \in Reports, ContextExpires(r) PROVE SendersWait'
  BY <1>4 DEF ContextExpires, Fault
<1>5. ASSUME NEW r \in Reports, BackoffElapses(r) PROVE SendersWait'
  BY <1>5 DEF BackoffElapses
<1>6. ASSUME NEW r \in Reports, DeleteGroup(r) PROVE SendersWait'
  BY <1>6 DEF DeleteGroup
<1>7. ASSUME NEW r \in Reports, DeleteModel(r) PROVE SendersWait'
  BY <1>7 DEF DeleteModel
<1>8. ASSUME NEW a \in Agents, LoadDue(a) PROVE SendersWait'
  BY <1>8 DEF LoadDue
<1>9. ASSUME NEW a \in Agents, SendItem(a) PROVE SendersWait'
  BY <1>9 DEF SendItem, Post
<1>10. ASSUME NEW a \in Agents, Ack(a) PROVE SendersWait'
  BY <1>10 DEF Ack, WorkerDone
<1>11. ASSUME NEW a \in Agents, Retry(a) PROVE SendersWait'
  BY <1>11 DEF Retry, WorkerDone
<1>12. ASSUME NEW a \in Agents, AgentCrash(a) PROVE SendersWait'
  BY <1>12 DEF AgentCrash, OfAgent, Running
<1>13. ASSUME NEW s \in Slots, ReplayApplies(s) PROVE SendersWait'
  BY <1>13, BusyCall DEF ReplayApplies, Advance, NextHop
<1>14. ASSUME NEW s \in Slots, UpstreamApplies(s) PROVE SendersWait'
  BY <1>14, BusyCall DEF UpstreamApplies, Advance, AfterCommit
<1>15. ASSUME NEW s \in Slots, ManagerActs(s) PROVE SendersWait'
  BY <1>15, BusyCall DEF ManagerActs, Advance
<1>16. ASSUME NEW s \in Slots, Reply(s) PROVE SendersWait'
  BY <1>16, BusyCall DEF Reply, Answer, Free
<1>17. ASSUME NEW s \in Slots, RejectOrphan(s) PROVE SendersWait'
  BY <1>17, BusyCall DEF RejectOrphan, Answer, Free
<1>18. ASSUME NEW s \in Slots, ServerFails(s) PROVE SendersWait'
  BY <1>18, BusyCall DEF ServerFails, Answer, Free
<1>19. ASSUME NEW s \in Slots, SenderGivesUp(s) PROVE SendersWait'
  BY <1>19, BusyCall DEF SenderGivesUp, Answer
<1>21. ASSUME NEW s \in Slots, ReadModel(s) PROVE SendersWait'
  <2>1. PICK stage \in {"known", "unknown"} : call' = [call EXCEPT ![s].stage = stage]
    BY <1>21 DEF ReadModel, Advance
  <2>2. call[s].stage # "idle" /\ UNCHANGED <<fwd, wpc, witem>>
    BY <1>21 DEF ReadModel
  <2>3. call \in [Slots -> Calls] /\ call[s] \in [stage : Stages, rep : Reports, owner : Owners]
    BY <2>2, BusyCall
  <2>4. \A t \in Slots : call'[t].owner = call[t].owner /\ call'[t].rep = call[t].rep
    BY <2>1, <2>3
  <2> QED
    BY <2>2, <2>4
<1>20. CASE UNCHANGED vars
  BY <1>20 DEF vars
<1> QED
  BY <1>1, <1>2, <1>3, <1>4, <1>5, <1>6, <1>7, <1>8, <1>9, <1>10, <1>11, <1>12, <1>13, <1>14, <1>15, <1>16, <1>17, <1>18, <1>19, <1>20, <1>21 DEF Step

LEMMA CallsRecordedStep == IInv /\ [Next]_vars => CallsRecorded'
<1> SUFFICES ASSUME IInv, Step \/ UNCHANGED vars PROVE CallsRecorded'
  BY StepOfNext
<1> USE ReportDeliveryAssumption
    DEF IInv, Typed, TypeOK, Calls, IdleCall, Stages, Owners, ForwarderStates,
        SendersWait, CallsRecorded,
        agentVars, outboxVars, ledgerVars, envVars
<1>1. ASSUME NEW r \in Reports, FinishReport(r) PROVE CallsRecorded'
  BY <1>1 DEF FinishReport
<1>2. ASSUME NEW r \in Reports, SendReport(r) PROVE CallsRecorded'
  BY <1>2 DEF SendReport, Post
<1>3. ASSUME NEW r \in Reports, Enqueue(r) PROVE CallsRecorded'
  BY <1>3 DEF Enqueue, Fault
<1>4. ASSUME NEW r \in Reports, ContextExpires(r) PROVE CallsRecorded'
  BY <1>4 DEF ContextExpires, Fault
<1>5. ASSUME NEW r \in Reports, BackoffElapses(r) PROVE CallsRecorded'
  BY <1>5 DEF BackoffElapses
<1>6. ASSUME NEW r \in Reports, DeleteGroup(r) PROVE CallsRecorded'
  BY <1>6 DEF DeleteGroup
<1>7. ASSUME NEW r \in Reports, DeleteModel(r) PROVE CallsRecorded'
  BY <1>7 DEF DeleteModel
<1>8. ASSUME NEW a \in Agents, LoadDue(a) PROVE CallsRecorded'
  BY <1>8 DEF LoadDue
<1>9. ASSUME NEW a \in Agents, SendItem(a) PROVE CallsRecorded'
  BY <1>9 DEF SendItem, Post
<1>10. ASSUME NEW a \in Agents, Ack(a) PROVE CallsRecorded'
  BY <1>10 DEF Ack, WorkerDone
<1>11. ASSUME NEW a \in Agents, Retry(a) PROVE CallsRecorded'
  BY <1>11 DEF Retry, WorkerDone
<1>12. ASSUME NEW a \in Agents, AgentCrash(a) PROVE CallsRecorded'
  BY <1>12 DEF AgentCrash, OfAgent, Running
<1>13. ASSUME NEW s \in Slots, ReplayApplies(s) PROVE CallsRecorded'
  BY <1>13, BusyCall DEF ReplayApplies, Advance, NextHop
<1>14. ASSUME NEW s \in Slots, UpstreamApplies(s) PROVE CallsRecorded'
  BY <1>14, BusyCall DEF UpstreamApplies, Advance, AfterCommit
<1>15. ASSUME NEW s \in Slots, ManagerActs(s) PROVE CallsRecorded'
  BY <1>15, BusyCall DEF ManagerActs, Advance
<1>16. ASSUME NEW s \in Slots, Reply(s) PROVE CallsRecorded'
  BY <1>16, BusyCall DEF Reply, Answer, Free
<1>17. ASSUME NEW s \in Slots, RejectOrphan(s) PROVE CallsRecorded'
  BY <1>17, BusyCall DEF RejectOrphan, Answer, Free
<1>18. ASSUME NEW s \in Slots, ServerFails(s) PROVE CallsRecorded'
  BY <1>18, BusyCall DEF ServerFails, Answer, Free
<1>19. ASSUME NEW s \in Slots, SenderGivesUp(s) PROVE CallsRecorded'
  BY <1>19, BusyCall DEF SenderGivesUp, Answer
<1>21. ASSUME NEW s \in Slots, ReadModel(s) PROVE CallsRecorded'
  BY <1>21, BusyCall DEF ReadModel, Advance, Fault
<1>20. CASE UNCHANGED vars
  BY <1>20 DEF vars
<1> QED
  BY <1>1, <1>2, <1>3, <1>4, <1>5, <1>6, <1>7, <1>8, <1>9, <1>10, <1>11, <1>12, <1>13, <1>14, <1>15, <1>16, <1>17, <1>18, <1>19, <1>20, <1>21 DEF Step

LEMMA EffectOnceStep == IInv /\ [Next]_vars => EffectOnce'
<1> SUFFICES ASSUME IInv, Step \/ UNCHANGED vars PROVE EffectOnce'
  BY StepOfNext
<1> USE ReportDeliveryAssumption
    DEF IInv, Typed, TypeOK, Calls, IdleCall, Stages, Owners, ForwarderStates,
        CallsRecorded, EffectOnce,
        agentVars, outboxVars, ledgerVars, envVars
<1>1. ASSUME NEW r \in Reports, FinishReport(r) PROVE EffectOnce'
  BY <1>1 DEF FinishReport
<1>2. ASSUME NEW r \in Reports, SendReport(r) PROVE EffectOnce'
  BY <1>2 DEF SendReport, Post
<1>3. ASSUME NEW r \in Reports, Enqueue(r) PROVE EffectOnce'
  BY <1>3 DEF Enqueue, Fault
<1>4. ASSUME NEW r \in Reports, ContextExpires(r) PROVE EffectOnce'
  BY <1>4 DEF ContextExpires, Fault
<1>5. ASSUME NEW r \in Reports, BackoffElapses(r) PROVE EffectOnce'
  BY <1>5 DEF BackoffElapses
<1>6. ASSUME NEW r \in Reports, DeleteGroup(r) PROVE EffectOnce'
  BY <1>6 DEF DeleteGroup
<1>7. ASSUME NEW r \in Reports, DeleteModel(r) PROVE EffectOnce'
  BY <1>7 DEF DeleteModel
<1>8. ASSUME NEW a \in Agents, LoadDue(a) PROVE EffectOnce'
  BY <1>8 DEF LoadDue
<1>9. ASSUME NEW a \in Agents, SendItem(a) PROVE EffectOnce'
  BY <1>9 DEF SendItem, Post
<1>10. ASSUME NEW a \in Agents, Ack(a) PROVE EffectOnce'
  BY <1>10 DEF Ack, WorkerDone
<1>11. ASSUME NEW a \in Agents, Retry(a) PROVE EffectOnce'
  BY <1>11 DEF Retry, WorkerDone
<1>12. ASSUME NEW a \in Agents, AgentCrash(a) PROVE EffectOnce'
  BY <1>12 DEF AgentCrash, OfAgent, Running
<1>13. ASSUME NEW s \in Slots, ReplayApplies(s) PROVE EffectOnce'
  BY <1>13, BusyCall DEF ReplayApplies, Advance, NextHop
<1>14. ASSUME NEW s \in Slots, UpstreamApplies(s) PROVE EffectOnce'
  BY <1>14, BusyCall DEF UpstreamApplies, Advance, AfterCommit
<1>15. ASSUME NEW s \in Slots, ManagerActs(s) PROVE EffectOnce'
  BY <1>15, BusyCall DEF ManagerActs, Advance
<1>16. ASSUME NEW s \in Slots, Reply(s) PROVE EffectOnce'
  BY <1>16, BusyCall DEF Reply, Answer, Free
<1>17. ASSUME NEW s \in Slots, RejectOrphan(s) PROVE EffectOnce'
  BY <1>17, BusyCall DEF RejectOrphan, Answer, Free
<1>18. ASSUME NEW s \in Slots, ServerFails(s) PROVE EffectOnce'
  BY <1>18, BusyCall DEF ServerFails, Answer, Free
<1>19. ASSUME NEW s \in Slots, SenderGivesUp(s) PROVE EffectOnce'
  BY <1>19, BusyCall DEF SenderGivesUp, Answer
<1>21. ASSUME NEW s \in Slots, ReadModel(s) PROVE EffectOnce'
  BY <1>21, BusyCall DEF ReadModel, Advance, Fault
<1>20. CASE UNCHANGED vars
  BY <1>20 DEF vars
<1> QED
  BY <1>1, <1>2, <1>3, <1>4, <1>5, <1>6, <1>7, <1>8, <1>9, <1>10, <1>11, <1>12, <1>13, <1>14, <1>15, <1>16, <1>17, <1>18, <1>19, <1>20, <1>21 DEF Step

LEMMA ForgottenOnlyIfRecordedStep == IInv /\ [Next]_vars => ForgottenOnlyIfRecorded'
<1> SUFFICES ASSUME IInv, Step \/ UNCHANGED vars PROVE ForgottenOnlyIfRecorded'
  BY StepOfNext
<1> USE ReportDeliveryAssumption
    DEF IInv, Typed, TypeOK, Calls, IdleCall, Stages, Owners, ForwarderStates,
        SendersWait, CallsRecorded, ForgottenOnlyIfRecorded, Settled,
        agentVars, outboxVars, ledgerVars, envVars
<1>1. ASSUME NEW r \in Reports, FinishReport(r) PROVE ForgottenOnlyIfRecorded'
  BY <1>1 DEF FinishReport
<1>2. ASSUME NEW r \in Reports, SendReport(r) PROVE ForgottenOnlyIfRecorded'
  BY <1>2 DEF SendReport, Post
<1>3. ASSUME NEW r \in Reports, Enqueue(r) PROVE ForgottenOnlyIfRecorded'
  BY <1>3 DEF Enqueue, Fault
<1>4. ASSUME NEW r \in Reports, ContextExpires(r) PROVE ForgottenOnlyIfRecorded'
  BY <1>4 DEF ContextExpires, Fault
<1>5. ASSUME NEW r \in Reports, BackoffElapses(r) PROVE ForgottenOnlyIfRecorded'
  BY <1>5 DEF BackoffElapses
<1>6. ASSUME NEW r \in Reports, DeleteGroup(r) PROVE ForgottenOnlyIfRecorded'
  BY <1>6 DEF DeleteGroup
<1>7. ASSUME NEW r \in Reports, DeleteModel(r) PROVE ForgottenOnlyIfRecorded'
  BY <1>7 DEF DeleteModel
<1>8. ASSUME NEW a \in Agents, LoadDue(a) PROVE ForgottenOnlyIfRecorded'
  BY <1>8 DEF LoadDue
<1>9. ASSUME NEW a \in Agents, SendItem(a) PROVE ForgottenOnlyIfRecorded'
  BY <1>9 DEF SendItem, Post
<1>10. ASSUME NEW a \in Agents, Ack(a) PROVE ForgottenOnlyIfRecorded'
  BY <1>10 DEF Ack, WorkerDone
<1>11. ASSUME NEW a \in Agents, Retry(a) PROVE ForgottenOnlyIfRecorded'
  BY <1>11 DEF Retry, WorkerDone
<1>12. ASSUME NEW a \in Agents, AgentCrash(a) PROVE ForgottenOnlyIfRecorded'
  BY <1>12 DEF AgentCrash, OfAgent, Running
<1>13. ASSUME NEW s \in Slots, ReplayApplies(s) PROVE ForgottenOnlyIfRecorded'
  BY <1>13, BusyCall DEF ReplayApplies, Advance, NextHop
<1>14. ASSUME NEW s \in Slots, UpstreamApplies(s) PROVE ForgottenOnlyIfRecorded'
  BY <1>14, BusyCall DEF UpstreamApplies, Advance, AfterCommit
<1>15. ASSUME NEW s \in Slots, ManagerActs(s) PROVE ForgottenOnlyIfRecorded'
  BY <1>15, BusyCall DEF ManagerActs, Advance
<1>16. ASSUME NEW s \in Slots, Reply(s) PROVE ForgottenOnlyIfRecorded'
  BY <1>16, BusyCall DEF Reply, Answer, Free
<1>17. ASSUME NEW s \in Slots, RejectOrphan(s) PROVE ForgottenOnlyIfRecorded'
  BY <1>17, BusyCall DEF RejectOrphan, Answer, Free
<1>18. ASSUME NEW s \in Slots, ServerFails(s) PROVE ForgottenOnlyIfRecorded'
  BY <1>18, BusyCall DEF ServerFails, Answer, Free
<1>19. ASSUME NEW s \in Slots, SenderGivesUp(s) PROVE ForgottenOnlyIfRecorded'
  BY <1>19, BusyCall DEF SenderGivesUp, Answer
<1>21. ASSUME NEW s \in Slots, ReadModel(s) PROVE ForgottenOnlyIfRecorded'
  BY <1>21, BusyCall DEF ReadModel, Advance, Fault
<1>20. CASE UNCHANGED vars
  BY <1>20 DEF vars
<1> QED
  BY <1>1, <1>2, <1>3, <1>4, <1>5, <1>6, <1>7, <1>8, <1>9, <1>10, <1>11, <1>12, <1>13, <1>14, <1>15, <1>16, <1>17, <1>18, <1>19, <1>20, <1>21 DEF Step

LEMMA EffectAccountedForStep == IInv /\ [Next]_vars => EffectAccountedFor'
<1> SUFFICES ASSUME IInv, Step \/ UNCHANGED vars PROVE EffectAccountedFor'
  BY StepOfNext
<1> USE ReportDeliveryAssumption
    DEF IInv, Typed, TypeOK, Calls, IdleCall, Stages, Owners, ForwarderStates,
        CallsRecorded, EffectOnce, EffectAccountedFor,
        agentVars, outboxVars, ledgerVars, envVars
<1>1. ASSUME NEW r \in Reports, FinishReport(r) PROVE EffectAccountedFor'
  BY <1>1 DEF FinishReport
<1>2. ASSUME NEW r \in Reports, SendReport(r) PROVE EffectAccountedFor'
  BY <1>2 DEF SendReport, Post
<1>3. ASSUME NEW r \in Reports, Enqueue(r) PROVE EffectAccountedFor'
  BY <1>3 DEF Enqueue, Fault
<1>4. ASSUME NEW r \in Reports, ContextExpires(r) PROVE EffectAccountedFor'
  BY <1>4 DEF ContextExpires, Fault
<1>5. ASSUME NEW r \in Reports, BackoffElapses(r) PROVE EffectAccountedFor'
  BY <1>5 DEF BackoffElapses
<1>6. ASSUME NEW r \in Reports, DeleteGroup(r) PROVE EffectAccountedFor'
  BY <1>6 DEF DeleteGroup
<1>7. ASSUME NEW r \in Reports, DeleteModel(r) PROVE EffectAccountedFor'
  BY <1>7 DEF DeleteModel
<1>8. ASSUME NEW a \in Agents, LoadDue(a) PROVE EffectAccountedFor'
  BY <1>8 DEF LoadDue
<1>9. ASSUME NEW a \in Agents, SendItem(a) PROVE EffectAccountedFor'
  BY <1>9 DEF SendItem, Post
<1>10. ASSUME NEW a \in Agents, Ack(a) PROVE EffectAccountedFor'
  BY <1>10 DEF Ack, WorkerDone
<1>11. ASSUME NEW a \in Agents, Retry(a) PROVE EffectAccountedFor'
  BY <1>11 DEF Retry, WorkerDone
<1>12. ASSUME NEW a \in Agents, AgentCrash(a) PROVE EffectAccountedFor'
  BY <1>12 DEF AgentCrash, OfAgent, Running
<1>13. ASSUME NEW s \in Slots, ReplayApplies(s) PROVE EffectAccountedFor'
  BY <1>13, BusyCall DEF ReplayApplies, Advance, NextHop
<1>14. ASSUME NEW s \in Slots, UpstreamApplies(s) PROVE EffectAccountedFor'
  BY <1>14, BusyCall DEF UpstreamApplies, Advance, AfterCommit
<1>15. ASSUME NEW s \in Slots, ManagerActs(s) PROVE EffectAccountedFor'
  BY <1>15, BusyCall DEF ManagerActs, Advance
<1>16. ASSUME NEW s \in Slots, Reply(s) PROVE EffectAccountedFor'
  BY <1>16, BusyCall DEF Reply, Answer, Free
<1>17. ASSUME NEW s \in Slots, RejectOrphan(s) PROVE EffectAccountedFor'
  BY <1>17, BusyCall DEF RejectOrphan, Answer, Free
<1>18. ASSUME NEW s \in Slots, ServerFails(s) PROVE EffectAccountedFor'
  BY <1>18, BusyCall DEF ServerFails, Answer, Free
<1>19. ASSUME NEW s \in Slots, SenderGivesUp(s) PROVE EffectAccountedFor'
  BY <1>19, BusyCall DEF SenderGivesUp, Answer
<1>21. ASSUME NEW s \in Slots, ReadModel(s) PROVE EffectAccountedFor'
  BY <1>21, BusyCall DEF ReadModel, Advance, Fault
<1>20. CASE UNCHANGED vars
  BY <1>20 DEF vars
<1> QED
  BY <1>1, <1>2, <1>3, <1>4, <1>5, <1>6, <1>7, <1>8, <1>9, <1>10, <1>11, <1>12, <1>13, <1>14, <1>15, <1>16, <1>17, <1>18, <1>19, <1>20, <1>21 DEF Step

LEMMA IInvStep == IInv /\ [Next]_vars => IInv'
  BY TypedStep, SendersWaitStep, CallsRecordedStep, EffectOnceStep,
     ForgottenOnlyIfRecordedStep, EffectAccountedForStep DEF IInv

LEMMA Invariance == Spec => []IInv
  BY IInvInit, IInvStep, PTL DEF Spec

(* The account manager acts on a report at most once. *)
THEOREM ActedOnce == Spec => []ActedOnAtMostOnce
<1>1. IInv => ActedOnAtMostOnce
  <2> SUFFICES ASSUME IInv, NEW r \in Reports PROVE effects[r] <= 1
    BY DEF ActedOnAtMostOnce
  <2>1. effects[r] = 0 \/ effects[r] = 1
    BY DEF IInv, EffectOnce
  <2> QED
    BY <2>1
<1> QED
  BY <1>1, Invariance, PTL

(* The Agent forgets a report only once both services have recorded it. *)
THEOREM NothingForgotten == Spec => []ForgottenOnlyIfRecorded
<1>1. IInv => ForgottenOnlyIfRecorded
  BY DEF IInv
<1> QED
  BY <1>1, Invariance, PTL

(* A recorded report has its effect once, unless Upstream died after the   *)
(* commit or had recorded it without knowing its model; then it has none.  *)
THEOREM EffectsAccounted == Spec => []EffectAccountedFor
<1>1. IInv => EffectAccountedFor
  BY DEF IInv
<1> QED
  BY <1>1, Invariance, PTL
-----------------------------------------------------------------------------
(* Refinement: what each step of the services is in the ledger. *)

LEMMA LedgerInit == Init => Ledger!Init
  BY DEF Init, Ledger!Init, Settled

LEMMA GiveUpIsNext ==
  ASSUME NEW G \in SUBSET Reports, Ledger!GiveUp(G) PROVE Ledger!Next
  BY DEF Ledger!Next

LEMMA LedgerStep == IInv /\ [Next]_vars => [Ledger!Next]_(Ledger!vars)
<1> SUFFICES ASSUME IInv, Step \/ UNCHANGED vars
             PROVE  Ledger!Next \/ UNCHANGED Ledger!vars
  BY StepOfNext
<1> USE ReportDeliveryAssumption
    DEF IInv, Typed, TypeOK, Calls, IdleCall, Stages, Owners, ForwarderStates,
        SendersWait, CallsRecorded, Settled, Ledger!vars,
        agentVars, outboxVars, ledgerVars, envVars
<1>1. ASSUME NEW r \in Reports, FinishReport(r) PROVE UNCHANGED Ledger!vars
  BY <1>1 DEF FinishReport
<1>2. ASSUME NEW r \in Reports, SendReport(r) PROVE UNCHANGED Ledger!vars
  BY <1>2 DEF SendReport
<1>3. ASSUME NEW r \in Reports, ContextExpires(r) PROVE UNCHANGED Ledger!vars
  BY <1>3 DEF ContextExpires
<1>4. ASSUME NEW r \in Reports, Enqueue(r)
      PROVE  UNCHANGED Ledger!vars \/ Ledger!GiveUp({r})
  BY <1>4 DEF Enqueue, Fault, Ledger!GiveUp
<1>5. ASSUME NEW r \in Reports, BackoffElapses(r) \/ DeleteGroup(r) \/ DeleteModel(r)
      PROVE  UNCHANGED Ledger!vars
  BY <1>5 DEF BackoffElapses, DeleteGroup, DeleteModel
<1>6. ASSUME NEW a \in Agents, LoadDue(a) \/ SendItem(a) \/ Retry(a)
      PROVE  UNCHANGED Ledger!vars
  BY <1>6 DEF LoadDue, SendItem, Retry, WorkerDone
<1>7. ASSUME NEW a \in Agents, Ack(a)
      PROVE  UNCHANGED Ledger!vars \/ Ledger!Settle(witem[a])
  BY <1>7 DEF Ack, WorkerDone, Ledger!Settle
<1>8. ASSUME NEW a \in Agents, AgentCrash(a) PROVE Ledger!Next
  <2>1. PICK G \in SUBSET Reports :
          G = {r \in Reports : Home[r] = a /\ fwd[r] \in Running}
    OBVIOUS
  <2>2. Ledger!GiveUp(G)
    BY <1>8, <2>1 DEF AgentCrash, Running, Ledger!GiveUp
  <2> QED
    BY <2>2, GiveUpIsNext
<1>9. ASSUME NEW s \in Slots, ReplayApplies(s) \/ ReadModel(s) PROVE UNCHANGED Ledger!vars
  BY <1>9 DEF ReplayApplies, ReadModel
<1>10. ASSUME NEW s \in Slots, UpstreamApplies(s)
       PROVE  UNCHANGED Ledger!vars \/ Ledger!Record(call[s].rep)
  BY <1>10, BusyCall DEF UpstreamApplies, Ledger!Record
<1>11. ASSUME NEW s \in Slots, ManagerActs(s) PROVE Ledger!ActOn(call[s].rep)
  <2>1. call[s].stage # "idle" /\ call[s].rep \in Reports
    BY <1>11, BusyCall DEF ManagerActs
  <2>2. call[s].rep \in upLedger /\ effects[call[s].rep] = 0
    BY <1>11 DEF ManagerActs, EffectOnce
  <2>3. effects' = [effects EXCEPT ![call[s].rep] = 1]
    BY <1>11, <2>1, <2>2 DEF ManagerActs
  <2> QED
    BY <1>11, <2>2, <2>3 DEF ManagerActs, Ledger!ActOn
<1>12. ASSUME NEW s \in Slots, Reply(s)
       PROVE  UNCHANGED Ledger!vars \/ Ledger!Settle(call[s].rep)
  BY <1>12, BusyCall DEF Reply, Answer, Ledger!Settle
<1>13. ASSUME NEW s \in Slots, RejectOrphan(s) \/ ServerFails(s) \/ SenderGivesUp(s)
       PROVE  UNCHANGED Ledger!vars
  BY <1>13, BusyCall DEF RejectOrphan, ServerFails, SenderGivesUp, Answer
<1>14. CASE UNCHANGED vars
  BY <1>14 DEF vars
<1>15. ASSUME NEW r \in Reports, Ledger!Record(r) \/ Ledger!ActOn(r) \/ Ledger!Settle(r)
       PROVE  Ledger!Next
  BY <1>15 DEF Ledger!Next
<1>17. ASSUME NEW s \in Slots,
              UpstreamApplies(s) \/ ManagerActs(s) \/ Reply(s)
       PROVE  call[s].rep \in Reports
  BY <1>17, BusyCall DEF UpstreamApplies, ManagerActs, Reply
<1>18. ASSUME NEW a \in Agents, Ack(a) PROVE witem[a] \in Reports
  <2>1. witem[a] \in upLedger
    BY <1>18 DEF Ack
  <2> QED
    BY <2>1
<1> HIDE DEF IInv, Typed, TypeOK, Calls, IdleCall, Stages, Owners, ForwarderStates,
        SendersWait, CallsRecorded, Settled, Ledger!vars,
        agentVars, outboxVars, ledgerVars, envVars
<1>19. ASSUME NEW r \in Reports,
              \/ FinishReport(r) \/ SendReport(r) \/ Enqueue(r) \/ ContextExpires(r)
              \/ BackoffElapses(r) \/ DeleteGroup(r) \/ DeleteModel(r)
       PROVE  Ledger!Next \/ UNCHANGED Ledger!vars
  BY <1>19, <1>1, <1>2, <1>3, <1>4, <1>5, GiveUpIsNext
<1>20. ASSUME NEW a \in Agents,
              LoadDue(a) \/ SendItem(a) \/ Ack(a) \/ Retry(a) \/ AgentCrash(a)
       PROVE  Ledger!Next \/ UNCHANGED Ledger!vars
  BY <1>20, <1>6, <1>7, <1>8, <1>15, <1>18
<1>21. ASSUME NEW s \in Slots,
              \/ ReplayApplies(s) \/ ReadModel(s) \/ UpstreamApplies(s) \/ ManagerActs(s)
              \/ Reply(s) \/ RejectOrphan(s) \/ ServerFails(s) \/ SenderGivesUp(s)
       PROVE  Ledger!Next \/ UNCHANGED Ledger!vars
  BY <1>21, <1>9, <1>10, <1>11, <1>12, <1>13, <1>15, <1>17
<1> QED
  BY <1>14, <1>19, <1>20, <1>21 DEF Step

(* The Agent, Replay and Upstream together implement ReportLedger. *)
THEOREM ImplementsLedger == Spec => LedgerSpec
<1>1. Spec => Ledger!Init /\ [][Ledger!Next]_(Ledger!vars)
  BY LedgerInit, LedgerStep, Invariance, PTL DEF Spec
<1> QED
  BY <1>1 DEF LedgerSpec, Ledger!Spec
=============================================================================
