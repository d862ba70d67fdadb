------------------------------ MODULE Forward ------------------------------
(***************************************************************************)
(* The forwarding loop of the Agent for one client request                 *)
(* (agent/relay/forward.go, forwardRemote): dispatch, attempt, report,     *)
(* then retry, switch or stop, until the client has an answer. Two ways of *)
(* saving a request that exceeds every context window are part of it:      *)
(*   tier 1, for a request that asks for a compaction: it is sent once     *)
(*           more, to the compress model of its group;                     *)
(*   tier 2, for any other request: the compress model summarises the old  *)
(*           part of the history, and the shortened request starts over.   *)
(*                                                                         *)
(* Replay's scheduler is the environment here: it leases any target of the *)
(* model that was not tried, or fails. So are the upstreams and the        *)
(* client, who may leave at any time. Requests share no state in the       *)
(* Agent, so that one request is all there is to model.                    *)
(***************************************************************************)
EXTENDS Integers, FiniteSets

CONSTANTS
  Targets,      \* upstream models
  Serves,       \* Serves[m]: the targets in the schedule group of model m
  Unusable,     \* targets whose protocol resolvedCandidate rejects
  SameAccountRetries,  \* the configured retries of one account
  Headers,      \* whitelisted response headers
  Sends,        \* Sends[t]: the headers target t sets on a 2xx response
  Timeouts,     \* the timeouts that are configured; one set to 0 is off
  None

Models == {"orig", "compress"}

ASSUME ForwardAssumption ==
  /\ IsFiniteSet(Targets)
  /\ Serves \in [Models -> SUBSET Targets]
  /\ Unusable \subseteq Targets
  /\ SameAccountRetries \in Nat
  /\ Sends \in [Targets -> SUBSET Headers]
  /\ Timeouts \subseteq {"control", "first_token"}
  /\ None \notin Targets

(* What an attempt may fail with, before the first byte: a context-window  *)
(* error, 429, 402, an error marked retryable, any other error.            *)
AttemptErrors == {"context", "limited", "broke", "retryable", "fatal"}

(* What a dispatch may fail with: the codes of Replay, and "unreachable"   *)
(* for an error that is no replayv1.Error.                                 *)
DispatchErrors ==
  {"not_found", "unauthorized", "invalid_request", "context_too_large",
   "target_unavailable", "unreachable"}

Errors == AttemptErrors \cup DispatchErrors \cup {"invalid_target"}

(* Errors a dispatch returns after it has authenticated the client; they   *)
(* carry the compress model of the group, when it has one.                 *)
AuthenticatedErrors == {"invalid_request", "context_too_large", "target_unavailable"}

VARIABLES
  pc,
  compact,       \* req.Compact: the client asks for a compaction
  split,         \* the K for which SplitForCompact finds old history
  gone,          \* the client has disconnected
  model,         \* req.Model
  tried,         \* targets not to be leased again
  attempts,      \* attempts[t]
  lastErr,       \* the last failure, None if there was none
  compressModel, \* the compress model is known
  fallback,      \* tier 1 was used: compactOf # "" and compactRetried
  auto,          \* autoCompactState of tier 2
  ctried,        \* tried of runCompactCall
  pending,       \* the failure tier 2 is to save the request from
  lease,         \* target of the current attempt
  outcome,       \* how the attempt ended
  mark,          \* the response carries X-ModelSurge-Compacted
  copied,        \* copied[h]: the target whose value header h holds
  answer,        \* what the client was answered
  answers,       \* how many times an answer was begun
  spent,         \* history: upstream calls made for this request
  refused        \* history: a dispatch answered that the key is not valid

loopVars == <<model, tried, attempts, lastErr, compressModel, fallback>>
autoVars == <<auto, ctried, pending>>
tryVars == <<lease, outcome, copied>>
answerVars == <<answer, answers>>
histVars == <<spent, refused>>
inputVars == <<compact, split>>
vars == <<pc, inputVars, gone, loopVars, autoVars, tryVars, mark, answerVars, histVars>>

Fresh == [t \in Targets |-> 0]

Init ==
  /\ pc = "loop"
  /\ compact \in BOOLEAN
  /\ split \in SUBSET {0, 2}
  /\ gone = FALSE
  /\ model = "orig"
  /\ tried = {} /\ attempts = Fresh
  /\ lastErr = None
  /\ compressModel = FALSE
  /\ fallback = FALSE
  /\ auto = [src |-> FALSE, k |-> 0, calls |-> 0, header |-> FALSE]
  /\ ctried = {} /\ pending = None
  /\ lease = None /\ outcome = None
  /\ mark = FALSE
  /\ copied = [h \in Headers |-> None]
  /\ answer = [kind |-> "none", err |-> None, by |-> None]
  /\ answers = 0
  /\ spent = 0 /\ refused = FALSE
-----------------------------------------------------------------------------
(* Helpers of the actions. Each names the next pc. *)

(* writeClientError, and the return that follows it. *)
AnswerError(e) ==
  /\ answer' = [kind |-> "error", err |-> e, by |-> None]
  /\ answers' = answers + 1
  /\ pc' = "done"

(* Tier 1: the request is sent again, to the compress model. *)
FallBack ==
  /\ fallback' = TRUE
  /\ model' = "compress"
  /\ tried' = {} /\ attempts' = Fresh
  /\ pc' = "loop"
  /\ UNCHANGED <<autoVars, answerVars>>

(* The part of tryAutoCompact before its call: K is 2 in the first round,  *)
(* 0 in the second, and there is no third.                                  *)
BudgetLeft == ~auto.src \/ (auto.calls < 2 /\ auto.k # 0)
NextK == IF auto.src THEN 0 ELSE 2

(* Tier 2, entered because of failure e: runCompactCall is next, or the    *)
(* request fails with e.                                                   *)
TryAutoCompact(e) ==
  /\ UNCHANGED <<model, tried, attempts, fallback>>
  /\ \/ /\ BudgetLeft /\ NextK \in split
        /\ auto' = [auto EXCEPT !.src = TRUE, !.k = NextK, !.calls = @ + 1]
        /\ ctried' = {} /\ pending' = e
        /\ pc' = "auto"
        /\ UNCHANGED answerVars
     \/ /\ ~(BudgetLeft /\ NextK \in split)
        /\ AnswerError(e)
        /\ UNCHANGED autoVars

UsableTier1 == compact /\ ~fallback /\ compressModel'
UsableTier2 == ~compact /\ ~fallback /\ compressModel'

(* modelUnavailableDispatch                                                *)
ModelUnavailable(e) == e \in {"target_unavailable", "context_too_large"}
-----------------------------------------------------------------------------
(* The environment: the client hangs up. *)
ClientLeaves ==
  /\ ~gone /\ pc # "done"
  /\ gone' = TRUE
  /\ UNCHANGED <<pc, inputVars, loopVars, autoVars, tryVars, mark, answerVars, histVars>>

(* The top of the loop. *)
LeaveLoop ==
  /\ pc = "loop" /\ gone
  /\ pc' = "done"
  /\ UNCHANGED <<inputVars, gone, loopVars, autoVars, tryVars, mark, answerVars, histVars>>

Dispatch ==
  /\ pc = "loop" /\ ~gone
  /\ pc' = "asked"
  /\ UNCHANGED <<inputVars, gone, loopVars, autoVars, tryVars, mark, answerVars, histVars>>

(* A target the Agent cannot speak to is not asked for again; SkipNothing  *)
(* is the loop that forgets it.                                            *)
SkipNothing(t) == tried
SkipUnusable(t) == tried \cup {t}

(* Replay leases a target, and may name the compress model. The marker is  *)
(* set just before the attempt.                                            *)
GetLease(t) ==
  /\ pc = "asked"
  /\ t \in Serves[model] \ tried
  /\ compressModel' \in {compressModel, TRUE}
  /\ \/ /\ t \in Unusable
        /\ tried' = SkipUnusable(t)
        /\ lastErr' = "invalid_target"
        /\ pc' = "loop"
        /\ UNCHANGED <<lease, outcome, mark>>
     \/ /\ t \notin Unusable
        /\ lease' = t /\ outcome' = None
        /\ mark' = (mark \/ auto.header)
        /\ pc' = "leased"
        /\ UNCHANGED <<tried, lastErr>>
  /\ UNCHANGED <<inputVars, gone, model, attempts, fallback, autoVars, copied, answerVars,
                 spent, refused>>

(* The failure tier 1 keeps for the case that there is no compress model   *)
(* to be found; LastAttemptFailure keeps only what an attempt ended with.  *)
LastAttemptFailure(e) == lastErr
OriginalFailure(e) == e

(* Replay's answer, or the call itself, is an error. The key is checked    *)
(* only when the dispatch is not for a compression.                        *)
DispatchFails(e) ==
  /\ pc = "asked"
  /\ e = "unauthorized" => ~fallback
  /\ compressModel' \in {compressModel, compressModel \/ e \in AuthenticatedErrors}
  /\ refused' = (refused \/ e = "unauthorized")
  /\ LET tier1 == UsableTier1 /\ ModelUnavailable(e)
         tier2 == UsableTier2 /\ e = "context_too_large"
     IN \/ /\ fallback
           /\ AnswerError(IF e = "not_found" THEN lastErr ELSE e)
           /\ UNCHANGED <<model, tried, attempts, lastErr, fallback, autoVars>>
        \/ /\ tier1
           /\ lastErr' = OriginalFailure(e)
           /\ FallBack
        \/ /\ tier2
           /\ TryAutoCompact(e)
           /\ UNCHANGED lastErr
        \/ /\ ~fallback /\ ~tier1 /\ ~tier2
           /\ lastErr' = IF lastErr = None THEN e ELSE lastErr
           /\ AnswerError(lastErr')
           /\ UNCHANGED <<model, tried, attempts, fallback, autoVars>>
  /\ UNCHANGED <<inputVars, gone, tryVars, mark, spent>>
-----------------------------------------------------------------------------
(* One attempt. Until the first byte of the answer any failure is the      *)
(* attempt's; from then on the target is locked in.                        *)

(* The upstream cannot be reached or answers with a status outside 2xx. *)
UpstreamRefuses(k) ==
  /\ pc = "leased"
  /\ outcome' = k
  /\ pc' = "report"
  /\ spent' = spent + 1
  /\ UNCHANGED <<inputVars, gone, loopVars, autoVars, lease, copied, mark, answerVars,
                 refused>>

(* The client was gone while the upstream was called: attempt returns as   *)
(* if the response had been written.                                       *)
ClientGoneMidCall ==
  /\ pc = "leased" /\ gone
  /\ outcome' = "gone"
  /\ pc' = "report"
  /\ spent' = spent + 1
  /\ UNCHANGED <<inputVars, gone, loopVars, autoVars, lease, copied, mark, answerVars,
                 refused>>

(* forwardUpstreamHeaders replaces the headers this target sends, and      *)
(* leaves the others as an earlier attempt set them.                       *)
CopyHeaders(t) == [h \in Headers |-> IF h \in Sends[t] THEN t ELSE copied[h]]

(* What comes is a stream, whose first event is awaited, or one document.  *)
UpstreamAccepts ==
  /\ pc = "leased"
  /\ copied' = CopyHeaders(lease)
  /\ pc' \in {"accepted", "reading"}
  /\ spent' = spent + 1
  /\ UNCHANGED <<inputVars, gone, loopVars, autoVars, lease, outcome, mark, answerVars,
                 refused>>

(* The first event of a stream that is aggregated for the client: the rest *)
(* is read to its end before anything is written.                          *)
Collect ==
  /\ pc = "accepted"
  /\ pc' = "reading"
  /\ UNCHANGED <<inputVars, gone, loopVars, autoVars, tryVars, mark, answerVars, histVars>>

(* No first event in time, an event that cannot be decoded, a stream that  *)
(* cannot be aggregated, a document that cannot be read: nothing was       *)
(* written yet.                                                            *)
FailsBeforeFirstByte(k) ==
  /\ pc \in {"accepted", "reading"}
  /\ outcome' = k
  /\ pc' = "report"
  /\ UNCHANGED <<inputVars, gone, loopVars, autoVars, lease, copied, mark, answerVars, histVars>>

FirstByte ==
  /\ pc \in {"accepted", "reading"}
  /\ answer' = [kind |-> "response", err |-> None, by |-> lease]
  /\ answers' = answers + 1
  /\ pc' = "writing"
  /\ UNCHANGED <<inputVars, gone, loopVars, autoVars, tryVars, mark, histVars>>

(* What a response that was begun counts as when the upstream breaks it    *)
(* off: it was served. BrokenIsFailure sends it through failover instead.  *)
BrokenIsFailure == "retryable"
BrokenCountsAs == "served"

(* The response ends: complete, broken off by the upstream, or unread. *)
ResponseEnds ==
  /\ pc = "writing"
  /\ outcome' \in {"served", BrokenCountsAs}
  /\ pc' = "report"
  /\ UNCHANGED <<inputVars, gone, loopVars, autoVars, lease, copied, mark, answerVars, histVars>>
-----------------------------------------------------------------------------
(* finishReport, and what the loop makes of the action it returns. *)

(* Upstream.Report's action for a target the Agent can attempt, that is, a *)
(* target without kiro's special cases; "stop" for a deleted model.        *)
UpstreamActions(k, n) ==
  {"stop"} \cup
  {CASE k = "context" -> "stop"
     [] k = "limited" -> "switch_target"
     [] k \notin {"context", "limited"} /\ n = 0 -> "retry_target"
     [] k \notin {"context", "limited"} /\ n # 0 -> "switch_target"}

(* localResultAction, when the report did not reach Upstream.              *)
LocalAction(k, n) ==
  CASE k \in {"context", "fatal"} -> "stop"
    [] k \in {"limited", "broke"} -> "switch_target"
    [] k = "retryable" /\ n < SameAccountRetries -> "retry_target"
    [] k = "retryable" /\ n >= SameAccountRetries -> "switch_target"

Actions(k, n) == UpstreamActions(k, n) \cup {LocalAction(k, n)}

(* An attempt that wrote, or whose client left, ends the request. *)
Conclude ==
  /\ pc = "report" /\ outcome \in {"served", "gone"}
  /\ pc' = "done"
  /\ UNCHANGED <<inputVars, gone, loopVars, autoVars, tryVars, mark, answerVars, histVars>>

(* attempts[target] = attempt + 1; CountNothing is the loop without it. *)
CountNothing(t) == attempts
Count(t) == [attempts EXCEPT ![t] = @ + 1]

(* w.Header().Del(headerCompacted); KeepMark is the loop without it. *)
KeepMark == mark
WithdrawMark == FALSE

(* What every failed attempt does, whatever the action. *)
Failed ==
  /\ pc = "report" /\ outcome \in AttemptErrors
  /\ mark' = WithdrawMark
  /\ lastErr' = outcome
  /\ lease' = None /\ outcome' = None
  /\ UNCHANGED <<inputVars, gone, compressModel, copied, spent, refused>>

RetryTarget ==
  /\ Failed
  /\ "retry_target" \in Actions(outcome, attempts[lease])
  /\ attempts' = Count(lease)
  /\ pc' = "loop"
  /\ UNCHANGED <<model, tried, fallback, autoVars, answerVars>>

SwitchTarget ==
  /\ Failed
  /\ "switch_target" \in Actions(outcome, attempts[lease])
  /\ attempts' = Count(lease)
  /\ tried' = tried \cup {lease}
  /\ pc' = "loop"
  /\ UNCHANGED <<model, fallback, autoVars, answerVars>>

(* The local counts are not read again, unless they start afresh. *)
Stop ==
  /\ Failed
  /\ "stop" \in Actions(outcome, attempts[lease])
  /\ LET tier1 == UsableTier1 /\ outcome = "context"
         tier2 == UsableTier2 /\ outcome = "context"
     IN \/ tier1 /\ FallBack
        \/ tier2 /\ TryAutoCompact(outcome)
        \/ /\ ~tier1 /\ ~tier2
           /\ AnswerError(outcome)
           /\ UNCHANGED <<model, tried, attempts, fallback, autoVars>>
-----------------------------------------------------------------------------
(* runCompactCall. Its result, TryAutoCompact's, decides whether the       *)
(* shortened request starts over or the pending failure is answered.       *)

SaveFailed ==
  /\ AnswerError(pending)
  /\ UNCHANGED <<inputVars, gone, loopVars, autoVars, tryVars, mark, histVars>>

(* The client left, or no target of the compress model can be leased. *)
CompactCallEnds == pc = "auto" /\ SaveFailed

(* A target whose protocol the Agent does not speak, or one that fails:    *)
(* any failure, a context-window error too, moves on to the next target.   *)
CompactAttemptFails(t) ==
  /\ pc = "auto" /\ ~gone
  /\ t \in Serves["compress"] \ ctried
  /\ ctried' = ctried \cup {t}
  /\ spent' = IF t \in Unusable THEN spent ELSE spent + 1
  /\ UNCHANGED <<pc, inputVars, gone, loopVars, auto, pending, tryVars, mark, answerVars,
                 refused>>

(* The summary replaces the old history, and the request starts over. *)
StartOver == tried' = {} /\ attempts' = Fresh

Summarised(t) ==
  /\ pc = "auto" /\ ~gone
  /\ t \in (Serves["compress"] \ ctried) \ Unusable
  /\ auto' = [auto EXCEPT !.header = TRUE]
  /\ spent' = spent + 1
  /\ StartOver
  /\ ctried' = {} /\ pending' = None
  /\ pc' = "loop"
  /\ UNCHANGED <<inputVars, gone, model, lastErr, compressModel, fallback, tryVars,
                 mark, answerVars, refused>>
-----------------------------------------------------------------------------
(* The request is over; the next one starts from Init. *)
Terminated == pc = "done" /\ UNCHANGED vars

Loop ==
  \/ LeaveLoop \/ Dispatch \/ Conclude
  \/ \E t \in Targets : GetLease(t)
  \/ \E e \in DispatchErrors : DispatchFails(e)
  \/ \E k \in AttemptErrors : UpstreamRefuses(k) \/ FailsBeforeFirstByte(k)
  \/ ClientGoneMidCall \/ UpstreamAccepts \/ Collect \/ FirstByte \/ ResponseEnds
  \/ RetryTarget \/ SwitchTarget \/ Stop
  \/ CompactCallEnds
  \/ \E t \in Targets : CompactAttemptFails(t) \/ Summarised(t)

Next == Loop \/ ClientLeaves \/ Terminated

Spec == Init /\ [][Next]_vars

(* The waits nothing but the other side ends: the call to the upstream up  *)
(* to its headers (the http.Client has no timeout), the body once it has   *)
(* begun, those of the summary, and what a timeout of 0 leaves open.  All  *)
(* of them carry the client's context and end when the client leaves.      *)
LeftToTheOtherSide ==
  /\ ~gone
  /\ \/ pc \in {"leased", "reading", "writing", "auto"}
     \/ pc = "accepted" /\ "first_token" \notin Timeouts
     \/ pc = "asked" /\ "control" \notin Timeouts

(* All other steps are the Agent's own, or have a deadline. Nothing makes  *)
(* an upstream speak, or the client leave.                                 *)
FairSpec == Spec /\ WF_vars(~LeftToTheOtherSide /\ Loop)
-----------------------------------------------------------------------------
(* Properties. *)

(* How often one target is attempted before it is switched away from. *)
MaxAttempts == IF SameAccountRetries > 1 THEN SameAccountRetries + 1 ELSE 2

(* Among the types: no target is attempted more than MaxAttempts times,    *)
(* though retries are granted by Upstream or, when the report is late, by  *)
(* the Agent, each counting on its own terms.                              *)
TypeOK ==
  /\ pc \in {"loop", "asked", "leased", "accepted", "reading", "writing", "report", "auto", "done"}
  /\ compact \in BOOLEAN /\ split \in SUBSET {0, 2} /\ gone \in BOOLEAN
  /\ model \in Models
  /\ tried \subseteq Targets /\ ctried \subseteq Targets
  /\ attempts \in [Targets -> 0 .. MaxAttempts]
  /\ lastErr \in Errors \cup {None} /\ pending \in Errors \cup {None}
  /\ compressModel \in BOOLEAN /\ fallback \in BOOLEAN
  /\ auto \in [src : BOOLEAN, k : {0, 2}, calls : Nat, header : BOOLEAN]
  /\ lease \in Targets \cup {None}
  /\ outcome \in AttemptErrors \cup {"served", "gone", None}
  /\ mark \in BOOLEAN
  /\ copied \in [Headers -> Targets \cup {None}]
  /\ answer \in [kind : {"none", "response", "error"}, err : Errors \cup {None},
                 by : Targets \cup {None}]
  /\ answers \in Nat /\ spent \in Nat
  /\ refused \in BOOLEAN

(* A client that stays is answered exactly once: nothing is sent upstream  *)
(* again once the first byte is out, and no path through failover and the  *)
(* two compactions returns without an answer or writes a second one.       *)
AnsweredExactlyOnce ==
  /\ answers <= 1
  /\ answers = 1 => pc \in {"writing", "report", "done"}
  /\ pc = "done" => answers = 1 \/ gone

(* An error answer always has an error to tell, also where the code tells  *)
(* one it kept from before a compaction: rendering no error would crash.   *)
FailureTold == answer.kind = "error" => answer.err \in Errors

(* X-ModelSurge-Compacted is on the responses to a compacted history, and  *)
(* on no others, whatever attempts failed in between.                      *)
MarkerTellsTheTruth ==
  /\ answer.kind = "response" => mark = auto.header
  /\ answer.kind = "error" => ~mark

(* A compaction that was tried, whichever tier, gives a fresh start. *)
Starts == 1 + auto.calls + (IF fallback THEN 1 ELSE 0)

(* A request cannot burn through the accounts of its group: the calls it   *)
(* makes are bounded by its starts, even when Replay's and the Agent's own *)
(* verdicts alternate and the scheduler leases another target each time.   *)
RetryBudget == spent <= (Starts * MaxAttempts + auto.calls) * Cardinality(Targets)

(* At most two summaries, the second with the shorter tail, and never for  *)
(* a request that asks for a compaction itself; those get one more model.  *)
CompactionBudget ==
  /\ auto.calls <= 2
  /\ auto.calls = 2 => auto.k = 0
  /\ compact => auto.calls = 0
  /\ fallback => compact

(* A key that Replay has refused opens nothing any more: the compress      *)
(* model, whose dispatches skip the check of the key, is not turned to.    *)
RefusedKeyEndsRequest == refused => pc = "done"

(* What a request may cost the accounts.                                   *)
CostsAtMost == RetryBudget /\ CompactionBudget /\ RefusedKeyEndsRequest

(* Every request comes to an end, whatever the upstreams do, unless one of *)
(* them keeps its silence for ever where there is no deadline; retries,    *)
(* switches and compactions do not go on without end (forward.go:222).     *)
Terminates == <>(pc = "done") \/ <>[]LeftToTheOtherSide

(* forwardUpstreamHeaders: the headers of an earlier attempt must be       *)
(* overwritten by the upstream that answers (agent/relay/upstreamheaders.go:40). *)
HeadersOfTheAnswerer ==
  answer.kind = "response" => \A h \in Headers : copied[h] \in {None, answer.by}
=============================================================================
