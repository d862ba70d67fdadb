--------------------------- MODULE ForwardProofs ---------------------------
(***************************************************************************)
(* Proofs about Forward, for any finite set of upstream models, any        *)
(* groups, any number of retries and any headers: a client that stays is   *)
(* answered once, with an error that exists and with a truthful marker,    *)
(* and its request costs the accounts no more than its starts allow.       *)
(***************************************************************************)
EXTENDS Forward, FiniteSetTheorems, TLAPS

Attempting == {"leased", "accepted", "reading", "writing", "report"}
Undecided == {"loop", "asked", "auto", "leased", "accepted", "reading"}

(* An attempt is made on a target that was not given up, and a target that *)
(* was not given up has an attempt left.                                   *)
AttemptsLeft ==
  /\ pc \in Attempting => lease \in Targets \ tried
  /\ \A t \in Targets \ tried : attempts[t] < MaxAttempts

(* Where in the loop the request is tells whether it was answered, and how. *)
AnsweredByPlace ==
  /\ answers \in {0, 1}
  /\ answers = 0 <=> answer.kind = "none"
  /\ pc \in Undecided => answers = 0
  /\ pc = "writing" => answer.kind = "response"
  /\ pc = "report" => \/ outcome \in AttemptErrors /\ answers = 0
                      \/ outcome = "served" /\ answer.kind = "response"
                      \/ outcome = "gone" /\ answers = 0 /\ gone
  /\ pc = "done" => answers = 1 \/ gone

(* The marker is withdrawn between attempts and true during one.           *)
MarkerByPlace ==
  /\ pc \in {"loop", "asked", "auto"} => ~mark
  /\ pc \in Attempting => mark = auto.header

(* Whatever is to be told later is known by then.                          *)
FailureKept ==
  /\ fallback => lastErr \in Errors
  /\ pc = "auto" => pending \in Errors

(* The two summaries of tier 2, and who gets which tier.                   *)
CompactionRounds ==
  /\ \/ ~auto.src /\ auto.calls = 0
     \/ auto.src /\ auto.calls = 1 /\ auto.k = 2
     \/ auto.src /\ auto.calls = 2 /\ auto.k = 0
  /\ compact => auto.calls = 0
  /\ fallback => compact

(* The inductive invariant.                                                *)
IInv ==
  /\ TypeOK /\ AttemptsLeft
  /\ AnsweredByPlace /\ MarkerByPlace /\ MarkerTellsTheTruth
  /\ FailureKept /\ FailureTold
  /\ CompactionRounds /\ RefusedKeyEndsRequest
-----------------------------------------------------------------------------
(* Nothing was attempted yet. *)
LEMMA InitEstablishes == Init => IInv
<1> SUFFICES ASSUME Init PROVE IInv
  OBVIOUS
<1>1. MaxAttempts \in Nat \ {0}
  BY ForwardAssumption DEF MaxAttempts
<1>2. TypeOK
  <2>1. attempts \in [Targets -> 0 .. MaxAttempts] /\ copied \in [Headers -> Targets \cup {None}]
    BY <1>1 DEF Init, Fresh
  <2>2. auto \in [src : BOOLEAN, k : {0, 2}, calls : Nat, header : BOOLEAN]
    BY DEF Init
  <2>3. answer \in [kind : {"none", "response", "error"}, err : Errors \cup {None},
                    by : Targets \cup {None}]
    BY DEF Init
  <2> QED
    BY <2>1, <2>2, <2>3 DEF Init, TypeOK, Models
<1>3. AttemptsLeft
  BY <1>1 DEF Init, AttemptsLeft, Attempting, Fresh
<1>4. AnsweredByPlace /\ MarkerByPlace /\ MarkerTellsTheTruth
  BY DEF Init, AnsweredByPlace, MarkerByPlace, MarkerTellsTheTruth, Attempting, Undecided
<1>5. FailureKept /\ FailureTold /\ CompactionRounds /\ RefusedKeyEndsRequest
  BY DEF Init, FailureKept, FailureTold, CompactionRounds, RefusedKeyEndsRequest
<1> QED
  BY <1>2, <1>3, <1>4, <1>5 DEF IInv

(* Whoever grants a retry, Upstream or the Agent, the target has another   *)
(* attempt left after it.                                                  *)
LEMMA RetryLeavesOne ==
  ASSUME NEW k \in AttemptErrors, NEW n \in 0 .. MaxAttempts,
         "retry_target" \in Actions(k, n)
  PROVE  n + 1 < MaxAttempts
BY ForwardAssumption
   DEF AttemptErrors, Actions, UpstreamActions, LocalAction, MaxAttempts

(* The three outcomes of an answered failure: an error answer, the other   *)
(* model, a summary. None of them disturbs the types.                      *)
AnswerTypes ==
  [kind : {"none", "response", "error"}, err : Errors \cup {None},
   by : Targets \cup {None}]
AutoTypes == [src : BOOLEAN, k : {0, 2}, calls : Nat, header : BOOLEAN]

(* Answering an error.                                                     *)
LEMMA AnswerErrorTypes ==
  ASSUME TypeOK, NEW e \in Errors \cup {None}, AnswerError(e)
  PROVE  pc' = "done" /\ answer' \in AnswerTypes /\ answers' \in Nat
BY DEF TypeOK, AnswerError, AnswerTypes

(* Trying a summary, or answering the error if there is none to be had.    *)
LEMMA TryAutoCompactTypes ==
  ASSUME TypeOK, NEW e \in Errors, TryAutoCompact(e)
  PROVE  /\ pc' \in {"auto", "done"}
         /\ auto' \in AutoTypes /\ ctried' \subseteq Targets
         /\ pending' \in Errors \cup {None}
         /\ answer' \in AnswerTypes /\ answers' \in Nat
<1> USE DEF TypeOK, AnswerTypes, AutoTypes
<1>1. CASE BudgetLeft /\ NextK \in split
  <2>1. /\ auto' = [auto EXCEPT !.src = TRUE, !.k = NextK, !.calls = @ + 1]
        /\ ctried' = {} /\ pending' = e /\ pc' = "auto"
        /\ UNCHANGED answerVars
    BY <1>1 DEF TryAutoCompact
  <2>2. NextK \in {0, 2}
    BY DEF NextK
  <2> QED
    <3>1. auto \in AutoTypes /\ auto.calls + 1 \in Nat
      OBVIOUS
    <3>2. auto' = [src |-> TRUE, k |-> NextK, calls |-> auto.calls + 1, header |-> auto.header]
      BY <2>1, <3>1
    <3>3. auto' \in AutoTypes
      BY <2>2, <3>1, <3>2
    <3>4. answer' \in AnswerTypes /\ answers' \in Nat
      BY <2>1 DEF answerVars
    <3> QED
      BY <2>1, <3>3, <3>4
<1>2. CASE ~(BudgetLeft /\ NextK \in split)
  <2>1. AnswerError(e) /\ UNCHANGED autoVars
    BY <1>2 DEF TryAutoCompact
  <2> QED
    BY <2>1, AnswerErrorTypes DEF autoVars
<1> QED
  BY <1>1, <1>2

(* The counts start within their bound and stay there.                     *)
LEMMA FreshTypes == Fresh \in [Targets -> 0 .. MaxAttempts]
BY ForwardAssumption DEF Fresh, MaxAttempts

LEMMA CountTypes ==
  ASSUME TypeOK, AttemptsLeft, NEW t \in Targets \ tried
  PROVE  /\ Count(t) \in [Targets -> 0 .. MaxAttempts]
         /\ Count(t)[t] = attempts[t] + 1
         /\ \A u \in Targets : u # t => Count(t)[u] = attempts[u]
<1>1. attempts[t] + 1 \in 0 .. MaxAttempts
  BY ForwardAssumption DEF TypeOK, AttemptsLeft, MaxAttempts
<1> QED
  BY <1>1 DEF TypeOK, Count
-----------------------------------------------------------------------------
(* Each step keeps the types. *)
LEMMA TypeKept ==
  ASSUME IInv, Next
  PROVE  TypeOK'
<1> USE ForwardAssumption
    DEF IInv, TypeOK, vars, inputVars, loopVars, autoVars, tryVars, answerVars, histVars
<1>1. CASE Dispatch \/ ClientLeaves \/ Terminated
  <2>1. CASE Dispatch
    BY <2>1 DEF Dispatch
  <2>2. CASE ClientLeaves
    BY <2>2 DEF ClientLeaves
  <2>3. CASE Terminated
    BY <2>3 DEF Terminated
  <2> QED
    BY <1>1, <2>1, <2>2, <2>3
<1>0. CASE LeaveLoop \/ Conclude
  <2>1. CASE LeaveLoop
    BY <2>1 DEF LeaveLoop
  <2>2. CASE Conclude
    BY <2>2 DEF Conclude
  <2> QED
    BY <1>0, <2>1, <2>2
<1>2. ASSUME NEW t \in Targets, GetLease(t)
      PROVE  TypeOK'
  <2>1. "invalid_target" \in Errors
    BY DEF Errors
  <2>2. lastErr' \in Errors \cup {None} /\ tried' \subseteq Targets
    BY <1>2, <2>1 DEF GetLease, SkipUnusable
  <2>3. pc' \in {"loop", "leased"} /\ lease' \in Targets \cup {None}
    BY <1>2 DEF GetLease
  <2>4. outcome' \in AttemptErrors \cup {"served", "gone", None} /\ mark' \in BOOLEAN
    BY <1>2 DEF GetLease
  <2>5. compressModel' \in BOOLEAN
    BY <1>2 DEF GetLease
  <2>6. UNCHANGED <<inputVars, gone, model, attempts, fallback, autoVars, copied,
                    answerVars, spent, refused>>
    BY <1>2 DEF GetLease
  <2> QED
    BY <2>2, <2>3, <2>4, <2>5, <2>6
<1>3. ASSUME NEW e \in DispatchErrors, DispatchFails(e)
      PROVE  TypeOK'
  <2>1. e \in Errors
    BY DEF Errors
  <2>2. compressModel' \in BOOLEAN /\ refused' \in BOOLEAN
    BY <1>3 DEF DispatchFails
  <2>3. UNCHANGED <<inputVars, gone, tryVars, mark, spent>>
    BY <1>3 DEF DispatchFails
  <2>4. CASE /\ AnswerError(IF e = "not_found" THEN lastErr ELSE e)
             /\ UNCHANGED <<model, tried, attempts, lastErr, fallback, autoVars>>
    <3> DEFINE x == IF e = "not_found" THEN lastErr ELSE e
    <3>1. x \in Errors \cup {None}
      BY <2>1
    <3>2. AnswerError(x)
      BY <2>4
    <3>3. pc' = "done" /\ answer' \in AnswerTypes /\ answers' \in Nat
      BY <3>1, <3>2, AnswerErrorTypes
    <3> QED
      BY <2>2, <2>3, <2>4, <3>3 DEF AnswerTypes
  <2>5. CASE lastErr' = OriginalFailure(e) /\ FallBack
    BY <2>1, <2>2, <2>3, <2>5, FreshTypes DEF OriginalFailure, FallBack, Models
  <2>6. CASE TryAutoCompact(e) /\ UNCHANGED lastErr
    <3>1. UNCHANGED <<model, tried, attempts, fallback>>
      BY <2>6 DEF TryAutoCompact
    <3> QED
      BY <2>1, <2>2, <2>3, <2>6, <3>1, TryAutoCompactTypes DEF AnswerTypes, AutoTypes
  <2>7. CASE /\ lastErr' = IF lastErr = None THEN e ELSE lastErr
             /\ AnswerError(lastErr')
             /\ UNCHANGED <<model, tried, attempts, fallback, autoVars>>
    <3>1. lastErr' \in Errors
      BY <2>1, <2>7
    <3>2. pc' = "done" /\ answer' \in AnswerTypes /\ answers' \in Nat
      BY <2>7, <3>1, AnswerErrorTypes
    <3> QED
      BY <2>2, <2>3, <2>7, <3>1, <3>2 DEF AnswerTypes
  <2> QED
    BY <1>3, <2>4, <2>5, <2>6, <2>7 DEF DispatchFails
<1>4. ASSUME NEW k \in AttemptErrors, UpstreamRefuses(k) \/ FailsBeforeFirstByte(k)
      PROVE  TypeOK'
  <2>1. CASE UpstreamRefuses(k)
    BY <2>1 DEF UpstreamRefuses
  <2>2. CASE FailsBeforeFirstByte(k)
    BY <2>2 DEF FailsBeforeFirstByte
  <2> QED
    BY <1>4, <2>1, <2>2
<1>5. CASE ClientGoneMidCall \/ Collect \/ FirstByte \/ ResponseEnds
  <2>0. CASE Collect
    BY <2>0 DEF Collect
  <2>1. CASE ClientGoneMidCall
    BY <2>1 DEF ClientGoneMidCall
  <2>2. CASE FirstByte
    BY <2>2 DEF FirstByte
  <2>3. CASE ResponseEnds
    BY <2>3 DEF ResponseEnds, BrokenCountsAs
  <2> QED
    BY <1>5, <2>0, <2>1, <2>2, <2>3
<1>6. CASE UpstreamAccepts
  <2>1. lease \in Targets
    BY <1>6 DEF UpstreamAccepts, AttemptsLeft, Attempting
  <2> QED
    BY <1>6, <2>1 DEF UpstreamAccepts, CopyHeaders
<1>7. CASE RetryTarget \/ SwitchTarget
  <2>1. lease \in Targets \ tried
    BY <1>7 DEF RetryTarget, SwitchTarget, Failed, AttemptsLeft, Attempting
  <2>2. attempts' \in [Targets -> 0 .. MaxAttempts]
    BY <1>7, <2>1, CountTypes DEF RetryTarget, SwitchTarget
  <2>3. lastErr' \in Errors /\ tried' \subseteq Targets /\ pc' = "loop"
    BY <1>7, <2>1 DEF RetryTarget, SwitchTarget, Failed, Errors
  <2> QED
    BY <1>7, <2>2, <2>3 DEF RetryTarget, SwitchTarget, Failed, WithdrawMark
<1>8. CASE Stop
  <2>1. outcome \in Errors /\ lastErr' = outcome
    BY <1>8 DEF Stop, Failed, Errors
  <2>2. /\ mark' \in BOOLEAN /\ lease' = None /\ outcome' = None
        /\ UNCHANGED <<inputVars, gone, compressModel, copied, spent, refused>>
    BY <1>8 DEF Stop, Failed, WithdrawMark
  <2>3. CASE FallBack
    BY <2>1, <2>2, <2>3, FreshTypes DEF FallBack, Models
  <2>4. CASE TryAutoCompact(outcome)
    <3>1. UNCHANGED <<model, tried, attempts, fallback>>
      BY <2>4 DEF TryAutoCompact
    <3> QED
      BY <2>1, <2>2, <2>4, <3>1, TryAutoCompactTypes DEF AnswerTypes, AutoTypes
  <2>5. CASE /\ AnswerError(outcome)
             /\ UNCHANGED <<model, tried, attempts, fallback, autoVars>>
    BY <2>1, <2>2, <2>5, AnswerErrorTypes DEF AnswerTypes
  <2> QED
    BY <1>8, <2>3, <2>4, <2>5 DEF Stop
<1>9. CASE CompactCallEnds
  BY <1>9, AnswerErrorTypes DEF CompactCallEnds, SaveFailed, AnswerTypes
<1>10. ASSUME NEW t \in Targets, CompactAttemptFails(t)
       PROVE  TypeOK'
  BY <1>10 DEF CompactAttemptFails
<1>11. ASSUME NEW t \in Targets, Summarised(t)
       PROVE  TypeOK'
  <2>1. attempts' \in [Targets -> 0 .. MaxAttempts] /\ tried' = {}
    BY <1>11, FreshTypes DEF Summarised, StartOver
  <2>2. auto' \in AutoTypes
    BY <1>11 DEF Summarised, AutoTypes
  <2> QED
    BY <1>11, <2>1, <2>2 DEF Summarised, AutoTypes
<1> QED
  BY <1>0, <1>1, <1>2, <1>3, <1>4, <1>5, <1>6, <1>7, <1>8, <1>9, <1>10, <1>11
  DEF Next, Loop
-----------------------------------------------------------------------------
(* Each step leaves an attempt to every target that was not given up.      *)
LEMMA AttemptsKept ==
  ASSUME IInv, Next
  PROVE  AttemptsLeft'
<1> USE DEF IInv, AttemptsLeft, Attempting, loopVars, tryVars, vars
<1>0. \A t \in Targets : Fresh[t] < MaxAttempts
  BY ForwardAssumption DEF Fresh, MaxAttempts
<1>1. CASE LeaveLoop \/ Dispatch \/ Conclude \/ ClientLeaves \/ Terminated \/ CompactCallEnds
  BY <1>1 DEF LeaveLoop, Dispatch, Conclude, ClientLeaves, Terminated, CompactCallEnds,
              SaveFailed, AnswerError
<1>2. ASSUME NEW t \in Targets, GetLease(t)
      PROVE  AttemptsLeft'
  BY <1>2, ForwardAssumption DEF GetLease, SkipUnusable, TypeOK
<1>3. ASSUME NEW e \in DispatchErrors, DispatchFails(e)
      PROVE  AttemptsLeft'
  BY <1>0, <1>3 DEF DispatchFails, FallBack, TryAutoCompact, AnswerError
<1>4. ASSUME NEW k \in AttemptErrors, UpstreamRefuses(k) \/ FailsBeforeFirstByte(k)
      PROVE  AttemptsLeft'
  BY <1>4 DEF UpstreamRefuses, FailsBeforeFirstByte
<1>5. CASE ClientGoneMidCall \/ UpstreamAccepts \/ Collect \/ FirstByte \/ ResponseEnds
  BY <1>5 DEF ClientGoneMidCall, UpstreamAccepts, Collect, FirstByte, ResponseEnds
<1>6. CASE RetryTarget
  <2>1. lease \in Targets \ tried /\ attempts[lease] \in 0 .. MaxAttempts
    BY <1>6 DEF RetryTarget, Failed, TypeOK
  <2>2. attempts[lease] + 1 < MaxAttempts
    BY <1>6, <2>1, RetryLeavesOne DEF RetryTarget, Failed
  <2> QED
    BY <1>6, <2>1, <2>2, CountTypes DEF RetryTarget
<1>7. CASE SwitchTarget
  <2>1. lease \in Targets \ tried
    BY <1>7 DEF SwitchTarget, Failed
  <2> QED
    BY <1>7, <2>1, CountTypes DEF SwitchTarget
<1>8. CASE Stop
  BY <1>0, <1>8 DEF Stop, FallBack, TryAutoCompact, AnswerError
<1>9. ASSUME NEW t \in Targets, CompactAttemptFails(t) \/ Summarised(t)
      PROVE  AttemptsLeft'
  BY <1>0, <1>9 DEF CompactAttemptFails, Summarised, StartOver
<1> QED
  BY <1>1, <1>2, <1>3, <1>4, <1>5, <1>6, <1>7, <1>8, <1>9 DEF Next, Loop

(* A failure is answered while nothing was answered yet.                   *)
LEMMA ErrorIsFirstAnswer ==
  ASSUME AnsweredByPlace, answers = 0, NEW e, AnswerError(e)
  PROVE  AnsweredByPlace'
BY DEF AnsweredByPlace, AnswerError, Undecided

(* Each step keeps what the place in the loop tells about the answer.      *)
LEMMA AnswersKept ==
  ASSUME IInv, Next
  PROVE  AnsweredByPlace'
<1> USE DEF IInv, AnsweredByPlace, Undecided, answerVars, tryVars, vars
<1>1. CASE LeaveLoop \/ Dispatch \/ ClientLeaves \/ Terminated
  BY <1>1 DEF LeaveLoop, Dispatch, ClientLeaves, Terminated
<1>2. CASE Conclude
  BY <1>2 DEF Conclude, AttemptErrors
<1>3. ASSUME NEW t \in Targets, GetLease(t)
      PROVE  AnsweredByPlace'
  BY <1>3 DEF GetLease
<1>4. ASSUME NEW e \in DispatchErrors, DispatchFails(e)
      PROVE  AnsweredByPlace'
  BY <1>4, ErrorIsFirstAnswer DEF DispatchFails, FallBack, TryAutoCompact
<1>5. ASSUME NEW k \in AttemptErrors, UpstreamRefuses(k) \/ FailsBeforeFirstByte(k)
      PROVE  AnsweredByPlace'
  BY <1>5 DEF UpstreamRefuses, FailsBeforeFirstByte
<1>6. CASE ClientGoneMidCall \/ UpstreamAccepts \/ Collect
  BY <1>6 DEF ClientGoneMidCall, UpstreamAccepts, Collect
<1>7. CASE FirstByte
  BY <1>7 DEF FirstByte
<1>8. CASE ResponseEnds
  BY <1>8 DEF ResponseEnds, BrokenCountsAs
<1>9. CASE RetryTarget \/ SwitchTarget
  BY <1>9 DEF RetryTarget, SwitchTarget, Failed, AttemptErrors
<1>10. CASE Stop
  <2>1. answers = 0
    BY <1>10 DEF Stop, Failed, AttemptErrors
  <2> QED
    BY <1>10, <2>1, ErrorIsFirstAnswer DEF Stop, FallBack, TryAutoCompact
<1>11. CASE CompactCallEnds
  BY <1>11, ErrorIsFirstAnswer DEF CompactCallEnds, SaveFailed
<1>12. ASSUME NEW t \in Targets, CompactAttemptFails(t) \/ Summarised(t)
       PROVE  AnsweredByPlace'
  BY <1>12 DEF CompactAttemptFails, Summarised
<1> QED
  BY <1>1, <1>2, <1>3, <1>4, <1>5, <1>6, <1>7, <1>8, <1>9, <1>10, <1>11, <1>12
  DEF Next, Loop

(* Each step keeps the marker truthful.                                    *)
Marked == MarkerByPlace /\ MarkerTellsTheTruth

LEMMA MarkerKept ==
  ASSUME IInv, Next
  PROVE  Marked'
<1> USE DEF IInv, Marked, MarkerByPlace, MarkerTellsTheTruth, Attempting, autoVars,
            answerVars, tryVars, vars
<1>1. CASE LeaveLoop \/ Dispatch \/ Conclude \/ ClientLeaves \/ Terminated
  BY <1>1 DEF LeaveLoop, Dispatch, Conclude, ClientLeaves, Terminated
<1>2. ASSUME NEW t \in Targets, GetLease(t)
      PROVE  Marked'
  <2>1. ~mark /\ answers = 0 /\ answer.kind = "none" /\ auto.header \in BOOLEAN
    BY <1>2 DEF GetLease, AnsweredByPlace, Undecided, TypeOK
  <2>2. answer' = answer /\ auto' = auto
    BY <1>2 DEF GetLease
  <2>3. CASE pc' = "loop" /\ mark' = mark
    BY <2>1, <2>2, <2>3
  <2>4. CASE pc' = "leased" /\ mark' = (mark \/ auto.header)
    BY <2>1, <2>2, <2>4
  <2> QED
    BY <1>2, <2>3, <2>4 DEF GetLease
<1>3. ASSUME NEW e \in DispatchErrors, DispatchFails(e)
      PROVE  Marked'
  BY <1>3 DEF DispatchFails, FallBack, TryAutoCompact, AnswerError, AnsweredByPlace,
              Undecided, TypeOK
<1>4. ASSUME NEW k \in AttemptErrors, UpstreamRefuses(k) \/ FailsBeforeFirstByte(k)
      PROVE  Marked'
  BY <1>4 DEF UpstreamRefuses, FailsBeforeFirstByte
<1>5. CASE ClientGoneMidCall \/ UpstreamAccepts \/ Collect \/ ResponseEnds
  BY <1>5 DEF ClientGoneMidCall, UpstreamAccepts, Collect, ResponseEnds
<1>6. CASE FirstByte
  BY <1>6 DEF FirstByte
<1>7. CASE RetryTarget \/ SwitchTarget
  BY <1>7 DEF RetryTarget, SwitchTarget, Failed, WithdrawMark, AttemptErrors, AnsweredByPlace
<1>8. CASE Stop
  BY <1>8 DEF Stop, Failed, WithdrawMark, FallBack, TryAutoCompact, AnswerError,
              AttemptErrors, AnsweredByPlace
<1>9. CASE CompactCallEnds
  BY <1>9 DEF CompactCallEnds, SaveFailed, AnswerError
<1>10. ASSUME NEW t \in Targets, CompactAttemptFails(t) \/ Summarised(t)
       PROVE  Marked'
  BY <1>10 DEF CompactAttemptFails, Summarised, AnsweredByPlace, Undecided
<1> QED
  BY <1>1, <1>2, <1>3, <1>4, <1>5, <1>6, <1>7, <1>8, <1>9, <1>10 DEF Next, Loop

(* Each step that answers with an error has one to tell.                   *)
Tellable == FailureKept /\ FailureTold

LEMMA FailuresKept ==
  ASSUME IInv, Next
  PROVE  Tellable'
<1> USE DEF IInv, Tellable, FailureKept, FailureTold, loopVars, autoVars, answerVars, vars
<1>0. AttemptErrors \subseteq Errors /\ DispatchErrors \subseteq Errors
      /\ "invalid_target" \in Errors /\ lastErr \in Errors \cup {None}
  BY DEF Errors, TypeOK
<1>1. CASE LeaveLoop \/ Dispatch \/ Conclude \/ ClientLeaves \/ Terminated
  BY <1>1 DEF LeaveLoop, Dispatch, Conclude, ClientLeaves, Terminated
<1>2. ASSUME NEW t \in Targets, GetLease(t)
      PROVE  Tellable'
  BY <1>0, <1>2 DEF GetLease
<1>3. ASSUME NEW e \in DispatchErrors, DispatchFails(e)
      PROVE  Tellable'
  BY <1>0, <1>3 DEF DispatchFails, FallBack, TryAutoCompact, AnswerError, OriginalFailure
<1>4. ASSUME NEW k \in AttemptErrors, UpstreamRefuses(k) \/ FailsBeforeFirstByte(k)
      PROVE  Tellable'
  BY <1>4 DEF UpstreamRefuses, FailsBeforeFirstByte
<1>5. CASE ClientGoneMidCall \/ UpstreamAccepts \/ Collect \/ FirstByte \/ ResponseEnds
  BY <1>5 DEF ClientGoneMidCall, UpstreamAccepts, Collect, FirstByte, ResponseEnds
<1>6. CASE RetryTarget \/ SwitchTarget
  BY <1>0, <1>6 DEF RetryTarget, SwitchTarget, Failed
<1>7. CASE Stop
  BY <1>0, <1>7 DEF Stop, Failed, FallBack, TryAutoCompact, AnswerError
<1>8. CASE CompactCallEnds
  BY <1>8 DEF CompactCallEnds, SaveFailed, AnswerError
<1>9. ASSUME NEW t \in Targets, CompactAttemptFails(t) \/ Summarised(t)
      PROVE  Tellable'
  BY <1>9 DEF CompactAttemptFails, Summarised
<1> QED
  BY <1>1, <1>2, <1>3, <1>4, <1>5, <1>6, <1>7, <1>8, <1>9 DEF Next, Loop

(* Whether e is answered or a summary is tried, the rounds stay in order:  *)
(* two summaries at most, none for a request that asks for a compaction.   *)
LEMMA RoundsInOrder ==
  ASSUME TypeOK, CompactionRounds, ~compact, NEW e, TryAutoCompact(e)
  PROVE  /\ \/ ~auto'.src /\ auto'.calls = 0
            \/ auto'.src /\ auto'.calls = 1 /\ auto'.k = 2
            \/ auto'.src /\ auto'.calls = 2 /\ auto'.k = 0
         /\ fallback' = fallback
<1>1. fallback' = fallback
  BY DEF TryAutoCompact
<1>2. CASE auto' = auto
  BY <1>1, <1>2 DEF CompactionRounds
<1>3. CASE /\ BudgetLeft
           /\ auto' = [auto EXCEPT !.src = TRUE, !.k = NextK, !.calls = @ + 1]
  <2>1. auto' = [src |-> TRUE, k |-> NextK, calls |-> auto.calls + 1, header |-> auto.header]
    BY <1>3 DEF TypeOK
  <2>2. \/ ~auto.src /\ auto.calls = 0 /\ NextK = 2
        \/ auto.src /\ auto.calls = 1 /\ NextK = 0
    BY <1>3 DEF BudgetLeft, NextK, CompactionRounds
  <2> QED
    BY <1>1, <2>1, <2>2
<1> QED
  BY <1>2, <1>3 DEF TryAutoCompact, autoVars

(* Each step keeps the rounds of compaction, and no step follows the       *)
(* answer that the key is refused.                                         *)
Orderly == CompactionRounds /\ RefusedKeyEndsRequest

LEMMA RoundsKept ==
  ASSUME IInv, Next
  PROVE  Orderly'
<1> USE DEF IInv, Orderly, CompactionRounds, RefusedKeyEndsRequest, inputVars, loopVars,
            autoVars, histVars, vars
<1>1. CASE LeaveLoop \/ Dispatch \/ Conclude \/ ClientLeaves \/ Terminated
  BY <1>1 DEF LeaveLoop, Dispatch, Conclude, ClientLeaves, Terminated
<1>2. ASSUME NEW t \in Targets, GetLease(t)
      PROVE  Orderly'
  BY <1>2 DEF GetLease
<1>3. ASSUME NEW e \in DispatchErrors, DispatchFails(e)
      PROVE  Orderly'
  <2>0. compact' = compact
    BY <1>3 DEF DispatchFails
  <2>1. RefusedKeyEndsRequest'
    BY <1>3 DEF DispatchFails, ModelUnavailable, UsableTier1, UsableTier2, AnswerError
  <2>2. CASE UNCHANGED <<fallback, autoVars>>
    BY <2>0, <2>1, <2>2
  <2>3. CASE UsableTier1 /\ FallBack
    BY <2>0, <2>1, <2>3 DEF UsableTier1, FallBack
  <2>4. CASE UsableTier2 /\ TryAutoCompact(e)
    BY <2>0, <2>1, <2>4, RoundsInOrder DEF UsableTier2
  <2> QED
    BY <1>3, <2>2, <2>3, <2>4 DEF DispatchFails
<1>4. ASSUME NEW k \in AttemptErrors, UpstreamRefuses(k) \/ FailsBeforeFirstByte(k)
      PROVE  Orderly'
  BY <1>4 DEF UpstreamRefuses, FailsBeforeFirstByte
<1>5. CASE ClientGoneMidCall \/ UpstreamAccepts \/ Collect \/ FirstByte \/ ResponseEnds
  BY <1>5 DEF ClientGoneMidCall, UpstreamAccepts, Collect, FirstByte, ResponseEnds
<1>6. CASE RetryTarget \/ SwitchTarget
  BY <1>6 DEF RetryTarget, SwitchTarget, Failed
<1>7. CASE Stop
  <2>1. compact' = compact /\ refused' = refused /\ pc # "done"
    BY <1>7 DEF Stop, Failed
  <2>2. CASE UNCHANGED <<fallback, autoVars>>
    BY <2>1, <2>2
  <2>3. CASE UsableTier1 /\ FallBack
    BY <2>1, <2>3 DEF UsableTier1, FallBack
  <2>4. CASE UsableTier2 /\ TryAutoCompact(outcome)
    BY <2>1, <2>4, RoundsInOrder DEF UsableTier2
  <2> QED
    BY <1>7, <2>2, <2>3, <2>4 DEF Stop
<1>8. CASE CompactCallEnds
  BY <1>8 DEF CompactCallEnds, SaveFailed, AnswerError
<1>9. ASSUME NEW t \in Targets, CompactAttemptFails(t) \/ Summarised(t)
      PROVE  Orderly'
  BY <1>9 DEF CompactAttemptFails, Summarised, TypeOK
<1> QED
  BY <1>1, <1>2, <1>3, <1>4, <1>5, <1>6, <1>7, <1>8, <1>9 DEF Next, Loop
-----------------------------------------------------------------------------
(* Every step of the loop, and the client's leaving, keep the invariant.   *)
LEMMA StepKeeps == IInv /\ [Next]_vars => IInv'
<1> SUFFICES ASSUME IInv, [Next]_vars PROVE IInv'
  OBVIOUS
<1>1. CASE Next
  BY <1>1, TypeKept, AttemptsKept, AnswersKept, MarkerKept, FailuresKept, RoundsKept
  DEF IInv, Marked, Tellable, Orderly
<1>2. CASE UNCHANGED vars
  BY <1>2 DEF vars, inputVars, loopVars, autoVars, tryVars, answerVars, histVars, IInv,
              TypeOK, AttemptsLeft, AnsweredByPlace, MarkerByPlace, MarkerTellsTheTruth,
              FailureKept, FailureTold, CompactionRounds, RefusedKeyEndsRequest
<1> QED
  BY <1>1, <1>2

(* So every state of a behaviour satisfies it.                             *)
LEMMA Invariance == Spec => []IInv
BY InitEstablishes, StepKeeps, PTL DEF Spec

(* The types, and with them the bound on the attempts of one target,       *)
(* whoever grants the retries (agent/relay/forward.go, localResultAction). *)
THEOREM TypesAndAttempts == Spec => []TypeOK
<1>1. IInv => TypeOK
  BY DEF IInv
<1> QED
  BY <1>1, Invariance, PTL

(* A client that stays is answered, and only once (forwardRemote).         *)
THEOREM OneAnswer == Spec => []AnsweredExactlyOnce
<1>1. IInv => AnsweredExactlyOnce
  BY DEF IInv, TypeOK, AnsweredByPlace, AnsweredExactlyOnce, Undecided
<1> QED
  BY <1>1, Invariance, PTL

(* An error answer tells an error that did happen (writeClientError).      *)
THEOREM ErrorsAreTold == Spec => []FailureTold
<1>1. IInv => FailureTold
  BY DEF IInv
<1> QED
  BY <1>1, Invariance, PTL

(* X-ModelSurge-Compacted is on the answers to a compacted history only.   *)
THEOREM TruthfulMarker == Spec => []MarkerTellsTheTruth
<1>1. IInv => MarkerTellsTheTruth
  BY DEF IInv
<1> QED
  BY <1>1, Invariance, PTL
-----------------------------------------------------------------------------
(* The attempts of this start, one by one, and how many there may be.      *)
Slots == Targets \X (1 .. MaxAttempts)
Used(a) == {s \in Slots : s[2] <= a[s[1]]}
N == Cardinality(Targets)

(* What earlier starts and finished summaries may have cost.               *)
Before == (Starts - 1) * (MaxAttempts * N) + auto.calls * N

(* Where in the loop the request is bounds what was spent so far.          *)
Paid ==
  /\ pc \in {"loop", "asked", "leased"} =>
       spent <= Before + Cardinality(Used(attempts))
  /\ pc \in {"accepted", "reading", "writing", "report"} =>
       spent <= Before + Cardinality(Used(attempts)) + 1
  /\ pc = "auto" => auto.calls > 0 /\ spent <= Before - N + Cardinality(ctried)
  /\ pc = "done" => RetryBudget

(* The sizes are numbers.                                                  *)
LEMMA SizeTypes == N \in Nat /\ MaxAttempts \in Nat \ {0} /\ MaxAttempts * N \in Nat
<1>1. N \in Nat
  BY ForwardAssumption, FS_CardinalityType DEF N
<1>2. MaxAttempts \in Nat \ {0}
  BY ForwardAssumption DEF MaxAttempts
<1> QED
  BY <1>1, <1>2

(* What s - 1 starts and c summaries may cost: an attempt per slot, a call *)
(* per target.                                                             *)
Cost(s, c) == (s - 1) * (MaxAttempts * N) + c * N

(* One start more, one summary more, and the budget as a cost.             *)
LEMMA CostGrows ==
  ASSUME NEW s \in Nat \ {0}, NEW c \in Nat
  PROVE  /\ Cost(s, c) \in Nat
         /\ Cost(s + 1, c) = Cost(s, c) + MaxAttempts * N
         /\ Cost(s, c + 1) = Cost(s, c) + N
         /\ (s * MaxAttempts + c) * N = Cost(s, c) + MaxAttempts * N
<1> DEFINE p == MaxAttempts * N
<1>1. p \in Nat /\ N \in Nat /\ MaxAttempts \in Nat
  BY SizeTypes
<1>2. /\ (s - 1) * p \in Nat /\ c * N \in Nat
      /\ s * p = (s - 1) * p + p
      /\ (c + 1) * N = c * N + N
  <2> HIDE DEF p
  <2> QED
    BY <1>1
<1>3. (s * MaxAttempts + c) * N = s * p + c * N
  BY <1>1
<1>4. (s + 1) - 1 = s
  OBVIOUS
<1> HIDE DEF p
<1>5. Cost(s, c) = (s - 1) * p + c * N /\ Cost(s, c + 1) = (s - 1) * p + (c + 1) * N
      /\ Cost(s + 1, c) = s * p + c * N
  BY <1>4 DEF Cost, p
<1>6. p = MaxAttempts * N
  BY DEF p
<1> QED
  BY <1>1, <1>2, <1>3, <1>5, <1>6

(* The two ways to state the budget agree.                                 *)
LEMMA BeforeIsCost ==
  ASSUME TypeOK
  PROVE  /\ Starts \in Nat \ {0} /\ auto.calls \in Nat
         /\ Before = Cost(Starts, auto.calls) /\ Before \in Nat
         /\ RetryBudget <=> spent <= Before + MaxAttempts * N
<1>1. Starts \in Nat \ {0} /\ auto.calls \in Nat
  BY DEF TypeOK, Starts
<1>2. Before = Cost(Starts, auto.calls)
  BY DEF Before, Cost
<1>3. RetryBudget <=> spent <= (Starts * MaxAttempts + auto.calls) * N
  BY DEF RetryBudget, N
<1> QED
  BY <1>1, <1>2, <1>3, CostGrows

(* There is a slot for each attempt of each target.                        *)
LEMMA SlotsFinite == IsFiniteSet(Slots) /\ Cardinality(Slots) = MaxAttempts * N
<1>1. IsFiniteSet(1 .. MaxAttempts) /\ Cardinality(1 .. MaxAttempts) = MaxAttempts
  BY SizeTypes, FS_Interval
<1>2. IsFiniteSet(Slots) /\ Cardinality(Slots) = N * MaxAttempts
  BY <1>1, ForwardAssumption, FS_Product DEF Slots, N
<1> QED
  BY <1>2, SizeTypes

(* The used slots fit, and while a target has an attempt left, so does one *)
(* more.                                                                   *)
LEMMA UsedFits ==
  ASSUME NEW a \in [Targets -> 0 .. MaxAttempts]
  PROVE  /\ IsFiniteSet(Used(a)) /\ Cardinality(Used(a)) \in Nat
         /\ Cardinality(Used(a)) <= MaxAttempts * N
         /\ \A t \in Targets : a[t] < MaxAttempts =>
              Cardinality(Used(a)) + 1 <= MaxAttempts * N
<1>1. Used(a) \in SUBSET Slots
  BY DEF Used
<1>2. IsFiniteSet(Used(a)) /\ Cardinality(Used(a)) <= MaxAttempts * N
  BY <1>1, SlotsFinite, FS_Subset
<1>3. Cardinality(Used(a)) \in Nat
  BY <1>2, FS_CardinalityType
<1>4. ASSUME NEW t \in Targets, a[t] < MaxAttempts
      PROVE  Cardinality(Used(a)) + 1 <= MaxAttempts * N
  <2>1. <<t, MaxAttempts>> \in Slots \ Used(a)
    BY <1>4, SizeTypes DEF Slots, Used
  <2>2. Cardinality(Used(a)) # Cardinality(Slots)
    BY <1>1, <2>1, SlotsFinite, FS_Subset
  <2> QED
    BY <1>2, <1>3, <2>2, SlotsFinite, SizeTypes
<1> QED
  BY <1>2, <1>3, <1>4

(* A fresh start has used none, and an attempt uses one.                   *)
LEMMA FreshUsesNothing == Used(Fresh) = {} /\ Cardinality(Used(Fresh)) = 0
<1>1. Used(Fresh) = {}
  BY SizeTypes DEF Used, Slots, Fresh
<1> QED
  BY <1>1, FS_EmptySet

LEMMA CountUsesOne ==
  ASSUME TypeOK, AttemptsLeft, NEW t \in Targets \ tried
  PROVE  Cardinality(Used(Count(t))) = Cardinality(Used(attempts)) + 1
<1> DEFINE s == <<t, attempts[t] + 1>>
<1>1. attempts \in [Targets -> 0 .. MaxAttempts] /\ attempts[t] + 1 \in 1 .. MaxAttempts
  BY SizeTypes DEF TypeOK, AttemptsLeft
<1>2. s \in Slots \ Used(attempts)
  BY <1>1 DEF Slots, Used
<1>3. Used(Count(t)) = Used(attempts) \cup {s}
  <2>1. ASSUME NEW r \in Slots
        PROVE  r[2] <= Count(t)[r[1]] <=> r[2] <= attempts[r[1]] \/ r = s
    <3>1. PICK u \in Targets, i \in 1 .. MaxAttempts : r = <<u, i>>
      BY DEF Slots
    <3>2. r[1] = u /\ r[2] = i
      BY <3>1
    <3>3. CASE u = t
      BY <1>1, <3>1, <3>2, <3>3, CountTypes, SizeTypes
    <3>4. CASE u # t
      BY <3>1, <3>2, <3>4, CountTypes
    <3> QED
      BY <3>3, <3>4
  <2> HIDE DEF s
  <2> QED
    BY <1>2, <2>1 DEF Used
<1> QED
  BY <1>1, <1>2, <1>3, UsedFits, FS_AddElement
-----------------------------------------------------------------------------
(* Until the request is done, what it has spent is what earlier starts and *)
(* summaries may cost and no more than one start.                          *)
LEMMA WithinOneStart ==
  ASSUME IInv, Paid, pc # "done"
  PROVE  /\ spent <= Before + MaxAttempts * N
         /\ pc = "auto" => spent <= Before
<1> USE DEF IInv
<1>1. /\ attempts \in [Targets -> 0 .. MaxAttempts] /\ spent \in Nat
      /\ Before \in Nat
  BY BeforeIsCost DEF TypeOK
<1>2. CASE pc \in {"loop", "asked", "leased"}
  BY <1>1, <1>2, UsedFits, SizeTypes DEF Paid
<1>3. CASE pc \in {"accepted", "reading", "writing", "report"}
  <2>1. lease \in Targets /\ attempts[lease] < MaxAttempts
    BY <1>3 DEF AttemptsLeft, Attempting
  <2> QED
    BY <1>1, <1>3, <2>1, UsedFits, SizeTypes DEF Paid
<1>4. CASE pc = "auto"
  <2>1. Cardinality(ctried) \in Nat /\ Cardinality(ctried) <= N
    BY ForwardAssumption, FS_Subset, FS_CardinalityType DEF TypeOK, N
  <2> QED
    BY <1>1, <1>4, <2>1, SizeTypes DEF Paid
<1> QED
  BY <1>2, <1>3, <1>4 DEF TypeOK

(* A request that is answered now stays within its budget.                 *)
LEMMA AnswerPays ==
  ASSUME IInv, Paid, pc # "done", pc' = "done", spent' = spent, auto' = auto,
         fallback' = fallback
  PROVE  Paid'
<1>1. RetryBudget
  BY WithinOneStart, BeforeIsCost DEF IInv
<1>2. RetryBudget'
  BY <1>1 DEF RetryBudget, Starts
<1> QED
  BY <1>2 DEF Paid

(* The compress model is a start of its own.                               *)
LEMMA FallBackPays ==
  ASSUME IInv, IInv', Paid, pc # "done", ~fallback, FallBack, spent' = spent
  PROVE  Paid'
<1>1. Starts' = Starts + 1 /\ auto' = auto
  BY DEF FallBack, Starts, IInv, TypeOK, autoVars
<1>2. Before' = Before + MaxAttempts * N
  BY <1>1, BeforeIsCost, CostGrows DEF IInv, Before, Cost
<1>3. spent' <= Before' + Cardinality(Used(attempts'))
  BY <1>2, WithinOneStart, FreshUsesNothing, BeforeIsCost, SizeTypes
  DEF FallBack, IInv, TypeOK
<1> QED
  BY <1>3 DEF FallBack, Paid

(* So is the request that a summary shortens; the summary itself has a     *)
(* call for each target.                                                   *)
LEMMA TryAutoCompactPays ==
  ASSUME IInv, IInv', Paid, pc # "done", NEW e, TryAutoCompact(e), spent' = spent
  PROVE  Paid'
<1>1. CASE UNCHANGED autoVars /\ AnswerError(e)
  BY <1>1, AnswerPays DEF TryAutoCompact, AnswerError, autoVars
<1>2. CASE /\ auto' = [auto EXCEPT !.src = TRUE, !.k = NextK, !.calls = @ + 1]
           /\ ctried' = {} /\ pc' = "auto"
  <2>1. auto'.calls = auto.calls + 1 /\ fallback' = fallback
    BY <1>2 DEF IInv, TypeOK, TryAutoCompact
  <2>2. Starts' = Starts + 1
    BY <2>1 DEF Starts, IInv, TypeOK
  <2>3. Before' = Before + MaxAttempts * N + N
    <3>1. Before' = Cost(Starts + 1, auto.calls + 1)
      BY <2>1, <2>2 DEF Before, Cost
    <3>2. Starts + 1 \in Nat \ {0} /\ auto.calls \in Nat
      BY BeforeIsCost DEF IInv
    <3>3. Cost(Starts + 1, auto.calls + 1) = Cost(Starts + 1, auto.calls) + N
      BY <3>2, CostGrows
    <3> QED
      BY <3>1, <3>3, BeforeIsCost, CostGrows DEF IInv
  <2>4. Cardinality(ctried') = 0
    BY <1>2, FS_EmptySet
  <2>5. spent' <= Before' - N + Cardinality(ctried')
    BY <2>3, <2>4, WithinOneStart, BeforeIsCost, SizeTypes DEF IInv, TypeOK
  <2>6. auto'.calls > 0
    BY <2>1, BeforeIsCost DEF IInv
  <2> QED
    BY <1>2, <2>5, <2>6 DEF Paid
<1> QED
  BY <1>1, <1>2 DEF TryAutoCompact

(* Each step that costs a call is paid for.                                *)
LEMMA PaidKept ==
  ASSUME IInv, IInv', Paid, Next
  PROVE  Paid'
<1> USE DEF loopVars, autoVars, tryVars, answerVars, histVars, vars
<1>0. /\ spent \in Nat /\ Before \in Nat /\ N \in Nat
      /\ Cardinality(Used(attempts)) \in Nat
      /\ pc \in {"loop", "asked", "leased", "accepted", "reading", "writing", "report", "auto", "done"}
  BY BeforeIsCost, SizeTypes, UsedFits DEF IInv, TypeOK
<1>a. ASSUME auto' = auto, fallback' = fallback
      PROVE  Before' = Before /\ (RetryBudget /\ spent' = spent => RetryBudget')
  BY <1>a DEF Before, Starts, RetryBudget
<1>1. CASE LeaveLoop \/ Conclude \/ CompactCallEnds
  BY <1>1, AnswerPays DEF LeaveLoop, Conclude, CompactCallEnds, SaveFailed, AnswerError
<1>2. CASE Dispatch \/ ClientLeaves \/ Terminated
  BY <1>2, <1>a DEF Dispatch, ClientLeaves, Terminated, Paid
<1>3. ASSUME NEW t \in Targets, GetLease(t)
      PROVE  Paid'
  BY <1>3, <1>a DEF GetLease, Paid
<1>4. ASSUME NEW e \in DispatchErrors, DispatchFails(e)
      PROVE  Paid'
  <2>1. pc # "done" /\ spent' = spent
    BY <1>4 DEF DispatchFails
  <2>2. CASE pc' = "done" /\ UNCHANGED <<fallback, autoVars>>
    BY <2>1, <2>2, AnswerPays
  <2>3. CASE ~fallback /\ FallBack
    BY <2>1, <2>3, FallBackPays
  <2>4. CASE TryAutoCompact(e)
    BY <2>1, <2>4, TryAutoCompactPays
  <2> QED
    BY <1>4, <2>2, <2>3, <2>4 DEF DispatchFails, AnswerError, UsableTier1
<1>5. ASSUME NEW k \in AttemptErrors, UpstreamRefuses(k)
      PROVE  Paid'
  BY <1>0, <1>5, <1>a DEF UpstreamRefuses, Paid
<1>6. ASSUME NEW k \in AttemptErrors, FailsBeforeFirstByte(k)
      PROVE  Paid'
  BY <1>6, <1>a DEF FailsBeforeFirstByte, Paid
<1>7. CASE ClientGoneMidCall \/ UpstreamAccepts \/ Collect
  BY <1>0, <1>7, <1>a DEF ClientGoneMidCall, UpstreamAccepts, Collect, Paid
<1>8. CASE FirstByte \/ ResponseEnds
  BY <1>8, <1>a DEF FirstByte, ResponseEnds, Paid
<1>9. CASE RetryTarget \/ SwitchTarget
  <2>1. /\ lease \in Targets \ tried /\ pc = "report" /\ pc' = "loop"
        /\ attempts' = Count(lease)
        /\ auto' = auto /\ fallback' = fallback /\ spent' = spent
    BY <1>9 DEF RetryTarget, SwitchTarget, Failed, IInv, AttemptsLeft, Attempting
  <2>2. Cardinality(Used(attempts')) = Cardinality(Used(attempts)) + 1
    BY <2>1, CountUsesOne DEF IInv
  <2> QED
    BY <1>0, <1>a, <2>1, <2>2 DEF Paid
<1>10. CASE Stop
  <2>1. pc # "done" /\ spent' = spent
    BY <1>10 DEF Stop, Failed
  <2>2. CASE pc' = "done" /\ UNCHANGED <<fallback, autoVars>>
    BY <2>1, <2>2, AnswerPays
  <2>3. CASE ~fallback /\ FallBack
    BY <2>1, <2>3, FallBackPays
  <2>4. CASE TryAutoCompact(outcome)
    BY <2>1, <2>4, TryAutoCompactPays
  <2> QED
    BY <1>10, <2>2, <2>3, <2>4 DEF Stop, AnswerError, UsableTier1
<1>11. ASSUME NEW t \in Targets, CompactAttemptFails(t)
       PROVE  Paid'
  <2>1. IsFiniteSet(ctried) /\ t \notin ctried
    BY <1>11, ForwardAssumption, FS_Subset DEF CompactAttemptFails, IInv, TypeOK
  <2>2. Cardinality(ctried') = Cardinality(ctried) + 1 /\ Cardinality(ctried) \in Nat
    BY <1>11, <2>1, FS_AddElement, FS_CardinalityType DEF CompactAttemptFails
  <2>3. spent' <= spent + 1 /\ auto' = auto /\ fallback' = fallback /\ pc = "auto" /\ pc' = pc
    BY <1>0, <1>11 DEF CompactAttemptFails
  <2>4. spent' \in Nat
    BY DEF IInv, TypeOK
  <2> QED
    BY <1>0, <1>a, <2>2, <2>3, <2>4 DEF Paid
<1>12. ASSUME NEW t \in Targets, Summarised(t)
       PROVE  Paid'
  <2>1. IsFiniteSet(ctried) /\ t \notin ctried /\ ctried \cup {t} \in SUBSET Targets
    BY <1>12, ForwardAssumption, FS_Subset DEF Summarised, IInv, TypeOK
  <2>2. Cardinality(ctried) + 1 <= N /\ Cardinality(ctried) \in Nat
    BY <2>1, ForwardAssumption, FS_Subset, FS_AddElement, FS_CardinalityType DEF N
  <2>3. /\ spent' = spent + 1 /\ fallback' = fallback /\ auto'.calls = auto.calls
        /\ attempts' = Fresh /\ pc = "auto" /\ pc' = "loop"
    BY <1>12 DEF Summarised, StartOver, IInv, TypeOK
  <2>4. Before' = Before
    BY <2>3 DEF Before, Starts
  <2>5. spent <= Before - N + Cardinality(ctried)
    BY <2>3 DEF Paid
  <2> QED
    BY <1>0, <2>2, <2>3, <2>4, <2>5, FreshUsesNothing DEF Paid
<1> QED
  BY <1>1, <1>2, <1>3, <1>4, <1>5, <1>6, <1>7, <1>8, <1>9, <1>10, <1>11, <1>12
  DEF Next, Loop

(* What a request costs the accounts is bounded by its starts and its      *)
(* summaries; there are at most two of those, and none after a refused key *)
(* (agent/relay/forward.go, forwardRemote and tryAutoCompact).             *)
THEOREM BoundedCost == Spec => []CostsAtMost
<1>1. Init => Paid
  <2> SUFFICES ASSUME Init PROVE Paid
    OBVIOUS
  <2>1. TypeOK
    BY InitEstablishes DEF IInv
  <2> QED
    BY <2>1, BeforeIsCost, FreshUsesNothing DEF Init, Paid
<1>2. IInv /\ IInv' /\ Paid /\ [Next]_vars => Paid'
  <2>1. CASE Next
    BY <2>1, PaidKept
  <2>2. Paid /\ UNCHANGED vars => Paid'
    BY DEF vars, loopVars, autoVars, histVars, Paid, Before, Starts, RetryBudget
  <2> QED
    BY <2>1, <2>2
<1>3. IInv /\ Paid => CostsAtMost
  <2> SUFFICES ASSUME IInv, Paid PROVE CostsAtMost
    OBVIOUS
  <2>1. RetryBudget
    BY WithinOneStart, BeforeIsCost DEF IInv, Paid
  <2>2. CompactionBudget /\ RefusedKeyEndsRequest
    BY DEF IInv, CompactionRounds, CompactionBudget
  <2> QED
    BY <2>1, <2>2 DEF CostsAtMost
<1> QED
  BY <1>1, <1>2, <1>3, Invariance, PTL DEF Spec
=============================================================================
