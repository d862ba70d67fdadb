------------------------------ MODULE HotState ------------------------------
(***************************************************************************)
(* Upstream's health state of its models: the rows of model_state in the   *)
(* database, Evaluate's read-aside cache and the probe locks in Redis.     *)
(* Sources: upstream/service/hotstate.go, Evaluate, Resolve and Report of  *)
(* upstream/service/service.go, ApplyReport of upstreamstore/store.go.     *)
(*                                                                         *)
(* A call is one request's way through Upstream: Evaluate and Resolve, or  *)
(* Resolve alone when Replay has the target in its cache, then, after the  *)
(* attempt, the report of its outcome. Calls run concurrently, in any      *)
(* replica, on PostgreSQL (SQLite has one connection, which runs each      *)
(* transaction in one piece).                                              *)
(*                                                                         *)
(* Time is abstracted: a cooldown is named by the call whose report set    *)
(* it, and passes at any time after; cache entries and probe locks expire  *)
(* at any time. A Redis command may fail at any time, which stands for an  *)
(* error, a timeout and the window after either in which redisx refuses.   *)
(***************************************************************************)
EXTENDS Naturals

CONSTANTS
  Targets,      \* upstream models
  Calls,
  TargetOf,     \* TargetOf[c]: the model the call is about
  Kinds,        \* what an attempt may be reported as
  RedisFails,   \* whether Redis commands may fail
  None

(* The outcomes as Report classifies them before it stores them: a failure *)
(* with Status 401/403 is "auth", 429 "rate_limit", one with an explicit   *)
(* CooldownUntil "cooldown_until", any other "abnormal".                   *)
Failures == {"abnormal", "auth", "rate_limit", "cooldown_until"}
Kept == {"retrying", "invalid_model"}
AllKinds == Failures \cup Kept \cup {"normal", "context_exceeded"}

ASSUME HotStateAssumption ==
  /\ TargetOf \in [Calls -> Targets]
  /\ Kinds \subseteq AllKinds
  /\ RedisFails \in BOOLEAN
  /\ None \notin Calls \cup AllKinds

VARIABLES
  hasRedis,     \* Redis is configured
  row,          \* row[m]: upstream_models.enabled and model_state of m
  rowLock,      \* rowLock[m]: the call whose transaction holds the row
  cache,        \* cache[m]: the entry of key state:m, None if absent
  probe,        \* probe[m]: key probe:m exists
  past,         \* cooldowns that have passed
  pc,
  seen,         \* seen[c]: the entry or row the call has read
  kind,         \* kind[c]: what the attempt is reported as
  leasedAs,     \* leasedAs[c]: why Resolve let the call through
  count,        \* history: failures of m committed since its last success
  excuse        \* history: why the cached entry of m may be out of date

storeVars == <<row, rowLock, count>>
redisVars == <<cache, probe, excuse>>
callVars == <<seen, kind, leasedAs>>
vars == <<hasRedis, storeVars, redisVars, past, pc, callVars>>

Rows == [enabled : BOOLEAN, cooldown : Calls \cup {None}, failures : Nat,
         class : AllKinds \cup {""}]

NewRow == [enabled |-> TRUE, cooldown |-> None, failures |-> 0, class |-> ""]

(* MaterializeAccounts creates both rows of a model in one transaction. *)
Init ==
  /\ hasRedis \in BOOLEAN
  /\ row = [m \in Targets |-> NewRow]
  /\ rowLock = [m \in Targets |-> None]
  /\ cache = [m \in Targets |-> None]
  /\ probe = [m \in Targets |-> FALSE]
  /\ past = {}
  /\ pc = [c \in Calls |-> "idle"]
  /\ seen = [c \in Calls |-> None]
  /\ kind = [c \in Calls |-> None]
  /\ leasedAs = [c \in Calls |-> None]
  /\ count = [m \in Targets |-> 0]
  /\ excuse = [m \in Targets |-> {}]

Cooling(e) == e.cooldown # None /\ e.cooldown \notin past

(* probeEligible *)
ProbeEligible(e) ==
  e.class \notin {"auth", "rate_limit", "cooldown_until"} /\ e.failures > 0

Goto(c, l) == pc' = [pc EXCEPT ![c] = l]

(* The call ends here; what it has read goes with it. *)
End(c) ==
  /\ Goto(c, "done")
  /\ seen' = [seen EXCEPT ![c] = None]
-----------------------------------------------------------------------------
(* Evaluate. *)

StartEvaluate(c) ==
  /\ pc[c] = "idle"
  /\ Goto(c, IF hasRedis THEN "get" ELSE "read")
  /\ UNCHANGED <<hasRedis, storeVars, redisVars, past, callVars>>

(* A hit, a miss, or an error, after which the database is read and the    *)
(* cache left alone.                                                       *)
CacheGet(c) ==
  LET m == TargetOf[c] IN
  /\ pc[c] = "get"
  /\ \/ /\ cache[m] # None
        /\ seen' = [seen EXCEPT ![c] = cache[m]]
        /\ Goto(c, "judge")
     \/ /\ cache[m] = None
        /\ Goto(c, "miss")
        /\ UNCHANGED seen
     \/ /\ RedisFails
        /\ Goto(c, "read")
        /\ UNCHANGED seen
  /\ UNCHANGED <<hasRedis, storeVars, redisVars, past, kind, leasedAs>>

ReadRow(c) ==
  /\ pc[c] \in {"miss", "read"}
  /\ seen' = [seen EXCEPT ![c] = row[TargetOf[c]]]
  /\ Goto(c, IF pc[c] = "miss" THEN "fill" ELSE "judge")
  /\ UNCHANGED <<hasRedis, storeVars, redisVars, past, kind, leasedAs>>

(* The entry is what the row was when it was read. *)
Fill(c) ==
  LET m == TargetOf[c] IN
  /\ pc[c] = "fill"
  /\ \/ /\ cache' = [cache EXCEPT ![m] = seen[c]]
        /\ excuse' = [excuse EXCEPT ![m] = IF seen[c] = row[m] THEN {} ELSE {"late fill"}]
     \/ RedisFails /\ UNCHANGED <<cache, excuse>>
  /\ Goto(c, "judge")
  /\ UNCHANGED <<hasRedis, storeVars, probe, past, callVars>>

(* acquireProbe: SET NX, or a throw of the dice when Redis fails. *)
AcquireProbe(m, got) ==
  \/ /\ hasRedis /\ ~probe[m] /\ got
     /\ probe' = [probe EXCEPT ![m] = TRUE]
  \/ /\ ~got /\ (~hasRedis \/ probe[m])
     /\ UNCHANGED probe
  \/ /\ hasRedis /\ RedisFails
     /\ UNCHANGED probe

(* The candidate is available, excluded, or let through as the probe. *)
Judge(c) ==
  LET m == TargetOf[c]
      e == seen[c]
  IN
  /\ pc[c] = "judge"
  /\ \/ /\ e.enabled /\ ~Cooling(e)
        /\ Goto(c, "resolve")
        /\ UNCHANGED <<seen, probe>>
     \/ /\ e.enabled /\ Cooling(e) /\ ProbeEligible(e)
        /\ \/ AcquireProbe(m, TRUE) /\ Goto(c, "resolve") /\ UNCHANGED seen
           \/ AcquireProbe(m, FALSE) /\ End(c)
     \/ /\ ~e.enabled \/ (Cooling(e) /\ ~ProbeEligible(e))
        /\ End(c)
        /\ UNCHANGED probe
  /\ UNCHANGED <<hasRedis, storeVars, cache, excuse, past, kind, leasedAs>>
-----------------------------------------------------------------------------
(* Resolve, and ExecuteKiro, which admits a call by the same test. *)

(* Replay has the target in its own cache. *)
StartResolve(c) ==
  /\ pc[c] = "idle"
  /\ Goto(c, "resolve")
  /\ UNCHANGED <<hasRedis, storeVars, redisVars, past, callVars>>

Lease(c, why) ==
  /\ Goto(c, "leased")
  /\ leasedAs' = [leasedAs EXCEPT ![c] = why]

(* GetModel, and the account's own state, which may refuse at any time. *)
ResolveRead(c) ==
  LET e == row[TargetOf[c]] IN
  /\ pc[c] = "resolve"
  /\ \/ /\ e.enabled /\ ~Cooling(e)
        /\ Lease(c, "healthy")
        /\ seen' = [seen EXCEPT ![c] = None]
     \/ /\ e.enabled /\ Cooling(e) /\ hasRedis /\ ProbeEligible(e)
        /\ seen' = [seen EXCEPT ![c] = e]
        /\ Goto(c, "grant")
        /\ UNCHANGED leasedAs
     \/ End(c) /\ UNCHANGED leasedAs
  /\ UNCHANGED <<hasRedis, storeVars, redisVars, past, kind>>

(* probeGranted: some call holds the lock, or Redis cannot tell. *)
CheckGrant(c) ==
  /\ pc[c] = "grant"
  /\ \/ /\ probe[TargetOf[c]] \/ RedisFails
        /\ Lease(c, "probe")
        /\ UNCHANGED seen
     \/ /\ ~probe[TargetOf[c]]
        /\ End(c)
        /\ UNCHANGED leasedAs
  /\ UNCHANGED <<hasRedis, storeVars, redisVars, past, kind>>
-----------------------------------------------------------------------------
(* Report. A call reports once: a duplicate changes nothing, and a report  *)
(* whose transaction fails comes again.                                    *)

AttemptEnds(c, k) ==
  /\ pc[c] = "leased"
  /\ kind' = [kind EXCEPT ![c] = k]
  /\ seen' = [seen EXCEPT ![c] = None]
  /\ Goto(c, "apply")
  /\ UNCHANGED <<hasRedis, storeVars, redisVars, past, leasedAs>>

(* SELECT ... FOR UPDATE waits for the transaction that holds the row, and *)
(* holds it until it commits; NoRowLock is a plain SELECT.                 *)
NoRowLock(m, c) == UNCHANGED rowLock
LockRow(m, c) ==
  /\ rowLock[m] = None
  /\ rowLock' = [rowLock EXCEPT ![m] = c]

(* The end of the transaction.                                             *)
UnlockRow(m, c) == [rowLock EXCEPT ![m] = IF @ = c THEN None ELSE @]

(* Any failure and the outcomes that keep the cooldown read the row first. *)
ApplyReads(c) ==
  /\ pc[c] = "apply" /\ kind[c] \in Failures \cup Kept
  /\ LockRow(TargetOf[c], c)
  /\ seen' = [seen EXCEPT ![c] = row[TargetOf[c]]]
  /\ Goto(c, "upsert")
  /\ UNCHANGED <<hasRedis, row, count, redisVars, past, kind, leasedAs>>

(* The row a failure leaves; the statement itself increments the counter. *)
AfterFailure(c, r) == [r EXCEPT !.cooldown = c, !.failures = @ + 1, !.class = kind[c]]

(* The row "retrying" and "invalid_model" leave: what was read, but for    *)
(* the class. DropCooldown forgets the cooldown.                           *)
DropCooldown(c) == None
KeepCooldown(c) == seen[c].cooldown

AfterKept(c, r) ==
  [r EXCEPT !.cooldown = KeepCooldown(c), !.failures = seen[c].failures, !.class = kind[c]]

ApplyUpserts(c) ==
  LET m == TargetOf[c] IN
  /\ pc[c] = "upsert"
  /\ row' = [row EXCEPT ![m] = IF kind[c] \in Failures THEN AfterFailure(c, @)
                                                         ELSE AfterKept(c, @)]
  /\ count' = [count EXCEPT ![m] = IF kind[c] \in Failures THEN @ + 1 ELSE @]
  /\ rowLock' = UnlockRow(m, c)
  /\ seen' = [seen EXCEPT ![c] = None]
  /\ Goto(c, "invalidate")
  /\ UNCHANGED <<hasRedis, redisVars, past, kind, leasedAs>>

(* A success reads nothing; a context error leaves the row alone. *)
ApplyAtOnce(c) ==
  LET m == TargetOf[c] IN
  /\ pc[c] = "apply"
  /\ \/ /\ kind[c] = "normal" /\ rowLock[m] = None
        /\ row' = [row EXCEPT ![m].cooldown = None, ![m].failures = 0, ![m].class = ""]
        /\ count' = [count EXCEPT ![m] = 0]
     \/ /\ kind[c] = "context_exceeded"
        /\ UNCHANGED <<row, count>>
  /\ Goto(c, "invalidate")
  /\ UNCHANGED <<hasRedis, rowLock, redisVars, past, callVars>>

(* The transaction is rolled back; the report will be sent again. *)
ApplyFails(c) ==
  LET m == TargetOf[c] IN
  /\ pc[c] = "upsert"
  /\ rowLock' = UnlockRow(m, c)
  /\ seen' = [seen EXCEPT ![c] = None]
  /\ Goto(c, "apply")
  /\ UNCHANGED <<hasRedis, row, count, redisVars, past, kind, leasedAs>>

(* invalidateState, after every report that was applied;                   *)
(* InvalidateFailuresOnly leaves the entry to its TTL after a success.     *)
InvalidateFailuresOnly(c) == hasRedis /\ kind[c] \in Failures
Invalidates(c) == hasRedis

(* The DEL, the DEL that fails, and the crash before it.                   *)
Invalidate(c) ==
  LET m == TargetOf[c] IN
  /\ pc[c] = "invalidate"
  /\ \/ /\ Invalidates(c)
        /\ cache' = [cache EXCEPT ![m] = None]
        /\ excuse' = [excuse EXCEPT ![m] = {}]
     \/ /\ RedisFails /\ cache[m] # None
        /\ excuse' = [excuse EXCEPT ![m] = @ \cup {"lost del"}]
        /\ UNCHANGED cache
     \/ /\ ~Invalidates(c)
        /\ UNCHANGED <<cache, excuse>>
  /\ End(c)
  /\ UNCHANGED <<hasRedis, storeVars, probe, past, kind, leasedAs>>
-----------------------------------------------------------------------------
(* The environment. *)

CooldownPasses(c) ==
  /\ c \notin past
  /\ \E m \in Targets : c = row[m].cooldown
  /\ past' = past \cup {c}
  /\ UNCHANGED <<hasRedis, storeVars, redisVars, pc, callVars>>

(* probeLockTTL and stateCacheTTL. *)
ProbeExpires(m) ==
  /\ probe[m]
  /\ probe' = [probe EXCEPT ![m] = FALSE]
  /\ UNCHANGED <<hasRedis, storeVars, cache, excuse, past, pc, callVars>>

EntryExpires(m) ==
  /\ cache[m] # None
  /\ cache' = [cache EXCEPT ![m] = None]
  /\ excuse' = [excuse EXCEPT ![m] = {}]
  /\ UNCHANGED <<hasRedis, storeVars, probe, past, pc, callVars>>

(* The admin disables the account: its models are materialised again, and  *)
(* nothing is invalidated. This writes upstream_models and leaves a row of *)
(* model_state that exists alone, so it waits for no report.               *)
Disable(m) ==
  /\ row[m].enabled
  /\ row' = [row EXCEPT ![m].enabled = FALSE]
  /\ excuse' = [excuse EXCEPT ![m] = IF cache[m] = None THEN @ ELSE @ \cup {"admin"}]
  /\ UNCHANGED <<hasRedis, rowLock, count, cache, probe, past, pc, callVars>>

Quiescent == (\A c \in Calls : pc[c] = "done") /\ UNCHANGED vars

Next ==
  \/ \E c \in Calls :
       \/ StartEvaluate(c) \/ CacheGet(c) \/ ReadRow(c) \/ Fill(c) \/ Judge(c)
       \/ StartResolve(c) \/ ResolveRead(c) \/ CheckGrant(c)
       \/ \E k \in Kinds : AttemptEnds(c, k)
       \/ ApplyReads(c) \/ ApplyUpserts(c) \/ ApplyAtOnce(c) \/ ApplyFails(c)
       \/ Invalidate(c)
       \/ CooldownPasses(c)
  \/ \E m \in Targets : ProbeExpires(m) \/ EntryExpires(m) \/ Disable(m)
  \/ Quiescent

Spec == Init /\ [][Next]_vars
-----------------------------------------------------------------------------
(* Properties. *)

Entries == Rows \cup {None}

(* Among the types: a row is locked by a transaction that is running. *)
TypeOK ==
  /\ hasRedis \in BOOLEAN
  /\ row \in [Targets -> Rows]
  /\ rowLock \in [Targets -> Calls \cup {None}]
  /\ \A m \in Targets : rowLock[m] # None => pc[rowLock[m]] = "upsert"
  /\ cache \in [Targets -> Entries]
  /\ probe \in [Targets -> BOOLEAN]
  /\ past \subseteq Calls
  /\ pc \in [Calls -> {"idle", "get", "miss", "read", "fill", "judge", "resolve", "grant",
                       "leased", "apply", "upsert", "invalidate", "done"}]
  /\ seen \in [Calls -> Entries]
  /\ kind \in [Calls -> AllKinds \cup {None}]
  /\ leasedAs \in [Calls -> {"healthy", "probe", None}]
  /\ count \in [Targets -> Nat]
  /\ excuse \in [Targets -> SUBSET {"late fill", "lost del", "admin"}]

(* No report is lost to another that is applied at the same time, in any   *)
(* replica: the counter, which decides how long the next cooldown is, is   *)
(* the number of failures since the last success.                          *)
FailuresExact == \A m \in Targets : row[m].failures = count[m]

(* A cooldown in force ends by a success or gives way to the cooldown of   *)
(* another failure. The other outcomes, which write the row all the same,  *)
(* and the admin's changes leave it as it is.                              *)
CooldownKept ==
  [][\A m \in Targets :
       Cooling(row[m]) /\ row'[m].cooldown # row[m].cooldown =>
         \E c \in Calls : /\ TargetOf[c] = m /\ pc'[c] # pc[c]
                         /\ kind[c] \in Failures \cup {"normal"}]_vars

(* A cached entry that contradicts the database has one of the causes the  *)
(* design accepts until the TTL: a report committed just now, a fill that  *)
(* was read before a commit and written after its DEL, a DEL that was      *)
(* lost, a change by the admin.                                            *)
StaleForAReason ==
  \A m \in Targets :
    cache[m] \notin {None, row[m]} =>
      \/ excuse[m] # {}
      \/ \E c \in Calls : TargetOf[c] = m /\ pc[c] = "invalidate"

(* design/deployment-modes.md:196: a target that cools down because of a   *)
(* rate limit, its authentication or a quota is never probed, strictly.    *)
OnlyBackoffIsProbed ==
  \A c \in Calls :
    pc[c] = "leased" /\ leasedAs[c] = "probe" => kind[seen[c].cooldown] = "abnormal"

(* design/deployment-modes.md:176: however many replicas there are, one    *)
(* request at a time probes a target.                                      *)
OneProbeAtATime ==
  \A c, d \in Calls :
    /\ pc[c] = "leased" /\ leasedAs[c] = "probe"
    /\ pc[d] = "leased" /\ leasedAs[d] = "probe"
    /\ TargetOf[c] = TargetOf[d]
    => c = d
=============================================================================
