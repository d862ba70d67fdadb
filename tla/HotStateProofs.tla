--------------------------- MODULE HotStateProofs ---------------------------
(***************************************************************************)
(* Proofs about HotState, for any sets of models and calls: the types, the *)
(* counter of failures, the cooldowns and the cached entries. The first    *)
(* three rest on the row lock that ApplyReport takes with SELECT ... FOR   *)
(* UPDATE; the entries need none.                                          *)
(***************************************************************************)
EXTENDS HotState, TLAPS

(* Between its read and its write a report holds the row, of its own       *)
(* model, and what it has read of model_state is still what the row is.    *)
SeenIsCurrent(c) ==
  /\ seen[c] \in Rows
  /\ seen[c].cooldown = row[TargetOf[c]].cooldown
  /\ seen[c].failures = row[TargetOf[c]].failures

LockHeld ==
  \A c \in Calls : pc[c] = "upsert" =>
    /\ rowLock[TargetOf[c]] = c
    /\ SeenIsCurrent(c)
    /\ kind[c] \in Failures \cup Kept

(* Whoever holds a row, it is the row of its own model. *)
LockOwn == \A m \in Targets : rowLock[m] # None => TargetOf[rowLock[m]] = m

(* The inductive invariant. *)
IInv == TypeOK /\ LockHeld /\ LockOwn /\ FailuresExact
-----------------------------------------------------------------------------
(* The initial states satisfy the invariant: nobody holds a row. *)
LEMMA InitEstablishes == Init => IInv
<1> SUFFICES ASSUME Init PROVE IInv
  OBVIOUS
<1>1. NewRow \in Rows /\ NewRow.failures = 0
  BY DEF NewRow, Rows
<1>2. TypeOK
  BY <1>1 DEF Init, TypeOK, Entries
<1>3. LockHeld /\ LockOwn
  BY DEF Init, LockHeld, LockOwn
<1>4. FailuresExact
  BY <1>1 DEF Init, FailuresExact
<1> QED
  BY <1>2, <1>3, <1>4 DEF IInv

Labels == {"idle", "get", "miss", "read", "fill", "judge", "resolve", "grant",
           "leased", "apply", "upsert", "invalidate", "done"}
Excuses == {"late fill", "lost del", "admin"}

(* What a step of Evaluate or Resolve does: it leaves the database alone,  *)
(* is not inside a transaction, and moves one call.                        *)
Request(c) ==
  /\ UNCHANGED <<hasRedis, row, rowLock, count, kind, past>>
  /\ pc[c] # "upsert"
  /\ \E l \in Labels \ {"upsert"} :
       pc' = [pc EXCEPT ![c] = l]
  /\ \E e \in Entries : seen' = seen \/ seen' = [seen EXCEPT ![c] = e]
  /\ cache' \in [Targets -> Entries]
  /\ excuse' \in [Targets -> SUBSET Excuses]
  /\ probe' \in [Targets -> BOOLEAN]
  /\ leasedAs' \in [Calls -> {"healthy", "probe", None}]

(* Such a step keeps the invariant: running transactions do not notice it. *)
LEMMA RequestKeeps ==
  ASSUME IInv, NEW c \in Calls, Request(c)
  PROVE  IInv'
<1>0. /\ pc \in [Calls -> Labels] /\ seen \in [Calls -> Entries]
      /\ rowLock \in [Targets -> Calls \cup {None}]
  BY DEF IInv, TypeOK, Labels
<1>1. PICK l \in Labels \ {"upsert"} : pc' = [pc EXCEPT ![c] = l]
  BY DEF Request
<1>2. PICK e \in Entries : seen' = seen \/ seen' = [seen EXCEPT ![c] = e]
  BY DEF Request
<1>3. seen' \in [Calls -> Entries] /\ pc' \in [Calls -> Labels]
  BY <1>0, <1>1, <1>2
<1>4. \A d \in Calls : d # c => pc'[d] = pc[d] /\ seen'[d] = seen[d]
  BY <1>0, <1>1, <1>2
<1>5. pc[c] # "upsert" /\ pc'[c] # "upsert"
  BY <1>0, <1>1 DEF Request
<1>6. ASSUME NEW n \in Targets, rowLock'[n] # None
      PROVE  pc'[rowLock'[n]] = "upsert"
  <2>1. rowLock' = rowLock /\ rowLock[n] \in Calls
    BY <1>0, <1>6 DEF Request
  <2> QED
    BY <1>4, <1>5, <1>6, <2>1 DEF IInv, TypeOK
<1>7. TypeOK'
  BY <1>3, <1>6 DEF IInv, TypeOK, Request, Labels, Excuses
<1>8. LockHeld'
  BY <1>4, <1>5 DEF IInv, LockHeld, SeenIsCurrent, Request
<1>9. LockOwn' /\ FailuresExact'
  BY DEF IInv, LockOwn, FailuresExact, Request
<1> QED
  BY <1>7, <1>8, <1>9 DEF IInv

(* Each step of Evaluate and of Resolve is one of these. *)
LEMMA RequestSteps ==
  ASSUME TypeOK, NEW c \in Calls,
         \/ StartEvaluate(c) \/ CacheGet(c) \/ ReadRow(c) \/ Fill(c) \/ Judge(c)
         \/ StartResolve(c) \/ ResolveRead(c) \/ CheckGrant(c)
  PROVE  Request(c)
<1> DEFINE m == TargetOf[c]
<1> m \in Targets
  BY HotStateAssumption
<1> USE DEF TypeOK, Request, storeVars, redisVars, callVars, Goto, Entries, Labels, Excuses
<1>1. CASE StartEvaluate(c)
  BY <1>1 DEF StartEvaluate
<1>2. CASE CacheGet(c)
  BY <1>2 DEF CacheGet
<1>3. CASE ReadRow(c)
  BY <1>3 DEF ReadRow
<1>4. CASE Fill(c)
  <2>1. pc' = [pc EXCEPT ![c] = "judge"] /\ UNCHANGED <<seen, leasedAs, probe>>
    BY <1>4 DEF Fill
  <2>2. cache' \in [Targets -> Entries]
    BY <1>4 DEF Fill
  <2>3. {} \in SUBSET Excuses /\ {"late fill"} \in SUBSET Excuses
    OBVIOUS
  <2>4. \/ excuse' = excuse \/ excuse' = [excuse EXCEPT ![m] = {}]
        \/ excuse' = [excuse EXCEPT ![m] = {"late fill"}]
    BY <1>4 DEF Fill
  <2>5. excuse' \in [Targets -> SUBSET Excuses]
    BY <2>3, <2>4
  <2> QED
    BY <1>4, <2>1, <2>2, <2>5 DEF Fill
<1>5. CASE Judge(c)
  <2>1. probe' \in [Targets -> BOOLEAN]
    BY <1>5 DEF Judge, AcquireProbe
  <2> QED
    BY <1>5, <2>1 DEF Judge, End
<1>6. CASE StartResolve(c)
  BY <1>6 DEF StartResolve
<1>7. CASE ResolveRead(c)
  BY <1>7 DEF ResolveRead, Lease, End
<1>8. CASE CheckGrant(c)
  BY <1>8 DEF CheckGrant, Lease, End
<1> QED
  BY <1>1, <1>2, <1>3, <1>4, <1>5, <1>6, <1>7, <1>8
-----------------------------------------------------------------------------
(* The transactions. *)

(* A report reads the row when it has got it, and has it until it commits. *)
LEMMA ApplyReadsKeeps ==
  ASSUME IInv, NEW c \in Calls, ApplyReads(c)
  PROVE  IInv'
<1> DEFINE m == TargetOf[c]
<1>0. m \in Targets /\ c # None
  BY HotStateAssumption
<1>1. /\ pc \in [Calls -> Labels] /\ seen \in [Calls -> Entries] /\ row \in [Targets -> Rows]
      /\ rowLock \in [Targets -> Calls \cup {None}]
  BY DEF IInv, TypeOK, Labels
<1>2. /\ rowLock[m] = None /\ rowLock' = [rowLock EXCEPT ![m] = c]
      /\ pc[c] = "apply" /\ kind[c] \in Failures \cup Kept
      /\ pc' = [pc EXCEPT ![c] = "upsert"] /\ seen' = [seen EXCEPT ![c] = row[m]]
      /\ UNCHANGED <<hasRedis, row, count, cache, probe, excuse, past, kind, leasedAs>>
  BY DEF ApplyReads, LockRow, Goto, redisVars
<1>3. TypeOK'
  <2>1. seen' \in [Calls -> Entries] /\ pc' \in [Calls -> Labels]
    BY <1>0, <1>1, <1>2 DEF Entries, Labels
  <2>2. ASSUME NEW n \in Targets, rowLock'[n] # None
        PROVE  pc'[rowLock'[n]] = "upsert"
    BY <1>0, <1>1, <1>2, <2>2 DEF IInv, TypeOK
  <2> QED
    BY <1>0, <1>1, <1>2, <2>1, <2>2 DEF IInv, TypeOK, Labels
<1>4. LockHeld'
  <2> SUFFICES ASSUME NEW d \in Calls, pc'[d] = "upsert"
               PROVE  /\ rowLock'[TargetOf[d]] = d
                      /\ SeenIsCurrent(d)'
                      /\ kind'[d] \in Failures \cup Kept
    BY DEF LockHeld
  <2>1. CASE d = c
    BY <1>0, <1>1, <1>2, <2>1 DEF SeenIsCurrent
  <2>2. CASE d # c
    <3>1. pc[d] = "upsert" /\ rowLock[TargetOf[d]] = d
      BY <1>1, <1>2, <2>2 DEF IInv, LockHeld
    <3>2. TargetOf[d] # m /\ TargetOf[d] \in Targets
      BY <1>2, <3>1, HotStateAssumption
    <3> QED
      BY <1>1, <1>2, <2>2, <3>1, <3>2 DEF IInv, LockHeld, SeenIsCurrent
  <2> QED
    BY <2>1, <2>2
<1>5. LockOwn' /\ FailuresExact'
  BY <1>0, <1>1, <1>2 DEF IInv, LockOwn, FailuresExact
<1> QED
  BY <1>3, <1>4, <1>5 DEF IInv

(* A transaction that ends, with or without its write, has held the row:   *)
(* no other one was between its read and its write.                        *)
LEMMA TransactionEnds ==
  ASSUME IInv, NEW c \in Calls, pc[c] = "upsert",
         NEW l \in Labels \ {"upsert"}, pc' = [pc EXCEPT ![c] = l],
         rowLock' = UnlockRow(TargetOf[c], c), seen' = [seen EXCEPT ![c] = None],
         UNCHANGED <<hasRedis, cache, probe, excuse, past, kind, leasedAs>>,
         row' \in [Targets -> Rows], count' \in [Targets -> Nat],
         \A n \in Targets : n # TargetOf[c] => row'[n] = row[n] /\ count'[n] = count[n],
         row'[TargetOf[c]].failures = count'[TargetOf[c]]
  PROVE  IInv'
<1> DEFINE m == TargetOf[c]
<1>0. m \in Targets /\ c # None
  BY HotStateAssumption
<1>1. /\ pc \in [Calls -> Labels] /\ seen \in [Calls -> Entries]
      /\ rowLock \in [Targets -> Calls \cup {None}] /\ rowLock[m] = c
  BY DEF IInv, TypeOK, Labels, LockHeld
<1>2. rowLock' = [rowLock EXCEPT ![m] = None]
  BY <1>0, <1>1 DEF UnlockRow
<1>3. \A d \in Calls : pc'[d] = "upsert" =>
        d # c /\ pc[d] = "upsert" /\ TargetOf[d] # m /\ TargetOf[d] \in Targets
  BY <1>0, <1>1, HotStateAssumption DEF IInv, LockHeld
<1>4. TypeOK'
  <2>1. seen' \in [Calls -> Entries] /\ pc' \in [Calls -> Labels]
    BY <1>1 DEF Entries, Labels
  <2>2. ASSUME NEW n \in Targets, rowLock'[n] # None
        PROVE  pc'[rowLock'[n]] = "upsert"
    <3>1. n # m /\ rowLock'[n] = rowLock[n] /\ rowLock[n] \in Calls
      BY <1>0, <1>1, <1>2, <2>2
    <3>2. rowLock[n] # c /\ pc[rowLock[n]] = "upsert"
      BY <1>0, <2>2, <3>1 DEF IInv, LockOwn, TypeOK
    <3> QED
      BY <1>1, <3>1, <3>2
  <2>3. rowLock' \in [Targets -> Calls \cup {None}]
    BY <1>1, <1>2
  <2> QED
    BY <2>1, <2>2, <2>3 DEF IInv, TypeOK, Labels
<1>5. LockHeld'
  BY <1>1, <1>2, <1>3 DEF IInv, LockHeld, SeenIsCurrent
<1>6. LockOwn'
  BY <1>0, <1>1, <1>2 DEF IInv, LockOwn
<1>7. FailuresExact'
  BY DEF IInv, FailuresExact
<1> QED
  BY <1>4, <1>5, <1>6, <1>7 DEF IInv

(* The row after a failure: one more, whatever was read. *)
LEMMA FailureRow ==
  ASSUME NEW c \in Calls, NEW r \in Rows, kind[c] \in AllKinds
  PROVE  AfterFailure(c, r) \in Rows /\ AfterFailure(c, r).failures = r.failures + 1
<1>1. r.failures \in Nat
  BY DEF Rows
<1>2. PICK n \in Nat : n = r.failures + 1
  BY <1>1
<1>3. AfterFailure(c, r) = [r EXCEPT !.cooldown = c, !.failures = n, !.class = kind[c]]
  BY <1>2 DEF AfterFailure
<1>4. AfterFailure(c, r) \in Rows
  BY <1>3 DEF Rows
<1>5. AfterFailure(c, r).failures = n
  BY <1>3 DEF Rows
<1> QED
  BY <1>2, <1>4, <1>5

(* What a report that has read the row leaves: a failure is counted, and   *)
(* another outcome writes back what it has read.                           *)
LEMMA UpsertedRow ==
  ASSUME IInv, NEW c \in Calls, ApplyUpserts(c)
  PROVE  LET m == TargetOf[c] IN
         /\ row' \in [Targets -> Rows] /\ count' \in [Targets -> Nat]
         /\ \A n \in Targets : n # m => row'[n] = row[n] /\ count'[n] = count[n]
         /\ row'[m].failures = count'[m]
         /\ kind[c] \in Kept => row'[m].cooldown = row[m].cooldown
<1> DEFINE m == TargetOf[c]
<1>0. m \in Targets
  BY HotStateAssumption
<1>1. /\ row \in [Targets -> Rows] /\ row[m] \in Rows /\ count \in [Targets -> Nat]
      /\ row[m].failures = count[m] /\ count[m] \in Nat
      /\ seen[c].cooldown = row[m].cooldown /\ seen[c].failures = row[m].failures
      /\ kind[c] \in Failures \cup Kept
  BY <1>0 DEF ApplyUpserts, IInv, TypeOK, FailuresExact, LockHeld, SeenIsCurrent
<1>2. kind[c] \in AllKinds /\ Failures \cap Kept = {}
  BY <1>1 DEF AllKinds, Failures, Kept
<1>3. CASE kind[c] \in Failures
  <2>1. /\ row' = [row EXCEPT ![m] = AfterFailure(c, row[m])]
        /\ count' = [count EXCEPT ![m] = count[m] + 1]
    BY <1>0, <1>1, <1>3 DEF ApplyUpserts
  <2>2. AfterFailure(c, row[m]) \in Rows /\ AfterFailure(c, row[m]).failures = count[m] + 1
    BY <1>1, <1>2, FailureRow
  <2> QED
    BY <1>0, <1>1, <1>2, <1>3, <2>1, <2>2
<1>4. CASE kind[c] \in Kept
  <2>1. row' = [row EXCEPT ![m] = AfterKept(c, row[m])] /\ count' = count
    BY <1>0, <1>1, <1>2, <1>4 DEF ApplyUpserts
  <2>2. /\ AfterKept(c, row[m]) \in Rows
        /\ AfterKept(c, row[m]).failures = row[m].failures
        /\ AfterKept(c, row[m]).cooldown = row[m].cooldown
    BY <1>1, <1>2 DEF AfterKept, KeepCooldown, Rows
  <2> QED
    BY <1>0, <1>1, <2>1, <2>2
<1> QED
  BY <1>1, <1>3, <1>4
(* The two ends of a transaction. *)
LEMMA ApplyUpsertsKeeps ==
  ASSUME IInv, NEW c \in Calls, ApplyUpserts(c)
  PROVE  IInv'
<1>1. /\ pc[c] = "upsert" /\ pc' = [pc EXCEPT ![c] = "invalidate"]
      /\ rowLock' = UnlockRow(TargetOf[c], c) /\ seen' = [seen EXCEPT ![c] = None]
      /\ UNCHANGED <<hasRedis, cache, probe, excuse, past, kind, leasedAs>>
  BY DEF ApplyUpserts, Goto, redisVars
<1>2. "invalidate" \in Labels \ {"upsert"}
  BY DEF Labels
<1> QED
  BY <1>1, <1>2, UpsertedRow, TransactionEnds

(* A rollback gives the row back as it was. *)
LEMMA ApplyFailsKeeps ==
  ASSUME IInv, NEW c \in Calls, ApplyFails(c)
  PROVE  IInv'
<1>1. /\ pc[c] = "upsert" /\ pc' = [pc EXCEPT ![c] = "apply"]
      /\ rowLock' = UnlockRow(TargetOf[c], c) /\ seen' = [seen EXCEPT ![c] = None]
      /\ UNCHANGED <<hasRedis, cache, probe, excuse, past, kind, leasedAs, row, count>>
  BY DEF ApplyFails, Goto, redisVars
<1>2. /\ row' \in [Targets -> Rows] /\ count' \in [Targets -> Nat]
      /\ row'[TargetOf[c]].failures = count'[TargetOf[c]]
  BY <1>1, HotStateAssumption DEF IInv, TypeOK, FailuresExact
<1>3. "apply" \in Labels \ {"upsert"}
  BY DEF Labels
<1> QED
  BY <1>1, <1>2, <1>3, TransactionEnds

(* A change of a row by a statement that needs no read, and leaves alone   *)
(* what a transaction that is inside has read.                             *)
LEMMA RowChangeKeeps ==
  ASSUME IInv, NEW m \in Targets,
         \A d \in Calls : pc[d] = "upsert" /\ TargetOf[d] = m =>
           row'[m].cooldown = row[m].cooldown /\ row'[m].failures = row[m].failures,
         row' \in [Targets -> Rows], count' \in [Targets -> Nat],
         \A n \in Targets : n # m => row'[n] = row[n] /\ count'[n] = count[n],
         row'[m].failures = count'[m],
         pc' \in [Calls -> Labels],
         \A d \in Calls : pc[d] = "upsert" <=> pc'[d] = "upsert",
         excuse' \in [Targets -> SUBSET Excuses],
         UNCHANGED <<hasRedis, rowLock, cache, probe, past, seen, kind, leasedAs>>
  PROVE  IInv'
<1>1. TypeOK'
  <2>1. ASSUME NEW n \in Targets, rowLock'[n] # None
        PROVE  pc'[rowLock'[n]] = "upsert"
    <3>1. rowLock[n] \in Calls /\ pc[rowLock[n]] = "upsert"
      BY <2>1 DEF IInv, TypeOK
    <3> QED
      BY <3>1
  <2> QED
    BY <2>1 DEF IInv, TypeOK, Labels, Excuses
<1>2. LockHeld'
  <2> SUFFICES ASSUME NEW d \in Calls, pc'[d] = "upsert"
               PROVE  /\ rowLock'[TargetOf[d]] = d
                      /\ SeenIsCurrent(d)'
                      /\ kind'[d] \in Failures \cup Kept
    BY DEF LockHeld
  <2>1. TargetOf[d] \in Targets /\ pc[d] = "upsert"
    BY HotStateAssumption
  <2> QED
    BY <2>1 DEF IInv, LockHeld, SeenIsCurrent
<1>3. LockOwn'
  BY DEF IInv, LockOwn
<1>4. FailuresExact'
  BY DEF IInv, FailuresExact
<1> QED
  BY <1>1, <1>2, <1>3, <1>4 DEF IInv

(* A success, and an error that concerns the request only. *)
LEMMA ApplyAtOnceKeeps ==
  ASSUME IInv, NEW c \in Calls, ApplyAtOnce(c)
  PROVE  IInv'
<1> DEFINE m == TargetOf[c]
<1>0. m \in Targets
  BY HotStateAssumption
<1>1. /\ pc[c] = "apply" /\ pc' = [pc EXCEPT ![c] = "invalidate"]
      /\ UNCHANGED <<hasRedis, rowLock, cache, probe, excuse, past, seen, kind, leasedAs>>
  BY DEF ApplyAtOnce, Goto, redisVars, callVars
<1>2. /\ pc \in [Calls -> Labels] /\ pc' \in [Calls -> Labels]
      /\ row \in [Targets -> Rows] /\ row[m] \in Rows /\ count \in [Targets -> Nat]
      /\ excuse' \in [Targets -> SUBSET Excuses]
  BY <1>0, <1>1 DEF IInv, TypeOK, Labels, Excuses
<1>3. \A d \in Calls : pc[d] = "upsert" <=> pc'[d] = "upsert"
  BY <1>1, <1>2
<1>4. CASE kind[c] = "normal"
  <2>1. /\ rowLock[m] = None /\ count' = [count EXCEPT ![m] = 0]
        /\ row' = [row EXCEPT ![m] = [@ EXCEPT !.cooldown = None, !.failures = 0, !.class = ""]]
    BY <1>0, <1>2, <1>4 DEF ApplyAtOnce
  <2>2. PICK r \in Rows : /\ row' = [row EXCEPT ![m] = r]
                          /\ r.failures = 0
    <3>1. [row[m] EXCEPT !.cooldown = None, !.failures = 0, !.class = ""] \in Rows
      BY <1>2 DEF Rows
    <3>2. [row[m] EXCEPT !.cooldown = None, !.failures = 0, !.class = ""].failures = 0
      BY <1>2 DEF Rows
    <3> QED
      BY <1>0, <1>2, <2>1, <3>1, <3>2
  <2>3. \A d \in Calls : ~(pc[d] = "upsert" /\ TargetOf[d] = m)
    BY <2>1, HotStateAssumption DEF IInv, LockHeld
  <2> QED
    BY <1>0, <1>1, <1>2, <1>3, <2>1, <2>2, <2>3, RowChangeKeeps
<1>5. CASE kind[c] = "context_exceeded"
  <2>1. UNCHANGED <<row, count>>
    BY <1>5 DEF ApplyAtOnce
  <2>2. TypeOK'
    <3>1. ASSUME NEW n \in Targets, rowLock'[n] # None
          PROVE  pc'[rowLock'[n]] = "upsert"
      BY <1>1, <1>3, <3>1 DEF IInv, TypeOK
    <3> QED
      BY <1>1, <1>2, <2>1, <3>1 DEF IInv, TypeOK, Labels
  <2>3. LockHeld' /\ LockOwn' /\ FailuresExact'
    BY <1>1, <1>3, <2>1 DEF IInv, LockHeld, SeenIsCurrent, LockOwn, FailuresExact
  <2> QED
    BY <2>2, <2>3 DEF IInv
<1> QED
  BY <1>4, <1>5 DEF ApplyAtOnce

(* The admin's change touches nothing a report writes. *)
LEMMA DisableKeeps ==
  ASSUME IInv, NEW m \in Targets, Disable(m)
  PROVE  IInv'
<1>1. /\ row \in [Targets -> Rows] /\ row[m] \in Rows /\ count \in [Targets -> Nat]
      /\ row[m].failures = count[m] /\ excuse \in [Targets -> SUBSET Excuses]
      /\ pc \in [Calls -> Labels]
  BY DEF IInv, TypeOK, FailuresExact, Labels, Excuses
<1>2. /\ row' = [row EXCEPT ![m] = [@ EXCEPT !.enabled = FALSE]]
      /\ UNCHANGED <<hasRedis, rowLock, count, cache, probe, past, pc, seen, kind, leasedAs>>
  BY <1>1 DEF Disable, callVars
<1>3. PICK r \in Rows : /\ row' = [row EXCEPT ![m] = r]
                        /\ r.failures = row[m].failures /\ r.cooldown = row[m].cooldown
  <2>1. [row[m] EXCEPT !.enabled = FALSE] \in Rows
    BY <1>1 DEF Rows
  <2>2. /\ [row[m] EXCEPT !.enabled = FALSE].failures = row[m].failures
        /\ [row[m] EXCEPT !.enabled = FALSE].cooldown = row[m].cooldown
    BY <1>1 DEF Rows
  <2> QED
    BY <1>1, <1>2, <2>1, <2>2
<1>4. excuse' \in [Targets -> SUBSET Excuses]
  <2>1. excuse[m] \cup {"admin"} \in SUBSET Excuses
    BY <1>1 DEF Excuses
  <2>2. excuse' = excuse \/ excuse' = [excuse EXCEPT ![m] = excuse[m] \cup {"admin"}]
    BY <1>1 DEF Disable
  <2> QED
    BY <1>1, <2>1, <2>2
<1> QED
  BY <1>1, <1>2, <1>3, <1>4, RowChangeKeeps
-----------------------------------------------------------------------------
(* The other steps leave the database alone, and with it what a running    *)
(* transaction has read.                                                   *)
LEMMA RestKeeps ==
  ASSUME IInv,
         UNCHANGED <<hasRedis, row, rowLock, count, leasedAs>>,
         cache' \in [Targets -> Entries], probe' \in [Targets -> BOOLEAN],
         excuse' \in [Targets -> SUBSET Excuses], past' \subseteq Calls,
         pc' \in [Calls -> Labels], seen' \in [Calls -> Entries],
         kind' \in [Calls -> AllKinds \cup {None}],
         \A d \in Calls : pc[d] = "upsert" <=> pc'[d] = "upsert",
         \A d \in Calls : pc[d] = "upsert" => seen'[d] = seen[d] /\ kind'[d] = kind[d]
  PROVE  IInv'
<1>1. ASSUME NEW n \in Targets, rowLock'[n] # None
      PROVE  pc'[rowLock'[n]] = "upsert"
  <2>1. rowLock[n] \in Calls /\ pc[rowLock[n]] = "upsert"
    BY <1>1 DEF IInv, TypeOK
  <2> QED
    BY <2>1
<1>2. TypeOK'
  BY <1>1 DEF IInv, TypeOK, Labels, Excuses
<1>3. LockHeld' /\ LockOwn' /\ FailuresExact'
  BY DEF IInv, LockHeld, SeenIsCurrent, LockOwn, FailuresExact
<1> QED
  BY <1>2, <1>3 DEF IInv

(* What the leaves below need of the types. *)
LEMMA Types ==
  ASSUME IInv
  PROVE  /\ pc \in [Calls -> Labels] /\ seen \in [Calls -> Entries]
         /\ kind \in [Calls -> AllKinds \cup {None}] /\ cache \in [Targets -> Entries]
         /\ probe \in [Targets -> BOOLEAN] /\ excuse \in [Targets -> SUBSET Excuses]
         /\ past \subseteq Calls /\ None \in Entries
BY DEF IInv, TypeOK, Labels, Excuses, Entries

(* The outcome of an attempt is known: its report sets out. *)
LEMMA AttemptEndsKeeps ==
  ASSUME IInv, NEW c \in Calls, NEW k \in Kinds, AttemptEnds(c, k)
  PROVE  IInv'
<1>1. /\ pc[c] = "leased" /\ pc' = [pc EXCEPT ![c] = "apply"]
      /\ seen' = [seen EXCEPT ![c] = None] /\ kind' = [kind EXCEPT ![c] = k]
      /\ UNCHANGED <<hasRedis, row, rowLock, count, cache, probe, excuse, past, leasedAs>>
  BY DEF AttemptEnds, Goto, storeVars, redisVars
<1>2. k \in AllKinds \cup {None} /\ "apply" \in Labels
  BY HotStateAssumption DEF Labels
<1>3. /\ pc' \in [Calls -> Labels] /\ seen' \in [Calls -> Entries]
      /\ kind' \in [Calls -> AllKinds \cup {None}]
  BY <1>1, <1>2, Types
<1>4. \A d \in Calls : /\ pc[d] = "upsert" <=> pc'[d] = "upsert"
                       /\ pc[d] = "upsert" => seen'[d] = seen[d] /\ kind'[d] = kind[d]
  BY <1>1, Types
<1> QED
  BY <1>1, <1>3, <1>4, Types, RestKeeps

(* The cache is invalidated after the commit, outside the transaction. *)
LEMMA InvalidateKeeps ==
  ASSUME IInv, NEW c \in Calls, Invalidate(c)
  PROVE  IInv'
<1>1. /\ pc[c] = "invalidate" /\ pc' = [pc EXCEPT ![c] = "done"]
      /\ seen' = [seen EXCEPT ![c] = None]
      /\ UNCHANGED <<hasRedis, row, rowLock, count, kind, probe, past, leasedAs>>
  BY DEF Invalidate, End, Goto, storeVars
<1>2. /\ "done" \in Labels /\ TargetOf[c] \in Targets /\ {} \in SUBSET Excuses
  BY HotStateAssumption DEF Labels
<1>3. excuse[TargetOf[c]] \cup {"lost del"} \in SUBSET Excuses
  BY <1>2, Types DEF Excuses
<1>4. cache' = cache \/ cache' = [cache EXCEPT ![TargetOf[c]] = None]
  BY DEF Invalidate
<1>5. \/ excuse' = excuse \/ excuse' = [excuse EXCEPT ![TargetOf[c]] = {}]
      \/ excuse' = [excuse EXCEPT ![TargetOf[c]] = excuse[TargetOf[c]] \cup {"lost del"}]
  BY <1>2, Types DEF Invalidate
<1>6. cache' \in [Targets -> Entries] /\ excuse' \in [Targets -> SUBSET Excuses]
  BY <1>2, <1>3, <1>4, <1>5, Types
<1>7. pc' \in [Calls -> Labels] /\ seen' \in [Calls -> Entries]
  BY <1>1, <1>2, Types
<1>8. \A d \in Calls : /\ pc[d] = "upsert" <=> pc'[d] = "upsert"
                       /\ pc[d] = "upsert" => seen'[d] = seen[d] /\ kind'[d] = kind[d]
  BY <1>1, Types
<1> QED
  BY <1>1, <1>6, <1>7, <1>8, Types, RestKeeps

(* Time. *)
LEMMA TimeKeeps ==
  ASSUME IInv, NEW c \in Calls, CooldownPasses(c)
  PROVE  IInv'
BY Types, RestKeeps DEF CooldownPasses, storeVars, redisVars, callVars

(* Keys in Redis expire. *)
LEMMA ExpiryKeeps ==
  ASSUME IInv, NEW m \in Targets, ProbeExpires(m) \/ EntryExpires(m)
  PROVE  IInv'
<1>1. CASE ProbeExpires(m)
  <2>1. probe' \in [Targets -> BOOLEAN]
    BY <1>1, Types DEF ProbeExpires
  <2> QED
    BY <1>1, <2>1, Types, RestKeeps DEF ProbeExpires, storeVars, callVars
<1>2. CASE EntryExpires(m)
  <2>1. {} \in SUBSET Excuses
    OBVIOUS
  <2>2. cache' \in [Targets -> Entries] /\ excuse' \in [Targets -> SUBSET Excuses]
    BY <1>2, <2>1, Types DEF EntryExpires
  <2> QED
    BY <1>2, <2>2, Types, RestKeeps DEF EntryExpires, storeVars, callVars
<1> QED
  BY <1>1, <1>2

(* Every step keeps the invariant. *)
LEMMA StepKeeps == IInv /\ [Next]_vars => IInv'
<1> SUFFICES ASSUME IInv, [Next]_vars PROVE IInv'
  OBVIOUS
<1>1. ASSUME NEW c \in Calls,
             \/ StartEvaluate(c) \/ CacheGet(c) \/ ReadRow(c) \/ Fill(c) \/ Judge(c)
             \/ StartResolve(c) \/ ResolveRead(c) \/ CheckGrant(c)
      PROVE  IInv'
  <2>1. Request(c)
    BY <1>1, RequestSteps DEF IInv
  <2> QED
    BY <2>1, RequestKeeps
<1>2. ASSUME NEW c \in Calls, ApplyReads(c) PROVE IInv'
  BY <1>2, ApplyReadsKeeps
<1>3. ASSUME NEW c \in Calls, ApplyUpserts(c) PROVE IInv'
  BY <1>3, ApplyUpsertsKeeps
<1>4. ASSUME NEW c \in Calls, ApplyAtOnce(c) PROVE IInv'
  BY <1>4, ApplyAtOnceKeeps
<1>5. ASSUME NEW c \in Calls, ApplyFails(c) PROVE IInv'
  BY <1>5, ApplyFailsKeeps
<1>6. ASSUME NEW c \in Calls, NEW k \in Kinds, AttemptEnds(c, k) PROVE IInv'
  BY <1>6, AttemptEndsKeeps
<1>7. ASSUME NEW c \in Calls, Invalidate(c) \/ CooldownPasses(c) PROVE IInv'
  BY <1>7, InvalidateKeeps, TimeKeeps
<1>8. ASSUME NEW m \in Targets, ProbeExpires(m) \/ EntryExpires(m) PROVE IInv'
  BY <1>8, ExpiryKeeps
<1>9. ASSUME NEW m \in Targets, Disable(m) PROVE IInv'
  BY <1>9, DisableKeeps
<1>10. CASE UNCHANGED vars
  BY <1>10, Types, RestKeeps DEF vars, storeVars, redisVars, callVars
<1> QED
  BY <1>1, <1>2, <1>3, <1>4, <1>5, <1>6, <1>7, <1>8, <1>9, <1>10 DEF Next, Quiescent

(* The invariant holds throughout. *)
LEMMA Invariant == Spec => []IInv
  BY InitEstablishes, StepKeeps, PTL DEF Spec
-----------------------------------------------------------------------------
(* Every variable keeps its type, and a locked row has a transaction. *)
THEOREM TypeCorrect == Spec => []TypeOK
<1>1. IInv => TypeOK
  BY DEF IInv
<1> QED
  BY <1>1, Invariant, PTL

(* No concurrent report is lost: the counter in model_state is the number  *)
(* of failures since the last success.                                     *)
THEOREM CounterExact == Spec => []FailuresExact
<1>1. IInv => FailuresExact
  BY DEF IInv
<1> QED
  BY <1>1, Invariant, PTL

(* A cooldown in force ends only by the report of a success or a failure   *)
(* of the same model: the reports that keep it write back the one they     *)
(* have read, which the lock has kept current.                             *)
THEOREM CooldownHolds == Spec => CooldownKept
<1> DEFINE Kept1 ==
      \A m \in Targets :
        Cooling(row[m]) /\ row'[m].cooldown # row[m].cooldown =>
          \E c \in Calls : /\ TargetOf[c] = m /\ pc'[c] # pc[c]
                          /\ kind[c] \in Failures \cup {"normal"}
<1>1. IInv /\ [Next]_vars => [Kept1]_vars
  <2> SUFFICES ASSUME IInv, Next, NEW m \in Targets,
                      row'[m].cooldown # row[m].cooldown
               PROVE  \E c \in Calls : /\ TargetOf[c] = m /\ pc'[c] # pc[c]
                                      /\ kind[c] \in Failures \cup {"normal"}
    OBVIOUS
  <2>1. row' # row
    OBVIOUS
  <2>2. ASSUME NEW c \in Calls, ApplyUpserts(c)
        PROVE  TargetOf[c] = m /\ pc'[c] # pc[c] /\ kind[c] \in Failures
    <3>1. pc[c] = "upsert" /\ pc'[c] = "invalidate" /\ kind[c] \in Failures \cup Kept
      BY <2>2, Types DEF ApplyUpserts, Goto, IInv, LockHeld
    <3> QED
      BY <2>2, <3>1, UpsertedRow
  <2>3. ASSUME NEW c \in Calls, ApplyAtOnce(c)
        PROVE  TargetOf[c] = m /\ pc'[c] # pc[c] /\ kind[c] = "normal"
    <3>1. pc[c] = "apply" /\ pc'[c] = "invalidate"
      BY <2>3, Types DEF ApplyAtOnce, Goto
    <3>2. kind[c] = "normal" /\ \A n \in Targets : n # TargetOf[c] => row'[n] = row[n]
      BY <2>1, <2>3 DEF ApplyAtOnce, IInv, TypeOK
    <3> QED
      BY <3>1, <3>2
  <2>4. ASSUME NEW n \in Targets, Disable(n)
        PROVE  FALSE
    <3>1. row[n] \in Rows /\ row' = [row EXCEPT ![n] = [@ EXCEPT !.enabled = FALSE]]
      BY <2>4 DEF Disable, IInv, TypeOK
    <3>2. [row[n] EXCEPT !.enabled = FALSE].cooldown = row[n].cooldown
      BY <3>1 DEF Rows
    <3> QED
      BY <3>1, <3>2 DEF IInv, TypeOK
  <2>5. ASSUME NEW c \in Calls,
               \/ StartEvaluate(c) \/ CacheGet(c) \/ ReadRow(c) \/ Fill(c) \/ Judge(c)
               \/ StartResolve(c) \/ ResolveRead(c) \/ CheckGrant(c)
        PROVE  row' = row
    BY <2>5, RequestSteps DEF IInv, Request
  <2>6. ASSUME NEW c \in Calls,
               \/ ApplyReads(c) \/ ApplyFails(c) \/ Invalidate(c) \/ CooldownPasses(c)
               \/ \E k \in Kinds : AttemptEnds(c, k)
        PROVE  row' = row
    BY <2>6 DEF ApplyReads, ApplyFails, Invalidate, CooldownPasses, AttemptEnds, storeVars
  <2>7. ASSUME NEW n \in Targets, ProbeExpires(n) \/ EntryExpires(n)
        PROVE  row' = row
    BY <2>7 DEF ProbeExpires, EntryExpires, storeVars
  <2>8. Quiescent => row' = row
    BY DEF Quiescent, vars, storeVars
  <2> QED
    BY <2>1, <2>2, <2>3, <2>4, <2>5, <2>6, <2>7, <2>8 DEF Next
<1> QED
  BY <1>1, Invariant, PTL DEF Spec, CooldownKept
-----------------------------------------------------------------------------
(* The cache. Without Redis there is none, and nobody is on the way to it. *)
NoRedisNoCache ==
  ~hasRedis =>
    /\ \A m \in Targets : cache[m] = None
    /\ \A c \in Calls : pc[c] \notin {"get", "miss", "fill"}

Excused == StaleForAReason /\ NoRedisNoCache

(* A step that leaves rows and cache alone excuses what was excused: no    *)
(* call stops being about to invalidate by it.                             *)
LEMMA MoveExcuses ==
  ASSUME IInv, Excused, UNCHANGED <<hasRedis, row, cache, excuse>>,
         \A c \in Calls : pc[c] = "invalidate" => pc'[c] = pc[c],
         \A c \in Calls : pc'[c] \in {"get", "miss", "fill"} =>
           hasRedis \/ pc[c] \in {"get", "miss", "fill"}
  PROVE  Excused'
BY DEF Excused, StaleForAReason, NoRedisNoCache

(* A committed report excuses the entry of its model until its DEL.        *)
LEMMA CommitExcuses ==
  ASSUME IInv, Excused, NEW c \in Calls, pc[c] # "invalidate",
         pc' = [pc EXCEPT ![c] = "invalidate"],
         \A n \in Targets : n # TargetOf[c] => row'[n] = row[n],
         UNCHANGED <<hasRedis, cache, excuse>>
  PROVE  Excused'
<1>1. \A d \in Calls : pc[d] = "invalidate" => pc'[d] = "invalidate"
  BY Types
<1>2. pc'[c] = "invalidate" /\ \A d \in Calls : d # c => pc'[d] = pc[d]
  BY Types
<1> QED
  BY <1>1, <1>2 DEF Excused, StaleForAReason, NoRedisNoCache

(* The DEL and the lost DEL; a report that finds no entry needs neither.   *)
LEMMA InvalidateExcuses ==
  ASSUME IInv, Excused, NEW c \in Calls, Invalidate(c)
  PROVE  Excused'
<1> DEFINE m == TargetOf[c]
<1>1. /\ m \in Targets /\ pc[c] = "invalidate" /\ pc' = [pc EXCEPT ![c] = "done"]
      /\ UNCHANGED <<hasRedis, row>>
  BY HotStateAssumption DEF Invalidate, End, Goto, storeVars
<1>2. /\ pc'[c] = "done" /\ \A d \in Calls : d # c => pc'[d] = pc[d]
  BY <1>1, Types
<1>3. \A n \in Targets : n # m => cache'[n] = cache[n] /\ excuse'[n] = excuse[n]
  BY <1>1, Types DEF Invalidate
<1>4. cache'[m] = None \/ excuse'[m] # {}
  <2>1. CASE hasRedis /\ cache' = [cache EXCEPT ![m] = None]
    BY <1>1, <2>1, Types
  <2>2. CASE excuse' = [excuse EXCEPT ![m] = @ \cup {"lost del"}]
    BY <1>1, <2>2, Types
  <2>3. CASE ~hasRedis /\ UNCHANGED cache
    BY <1>1, <2>3 DEF Excused, NoRedisNoCache
  <2> QED
    BY <2>1, <2>2, <2>3 DEF Invalidate, Invalidates
<1>5. ASSUME NEW n \in Targets, n # m, cache'[n] \notin {None, row'[n]}
      PROVE  \/ excuse'[n] # {}
             \/ \E d \in Calls : TargetOf[d] = n /\ pc'[d] = "invalidate"
  <2>1. cache[n] \notin {None, row[n]} /\ excuse'[n] = excuse[n]
    BY <1>1, <1>3, <1>5
  <2> QED
    BY <1>2, <1>5, <2>1 DEF Excused, StaleForAReason
<1>6. StaleForAReason'
  BY <1>4, <1>5 DEF StaleForAReason
<1>7. NoRedisNoCache'
  <2>1. \A n \in Targets : cache[n] = None => cache'[n] = None
    BY <1>1, <1>3, Types DEF Invalidate
  <2> QED
    BY <1>1, <1>2, <2>1 DEF Excused, NoRedisNoCache
<1> QED
  BY <1>6, <1>7 DEF Excused

(* A fill is current, or late.                                             *)
LEMMA FillExcuses ==
  ASSUME IInv, Excused, NEW c \in Calls, Fill(c)
  PROVE  Excused'
<1> DEFINE m == TargetOf[c]
<1>1. /\ m \in Targets /\ pc[c] = "fill" /\ pc' = [pc EXCEPT ![c] = "judge"] /\ hasRedis
      /\ UNCHANGED <<hasRedis, row>>
  BY HotStateAssumption DEF Fill, Goto, storeVars, Excused, NoRedisNoCache
<1>2. \A d \in Calls : pc[d] = "invalidate" => pc'[d] = "invalidate"
  BY <1>1, Types
<1>3. CASE UNCHANGED <<cache, excuse>>
  BY <1>1, <1>2, <1>3 DEF Excused, StaleForAReason, NoRedisNoCache
<1>4. CASE /\ cache' = [cache EXCEPT ![m] = seen[c]]
           /\ excuse' = [excuse EXCEPT ![m] = IF seen[c] = row[m] THEN {} ELSE {"late fill"}]
  <2>1. cache'[m] = row[m] \/ excuse'[m] # {}
    BY <1>1, <1>4, Types
  <2>2. \A n \in Targets : n # m => cache'[n] = cache[n] /\ excuse'[n] = excuse[n]
    BY <1>4, Types
  <2> QED
    BY <1>1, <1>2, <2>1, <2>2 DEF Excused, StaleForAReason, NoRedisNoCache
<1> QED
  BY <1>3, <1>4 DEF Fill

(* Every step leaves the entries that contradict the rows excused.         *)
LEMMA StepExcuses == IInv /\ Excused /\ [Next]_vars => Excused'
<1> SUFFICES ASSUME IInv, Excused, [Next]_vars PROVE Excused'
  OBVIOUS
<1> USE DEF storeVars, redisVars, callVars, Goto
<1>1. ASSUME NEW c \in Calls,
             \/ StartEvaluate(c) \/ CacheGet(c) \/ ReadRow(c) \/ Judge(c)
             \/ StartResolve(c) \/ ResolveRead(c) \/ CheckGrant(c)
      PROVE  Excused'
  <2>1. UNCHANGED <<hasRedis, row, cache, excuse>>
    BY <1>1 DEF StartEvaluate, CacheGet, ReadRow, Judge, AcquireProbe, StartResolve,
                ResolveRead, CheckGrant
  <2>2. pc[c] # "invalidate" /\ \A d \in Calls : d # c => pc'[d] = pc[d]
    BY <1>1, Types DEF StartEvaluate, CacheGet, ReadRow, Judge, StartResolve, ResolveRead,
                       CheckGrant, Lease, End
  <2>3. pc'[c] \in {"get", "miss", "fill"} => hasRedis \/ pc[c] \in {"get", "miss", "fill"}
    BY <1>1, Types DEF StartEvaluate, CacheGet, ReadRow, Judge, StartResolve, ResolveRead,
                       CheckGrant, Lease, End
  <2> QED
    BY <2>1, <2>2, <2>3, MoveExcuses
<1>2. ASSUME NEW c \in Calls, Fill(c) PROVE Excused'
  BY <1>2, FillExcuses
<1>3. ASSUME NEW c \in Calls,
             \/ ApplyReads(c) \/ ApplyFails(c) \/ \E k \in Kinds : AttemptEnds(c, k)
      PROVE  Excused'
  <2>1. UNCHANGED <<hasRedis, row, cache, excuse>>
    BY <1>3 DEF ApplyReads, ApplyFails, AttemptEnds
  <2>2. /\ pc[c] # "invalidate" /\ \A d \in Calls : d # c => pc'[d] = pc[d]
        /\ pc'[c] \in {"apply", "upsert"}
    BY <1>3, Types DEF ApplyReads, ApplyFails, AttemptEnds
  <2> QED
    BY <2>1, <2>2, MoveExcuses
<1>4. ASSUME NEW c \in Calls, ApplyUpserts(c) PROVE Excused'
  <2>1. \A n \in Targets : n # TargetOf[c] => row'[n] = row[n]
    BY <1>4, UpsertedRow
  <2> QED
    BY <1>4, <2>1, CommitExcuses DEF ApplyUpserts
<1>5. ASSUME NEW c \in Calls, ApplyAtOnce(c) PROVE Excused'
  <2>1. \A n \in Targets : n # TargetOf[c] => row'[n] = row[n]
    BY <1>5 DEF ApplyAtOnce, IInv, TypeOK
  <2> QED
    BY <1>5, <2>1, CommitExcuses DEF ApplyAtOnce
<1>6. ASSUME NEW c \in Calls, Invalidate(c) PROVE Excused'
  BY <1>6, InvalidateExcuses
<1>7. ASSUME NEW c \in Calls, CooldownPasses(c) PROVE Excused'
  BY <1>7, MoveExcuses DEF CooldownPasses
<1>8. ASSUME NEW m \in Targets, ProbeExpires(m) PROVE Excused'
  BY <1>8, MoveExcuses DEF ProbeExpires
<1>9. ASSUME NEW m \in Targets, EntryExpires(m) PROVE Excused'
  BY <1>9, Types DEF EntryExpires, Excused, StaleForAReason, NoRedisNoCache
<1>10. ASSUME NEW m \in Targets, Disable(m) PROVE Excused'
  <2>1. cache[m] = None \/ excuse'[m] # {}
    BY <1>10, Types DEF Disable
  <2>2. \A n \in Targets : n # m => row'[n] = row[n] /\ excuse'[n] = excuse[n]
    BY <1>10, Types DEF Disable, IInv, TypeOK
  <2> QED
    BY <1>10, <2>1, <2>2 DEF Disable, Excused, StaleForAReason, NoRedisNoCache
<1>11. CASE UNCHANGED vars
  BY <1>11, MoveExcuses DEF vars
<1> QED
  BY <1>1, <1>2, <1>3, <1>4, <1>5, <1>6, <1>7, <1>8, <1>9, <1>10, <1>11 DEF Next, Quiescent

(* A cached entry contradicts the database only for a reason the design    *)
(* accepts until the TTL, for any number of calls and models.              *)
THEOREM StaleIsExcused == Spec => []StaleForAReason
<1>1. Init => Excused
  BY DEF Init, Excused, StaleForAReason, NoRedisNoCache
<1>2. Excused => StaleForAReason
  BY DEF Excused
<1> QED
  BY <1>1, <1>2, StepExcuses, Invariant, PTL DEF Spec
=============================================================================
