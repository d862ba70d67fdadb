--------------------------- MODULE CatalogProofs ---------------------------
(***************************************************************************)
(* Proofs about Catalog, for any number of accounts, replicas, requests    *)
(* and crashes. That the catalog follows the accounts and that a model's   *)
(* state outlives a sync is proved for accounts whose models fit one       *)
(* DELETE of deleteStaleModels; with more of them both are false.          *)
(***************************************************************************)
EXTENDS Catalog, FiniteSetTheorems, SequenceTheorems, TLAPS

Requested == [kind : {"create", "update", "test", "delete"}, name : Names]

(* Whoever is under way knows what it is about, and what it will write.    *)
Busy ==
  \A h \in Handlers : /\ pc[h] # "idle" => op[h] \in Requested
                      /\ pc[h] = "write" => draft[h] \in Accounts

(* What a worker listed is what the accounts are, if none changed since.   *)
ListIsCurrent ==
  \A w \in Workers : pc[w] \in {"sync", "tx"} /\ listed[w] = version => list[w] = accounts

(* A transaction writes rows that its list asks for, and has still to      *)
(* materialize accounts of that list.                                      *)
Asked(w, k) == list[w][k[1]] # None /\ k[2] \in list[w][k[1]].models
WritesListed ==
  \A w \in Workers : pc[w] = "tx" =>
    /\ \A k \in tx[w].put : Asked(w, k)
    /\ \A n \in tx[w].todo : list[w][n] # None

(* What it deletes its list does not ask for, or the account was gone when *)
(* it began; what the list asks for it has written once it is done with    *)
(* the account, and does not delete.                                       *)
Justified(w) ==
  \A k \in tx[w].cut \cup tx[w].aim :
    k[1] \in tx[w].gone \/ (list[w][k[1]] # None /\ k[2] \notin list[w][k[1]].models)
Putting(w) ==
  \A k \in Keys : k[1] \notin tx[w].todo /\ Asked(w, k) => k \in tx[w].put \ tx[w].aim
Open == \A w \in Workers : pc[w] = "tx" => Justified(w) /\ Putting(w)

(* With a list that is still what the accounts are, and no other list      *)
(* committed meanwhile, it has found every row of the accounts it is done  *)
(* with.                                                                   *)
Touched(w) == tx[w].put \cup tx[w].cut \cup tx[w].aim
Cleaning ==
  \A w \in Workers : pc[w] = "tx" /\ listed[w] = version /\ ~tx[w].crossed =>
    \A k \in Keys : k[1] \notin tx[w].todo /\ rows[k[1]][k[2]] # None => k \in Touched(w)

(* A newest sync that nobody overtook has made the rows.                   *)
SyncedFollows ==
  synced = version /\ spoiled \subseteq {"crash"} => rows = RowsOf(accounts)

(* A worker that is going to commit what the accounts are, unless it fails *)
(* or somebody else changes them.                                          *)
WillSync(w) ==
  \/ /\ w \in Handlers
     /\ \/ pc[w] = "fresh" /\ op[w].kind # "test" /\ accounts[op[w].name] # None
        \/ pc[w] = "reconfigure" /\ op[w].kind # "test" /\ draft[w] # None
        \/ pc[w] = "remove"
  \/ w \in Replicas /\ pc[w] = "down"
  \/ pc[w] = "list"
  \/ pc[w] \in {"sync", "tx"} /\ listed[w] = version

SomebodyWillSync ==
  synced < version /\ spoiled \subseteq {"crash"} => \E w \in Workers : WillSync(w)

(* The inductive invariant.                                                *)
IInv ==
  /\ TypeOK /\ Busy /\ WritesListed /\ Open
  /\ ListIsCurrent /\ Cleaning /\ SyncedFollows /\ SomebodyWillSync
-----------------------------------------------------------------------------
(* The ids of a set are in its sequence, once each.                        *)
LEMMA SeqOfSet ==
  ASSUME NEW S, IsFiniteSet(S)
  PROVE  /\ SetToSeq(S) \in [1..Cardinality(S) -> S]
         /\ Cardinality(S) \in Nat
         /\ Len(SetToSeq(S)) = Cardinality(S)
         /\ \A x \in S : \E i \in 1..Cardinality(S) : SetToSeq(S)[i] = x
<1> DEFINE n == Cardinality(S)
<1>1. n \in Nat /\ ExistsBijection(1..n, S)
  BY FS_CardinalityType
<1>2. PICK g \in Bijection(1..n, S) : TRUE
  BY <1>1 DEF ExistsBijection
<1>3. g \in [1..n -> S] /\ IsInjective(g)
  BY <1>2 DEF Bijection, Injection, IsInjective
<1>4. SetToSeq(S) \in [1..n -> S] /\ IsInjective(SetToSeq(S))
  BY <1>3 DEF SetToSeq
<1>5. SetToSeq(S) \in Injection(1..n, S)
  BY <1>4 DEF Injection, IsInjective
<1>6. IsFiniteSet(1..n) /\ Cardinality(1..n) = n
  BY <1>1, FS_Interval
<1>7. SetToSeq(S) \in Surjection(1..n, S)
  BY <1>5, <1>6, FS_Injection
<1>8. \A x \in S : \E i \in 1..n : SetToSeq(S)[i] = x
  BY <1>7 DEF Surjection
<1>9. Len(SetToSeq(S)) = n
  BY <1>1, <1>4, LenProperties, SeqDef
<1> QED
  BY <1>1, <1>4, <1>8, <1>9

(* A set that fits one chunk survives deleteStaleModels.                   *)
LEMMA AllSurvive ==
  ASSUME NEW keep, IsFiniteSet(keep), Cardinality(keep) <= Chunk
  PROVE  Surviving(keep) = keep
<1> DEFINE ids == SetToSeq(keep)
           n == Cardinality(keep)
<1>1. /\ ids \in [1..n -> keep] /\ n \in Nat /\ Len(ids) = n
      /\ \A x \in keep : \E i \in 1..n : ids[i] = x
  BY SeqOfSet
<1>2. Chunk \in Nat \ {0}
  BY CatalogAssumption
<1>3. ASSUME NEW m \in keep, NEW c \in Chunks(keep)
      PROVE  m \in c
  <2>1. PICK k \in 0 .. (n - 1) \div Chunk :
          c = {ids[i] : i \in (Chunk * k + 1 .. Chunk * (k + 1)) \cap DOMAIN ids}
    BY <1>1 DEF Chunks
  <2>2. PICK i \in 1..n : ids[i] = m
    BY <1>1
  <2>3. n - 1 \in 0 .. Chunk - 1
    BY <1>1, <1>2, <2>2
  <2>4. (n - 1) \div Chunk = 0
    BY <1>2, <2>3, SMTT(30)
  <2>5. k = 0
    BY <2>1, <2>4
  <2>6. i \in (Chunk * k + 1 .. Chunk * (k + 1)) \cap DOMAIN ids
    BY <1>1, <1>2, <2>2, <2>5
  <2> QED
    BY <2>1, <2>2, <2>6
<1> QED
  BY <1>3 DEF Surviving
-----------------------------------------------------------------------------
LEMMA Asm == /\ ReplicaOf \in [Handlers -> Replicas]
             /\ Handlers \cap Replicas = {}
             /\ MaxCrashes \in Nat
             /\ None \notin Bases /\ None \notin Accounts
             /\ IsFiniteSet(Models)
BY CatalogAssumption

(* Where a worker can be after a sync.                                     *)
LEMMA AfterSyncStage == \A w, ok : AfterSync(w, ok) \in {"load", "down", "done", "failed"}
BY DEF AfterSync

TxType == [put : SUBSET Keys, cut : SUBSET Keys, aim : SUBSET Keys,
           todo : SUBSET Names, gone : SUBSET Names, crossed : BOOLEAN]

(* TypeOK in three parts.                                                  *)
TablesTyped ==
  /\ accounts \in [Names -> {None} \cup Accounts]
  /\ rows \in [Names -> [Models -> {None} \cup Bases]]
  /\ troubled \subseteq {k \in Keys : rows[k[1]][k[2]] # None}
  /\ roster \in [Replicas -> [Names -> {None} \cup Accounts]]
WorkersTyped ==
  /\ pc \in [Workers -> Stages]
  /\ op \in [Handlers -> {None} \cup Requested]
  /\ draft \in [Handlers -> {None} \cup Accounts]
  /\ list \in [Workers -> [Names -> {None} \cup Accounts]]
CountersTyped ==
  /\ crashes \in 0 .. MaxCrashes
  /\ version \in Nat /\ listed \in [Workers -> 0 .. version] /\ synced \in 0 .. version
  /\ spoiled \subseteq {"test", "late", "crossed", "failed", "crash"}
  /\ tx \in [Workers -> TxType]

LEMMA Parts == TypeOK <=> TablesTyped /\ WorkersTyped /\ CountersTyped
BY DEF TypeOK, TablesTyped, WorkersTyped, CountersTyped, Requested, TxType

LEMMA PartsAfter == TypeOK' <=> TablesTyped' /\ WorkersTyped' /\ CountersTyped'
BY DEF TypeOK, TablesTyped, WorkersTyped, CountersTyped, Requested, TxType

(* A request that begins.                                                  *)
LEMMA RequestTypes ==
  ASSUME TypeOK, NEW h \in Handlers, NEW n \in Names,
         NEW kind \in {"create", "update", "test", "delete"}, Request(h, kind, n)
  PROVE  /\ op' \in [Handlers -> {None} \cup Requested]
         /\ op'[h] = [kind |-> kind, name |-> n] /\ op'[h] \in Requested
         /\ \A g \in Handlers : g # h => op'[g] = op[g]
         /\ pc[h] = "idle"
BY DEF Request, TypeOK, Requested
-----------------------------------------------------------------------------
(* Every step keeps the types. First what only the handlers touch.         *)
LEMMA HandlerTypes ==
  ASSUME TypeOK, Busy, NEW h \in Handlers,
         \/ \E n \in Names :
              \/ \E a \in Accounts : Create(h, n, a) \/ Read(h, n, "update", a) \/ Read(h, n, "test", a)
              \/ Delete(h, n)
         \/ Write(h) \/ Fresh(h) \/ FreshFails(h) \/ Reconfigure(h)
         \/ DeleteAccount(h) \/ RemoveFromRoster(h)
  PROVE  TypeOK' /\ Busy'
<1> USE Asm
<1> USE DEF Goto, Store, tables, history, Stages, Workers
<1>1. ASSUME NEW n \in Names, NEW a \in Accounts, Create(h, n, a)
      PROVE  TypeOK' /\ Busy'
  <2>1. Request(h, "create", n)
    BY <1>1 DEF Create
  <2>2. op' \in [Handlers -> {None} \cup Requested]
    BY <2>1, RequestTypes
  <2>3. TypeOK'
    <3>1. TablesTyped'
      BY <1>1, <2>2, Parts DEF Create, TablesTyped
    <3>2. WorkersTyped'
      BY <1>1, <2>2, Parts DEF Create, WorkersTyped, TablesTyped
    <3>3. CountersTyped'
      BY <1>1, <2>2, Parts DEF Create, CountersTyped
    <3> QED
      BY <3>1, <3>2, <3>3, PartsAfter
  <2>4. Busy'
    <3>1. /\ pc'[h] \in {"fresh", "refused"} /\ draft' = draft
          /\ \A g \in Handlers : g # h => pc'[g] = pc[g]
      BY <1>1 DEF Create, TypeOK
    <3>2. op'[h] \in Requested /\ \A g \in Handlers : g # h => op'[g] = op[g]
      BY <2>1, RequestTypes
    <3> QED
      BY <3>1, <3>2 DEF Busy
  <2> QED
    BY <2>3, <2>4
<1>2. ASSUME NEW n \in Names, NEW a \in Accounts, NEW kind \in {"update", "test"},
             Read(h, n, kind, a)
      PROVE  TypeOK' /\ Busy'
  <2>1. Request(h, kind, n) /\ kind \in {"create", "update", "test", "delete"}
    BY <1>2 DEF Read
  <2>2. /\ op' \in [Handlers -> {None} \cup Requested]
        /\ op'[h] \in Requested /\ \A g \in Handlers : g # h => op'[g] = op[g]
    BY <2>1 DEF Request, TypeOK, Requested
  <2>3. TypeOK'
    <3>1. TablesTyped'
      BY <1>2, <2>2, Parts DEF Read, TablesTyped
    <3>2. WorkersTyped'
      <4>1. pc \in [Workers -> Stages] /\ draft \in [Handlers -> {None} \cup Accounts]
        BY Parts DEF WorkersTyped
      <4>2. pc' \in [Workers -> Stages]
        BY <1>2, <4>1 DEF Read
      <4>3. draft' \in [Handlers -> {None} \cup Accounts]
        BY <1>2, <4>1 DEF Read
      <4> QED
        BY <1>2, <2>2, <4>2, <4>3, Parts DEF Read, WorkersTyped
    <3>3. CountersTyped'
      BY <1>2, <2>2, Parts DEF Read, CountersTyped
    <3> QED
      BY <3>1, <3>2, <3>3, PartsAfter
  <2>4. Busy'
    <3>1. /\ pc'[h] = "write" => draft'[h] \in Accounts
          /\ \A g \in Handlers : g # h => pc'[g] = pc[g] /\ draft'[g] = draft[g]
      BY <1>2 DEF Read, TypeOK
    <3> QED
      BY <2>2, <3>1 DEF Busy
  <2> QED
    BY <2>3, <2>4
<1>3. ASSUME NEW n \in Names, Delete(h, n)
      PROVE  TypeOK' /\ Busy'
  <2>1. Request(h, "delete", n)
    BY <1>3 DEF Delete
  <2>2. op' \in [Handlers -> {None} \cup Requested]
    BY <2>1, RequestTypes
  <2>3. TypeOK'
    <3>1. TablesTyped'
      BY <1>3, <2>2, Parts DEF Delete, TablesTyped
    <3>2. WorkersTyped'
      BY <1>3, <2>2, Parts DEF Delete, WorkersTyped, TablesTyped
    <3>3. CountersTyped'
      BY <1>3, <2>2, Parts DEF Delete, CountersTyped
    <3> QED
      BY <3>1, <3>2, <3>3, PartsAfter
  <2>4. Busy'
    BY <1>3, <2>1, RequestTypes DEF Delete, TypeOK, Busy
  <2> QED
    BY <2>3, <2>4
<1>4. ASSUME Write(h)
      PROVE  TypeOK' /\ Busy'
  <2>1. pc[h] = "write" /\ draft[h] \in Accounts
    BY <1>4 DEF Write, Busy
  <2>2. TypeOK'
    <3>1. TablesTyped'
      BY <1>4, <2>1, Parts DEF Write, TablesTyped
    <3>2. WorkersTyped'
      BY <1>4, <2>1, Parts DEF Write, WorkersTyped, TablesTyped
    <3>3. CountersTyped'
      BY <1>4, <2>1, Parts DEF Write, CountersTyped
    <3> QED
      BY <3>1, <3>2, <3>3, PartsAfter
  <2>3. Busy'
    BY <1>4, <2>1 DEF Write, TypeOK, Busy
  <2> QED
    BY <2>2, <2>3
<1>5. ASSUME Fresh(h)
      PROVE  TypeOK' /\ Busy'
  <2>1. op[h].name \in Names
    BY <1>5 DEF Fresh, Busy, Requested
  <2>2. TypeOK'
    BY <1>5, <2>1 DEF Fresh, TypeOK
  <2>3. Busy'
    BY <1>5 DEF Fresh, TypeOK, Busy
  <2> QED
    BY <2>2, <2>3
<1>6. ASSUME FreshFails(h)
      PROVE  TypeOK' /\ Busy'
  BY <1>6 DEF FreshFails, TypeOK, Busy
<1>7. ASSUME Reconfigure(h)
      PROVE  TypeOK' /\ Busy'
  <2>1. TypeOK'
    <3>1. TablesTyped'
      <4>1. roster \in [Replicas -> [Names -> {None} \cup Accounts]]
        BY Parts DEF TablesTyped
      <4>2. draft[h] \in {None} \cup Accounts
        BY Parts DEF WorkersTyped
      <4>3. roster' \in [Replicas -> [Names -> {None} \cup Accounts]]
        BY <1>7, <4>1, <4>2 DEF Reconfigure
      <4> QED
        BY <1>7, <4>3, Parts DEF Reconfigure, TablesTyped
    <3>2. WorkersTyped'
      BY <1>7, Parts DEF Reconfigure, AfterReconfigure, WorkersTyped, TablesTyped
    <3>3. CountersTyped'
      BY <1>7, Parts DEF Reconfigure, AfterReconfigure, CountersTyped
    <3> QED
      BY <3>1, <3>2, <3>3, PartsAfter
  <2>2. Busy'
    BY <1>7 DEF Reconfigure, AfterReconfigure, TypeOK, Busy
  <2> QED
    BY <2>1, <2>2
<1>8. ASSUME DeleteAccount(h)
      PROVE  TypeOK' /\ Busy'
  <2>1. TypeOK'
    <3>1. TablesTyped'
      BY <1>8, Parts DEF DeleteAccount, TablesTyped
    <3>2. WorkersTyped'
      BY <1>8, Parts DEF DeleteAccount, WorkersTyped, TablesTyped
    <3>3. CountersTyped'
      BY <1>8, Parts DEF DeleteAccount, CountersTyped
    <3> QED
      BY <3>1, <3>2, <3>3, PartsAfter
  <2>2. Busy'
    BY <1>8 DEF DeleteAccount, TypeOK, Busy
  <2> QED
    BY <2>1, <2>2
<1>9. ASSUME RemoveFromRoster(h)
      PROVE  TypeOK' /\ Busy'
  BY <1>9 DEF RemoveFromRoster, TypeOK, Busy
<1> QED
  BY <1>1, <1>2, <1>3, <1>4, <1>5, <1>6, <1>7, <1>8, <1>9

(* What a transaction leaves written and deleted when it commits.          *)
PutBy(w) == tx[w].put \ tx[w].aim
CutBy(w) == tx[w].cut \cup tx[w].aim
Row(w, k) == IF k \in PutBy(w) THEN list[w][k[1]].base
             ELSE IF k \in CutBy(w) THEN None ELSE rows[k[1]][k[2]]

(* It changes nothing else, but takes rows from what the DELETEs of others *)
(* have found, and marks those that have listed something else.            *)
LEMMA CommitFacts ==
  ASSUME TypeOK, NEW w \in Workers, Commit(w)
  PROVE  /\ pc[w] = "tx" /\ tx[w].todo = {}
         /\ pc'[w] \in {"load", "down", "done", "failed"} /\ tx'[w] = NoTx
         /\ rows' \in [Names -> [Models -> {None} \cup {list[w][n].base : n \in Names} \cup Bases]]
         /\ \A k \in Keys : rows'[k[1]][k[2]] = Row(w, k)
         /\ troubled' = troubled \ CutBy(w)
         /\ \A v \in Workers : v # w =>
              /\ pc'[v] = pc[v] /\ list'[v] = list[v] /\ listed'[v] = listed[v]
              /\ tx'[v] \in TxType
              /\ tx'[v].put = tx[v].put /\ tx'[v].cut = tx[v].cut
              /\ tx'[v].aim = tx[v].aim \ CutBy(w)
              /\ tx'[v].todo = tx[v].todo /\ tx'[v].gone = tx[v].gone
              /\ tx'[v].crossed = (tx[v].crossed \/ (pc[v] = "tx" /\ list[v] # list[w]))
<1>1. /\ pc \in [Workers -> Stages] /\ tx \in [Workers -> TxType]
      /\ list \in [Workers -> [Names -> {None} \cup Accounts]]
      /\ listed \in [Workers -> 0 .. version]
      /\ rows \in [Names -> [Models -> {None} \cup Bases]]
  BY Parts DEF TablesTyped, WorkersTyped, CountersTyped
<1>2. /\ pc[w] = "tx" /\ tx[w].todo = {} /\ troubled' = troubled \ CutBy(w)
      /\ pc' = [pc EXCEPT ![w] = AfterSync(w, TRUE)]
      /\ list' = [list EXCEPT ![w] = Nobody] /\ listed' = [listed EXCEPT ![w] = 0]
  BY DEF Commit, Goto, CutBy
<1>3. pc'[w] \in {"load", "down", "done", "failed"}
  BY <1>1, <1>2, AfterSyncStage
<1>4. rows' = [n \in Names |-> [m \in Models |-> Row(w, <<n, m>>)]]
  BY DEF Commit, Row, PutBy, CutBy
<1>5. \A k \in Keys : rows'[k[1]][k[2]] = Row(w, k)
  <2> SUFFICES ASSUME NEW k \in Keys
               PROVE  rows'[k[1]][k[2]] = Row(w, k)
    OBVIOUS
  <2>1. k[1] \in Names /\ k[2] \in Models /\ k = <<k[1], k[2]>>
    BY DEF Keys
  <2> QED
    BY <1>4, <2>1
<1>6. rows' \in [Names -> [Models -> {None} \cup {list[w][n].base : n \in Names} \cup Bases]]
  <2>1. ASSUME NEW n \in Names, NEW m \in Models
        PROVE  Row(w, <<n, m>>) \in {None} \cup {list[w][k].base : k \in Names} \cup Bases
    <3>1. rows[n][m] \in {None} \cup Bases
      BY <1>1
    <3>2. <<n, m>>[1] = n /\ <<n, m>>[2] = m
      OBVIOUS
    <3> QED
      BY <3>1, <3>2 DEF Row
  <2> QED
    BY <1>4, <2>1
<1>7. tx' = [v \in Workers |->
              IF v = w THEN NoTx
              ELSE [tx[v] EXCEPT !.aim = @ \ CutBy(w),
                                 !.crossed = @ \/ (pc[v] = "tx" /\ list[v] # list[w])]]
  BY DEF Commit, CutBy
<1>8. ASSUME NEW v \in Workers, v # w
      PROVE  /\ tx'[v] \in TxType
             /\ tx'[v].put = tx[v].put /\ tx'[v].cut = tx[v].cut
             /\ tx'[v].aim = tx[v].aim \ CutBy(w)
             /\ tx'[v].todo = tx[v].todo /\ tx'[v].gone = tx[v].gone
             /\ tx'[v].crossed = (tx[v].crossed \/ (pc[v] = "tx" /\ list[v] # list[w]))
  <2> DEFINE t == tx[v]
             aim == t.aim \ CutBy(w)
             crossed == t.crossed \/ (pc[v] = "tx" /\ list[v] # list[w])
  <2>1. tx'[v] = [t EXCEPT !.aim = aim, !.crossed = crossed]
    BY <1>7, <1>8
  <2>2. t \in TxType /\ aim \in SUBSET Keys /\ crossed \in BOOLEAN
    BY <1>1 DEF TxType
  <2> HIDE DEF t, aim, crossed
  <2>3. /\ tx'[v] \in TxType
        /\ tx'[v].put = t.put /\ tx'[v].cut = t.cut /\ tx'[v].aim = aim
        /\ tx'[v].todo = t.todo /\ tx'[v].gone = t.gone /\ tx'[v].crossed = crossed
    BY <2>1, <2>2 DEF TxType
  <2> QED
    BY <2>3 DEF t, aim, crossed
<1>9. tx'[w] = NoTx
  BY <1>7
<1> QED
  BY <1>1, <1>2, <1>3, <1>5, <1>6, <1>8, <1>9

LEMMA NoTxTyped == NoTx \in TxType
BY DEF NoTx, TxType

(* A transaction that begins.                                              *)
LEMMA BeginFacts ==
  ASSUME TypeOK, NEW w \in Workers, Begin(w)
  PROVE  /\ pc[w] = "sync" /\ pc' = [pc EXCEPT ![w] = "tx"]
         /\ tx' = [tx EXCEPT ![w] = tx'[w]] /\ tx'[w] \in TxType
         /\ tx'[w].put = {} /\ tx'[w].cut = {} /\ tx'[w].crossed = FALSE
         /\ tx'[w].aim = {k \in Committed : accounts[k[1]] = None}
         /\ tx'[w].todo = {n \in Names : list[w][n] # None}
         /\ tx'[w].gone = {n \in Names : accounts[n] = None}
         /\ UNCHANGED <<accounts, rows, troubled, roster, op, draft, list, crashes, version,
                        listed, synced, spoiled>>
<1> DEFINE aim == {k \in Committed : k[1] \in Missing(w)}
           todo == {n \in Names : list[w][n] # None}
           gone == {n \in Names : accounts[n] = None}
           t == [put |-> {}, cut |-> {}, aim |-> aim, todo |-> todo, gone |-> gone,
                 crossed |-> FALSE]
<1>1. tx \in [Workers -> TxType]
  BY Parts DEF CountersTyped
<1>2. /\ pc[w] = "sync" /\ pc' = [pc EXCEPT ![w] = "tx"] /\ tx' = [tx EXCEPT ![w] = t]
      /\ UNCHANGED <<accounts, rows, troubled, roster, op, draft, list, crashes, version,
                     listed, synced, spoiled>>
  BY DEF Begin, Goto, tables, history
<1>3. aim \in SUBSET Keys /\ todo \in SUBSET Names /\ gone \in SUBSET Names
  BY DEF Committed
<1>4. aim = {k \in Committed : accounts[k[1]] = None}
  BY DEF Committed, Missing, Keys
<1>5. tx'[w] = t
  BY <1>1, <1>2
<1> HIDE DEF aim, todo, gone
<1>6. t \in TxType /\ t.put = {} /\ t.cut = {} /\ t.aim = aim /\ t.todo = todo /\ t.gone = gone
      /\ t.crossed = FALSE
  BY <1>3 DEF TxType
<1> QED
  BY <1>2, <1>4, <1>5, <1>6 DEF todo, gone

(* It materializes an account.                                             *)
Found(w, n) == ({n} \X Models) \cap ((Committed \ CutBy(w)) \cup PutBy(w)
                                       \cup ({n} \X list[w][n].models))
LEMMA MaterializeFacts ==
  ASSUME TypeOK, WritesListed, NEW w \in Workers, NEW n \in Names, Materialize(w, n)
  PROVE  /\ pc[w] = "tx" /\ n \in tx[w].todo
         /\ list[w][n] # None /\ list[w][n].models \subseteq Models
         /\ tx' = [tx EXCEPT ![w] = tx'[w]] /\ tx'[w] \in TxType
         /\ tx'[w].put = PutBy(w) \cup ({n} \X list[w][n].models)
         /\ tx'[w].cut = CutBy(w)
         /\ tx'[w].aim = {k \in Found(w, n) : k[2] \notin Surviving(list[w][n].models)}
         /\ tx'[w].todo = tx[w].todo \ {n}
         /\ tx'[w].gone = tx[w].gone /\ tx'[w].crossed = tx[w].crossed
         /\ UNCHANGED <<accounts, rows, troubled, roster, pc, op, draft, list, crashes, version,
                        listed, synced, spoiled>>
<1> DEFINE keep == list[w][n].models
           put == PutBy(w) \cup ({n} \X keep)
           cut == CutBy(w)
           aim == {k \in Found(w, n) : k[2] \notin Surviving(keep)}
           todo == tx[w].todo \ {n}
           gone == tx[w].gone
           crossed == tx[w].crossed
           t == [put |-> put, cut |-> cut, aim |-> aim, todo |-> todo, gone |-> gone,
                 crossed |-> crossed]
<1>1. tx \in [Workers -> TxType] /\ list \in [Workers -> [Names -> {None} \cup Accounts]]
  BY Parts DEF WorkersTyped, CountersTyped
<1>2. /\ pc[w] = "tx" /\ n \in tx[w].todo
      /\ UNCHANGED <<accounts, rows, troubled, roster, pc, op, draft, list, crashes, version,
                     listed, synced, spoiled>>
  BY DEF Materialize, tables, history
<1>3. list[w][n] # None /\ list[w][n] \in Accounts
  BY <1>1, <1>2 DEF WritesListed
<1>4. keep \subseteq Models
  BY <1>3 DEF Accounts
<1>5. ({n} \X Models) \cap ((Committed \ cut) \cup put) = Found(w, n)
  BY DEF Found
<1>6. tx' = [tx EXCEPT ![w] = t]
  BY <1>5 DEF Materialize, PutBy, CutBy
<1>7. tx'[w] = t
  BY <1>1, <1>6
<1>8. /\ tx[w].put \subseteq Keys /\ tx[w].cut \subseteq Keys /\ tx[w].aim \subseteq Keys
      /\ todo \in SUBSET Names /\ gone \in SUBSET Names /\ crossed \in BOOLEAN
  BY <1>1 DEF TxType
<1>9. put \in SUBSET Keys /\ cut \in SUBSET Keys /\ aim \in SUBSET Keys
  BY <1>4, <1>8 DEF PutBy, CutBy, Found, Keys
<1> HIDE DEF put, cut, aim, todo, gone, crossed
<1>10. /\ t \in TxType /\ t.put = put /\ t.cut = cut /\ t.aim = aim /\ t.todo = todo
       /\ t.gone = gone /\ t.crossed = crossed
  BY <1>8, <1>9 DEF TxType
<1> QED
  BY <1>2, <1>3, <1>4, <1>6, <1>7, <1>10 DEF put, cut, aim, todo, gone, crossed

(* Then the steps of a sync, of the replicas and of the reports.           *)
LEMMA SyncStepTypes ==
  ASSUME TypeOK, Busy, WritesListed, NEW w \in Workers,
         \/ List(w) \/ Begin(w) \/ Commit(w) \/ SyncFails(w)
         \/ \E n \in Names : Materialize(w, n)
  PROVE  TypeOK' /\ Busy'
<1> USE Asm
<1> USE DEF Goto, tables, history, Stages, Workers
<1>1. ASSUME List(w)
      PROVE  TypeOK' /\ Busy'
  <2>1. TypeOK'
    <3>1. TablesTyped'
      BY <1>1, Parts DEF List, TablesTyped
    <3>2. WorkersTyped'
      BY <1>1, Parts DEF List, WorkersTyped, TablesTyped
    <3>3. CountersTyped'
      BY <1>1, Parts DEF List, CountersTyped
    <3> QED
      BY <3>1, <3>2, <3>3, PartsAfter
  <2>2. Busy'
    BY <1>1 DEF List, TypeOK, Busy
  <2> QED
    BY <2>1, <2>2
<1>2. ASSUME Commit(w)
      PROVE  TypeOK' /\ Busy'
  <2>1. Nobody \in [Names -> {None} \cup Accounts]
    BY DEF Nobody
  <2>2. /\ rows' \in [Names -> [Models -> {None} \cup Bases]]
        /\ troubled' \subseteq {k \in Keys : rows'[k[1]][k[2]] # None}
    <3>1. /\ rows' \in [Names -> [Models -> {None} \cup {list[w][n].base : n \in Names} \cup Bases]]
          /\ \A k \in Keys : rows'[k[1]][k[2]] = Row(w, k)
          /\ troubled' = troubled \ CutBy(w) /\ pc[w] = "tx"
      BY <1>2, CommitFacts
    <3>2. /\ rows \in [Names -> [Models -> {None} \cup Bases]] /\ tx[w].put \subseteq Keys
          /\ troubled \subseteq {k \in Keys : rows[k[1]][k[2]] # None}
          /\ list[w] \in [Names -> {None} \cup Accounts]
      BY Parts DEF TablesTyped, WorkersTyped, CountersTyped, TxType
    <3>3. ASSUME NEW k \in PutBy(w)
          PROVE  k \in Keys /\ list[w][k[1]].base \in Bases
      <4>1. k \in Keys /\ k[1] \in Names /\ list[w][k[1]] # None
        BY <3>1, <3>2, <3>3 DEF PutBy, WritesListed, Asked, Keys
      <4> QED
        BY <3>2, <4>1 DEF Accounts
    <3>4. \A k \in Keys : Row(w, k) \in {None} \cup Bases
      BY <3>2, <3>3 DEF Row, Keys
    <3>5. rows' \in [Names -> [Models -> {None} \cup Bases]]
      <4>1. ASSUME NEW n \in Names, NEW m \in Models
            PROVE  rows'[n][m] \in {None} \cup Bases
        <5>1. <<n, m>> \in Keys /\ <<n, m>>[1] = n /\ <<n, m>>[2] = m
          BY DEF Keys
        <5> QED
          BY <3>1, <3>4, <5>1
      <4> QED
        BY <3>1, <4>1
    <3>6. ASSUME NEW k \in troubled'
          PROVE  k \in Keys /\ rows'[k[1]][k[2]] # None
      <4>1. k \in Keys /\ k \notin CutBy(w) /\ rows[k[1]][k[2]] # None
        BY <3>1, <3>2
      <4> QED
        BY <3>1, <3>3, <4>1 DEF Row
    <3> QED
      BY <3>5, <3>6
  <2>3. tx' \in [Workers -> TxType]
    <3>1. \A v \in Workers : tx'[v] \in TxType
      BY <1>2, CommitFacts, NoTxTyped
    <3>2. DOMAIN tx' = Workers /\ tx' = [v \in Workers |-> tx'[v]]
      BY <1>2 DEF Commit
    <3> QED
      BY <3>1, <3>2
  <2>4. TypeOK'
    <3>1. TablesTyped'
      BY <1>2, <2>2, Parts DEF Commit, TablesTyped
    <3>2. WorkersTyped'
      BY <1>2, <2>1, AfterSyncStage, Parts DEF Commit, WorkersTyped
    <3>3. CountersTyped'
      <4>1. /\ version' = version /\ crashes' = crashes /\ listed' = [listed EXCEPT ![w] = 0]
            /\ synced' = IF listed[w] > synced THEN listed[w] ELSE synced
            /\ spoiled' \subseteq spoiled \cup {"late", "crossed"}
        BY <1>2 DEF Commit
      <4>2. CountersTyped
        BY Parts
      <4> QED
        BY <2>3, <4>1, <4>2 DEF CountersTyped
    <3> QED
      BY <3>1, <3>2, <3>3, PartsAfter
  <2>5. Busy'
    <3>1. \A h \in Handlers : pc'[h] = pc[h] \/ pc'[h] \in {"load", "down", "done", "failed"}
      BY <1>2, CommitFacts
    <3>2. \A h \in Handlers : pc[h] = "tx" \/ pc'[h] = pc[h]
      BY <1>2, CommitFacts
    <3>3. op' = op /\ draft' = draft
      BY <1>2 DEF Commit
    <3> QED
      BY <3>1, <3>2, <3>3 DEF Busy
  <2> QED
    BY <2>4, <2>5
<1>3. ASSUME SyncFails(w)
      PROVE  TypeOK' /\ Busy'
  <2>1. Nobody \in [Names -> {None} \cup Accounts]
    BY DEF Nobody
  <2>2. TypeOK'
    <3>1. TablesTyped'
      BY <1>3, <2>1, AfterSyncStage, Parts DEF SyncFails, TablesTyped
    <3>2. WorkersTyped'
      BY <1>3, <2>1, AfterSyncStage, Parts DEF SyncFails, WorkersTyped, TablesTyped
    <3>3. CountersTyped'
      BY <1>3, <2>1, AfterSyncStage, NoTxTyped, Parts DEF SyncFails, CountersTyped
    <3> QED
      BY <3>1, <3>2, <3>3, PartsAfter
  <2>3. Busy'
    BY <1>3, AfterSyncStage DEF SyncFails, TypeOK, Busy
  <2> QED
    BY <2>2, <2>3
<1>4. ASSUME tx' = [tx EXCEPT ![w] = tx'[w]], tx'[w] \in TxType,
             pc' = pc \/ pc' = [pc EXCEPT ![w] = "tx"], pc[w] \in {"sync", "tx"},
             UNCHANGED <<accounts, rows, troubled, roster, op, draft, list, crashes, version,
                         listed, synced, spoiled>>
      PROVE  TypeOK' /\ Busy'
  <2>1. TablesTyped'
    BY <1>4, Parts DEF TablesTyped
  <2>2. WorkersTyped'
    BY <1>4, Parts DEF WorkersTyped
  <2>3. CountersTyped'
    <3>1. tx' \in [Workers -> TxType]
      BY <1>4, Parts DEF CountersTyped
    <3> QED
      BY <1>4, <3>1, Parts DEF CountersTyped
  <2>4. Busy'
    BY <1>4, Parts DEF WorkersTyped, Busy
  <2> QED
    BY <2>1, <2>2, <2>3, <2>4, PartsAfter
<1>5. ASSUME Begin(w)
      PROVE  TypeOK' /\ Busy'
  BY <1>4, <1>5, BeginFacts
<1>6. ASSUME NEW n \in Names, Materialize(w, n)
      PROVE  TypeOK' /\ Busy'
  BY <1>4, <1>6, MaterializeFacts
<1> QED
  BY <1>1, <1>2, <1>3, <1>5, <1>6

LEMMA ReplicaTypes ==
  ASSUME TypeOK, Busy, NEW r \in Replicas, Crash(r) \/ Boot(r) \/ NewManager(r)
  PROVE  TypeOK' /\ Busy'
<1> USE Asm
<1> USE DEF Goto, tables, history, Stages, Workers
<1>1. ASSUME Crash(r)
      PROVE  TypeOK' /\ Busy'
  <2>1. Nobody \in [Names -> {None} \cup Accounts]
    BY DEF Nobody
  <2>2. TypeOK'
    <3>1. TablesTyped'
      BY <1>1, <2>1, Parts DEF Crash, TablesTyped
    <3>2. WorkersTyped'
      BY <1>1, <2>1, Parts DEF Crash, WorkersTyped
    <3>3. CountersTyped'
      BY <1>1, NoTxTyped, Parts DEF Crash, CountersTyped
    <3> QED
      BY <3>1, <3>2, <3>3, PartsAfter
  <2>3. Busy'
    BY <1>1 DEF Crash, InFlight, TypeOK, Busy
  <2> QED
    BY <2>2, <2>3
<1>2. ASSUME Boot(r)
      PROVE  TypeOK' /\ Busy'
  BY <1>2 DEF Boot, SyncFirst, TypeOK, Busy
<1>3. ASSUME NewManager(r)
      PROVE  TypeOK' /\ Busy'
  BY <1>3 DEF NewManager, TypeOK, Busy
<1> QED
  BY <1>1, <1>2, <1>3

(* The other steps leave every open transaction as it is.                  *)
Framed ==
  \A w \in Workers : pc'[w] = "tx" =>
    pc[w] = "tx" /\ tx'[w] = tx[w] /\ list'[w] = list[w] /\ listed'[w] = listed[w]

LEMMA HandlersFrame ==
  ASSUME TypeOK, NEW h \in Handlers,
         \/ \E n \in Names :
              \/ \E a \in Accounts : Create(h, n, a) \/ Read(h, n, "update", a) \/ Read(h, n, "test", a)
              \/ Delete(h, n)
         \/ Write(h) \/ Fresh(h) \/ FreshFails(h) \/ Reconfigure(h)
         \/ DeleteAccount(h) \/ RemoveFromRoster(h)
  PROVE  Framed
<1>1. pc \in [Workers -> Stages]
  BY DEF TypeOK
<1>2. tx' = tx /\ list' = list /\ listed' = listed
  BY DEF Create, Read, Write, Fresh, FreshFails, Reconfigure, Delete,
     DeleteAccount, RemoveFromRoster, history
<1>3. \E l \in Stages \ {"tx"} : pc' = [pc EXCEPT ![h] = l]
  BY DEF Create, Read, Write, Fresh, FreshFails, Reconfigure, AfterReconfigure, Delete,
     DeleteAccount, RemoveFromRoster, Goto, Stages
<1> QED
  BY <1>1, <1>2, <1>3 DEF Framed

LEMMA OthersFrame ==
  ASSUME TypeOK,
         \/ \E w \in Workers : List(w) \/ SyncFails(w)
         \/ \E r \in Replicas : Crash(r) \/ Boot(r) \/ NewManager(r)
         \/ \E n \in Names, m \in Models : Fault(n, m)
         \/ UNCHANGED vars
  PROVE  Framed
<1>1. pc \in [Workers -> Stages] /\ list \in [Workers -> [Names -> {None} \cup Accounts]]
      /\ listed \in [Workers -> 0 .. version] /\ tx \in [Workers -> TxType]
  BY Parts DEF WorkersTyped, CountersTyped
<1> USE DEF Framed, Goto, history
<1>2. ASSUME NEW w \in Workers, List(w)
      PROVE  Framed
  BY <1>1, <1>2 DEF List
<1>3. ASSUME NEW w \in Workers, SyncFails(w)
      PROVE  Framed
  BY <1>1, <1>3, AfterSyncStage DEF SyncFails
<1>4. ASSUME NEW r \in Replicas, Crash(r)
      PROVE  Framed
  BY <1>1, <1>4 DEF Crash
<1>5. ASSUME NEW r \in Replicas, Boot(r) \/ NewManager(r)
      PROVE  Framed
  BY <1>1, <1>5 DEF Boot, SyncFirst, NewManager
<1>6. ASSUME \/ \E n \in Names, m \in Models : Fault(n, m)
             \/ UNCHANGED vars
      PROVE  Framed
  BY <1>6 DEF Fault, vars
<1> QED
  BY <1>2, <1>3, <1>4, <1>5, <1>6

(* What a step can do to the transactions.                                 *)
LEMMA TxSteps ==
  ASSUME TypeOK, [Next]_vars
  PROVE  \/ Framed
         \/ \E w \in Workers : Begin(w) \/ Commit(w) \/ \E n \in Names : Materialize(w, n)
BY HandlersFrame, OthersFrame DEF Next, AllDone

LEMMA WritesStep ==
  ASSUME TypeOK, WritesListed, [Next]_vars
  PROVE  WritesListed'
<1>1. CASE Framed
  BY <1>1 DEF Framed, WritesListed, Asked
<1>2. pc \in [Workers -> Stages] /\ tx \in [Workers -> TxType]
  BY Parts DEF WorkersTyped, CountersTyped
<1>3. ASSUME NEW w \in Workers, Begin(w)
      PROVE  WritesListed'
  <2>1. /\ list' = list /\ tx'[w].put = {}
        /\ tx'[w].todo = {n \in Names : list[w][n] # None}
        /\ \A v \in Workers : v # w => pc'[v] = pc[v] /\ tx'[v] = tx[v]
    BY <1>2, <1>3, BeginFacts
  <2> QED
    BY <2>1 DEF WritesListed, Asked
<1>4. ASSUME NEW w \in Workers, NEW n \in Names, Materialize(w, n)
      PROVE  WritesListed'
  <2>1. /\ list' = list /\ pc' = pc /\ pc[w] = "tx" /\ list[w][n] # None
        /\ tx'[w].put = PutBy(w) \cup ({n} \X list[w][n].models)
        /\ tx'[w].todo = tx[w].todo \ {n}
        /\ \A v \in Workers : v # w => tx'[v] = tx[v]
    BY <1>2, <1>4, MaterializeFacts
  <2>2. \A k \in {n} \X list[w][n].models : Asked(w, k)
    BY <2>1 DEF Asked
  <2>3. \A k \in tx'[w].put : Asked(w, k)
    BY <2>1, <2>2 DEF PutBy, WritesListed
  <2>4. \A i \in tx'[w].todo : list[w][i] # None
    BY <2>1 DEF WritesListed
  <2> QED
    BY <2>1, <2>3, <2>4 DEF WritesListed, Asked
<1>5. ASSUME NEW w \in Workers, Commit(w)
      PROVE  WritesListed'
  <2>1. /\ pc'[w] # "tx"
        /\ \A v \in Workers : v # w =>
             pc'[v] = pc[v] /\ list'[v] = list[v] /\ tx'[v].put = tx[v].put /\ tx'[v].todo = tx[v].todo
    BY <1>5, CommitFacts
  <2> QED
    BY <2>1 DEF WritesListed, Asked
<1> QED
  BY <1>1, <1>3, <1>4, <1>5, TxSteps

LEMMA NextTypes ==
  ASSUME TypeOK, Busy, WritesListed, [Next]_vars
  PROVE  TypeOK' /\ Busy' /\ WritesListed'
<1>1. ASSUME NEW n \in Names, NEW m \in Models, Fault(n, m)
      PROVE  TypeOK' /\ Busy'
  BY <1>1 DEF Fault, history, Keys, TypeOK, Busy
<1>2. ASSUME UNCHANGED vars
      PROVE  TypeOK' /\ Busy'
  BY <1>2 DEF vars, tables, history, TypeOK, Busy
<1> QED
  BY <1>1, <1>2, HandlerTypes, SyncStepTypes, ReplicaTypes, WritesStep DEF Next, AllDone

LEMMA InitTypes == Init => TypeOK /\ Busy /\ WritesListed
<1> SUFFICES ASSUME Init
             PROVE  TypeOK /\ Busy /\ WritesListed
  OBVIOUS
<1>1. /\ accounts \in [Names -> {None} \cup Accounts]
      /\ \A n \in Names : accounts[n] # None => accounts[n].base \in Bases
  BY DEF Init, Accounts
<1>2. rows \in [Names -> [Models -> {None} \cup Bases]]
  BY <1>1 DEF Init, RowsOf
<1>3. TypeOK
  <2>1. TablesTyped
    BY <1>1, <1>2 DEF Init, TablesTyped
  <2>2. WorkersTyped
    BY Asm DEF Init, WorkersTyped, Nobody, Workers, Stages
  <2>3. CountersTyped
    BY Asm, NoTxTyped DEF Init, CountersTyped
  <2> QED
    BY <2>1, <2>2, <2>3, Parts
<1>4. Busy
  BY Asm DEF Init, Busy, Workers
<1>5. WritesListed
  BY DEF Init, WritesListed
<1> QED
  BY <1>3, <1>4, <1>5

(* The tables and what every worker holds are of their types, and no state *)
(* is kept of a row that does not exist.                                   *)
THEOREM TypeCorrect == Spec => []TypeOK
<1>1. TypeOK /\ Busy /\ WritesListed /\ [Next]_vars => (TypeOK /\ Busy /\ WritesListed)'
  BY NextTypes
<1> QED
  BY <1>1, InitTypes, PTL DEF Spec
-----------------------------------------------------------------------------
(* No account has more models than one DELETE lists.                       *)
OneChunk == Cardinality(Models) <= Chunk

LEMMA ListedSurvive ==
  ASSUME OneChunk, TypeOK, NEW w \in Workers, NEW n \in Names, list[w][n] # None
  PROVE  Surviving(list[w][n].models) = list[w][n].models
<1>1. list[w][n] \in Accounts
  BY DEF TypeOK
<1>2. list[w][n].models \subseteq Models
  BY <1>1 DEF Accounts
<1>3. /\ IsFiniteSet(list[w][n].models)
      /\ Cardinality(list[w][n].models) <= Cardinality(Models)
  BY <1>2, Asm, FS_Subset
<1>4. /\ Cardinality(Models) \in Nat /\ Cardinality(list[w][n].models) \in Nat
      /\ Chunk \in Nat
  BY <1>3, Asm, FS_CardinalityType, CatalogAssumption
<1>5. Cardinality(list[w][n].models) <= Chunk
  BY <1>3, <1>4 DEF OneChunk
<1> QED
  BY <1>3, <1>5, AllSurvive

(* A step keeps what is known of the transactions.                         *)
LEMMA OpenStep ==
  ASSUME OneChunk, TypeOK, WritesListed, Open, [Next]_vars
  PROVE  Open'
<1>1. CASE Framed
  BY <1>1 DEF Framed, Open, Justified, Putting, Asked
<1>2. pc \in [Workers -> Stages] /\ tx \in [Workers -> TxType]
  BY Parts DEF WorkersTyped, CountersTyped
<1>3. ASSUME NEW w \in Workers, Begin(w)
      PROVE  Open'
  <2>1. /\ list' = list /\ tx'[w].put = {} /\ tx'[w].cut = {}
        /\ tx'[w].aim = {k \in Committed : accounts[k[1]] = None}
        /\ tx'[w].todo = {n \in Names : list[w][n] # None}
        /\ tx'[w].gone = {n \in Names : accounts[n] = None}
        /\ \A v \in Workers : v # w => pc'[v] = pc[v] /\ tx'[v] = tx[v]
    BY <1>2, <1>3, BeginFacts
  <2>2. Justified(w)'
    BY <2>1 DEF Justified, Committed, Keys
  <2>3. Putting(w)'
    BY <2>1 DEF Putting, Asked, Keys
  <2> QED
    BY <2>1, <2>2, <2>3 DEF Open, Justified, Putting, Asked
<1>4. ASSUME NEW w \in Workers, NEW n \in Names, Materialize(w, n)
      PROVE  Open'
  <2>1. /\ list' = list /\ pc' = pc /\ pc[w] = "tx" /\ list[w][n] # None
        /\ tx'[w].put = PutBy(w) \cup ({n} \X list[w][n].models)
        /\ tx'[w].cut = CutBy(w)
        /\ tx'[w].aim = {k \in Found(w, n) : k[2] \notin Surviving(list[w][n].models)}
        /\ tx'[w].todo = tx[w].todo \ {n} /\ tx'[w].gone = tx[w].gone
        /\ \A v \in Workers : v # w => tx'[v] = tx[v]
    BY <1>2, <1>4, MaterializeFacts
  <2>2. Surviving(list[w][n].models) = list[w][n].models
    BY <2>1, ListedSurvive
  <2>3. \A k \in tx'[w].aim : k[1] = n /\ k[2] \notin list[w][n].models
    BY <2>1, <2>2 DEF Found
  <2>4. Justified(w)'
    BY <2>1, <2>3 DEF Open, Justified, CutBy
  <2>5. ASSUME NEW k \in Keys, k[1] \notin tx'[w].todo, Asked(w, k)
        PROVE  k \in tx'[w].put \ tx'[w].aim
    <3>1. CASE k[1] = n
      <4>1. k \in {n} \X list[w][n].models
        BY <2>5, <3>1 DEF Asked, Keys
      <4> QED
        BY <2>1, <2>3, <4>1
    <3>2. CASE k[1] # n
      <4>1. k \in PutBy(w)
        BY <2>1, <2>5, <3>2 DEF Open, Putting, PutBy
      <4> QED
        BY <2>1, <2>3, <3>2, <4>1
    <3> QED
      BY <3>1, <3>2
  <2>6. Putting(w)'
    BY <2>1, <2>5 DEF Putting, Asked
  <2> QED
    BY <2>1, <2>4, <2>6 DEF Open, Justified, Putting, Asked
<1>5. ASSUME NEW w \in Workers, Commit(w)
      PROVE  Open'
  <2>1. /\ pc'[w] # "tx"
        /\ \A v \in Workers : v # w =>
             /\ pc'[v] = pc[v] /\ list'[v] = list[v]
             /\ tx'[v].put = tx[v].put /\ tx'[v].cut = tx[v].cut
             /\ tx'[v].aim \subseteq tx[v].aim
             /\ tx'[v].todo = tx[v].todo /\ tx'[v].gone = tx[v].gone
    BY <1>5, CommitFacts
  <2> SUFFICES ASSUME NEW v \in Workers, pc'[v] = "tx"
               PROVE  Justified(v)' /\ Putting(v)'
    BY DEF Open
  <2>2. v # w /\ pc[v] = "tx" /\ Justified(v) /\ Putting(v)
    BY <2>1 DEF Open
  <2> QED
    BY <2>1, <2>2 DEF Justified, Putting, Asked
<1> QED
  BY <1>1, <1>3, <1>4, <1>5, TxSteps

LEMMA OpenInit == Init => Open
BY DEF Init, Open

LEMMA StateStep ==
  ASSUME TypeOK, Open, [Next]_vars, NEW k \in Keys, k \in troubled
  PROVE  k \in troubled' \/ Unconfigured(k[1], k[2])
<1>1. ASSUME NEW w \in Workers, Commit(w), k \notin troubled'
      PROVE  Unconfigured(k[1], k[2])
  <2>1. pc[w] = "tx" /\ k \in CutBy(w)
    BY <1>1, CommitFacts
  <2>2. pc \in [Workers -> Stages]
    BY DEF TypeOK
  <2>3. pc'[w] \in {"done", "load"}
    BY <1>1, <2>2 DEF Commit, Goto, AfterSync
  <2>4. k[1] \in tx[w].gone \/ (list[w][k[1]] # None /\ k[2] \notin list[w][k[1]].models)
    BY <2>1 DEF Open, Justified, CutBy
  <2> QED
    BY <2>1, <2>3, <2>4 DEF Unconfigured
<1>2. ASSUME ~ \E w \in Workers : Commit(w)
      PROVE  k \in troubled'
  BY <1>2 DEF Next, Create, Read, Write, Fresh, FreshFails, Reconfigure, Delete,
     DeleteAccount, RemoveFromRoster, List, Begin, Materialize, SyncFails, Crash, Boot,
     NewManager, Fault, AllDone, tables, vars
<1> QED
  BY <1>1, <1>2

(* The failures and the cooldown of a model survive every sync, those of   *)
(* replicas that start included, as long as the model stays configured:    *)
(* whatever the transactions that are open at the same time.               *)
THEOREM StateSurvives ==
  ASSUME OneChunk
  PROVE  Spec => StateKept
<1> DEFINE Sane == TypeOK /\ Busy /\ WritesListed /\ Open
<1>1. Sane /\ [Next]_vars => Sane'
  BY NextTypes, OpenStep
<1>2. Sane /\ [Next]_vars =>
        [\A k \in Keys : k \in troubled => k \in troubled' \/ Unconfigured(k[1], k[2])]_vars
  BY StateStep
<1>3. Init => Sane
  BY InitTypes, OpenInit
<1> QED
  BY <1>1, <1>2, <1>3, PTL DEF Spec, StateKept
-----------------------------------------------------------------------------
(* The other workers go on as they were.                                   *)
Alone(w) ==
  \A v \in Workers : v # w => /\ pc'[v] = pc[v] /\ listed'[v] = listed[v]
                              /\ v \in Handlers => op'[v] = op[v] /\ draft'[v] = draft[v]

LEMMA OthersKeep ==
  ASSUME NEW w \in Workers, NEW v \in Workers, v # w, Alone(w),
         accounts' = accounts, version' = version, WillSync(v)
  PROVE  WillSync(v)'
BY DEF Alone, WillSync

(* A step that changes no account: it is not the last that would sync.     *)
LEMMA WillKept ==
  ASSUME SomebodyWillSync, NEW w \in Workers, Alone(w),
         accounts' = accounts, version' = version, synced' = synced, spoiled \subseteq spoiled',
         spoiled' \subseteq {"crash"} /\ WillSync(w) => WillSync(w)'
  PROVE  SomebodyWillSync'
<1> SUFFICES ASSUME synced < version, spoiled' \subseteq {"crash"}
             PROVE  \E v \in Workers : WillSync(v)'
  BY DEF SomebodyWillSync
<1>1. PICK v \in Workers : WillSync(v)
  BY DEF SomebodyWillSync
<1> QED
  BY <1>1, OthersKeep

LEMMA ListKept ==
  ASSUME TypeOK, ListIsCurrent,
         version' = version + 1 \/ UNCHANGED <<version, accounts>>,
         \A w \in Workers : pc'[w] \in {"sync", "tx"} =>
           pc[w] \in {"sync", "tx"} /\ list'[w] = list[w] /\ listed'[w] = listed[w]
  PROVE  ListIsCurrent'
<1>1. version \in Nat /\ \A w \in Workers : listed[w] \in 0 .. version
  BY DEF TypeOK
<1> QED
  BY <1>1 DEF ListIsCurrent

LEMMA SyncedKept ==
  ASSUME TypeOK, SyncedFollows, spoiled \subseteq spoiled', synced' = synced,
         version' = version + 1 \/ UNCHANGED <<version, accounts, rows>>
  PROVE  SyncedFollows'
<1>1. version \in Nat /\ synced \in 0 .. version
  BY DEF TypeOK
<1>2. CASE version' = version + 1
  BY <1>1, <1>2 DEF SyncedFollows
<1>3. CASE UNCHANGED <<version, accounts, rows>>
  BY <1>3 DEF SyncedFollows, RowsOf
<1> QED
  BY <1>2, <1>3
(* Those that change no rows.                                              *)
LEMMA CleaningKept ==
  ASSUME TypeOK, Cleaning, Framed,
         version' = version + 1 \/ version' = version, rows' = rows
  PROVE  Cleaning'
<1>1. version \in Nat /\ \A w \in Workers : listed[w] \in 0 .. version
  BY DEF TypeOK
<1>2. CASE version' = version + 1
  <2>1. \A w \in Workers : pc'[w] = "tx" => listed'[w] # version'
    BY <1>1, <1>2 DEF Framed
  <2> QED
    BY <2>1 DEF Cleaning
<1>3. CASE version' = version
  BY <1>3 DEF Framed, Cleaning, Touched
<1> QED
  BY <1>2, <1>3
-----------------------------------------------------------------------------
(* Every step keeps the invariant. First the handlers.                     *)
Kept == ListIsCurrent' /\ Cleaning' /\ SyncedFollows' /\ SomebodyWillSync'

LEMMA HandlerSteps ==
  ASSUME IInv, NEW h \in Handlers,
         \/ \E n \in Names :
              \/ \E a \in Accounts : Create(h, n, a) \/ Read(h, n, "update", a) \/ Read(h, n, "test", a)
              \/ Delete(h, n)
         \/ Write(h) \/ Fresh(h) \/ FreshFails(h) \/ Reconfigure(h)
         \/ DeleteAccount(h) \/ RemoveFromRoster(h)
  PROVE  Kept
<1> USE Asm DEF Goto, Store, tables, history
<1>1. h \in Workers /\ pc \in [Workers -> Stages]
  BY DEF IInv, TypeOK, Workers
<1>2. /\ op \in [Handlers -> {None} \cup Requested] /\ draft \in [Handlers -> {None} \cup Accounts]
      /\ accounts \in [Names -> {None} \cup Accounts]
  BY Parts DEF IInv, WorkersTyped, TablesTyped
<1>3. /\ Alone(h)
      /\ listed' = listed /\ list' = list /\ synced' = synced /\ rows' = rows
      /\ spoiled \subseteq spoiled'
      /\ version' = version + 1 \/ UNCHANGED <<version, accounts>>
  <2>1. listed' = listed /\ list' = list /\ synced' = synced /\ rows' = rows
    BY DEF Create, Read, Write, Fresh, FreshFails, Reconfigure, Delete,
       DeleteAccount, RemoveFromRoster
  <2>5. spoiled \subseteq spoiled'
    BY DEF Create, Read, Write, Fresh, FreshFails, Reconfigure, Delete,
       DeleteAccount, RemoveFromRoster
  <2>6. version' = version + 1 \/ UNCHANGED <<version, accounts>>
    BY DEF Create, Read, Write, Fresh, FreshFails, Reconfigure, Delete,
       DeleteAccount, RemoveFromRoster
  <2>2. \A v \in Workers : v # h => pc'[v] = pc[v]
    BY <1>1 DEF Create, Read, Write, Fresh, FreshFails, Reconfigure, Delete,
       DeleteAccount, RemoveFromRoster
  <2>3. \A v \in Handlers : v # h => op'[v] = op[v]
    BY <1>2 DEF Create, Request, Read, Write, Fresh, FreshFails, Reconfigure, Delete,
       DeleteAccount, RemoveFromRoster
  <2>4. \A v \in Handlers : v # h => draft'[v] = draft[v]
    BY <1>2 DEF Create, Read, Write, Fresh, FreshFails, Reconfigure, Delete,
       DeleteAccount, RemoveFromRoster
  <2> QED
    BY <2>1, <2>2, <2>3, <2>4, <2>5, <2>6 DEF Alone
<1>4. pc'[h] \notin {"sync", "tx"}
  BY <1>1 DEF Create, Read, Write, Fresh, FreshFails, Reconfigure, AfterReconfigure, Delete,
     DeleteAccount, RemoveFromRoster
<1>5. ListIsCurrent'
  <2>1. \A w \in Workers : pc'[w] \in {"sync", "tx"} =>
          pc[w] \in {"sync", "tx"} /\ list'[w] = list[w] /\ listed'[w] = listed[w]
    BY <1>3, <1>4 DEF Alone
  <2> QED
    BY <1>3, <2>1, ListKept DEF IInv
<1>6. SyncedFollows'
  BY <1>3, SyncedKept DEF IInv
<1>7. SomebodyWillSync'
  <2>1. ASSUME version' = version + 1, spoiled' \subseteq {"crash"}
        PROVE  WillSync(h)'
    <3>1. ASSUME NEW n \in Names, NEW a \in Accounts, Create(h, n, a)
          PROVE  WillSync(h)'
      <4>1. Request(h, "create", n)
        BY <3>1 DEF Create
      <4>2. op'[h] = [kind |-> "create", name |-> n]
        BY <4>1, RequestTypes DEF IInv
      <4>3. accounts' = [accounts EXCEPT ![n] = a] /\ pc' = [pc EXCEPT ![h] = "fresh"]
        BY <2>1, <3>1, Parts DEF Create, IInv, CountersTyped
      <4> QED
        BY <1>1, <1>2, <4>2, <4>3 DEF WillSync
    <3>2. CASE Write(h)
      <4>1. /\ op' = op /\ op[h].name \in Names /\ draft[h] \in Accounts
        BY <3>2 DEF Write, IInv, Busy, Requested
      <4>2. /\ accounts' = [accounts EXCEPT ![op[h].name] = draft[h]]
            /\ pc' = [pc EXCEPT ![h] = "fresh"]
            /\ spoiled' = IF op[h].kind = "test" THEN spoiled \cup {"test"} ELSE spoiled
        <5>1. version' # version
          BY <2>1 DEF IInv, TypeOK
        <5> QED
          BY <3>2, <5>1 DEF Write
      <4>3. op[h].kind # "test"
        BY <2>1, <4>2
      <4> QED
        BY <1>1, <1>2, <4>1, <4>2, <4>3 DEF WillSync
    <3>3. CASE DeleteAccount(h)
      BY <1>1, <3>3 DEF DeleteAccount, WillSync
    <3>4. version \in Nat
      BY DEF IInv, TypeOK
    <3> QED
      BY <2>1, <3>1, <3>2, <3>3, <3>4 DEF Read, Fresh, FreshFails, Reconfigure, Delete,
         RemoveFromRoster
  <2>2. ASSUME version' = version, spoiled' \subseteq {"crash"}, WillSync(h)
        PROVE  WillSync(h)'
    <3>1. pc[h] \in {"fresh", "reconfigure", "remove"}
      BY <1>1, <2>2 DEF WillSync, Create, Request, Read, Write, Fresh, FreshFails, Reconfigure,
         Delete, DeleteAccount, RemoveFromRoster
    <3>2. CASE pc[h] = "fresh"
      <4>1. op[h].kind # "test" /\ accounts[op[h].name] # None
        BY <2>2, <3>2 DEF WillSync
      <4>2. ~FreshFails(h)
        BY <2>2 DEF FreshFails
      <4>3. Fresh(h)
        BY <3>2, <4>2 DEF Create, Request, Read, Write, Reconfigure, Delete,
           DeleteAccount, RemoveFromRoster
      <4> QED
        BY <1>1, <1>2, <4>1, <4>3 DEF Fresh, WillSync
    <3>3. CASE pc[h] = "reconfigure"
      <4>1. op[h].kind # "test" /\ draft[h] # None
        BY <2>2, <3>3 DEF WillSync
      <4>2. Reconfigure(h)
        BY <3>3 DEF Create, Request, Read, Write, Fresh, FreshFails, Delete,
           DeleteAccount, RemoveFromRoster
      <4> QED
        BY <1>1, <4>1, <4>2 DEF Reconfigure, AfterReconfigure, WillSync
    <3>4. CASE pc[h] = "remove"
      <4>1. RemoveFromRoster(h)
        BY <3>4 DEF Create, Request, Read, Write, Fresh, FreshFails, Reconfigure, Delete,
           DeleteAccount
      <4> QED
        BY <1>1, <4>1 DEF RemoveFromRoster, WillSync
    <3> QED
      BY <3>1, <3>2, <3>3, <3>4
  <2>3. CASE version' = version + 1
    BY <1>1, <2>1, <2>3 DEF SomebodyWillSync
  <2>4. CASE version' = version /\ accounts' = accounts
    BY <1>1, <1>3, <2>2, <2>4, WillKept DEF IInv
  <2> QED
    BY <1>3, <2>3, <2>4
<1>8. Cleaning'
  BY <1>3, HandlersFrame, CleaningKept DEF IInv
<1> QED
  BY <1>5, <1>6, <1>7, <1>8 DEF Kept

(* A sync that committed what the accounts are, and met no other list.     *)
LEMMA CurrentSync ==
  ASSUME IInv, NEW w \in Workers, Commit(w), listed[w] = version, ~tx[w].crossed
  PROVE  rows' = RowsOf(accounts)
<1>1. /\ pc[w] = "tx" /\ tx[w].todo = {}
      /\ rows' \in [Names -> [Models -> {None} \cup {list[w][n].base : n \in Names} \cup Bases]]
      /\ \A k \in Keys : rows'[k[1]][k[2]] = Row(w, k)
  BY CommitFacts DEF IInv
<1>2. list[w] = accounts
  BY <1>1 DEF IInv, ListIsCurrent
<1>3. /\ \A k \in tx[w].put : Asked(w, k)
      /\ \A k \in Keys : Asked(w, k) => k \in PutBy(w)
  BY <1>1 DEF IInv, Open, Putting, PutBy, WritesListed
<1>4. \A k \in Keys : rows[k[1]][k[2]] # None => k \in PutBy(w) \cup CutBy(w)
  BY <1>1 DEF IInv, Cleaning, Touched, PutBy, CutBy
<1>5. ASSUME NEW n \in Names, NEW m \in Models
      PROVE  rows'[n][m] = IF accounts[n] # None /\ m \in accounts[n].models
                           THEN accounts[n].base ELSE None
  <2>1. <<n, m>> \in Keys /\ <<n, m>>[1] = n /\ <<n, m>>[2] = m
    BY DEF Keys
  <2>2. Asked(w, <<n, m>>) <=> accounts[n] # None /\ m \in accounts[n].models
    BY <1>2, <2>1 DEF Asked
  <2>3. <<n, m>> \in PutBy(w) <=> Asked(w, <<n, m>>)
    BY <1>3, <2>1 DEF PutBy
  <2>4. rows'[n][m] = Row(w, <<n, m>>)
    BY <1>1, <2>1
  <2>5. rows[n][m] # None => <<n, m>> \in PutBy(w) \cup CutBy(w)
    BY <1>4, <2>1
  <2> QED
    BY <1>2, <2>1, <2>2, <2>3, <2>4, <2>5 DEF Row
<1> QED
  BY <1>1, <1>5 DEF RowsOf

(* What a commit leaves the others with.                                   *)
LEMMA CleaningCommit ==
  ASSUME IInv, NEW w \in Workers, Commit(w)
  PROVE  Cleaning'
<1> SUFFICES ASSUME NEW v \in Workers, pc'[v] = "tx", listed'[v] = version', ~tx'[v].crossed,
                    NEW k \in Keys, k[1] \notin tx'[v].todo, rows'[k[1]][k[2]] # None
             PROVE  k \in Touched(v)'
  BY DEF Cleaning
<1>1. /\ v # w /\ pc[w] = "tx" /\ rows'[k[1]][k[2]] = Row(w, k)
  BY CommitFacts DEF IInv
<1>2. /\ pc[v] = "tx" /\ listed[v] = listed'[v] /\ ~tx[v].crossed /\ list[v] = list[w]
      /\ k[1] \notin tx[v].todo
      /\ tx'[v].put = tx[v].put /\ tx'[v].cut = tx[v].cut /\ tx'[v].aim = tx[v].aim \ CutBy(w)
  BY <1>1, CommitFacts DEF IInv
<1>3. version' = version
  BY DEF Commit
<1>4. CASE k \in PutBy(w)
  <2>1. Asked(v, k)
    BY <1>1, <1>2, <1>4 DEF IInv, WritesListed, PutBy, Asked
  <2>2. k \in tx[v].put
    BY <1>2, <2>1 DEF IInv, Open, Putting
  <2> QED
    BY <1>2, <2>2 DEF Touched
<1>5. CASE k \notin PutBy(w)
  <2>1. k \notin CutBy(w) /\ rows[k[1]][k[2]] # None
    BY <1>1, <1>5 DEF Row
  <2>2. k \in Touched(v)
    BY <1>2, <1>3, <2>1 DEF IInv, Cleaning
  <2> QED
    BY <1>2, <2>1, <2>2 DEF Touched
<1> QED
  BY <1>4, <1>5

LEMMA SyncSteps ==
  ASSUME IInv, NEW w \in Workers, List(w) \/ Commit(w) \/ SyncFails(w)
  PROVE  Kept
<1> USE DEF Goto, tables, history
<1>1. /\ pc \in [Workers -> Stages] /\ version \in Nat /\ synced \in 0 .. version
      /\ listed \in [Workers -> 0 .. version]
      /\ list \in [Workers -> [Names -> {None} \cup Accounts]]
  BY DEF IInv, TypeOK
<1>2. Alone(w) /\ accounts' = accounts /\ version' = version
  BY <1>1 DEF List, Commit, SyncFails, Alone
<1>3. CASE List(w)
  <2>1. pc' = [pc EXCEPT ![w] = "sync"] /\ list'[w] = accounts /\ listed'[w] = version
    BY <1>1, <1>3 DEF List
  <2>2. ListIsCurrent'
    BY <1>1, <1>2, <1>3, <2>1 DEF List, IInv, ListIsCurrent
  <2>3. SyncedFollows'
    BY <1>2, <1>3, SyncedKept DEF List, IInv
  <2>4. SomebodyWillSync'
    <3>1. WillSync(w)'
      BY <1>1, <1>2, <2>1 DEF WillSync
    <3> QED
      BY <3>1 DEF SomebodyWillSync
  <2>5. Cleaning'
    BY <1>2, <1>3, OthersFrame, CleaningKept DEF List, IInv
  <2> QED
    BY <2>2, <2>3, <2>4, <2>5 DEF Kept
<1>4. CASE SyncFails(w)
  <2>1. pc'[w] \notin {"sync", "tx"}
    BY <1>1, <1>4, AfterSyncStage DEF SyncFails
  <2>2. ListIsCurrent'
    <3>1. \A v \in Workers : pc'[v] \in {"sync", "tx"} =>
            pc[v] \in {"sync", "tx"} /\ list'[v] = list[v] /\ listed'[v] = listed[v]
      BY <1>1, <1>4, <2>1 DEF SyncFails
    <3> QED
      BY <1>2, <3>1, ListKept DEF IInv
  <2>3. SyncedFollows'
    BY <1>2, <1>4, SyncedKept DEF SyncFails, IInv
  <2>4. spoiled' \subseteq {"crash"} => WillSync(w)'
    BY <1>1, <1>4, Asm DEF SyncFails, AfterSync, WillSync
  <2>5. SomebodyWillSync'
    BY <1>2, <1>4, <2>4, WillKept DEF SyncFails, IInv
  <2>6. Cleaning'
    BY <1>2, <1>4, OthersFrame, CleaningKept DEF SyncFails, IInv
  <2> QED
    BY <2>2, <2>3, <2>5, <2>6 DEF Kept
<1>5. CASE Commit(w)
  <2>1. /\ pc[w] = "tx" /\ pc'[w] \notin {"sync", "tx"}
        /\ synced' = IF listed[w] > synced THEN listed[w] ELSE synced
        /\ spoiled' = IF listed[w] < synced THEN spoiled \cup {"late"}
                      ELSE IF tx[w].crossed THEN spoiled \cup {"crossed"}
                      ELSE IF listed[w] = version THEN {} ELSE spoiled
    BY <1>1, <1>5, AfterSyncStage DEF Commit
  <2>2. ListIsCurrent'
    <3>1. \A v \in Workers : pc'[v] \in {"sync", "tx"} =>
            pc[v] \in {"sync", "tx"} /\ list'[v] = list[v] /\ listed'[v] = listed[v]
      BY <1>1, <1>5, <2>1 DEF Commit
    <3> QED
      BY <1>2, <3>1, ListKept DEF IInv
  <2>3. SyncedFollows'
    <3>0. CASE listed[w] = version /\ tx[w].crossed
      <4>1. "late" \in spoiled' \/ "crossed" \in spoiled'
        BY <2>1, <3>0
      <4> QED
        BY <4>1 DEF SyncedFollows
    <3>1. CASE listed[w] = version /\ ~tx[w].crossed
      <4>2. rows' = RowsOf(accounts)
        BY <1>5, <3>1, CurrentSync DEF IInv
      <4> QED
        BY <1>2, <4>2 DEF SyncedFollows, RowsOf
    <3>2. CASE listed[w] # version
      <4>1. listed[w] < version
        <5>1. listed[w] \in 0 .. version /\ version \in Nat
          BY <1>1
        <5> QED
          BY <3>2, <5>1
      <4>2. synced' = version => listed[w] < synced
        BY <1>1, <2>1, <4>1
      <4>3. synced' = version => "late" \in spoiled'
        BY <2>1, <4>2
      <4> QED
        BY <1>2, <4>3 DEF SyncedFollows
    <3> QED
      BY <3>0, <3>1, <3>2
  <2>4. SomebodyWillSync'
    <3> SUFFICES ASSUME synced' < version, spoiled' \subseteq {"crash"}
                 PROVE  \E v \in Workers : WillSync(v)'
      BY <1>2 DEF SomebodyWillSync
    <3>1. listed[w] # version /\ synced < version
      BY <1>1, <2>1
    <3>2. spoiled \subseteq {"crash"}
      BY <2>1, <3>1
    <3>3. PICK v \in Workers : WillSync(v)
      BY <3>1, <3>2 DEF IInv, SomebodyWillSync
    <3>4. v # w
      BY <2>1, <3>1, <3>3 DEF WillSync
    <3> QED
      BY <1>2, <3>3, <3>4, OthersKeep
  <2>5. Cleaning'
    BY <1>5, CleaningCommit
  <2> QED
    BY <2>2, <2>3, <2>4, <2>5 DEF Kept
<1> QED
  BY <1>3, <1>4, <1>5

(* The transactions before they commit: what they do is seen by nobody.    *)
LEMMA TransactionSteps ==
  ASSUME OneChunk, IInv, NEW w \in Workers,
         Begin(w) \/ \E n \in Names : Materialize(w, n)
  PROVE  Kept
<1>1. /\ pc \in [Workers -> Stages] /\ tx \in [Workers -> TxType]
      /\ rows \in [Names -> [Models -> {None} \cup Bases]]
  BY Parts DEF IInv, TablesTyped, WorkersTyped, CountersTyped
<1>2. /\ pc[w] \in {"sync", "tx"} /\ pc'[w] = "tx"
      /\ \A v \in Workers : v # w => pc'[v] = pc[v] /\ tx'[v] = tx[v]
      /\ UNCHANGED <<accounts, rows, op, draft, list, version, listed, synced, spoiled>>
  <2>1. CASE Begin(w)
    <3>1. /\ pc[w] = "sync" /\ pc' = [pc EXCEPT ![w] = "tx"] /\ tx' = [tx EXCEPT ![w] = tx'[w]]
          /\ UNCHANGED <<accounts, rows, op, draft, list, version, listed, synced, spoiled>>
      BY <2>1, BeginFacts DEF IInv
    <3> QED
      BY <1>1, <3>1
  <2>2. ASSUME NEW n \in Names, Materialize(w, n)
        PROVE  /\ pc[w] = "tx" /\ pc' = pc /\ tx' = [tx EXCEPT ![w] = tx'[w]]
               /\ UNCHANGED <<accounts, rows, op, draft, list, version, listed, synced, spoiled>>
    BY <2>2, MaterializeFacts DEF IInv
  <2> QED
    BY <1>1, <2>1, <2>2
<1>3. ListIsCurrent'
  BY <1>2 DEF IInv, ListIsCurrent
<1>4. SyncedFollows'
  BY <1>2 DEF IInv, SyncedFollows, RowsOf
<1>5. SomebodyWillSync'
  <2>1. \A v \in Workers : WillSync(v) => WillSync(v)'
    BY <1>2 DEF WillSync
  <2> QED
    BY <1>2, <2>1 DEF IInv, SomebodyWillSync
<1>6. ASSUME listed[w] = version, ~tx'[w].crossed,
             NEW k \in Keys, k[1] \notin tx'[w].todo, rows[k[1]][k[2]] # None
      PROVE  k \in Touched(w)'
  <2>1. k[1] \in Names /\ k[2] \in Models /\ k \in Committed
    BY <1>6 DEF Keys, Committed
  <2>2. CASE Begin(w)
    <3>1. /\ tx'[w].aim = {i \in Committed : accounts[i[1]] = None}
          /\ tx'[w].todo = {n \in Names : list[w][n] # None}
      BY <2>2, BeginFacts DEF IInv
    <3>2. list[w] = accounts
      BY <1>2, <1>6 DEF IInv, ListIsCurrent
    <3> QED
      BY <1>6, <2>1, <3>1, <3>2 DEF Touched
  <2>3. ASSUME NEW n \in Names, Materialize(w, n)
        PROVE  k \in Touched(w)'
    <3>1. /\ pc[w] = "tx" /\ list[w][n] # None
          /\ tx'[w].put = PutBy(w) \cup ({n} \X list[w][n].models)
          /\ tx'[w].cut = CutBy(w)
          /\ tx'[w].aim = {i \in Found(w, n) : i[2] \notin Surviving(list[w][n].models)}
          /\ tx'[w].todo = tx[w].todo \ {n} /\ tx'[w].crossed = tx[w].crossed
      BY <2>3, MaterializeFacts DEF IInv
    <3>2. CASE k[1] # n
      <4>1. k \in Touched(w)
        BY <1>6, <2>1, <3>1, <3>2 DEF IInv, Cleaning
      <4> QED
        BY <3>1, <4>1 DEF Touched, PutBy, CutBy
    <3>3. CASE k[1] = n
      <4>1. Surviving(list[w][n].models) = list[w][n].models
        BY <3>1, ListedSurvive DEF IInv
      <4>2. k \in {n} \X Models
        BY <2>1, <3>3 DEF Keys
      <4>3. CASE k \in CutBy(w)
        BY <3>1, <4>3 DEF Touched
      <4>4. CASE k[2] \in list[w][n].models
        <5>1. k \in {n} \X list[w][n].models
          BY <4>2, <4>4
        <5> QED
          BY <3>1, <5>1 DEF Touched
      <4>5. CASE k \notin CutBy(w) /\ k[2] \notin list[w][n].models
        <5>1. k \in Found(w, n)
          BY <2>1, <4>2, <4>5 DEF Found
        <5> QED
          BY <3>1, <4>1, <4>5, <5>1 DEF Touched
      <4> QED
        BY <4>3, <4>4, <4>5
    <3> QED
      BY <3>2, <3>3
  <2> QED
    BY <2>2, <2>3
<1>7. Cleaning'
  BY <1>2, <1>6 DEF IInv, Cleaning, Touched
<1> QED
  BY <1>3, <1>4, <1>5, <1>7 DEF Kept

LEMMA ReplicaSteps ==
  ASSUME IInv, NEW r \in Replicas, Crash(r) \/ Boot(r) \/ NewManager(r)
  PROVE  Kept
<1> USE DEF Goto, tables, history
<1>1. /\ r \in Workers /\ pc \in [Workers -> Stages]
      /\ UNCHANGED <<accounts, version, synced, rows>> /\ spoiled \subseteq spoiled'
  BY DEF IInv, TypeOK, Workers, Crash, Boot, NewManager
<1>2. ListIsCurrent'
  <2>1. \A w \in Workers : pc'[w] \in {"sync", "tx"} =>
          pc[w] \in {"sync", "tx"} /\ list'[w] = list[w] /\ listed'[w] = listed[w]
    BY <1>1 DEF Crash, Boot, SyncFirst, NewManager
  <2> QED
    BY <1>1, <2>1, ListKept DEF IInv
<1>3. SyncedFollows'
  BY <1>1, SyncedKept DEF IInv
<1>4. SomebodyWillSync'
  <2>1. CASE Crash(r)
    <3>1. pc'[r] = "down"
      BY <1>1, <2>1 DEF Crash
    <3>2. WillSync(r)'
      BY <3>1 DEF WillSync
    <3> QED
      BY <1>1, <3>2 DEF SomebodyWillSync
  <2>2. CASE Boot(r) \/ NewManager(r)
    <3>1. Alone(r)
      BY <1>1, <2>2 DEF Boot, NewManager, Alone
    <3>2. WillSync(r) => WillSync(r)'
      BY <1>1, <2>2, Asm DEF Boot, SyncFirst, NewManager, WillSync
    <3> QED
      BY <1>1, <3>1, <3>2, WillKept DEF IInv
  <2> QED
    BY <2>1, <2>2
<1>5. Cleaning'
  BY <1>1, OthersFrame, CleaningKept DEF IInv
<1> QED
  BY <1>2, <1>3, <1>4, <1>5 DEF Kept

LEMMA Stuttering ==
  ASSUME IInv, UNCHANGED <<accounts, rows, pc, op, draft, list, tx, version, history, spoiled>>
  PROVE  Kept
BY DEF IInv, Kept, ListIsCurrent, Cleaning, Touched, SyncedFollows, SomebodyWillSync, WillSync,
   RowsOf, history

LEMMA InvInit == Init => IInv
<1> SUFFICES ASSUME Init
             PROVE  IInv
  OBVIOUS
<1>1. ListIsCurrent
  BY Asm DEF Init, ListIsCurrent, Workers
<1>2. SyncedFollows /\ SomebodyWillSync
  BY DEF Init, SyncedFollows, SomebodyWillSync
<1>3. Cleaning
  BY DEF Init, Cleaning
<1> QED
  BY <1>1, <1>2, <1>3, InitTypes, OpenInit DEF IInv

LEMMA InvStep ==
  ASSUME OneChunk, IInv, [Next]_vars
  PROVE  IInv'
<1>1. TypeOK' /\ Busy' /\ WritesListed' /\ Open'
  BY NextTypes, OpenStep DEF IInv
<1>2. ASSUME \/ UNCHANGED vars
             \/ \E n \in Names, m \in Models : Fault(n, m)
      PROVE  Kept
  BY <1>2, Stuttering DEF vars, tables, Fault
<1>3. Kept
  BY <1>2, HandlerSteps, SyncSteps, TransactionSteps, ReplicaSteps DEF Next, AllDone
<1> QED
  BY <1>1, <1>3 DEF IInv, Kept

(* Nobody is going to sync once everything is quiet.                       *)
LEMMA QuietMeansSynced ==
  ASSUME IInv
  PROVE  CatalogFollowsAccounts
<1> SUFFICES ASSUME Quiet, spoiled \subseteq {"crash"}
             PROVE  rows = RowsOf(accounts)
  BY DEF CatalogFollowsAccounts
<1>1. \A w \in Workers : ~WillSync(w)
  BY DEF Quiet, InFlight, Workers, WillSync
<1>2. synced = version
  BY <1>1 DEF IInv, TypeOK, SomebodyWillSync
<1> QED
  BY <1>2 DEF IInv, SyncedFollows

(* Once no request is under way and every replica is up, the catalog is    *)
(* what the accounts ask for, unless a sync was overtaken, was open        *)
(* together with one that had listed other accounts, failed or was never   *)
(* asked for.                                                              *)
THEOREM CatalogFollows ==
  ASSUME OneChunk
  PROVE  Spec => []CatalogFollowsAccounts
<1>1. IInv /\ [Next]_vars => IInv'
  BY InvStep
<1> QED
  BY <1>1, InvInit, QuietMeansSynced, PTL DEF Spec
=============================================================================
