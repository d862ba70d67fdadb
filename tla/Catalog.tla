------------------------------ MODULE Catalog ------------------------------
(***************************************************************************)
(* Upstream's accounts and the catalog of models made from them: the admin *)
(* handlers (upstream/adminapi/admin.go), MaterializeAccounts              *)
(* (upstream/upstreamstore/store.go), the start of a replica               *)
(* (upstream/cmd/upstream/main.go) and the roster the account Manager of   *)
(* each replica keeps in memory (Reconfigure, Remove of                    *)
(* upstream/account/manager.go).                                           *)
(*                                                                         *)
(* An account is reduced to the names of its models and to base, which     *)
(* stands for every other field an administrator sets; of model_state only *)
(* whether it holds anything worth keeping is left. Accounts are of a kind *)
(* that has a catalog (not the imported ones of a protocol without one); a *)
(* test is that of an API-key account. The statements of a handler are     *)
(* steps of their own. The transaction of MaterializeAccounts runs at READ *)
(* COMMITTED: it sees what others have committed when a statement begins,  *)
(* and waits for the rows they hold.                                       *)
(***************************************************************************)
EXTENDS Integers, FiniteSets, Sequences, SequencesExt

CONSTANTS
  Names, Models, Bases,
  Replicas, Handlers,   \* a handler serves one request
  ReplicaOf,            \* ReplicaOf[h]: the replica that handler h runs in
  Chunk,                \* how many ids one DELETE of deleteStaleModels lists
  MaxCrashes,           \* bound: crashes of replicas
  None

Accounts == [base : Bases, models : SUBSET Models \ {{}}]
Workers == Handlers \cup Replicas

ASSUME CatalogAssumption ==
  /\ IsFiniteSet(Models)
  /\ ReplicaOf \in [Handlers -> Replicas]
  /\ Handlers \cap Replicas = {}
  /\ Chunk \in Nat \ {0} /\ MaxCrashes \in Nat
  /\ None \notin Bases \cup Accounts

VARIABLES
  accounts,   \* table accounts
  rows,       \* table upstream_models: rows[n][m] is the base of row n/m, or None
  troubled,   \* table model_state: the rows with failures or a cooldown
  roster,     \* roster[r]: the Manager's accounts
  pc, op, draft,
  list,       \* list[w]: what ListAccounts returned to w
  tx,         \* tx[w]: the open transaction of w
  crashes,
  version,    \* history: number of changes of the table accounts
  listed,     \* history: listed[w]: the version of list[w]
  synced,     \* history: the newest version a sync has committed
  spoiled     \* history: why rows need not follow accounts

tables == <<accounts, rows, troubled>>
history == <<listed, synced>>
vars == <<tables, roster, pc, op, draft, list, tx, crashes, version, history, spoiled>>

Goto(w, l) == pc' = [pc EXCEPT ![w] = l]
Keys == Names \X Models

(* The catalog that accounts ask for. *)
RowsOf(acc) ==
  [n \in Names |-> [m \in Models |->
     IF acc[n] # None /\ m \in acc[n].models THEN acc[n].base ELSE None]]

Nobody == [n \in Names |-> None]

(* A transaction: the rows it has written and those it has deleted, the    *)
(* rows that the DELETE under way has found, and the accounts still to be  *)
(* materialized. History: the accounts that did not exist when it began,   *)
(* and whether a sync with another list has committed since.               *)
NoTx == [put |-> {}, cut |-> {}, aim |-> {}, todo |-> {}, gone |-> {}, crossed |-> FALSE]

(* Some accounts exist, none with more models than a DELETE lists, and all *)
(* replicas have started.                                                  *)
Init ==
  /\ accounts \in [Names -> {None} \cup {a \in Accounts : Cardinality(a.models) <= Chunk}]
  /\ rows = RowsOf(accounts) /\ troubled = {}
  /\ roster = [r \in Replicas |-> accounts]
  /\ pc = [w \in Workers |-> IF w \in Replicas THEN "up" ELSE "idle"]
  /\ op = [h \in Handlers |-> None]
  /\ draft = [h \in Handlers |-> None]
  /\ list = [w \in Workers |-> Nobody]
  /\ tx = [w \in Workers |-> NoTx]
  /\ crashes = 0
  /\ version = 0 /\ listed = [w \in Workers |-> 0] /\ synced = 0
  /\ spoiled = {}
-----------------------------------------------------------------------------
(* The admin handlers. op[h] names the request and the account. *)

Request(h, kind, n) ==
  /\ pc[h] = "idle" /\ pc[ReplicaOf[h]] = "up"
  /\ op' = [op EXCEPT ![h] = [kind |-> kind, name |-> n]]

Store(n, a) == accounts' = [accounts EXCEPT ![n] = a] /\ version' = version + 1

(* POST /admin/accounts: the INSERT, or 409. *)
Create(h, n, a) ==
  /\ Request(h, "create", n)
  /\ \/ /\ accounts[n] = None
        /\ Store(n, a) /\ Goto(h, "fresh")
     \/ /\ accounts[n] # None
        /\ Goto(h, "refused") /\ UNCHANGED <<accounts, version>>
  /\ UNCHANGED <<rows, troubled, roster, draft, list, tx, crashes, history, spoiled>>

(* PUT and POST .../test read the account first. PUT replaces the fields   *)
(* it is given; a test finds the base that answers.                        *)
Read(h, n, kind, a) ==
  /\ Request(h, kind, n)
  /\ \/ /\ accounts[n] = None
        /\ Goto(h, "refused") /\ UNCHANGED draft
     \/ /\ accounts[n] # None
        /\ kind = "test" => a.models = accounts[n].models
        /\ draft' = [draft EXCEPT ![h] = a]
        /\ Goto(h, IF kind = "test" /\ a = accounts[n] THEN "done" ELSE "write")
  /\ UNCHANGED <<tables, roster, list, tx, crashes, version, history, spoiled>>

(* UpdateAccount. A test writes the base and asks for no sync. *)
Write(h) ==
  LET n == op[h].name IN
  /\ pc[h] = "write"
  /\ \/ /\ accounts[n] = None
        /\ Goto(h, "refused") /\ UNCHANGED <<accounts, version, spoiled>>
     \/ /\ accounts[n] # None
        /\ Store(n, draft[h]) /\ Goto(h, "fresh")
        /\ spoiled' = IF op[h].kind = "test" THEN spoiled \cup {"test"} ELSE spoiled
  /\ UNCHANGED <<rows, troubled, roster, op, draft, list, tx, crashes, history>>

AfterReconfigure(h) == IF op[h].kind = "test" THEN "done" ELSE "list"

(* GetAccount: what the Manager is going to be told. *)
Fresh(h) ==
  /\ pc[h] = "fresh"
  /\ draft' = [draft EXCEPT ![h] = accounts[op[h].name]]
  /\ Goto(h, "reconfigure")
  /\ UNCHANGED <<tables, roster, op, list, tx, crashes, version, history, spoiled>>

(* It cannot be read: 500, and no sync. A test goes on without. *)
FreshFails(h) ==
  /\ pc[h] = "fresh"
  /\ Goto(h, IF op[h].kind = "test" THEN "done" ELSE "failed")
  /\ spoiled' = spoiled \cup {"failed"}
  /\ UNCHANGED <<tables, roster, op, draft, list, tx, crashes, version, history>>

(* Reconfigure dereferences the account: if it has been deleted meanwhile  *)
(* the handler panics, and net/http recovers.                              *)
Reconfigure(h) ==
  /\ pc[h] = "reconfigure"
  /\ \/ /\ draft[h] = None
        /\ Goto(h, "panicked")
        /\ UNCHANGED roster
     \/ /\ draft[h] # None
        /\ roster' = [roster EXCEPT ![ReplicaOf[h]][op[h].name] = draft[h]]
        /\ Goto(h, AfterReconfigure(h))
  /\ UNCHANGED <<tables, op, draft, list, tx, crashes, version, history, spoiled>>

(* DELETE: 404, or the account is deleted and then leaves the roster. *)
Delete(h, n) ==
  /\ Request(h, "delete", n)
  /\ Goto(h, IF accounts[n] = None THEN "refused" ELSE "delete")
  /\ UNCHANGED <<tables, roster, draft, list, tx, crashes, version, history, spoiled>>

DeleteAccount(h) ==
  /\ pc[h] = "delete"
  /\ Store(op[h].name, None) /\ Goto(h, "remove")
  /\ UNCHANGED <<rows, troubled, roster, op, draft, list, tx, crashes, history, spoiled>>

RemoveFromRoster(h) ==
  /\ pc[h] = "remove"
  /\ roster' = [roster EXCEPT ![ReplicaOf[h]][op[h].name] = None]
  /\ Goto(h, "list")
  /\ UNCHANGED <<tables, op, draft, list, tx, crashes, version, history, spoiled>>
-----------------------------------------------------------------------------
(* MaterializeAccounts, run by a handler and by a replica that starts. *)

List(w) ==
  /\ pc[w] = "list"
  /\ list' = [list EXCEPT ![w] = accounts]
  /\ listed' = [listed EXCEPT ![w] = version]
  /\ Goto(w, "sync")
  /\ UNCHANGED <<tables, roster, op, draft, tx, crashes, version, synced, spoiled>>

(* deleteStaleModels: one DELETE for each chunk of the ids to keep removes *)
(* the rows that are not in that chunk.                                    *)
Chunks(keep) ==
  LET ids == SetToSeq(keep) IN
  {{ids[i] : i \in (Chunk * k + 1 .. Chunk * (k + 1)) \cap DOMAIN ids} :
     k \in 0 .. (Len(ids) - 1) \div Chunk}
Surviving(keep) == {m \in keep : \A c \in Chunks(keep) : m \in c}

(* The accounts whose rows nobody needs: those that are not in the table   *)
(* now; MissingInList takes those that were not listed.                    *)
MissingInList(w) == {n \in Names : list[w][n] = None}
Missing(w) == {n \in Names : accounts[n] = None}

Committed == {k \in Keys : rows[k[1]][k[2]] # None}

(* Rows that other transactions have written: whoever wants to write them  *)
(* waits for the end of those.                                             *)
Held(w) == UNION {tx[v].put \cup tx[v].cut : v \in Workers \ {w}}

(* A DELETE removes the rows it found when it began, as far as they are    *)
(* still there. What a transaction writes is seen by nobody before it      *)
(* commits, and what it sees is fixed when a DELETE begins; so a step of   *)
(* it goes from the end of one DELETE to the beginning of the next.        *)
Begin(w) ==
  /\ pc[w] = "sync"
  /\ tx' = [tx EXCEPT ![w] =
              [put |-> {}, cut |-> {}, aim |-> {k \in Committed : k[1] \in Missing(w)},
               todo |-> {n \in Names : list[w][n] # None},
               gone |-> {n \in Names : accounts[n] = None}, crossed |-> FALSE]]
  /\ Goto(w, "tx")
  /\ UNCHANGED <<tables, roster, op, draft, list, crashes, version, history, spoiled>>

(* One account: its models are upserted, and rows of other models found.   *)
Materialize(w, n) ==
  LET t    == tx[w]
      keep == list[w][n].models
      ups  == {n} \X keep
      put  == (t.put \ t.aim) \cup ups
      cut  == t.cut \cup t.aim
      mine == ({n} \X Models) \cap ((Committed \ cut) \cup put)
  IN
  /\ pc[w] = "tx" /\ n \in t.todo
  /\ (t.aim \cup ups) \cap Held(w) = {}
  /\ tx' = [tx EXCEPT ![w] =
              [put |-> put, cut |-> cut, aim |-> {k \in mine : k[2] \notin Surviving(keep)},
               todo |-> t.todo \ {n}, gone |-> t.gone, crossed |-> t.crossed]]
  /\ UNCHANGED <<tables, roster, pc, op, draft, list, crashes, version, history, spoiled>>

AfterSync(w, ok) ==
  IF w \in Replicas THEN IF ok THEN "load" ELSE "down"
  ELSE IF ok THEN "done" ELSE "failed"

(* A row that was deleted is none of those a DELETE of another transaction *)
(* has found, even if it is there again; its state went ON DELETE CASCADE. *)
Commit(w) ==
  LET t   == tx[w]
      put == t.put \ t.aim
      cut == t.cut \cup t.aim
  IN
  /\ pc[w] = "tx" /\ t.todo = {}
  /\ t.aim \cap Held(w) = {}
  /\ rows' = [n \in Names |-> [m \in Models |->
                IF <<n, m>> \in put THEN list[w][n].base
                ELSE IF <<n, m>> \in cut THEN None ELSE rows[n][m]]]
  /\ troubled' = troubled \ cut
  /\ tx' = [v \in Workers |->
              IF v = w THEN NoTx
              ELSE [tx[v] EXCEPT !.aim = @ \ cut,
                                 !.crossed = @ \/ (pc[v] = "tx" /\ list[v] # list[w])]]
  /\ Goto(w, AfterSync(w, TRUE))
  /\ synced' = IF listed[w] > synced THEN listed[w] ELSE synced
  /\ spoiled' = IF listed[w] < synced THEN spoiled \cup {"late"}
                ELSE IF t.crossed THEN spoiled \cup {"crossed"}
                ELSE IF listed[w] = version THEN {} ELSE spoiled
  /\ list' = [list EXCEPT ![w] = Nobody]
  /\ listed' = [listed EXCEPT ![w] = 0]
  /\ UNCHANGED <<accounts, roster, op, draft, crashes, version>>

(* ListAccounts or the transaction fails, which PostgreSQL also does with  *)
(* one of two that wait for each other: 500, and a replica gives up.       *)
SyncFails(w) ==
  /\ pc[w] \in {"list", "sync", "tx"}
  /\ w \in Replicas => crashes < MaxCrashes
  /\ crashes' = IF w \in Replicas THEN crashes + 1 ELSE crashes
  /\ Goto(w, AfterSync(w, FALSE))
  /\ spoiled' = IF w \in Replicas THEN spoiled ELSE spoiled \cup {"failed"}
  /\ list' = [list EXCEPT ![w] = Nobody]
  /\ tx' = [tx EXCEPT ![w] = NoTx]
  /\ listed' = [listed EXCEPT ![w] = 0]
  /\ UNCHANGED <<tables, roster, op, draft, version, synced>>
-----------------------------------------------------------------------------
(* A replica stops and its handlers with it. *)
InFlight(h) == pc[h] \notin {"idle", "done", "refused", "failed", "panicked"}

Crash(r) ==
  /\ pc[r] # "down" /\ crashes < MaxCrashes
  /\ crashes' = crashes + 1
  /\ pc' = [w \in Workers |->
              IF w = r THEN "down"
              ELSE IF w \in Handlers /\ ReplicaOf[w] = r /\ InFlight(w) THEN "failed"
              ELSE pc[w]]
  /\ roster' = [roster EXCEPT ![r] = Nobody]
  /\ list' = [w \in Workers |-> IF pc'[w] \in {"down", "failed"} THEN Nobody ELSE list[w]]
  /\ tx' = [w \in Workers |-> IF pc'[w] \in {"down", "failed"} THEN NoTx ELSE tx[w]]
  /\ listed' = [w \in Workers |-> IF pc'[w] \in {"down", "failed"} THEN 0 ELSE listed[w]]
  /\ spoiled' = spoiled \cup {"crash"}
  /\ UNCHANGED <<tables, op, draft, version, synced>>

(* main: MaterializeAccounts, then NewManager reads the accounts.          *)
(* ServeUnsynced is a main that does not materialize.                      *)
ServeUnsynced == "load"
SyncFirst == "list"

Boot(r) ==
  /\ pc[r] = "down"
  /\ Goto(r, SyncFirst)
  /\ UNCHANGED <<tables, roster, op, draft, list, tx, crashes, version, history, spoiled>>

NewManager(r) ==
  /\ pc[r] = "load"
  /\ roster' = [roster EXCEPT ![r] = accounts]
  /\ Goto(r, "up")
  /\ UNCHANGED <<tables, op, draft, list, tx, crashes, version, history, spoiled>>

(* ApplyReport stores a failure of the model; it waits for whoever has     *)
(* deleted the row.                                                        *)
Fault(n, m) ==
  /\ rows[n][m] # None /\ \A w \in Workers : <<n, m>> \notin tx[w].cut
  /\ troubled' = troubled \cup {<<n, m>>}
  /\ UNCHANGED <<accounts, rows, roster, pc, op, draft, list, tx, crashes, version, history, spoiled>>
-----------------------------------------------------------------------------
AllDone ==
  /\ \A h \in Handlers : ~InFlight(h) /\ pc[h] # "idle"
  /\ \A r \in Replicas : pc[r] = "up"
  /\ UNCHANGED vars

Next ==
  \/ \E h \in Handlers, n \in Names :
       \/ \E a \in Accounts : Create(h, n, a) \/ Read(h, n, "update", a) \/ Read(h, n, "test", a)
       \/ Delete(h, n)
  \/ \E h \in Handlers :
       \/ Write(h) \/ Fresh(h) \/ FreshFails(h) \/ Reconfigure(h)
       \/ DeleteAccount(h) \/ RemoveFromRoster(h)
  \/ \E w \in Workers : List(w) \/ Begin(w) \/ Commit(w) \/ SyncFails(w)
  \/ \E w \in Workers, n \in Names : Materialize(w, n)
  \/ \E r \in Replicas : Crash(r) \/ Boot(r) \/ NewManager(r)
  \/ \E n \in Names, m \in Models : Fault(n, m)
  \/ AllDone

Spec == Init /\ [][Next]_vars
-----------------------------------------------------------------------------
(* Properties. *)

Stages == {"idle", "write", "fresh", "reconfigure", "delete", "remove", "list", "sync", "tx",
           "done", "refused", "failed", "panicked", "up", "down", "load"}

(* The types, and: model_state has rows only for rows of upstream_models   *)
(* (its foreign key, with ON DELETE CASCADE).                              *)
TypeOK ==
  /\ accounts \in [Names -> {None} \cup Accounts]
  /\ rows \in [Names -> [Models -> {None} \cup Bases]]
  /\ troubled \subseteq {k \in Keys : rows[k[1]][k[2]] # None}
  /\ roster \in [Replicas -> [Names -> {None} \cup Accounts]]
  /\ pc \in [Workers -> Stages]
  /\ op \in [Handlers -> {None} \cup [kind : {"create", "update", "test", "delete"}, name : Names]]
  /\ draft \in [Handlers -> {None} \cup Accounts]
  /\ list \in [Workers -> [Names -> {None} \cup Accounts]]
  /\ tx \in [Workers -> [put : SUBSET Keys, cut : SUBSET Keys, aim : SUBSET Keys,
                         todo : SUBSET Names, gone : SUBSET Names, crossed : BOOLEAN]]
  /\ crashes \in 0 .. MaxCrashes
  /\ version \in Nat /\ listed \in [Workers -> 0 .. version] /\ synced \in 0 .. version
  /\ spoiled \subseteq {"test", "late", "crossed", "failed", "crash"}

Quiet == (\A h \in Handlers : ~InFlight(h)) /\ (\A r \in Replicas : pc[r] = "up")

(* Once no admin request is under way and every replica is up, the catalog *)
(* is the one the accounts ask for, unless a sync was overtaken by a newer *)
(* one and committed after it, was open together with one that had listed  *)
(* other accounts, failed, or was not asked for. Neither a crash between   *)
(* the change of an account and its sync is such a reason, for the restart *)
(* makes up for it, nor a handler that panics, nor replicas that start at  *)
(* the same time.                                                          *)
CatalogFollowsAccounts ==
  Quiet /\ spoiled \subseteq {"crash"} => rows = RowsOf(accounts)

(* The worker whose sync commits in this step has listed n without m, or   *)
(* n did not exist when its transaction began.                             *)
Unconfigured(n, m) ==
  \E w \in Workers :
    /\ pc[w] = "tx" /\ pc'[w] \in {"done", "load"}
    /\ n \in tx[w].gone \/ (list[w][n] # None /\ m \notin list[w][n].models)

(* The failures and the cooldown of a model survive every sync, a replica  *)
(* that starts included, as long as the model stays configured.            *)
StateKept ==
  [][\A k \in Keys : k \in troubled => k \in troubled' \/ Unconfigured(k[1], k[2])]_vars

(* What the comment of materializeAccount says: only rows of models that   *)
(* are no longer configured are deleted.                                   *)
OnlyStaleModelsDeleted ==
  [][\A n \in Names, m \in Models :
       rows[n][m] # None /\ rows'[n][m] = None => Unconfigured(n, m)]_vars

(* What the comment of adminTestAccount says: the base that a test has     *)
(* found is written back and takes effect at once. Resolve takes the base  *)
(* of a target from the catalog.                                           *)
TestedBaseTakesEffect ==
  \A h \in Handlers :
    pc[h] = "done" /\ op[h].kind = "test" /\ Quiet /\ accounts[op[h].name] = draft[h] =>
      \A m \in draft[h].models : rows[op[h].name][m] \in {None, draft[h].base}
=============================================================================
