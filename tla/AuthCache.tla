----------------------------- MODULE AuthCache -----------------------------
(***************************************************************************)
(* Replay's authentication of clients: the rows of user_models, the cache  *)
(* auth:<model> that every replica shares in Redis, and the handlers that  *)
(* change a row and then delete its entry.                                 *)
(* Sources: Authenticate, cacheAuth, PutUserModel, DeleteUserModel,        *)
(* invalidateAuth and Bootstrap of replay/relaystore/store.go, Dispatch of *)
(* replay/service/service.go up to the verdict, putUserModel and           *)
(* deleteUserModel of replay/service/admin.go, upstream/redisx/redisx.go.  *)
(*                                                                         *)
(* Calls and administrators are served by any replica, concurrently. A     *)
(* statement or a command may fail, or be carried out and its reply be     *)
(* lost (MaxFaults bounds how often in a behaviour); a replica whose       *)
(* command failed leaves Redis alone for DownFor ticks. Time is counted in *)
(* ticks. A replica without Redis is one that is always down.              *)
(***************************************************************************)
EXTENDS Naturals, Sequences

CONSTANTS
  Replicas, Calls, Admins, Models,
  Settings,     \* Settings[m]: what PUT may store, [protocol, key, enabled, compress]
  Booted,       \* what Bootstrap inserts
  Requests,     \* [model, protocol, key, internal]: what Dispatch is asked
  TTL,          \* ticks an entry lives, authCacheTTL
  DownFor,      \* ticks a replica leaves Redis alone after an error, downFor
  MaxLag,       \* ticks between reading a row and caching it, cmdWait
  MaxChanges,   \* bound: changes begun in a behaviour
  MaxFaults,    \* bound: faults in a behaviour
  None

ASSUME AuthCacheAssumption ==
  /\ {TTL, DownFor} \subseteq Nat \ {0}
  /\ {MaxLag, MaxChanges, MaxFaults} \subseteq Nat
  /\ \A m \in Models : /\ Booted \in Settings[m]
                       /\ None \notin Settings[m]
                       /\ \A s \in Settings[m] : s.compress \in Models \cup {None}
  /\ None \notin Models
  /\ \A q \in Requests : q.model \in Models

VARIABLES
  history,      \* history[m]: the rows m has had, the last is the stored one;
                \*   past: ticks since the row was replaced
  cache,        \* cache[m]: the entry of auth:m in Redis, None if absent
  down,         \* down[r]: ticks for which replica r still avoids Redis
  call,         \* call[c]: a dispatch being authenticated
  admin,        \* admin[a]: an administrator's request
  changes, faults,
  acked,        \* history: acked[m]: the last row whose writer was told 200
  excuse        \* history: why the entry of m may be out of date

vars == <<history, cache, down, call, admin, changes, faults, acked, excuse>>

(* The last moment at which a cached row can still be served.              *)
Cap == TTL + MaxLag + 1

Stored(m) == history[m][Len(history[m])].row

(* What the query of Authenticate returns of a row, and with it what is    *)
(* cached: nothing of a model that is missing or disabled, whose entry is  *)
(* the empty string.                                                       *)
Published(row) ==
  IF row = None \/ ~row.enabled THEN None
  ELSE [protocol |-> row.protocol, key |-> row.key, compress |-> row.compress]

(* Dispatch's answer. A request of the Agent's own compaction is let in    *)
(* for every model that is configured.                                     *)
NotFound == [code |-> "not_found", compress |-> None]
Unauthorized == [code |-> "unauthorized", compress |-> None]
Failed == [code |-> "internal", compress |-> None]

Verdict(known, q) ==
  IF known = None THEN NotFound
  ELSE IF q.internal \/ /\ known.protocol \in {"auto", q.protocol}
                        /\ known.key = q.key
       THEN [code |-> "allowed", compress |-> known.compress]
       ELSE Unauthorized

Idle == [at |-> "idle", replica |-> None, req |-> None, row |-> None, read |-> 0,
         lag |-> 0, since |-> 0, answer |-> None]
Resting == [at |-> "idle", replica |-> None, model |-> None, row |-> None, mine |-> 0]

Init ==
  /\ history \in {h \in [Models -> {<<[row |-> r, past |-> 0]>> : r \in {None} \cup
                                     UNION {Settings[m] : m \in Models}}] :
                   \A m \in Models : h[m][1].row \in {None} \cup
                                     {s \in Settings[m] : s.compress = None}}
  /\ cache = [m \in Models |-> None]
  /\ down = [r \in Replicas |-> 0]
  /\ call = [c \in Calls |-> Idle]
  /\ admin = [a \in Admins |-> Resting]
  /\ changes = 0 /\ faults = 0
  /\ acked = [m \in Models |-> 1]
  /\ excuse = [m \in Models |-> {}]

----------------------------------------------------------------------------
(* Commands to Redis.                                                      *)

Reaches(r) == down[r] = 0 /\ UNCHANGED <<down, faults>>
Refuses(r) == down[r] > 0 /\ UNCHANGED <<down, faults>>

Fault == faults < MaxFaults /\ faults' = faults + 1

(* An error or a timeout begins the time in which the replica refuses; a   *)
(* command cancelled with its request does not.                            *)
Breaks(r) ==
  /\ down[r] = 0
  /\ Fault
  /\ down' \in {down, [down EXCEPT ![r] = DownFor]}

(* Mutant: SET without a lifetime.                                         *)
EntryForGood(row) == [row |-> row, left |-> 0]

Entry(row) == [row |-> row, left |-> TTL]

Put(m, row, read) ==
  /\ cache' = [cache EXCEPT ![m] = Entry(row)]
  /\ excuse' = [excuse EXCEPT ![m] = IF read < Len(history[m])
                                     THEN {"filled_late"} ELSE {}]

Drop(m) ==
  /\ cache' = [cache EXCEPT ![m] = None]
  /\ excuse' = [excuse EXCEPT ![m] = {}]

(* The row of m has changed and its entry, if there is one, stays.         *)
Keep(m) ==
  /\ excuse' = [excuse EXCEPT ![m] = IF cache[m] = None THEN @
                                     ELSE @ \cup {"not_deleted"}]
  /\ UNCHANGED cache

----------------------------------------------------------------------------
(* Authenticate.                                                           *)

Answer(c, verdict) ==
  call' = [call EXCEPT ![c] = [Idle EXCEPT !.at = "answered", !.req = call[c].req,
                       !.since = call[c].since, !.answer = verdict]]

(* Mutant: a hit writes the entry back.                                    *)
LookupAndProlong(c, r, q) ==
  /\ call[c].at = "idle"
  /\ \/ /\ Reaches(r)
        /\ cache[q.model] # None
        /\ cache' = [cache EXCEPT ![q.model].left = TTL]
        /\ call' = [call EXCEPT ![c] = [Idle EXCEPT !.replica = r, !.req = q,
                      !.since = acked[q.model], !.at = "answered",
                      !.answer = Verdict(cache[q.model].row, q)]]
     \/ /\ \/ Reaches(r) /\ cache[q.model] = None
           \/ Refuses(r)
           \/ Breaks(r)
        /\ call' = [call EXCEPT ![c] = [Idle EXCEPT !.replica = r, !.req = q,
                      !.since = acked[q.model], !.at = "query"]]
        /\ UNCHANGED cache
  /\ UNCHANGED <<history, admin, changes, acked, excuse>>

Lookup(c, r, q) ==
  LET begun == [Idle EXCEPT !.replica = r, !.req = q, !.since = acked[q.model]]
  IN /\ call[c].at = "idle"
     /\ \/ /\ Reaches(r)
           /\ cache[q.model] # None
           /\ call' = [call EXCEPT ![c] = [begun EXCEPT !.at = "answered",
                         !.replica = None, !.answer = Verdict(cache[q.model].row, q)]]
        \/ /\ \/ Reaches(r) /\ cache[q.model] = None
              \/ Refuses(r)
              \/ Breaks(r)
           /\ call' = [call EXCEPT ![c] = [begun EXCEPT !.at = "query"]]
     /\ UNCHANGED <<history, cache, admin, changes, acked, excuse>>

Query(c) ==
  LET m == call[c].req.model
  IN /\ call[c].at = "query"
     /\ \/ /\ call' = [call EXCEPT ![c].at = "fill", ![c].row = Published(Stored(m)),
                                   ![c].read = Len(history[m])]
           /\ UNCHANGED faults
        \/ Fault /\ Answer(c, Failed)
     /\ UNCHANGED <<history, cache, down, admin, changes, acked, excuse>>

(* cacheAuth ignores its errors.                                           *)
Fill(c) ==
  LET m == call[c].req.model
      r == call[c].replica
  IN /\ call[c].at = "fill"
     /\ \/ Reaches(r) /\ Put(m, call[c].row, call[c].read)
        \/ Breaks(r) /\ (Put(m, call[c].row, call[c].read) \/ UNCHANGED <<cache, excuse>>)
        \/ Refuses(r) /\ UNCHANGED <<cache, excuse>>
     /\ Answer(c, Verdict(call[c].row, call[c].req))
     /\ UNCHANGED <<history, admin, changes, acked>>

Leave(c) ==
  /\ call[c].at = "answered"
  /\ call' = [call EXCEPT ![c] = Idle]
  /\ UNCHANGED <<history, cache, down, admin, changes, faults, acked, excuse>>

----------------------------------------------------------------------------
(* Changes of rows.                                                        *)

Begins(a, r, m, row) ==
  /\ admin[a].at = "idle"
  /\ changes < MaxChanges
  /\ changes' = changes + 1
  /\ admin' = [admin EXCEPT ![a] = [Resting EXCEPT !.at = "commit", !.replica = r,
                                                   !.model = m, !.row = row]]
  /\ UNCHANGED <<history, cache, down, call, faults, acked, excuse>>

(* putUserModel: a compress_model must be another model that is stored and *)
(* enabled when the list is read, which is before the row is written.      *)
PutUserModel(a, r, m, s) ==
  /\ s.compress # None => /\ s.compress # m
                          /\ Stored(s.compress) # None
                          /\ Stored(s.compress).enabled
  /\ Begins(a, r, m, s)

DeleteUserModel(a, r, m) == Begins(a, r, m, None)

Write(m, row) ==
  history' = [history EXCEPT ![m] =
    IF row = Stored(m) THEN @ ELSE Append(@, [row |-> row, past |-> 0])]

(* Mutant: the handler ends when the row is written.                       *)
CommitAndLeave(a) ==
  LET m == admin[a].model
  IN /\ admin[a].at = "commit"
     /\ Write(m, admin[a].row)
     /\ admin' = [admin EXCEPT ![a] = Resting]
     /\ UNCHANGED <<cache, excuse, faults, down, call, changes, acked>>

(* The statement is answered, fails, or is carried out and its answer is   *)
(* lost; an error ends the handler before it has deleted the entry.        *)
Commit(a) ==
  LET m == admin[a].model
      row == admin[a].row
  IN /\ admin[a].at = "commit"
     /\ \/ /\ Write(m, row)
           /\ admin' = [admin EXCEPT ![a].at = "invalidate", ![a].mine = Len(history'[m])]
           /\ UNCHANGED <<cache, excuse, faults>>
        \/ /\ Fault
           /\ \/ UNCHANGED <<history, cache, excuse>>
              \/ Write(m, row) /\ Keep(m)
           /\ admin' = [admin EXCEPT ![a] = Resting]
     /\ UNCHANGED <<down, call, changes, acked>>

(* invalidateAuth ignores its error, and the administrator is told 200.    *)
Invalidate(a) ==
  LET m == admin[a].model
      r == admin[a].replica
  IN /\ admin[a].at = "invalidate"
     /\ \/ Reaches(r) /\ Drop(m)
        \/ Breaks(r) /\ (Drop(m) \/ Keep(m))
        \/ Refuses(r) /\ Keep(m)
     /\ acked' = [acked EXCEPT ![m] = IF admin[a].mine > @ THEN admin[a].mine ELSE @]
     /\ admin' = [admin EXCEPT ![a] = Resting]
     /\ UNCHANGED <<history, call, changes>>

(* A replica that starts with a bootstrap key stores the models that are   *)
(* not there yet, and leaves the cache alone.                              *)
Bootstrap(m) ==
  /\ changes < MaxChanges
  /\ changes' = changes + 1
  /\ Stored(m) = None
  /\ Write(m, Booted)
  /\ Keep(m)
  /\ UNCHANGED <<down, call, admin, faults, acked>>

----------------------------------------------------------------------------
Earlier(n) == IF n = 0 THEN 0 ELSE n - 1

(* Rows and commands take less than MaxLag ticks together, so a tick that  *)
(* would make a call later than that waits for it.                         *)
Tick ==
  LET expired == {m \in Models : cache[m] # None /\ cache[m].left = 1}
  IN /\ \A c \in Calls : call[c].at = "fill" => call[c].lag < MaxLag
     /\ cache' = [m \in Models |->
          IF cache[m] = None \/ m \in expired THEN None
          ELSE [cache[m] EXCEPT !.left = Earlier(@)]]
     /\ excuse' = [m \in Models |-> IF m \in expired THEN {} ELSE excuse[m]]
     /\ down' = [r \in Replicas |-> Earlier(down[r])]
     /\ call' = [c \in Calls |-> IF call[c].at = "fill"
                                 THEN [call[c] EXCEPT !.lag = @ + 1] ELSE call[c]]
     /\ history' = [m \in Models |-> [i \in DOMAIN history[m] |->
          IF i < Len(history[m]) /\ history[m][i].past < Cap
          THEN [history[m][i] EXCEPT !.past = @ + 1] ELSE history[m][i]]]
     /\ UNCHANGED <<admin, changes, faults, acked>>

(* Redis is restarted, or evicts the entry.                                *)
Evict(m) ==
  /\ cache[m] # None
  /\ Drop(m)
  /\ UNCHANGED <<history, down, call, admin, changes, faults, acked>>

CallSteps(c) == Query(c) \/ Fill(c)
AdminSteps(a) == Commit(a) \/ Invalidate(a)

Next ==
  \/ \E c \in Calls : \/ \E r \in Replicas, q \in Requests : Lookup(c, r, q)
                      \/ CallSteps(c)
                      \/ Leave(c)
  \/ \E a \in Admins, r \in Replicas, m \in Models :
       \/ \E s \in Settings[m] : PutUserModel(a, r, m, s)
       \/ DeleteUserModel(a, r, m)
  \/ \E a \in Admins : AdminSteps(a)
  \/ \E m \in Models : Bootstrap(m) \/ Evict(m)
  \/ Tick

(* Handlers end: every statement and command has a deadline. Time passes.  *)
Fairness ==
  /\ \A c \in Calls : WF_vars(CallSteps(c))
  /\ \A a \in Admins : WF_vars(AdminSteps(a))
  /\ WF_vars(Tick)

Spec == Init /\ [][Next]_vars /\ Fairness

----------------------------------------------------------------------------
(* Properties.                                                             *)

Rows == {None} \cup UNION {Settings[m] : m \in Models}
Known == {Published(row) : row \in Rows}
Answers == {None, Failed} \cup {Verdict(known, q) : known \in Known, q \in Requests}

TypeOK ==
  /\ history \in [Models -> Seq([row : Rows, past : 0..Cap])]
  /\ cache \in [Models -> [row : Known, left : 1..TTL] \cup {None}]
  /\ down \in [Replicas -> 0..DownFor]
  /\ call \in [Calls -> [at : {"idle", "query", "fill", "answered"},
                        replica : Replicas \cup {None}, req : Requests \cup {None},
                        row : Known, read : Nat, lag : 0..MaxLag, since : Nat,
                        answer : Answers]]
  /\ admin \in [Admins -> [at : {"idle", "commit", "invalidate"},
                          replica : Replicas \cup {None}, model : Models \cup {None},
                          row : Rows, mine : Nat]]
  /\ changes \in 0..MaxChanges
  /\ faults \in 0..MaxFaults
  /\ acked \in [Models -> Nat]
  /\ excuse \in [Models -> SUBSET {"filled_late", "not_deleted"}]
  /\ \A m \in Models : history[m] # <<>>

(* An entry that differs from its row has a reason: a request that read    *)
(* the row before it changed has cached it since, the entry could not be   *)
(* deleted (or Bootstrap, or a handler whose answer was lost, did not      *)
(* try), or the handler that changed the row has not come to it yet. No    *)
(* order of other steps leaves a wrong key, a disabled model or a negative *)
(* entry behind.                                                           *)
StaleForAReason ==
  \A m \in Models :
    (cache[m] # None /\ cache[m].row # Published(Stored(m))) =>
      \/ excuse[m] # {}
      \/ \E a \in Admins : admin[a].at = "invalidate" /\ admin[a].model = m

Answered(c) == call[c].at # "answered" /\ call'[c].at = "answered"

AnswersAsOf(c, i) ==
  LET q == call'[c].req IN call'[c].answer = Verdict(Published(history[q.model][i].row), q)

(* Whatever fails and whoever races: no client is let in, refused or told  *)
(* a compress_model by a row that was replaced longer ago than an entry    *)
(* lives and a command takes. A hit does not prolong an entry, and nothing *)
(* is cached from the cache.                                               *)
NothingOutlivesTheCache ==
  [][\A c \in Calls : Answered(c) /\ call'[c].answer # Failed =>
       LET rows == history[call'[c].req.model]
       IN \E i \in DOMAIN rows : /\ AnswersAsOf(c, i)
                                 /\ i = Len(rows) \/ rows[i].past <= TTL + MaxLag]_vars

(* Once the rows stay as they are, the replicas come to agree with them    *)
(* and stay so: entries that no handler deleted go by themselves, however  *)
(* often they are asked for.                                               *)
Converges ==
  <>[](\A m \in Models : cache[m] # None => cache[m].row = Published(Stored(m)))

(* design/deployment-modes.md:198: deleting the entry with the write makes *)
(* a change take effect at once, so a request that arrives after the       *)
(* administrator was answered is judged by the new row or a later one.     *)
ChangeTakesEffect ==
  [][\A c \in Calls : Answered(c) /\ call'[c].answer # Failed =>
       \E i \in call'[c].since .. Len(history[call'[c].req.model]) : AnswersAsOf(c, i)]_vars

=============================================================================
