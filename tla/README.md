# ModelSurge in TLA+

ModelSurge is a gateway between LLM clients and accounts at LLM providers. Three
services (plus a desktop app) share the work:

- the **Agent** speaks the clients' protocols, asks Replay for a target, calls the
  provider (or Upstream, for kiro accounts), translates the answer, and reports how the
  attempt went;
- **Replay** authenticates the client, schedules: picks a target of the model's
  group, and keeps the ledger of reports;
- **Upstream** owns the provider accounts and the catalog of models made from them, and
  keeps the health of each model: cooldowns, failures, probes.

Each service may run in several replicas over PostgreSQL and Redis
(`design/deployment-modes.md`), or alone over SQLite without Redis.

This directory holds TLA+ modules of the parts of that system which decide something,
the TLC configurations that check them, and proofs that TLAPS checks. Line numbers below
are those of `src/`; `PROJECT.json` maps every definition to its lines.

## 1. Inventory

For each component: its state, its operations, what it talks to, what is hard about it,
and what makes it correct.

### 1.1 Forwarder of the Agent (`agent/relay/forward.go`, `autocompact.go`, `upstreamheaders.go`)
- State, per request: `tried`, `attempts`, `lastErr`, `compactOf`/`compactRetried`,
  `autoCompactState`, and the header map of the response being built.
- Operations: `forwardRemote` (dispatch, attempt, report, act on the answer),
  `attempt`, `localResultAction`, `tryAutoCompact`/`runCompactCall`.
- Talks to: Replay (`Dispatch`, `Report`), providers, the client.
- Hard: eight ways out of one loop; nothing may be retried after the first byte;
  retries are granted by two different rules (Upstream's and the Agent's own); state left
  in the header map by a failed attempt; waits for an upstream that have no deadline.
- Correct if: one answer per request, bounded work, errors told, headers and markers that
  match the attempt that answered.

### 1.2 Result reports (`agent/relay/report.go`, `agent/agentstore/store.go`, `replay/service/service.go`, `replay/relaystore/store.go`, `upstream/service/service.go`, `upstream/upstreamstore/store.go`)
- State: `report_outbox` (Agent), `result_reports` in Replay and again in Upstream,
  `target_cache`, `model_state`, the account manager.
- Operations: `finishReport` (three tries in 5 s, then the outbox), the outbox worker
  (`Due`, `Ack`, `Retry`), `Report` and `ApplyReport` in both services.
- Hard: timeouts, duplicates, crashes between a commit and what follows it, a model that
  cannot be read when its report arrives, competing workers, rows that can never be delivered.
- Correct if: every report takes effect at most once, and nothing is forgotten before
  both ledgers have it.

### 1.3 Scheduler of Replay (`replay/schedule/schedule.go`, `target_cache` in `relaystore`)
- State: the group and its members, its row of `target_cache`, the round-robin cursor
  (Redis `rr:<group>`, or a local one).
- Operations: `Select` (cached target, `Evaluate`, order by policy, `Resolve` candidate
  by candidate), `SetCache`, the administrator's `DELETE .../cache`.
- Hard: the row is read before calls to another service and rewritten by others
  meanwhile; partial failures of candidates; a cursor shared by replicas.
- Correct if: no tried target comes back, no call gives up while a member could serve it,
  turns are even.

### 1.4 Health of models (`upstream/service/hotstate.go`, `service.go`, `ApplyReport`)
- State: `model_state`, the Redis entries `state:<model>` and `probe:<model>`.
- Operations: `Evaluate` (read-aside cache, half-open probe), `Resolve`, `Report`.
- Hard: read-modify-write in a transaction, cache fills that race invalidations, a lock
  with a TTL and no owner, Redis failing at any time.
- Correct if: failures are counted exactly, cooldowns hold, staleness is bounded to the
  causes the design accepts, one probe at a time.

### 1.5 Accounts and catalog (`upstream/adminapi/admin.go`, `MaterializeAccounts`, `account.Manager`'s roster)
- State: `provider_accounts`, `upstream_models`, `model_state` (by cascade), the roster
  each replica has in memory.
- Operations: create, update, delete, test of an account; `MaterializeAccounts`; the
  start of a replica.
- Hard: several writes and no transaction around them, concurrent administrators, lists
  read before the transaction that uses them, transactions that do not see each other's
  rows, crashes in between.
- Correct if: the catalog follows the accounts, and health survives synchronisation.

### 1.6 Account manager (`upstream/account/manager.go` and its parts)
- State: cooldowns, breaker counts and statistics of each account, in memory and saved.
- Operations: `ReportSuccess`, `ReportTransient`, `ReportRecoverable`, `ReportLimit`,
  `ReportAuthFailure`, `ReportUsage`, `Reconfigure`, `Remove`.
- Hard: memory of one replica against rows all replicas write.
- Modelled so far: the roster, in `Catalog`.

### 1.7 Kiro tokens (`upstream/account/kiro_auth.go`, `store_lock.go`)
- State: `token_state` in the database, a copy in each replica, the provider's own idea of
  which refresh token is valid, the credential source a token was imported from.
- Operations: `GetAccessToken`, `ForceRefresh`, adoption of a persisted token, write-back.
- Hard: rotation at the provider that is not atomic with persistence; locks per process
  and per database; a profile fetched outside the lock; `kiro-cli` writing the same source.
- Correct if: the refresh token the provider takes stays within reach, no instance
  presents one that was rotated out while it could know better, no call waits for itself.

### 1.8 Authentication cache (`replay/relaystore/store.go`, `Authenticate`, `PutUserModel`)
- State: `user_models`, Redis entries `auth:<model>` (a row's key, protocol and compress_model, or
  empty for a model that is missing or disabled), per replica the time it leaves Redis alone after an error.
- Operations: `Authenticate` (lookup, query, fill), `PutUserModel` and `DeleteUserModel` (write, then
  DEL), `Bootstrap` (write, no DEL).
- Hard: a fill read before a change and written after its DEL; a DEL that fails, is skipped by a
  replica that avoids Redis, or is never reached; errors that are ignored on both sides.
- Correct if: an entry is wrong only for one of these reasons, and no longer than an entry lives.

### 1.9 Streams (`agent/proto/*/stream_*.go`, `agent/ir/response.go`, `agent/relay/forward.go` from `streamUpstreamToClient`)
- State, per answer: the decoder of the upstream's protocol (open blocks, slots of tool calls,
  parked fragments), the encoder of the client's, the aggregator for clients that do not stream.
- Operations: `Feed`, `Finish` of three decoders; `Encode`, `Finish` of four encoders; `EncodeResponse`;
  the loop that reads, skips malformed frames, filters thoughts and ends the stream.
- Hard: blocks that overlap upstream and may not downstream, identities that come after
  arguments, values said in fragments and again as a whole, an end at any place.
- Correct if: everything arrives once, in order, in well-formed frames, or its loss is noted;
  an answer that was cut does not look whole.

### 1.10 Requests (`agent/proto/*/codec.go`, `agent/normalize/normalize.go`, `agent/ir/types.go`, `agent/relay/diagnose.go`)
- State: the decoded request, copied for each attempt.
- Operations: `DecodeRequest` of four client protocols, `Clone` and overrides, `normalize.Request` with
  its passes, `EncodeRequest` of three upstream protocols, `Diagnose`.
- Hard: histories that clients have cut, ids that are missing or reused, results that come out of
  place, rules of an upstream that undo one another's repairs, a history made by one provider and
  sent to another.
- Correct if: what was said arrives once, in order, each result at its call, in a body the
  upstream accepts, and what does not arrive is noted.

### 1.11 Execution of kiro requests (`upstream/service/kiro_execute.go`, `upstream/proto/kiro/eventstream.go`, `decode.go`)
- State: the first bytes of a frame kept for the next Read and the pending frames, the decoder with the calls it collects, a goroutine
  that reads up to the first event, two timers, the caller.
- Operations: `ExecuteKiro`, `awaitKiroFirstEvents`, `Continue`, `Close`; `Feed` and `Finish` of the decoder.
- Hard: a result that nobody waits for any more; a timer that closes a body under a Read,
  and places where none runs; a Read that ends inside a frame; a provider that repeats frames and names and ends without a closing frame.
- Correct if: texts and calls arrive once and whole or are reported, and nothing stays
  behind once the provider has answered or the caller has left.

### 1.12 The rest
Logs, configuration and routing, migration from legacy databases, the desktop app: no state
the others act on. Each has an entry with the reason in `PROJECT.json`.

### How they interact

    client -> Agent --Dispatch--> Replay --Evaluate/Resolve--> Upstream
                 |--attempt-----> provider
                 |--Report------> Replay --Report--> Upstream --> account manager
                 `--outbox (when Report fails)

Upstream executes kiro requests itself, behind Replay's `kiro/execute`. At this commit
`allowedOutboundProtocol` (`agent/relay/forward.go:196`) rejects leases of the protocol "kiro", though
`README.md:63` and `design/architecture.md:54` list it, so the Agent never gets there.

A report goes the whole way in one HTTP exchange. Replay and Upstream each
commit their own transaction; no transaction spans two services. The Agent's
answer to the question "and now?" (retry, switch, stop) comes back in the answer to the report,
and if there is none, from a local rule.

## 2. Modules

| Module | Models | Checked by |
|---|---|---|
| `ReportLedger` | abstract: what the services promise about a report | refined by `ReportDelivery` |
| `ReportDelivery` | 1.2, from `finishReport` to the account manager | `report_delivery`, `report_dropped` |
| `ReportDeliveryProofs` | theorems about it | TLAPS |
| `Forward` | 1.1, one request | `forward` |
| `ForwardProofs` | theorems about it | TLAPS |
| `HotState` | 1.4 | `hot_state` |
| `HotStateProofs` | theorems about it | TLAPS |
| `Selection` | 1.3 | `selection` |
| `SelectionProofs` | theorems about it | TLAPS |
| `Catalog` | 1.5 | `catalog`, `chunked_delete` |
| `CatalogProofs` | theorems about it | TLAPS |
| `KiroAuth` | 1.7, one account | `kiro_auth` |
| `AuthCache` | 1.8 | `auth_cache` |
| `AuthCacheProofs` | theorems about it | TLAPS |
| `StreamEvents` | 1.9: the events, the aggregator, the names of losses | through `StreamRelay` |
| `AnthropicStream`, `ChatStream`, `ResponsesStream`, `GeminiStream` | 1.9: decoder, encoder and `EncodeResponse` of a protocol (Gemini has no decoder) | through `StreamRelay` |
| `UpstreamAnswers` | external: the frames upstreams send | through `StreamRelay` |
| `StreamRelay` | composition of these: one answer on its way | `streams` |
| `Normalize` | 1.10: `normalize.Request` and the checks of tool choice | through `RequestRelay` |
| `AnthropicRequest`, `ChatRequest`, `ResponsesRequest`, `GeminiRequest` | 1.10: both directions of a protocol (Gemini has no outbound one) | through `RequestRelay` |
| `RequestClients` | external: the histories clients send | through `RequestRelay` |
| `RequestRelay` | composition of these: one request and its attempts, `Diagnose` | `requests` |
| `RequestRelayProofs` | theorems about it | TLAPS |
| `KiroExecution` | 1.11, one request | `kiro_execution` |
| `KiroProofs` | theorems about it and about `KiroAuth` | TLAPS |

An `MC...` module gives a module its constants for TLC. Where a definition has a
neighbour with a telling name just before it (`LookupAndProlong`, `NoRowLock`,
`RowUsableAnyway`), the neighbour is a plausible bug: `PROJECT.json` lists, under
`mutants`, which property TLC finds violated when it takes the definition's place. Apart
from that the neighbours are used by nothing.

### ReportDelivery
A *slot* is one exchange Agent -> Replay -> Upstream, with a `stage` (where the request is)
and an `owner` (who waits for the answer: the forwarder, a worker, nobody). Giving up clears the
owner and leaves the exchange running, which is how late and duplicate calls arise.

| Action | Code |
|---|---|
| `FinishReport`, `SendReport`, `Enqueue`, `ContextExpires` | `finishReport`: the loop of tries and the INSERT share one 5 s context; the INSERT may miss the deadline or fail in the database |
| `LoadDue`, `SendItem`, `Ack`, `Retry`, `BackoffElapses` | the worker and the outbox; the error of `Ack` is ignored |
| `ReplayApplies`, `UpstreamApplies` | both `ApplyReport` transactions: insert the id, and only if it was new touch anything else |
| `ReadModel` | `GetModel` before the transaction, whose error is ignored: a failed read leaves the report without an account to tell |
| `ManagerActs` | the account manager's Report methods and `ReportUsage`, after Upstream's commit |
| `ServerFails`, `SenderGivesUp`, `AgentCrash` | faults |
| `DeleteGroup`, `DeleteModel` | the row a report refers to by foreign key is deleted |

What a report says is left out: every outcome takes the same way. The transactions are
one step each because the insertion of the id, a unique key, decides them.

### Forward
One request, since requests share no state in the Agent. Replay's scheduler and
the upstreams are the environment: any target that was not tried, any error, or none: an upstream may
keep silent. `pc` names the place in the loop. The `attempts` of a target, the set `tried` and the compaction budgets are
those of the code. An upstream's answer is a class: what the loop tells apart.
`spent`, `refused` and `answers` are history variables.

### HotState
One *call* is one request's way through Upstream. `ApplyReport` is split into its
statements (lock and read, upsert, commit), so that two transactions interleave as the database
lets them; `Evaluate` is split into GET, read and SET. A cooldown is named by the
call that set it, so that "the same cooldown" makes sense; time is "it has passed" and "the
entry has expired", at any moment. All calls of the run concern one target: nothing in
the code relates two.

### Selection
Each call of `Select` is a process. `policy` is fixed in `Init`. Upstream is reduced to
`up[m]` (Resolve would let a call through) and `view[m]` (what Evaluate believes), which
change at any time: `HotState` says why they may differ. `steady[c]` is a history
variable: the targets that could have served call c from its start to its end. `least_used`
orders by counts that other calls change, so any order may come out.

### Catalog
Workers are HTTP handlers and replicas that start; each runs the code's statements one by one. The
transaction of the synchronisation is a series of steps at READ COMMITTED, PostgreSQL's default: `tx[w]` holds
the rows it has written and deleted, which nobody else sees, and the rows that the DELETE under
way has found among what is committed (`aim`). `Begin` is its first DELETE, `Materialize` an account's upserts and the
search of the DELETE that follows them, in any order of the accounts, `Commit` the rest. A row that another
transaction has written is waited for (`Held`), and one it has deleted is no longer there to delete. Two that are open
together therefore leave the union of what they listed; they leave one list only if it is the same. `crossed` marks a
transaction in which a sync with another list has committed; two that wait for each other end when PostgreSQL
aborts one (`SyncFails`). SQLite, with one connection, has the behaviours in which no two are open.
A handler whose read after the write fails (`FreshFails`) answers without synchronising. `DELETE ... NOT IN`
chunk by chunk is modelled by what all chunks together leave (`Surviving`). An account is its set
of models and a base address.

### KiroAuth
An *instance* is an `AuthService`: that of another replica, or the one `Reconfigure` has put
beside an older one that still serves calls; an instance that has ended starts again
from the database. A token is a pair: the generation of its refresh token, of which the
provider takes the last (`valid`), and the number of its access token. Access tokens
issued later expire later, so time is two thresholds: `soon` (600 s left) and `dead`. An instance runs
one call at a time, for the rest of them wait for its mutex; the one exception, the call
made by the profile's fetch inside another call, is `nested`.

| Action | Code |
|---|---|
| `NewAuthService` | itself: the persisted token, completed from the source; a `cli_db` overrides it |
| `GetAccessToken`, `ProfileArrives` | `ensureProfileArn` before the mutex is taken |
| `Check` | `getAccessTokenLocked` up to the refresh, with the reload of a `cli_db` |
| `ForceRefresh` | `ForceRefresh`, after a 403 |
| `LockAccount`, `LockFails`, `Adopt`, `AdoptFails` | `refreshLocked` up to the request |
| `Refreshed`, `RefreshLost`, `Refused` | the request to the provider: rotation or not, no answer, 400 with the reload or the degradation |
| `Persist`, `WriteBack` | `persistLocked`, `writeBack`, whose errors are only logged |
| `Crash`, `CliRefreshes`, `Elapse` | the environment |

A write-back that fails also stands for `SQLITE_READONLY`. `excuses` records each way a
rotated token may be lost for a reason outside the code's reach, or for one of the two
orders the code does not guard against: a profile persisted without the account's lock together with a
token that is no longer the last, and a write-back over a login that `kiro-cli` has made
meanwhile. `ValidTokenKept` says that there is no third.

### AuthCache
A call is a dispatch from the lookup to its verdict; an administrator's request is a handler from
its validation to the DEL. A statement or a command may fail, or be carried out and its reply be lost. Time is
counted in ticks, since what is claimed is a bound on time; a command has a deadline (`MaxLag`), so a
fill cannot be later than that.

| Action | Code |
|---|---|
| `Lookup` | `Dispatch` up to the GET of `Authenticate`: a hit is the answer |
| `Query`, `Fill` | the SELECT, then `cacheAuth` and the verdict |
| `PutUserModel`, `DeleteUserModel` | the handlers up to the store, with the look at the compress_model |
| `Commit`, `Invalidate` | the statement, then `invalidateAuth`, whose error is ignored |
| `Bootstrap` | the INSERT of a replica that starts, which deletes no entry |
| `Tick`, `Evict` | the TTL, the end of `downFor`; Redis |

`history` keeps the rows a model has had, and how long ago each was replaced; with `acked` and
`excuse` it exists for the properties only. The code compares hashes; the model compares keys.

### StreamRelay and the stream modules
An answer is made of *units* (a text, a thought, a call, a hosted search with its result...), each with two
tokens; what the client hears is compared with what was said by its tokens, never by
characters. `UpstreamAnswers` turns units into *lanes* of frames, in the protocol's order
within a lane; lanes interleave freely. Frames a protocol allows to be left out, and values it
allows to be repeated, are choices there. Units that are sent in a way the decoder does not recognise
are listed in `odd`; the properties name what becomes of them (section 4).

| Action | Code |
|---|---|
| `Receive`, `ReceiveTail`, `End` | one round of the loop: decode, encode, write |
| `ReceiveMalformed`, `EndMalformed` | a frame that does not parse is skipped and counted |
| `UpstreamError`, `ReadFails`, `EndOfBody` | the ways a stream stops: an error event, a read error, the end of the body at any place |
| `NoFirstFrame` | another upstream is tried: `Forward` |
| `WriteResponse` | the whole answer for a client that does not stream, or an upstream that did not |

The decoders and encoders are operators on a record of the state the code keeps; its maps are
functions over the indexes in use. A chunk of Chat Completions with several fields is one chunk
after another with one field each, which is how `feedDelta` goes through it.

### RequestRelay and the request modules
A client writes turns (`Continue`), sends the history (`Send`, which decodes it), and the Agent
attempts it on targets, as often as `Forward` would (`Attempt`); an attempt works on a
copy, so that the next sees the request as the client wrote it. Texts are marks, ids are pairs of
turn and place. `RequestClients` has, for each protocol, *plain* turns, and *mixed* ones with what is
rare: foreign blocks, media, thinking with and without signature, results of forgotten calls.

### KiroExecution
The provider is external: any frames, cut into Reads anywhere, repeated, with or without names,
ending or breaking anywhere. `Read` stands for the goroutine before the first event and for the
handler after it. A Read may end inside a frame (`Begin` sends the first bytes of one, `partial` says where
they are): the parser keeps them in `adapter.buf` for the Read that brings the rest, and without them the rest is of
no use (`Complete`). `classify` drops the contents that repeat the one before, also across Reads, and those that
do not parse (`Garbled`); a frame of another kind that does not parse (`Damaged`) reaches the decoder, which
fails. A call whose arguments are cut is reported if its braces and quotes show it (`LooksTruncated`; `LooksClosed`
are the calls whose first fragment hides it). `closed` is set by whoever closes the body. `reader` and `channel` are the goroutine of
`awaitKiroFirstEvents` and its channel of capacity 1.

| Action | Code |
|---|---|
| `Begin`, `Send`, `End` | the provider: the first bytes of a frame, a frame or its rest, the end |
| `Refuse`, `Accepted` | everything up to the header of the provider's answer |
| `Read`, `ReadClosed` | `EventStreamToSSE.Read` over `readTimeoutBody` |
| `ReadFirst`, `TakeFirst`, `FirstTimeout` | the goroutine and the two branches of its `select` |
| `Continue`, `StreamEnds` | the loop of `Continue`, and what follows it |
| `ReadTimeout`, `CallerLeaves` | the second timer, the context |

Four things the model shows that no comment mentions: a read error that arrives with the last
bytes is passed on as a plain end (`srcErr` is never returned, eventstream.go:181), so that only the missing
closing frame tells of it; a call cut before its first fragment of arguments becomes a
call with `{}`, which is not reported; one cut where its braces and quotes happen to match (`{"old":"}","opts":{"a":1}`)
is passed on as it is and not reported (decode.go:92-127, 223); and a content frame that does not parse is dropped
without anyone being told (eventstream.go:81). Contents that are equal one after the other, and calls equal in
name and arguments, are dropped by design, so the properties count them once.

## 3. Runs and what they show

| Run | Instance | What it shows |
|---|---|---|
| `report_delivery` | 2 reports, one of which may be orphaned, 2 replicas, 2 slots, 2 tries, 2 faults | at most one effect; nothing forgotten that is not in both ledgers; a recorded report has its effect once, or none at all if Upstream stopped in between or could not read the model; the outbox drains; implements `ReportLedger` |
| `forward` | 3 targets, 1 unusable, 1 shared by both models, 2 retries, both compactions | the request ends unless an upstream keeps silent where the code has no deadline; it is answered once and within its budgets; errors are told; the marker is true; a refused key ends the request |
| `hot_state` | 1 target, 3 calls, 5 outcomes, with and without Redis, Redis failing at will | failures counted exactly, cooldowns kept, a stale entry has one of three causes |
| `selection` | 3 members, 2 calls in 2 replicas, 4 policies, 2 changes of the environment | no tried target; no giving up while a steady member is there; even turns |
| `catalog` | 1 account, 2 models, 2 addresses, 2 handlers in 2 replicas, 1 crash | the catalog follows the accounts; health survives |
| `streams` | 4 kinds of clients, 4 of upstreams (one answers with a document), 2 units, 1 malformed frame in answers of 1 unit | nothing twice or out of order, no silent loss, arguments at their call, a cut answer never looks whole, well-formed frames, the same streamed or not |
| `requests` | 4 kinds of clients, 3 of targets, 4 turns, the first 2 of any kind; 1 turn with every tool list, choice and override | said once and in order, losses noted, an acceptable body, results at their calls, signatures at home, the choice honoured or noted |
| `kiro_execution` | every sequence of 3 frames of any kind, read in any pieces, breaks, both timers (the second may be off), a caller that leaves, 1 call whose cut does not show | texts and calls once and whole or reported, cut answers say so, nothing left behind unless the provider falls silent where no timer runs |
| `kiro_auth` | 2 instances, 3 kinds of sources, 2 tokens issued, 1 fault, PostgreSQL | the valid refresh token stays within reach; one that was rotated out is presented for two reasons only; no call waits for itself |
| `auth_cache` | 2 models, one the compress_model of the other, 2 replicas, 1 administrator beside `Bootstrap`, 1 call, 2 changes, 1 fault, entries that live 2 ticks | a wrong entry has a reason; nobody is judged by a row replaced longer ago than 3 ticks; once the rows stay, the cache comes to agree with them |

Two runs show that the program does not do what its own comments or design say; section 4.

Why the bounds are enough:
- two reports suffice for competition in the outbox, two slots for a call and its duplicate,
  and two faults for "the sender gives up, then the server dies", the worst pair here. Two tries
  instead of three leave the loop's structure: first, last.
- three targets let a request retry, switch and meet a target it cannot use; two
  retries distinguish "first", "again" and "no more".
- three calls let a third reader fill the cache between two reports.
- two of `Select`'s calls can each rewrite the row the other has read. The row is overwritten
  whole, so a third writer adds nothing a second cannot do. The catalog's transactions meet in
  rows, and two are enough for one to miss or wait for what the other has written. More than one account
  does not matter there: the list is of all accounts, they meet only in it, and "materialized, but not
  committed" exists with one (`CatalogProofs` has no bounds at all).
- two instances race for one account: the lock admits one, the other is whoever acts
  without it. Two tokens issued are the first and its successor, which is all that "rotated
  out" needs; with one fault every excuse occurs alone.
- two units can overlap, and the second can reuse what the first left behind; a third would
  add a higher index and no new relation. One malformed frame suffices to lose any
  frame of a unit.
- a call, its result, what is said in between and what comes after make four turns. Every repair
  looks at a message and its neighbours. Tool lists and choices do not meet the history except
  by whether there are calls in it, so one turn is enough for them.
- three frames make a call in pieces, two calls that overlap, a text that comes back after another, and
  each of them with a broken end and with Reads that end inside any of them. A frame is cut once: more pieces of it
  only make the buffer longer. `LooksClosed` is a call started by the first frame, so that calls whose cut
  shows, and calls whose cut does not, both occur.
- two changes let a fill be late by one row and by two. One call suffices for what is wrong in the cache:
  calls meet each other only through the entry. A tick for a command and two for an entry keep apart "at
  once", "within the lifetime" and "beyond"; `AuthCacheProofs` has no bounds at all.

Deadlock is checked in every run but three. `ReportDelivery`, `Forward`, `HotState`, `Selection`, `Catalog`
and `KiroAuth` have a stuttering step enabled only when all work is done (`Quiescent`, `AllDone`, `Terminated`),
so a process that is stuck anywhere else is reported. In `AuthCache` time always goes on. One answer, one history and one kiro request
simply end (`streams`, `requests`, `kiro_execution`); that the last does end is a liveness property there.

Fairness. Four runs check liveness.
- `ReportDelivery!Fairness`: forwarder goroutines and workers run, the ticker ticks and the clock
  moves (`BackoffElapses`), and a request a server has accepted ends: each is a goroutine that nothing
  blocks for ever, the calls being bounded by HTTP timeouts. Weak fairness of the whole step of
  a worker, not of each branch: `Ack` failing for ever is a fault, and faults are bounded by
  `MaxFaults` and never required.
- `Forward!FairSpec`: weak fairness of the loop's goroutine as a whole, except where only the other side ends its wait
  (`LeftToTheOtherSide`): a call to an upstream up to its headers (`http.Client{Timeout: 0}`, forward.go:62), a body that
  has begun or is read whole (forward.go:512), the same for a summary, and the waits whose timeout is configured to
  be 0 (`Timeouts`; the run has both, which is the default). A client that leaves ends them all, since they carry
  its context, but it need not leave. `Terminates` therefore says: the request ends, or from some moment on it waits for ever in one
  of these places.
- `AuthCache!Fairness`: weak fairness of each handler's steps, because statements and commands have
  deadlines, and of `Tick`. That a client asks is not required, nor that a DEL succeeds.
- `KiroExecution!FairSpec`: weak fairness of the service as a whole, except where only the provider ends its wait
  (`LeftToTheProvider`): before the header of its answer, for which there is no deadline (`client.Do`, kiro_execute.go:171,
  without `Timeout`; the first timer starts later, line 334), and in a Read while no timer is known to run. The
  run has the timer of the first event, which is on by default (config.go:137), and leaves open whether the
  one of Reads is, which is off by default (config.go:83). Nothing is asked of the provider or the caller.
  `EndsAndLeavesNobodyBehind` says: the call ends, or from some moment on it waits for ever in one of these places. As
  every step of the service uses something up, this already gives each goroutine its turn.

## 4. Findings

Each is a run whose only property says what a comment or the design says; TLC's
counterexample is a behaviour of the code.

1. `report_dropped`: `finishReport` puts a report it could not deliver into the outbox
   under the same 5 s context its tries have used up. If Replay hangs rather than refuses,
   the INSERT fails at once and the report is lost.
2. `chunked_delete`: with more models than one chunk, `DELETE ... NOT IN` chunk by chunk
   deletes every row. The run has 2 models and chunks of 1 where the code has 101 and 100.

Further claims of comments and documents are stated in the modules and have no run of their own;
added to the configuration named (as an INVARIANT, the last as a PROPERTY), TLC refutes each:
- `Forward!HeadersOfTheAnswerer` (`MCForward.cfg` with two headers): a whitelisted header of a failed attempt
  stays in the response of the attempt that answers, if that one does not send it
  (`upstreamheaders.go:40` says otherwise).
- `HotState!OnlyBackoffIsProbed` (`MCHotState.cfg`): a report "retrying" or "invalid_model" overwrites
  `last_error_class` of a rate-limited model, which is then probed (against `deployment-modes.md:196`).
- `HotState!OneProbeAtATime` (`MCHotState.cfg`): `Resolve` asks whether somebody holds the probe, not whether this
  call does (against `deployment-modes.md:176`).
- `Catalog!TestedBaseTakesEffect` (`MCCatalog.cfg`): a connectivity test writes the address it found to the
  account, but not to the catalog, from which requests take it (against `adminapi/admin.go:449`).
- `StreamRelay!NothingFollowsTheEnd` (`MCStreamRelay.cfg`): after a read error in the middle of a call, Chat and Anthropic
  clients get frames behind the error frame that is final (`forward.go:651`).
- `RequestRelay!LateResultsAreSaved` (`MCRequestRelay.cfg`): a tool message that comes after the model has spoken
  again is lost to the placeholder `requireToolPairing` has put in its place (against `openaichat/codec.go:829`).
- `RequestRelay!TypedChoiceIsLeftOut` (`MCRequestRelay.cfg`): a typed choice of a Responses client reaches Anthropic as
  `tool_choice {"type":""}`, because `anthropic/codec.go:595` copies its empty mode (`ir/types.go:541` says that the
  other protocols leave tool_choice out; `diagnose.go:384` too). `AcceptableToTheTarget` names the case, `EmptiedChoice`.
- `StreamRelay!LostEndNeverLooksWhole` (`MCStreamRelay.cfg`): a Responses stream whose finishing frame was
  malformed, and therefore skipped, still ends with [DONE]. The decoder takes that for the end: `Finish` returns
  nothing, open calls are not closed, and the client's encoder ends the answer as if it were whole
  (against `openairesponses/stream_decoder.go:910`).
- `AuthCache!ChangeTakesEffect` (`MCAuthCache.cfg`): a client that asks for a model just before it is stored
  writes "no such model" after the DEL, and requests are refused for the rest of the TTL after the
  administrator was answered; the same order lets a replaced key in that long (against
  `deployment-modes.md:198`). `NothingOutlivesTheCache` says that it is not longer.

Seen while modelling the catalog: two synchronisations open together at READ COMMITTED (`upstreamstore/store.go:119`) leave the
union of two different lists, for `DELETE ... NOT IN` (line 195) misses the rows that the other has inserted and not yet
committed. A model an administrator has just removed then stays until the next one. `CatalogFollowsAccounts` names it,
`crossed`.

Seen while modelling streams and requests, and left out of the properties by the conditions they name:
- when the first frame of a Chat call that reuses a slot is malformed, its arguments join the former call;
- a Chat call whose slot goes to another one before it had a name is dropped and not counted
  (`stream_decoder.go:241-244`; only `Finish` counts, whose comment speaks of all calls without a name);
- a Chat call without an id, whose slot comes back with one, is taken for the same call: both arguments end up in one,
  which is what the comment at `stream_decoder.go:238` says the split is there to prevent;
- arguments that come with `response.output_item.added` are emitted at once; an upstream that then sends them as deltas
  too has them heard twice, deltas being appended without a look at what is there (`openairesponses/stream_decoder.go:474`);
- the reasoning of a Chat upstream is streamed but never aggregated: the decoder opens its thinking blocks without
  `Block.Thinking`, which the Aggregator requires, so a client that does not stream gets an empty one;
- a Chat client of an Anthropic upstream whose message_delta was malformed gets [DONE] and no finish_reason;
- Gemini clients are told STOP for `max_messages`, which `ir/events.go:105` calls incomplete;
- ids synthesised from name and place repeat in a later turn;
- a tool choice is not looked at again once hosted tools have been dropped, so a body may demand a tool and
  have none (`OnlyHostedOnesLeftOut`); an override that forces thinking relaxes a forced choice for Chat without a note;
- opaque blocks inside results, unknown parts in a Chat assistant's turn and images in assistant turns
  towards Chat and Responses are lost without a note.

Seen while modelling `KiroAuth`, without a run: the header of `kiro_auth.go` and the comments at
lines 102 and 285 say that a persisted token comes before the credential source. For a
`cli_db` it does not: `loadCliDBAt` overwrites it, as its own comment (line 428) wants. `NewAuthService` has
both outcomes, the persisted token for the case in which the database cannot be read.

## 5. Proofs

`ReportDeliveryProofs` proves, for every set of reports, replicas and slots and all bounds that
satisfy `ReportDeliveryAssumption`:

| Theorem | Statement |
|---|---|
| `TypeCorrect` | `Spec => []TypeOK` |
| `ActedOnce` | `Spec => []ActedOnAtMostOnce` |
| `NothingForgotten` | `Spec => []ForgottenOnlyIfRecorded` |
| `EffectsAccounted` | `Spec => []EffectAccountedFor` |
| `ImplementsLedger` | `Spec => LedgerSpec` |

and `HotStateProofs`, for every set of models and calls, every assignment of calls to models and
every set of outcomes that satisfy `HotStateAssumption`:

| Theorem | Statement |
|---|---|
| `TypeCorrect` | `Spec => []TypeOK` |
| `CounterExact` | `Spec => []FailuresExact` |
| `CooldownHolds` | `Spec => CooldownKept` |
| `StaleIsExcused` | `Spec => []StaleForAReason` |

and `ForwardProofs`, for every finite set of targets, all groups and all numbers of retries that
satisfy `ForwardAssumption`:

| Theorem | Statement |
|---|---|
| `TypesAndAttempts` | `Spec => []TypeOK` |
| `OneAnswer` | `Spec => []AnsweredExactlyOnce` |
| `ErrorsAreTold` | `Spec => []FailureTold` |
| `TruthfulMarker` | `Spec => []MarkerTellsTheTruth` |
| `BoundedCost` | `Spec => []CostsAtMost` |

and `RequestRelayProofs`, for all bounds on the histories (`BoundsAssumption`):

| Theorem | Statement |
|---|---|
| `ChoiceIsHonoured` | `Spec => []ChoiceHonouredOrNoted` |
| `ForcedToolsAreThere` | `Spec => []ChoiceCanBeMet` |

and `AuthCacheProofs`, for every set of replicas, calls, administrators and models, all settings,
lifetimes and numbers of changes and faults that satisfy `AuthCacheAssumption`:

| Theorem | Statement |
|---|---|
| `TypeCorrect` | `Spec => []TypeOK` |
| `StaleIsExcused` | `Spec => []StaleForAReason` |
| `BoundedStaleness` | `Spec => NothingOutlivesTheCache` |

and `CatalogProofs`, for every set of accounts, models, replicas and requests and any number of crashes
that satisfy `CatalogAssumption`:

| Theorem | Statement |
|---|---|
| `TypeCorrect` | `Spec => []TypeOK` |
| `StateSurvives` | `OneChunk` implies `Spec => StateKept` |
| `CatalogFollows` | `OneChunk` implies `Spec => []CatalogFollowsAccounts` |

and `SelectionProofs`, for every group of members, all calls, replicas, policies and requests and any number
of changes of the environment that satisfy `SelectionAssumption`:

| Theorem | Statement |
|---|---|
| `TypesKept` | `Spec => []TypeOK` |
| `TriedTargetsAreAvoided` | `Spec => []NeverATriedTarget` |
| `NobodyIsPassedOver` | `Spec => []GivesUpOnlyIfNobodyCould` |
| `RoundRobinIsFair` | `Spec => []TurnsAreEven` |

and `KiroProofs`, for every set of instances and sources and any number of tokens and faults that satisfy
`KiroAuthAssumption`:

| Theorem | Statement |
|---|---|
| `TokensKeepTypes` | `AuthSpec => []AuthTypeOK` |
| `OneRefreshAtATime` | on PostgreSQL no two instances are ever inside the lock of the account |
| `TheValidTokenIsKept` | `AuthSpec => []ValidTokenKept` |
| `NoCallWaitsForItself` | `AuthSpec => []NeverWaitsForItself` |
| `RotatedOutTokensAreRare` | `AuthSpec => RotatedOutOnlyNearExpiry` |

the same module, about `KiroExecution`, for any number of frames (`FramesAssumption`), of any kinds and cut into Reads
anywhere, also inside a frame, whichever cuts do not show and whichever timers run:

| Theorem | Statement |
|---|---|
| `TypesKept` | `Spec => []TypeOK` |
| `TheAnswerIsPassedOn` | `Spec => []NothingRepeatedOrLost` |
| `CutsAreTold` | `Spec => []CutAnswersSaySo` |
| `CallsAreWhole` | `Spec => []CallsArriveWholeOrReported` |

`OneChunk` says that no account can have more models than one DELETE lists; without it both are false, which
is what `chunked_delete` shows.

### ReportDeliveryProofs
The inductive invariant is `IInv`:
- `Typed`: the types, and that the forwarder sends only while it has tries left. Without the
  latter `tries` could leave its range.
- `SendersWait`: the owner of a call is waiting for it, and for that report. Without it an
  answer could reach a forwarder or worker that has gone on to something else, and
  "done" or "ack" would say nothing about the ledgers.
- `CallsRecorded`: a call that has passed Replay is of a report Replay has recorded, and
  one that has passed Upstream of a report both have. That is what an answer "ok" proves.
- `EffectOnce`: of the acted-on and the calls about to act there is at most one for each
  report. That `effects` is at most 1 is not inductive by itself: two calls at stage "manager" would
  break it.
- `ForgottenOnlyIfRecorded` and an extension to the worker that is about to acknowledge.
- `EffectAccountedFor`: every recorded report has had its effect, has a call that is about to,
  was cut short, or was recorded by a call that did not know its model. For this `EffectOnce`
  also says that a call about to act is never of a report recorded unread: the row is what keeps
  a resend that could read the model from acting after all.

The proof has one step per action and, for each, the conjuncts it can disturb; actions that
leave the ledgers alone share a lemma. The refinement is proved from `IInv`:
`UpstreamApplies` is `Record`, `ManagerActs` is `ActOn`, the step in which the last copy of a
report disappears is `Settle`, losing it is `GiveUp`, and every other step stutters.

### HotStateProofs
The inductive invariant adds to the types and the counter what the row lock gives:
- `LockHeld`: a report between its read and its write holds the row of its model, and what it has
  read of `model_state` is what the row still is. This is what makes "retrying" and
  "invalid_model", which write back what they read, harmless: neither the counter nor a cooldown
  set meanwhile can be overwritten, because nothing is set meanwhile.
- `LockOwn`: a row is held only by a report of that model. Without it a transaction that ends might
  leave another row locked by nobody.

The only other writer of the row, the admin's change, waits for no lock; it changes `enabled`,
which no report writes. `RestKeeps`, `RequestKeeps` and `RowChangeKeeps` handle the steps that are
not transactions, `TransactionEnds` the commit and the rollback.

`StaleIsExcused` needs one more part, `NoRedisNoCache`: without Redis there is no entry and no call
on its way to fill one. Otherwise a report that skips the DEL because there is no Redis could leave a stale
entry that nothing excuses.

### ForwardProofs
None of the properties is inductive: they speak of the answer, and what decides about it is where in
the loop the request is. `IInv` adds:
- `AnsweredByPlace`: what the program counter and the outcome tell about the answer. Nothing is
  answered before an attempt writes its first byte; a report with an outcome of failure comes
  from an attempt that wrote nothing. Without the latter, failover could answer a second time.
- `MarkerByPlace`: the marker is withdrawn between attempts, and during one it says whether the
  history was compacted.
- `FailureKept`: after tier 1 there is a last error, and while a summary is made there is a
  pending one. These are what the branches that answer an older error rely on.
- `AttemptsLeft`: the target of an attempt was not given up, and a target that was not given up
  has an attempt left; so the counter of attempts stays within `MaxAttempts`, though Upstream
  grants retries by one rule and the Agent by another.
- `CompactionRounds`: the state of tier 2 is one of three, and no request uses both tiers.

`CostsAtMost` needs a count on top of it. `Paid` compares what was spent with the slots (target,
number of the attempt) that this start has used, with what earlier starts and summaries may cost, and with
the targets the current summary has tried. An attempt uses a slot; a start that is given up
leaves all its slots to the next one. The sizes of these sets come from `FiniteSetTheorems`;
`CostGrows` is all the multiplication there is.

### RequestRelayProofs
The invariant `Carried` is small: the decoded request is
what the client's wire decodes to, and an attempt is one at that request, whatever attempts came before;
an attempt that normalised the shared request would break it. The rest are lemmas about what the requests compute:
`WishesAreChoices` and `ToolsBecomeTools` (what each decoder makes of a choice and of a tool; a hosted tool is never
taken for a function), `Narrowed` (an allowlist that applies never leaves nothing), `NormalizedChoice` (where the
passes change a choice), `ChoiceAskedFor` (what each encoder makes of it) and `ToolsWritten`. `ChoiceIsHonoured`
then compares `NormalizedChoice` with `NotesOfTheChoice`: both look at the same two conditions, the one at the
tools an allowlist has narrowed and the other at all of them, and `Narrowed` says why that is the same. Filters
are written with `FlattenSeq` (`Those`), because nothing can be proved about `SelectSeq` with a given test.

### AuthCacheProofs
`StaleForAReason` and `NothingOutlivesTheCache` speak of entries; `IInv` adds where these come from:
- `Busy`: a call under way has a request, a handler under way a model.
- `LastIsStored`: the stored row has not been replaced.
- `FillsAsRead`: what a call is about to cache is a row its model has had, replaced no longer ago than
  the call has been about it, which is `MaxLag` at most.
- `EntriesOnceStored`: an entry is a row its model has had, and the ticks since that was replaced and the
  ticks the entry has left are together at most `TTL + MaxLag`. A tick moves one from the right to the
  left, so this is inductive, where the bound on the age alone is not; and it is what a hit that prolongs
  the entry would break.

### CatalogProofs
`CatalogFollowsAccounts` speaks of the moments when nothing is under way; `IInv` says what leads there:
- `Busy`: a handler under way has a request, and one about to write an account to write. Without
  it the types are not inductive.
- `ListIsCurrent`: a worker whose list is as new as the table holds what the table holds.
- `WritesListed` and `Open` speak of one transaction and its list, whatever others do: it writes what the list asks
  for, has written all of that for each account it is done with (`Putting`), and deletes only rows that the list
  does not ask for or whose account was gone when it began (`Justified`, from which `StateSurvives` follows).
- `Cleaning` is what takes two of them: a transaction with a current list that met no other list has found every
  row there is of the accounts it is done with. When another commits, its rows are either among
  those the common list asks for, or were there before; with another list they are neither, which is
  why `crossed` must be an excuse.
- `SyncedFollows`: if the newest version has been synced and nothing spoiled it, the rows are right.
- `SomebodyWillSync`: while the newest version has not been synced and nothing spoiled it, some worker is on
  its way to do so: a handler between its statement and its sync, or a replica that is down. A handler
  whose account is deleted under it is no such worker, for it panics; the one that deleted
  the account is. This is the part that says why neither a crash nor a panic leaves the catalog behind.

`QuietMeansSynced` combines the last two. `CurrentSync` makes the rows from `Putting` and `Cleaning`. What a DELETE leaves is the one place where data matters: `SeqOfSet`
and `AllSurvive` show that a set of ids that fits one chunk survives `deleteStaleModels` whole, from the
facts about bijections in `FiniteSetTheorems`.

### SelectionProofs
The invariant has a part for each thing that could go wrong between two statements of `Select`; all but
`EvenTurns` speak of one call, so that a step of another call disturbs them only through the shared row, the
counter and the members:
- `Avoids`: nothing a call has in hand has been tried: not the row it has read, not a candidate, not the
  result. The property speaks of the result alone and is not inductive.
- `InHand`: a call that marks or resolves something has something to mark or resolve.
- `SteadyServes` and `SteadyAhead`: a target that could serve the call all along is still ahead of it: among
  the available ones, then among the candidates not yet looked at, and never the one that has just failed
  to resolve. So the candidates cannot run out while there is one.
- `EvenTurns`: as long as nobody retries and Redis answers, the shared counter says how far the current round
  has got: the members up to there have had one turn more. That turns differ by one at most is not
  inductive without it.

What the policies do to the list of candidates is proved apart, about sequences (`UntriedLists`, `RotateLists`,
`AnyOrderLists`, `TailLists`): each of them leaves a list of the same members, each once. `Ranks` shows that
counting the positions left is a bijection, and `NextTurn` that the counter points to the member whose turn
it is.

### KiroProofs: tokens
`ValidTokenKept` says where the valid refresh token is when nothing excuses its loss. `AuthInv` adds how it gets
there:
- `MutualExclusion`: on PostgreSQL an instance past the lock of the account has it. `OneRefreshAtATime` and
  everything below rest on it.
- `CallsOfTheRunning`: only an instance that runs is inside a call, and it does not hold its mutex while it
  looks for its profile. That is `NeverWaitsForItself`.
- `TokensOrdered`: of two tokens, wherever they are kept, the one with the younger access token has the younger
  refresh token. This is why an instance may take the token that expires later for the later one.
- `PersistsTheValid`: a token that waits to be persisted is the valid one, unless `kiro-cli` has the valid one
  by now. Without it `persistLocked` could write an old token over a new one.
- `Saved`: where nobody but the instances refreshes, `token_state` is up to date as soon as nobody is about to
  write it.

`RotatedOutOnlyNearExpiry` is a property of steps: an instance that has adopted what the database holds and
still presents a rotated token has, by `Saved`, found a token there that is not fresh, or its source is
`kiro-cli`'s. That neither the mutex nor the lock makes a call wait for itself follows from `CallsOfTheRunning` and the types.

### KiroProofs: execution
The properties compare the events with the frames, and no variable connects them; between them lie the net, the
adapter and the decoder. `IInv` follows the frames through each:
- `SentOK`: what the provider may have sent: the number of a text is not greater than that of its frame, only
  the last content is repeated, a tool frame is of a call that was started.
- `NetIsRest`: the frames on the net are the last ones sent; `LastIsLatest`: `last` is the content read last.
- `Pipeline`: the central part. While somebody reads, there is a set of frames F the decoder has had and a
  sequence s of all events it has returned, which the caller has if it is still there (or will take from the
  channel), such that F and the pending frames are all that was read, the numbers in s are those of F's
  texts in rising order (`Knows`), the pending ones come after, and the blocks opened in s are those the
  decoder remembers (`Delivered`). Without the last, a delta could be counted to a block of another kind.
- `EndMeansAll`: the adapter ends with "eof" only if the provider has ended and the net is empty, so that
  the decoder is finished only after everything has passed it.
- `BytesKept`, an invariant of its own: the parser has the first bytes of a frame that a Read has brought without
  the others. With it no Read loses a frame (`ReadIsWhole`). A dropped `Garbled` is counted to F: it says nothing.
- `Phases`: the goroutine, its channel and the handler go hand in hand: before the goroutine is gone the
  decoder has seen nothing, while the handler waits there is either a goroutine or a result, and after that
  neither. Only with it may goroutine and handler share a decoder without a lock.
- `InOrder`, `Ended`, `ErrorsTold`: what remains of the properties once nobody reads any more.

Below it are lemmas about the operators: `FeedPasses` (what the adapter passes on of a Read rises strictly and
has every number that was read), one lemma for each handler of the decoder (`ContentReaches`, `ThinkingReaches`,
`ToolHeard`, ... put together in `FrameHeard`), `CallsWithoutDuplicates` (of at least one call at least one remains, so
an answer with a call is never taken for one that was cut) and `Finishes` (what the decoder adds at the end).
Recursive functions and `FlattenSeq` are handled by `Induction`, an induction over a set of numbers instead
of an operator, and `RecursionSolved`. `FrameDecoded` joins one frame to `Pipeline`; `ReadKeeps` one Read.

`CallsArriveWholeOrReported` needs the frames one by one, where `Pipeline` is content with the set of them, for
the arguments of a call are put together in the order of its fragments. `CallsInv` adds two parts to `IInv`:
- `CallsFlow`: while the call runs, the frames pending and on the net, taken one after the other (`Leads`), will
  bring the decoder's calls to a state r that is right for all the frames sent (`Handled`). Sending a frame moves r
  on (`HandledSend`), a Read drops repeated texts and garbled ones, which move nothing (`FeedLeads`), and decoding takes the first
  frame off (`LeadsFromNext`, `FeedHandles`). So what happens to calls is reasoned about where frames are sent, with
  all the provider has said in view, and not where they are decoded, where half of it is still on the way. When
  the net is empty, r is what the decoder has.
- `ContentsSpell`: the arguments spelled out in a text are those of some call, so never half of them.

`Handled` says what right is: the call in progress is the newest and has not ended, and it has all the arguments
given for it; among the calls laid aside each of the others is found with all its arguments, and may be found
again without any. The latter is what a late end leaves behind when the frames repeat the name, and the
reason why `dedupToolCalls` must prefer the fuller of two calls with one id: `DeduplicatedCalls` proves that it keeps one
of the fullest of each id and of equal arguments one, `CallsInTheEnd` that these are the calls the provider made and
spelled out, and `FinishWritesCalls` and `CallsRead` that they are written, and can be read, one by one.

### What is only model-checked
- Liveness (`EndsAndLeavesNobodyBehind`, `Converges` and the others stated under fairness), and ENABLED: out of this prover's reach.
- The properties of `StreamRelay`, and those of `RequestRelay` that are about the messages (of
  `AcceptableToTheTarget`, `ForcedToolsAreThere` proves the part about the choice). What the decoders, encoders and repairs there compute for
  every answer or history is an induction over data, through folds whose operators the provers cannot
  take as parameters.

There are no RECURSIVE operators here.

## 6. Not modelled, and why

- The characters of messages, wording, logs, metrics: nothing here depends on them.
- In streams: citations, usage, service tiers, containers, audio, log probabilities, and a client
  that leaves in the middle (the loop ends there; nothing is written any more).
- In requests: sampling parameters, custom tools and code execution, citations, and the notes about
  parameters. They are copied field by field and nothing else depends on them.
- For kiro: the parser of fake-reasoning tags, usage, the encoding of the request.
- `TruncationTracker` (`agent/relay/truncation.go`): no decoder of the Agent feeds it.
- SQLite's way of running (one connection) is a special case of the interleavings modelled.
- Wall-clock durations: which of two timers ends first is left open, which admits more
  behaviours than the code has.
- A crash of PostgreSQL itself, and rows an administrator edits by hand.
- Hazards listed in `PROJECT.json` without a property carry a note that says why.

## 7. Plan

In this order, each with its runs and mutants, then its proofs:
1. `Accounts`: the manager's Report methods in several replicas, memory against database.
2. Composition of `Selection` and `HotState`: `up` and `view` replaced by the real rows and cache.
3. Proofs: an abstract specification of `AuthCache` (a value that may be old, but not older than an entry
   lives) and of `KiroAuth` (one token, presented by one instance at a time), which these implement; for
   `StreamRelay`, that the Anthropic encoder keeps its blocks well-formed whatever events it is given, with the
   folds of the decoders written as recursive functions.
