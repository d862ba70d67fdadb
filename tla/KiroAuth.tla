------------------------------ MODULE KiroAuth ------------------------------
(***************************************************************************)
(* The tokens of one kiro account (upstream/account/kiro_auth.go and       *)
(* store_lock.go). Every replica has an AuthService for the account, and a *)
(* replica that reconfigures it gets a new one beside the old: all of them *)
(* are instances here. They share the column token_state, the advisory     *)
(* lock of the account (on PostgreSQL) and a credential source that may be *)
(* written by kiro-cli as well. The provider may rotate the refresh token  *)
(* with every refresh; the one before is refused from then on.             *)
(*                                                                         *)
(* A token is a generation of the refresh token and the serial number of   *)
(* an access token. Those issued later expire later: soon and dead say up  *)
(* to which number they expire within 600 s, and have expired.             *)
(***************************************************************************)
EXTENDS Naturals

CONSTANTS
  Instances,
  Sources,      \* where the credentials of the account may come from
  Postgres,     \* LockAccount locks
  MaxIssued,    \* bound: access tokens issued; then the provider is silent
  MaxFaults,    \* bound: instances that end, answers, reads and writes that are lost
  None

(* With a cli_db, what follows a 400 depends on the endpoint of the refresh. *)
AllSources == {"refresh_token", "creds_file", "cli_db desktop", "cli_db oidc"}

Tokens == [refresh : 0 .. MaxIssued, access : 0 .. MaxIssued]

ASSUME KiroAuthAssumption ==
  /\ Sources \subseteq AllSources
  /\ Postgres \in BOOLEAN
  /\ MaxIssued \in Nat /\ MaxFaults \in Nat
  /\ None \notin Instances /\ None \notin Tokens

VARIABLES
  source,
  valid,        \* generation of the refresh token the provider takes
  issued,       \* access tokens issued so far
  soon, dead,
  file,         \* what the credential source holds
  db,           \* token_state, None if it is empty
  lock,         \* holder of the account's advisory lock
  token,        \* token[i]: what instance i holds, None if it has ended
  pc,
  mu,           \* mu[i]: the mutex of i is held
  forced,       \* forced[i]: i runs ForceRefresh
  again,        \* again[i]: the refresh is the retry after a reload
  fetched,      \* fetched[i]: profilesFetched
  nested,       \* nested[i]: the call is made by the profile's fetch
  faults,
  excuses       \* history: how a rotated token may have been lost

timeVars == <<soon, dead>>
providerVars == <<valid, issued>>
callVars == <<pc, mu, forced, again, nested>>
authVars == <<source, timeVars, providerVars, file, db, lock, token, callVars,
              fetched, faults, excuses>>

Token(r, a) == [refresh |-> r, access |-> a]

AuthInit ==
  /\ source \in Sources
  /\ valid = 0 /\ issued = 0
  /\ soon = 0 /\ dead = 0
  /\ file = Token(0, 0)
  /\ db = None
  /\ lock = None
  /\ token = [i \in Instances |-> None]
  /\ pc = [i \in Instances |-> "idle"]
  /\ mu = [i \in Instances |-> FALSE]
  /\ forced = [i \in Instances |-> FALSE]
  /\ again = [i \in Instances |-> FALSE]
  /\ fetched = [i \in Instances |-> FALSE]
  /\ nested = [i \in Instances |-> FALSE]
  /\ faults = 0
  /\ excuses = {}

(* A token written over another that the provider still takes. *)
Replaces(t, u) == u.refresh = valid /\ t.refresh # valid

Fresh(t) == t.access > soon
Expired(t) == t.access <= dead

FromCli == source \in {"cli_db desktop", "cli_db oidc"}
WritesBack == source \in {"creds_file", "cli_db desktop", "cli_db oidc"}

-----------------------------------------------------------------------------
(* How a call ends. *)

(* The deferred unlocks.                                                   *)
Unlock(i) == IF lock = i THEN None ELSE lock

(* A call made for the profile goes on with the profile if it got a token, *)
(* and else with the call that wanted the profile.                         *)
Return(i, ok) ==
  /\ pc' = [pc EXCEPT ![i] = IF nested[i] THEN IF ok THEN "profile" ELSE "check" ELSE "idle"]
  /\ mu' = [mu EXCEPT ![i] = FALSE]
  /\ nested' = [nested EXCEPT ![i] = FALSE]
  /\ forced' = [forced EXCEPT ![i] = FALSE]
  /\ again' = [again EXCEPT ![i] = FALSE]
  /\ lock' = Unlock(i)

Goto(i, l) == pc' = [pc EXCEPT ![i] = l]

Fault == faults < MaxFaults /\ faults' = faults + 1

Hold(i, t) == token' = [token EXCEPT ![i] = t]

-----------------------------------------------------------------------------
(* NewAuthService: a token in the database comes first, and what it lacks  *)
(* from the source; a cli_db overrides it, if it can be read.              *)
NewAuthService(i) ==
  /\ token[i] = None
  /\ \/ db # None /\ Hold(i, db)
     \/ (FromCli \/ db = None) /\ Hold(i, file)
  /\ fetched' = [fetched EXCEPT ![i] = FALSE]
  /\ UNCHANGED <<source, timeVars, providerVars, file, db, lock, callVars, faults, excuses>>

(* ensureProfileArn does not fetch the profile under the mutex, for the    *)
(* fetch asks for a token in turn.                                         *)
HeldWhileFetching == TRUE
NotHeldWhileFetching == FALSE

(* GetAccessToken; the profile is fetched first if there is none, once for *)
(* each instance.                                                          *)
GetAccessToken(i) ==
  /\ pc[i] = "idle" /\ token[i] # None
  /\ \E fetch \in {FALSE, ~fetched[i]} :
       /\ fetched' = [fetched EXCEPT ![i] = @ \/ fetch]
       /\ nested' = [nested EXCEPT ![i] = fetch]
       /\ mu' = [mu EXCEPT ![i] = fetch /\ NotHeldWhileFetching]
  /\ Goto(i, "check")
  /\ UNCHANGED <<source, timeVars, providerVars, file, db, lock, token, forced, again,
                 faults, excuses>>

(* getAccessTokenLocked: the token at hand will do, or kiro-cli has a      *)
(* fresh one, or it is refreshed.                                          *)
Check(i) ==
  /\ pc[i] = "check" /\ ~mu[i]
  /\ \/ /\ Fresh(token[i])
        /\ Return(i, TRUE)
        /\ UNCHANGED token
     \/ /\ ~Fresh(token[i])
        /\ \E t \in {token[i]} \cup (IF FromCli THEN {file} ELSE {}) :
             /\ Hold(i, t)
             /\ \/ Fresh(t) /\ Return(i, TRUE)
                \/ /\ ~Fresh(t)
                   /\ Goto(i, "lock")
                   /\ mu' = [mu EXCEPT ![i] = TRUE]
                   /\ UNCHANGED <<lock, forced, again, nested>>
  /\ UNCHANGED <<source, timeVars, providerVars, file, db, fetched, faults, excuses>>

(* ForceRefresh: the provider has refused the access token (403).          *)
ForceRefresh(i) ==
  /\ pc[i] = "idle" /\ token[i] # None
  /\ Goto(i, "lock")
  /\ mu' = [mu EXCEPT ![i] = TRUE]
  /\ forced' = [forced EXCEPT ![i] = TRUE]
  /\ UNCHANGED <<source, timeVars, providerVars, file, db, lock, token, again, fetched,
                 nested, faults, excuses>>
-----------------------------------------------------------------------------
(* refreshLocked. *)

(* LockAccount: a no-op on SQLite; NoLock is the no-op everywhere. *)
NoLock(i) == UNCHANGED lock
TakeLock(i) == IF Postgres THEN lock = None /\ lock' = i ELSE UNCHANGED lock

LockAccount(i) ==
  /\ pc[i] = "lock"
  /\ TakeLock(i)
  /\ Goto(i, "adopt")
  /\ UNCHANGED <<source, timeVars, providerVars, file, db, token, mu, forced, again,
                 fetched, nested, faults, excuses>>

(* The context of the caller ends while it waits for the lock. *)
LockFails(i) ==
  /\ pc[i] = "lock" /\ Postgres
  /\ Return(i, FALSE)
  /\ UNCHANGED <<source, timeVars, providerVars, file, db, token, fetched, faults, excuses>>

(* adoptPersistedToken: a token refreshed by another instance is taken     *)
(* over as a whole; AdoptNothing goes on with what it has.                 *)
AdoptNothing(i) == FALSE
Adoptable(i) == db # None /\ Fresh(db) /\ db.access > token[i].access

Adopt(i) ==
  /\ pc[i] = "adopt"
  /\ \/ Adoptable(i) /\ Hold(i, db) /\ Return(i, TRUE)
     \/ /\ ~Adoptable(i)
        /\ Goto(i, "request")
        /\ UNCHANGED <<lock, token, mu, forced, again, nested>>
  /\ UNCHANGED <<source, timeVars, providerVars, file, db, fetched, faults, excuses>>

(* The column cannot be read: the refresh goes on without it. *)
AdoptFails(i) ==
  /\ pc[i] = "adopt" /\ Fault
  /\ excuses' = excuses \cup {"unread"}
  /\ Goto(i, "request")
  /\ UNCHANGED <<source, timeVars, providerVars, file, db, lock, token, mu, forced, again,
                 fetched, nested>>

(* The provider: a new access token, and with rotate a new refresh token.  *)
Issue(rotate) ==
  /\ issued < MaxIssued
  /\ issued' = issued + 1
  /\ valid' = IF rotate THEN valid + 1 ELSE valid

(* refreshDesktop or refreshOIDC, and applyRefresh. *)
Refreshed(i) ==
  /\ pc[i] = "request" /\ token[i].refresh = valid
  /\ \E rotate \in BOOLEAN : Issue(rotate)
  /\ Hold(i, Token(valid', issued'))
  /\ Goto(i, "persist")
  /\ UNCHANGED <<source, timeVars, file, db, lock, mu, forced, again, fetched, nested,
                 faults, excuses>>

(* No answer: the provider was not reached, or has done it all the same.   *)
RefreshLost(i) ==
  /\ pc[i] = "request"
  /\ \/ UNCHANGED <<providerVars, faults, excuses>>
     \/ /\ token[i].refresh = valid /\ Fault
        /\ Issue(TRUE)
        /\ excuses' = excuses \cup {"lost"}
  /\ Return(i, FALSE)
  /\ UNCHANGED <<source, timeVars, file, db, token, fetched>>

(* 400: the refresh token was rotated out. With a cli_db the source is     *)
(* read again and tried once; an access token that has not expired is used *)
(* on, unless it was refused.                                              *)
Refused(i) ==
  /\ pc[i] = "request" /\ token[i].refresh # valid
  /\ \/ /\ source = "cli_db oidc" /\ ~again[i]
        /\ token' \in {token, [token EXCEPT ![i] = file]}
        /\ again' = [again EXCEPT ![i] = TRUE]
        /\ UNCHANGED <<lock, pc, mu, forced, nested>>
     \/ /\ source # "cli_db oidc" \/ again[i]
        /\ Return(i, ~forced[i] /\ ~Expired(token[i]))
        /\ UNCHANGED token
  /\ UNCHANGED <<source, timeVars, providerVars, file, db, fetched, faults, excuses>>

(* persistLocked; its error is logged and forgotten. *)
Persist(i) ==
  /\ pc[i] = "persist"
  /\ \/ db' = token[i] /\ UNCHANGED <<faults, excuses>>
     \/ Fault /\ excuses' = excuses \cup {"unsaved"} /\ UNCHANGED db
  /\ Goto(i, "writeBack")
  /\ UNCHANGED <<source, timeVars, providerVars, file, lock, token, mu, forced, again,
                 fetched, nested>>

(* writeBack, whose errors are forgotten too. It does not look at what     *)
(* kiro-cli has written meanwhile.                                         *)
WriteBack(i) ==
  /\ pc[i] = "writeBack"
  /\ \/ /\ WritesBack
        /\ file' = token[i]
        /\ excuses' = IF Replaces(token[i], file) THEN excuses \cup {"write back"} ELSE excuses
     \/ UNCHANGED <<file, excuses>>
  /\ Return(i, TRUE)
  /\ UNCHANGED <<source, timeVars, providerVars, db, token, fetched, faults>>
-----------------------------------------------------------------------------
(* The profile has arrived: the whole token is persisted, under the mutex  *)
(* and without the account's lock. Or there is none, or it is not saved.   *)
ProfileArrives(i) ==
  /\ pc[i] = "profile" /\ ~mu[i]
  /\ \/ /\ db' = token[i]
        /\ excuses' = IF db # None /\ Replaces(token[i], db)
                      THEN excuses \cup {"profile"} ELSE excuses
     \/ UNCHANGED <<db, excuses>>
  /\ Goto(i, "check")
  /\ UNCHANGED <<source, timeVars, providerVars, file, lock, token, mu, forced, again,
                 fetched, nested, faults>>

(* The process ends; PostgreSQL releases its lock. *)
Crash(i) ==
  /\ token[i] # None /\ Fault
  /\ token' = [token EXCEPT ![i] = None]
  /\ pc' = [pc EXCEPT ![i] = "idle"]
  /\ mu' = [mu EXCEPT ![i] = FALSE]
  /\ forced' = [forced EXCEPT ![i] = FALSE]
  /\ again' = [again EXCEPT ![i] = FALSE]
  /\ nested' = [nested EXCEPT ![i] = FALSE]
  /\ lock' = IF lock = i THEN None ELSE lock
  /\ excuses' = IF pc[i] = "persist" THEN excuses \cup {"crash"} ELSE excuses
  /\ UNCHANGED <<source, timeVars, providerVars, file, db, fetched>>

(* kiro-cli refreshes its token, or its user logs in again. *)
CliRefreshes ==
  /\ FromCli
  /\ Issue(TRUE)
  /\ file' = Token(valid', issued')
  /\ UNCHANGED <<source, timeVars, db, lock, token, callVars, fetched, faults, excuses>>

Elapse ==
  /\ \/ soon < issued /\ soon' = soon + 1 /\ UNCHANGED dead
     \/ dead < soon /\ dead' = dead + 1 /\ UNCHANGED soon
  /\ UNCHANGED <<source, providerVars, file, db, lock, token, callVars, fetched, faults,
                 excuses>>
-----------------------------------------------------------------------------
AuthNext ==
  \/ \E i \in Instances :
       \/ NewAuthService(i) \/ GetAccessToken(i) \/ ForceRefresh(i) \/ Check(i)
       \/ LockAccount(i) \/ LockFails(i) \/ Adopt(i) \/ AdoptFails(i)
       \/ Refreshed(i) \/ RefreshLost(i) \/ Refused(i) \/ Persist(i) \/ WriteBack(i)
       \/ ProfileArrives(i) \/ Crash(i)
  \/ CliRefreshes \/ Elapse

AuthSpec == AuthInit /\ [][AuthNext]_authVars
-----------------------------------------------------------------------------
(* Properties. *)

(* Among the types: the account is locked by an instance that refreshes    *)
(* it, and every instance past the lock holds its mutex.                   *)
AuthTypeOK ==
  /\ source \in Sources
  /\ valid \in 0 .. issued /\ issued \in 0 .. MaxIssued
  /\ soon \in 0 .. issued /\ dead \in 0 .. soon
  /\ file \in Tokens /\ db \in Tokens \cup {None}
  /\ lock \in Instances \cup {None}
  /\ lock # None => pc[lock] \in {"adopt", "request", "persist", "writeBack"}
  /\ token \in [Instances -> Tokens \cup {None}]
  /\ pc \in [Instances -> {"idle", "check", "lock", "adopt", "request", "persist",
                           "writeBack", "profile"}]
  /\ mu \in [Instances -> BOOLEAN]
  /\ \A i \in Instances :
       pc[i] \in {"lock", "adopt", "request", "persist", "writeBack"} => mu[i]
  /\ forced \in [Instances -> BOOLEAN] /\ again \in [Instances -> BOOLEAN]
  /\ fetched \in [Instances -> BOOLEAN] /\ nested \in [Instances -> BOOLEAN]
  /\ faults \in 0 .. MaxFaults
  /\ excuses \subseteq {"unread", "lost", "unsaved", "profile", "write back", "crash"}

(* The refresh token the provider takes is never out of reach: it is in    *)
(* token_state, in the credential source, or with an instance about to     *)
(* persist it. The exceptions: a rotation whose answer was lost, one that  *)
(* could not be saved or whose instance stopped before it was, a profile   *)
(* persisted together with an old token (kiro_auth.go:254), and a token    *)
(* written back over the one kiro-cli has got meanwhile.                   *)
ValidTokenKept ==
  Postgres /\ excuses \subseteq {"unread"} =>
    \/ file.refresh = valid
    \/ db # None /\ db.refresh = valid
    \/ \E i \in Instances : pc[i] = "persist" /\ token[i].refresh = valid

(* An instance sets out to present a refresh token that was rotated out    *)
(* only if the token in the database is about to expire, so that it was    *)
(* not adopted, or if kiro-cli has rotated it: the lock and the second     *)
(* look at the database rule out everything else.                          *)
RotatedOutOnlyNearExpiry ==
  [][\A i \in Instances :
       /\ Postgres /\ excuses' = {}
       /\ pc[i] = "adopt" /\ pc'[i] = "request" /\ token[i].refresh # valid
       => (db # None /\ ~Fresh(db)) \/ (FromCli /\ file.refresh = valid)]_authVars

(* A call for a token never waits for itself: the profile's fetch, which   *)
(* calls in turn, runs without the mutex, and nobody waits for the mutex   *)
(* of an instance with the account's lock in hand (kiro_auth.go:230).      *)
NeverWaitsForItself ==
  \A i \in Instances : pc[i] \in {"check", "profile"} => ~mu[i] /\ lock # i
=============================================================================
