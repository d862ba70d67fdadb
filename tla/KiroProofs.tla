----------------------------- MODULE KiroProofs -----------------------------
(***************************************************************************)
(* Proofs about the kiro accounts of Upstream. First KiroAuth, for any     *)
(* number of instances, of tokens issued and of faults, whatever the       *)
(* source of the credentials and with the lock of the account or without.  *)
(* What a step does is split in two: what it does to the calls (Local) and *)
(* to where tokens are kept (Moved, or a new token); then there is one     *)
(* lemma for each action. Then KiroExecution, for any number of frames:    *)
(* first what an answer says, then the calls in it.                        *)
(***************************************************************************)
EXTENDS KiroAuth, KiroExecution, FiniteSetTheorems, SequenceTheorems, WellFoundedInduction, TLAPS

(* Where a call is that has the lock of the account.                       *)
Inside == {"adopt", "request", "persist", "writeBack"}

(* The refresh of an account is one replica's at a time.                   *)
MutualExclusion ==
  \A i \in Instances : Postgres /\ pc[i] \in Inside => lock = i

(* Only an instance that runs is inside a call, and outside of a refresh   *)
(* it does not hold its mutex.                                             *)
CallsOfTheRunning ==
  \A i \in Instances :
    /\ token[i] = None => pc[i] = "idle"
    /\ pc[i] \in {"check", "profile"} => ~mu[i]

(* Of two tokens the one with the younger access token has the younger     *)
(* refresh token, wherever they are kept.                                  *)
Held == ({file, db} \cup {token[i] : i \in Instances}) \ {None}
TokensOrdered ==
  \A t, u \in Held :
    /\ t.access <= issued /\ t.refresh <= valid
    /\ t.access <= u.access => t.refresh <= u.refresh

(* A token that waits to be persisted is the valid one, or kiro-cli has    *)
(* the valid one by now.                                                   *)
PersistsTheValid ==
  Postgres /\ excuses \subseteq {"unread"} =>
    \A i \in Instances :
      pc[i] = "persist" => token[i].refresh = valid \/ file.refresh = valid

(* Where nobody but the instances refreshes, token_state is up to date as  *)
(* soon as nobody is about to write it.                                    *)
Saved ==
  Postgres /\ excuses = {} /\ ~FromCli =>
    /\ \A i \in Instances : pc[i] = "persist" => token[i].refresh = valid
    /\ \/ \E i \in Instances : pc[i] = "persist"
       \/ db = None /\ valid = 0
       \/ db # None /\ db.refresh = valid

(* The inductive invariant.                                                *)
AuthInv ==
  /\ AuthTypeOK /\ MutualExclusion /\ CallsOfTheRunning /\ TokensOrdered
  /\ PersistsTheValid /\ Saved /\ ValidTokenKept
-----------------------------------------------------------------------------
(* The places of a call, and the ways to lose a token.                     *)
Labels == {"idle", "check", "lock", "adopt", "request", "persist", "writeBack", "profile"}
Excuses == {"unread", "lost", "unsaved", "profile", "write back", "crash"}

(* The types of the calls and of the tokens, which the leaves below need,  *)
(* and those of the rest.                                                  *)
CallTypes ==
  /\ pc \in [Instances -> Labels] /\ mu \in [Instances -> BOOLEAN]
  /\ lock \in Instances \cup {None}
  /\ lock # None => pc[lock] \in Inside
  /\ \A i \in Instances : pc[i] \in {"lock"} \cup Inside => mu[i]

TokenPlaces ==
  /\ token \in [Instances -> Tokens \cup {None}]
  /\ file \in Tokens /\ db \in Tokens \cup {None}

Clocks ==
  /\ valid \in 0 .. issued /\ issued \in 0 .. MaxIssued
  /\ soon \in 0 .. issued /\ dead \in 0 .. soon

Flags ==
  /\ forced \in [Instances -> BOOLEAN] /\ again \in [Instances -> BOOLEAN]
  /\ fetched \in [Instances -> BOOLEAN] /\ nested \in [Instances -> BOOLEAN]

Rest ==
  /\ source \in Sources
  /\ faults \in 0 .. MaxFaults /\ excuses \subseteq Excuses

LEMMA Parts == AuthTypeOK <=> CallTypes /\ TokenPlaces /\ Clocks /\ Flags /\ Rest
<1>1. {"lock", "adopt", "request", "persist", "writeBack"} = {"lock"} \cup Inside
  BY DEF Inside
<1> QED
  BY <1>1 DEF AuthTypeOK, CallTypes, TokenPlaces, Clocks, Flags, Rest, Labels, Inside, Excuses

LEMMA PartsAfter == CallTypes' /\ TokenPlaces' /\ Clocks' /\ Flags' /\ Rest' => AuthTypeOK'
BY Parts, PTL

LEMMA Types ==
  ASSUME AuthInv
  PROVE  /\ CallTypes /\ TokenPlaces /\ Clocks /\ Flags /\ Rest
         /\ valid \in Nat /\ issued \in Nat
BY Parts, KiroAuthAssumption DEF AuthInv, Clocks

(* What a step of instance i does to the calls: it moves its own, takes or *)
(* gives back its own mutex, and the account's lock only for itself.       *)
Local(i) ==
  /\ pc' \in [Instances -> Labels] /\ mu' \in [Instances -> BOOLEAN]
  /\ \A j \in Instances \ {i} : pc'[j] = pc[j] /\ mu'[j] = mu[j]
  /\ pc'[i] \in {"lock"} \cup Inside => mu'[i]
  /\ pc'[i] \in {"check", "profile"} => ~mu'[i]
  /\ lock' = lock \/ (lock \in {None, i} /\ lock' \in {None, i})
  /\ lock' = i => pc'[i] \in Inside
  /\ Postgres /\ pc'[i] \in Inside => lock' = i

(* A call that goes on, on the same side of the lock.                      *)
LEMMA GotoIsLocal ==
  ASSUME AuthInv, NEW i \in Instances, NEW l \in Labels, Goto(i, l), lock' = lock,
         l \in Inside <=> pc[i] \in Inside,
         NEW b \in BOOLEAN, mu' = [mu EXCEPT ![i] = b],
         l \in {"lock"} \cup Inside => b, l \in {"check", "profile"} => ~b
  PROVE  Local(i)
<1>1. pc' = [pc EXCEPT ![i] = l]
  BY DEF Goto
<1>2. /\ pc' \in [Instances -> Labels] /\ mu' \in [Instances -> BOOLEAN]
      /\ pc'[i] = l /\ mu'[i] = b
      /\ \A j \in Instances \ {i} : pc'[j] = pc[j] /\ mu'[j] = mu[j]
  BY <1>1, Types DEF CallTypes, TokenPlaces
<1>3. lock = i => pc[i] \in Inside
  BY Types, KiroAuthAssumption DEF CallTypes, TokenPlaces
<1>4. Postgres /\ pc[i] \in Inside => lock = i
  BY DEF AuthInv, MutualExclusion
<1> QED
  BY <1>2, <1>3, <1>4 DEF Local

LEMMA KeepsMutex ==
  ASSUME AuthInv, NEW i \in Instances, mu' = mu
  PROVE  mu' = [mu EXCEPT ![i] = mu[i]] /\ mu[i] \in BOOLEAN
BY Types DEF CallTypes, TokenPlaces, Flags

(* A call that ends gives back what it holds.                              *)
LEMMA ReturnIsLocal ==
  ASSUME AuthInv, NEW i \in Instances, NEW ok, Return(i, ok)
  PROVE  /\ Local(i) /\ pc'[i] \notin Inside
         /\ forced' \in [Instances -> BOOLEAN] /\ again' \in [Instances -> BOOLEAN]
         /\ nested' \in [Instances -> BOOLEAN]
<1>1. PICK l \in {"profile", "check", "idle"} : pc' = [pc EXCEPT ![i] = l]
  BY DEF Return
<1>2. /\ pc' \in [Instances -> Labels] /\ pc'[i] = l /\ l \notin {"lock"} \cup Inside
      /\ \A j \in Instances \ {i} : pc'[j] = pc[j]
  BY <1>1, Types DEF CallTypes, TokenPlaces, Labels, Inside
<1>3. /\ mu' \in [Instances -> BOOLEAN] /\ ~mu'[i]
      /\ \A j \in Instances \ {i} : mu'[j] = mu[j]
  BY Types DEF CallTypes, Flags, Return
<1>4. lock' # i /\ (lock' = lock \/ (lock = i /\ lock' = None))
  BY KiroAuthAssumption DEF Return, Unlock
<1>5. Local(i)
  BY <1>2, <1>3, <1>4 DEF Local
<1>6. /\ forced' \in [Instances -> BOOLEAN] /\ again' \in [Instances -> BOOLEAN]
      /\ nested' \in [Instances -> BOOLEAN]
  BY Types DEF CallTypes, Flags, Return
<1> QED
  BY <1>2, <1>5, <1>6

(* So no two instances come to refresh the account at once, and no call    *)
(* comes to wait for itself.                                               *)
LEMMA LocalKeeps ==
  ASSUME AuthInv, NEW i \in Instances, Local(i),
         token' \in [Instances -> Tokens \cup {None}],
         \A j \in Instances \ {i} : token'[j] = token[j],
         token'[i] = None => pc'[i] = "idle"
  PROVE  /\ MutualExclusion' /\ CallsOfTheRunning'
         /\ CallTypes'
<1>1. MutualExclusion'
  BY KiroAuthAssumption DEF AuthInv, MutualExclusion, Local
<1>2. CallsOfTheRunning'
  BY DEF AuthInv, CallsOfTheRunning, Local
<1>3. lock' \in Instances \cup {None}
  BY Types DEF CallTypes, TokenPlaces, Local
<1>4. lock' # None => pc'[lock'] \in Inside
  BY Types DEF CallTypes, TokenPlaces, Local
<1>5. \A j \in Instances : pc'[j] \in {"lock"} \cup Inside => mu'[j]
  BY Types DEF CallTypes, TokenPlaces, Local
<1>6. CallTypes'
  BY <1>3, <1>4, <1>5 DEF Local, CallTypes
<1> QED
  BY <1>1, <1>2, <1>6

(* What a step does to the tokens, if it gets none from the provider: they *)
(* move between the instance, the database and the source.                 *)
Moved(i) ==
  /\ \E t \in {token[i], file, db, None} : token' = [token EXCEPT ![i] = t]
  /\ file' \in {file, token[i]} /\ file' # None
  /\ db' \in {db, token[i]}

LEMMA MovedKeepsTypes ==
  ASSUME AuthInv, NEW i \in Instances, Moved(i)
  PROVE  /\ token' \in [Instances -> Tokens \cup {None}]
         /\ \A j \in Instances \ {i} : token'[j] = token[j]
         /\ file' \in Tokens /\ db' \in Tokens \cup {None}
         /\ file' \in Held /\ db' \in Held \cup {None}
         /\ \A j \in Instances : token'[j] \in Held \cup {None}
<1>1. PICK t \in {token[i], file, db, None} : token' = [token EXCEPT ![i] = t]
  BY DEF Moved
<1>2. t \in Tokens \cup {None} /\ token[i] \in Tokens \cup {None}
  BY Types DEF CallTypes, TokenPlaces, Flags
<1>3. file # None
  BY Types, KiroAuthAssumption DEF CallTypes, TokenPlaces
<1>4. t \in Held \cup {None} /\ token[i] \in Held \cup {None}
  BY <1>3 DEF Held
<1>5. \A j \in Instances : token[j] \in Held \cup {None}
  BY DEF Held
<1>6. file \in Held /\ db \in Held \cup {None}
  BY <1>3 DEF Held
<1> QED
  BY <1>1, <1>2, <1>4, <1>5, <1>6, Types DEF CallTypes, TokenPlaces, Moved

(* Tokens that are not new stay in order.                                  *)
LEMMA OldTokensOrdered ==
  ASSUME AuthInv, file' \in Held, db' \in Held \cup {None},
         \A j \in Instances : token'[j] \in Held \cup {None},
         valid' \in Nat, issued' \in Nat, valid <= valid', issued <= issued'
  PROVE  TokensOrdered'
<1>1. Held' \subseteq Held
  BY DEF Held
<1>2. \A t \in Held : t.access \in Nat /\ t.refresh \in Nat
  BY Types, KiroAuthAssumption DEF TokenPlaces, Held, Tokens
<1> QED
  BY <1>1, <1>2, Types DEF CallTypes, TokenPlaces, TokensOrdered, AuthInv

(* A new token is the youngest of all.                                     *)
LEMMA NewTokenOrdered ==
  ASSUME AuthInv, NEW n, n = Token(valid', issued'),
         file' \in Held \cup {n}, db' \in Held \cup {None},
         \A j \in Instances : token'[j] \in Held \cup {None, n},
         valid' \in {valid, valid + 1}, issued' = issued + 1
  PROVE  TokensOrdered'
<1>1. Held' \subseteq Held \cup {n}
  BY DEF Held
<1>2. \A t \in Held : t.access \in Nat /\ t.refresh \in Nat
  BY Types, KiroAuthAssumption DEF TokenPlaces, Held, Tokens
<1>3. n.access = issued' /\ n.refresh = valid'
  BY DEF Token
<1> QED
  BY <1>1, <1>2, <1>3, Types DEF CallTypes, TokenPlaces, TokensOrdered, AuthInv
-----------------------------------------------------------------------------
(* Where the valid refresh token is. *)
Whereabouts == PersistsTheValid /\ Saved /\ ValidTokenKept

(* After a fault other than a column that could not be read they promise   *)
(* nothing.                                                                *)
LEMMA Excused ==
  ASSUME ~(excuses' \subseteq {"unread"})
  PROVE  Whereabouts'
<1>1. excuses' # {}
  OBVIOUS
<1> QED
  BY <1>1 DEF Whereabouts, PersistsTheValid, Saved, ValidTokenKept

(* A step that neither writes a token where it is kept nor begins or ends  *)
(* the wait to persist one.                                                *)
LEMMA QuietKeepsTokens ==
  ASSUME AuthInv, valid' = valid, file' = file, db' = db, source' = source,
         excuses \subseteq excuses',
         \A i \in Instances :
           /\ pc'[i] = "persist" <=> pc[i] = "persist"
           /\ pc[i] = "persist" => token'[i] = token[i]
  PROVE  Whereabouts'
<1>1. excuses' \subseteq {"unread"} => excuses \subseteq {"unread"}
  OBVIOUS
<1>2. excuses' = {} => excuses = {}
  OBVIOUS
<1>3. FromCli' <=> FromCli
  BY DEF FromCli
<1>4. PersistsTheValid'
  BY <1>1 DEF AuthInv, PersistsTheValid
<1>5. Saved'
  BY <1>2, <1>3 DEF AuthInv, Saved
<1>6. ValidTokenKept'
  BY <1>1 DEF AuthInv, ValidTokenKept
<1> QED
  BY <1>4, <1>5, <1>6 DEF Whereabouts

(* Whoever is inside is alone there.                                       *)
LEMMA Alone ==
  ASSUME AuthInv, Postgres, NEW i \in Instances, pc[i] \in Inside,
         NEW j \in Instances, pc[j] \in Inside
  PROVE  i = j
BY DEF AuthInv, MutualExclusion

(* Whoever is in a call has a token.                                       *)
LEMMA Running ==
  ASSUME AuthInv, NEW i \in Instances, pc[i] # "idle"
  PROVE  token[i] \in Tokens /\ token[i] # None
BY Types, KiroAuthAssumption DEF AuthInv, CallsOfTheRunning, TokenPlaces

(* What is left to show of a step that gets no token from the provider.    *)
LEMMA OldTokenStep ==
  ASSUME AuthInv, NEW i \in Instances, Local(i), Moved(i),
         token'[i] = None => pc'[i] = "idle",
         valid' = valid, issued' \in Nat, issued <= issued',
         Clocks', Flags', Rest', Whereabouts'
  PROVE  AuthInv'
<1>1. /\ TokenPlaces'
      /\ \A j \in Instances \ {i} : token'[j] = token[j]
  BY MovedKeepsTypes DEF TokenPlaces
<1>2. CallTypes' /\ MutualExclusion' /\ CallsOfTheRunning'
  BY <1>1, LocalKeeps DEF TokenPlaces
<1>3. TokensOrdered'
  BY MovedKeepsTypes, OldTokensOrdered, Types
<1>4. AuthTypeOK'
  BY <1>1, <1>2, PartsAfter
<1> QED
  BY <1>2, <1>3, <1>4 DEF AuthInv, Whereabouts
(* A fault counts against the bound.                                       *)
LEMMA FaultKeeps ==
  ASSUME AuthInv, Fault, source' = source, excuses' \subseteq Excuses
  PROVE  Rest'
<1>1. faults' \in 0 .. MaxFaults
  BY Types, KiroAuthAssumption DEF Fault, Rest
<1> QED
  BY <1>1, Types DEF Rest

-----------------------------------------------------------------------------
(* One lemma for each action. *)

LEMMA NewAuthServiceStep ==
  ASSUME AuthInv, NEW i \in Instances, NewAuthService(i)
  PROVE  AuthInv'
<1>1. PICK t \in {db, file} : Hold(i, t)
  BY DEF NewAuthService
<1>2. Moved(i)
  BY <1>1, Types, KiroAuthAssumption DEF NewAuthService, Hold, Moved, TokenPlaces
<1>3. pc[i] = "idle"
  BY DEF NewAuthService, AuthInv, CallsOfTheRunning
<1>4. Local(i)
  BY <1>3, Types, KiroAuthAssumption DEF NewAuthService, callVars, Local, CallTypes, Inside, AuthInv, MutualExclusion
<1>5. Clocks' /\ Flags' /\ Rest'
  BY Types DEF NewAuthService, timeVars, providerVars, callVars, Clocks, Flags, Rest
<1>6. \A j \in Instances : pc[j] = "persist" => token'[j] = token[j]
  BY <1>1, <1>3, Types DEF Hold, TokenPlaces
<1>7. Whereabouts'
  BY <1>6, QuietKeepsTokens DEF NewAuthService, callVars, providerVars
<1> QED
  BY <1>2, <1>3, <1>4, <1>5, <1>7, OldTokenStep, Types DEF NewAuthService, callVars, providerVars

LEMMA GetAccessTokenStep ==
  ASSUME AuthInv, NEW i \in Instances, GetAccessToken(i)
  PROVE  AuthInv'
<1>1. Moved(i) /\ token' = token /\ token[i] # None
  BY Types, KiroAuthAssumption DEF GetAccessToken, Moved, TokenPlaces
<1>2. PICK fetch \in BOOLEAN :
        /\ fetched' = [fetched EXCEPT ![i] = @ \/ fetch]
        /\ nested' = [nested EXCEPT ![i] = fetch]
        /\ mu' = [mu EXCEPT ![i] = FALSE]
  BY DEF GetAccessToken, NotHeldWhileFetching
<1>3. Local(i)
  BY <1>2, GotoIsLocal DEF GetAccessToken, Labels, Inside
<1>4. Clocks' /\ Flags' /\ Rest'
  BY <1>2, Types DEF GetAccessToken, timeVars, providerVars, Clocks, Flags, Rest
<1>5. Whereabouts'
  BY <1>1, QuietKeepsTokens, Types DEF GetAccessToken, Goto, providerVars, CallTypes
<1> QED
  BY <1>1, <1>3, <1>4, <1>5, OldTokenStep, Types DEF GetAccessToken, providerVars

LEMMA ForceRefreshStep ==
  ASSUME AuthInv, NEW i \in Instances, ForceRefresh(i)
  PROVE  AuthInv'
<1>1. Moved(i) /\ token' = token /\ token[i] # None
  BY Types, KiroAuthAssumption DEF ForceRefresh, Moved, TokenPlaces
<1>2. Local(i)
  BY GotoIsLocal DEF ForceRefresh, Labels, Inside
<1>3. Clocks' /\ Flags' /\ Rest'
  BY Types DEF ForceRefresh, timeVars, providerVars, Clocks, Flags, Rest
<1>4. Whereabouts'
  BY <1>1, QuietKeepsTokens, Types DEF ForceRefresh, Goto, providerVars, CallTypes
<1> QED
  BY <1>1, <1>2, <1>3, <1>4, OldTokenStep, Types DEF ForceRefresh, providerVars

LEMMA CheckStep ==
  ASSUME AuthInv, NEW i \in Instances, Check(i)
  PROVE  AuthInv'
<1>1. PICK t \in {token[i], file} : token' = [token EXCEPT ![i] = t]
  BY Types DEF Check, Hold, TokenPlaces
<1>2. Moved(i)
  BY <1>1, Types, KiroAuthAssumption DEF Check, Moved, TokenPlaces
<1>3. pc[i] = "check" /\ token[i] # None
  BY Running DEF Check
<1>4. token'[i] # None
  BY <1>1, <1>3, Types, KiroAuthAssumption DEF TokenPlaces
<1>5. \/ \E ok \in BOOLEAN : Return(i, ok)
      \/ /\ Goto(i, "lock") /\ mu' = [mu EXCEPT ![i] = TRUE]
         /\ UNCHANGED <<lock, forced, again, nested>>
  BY DEF Check
<1>6. Local(i) /\ pc'[i] \notin Inside /\ \A j \in Instances \ {i} : pc'[j] = pc[j]
  <2>1. CASE \E ok \in BOOLEAN : Return(i, ok)
    BY <2>1, ReturnIsLocal DEF Local
  <2>2. CASE /\ Goto(i, "lock") /\ mu' = [mu EXCEPT ![i] = TRUE]
             /\ UNCHANGED <<lock, forced, again, nested>>
    <3>1. Local(i)
      BY <1>3, <2>2, GotoIsLocal DEF Labels, Inside
    <3> QED
      BY <2>2, <3>1, Types DEF Local, Goto, CallTypes, Inside
  <2> QED
    BY <1>5, <2>1, <2>2
<1>7. Flags'
  BY <1>5, ReturnIsLocal, Types DEF Check, Flags
<1>8. Clocks' /\ Rest'
  BY Types DEF Check, timeVars, providerVars, Clocks, Rest
<1>9. \A j \in Instances :
        /\ pc'[j] = "persist" <=> pc[j] = "persist"
        /\ pc[j] = "persist" => token'[j] = token[j]
  BY <1>1, <1>3, <1>6, Types DEF TokenPlaces, Inside
<1>10. Whereabouts'
  BY <1>9, QuietKeepsTokens DEF Check, providerVars
<1> QED
  BY <1>2, <1>4, <1>6, <1>7, <1>8, <1>10, OldTokenStep, Types DEF Check, providerVars

LEMMA LockAccountStep ==
  ASSUME AuthInv, NEW i \in Instances, LockAccount(i)
  PROVE  AuthInv'
<1>1. Moved(i) /\ token' = token /\ token[i] # None /\ mu' = mu /\ mu[i]
  BY Running, Types, KiroAuthAssumption DEF LockAccount, Moved, TokenPlaces, CallTypes
<1>2. pc' = [pc EXCEPT ![i] = "adopt"] /\ pc[i] = "lock"
  BY DEF LockAccount, Goto
<1>3. Local(i)
  <2>1. /\ pc' \in [Instances -> Labels] /\ pc'[i] = "adopt"
        /\ \A j \in Instances \ {i} : pc'[j] = pc[j]
    BY <1>2, Types DEF CallTypes, Labels
  <2>2. /\ lock' = lock \/ (lock \in {None, i} /\ lock' \in {None, i})
        /\ Postgres => lock' = i
    BY DEF LockAccount, TakeLock
  <2> QED
    BY <1>1, <2>1, <2>2, Types DEF Local, CallTypes, Inside
<1>4. Clocks' /\ Flags' /\ Rest'
  BY Types DEF LockAccount, timeVars, providerVars, Clocks, Flags, Rest
<1>5. Whereabouts'
  BY <1>1, <1>2, QuietKeepsTokens, Types DEF LockAccount, providerVars, CallTypes
<1> QED
  BY <1>1, <1>3, <1>4, <1>5, OldTokenStep, Types DEF LockAccount, providerVars

LEMMA LockFailsStep ==
  ASSUME AuthInv, NEW i \in Instances, LockFails(i)
  PROVE  AuthInv'
<1>1. Moved(i) /\ token' = token /\ token[i] # None
  BY Running, Types, KiroAuthAssumption DEF LockFails, Moved, TokenPlaces
<1>2. Local(i) /\ pc'[i] \notin Inside /\ pc[i] \notin Inside
  BY ReturnIsLocal DEF LockFails, Inside
<1>3. Flags'
  BY ReturnIsLocal, Types DEF LockFails, Flags
<1>4. Clocks' /\ Rest'
  BY Types DEF LockFails, timeVars, providerVars, Clocks, Rest
<1>5. Whereabouts'
  BY <1>1, <1>2, QuietKeepsTokens DEF LockFails, providerVars, Local, Inside
<1> QED
  BY <1>1, <1>2, <1>3, <1>4, <1>5, OldTokenStep, Types DEF LockFails, providerVars

LEMMA AdoptStep ==
  ASSUME AuthInv, NEW i \in Instances, Adopt(i)
  PROVE  AuthInv'
<1>1. PICK t \in {token[i], db} : token' = [token EXCEPT ![i] = t] /\ t # None
  BY Running, Types DEF Adopt, Adoptable, Hold, TokenPlaces
<1>2. Moved(i) /\ token'[i] # None
  BY <1>1, Types, KiroAuthAssumption DEF Adopt, Moved, TokenPlaces
<1>3. pc[i] = "adopt"
  BY DEF Adopt
<1>4. \/ \E ok \in BOOLEAN : Return(i, ok)
      \/ Goto(i, "request") /\ UNCHANGED <<lock, mu, forced, again, nested>>
  BY DEF Adopt
<1>5. Local(i) /\ pc'[i] # "persist"
  <2>1. CASE \E ok \in BOOLEAN : Return(i, ok)
    BY <2>1, ReturnIsLocal DEF Inside
  <2>2. CASE Goto(i, "request") /\ UNCHANGED <<lock, mu, forced, again, nested>>
    <3>1. Local(i)
      BY <1>3, <2>2, GotoIsLocal, KeepsMutex, Types DEF Labels, Inside, CallTypes
    <3> QED
      BY <2>2, <3>1, Types DEF Goto, CallTypes
  <2> QED
    BY <1>4, <2>1, <2>2
<1>6. Flags'
  BY <1>4, ReturnIsLocal, Types DEF Adopt, Flags
<1>7. Clocks' /\ Rest'
  BY Types DEF Adopt, timeVars, providerVars, Clocks, Rest
<1>8. \A j \in Instances :
        /\ pc'[j] = "persist" <=> pc[j] = "persist"
        /\ pc[j] = "persist" => token'[j] = token[j]
  BY <1>1, <1>3, <1>5, Types DEF TokenPlaces, Local
<1>9. Whereabouts'
  BY <1>8, QuietKeepsTokens DEF Adopt, providerVars
<1> QED
  BY <1>2, <1>5, <1>6, <1>7, <1>9, OldTokenStep, Types DEF Adopt, providerVars

LEMMA AdoptFailsStep ==
  ASSUME AuthInv, NEW i \in Instances, AdoptFails(i)
  PROVE  AuthInv'
<1>1. Moved(i) /\ token' = token /\ token[i] # None
  BY Running, Types, KiroAuthAssumption DEF AdoptFails, Moved, TokenPlaces
<1>2. Local(i) /\ pc'[i] # "persist" /\ pc[i] # "persist"
  <2>1. Local(i)
    BY GotoIsLocal, KeepsMutex, Types DEF AdoptFails, Labels, Inside, CallTypes
  <2> QED
    BY <2>1, Types DEF AdoptFails, Goto, CallTypes
<1>3. Clocks' /\ Flags'
  BY Types DEF AdoptFails, timeVars, providerVars, Clocks, Flags
<1>4. Rest'
  BY FaultKeeps, Types DEF AdoptFails, Rest, Excuses
<1>5. Whereabouts'
  BY <1>1, <1>2, QuietKeepsTokens DEF AdoptFails, providerVars, Local
<1> QED
  BY <1>1, <1>2, <1>3, <1>4, <1>5, OldTokenStep, Types DEF AdoptFails, providerVars

(* A refresh or a login of kiro-cli that the provider grants.              *)
LEMMA Issued ==
  ASSUME AuthInv, NEW rotate \in BOOLEAN, Issue(rotate)
  PROVE  /\ issued' = issued + 1 /\ valid' \in {valid, valid + 1}
         /\ rotate => valid' = valid + 1
         /\ Token(valid', issued') \in Tokens
         /\ Token(valid', issued').refresh = valid'
         /\ soon' = soon /\ dead' = dead => Clocks'
<1>1. issued' = issued + 1 /\ valid' \in {valid, valid + 1} /\ issued < MaxIssued
  BY DEF Issue
<1>2. valid' \in 0 .. issued' /\ issued' \in 0 .. MaxIssued
  BY <1>1, Types, KiroAuthAssumption DEF Clocks
<1>3. Token(valid', issued') \in Tokens
  BY <1>2, KiroAuthAssumption DEF Token, Tokens
<1>4. soon' = soon /\ dead' = dead => Clocks'
  BY <1>1, <1>2, Types, KiroAuthAssumption DEF Clocks
<1> QED
  BY <1>1, <1>3, <1>4 DEF Issue, Token

LEMMA RefreshedStep ==
  ASSUME AuthInv, NEW i \in Instances, Refreshed(i)
  PROVE  AuthInv'
<1> DEFINE n == Token(valid', issued')
<1>1. PICK rotate \in BOOLEAN : Issue(rotate)
  BY DEF Refreshed
<1>2. /\ issued' = issued + 1 /\ valid' \in {valid, valid + 1}
      /\ n \in Tokens /\ n # None /\ n.refresh = valid' /\ Clocks'
  BY <1>1, Issued, KiroAuthAssumption DEF Refreshed, timeVars
<1>3. /\ token' = [token EXCEPT ![i] = n]
      /\ token' \in [Instances -> Tokens \cup {None}] /\ token'[i] = n
      /\ \A j \in Instances \ {i} : token'[j] = token[j]
  BY <1>2, Types DEF Refreshed, Hold, TokenPlaces
<1>4. Local(i) /\ pc'[i] = "persist" /\ pc[i] = "request"
  <2>1. Local(i)
    BY GotoIsLocal, KeepsMutex, Types DEF Refreshed, Labels, Inside, CallTypes
  <2> QED
    BY <2>1, Types DEF Refreshed, Goto, CallTypes
<1>5. CallTypes' /\ MutualExclusion' /\ CallsOfTheRunning'
  BY <1>2, <1>3, <1>4, LocalKeeps
<1>6. Flags' /\ Rest' /\ TokenPlaces'
  BY <1>3, Types DEF Refreshed, Flags, Rest, TokenPlaces
<1>7. TokensOrdered'
  <2>1. file' \in Held /\ db' \in Held \cup {None}
    BY Types, KiroAuthAssumption DEF Refreshed, Held, TokenPlaces
  <2>2. \A j \in Instances : token'[j] \in Held \cup {None, n}
    BY <1>3 DEF Held
  <2> HIDE DEF n
  <2> QED
    BY <1>2, <2>1, <2>2, NewTokenOrdered DEF n
<1>8. \A j \in Instances : Postgres /\ pc'[j] = "persist" => j = i
  BY <1>4, Alone DEF Local, Inside
<1>9. PersistsTheValid' /\ Saved' /\ ValidTokenKept'
  BY <1>2, <1>3, <1>4, <1>8 DEF PersistsTheValid, Saved, ValidTokenKept
<1>10. AuthTypeOK'
  BY <1>2, <1>5, <1>6, PartsAfter
<1> QED
  BY <1>5, <1>7, <1>9, <1>10 DEF AuthInv

LEMMA RefreshLostStep ==
  ASSUME AuthInv, NEW i \in Instances, RefreshLost(i)
  PROVE  AuthInv'
<1>1. Moved(i) /\ token' = token /\ token[i] # None
  BY Running, Types, KiroAuthAssumption DEF RefreshLost, Moved, TokenPlaces
<1>2. Local(i) /\ pc'[i] \notin Inside /\ pc[i] = "request"
  BY ReturnIsLocal DEF RefreshLost
<1>3. Flags'
  BY ReturnIsLocal, Types DEF RefreshLost, Flags
<1>4. CASE UNCHANGED <<providerVars, faults, excuses>>
  <2>1. Clocks' /\ Rest'
    BY <1>4, Types DEF RefreshLost, timeVars, providerVars, Clocks, Rest
  <2>2. Whereabouts'
    BY <1>1, <1>2, <1>4, QuietKeepsTokens DEF RefreshLost, providerVars, Local, Inside
  <2> QED
    BY <1>1, <1>2, <1>3, <1>4, <2>1, <2>2, OldTokenStep, Types DEF RefreshLost, providerVars
<1>5. CASE Fault /\ Issue(TRUE) /\ excuses' = excuses \cup {"lost"}
  <2>1. /\ issued' = issued + 1 /\ valid' = valid + 1 /\ Clocks'
    BY <1>5, Issued DEF RefreshLost, timeVars
  <2>2. Rest'
    BY <1>5, FaultKeeps, Types DEF RefreshLost, Rest, Excuses
  <2>3. Whereabouts'
    BY <1>5, Excused
  <2>4. TokenPlaces' /\ CallTypes' /\ MutualExclusion' /\ CallsOfTheRunning'
    BY <1>1, <1>2, LocalKeeps, Types DEF RefreshLost, TokenPlaces
  <2>5. TokensOrdered'
    BY <1>1, <2>1, MovedKeepsTypes, OldTokensOrdered, Types
  <2> QED
    BY <1>3, <2>1, <2>2, <2>3, <2>4, <2>5, PartsAfter DEF AuthInv, Whereabouts
<1> QED
  BY <1>4, <1>5 DEF RefreshLost

LEMMA RefusedStep ==
  ASSUME AuthInv, NEW i \in Instances, Refused(i)
  PROVE  AuthInv'
<1>1. PICK t \in {token[i], file} : token' = [token EXCEPT ![i] = t] /\ t # None
  BY Running, Types, KiroAuthAssumption DEF Refused, TokenPlaces
<1>2. Moved(i) /\ token'[i] # None
  BY <1>1, Types, KiroAuthAssumption DEF Refused, Moved, TokenPlaces
<1>3. pc[i] = "request"
  BY DEF Refused
<1>4. \/ \E ok \in BOOLEAN : Return(i, ok)
      \/ again' = [again EXCEPT ![i] = TRUE] /\ UNCHANGED <<lock, pc, mu, forced, nested>>
  BY DEF Refused
<1>5. Local(i) /\ pc'[i] # "persist"
  <2>1. CASE \E ok \in BOOLEAN : Return(i, ok)
    BY <2>1, ReturnIsLocal DEF Inside
  <2>2. CASE UNCHANGED <<lock, pc, mu>>
    <3>1. Goto(i, "request")
      BY <1>3, <2>2, Types DEF Goto, CallTypes
    <3> QED
      BY <1>3, <2>2, <3>1, GotoIsLocal, KeepsMutex, Types DEF Labels, Inside, CallTypes
  <2> QED
    BY <1>4, <2>1, <2>2
<1>6. Flags'
  BY <1>4, ReturnIsLocal, Types DEF Refused, Flags
<1>7. Clocks' /\ Rest'
  BY Types DEF Refused, timeVars, providerVars, Clocks, Rest
<1>8. \A j \in Instances :
        /\ pc'[j] = "persist" <=> pc[j] = "persist"
        /\ pc[j] = "persist" => token'[j] = token[j]
  BY <1>1, <1>3, <1>5, Types DEF TokenPlaces, Local
<1>9. Whereabouts'
  BY <1>8, QuietKeepsTokens DEF Refused, providerVars
<1>10. valid' = valid /\ issued' = issued
  BY DEF Refused, providerVars
<1> QED
  BY <1>2, <1>5, <1>6, <1>7, <1>9, <1>10, OldTokenStep, Types

LEMMA PersistStep ==
  ASSUME AuthInv, NEW i \in Instances, Persist(i)
  PROVE  AuthInv'
<1>1. token' = token /\ token[i] \in Tokens /\ token[i] # None /\ pc[i] = "persist"
  BY Running DEF Persist
<1>2. Moved(i)
  BY <1>1, Types, KiroAuthAssumption DEF Persist, Moved, TokenPlaces
<1>3. Local(i) /\ pc'[i] # "persist"
  <2>1. Local(i)
    BY GotoIsLocal, KeepsMutex, Types DEF Persist, Labels, Inside, CallTypes
  <2> QED
    BY <2>1, Types DEF Persist, Goto, CallTypes
<1>4. Clocks' /\ Flags'
  BY Types DEF Persist, timeVars, providerVars, Clocks, Flags
<1>5. Rest'
  <2>1. CASE UNCHANGED <<faults, excuses>>
    BY <2>1, Types DEF Persist, Rest
  <2>2. CASE Fault /\ excuses' = excuses \cup {"unsaved"}
    BY <2>2, FaultKeeps, Types DEF Persist, Rest, Excuses
  <2> QED
    BY <2>1, <2>2 DEF Persist
<1>6. valid' = valid /\ issued' = issued /\ file' = file /\ source' = source
  BY DEF Persist, providerVars
<1>7. Whereabouts'
  <2>1. CASE db' = token[i] /\ excuses' = excuses
    <3>1. \A j \in Instances : Postgres => pc'[j] # "persist"
      BY <1>1, <1>3, Alone DEF Local, Inside
    <3>2. PersistsTheValid'
      BY <3>1 DEF PersistsTheValid
    <3>3. FromCli' <=> FromCli
      BY <1>6 DEF FromCli
    <3>4. Saved'
      BY <1>1, <1>6, <2>1, <3>1, <3>3 DEF AuthInv, Saved
    <3>5. ValidTokenKept'
      BY <1>1, <1>6, <2>1 DEF AuthInv, PersistsTheValid, ValidTokenKept
    <3> QED
      BY <3>2, <3>4, <3>5 DEF Whereabouts
  <2>2. CASE excuses' = excuses \cup {"unsaved"}
    BY <2>2, Excused
  <2> QED
    BY <2>1, <2>2 DEF Persist
<1> QED
  BY <1>1, <1>2, <1>3, <1>4, <1>5, <1>6, <1>7, OldTokenStep, Types

LEMMA WriteBackStep ==
  ASSUME AuthInv, NEW i \in Instances, WriteBack(i)
  PROVE  AuthInv'
<1>1. token' = token /\ token[i] \in Tokens /\ token[i] # None /\ pc[i] = "writeBack"
  BY Running DEF WriteBack
<1>2. Moved(i)
  BY <1>1, Types, KiroAuthAssumption DEF WriteBack, Moved, TokenPlaces
<1>3. Local(i) /\ pc'[i] \notin Inside
  BY ReturnIsLocal DEF WriteBack
<1>4. Flags'
  BY ReturnIsLocal, Types DEF WriteBack, Flags
<1>5. Clocks' /\ Rest'
  <2>1. excuses' \subseteq Excuses
    BY Types DEF WriteBack, Rest, Excuses
  <2> QED
    BY <2>1, Types DEF WriteBack, timeVars, providerVars, Clocks, Rest
<1>6. valid' = valid /\ issued' = issued /\ db' = db /\ source' = source
  BY DEF WriteBack, providerVars
<1>7. \/ file' = token[i] /\ excuses' = excuses /\ ~Replaces(token[i], file)
      \/ file' = file /\ excuses' = excuses
      \/ excuses' = excuses \cup {"write back"}
  BY DEF WriteBack
<1>8. Whereabouts'
  <2>1. CASE /\ excuses' = excuses
             /\ file' = file \/ (file' = token[i] /\ ~Replaces(token[i], file))
    <3>1. \A j \in Instances : Postgres => pc'[j] # "persist" /\ pc[j] # "persist"
      BY <1>1, <1>3, Alone DEF Local, Inside
    <3>2. PersistsTheValid'
      BY <3>1 DEF PersistsTheValid
    <3>3. FromCli' <=> FromCli
      BY <1>6 DEF FromCli
    <3>4. Saved'
      BY <1>6, <2>1, <3>1, <3>3 DEF AuthInv, Saved
    <3>5. file.refresh = valid => file'.refresh = valid
      BY <2>1 DEF Replaces
    <3>6. ValidTokenKept'
      BY <1>6, <2>1, <3>1, <3>5 DEF AuthInv, ValidTokenKept
    <3> QED
      BY <3>2, <3>4, <3>6 DEF Whereabouts
  <2>2. CASE excuses' = excuses \cup {"write back"}
    BY <2>2, Excused
  <2> QED
    BY <1>7, <2>1, <2>2
<1> QED
  BY <1>1, <1>2, <1>3, <1>4, <1>5, <1>6, <1>8, OldTokenStep, Types

LEMMA ProfileArrivesStep ==
  ASSUME AuthInv, NEW i \in Instances, ProfileArrives(i)
  PROVE  AuthInv'
<1>1. token' = token /\ token[i] \in Tokens /\ token[i] # None /\ pc[i] = "profile"
  BY Running DEF ProfileArrives
<1>2. Moved(i)
  BY <1>1, Types, KiroAuthAssumption DEF ProfileArrives, Moved, TokenPlaces
<1>3. Local(i) /\ pc'[i] = "check"
  <2>1. Local(i)
    BY GotoIsLocal, KeepsMutex, Types DEF ProfileArrives, Labels, Inside, CallTypes
  <2> QED
    BY <2>1, Types DEF ProfileArrives, Goto, CallTypes
<1>4. Clocks' /\ Flags'
  BY Types DEF ProfileArrives, timeVars, providerVars, Clocks, Flags
<1>5. Rest'
  <2>1. excuses' \subseteq Excuses
    BY Types DEF ProfileArrives, Rest, Excuses
  <2> QED
    BY <2>1, Types DEF ProfileArrives, Rest
<1>6. valid' = valid /\ issued' = issued /\ file' = file /\ source' = source
  BY DEF ProfileArrives, providerVars
<1>7. \/ /\ db' = token[i] /\ excuses' = excuses
         /\ ~(db # None /\ Replaces(token[i], db))
      \/ db' = db /\ excuses' = excuses
      \/ excuses' = excuses \cup {"profile"}
  BY DEF ProfileArrives
<1>8. \A j \in Instances : pc'[j] = "persist" <=> pc[j] = "persist"
  BY <1>1, <1>3 DEF Local
<1>9. Whereabouts'
  <2>1. CASE db' = db /\ excuses' = excuses
    BY <1>1, <1>6, <1>8, <2>1, QuietKeepsTokens
  <2>2. CASE /\ db' = token[i] /\ excuses' = excuses
             /\ ~(db # None /\ Replaces(token[i], db))
    <3>1. PersistsTheValid'
      BY <1>1, <1>6, <1>8, <2>2 DEF AuthInv, PersistsTheValid
    <3>2. FromCli' <=> FromCli
      BY <1>6 DEF FromCli
    <3>3. db # None /\ db.refresh = valid => db'.refresh = valid
      BY <2>2 DEF Replaces
    <3>4. valid = 0 => db'.refresh = valid
      <4>1. token[i].refresh \in Nat /\ token[i] \in Held
        BY <1>1, KiroAuthAssumption DEF Tokens, Held
      <4>2. token[i].refresh <= valid
        BY <4>1 DEF AuthInv, TokensOrdered
      <4> QED
        BY <2>2, <4>1, <4>2
    <3>5. db' # None
      BY <1>1, <2>2
    <3>6. Saved'
      BY <1>1, <1>6, <1>8, <2>2, <3>2, <3>3, <3>4, <3>5 DEF AuthInv, Saved
    <3>7. ValidTokenKept'
      BY <1>1, <1>6, <1>8, <2>2, <3>3, <3>5 DEF AuthInv, ValidTokenKept
    <3> QED
      BY <3>1, <3>6, <3>7 DEF Whereabouts
  <2>3. CASE excuses' = excuses \cup {"profile"}
    BY <2>3, Excused
  <2> QED
    BY <1>7, <2>1, <2>2, <2>3
<1> QED
  BY <1>1, <1>2, <1>3, <1>4, <1>5, <1>6, <1>9, OldTokenStep, Types

LEMMA CrashStep ==
  ASSUME AuthInv, NEW i \in Instances, Crash(i)
  PROVE  AuthInv'
<1>1. Moved(i) /\ token'[i] = None /\ \A j \in Instances \ {i} : token'[j] = token[j]
  BY Types, KiroAuthAssumption DEF Crash, Moved, TokenPlaces
<1>2. pc' = [pc EXCEPT ![i] = "idle"] /\ mu' = [mu EXCEPT ![i] = FALSE]
  BY DEF Crash
<1>3. /\ pc' \in [Instances -> Labels] /\ mu' \in [Instances -> BOOLEAN]
      /\ pc'[i] = "idle" /\ \A j \in Instances \ {i} : pc'[j] = pc[j] /\ mu'[j] = mu[j]
  BY <1>2, Types DEF CallTypes, Labels
<1>4. lock' # i /\ (lock' = lock \/ (lock = i /\ lock' = None))
  BY KiroAuthAssumption DEF Crash
<1>5. Local(i)
  BY <1>3, <1>4 DEF Local, Inside
<1>6. Clocks' /\ Flags'
  BY Types DEF Crash, timeVars, providerVars, Clocks, Flags
<1>7. Rest'
  <2>1. excuses' \subseteq Excuses
    BY Types DEF Crash, Rest, Excuses
  <2> QED
    BY <2>1, FaultKeeps DEF Crash
<1>8. valid' = valid /\ issued' = issued /\ file' = file /\ db' = db /\ source' = source
  BY DEF Crash, providerVars
<1>9. Whereabouts'
  <2>1. CASE pc[i] = "persist"
    BY <2>1, Excused DEF Crash
  <2>2. CASE pc[i] # "persist"
    BY <1>1, <1>3, <1>8, <2>2, QuietKeepsTokens DEF Crash
  <2> QED
    BY <2>1, <2>2
<1> QED
  BY <1>1, <1>3, <1>5, <1>6, <1>7, <1>8, <1>9, OldTokenStep, Types

LEMMA CliRefreshesStep ==
  ASSUME AuthInv, CliRefreshes
  PROVE  AuthInv'
<1> DEFINE n == Token(valid', issued')
<1>1. /\ issued' = issued + 1 /\ valid' \in {valid, valid + 1}
      /\ n \in Tokens /\ n.refresh = valid' /\ Clocks'
  BY Issued DEF CliRefreshes, timeVars
<1>2. CallTypes' /\ MutualExclusion' /\ CallsOfTheRunning'
  BY Types DEF CliRefreshes, callVars, CallTypes, AuthInv, MutualExclusion, CallsOfTheRunning
<1>3. TokenPlaces' /\ Flags' /\ Rest'
  BY <1>1, Types DEF CliRefreshes, callVars, TokenPlaces, Flags, Rest
<1>4. TokensOrdered'
  <2>1. file' \in Held \cup {n} /\ db' \in Held \cup {None}
    BY DEF CliRefreshes, Held
  <2>2. \A j \in Instances : token'[j] \in Held \cup {None, n}
    BY DEF CliRefreshes, Held
  <2> HIDE DEF n
  <2> QED
    BY <1>1, <2>1, <2>2, NewTokenOrdered DEF n
<1>5. file'.refresh = valid' /\ FromCli'
  BY <1>1 DEF CliRefreshes, FromCli
<1>6. PersistsTheValid' /\ Saved' /\ ValidTokenKept'
  BY <1>5 DEF PersistsTheValid, Saved, ValidTokenKept
<1> QED
  BY <1>1, <1>2, <1>3, <1>4, <1>6, PartsAfter DEF AuthInv

LEMMA IdleStep ==
  ASSUME AuthInv, Elapse \/ UNCHANGED authVars
  PROVE  AuthInv'
<1>1. Clocks'
  BY Types DEF Elapse, authVars, timeVars, providerVars, Clocks
<1>2. UNCHANGED <<source, providerVars, file, db, lock, token, callVars, fetched, faults,
                  excuses>>
  BY DEF Elapse, authVars
<1>3. CallTypes' /\ MutualExclusion' /\ CallsOfTheRunning'
  BY <1>2, Types DEF callVars, CallTypes, AuthInv, MutualExclusion, CallsOfTheRunning
<1>4. TokenPlaces' /\ Flags' /\ Rest'
  BY <1>2, Types DEF callVars, TokenPlaces, Flags, Rest
<1>5. TokensOrdered'
  BY <1>2 DEF AuthInv, TokensOrdered, Held, providerVars
<1>6. Whereabouts'
  BY <1>2, QuietKeepsTokens DEF callVars, providerVars
<1> QED
  BY <1>1, <1>3, <1>4, <1>5, <1>6, PartsAfter DEF AuthInv, Whereabouts
-----------------------------------------------------------------------------
(* The state the code starts in, and the invariant of every execution.     *)
LEMMA Initially == AuthInit => AuthInv
<1> SUFFICES ASSUME AuthInit PROVE AuthInv
  OBVIOUS
<1>1. file \in Tokens /\ file.access = 0 /\ file.refresh = 0
  BY KiroAuthAssumption DEF AuthInit, Token, Tokens
<1>2. CallTypes /\ Flags
  BY DEF AuthInit, CallTypes, Flags, Labels, Inside
<1>3. TokenPlaces /\ Clocks /\ Rest
  BY <1>1, KiroAuthAssumption DEF AuthInit, TokenPlaces, Clocks, Rest, Excuses
<1>4. Held \subseteq {file}
  BY DEF AuthInit, Held
<1>5. TokensOrdered
  BY <1>1, <1>4 DEF AuthInit, TokensOrdered
<1>6. MutualExclusion /\ CallsOfTheRunning
  BY DEF AuthInit, MutualExclusion, CallsOfTheRunning, Inside
<1>7. PersistsTheValid /\ Saved /\ ValidTokenKept
  BY <1>1 DEF AuthInit, PersistsTheValid, Saved, ValidTokenKept
<1> QED
  BY <1>2, <1>3, <1>5, <1>6, <1>7, Parts DEF AuthInv

LEMMA Inductive == AuthInv /\ [AuthNext]_authVars => AuthInv'
BY NewAuthServiceStep, GetAccessTokenStep, ForceRefreshStep, CheckStep, LockAccountStep,
   LockFailsStep, AdoptStep, AdoptFailsStep, RefreshedStep, RefreshLostStep,
   RefusedStep, PersistStep, WriteBackStep, ProfileArrivesStep, CrashStep,
   CliRefreshesStep, IdleStep DEF AuthNext

LEMMA AuthInvAlways == AuthSpec => []AuthInv
BY Initially, Inductive, PTL DEF AuthSpec

(* Every variable keeps its type: among the rest, whoever has the lock of  *)
(* the account refreshes it, with its own mutex held.                      *)
THEOREM TokensKeepTypes == AuthSpec => []AuthTypeOK
<1>1. AuthInv => AuthTypeOK
  BY DEF AuthInv
<1> QED
  BY <1>1, AuthInvAlways, PTL

(* On PostgreSQL the account is never refreshed by two instances at once,  *)
(* whatever fails: this is what store_lock.go is there for.                *)
THEOREM OneRefreshAtATime ==
  AuthSpec => [](Postgres => \A i, j \in Instances : pc[i] \in Inside /\ pc[j] \in Inside => i = j)
<1>1. AuthInv => (Postgres => \A i, j \in Instances : pc[i] \in Inside /\ pc[j] \in Inside => i = j)
  BY Alone
<1> QED
  BY <1>1, AuthInvAlways, PTL

(* The refresh token the provider takes is never out of reach but for the  *)
(* faults ValidTokenKept names: with any number of instances that start,   *)
(* refresh, fetch their profile and crash beside each other and beside     *)
(* kiro-cli.                                                               *)
THEOREM TheValidTokenIsKept == AuthSpec => []ValidTokenKept
<1>1. AuthInv => ValidTokenKept
  BY DEF AuthInv
<1> QED
  BY <1>1, AuthInvAlways, PTL

(* A call for a token never waits for its own mutex or lock.               *)
THEOREM NoCallWaitsForItself == AuthSpec => []NeverWaitsForItself
<1>1. ASSUME AuthInv, NEW i \in Instances, pc[i] \in {"check", "profile"}
      PROVE  ~mu[i] /\ lock # i
  <2>1. ~mu[i]
    BY <1>1 DEF AuthInv, CallsOfTheRunning
  <2>2. lock # i
    BY <1>1, Types, KiroAuthAssumption DEF CallTypes, Inside
  <2> QED
    BY <2>1, <2>2
<1>2. AuthInv => NeverWaitsForItself
  BY <1>1 DEF NeverWaitsForItself
<1> QED
  BY <1>2, AuthInvAlways, PTL
-----------------------------------------------------------------------------
(* Only a call that did not adopt the token of the database requests one.  *)
LEMMA SetsOutByAdopt ==
  ASSUME AuthInv, AuthNext, NEW i \in Instances, pc[i] = "adopt", pc'[i] = "request",
         excuses' = {}
  PROVE  ~Adoptable(i) /\ excuses = {}
<1>1. ASSUME NEW j \in Instances,
             \/ \E ok \in BOOLEAN : Return(j, ok)
             \/ \E l \in Labels : Goto(j, l) /\ (l # "request" \/ i # j)
             \/ pc' = pc
      PROVE  FALSE
  <2>1. CASE \E ok \in BOOLEAN : Return(j, ok)
    BY <2>1, Types DEF Return, CallTypes
  <2>2. CASE \E l \in Labels : Goto(j, l) /\ (l # "request" \/ i # j)
    BY <2>2, Types DEF Goto, CallTypes
  <2> QED
    BY <1>1, <2>1, <2>2
<1>2. ASSUME NEW j \in Instances, NewAuthService(j) \/ Refused(j)
      PROVE  FALSE
  <2>1. pc' = pc \/ \E ok \in BOOLEAN : Return(j, ok)
    BY <1>2 DEF NewAuthService, Refused, callVars
  <2> QED
    BY <1>1, <2>1
<1>3. ASSUME NEW j \in Instances,
             \/ GetAccessToken(j) \/ ForceRefresh(j) \/ LockAccount(j)
             \/ Refreshed(j) \/ Persist(j) \/ ProfileArrives(j)
      PROVE  FALSE
  <2>1. \E l \in Labels : Goto(j, l) /\ l # "request"
    BY <1>3 DEF GetAccessToken, ForceRefresh, LockAccount, Refreshed, Persist,
                ProfileArrives, Labels
  <2> QED
    BY <1>1, <2>1
<1>4. ASSUME NEW j \in Instances, LockFails(j) \/ RefreshLost(j) \/ WriteBack(j)
      PROVE  FALSE
  <2>1. \E ok \in BOOLEAN : Return(j, ok)
    BY <1>4 DEF LockFails, RefreshLost, WriteBack
  <2> QED
    BY <1>1, <2>1
<1>5. ASSUME NEW j \in Instances, Check(j)
      PROVE  FALSE
  <2>1. \/ \E ok \in BOOLEAN : Return(j, ok)
        \/ \E l \in Labels : Goto(j, l) /\ l # "request"
    BY <1>5 DEF Check, Labels
  <2> QED
    BY <1>1, <2>1
<1>6. ASSUME NEW j \in Instances, AdoptFails(j)
      PROVE  FALSE
  BY <1>6 DEF AdoptFails
<1>7. ASSUME NEW j \in Instances, Crash(j)
      PROVE  FALSE
  BY <1>7, Types DEF Crash, CallTypes
<1>8. ~CliRefreshes /\ ~Elapse
  BY DEF CliRefreshes, Elapse, callVars
<1>9. PICK j \in Instances : Adopt(j)
  BY <1>2, <1>3, <1>4, <1>5, <1>6, <1>7, <1>8 DEF AuthNext
<1>10. \/ \E ok \in BOOLEAN : Return(j, ok)
       \/ ~Adoptable(j) /\ Goto(j, "request")
  BY <1>9 DEF Adopt
<1>11. ~Adoptable(j) /\ i = j
  BY <1>1, <1>10 DEF Labels
<1> QED
  BY <1>9, <1>11 DEF Adopt

(* An instance that waits inside the lock with a rotated token faces a     *)
(* token in the database that it would adopt, were it not about to expire, *)
(* or kiro-cli has rotated.                                                *)
LEMMA RotatedInside ==
  ASSUME AuthInv, Postgres, excuses = {}, NEW i \in Instances, pc[i] = "adopt",
         token[i].refresh # valid, ~Adoptable(i)
  PROVE  (db # None /\ ~Fresh(db)) \/ (FromCli /\ file.refresh = valid)
<1>1. token[i] \in Tokens /\ token[i] \in Held
  BY Running DEF Held
<1>2. token[i].refresh \in Nat /\ token[i].access \in Nat /\ token[i].refresh <= valid
  BY <1>1 DEF Tokens, AuthInv, TokensOrdered
<1>3. \A j \in Instances : pc[j] # "persist"
  BY Alone DEF Inside
<1>4. CASE db # None /\ db.refresh = valid
  <2>1. db \in Tokens /\ db \in Held
    BY <1>4, Types DEF Held, TokenPlaces
  <2>2. db.access \in Nat /\ db.refresh \in Nat
    BY <2>1 DEF Tokens
  <2>3. db.access <= token[i].access => db.refresh <= token[i].refresh
    BY <1>1, <2>1 DEF AuthInv, TokensOrdered
  <2>4. ~(db.access <= token[i].access)
    BY <1>2, <1>4, <2>2, <2>3, Types
  <2> QED
    BY <1>2, <1>4, <2>2, <2>4 DEF Adoptable
<1>5. CASE FromCli
  BY <1>3, <1>4, <1>5 DEF AuthInv, ValidTokenKept
<1>6. CASE ~FromCli
  <2>1. valid # 0
    BY <1>2
  <2> QED
    BY <1>3, <1>4, <1>6, <2>1 DEF AuthInv, Saved
<1> QED
  BY <1>5, <1>6

(* The lock and the second look at the database leave two ways only to     *)
(* present a refresh token that was rotated out, if no fault has lost one. *)
THEOREM RotatedOutTokensAreRare == AuthSpec => RotatedOutOnlyNearExpiry
<1> DEFINE Bad(i) == /\ Postgres /\ excuses' = {}
                     /\ pc[i] = "adopt" /\ pc'[i] = "request" /\ token[i].refresh # valid
           Excuse == (db # None /\ ~Fresh(db)) \/ (FromCli /\ file.refresh = valid)
           Step == \A i \in Instances : Bad(i) => Excuse
<1>1. ASSUME AuthInv, [AuthNext]_authVars, NEW i \in Instances, Bad(i)
      PROVE  Excuse
  <2>1. AuthNext
    BY <1>1 DEF authVars, callVars
  <2>2. ~Adoptable(i) /\ excuses = {}
    BY <1>1, <2>1, SetsOutByAdopt
  <2> QED
    BY <1>1, <2>2, RotatedInside
<1>2. AuthInv /\ [AuthNext]_authVars => [Step]_authVars
  BY <1>1
<1>3. AuthSpec => [][Step]_authVars
  BY <1>2, AuthInvAlways, PTL DEF AuthSpec
<1> QED
  BY <1>3, PTL DEF RotatedOutOnlyNearExpiry

-----------------------------------------------------------------------------
(* Induction: a set of numbers that holds 0, and with each number the next,  *)
(* holds them all.                                                           *)

Less == {p \in Nat \X Nat : p[1] < p[2]}

LEMMA LessIsWellFounded == IsWellFoundedOn(Less, Nat)
  BY NatLessThanWellFounded, Zenon DEF OpToRel, Less

LEMMA Induction ==
  ASSUME NEW n \in Nat, NEW T, 0 \in T, \A i \in 0 .. n - 1 : i \in T => i + 1 \in T
  PROVE  \A i \in 0 .. n : i \in T
<1> DEFINE Outside == {i \in 0 .. n : i \notin T}
<1> SUFFICES ASSUME Outside # {}
             PROVE  FALSE
  OBVIOUS
<1>1. Outside \subseteq Nat
  OBVIOUS
<1>2. PICK least \in Outside : \A i \in Outside : ~(<<i, least>> \in Less)
  <2> HIDE DEF Outside
  <2> QED
    BY <1>1, LessIsWellFounded, WFMin
<1>3. least \in 1 .. n /\ least - 1 \in 0 .. n - 1
  OBVIOUS
<1>4. least - 1 \in Outside
  BY <1>3
<1>5. <<least - 1, least>> \in Less
  BY <1>3 DEF Less
<1> QED
  BY <1>2, <1>4, <1>5

(* A recursion over 0 .. n has a solution.                                   *)
Solutions(n, A, base, step) ==
    {f \in [0 .. n -> A] : f[0] = base /\ \A i \in 1 .. n : f[i] = step[<<f[i - 1], i>>]}

LEMMA RecursionSolved ==
  ASSUME NEW n \in Nat, NEW A, NEW base \in A, NEW step \in [A \X (1 .. n) -> A]
  PROVE  Solutions(n, A, base, step) # {}
<1> DEFINE Solved(m) == \E f \in [0 .. m -> A] :
               f[0] = base /\ \A i \in 1 .. m : f[i] = step[<<f[i - 1], i>>]
           T == {m \in 0 .. n : Solved(m)}
<1>1. 0 \in T
  <2> DEFINE f == [i \in 0 .. 0 |-> base]
  <2>1. f \in [0 .. 0 -> A] /\ f[0] = base
    OBVIOUS
  <2>2. Solved(0)
    <3> HIDE DEF f
    <3>1. \A i \in 1 .. 0 : f[i] = step[<<f[i - 1], i>>]
      OBVIOUS
    <3> QED
      BY <2>1, <3>1
  <2> QED
    BY <2>2
<1>2. ASSUME NEW m \in 0 .. n - 1, m \in T
      PROVE  m + 1 \in T
  <2>1. PICK f \in [0 .. m -> A] :
             f[0] = base /\ \A i \in 1 .. m : f[i] = step[<<f[i - 1], i>>]
    BY <1>2
  <2> DEFINE g == [i \in 0 .. m + 1 |-> IF i = m + 1 THEN step[<<f[m], m + 1>>] ELSE f[i]]
  <2>2. f[m] \in A /\ <<f[m], m + 1>> \in A \X (1 .. n)
    BY <1>2
  <2>3. step[<<f[m], m + 1>>] \in A
    BY <2>2
  <2>4. g \in [0 .. m + 1 -> A]
    BY <2>3
  <2>5. g[0] = base
    BY <2>1
  <2>6. ASSUME NEW i \in 1 .. m + 1
        PROVE  g[i] = step[<<g[i - 1], i>>]
    <3>1. CASE i = m + 1
      <4>1. g[m + 1] = step[<<f[m], m + 1>>]
        OBVIOUS
      <4>2. m \in 0 .. m + 1 /\ m # m + 1
        OBVIOUS
      <4>3. g[m] = f[m]
        BY <4>2
      <4>4. i - 1 = m
        BY <3>1
      <4> HIDE DEF g
      <4> QED
        BY <3>1, <4>1, <4>3, <4>4
    <3>2. CASE i \in 1 .. m
      <4>1. g[i] = f[i] /\ g[i - 1] = f[i - 1]
        BY <3>2
      <4> QED
        BY <3>2, <2>1, <4>1
    <3> QED
      BY <3>1, <3>2
  <2>7. Solved(m + 1)
    <3> HIDE DEF g
    <3> QED
      BY <2>4, <2>5, <2>6
  <2> QED
    BY <2>7
<1>3. n \in T
  <2> HIDE DEF T
  <2> QED
    BY <1>1, <1>2, Induction
<1> QED
  BY <1>3 DEF Solutions

-----------------------------------------------------------------------------
(* What FlattenSeq returns holds what the sequences hold.                    *)
LEMMA Flattened ==
  ASSUME NEW S, NEW seqs \in Seq(Seq(S))
  PROVE  /\ FlattenSeq(seqs) \in Seq(S)
         /\ ToSet(FlattenSeq(seqs)) = UNION {ToSet(seqs[i]) : i \in DOMAIN seqs}
<1> DEFINE n == Len(seqs)
<1>1. CASE n = 0
  <2>1. seqs = <<>>
    BY <1>1
  <2> QED
    BY <2>1 DEF FlattenSeq, ToSet
<1>2. CASE n # 0
  <2> DEFINE Body(f) == [i \in 1 .. n |-> IF i = 1 THEN seqs[i] ELSE f[i - 1] \o seqs[i]]
             flatten == CHOOSE f : f = Body(f)
             step == [p \in Seq(S) \X (1 .. n) |-> p[1] \o seqs[p[2]]]
  <2>0. n \in Nat /\ n >= 1 /\ DOMAIN seqs = 1 .. n /\ \A i \in 1 .. n : seqs[i] \in Seq(S)
    BY <1>2
  <2>1. step \in [Seq(S) \X (1 .. n) -> Seq(S)]
    BY <2>0
  <2>2. PICK f : /\ f \in [0 .. n -> Seq(S)]
                 /\ f[0] = <<>> /\ \A i \in 1 .. n : f[i] = step[<<f[i - 1], i>>]
    <3> DEFINE A == Seq(S)
               base == <<>>
    <3>1. base \in A /\ step \in [A \X (1 .. n) -> A] /\ n \in Nat
      BY <2>0, <2>1
    <3> HIDE DEF step, n, A, base
    <3>2. Solutions(n, A, base, step) # {}
      BY <3>1, RecursionSolved
    <3> QED
      BY <3>2 DEF A, base, Solutions
  <2>3. ASSUME NEW i \in 1 .. n
        PROVE  f[i] = f[i - 1] \o seqs[i]
    <3>1. i - 1 \in 0 .. n
      BY <2>0
    <3>2. <<f[i - 1], i>> \in Seq(S) \X (1 .. n)
      BY <2>2, <3>1
    <3>3. step[<<f[i - 1], i>>] = f[i - 1] \o seqs[i]
      BY <3>2
    <3> QED
      BY <2>2, <3>3
  <2>4. f[1] = seqs[1]
    <3>1. 1 \in 1 .. n /\ 1 - 1 = 0
      BY <2>0
    <3>2. f[1] = f[0] \o seqs[1] /\ seqs[1] \in Seq(S)
      <4> HIDE DEF n
      <4> QED
        BY <2>0, <2>3, <3>1
    <3> QED
      BY <2>2, <3>2
  <2> DEFINE h == [i \in 1 .. n |-> f[i]]
  <2>5. h = Body(h)
    <3>1. ASSUME NEW i \in 1 .. n
          PROVE  h[i] = IF i = 1 THEN seqs[i] ELSE h[i - 1] \o seqs[i]
      <4>1. CASE i = 1
        BY <4>1, <2>4
      <4>2. CASE i # 1
        <5>1. i - 1 \in 1 .. n
          BY <4>2, <2>0
        <5>2. h[i - 1] = f[i - 1] /\ h[i] = f[i]
          BY <5>1
        <5> HIDE DEF h
        <5> QED
          BY <4>2, <5>2, <2>3
      <4> QED
        BY <4>1, <4>2
    <3> HIDE DEF n
    <3>2. h = [i \in 1 .. n |-> h[i]]
      OBVIOUS
    <3> HIDE DEF h
    <3> QED
      BY <3>1, <3>2
  <2>6. flatten = Body(flatten)
    <3> HIDE DEF Body
    <3> QED
      BY <2>5
  <2>7. FlattenSeq(seqs) = flatten[n]
    BY <1>2 DEF FlattenSeq
  <2> HIDE DEF flatten
  <2>8. flatten[1] = seqs[1] /\ \A i \in 2 .. n : flatten[i] = flatten[i - 1] \o seqs[i]
    <3> HIDE DEF n
    <3>1. \A i \in 1 .. n : flatten[i] = IF i = 1 THEN seqs[i] ELSE flatten[i - 1] \o seqs[i]
      BY <2>6
    <3>2. 1 \in 1 .. n /\ \A i \in 2 .. n : i \in 1 .. n /\ i # 1
      BY <2>0
    <3> QED
      BY <3>1, <3>2
  <2> DEFINE Union(i) == UNION {ToSet(seqs[j]) : j \in 1 .. i}
             Good(i) == flatten[i] \in Seq(S) /\ ToSet(flatten[i]) = Union(i)
             T == {i \in 0 .. n : i = 0 \/ Good(i)}
  <2>9. ASSUME NEW i \in 0 .. n - 1, i \in T
        PROVE  i + 1 \in T
    <3>1. CASE i = 0
      BY <3>1, <2>0, <2>8
    <3>2. CASE i # 0
      <4>1. flatten[i] \in Seq(S) /\ ToSet(flatten[i]) = Union(i)
        BY <2>9, <3>2
      <4>2. flatten[i + 1] = flatten[i] \o seqs[i + 1] /\ seqs[i + 1] \in Seq(S)
        <5>1. i + 1 \in 2 .. n /\ (i + 1) - 1 = i /\ i + 1 \in 1 .. n
          BY <3>2, <2>0
        <5> HIDE DEF n
        <5> QED
          BY <5>1, <2>0, <2>8
      <4>3. flatten[i + 1] \in Seq(S)
        BY <4>1, <4>2
      <4>4. ToSet(flatten[i + 1]) = ToSet(flatten[i]) \cup ToSet(seqs[i + 1])
        <5> HIDE DEF Union
        <5>1. ASSUME NEW a \in Seq(S), NEW b \in Seq(S)
              PROVE  ToSet(a \o b) = ToSet(a) \cup ToSet(b)
          <6>1. ToSet(a \o b) \subseteq ToSet(a) \cup ToSet(b)
            BY DEF ToSet
          <6>2. \A j \in DOMAIN a : j \in DOMAIN (a \o b) /\ (a \o b)[j] = a[j]
            OBVIOUS
          <6>3. \A j \in DOMAIN b : Len(a) + j \in DOMAIN (a \o b) /\ (a \o b)[Len(a) + j] = b[j]
            OBVIOUS
          <6>4. ToSet(a) \subseteq ToSet(a \o b)
            BY <6>2 DEF ToSet
          <6>5. ToSet(b) \subseteq ToSet(a \o b)
            BY <6>3 DEF ToSet
          <6> QED
            BY <6>1, <6>4, <6>5
        <5> QED
          BY <4>1, <4>2, <5>1
      <4>5. Union(i + 1) = Union(i) \cup ToSet(seqs[i + 1])
        <5>1. 1 .. i + 1 = (1 .. i) \cup {i + 1}
          BY <3>2
        <5> QED
          BY <5>1, Zenon
      <4>6. Good(i + 1) /\ i + 1 \in 0 .. n
        <5> HIDE DEF Union
        <5> QED
          BY <4>1, <4>3, <4>4, <4>5, <2>0
      <4> QED
        BY <4>6
    <3> QED
      BY <3>1, <3>2
  <2>10. n \in T
    <3>1. 0 \in T
      BY <2>0
    <3> HIDE DEF T, n
    <3>2. \A i \in 0 .. n : i \in T
      BY <2>0, <2>9, <3>1, Induction
    <3> QED
      BY <2>0, <3>2
  <2> QED
    BY <1>2, <2>0, <2>7, <2>10
<1> QED
  BY <1>1, <1>2

-----------------------------------------------------------------------------
(* What the parser passes on: the frames of a chunk in their order, without  *)
(* the contents it has just passed on and those that do not parse.           *)

Parsers == [last : Nat, out : Seq(FrameType)]

RisingFrames(fs, kind) ==
    \A i, j \in DOMAIN fs : i < j /\ fs[i].kind = kind /\ fs[j].kind = kind => fs[i].n < fs[j].n

Ordered(last, chunk) ==
    /\ \A i \in DOMAIN chunk : chunk[i].kind = "content" => last <= chunk[i].n
    /\ \A i, j \in DOMAIN chunk :
          i < j /\ chunk[i].kind = "content" /\ chunk[j].kind = "content" =>
              /\ chunk[i].n <= chunk[j].n
              /\ chunk[i].n = chunk[j].n => chunk[i] = chunk[j]
    /\ RisingFrames(chunk, "thinking")

Kept(last, f, out) ==
    \/ \E k \in DOMAIN out : out[k] = f
    \/ f.kind = "content" /\ f.n = last
    \/ f = Garbled

Dropped(parser, f) == f = Garbled \/ (f.kind = "content" /\ f.n = parser.last)

(* the parser after the first m frames of a chunk *)
Passed(last, chunk, m, parser) ==
    /\ parser \in Parsers
    /\ \A k \in DOMAIN parser.out : \E j \in 1 .. m : parser.out[k] = chunk[j]
    /\ \A j \in 1 .. m : Kept(last, chunk[j], parser.out)
    /\ \A k \in DOMAIN parser.out :
          parser.out[k].kind = "content" => last < parser.out[k].n /\ parser.out[k].n <= parser.last
    /\ RisingFrames(parser.out, "content")
    /\ RisingFrames(parser.out, "thinking")
    /\ last <= parser.last
    /\ \A j \in 1 .. m : chunk[j].kind = "content" => chunk[j].n <= parser.last
    /\ \/ parser.last = last
       \/ \E j \in 1 .. m : chunk[j].kind = "content" /\ chunk[j].n = parser.last

LEMMA ClassifyType ==
  ASSUME NEW p \in Parsers, NEW f \in FrameType
  PROVE  classify(p, f) \in Parsers
  BY DEF classify, Parsers, FrameType

LEMMA ClassifyPasses ==
  ASSUME NEW last \in Nat, NEW chunk \in Seq(FrameType), Ordered(last, chunk),
         NEW m \in 0 .. Len(chunk) - 1, NEW p, Passed(last, chunk, m, p)
  PROVE  Passed(last, chunk, m + 1, classify(p, chunk[m + 1]))
<1> DEFINE f == chunk[m + 1]
           q == classify(p, f)
<1>1. /\ m + 1 \in DOMAIN chunk /\ f \in FrameType /\ f.n \in Nat
      /\ \A j \in 1 .. m : j \in DOMAIN chunk /\ j < m + 1 /\ chunk[j] \in FrameType
                       /\ chunk[j].n \in Nat
      /\ \A j \in 1 .. m + 1 : j \in 1 .. m \/ j = m + 1
      /\ 1 .. m \subseteq 1 .. m + 1 /\ m + 1 \in 1 .. m + 1
  <2>1. DOMAIN chunk = 1 .. Len(chunk) /\ Len(chunk) \in Nat
    OBVIOUS
  <2>2. m + 1 \in DOMAIN chunk
    BY <2>1
  <2>3. \A j \in DOMAIN chunk : chunk[j] \in FrameType
    OBVIOUS
  <2>4. \A g \in FrameType : g.n \in Nat
    BY DEF FrameType
  <2>5. \A j \in 1 .. m : j \in DOMAIN chunk /\ j < m + 1
    BY <2>1
  <2>6. \A j \in 1 .. m + 1 : j \in 1 .. m \/ j = m + 1
    OBVIOUS
  <2>7. 1 .. m \subseteq 1 .. m + 1 /\ m + 1 \in 1 .. m + 1
    OBVIOUS
  <2> QED
    BY <2>2, <2>3, <2>4, <2>5, <2>6, <2>7
<1>2. p \in Parsers /\ p.last \in Nat /\ p.out \in Seq(FrameType)
  BY DEF Passed, Parsers
<1>3. q \in Parsers
  BY <1>1, <1>2, ClassifyType
<1>4. CASE Dropped(p, f)
  <2>1. q = p
    BY <1>4 DEF classify, Dropped
  <2>2. Kept(last, f, p.out)
    <3>1. CASE f = Garbled \/ p.last = last
      BY <1>4, <3>1 DEF Kept, Dropped
    <3>2. CASE f # Garbled /\ p.last # last
      <4>1. PICK j \in 1 .. m : chunk[j].kind = "content" /\ chunk[j].n = p.last
        BY <3>2 DEF Passed
      <4>2. chunk[j] = f
        BY <3>2, <4>1, <1>1, <1>4 DEF Ordered, Dropped
      <4>3. Kept(last, chunk[j], p.out)
        BY <4>1 DEF Passed
      <4> QED
        BY <4>2, <4>3
    <3> QED
      BY <3>1, <3>2
  <2> HIDE DEF q
  <2>3. \A k \in DOMAIN p.out : \E j \in 1 .. m + 1 : p.out[k] = chunk[j]
    BY <1>1 DEF Passed
  <2>4. \A j \in 1 .. m + 1 : Kept(last, chunk[j], p.out)
    <3>1. \A j \in 1 .. m : Kept(last, chunk[j], p.out)
      BY DEF Passed
    <3>2. ASSUME NEW j \in 1 .. m + 1
          PROVE  Kept(last, chunk[j], p.out)
      <4>1. CASE j \in 1 .. m
        BY <4>1, <3>1
      <4>2. CASE j = m + 1
        BY <4>2, <2>2
      <4> QED
        BY <4>1, <4>2, <1>1
    <3> QED
      BY <3>2
  <2>5. \A j \in 1 .. m + 1 : chunk[j].kind = "content" => chunk[j].n <= p.last
    <3>1. f.kind = "content" => f.n <= p.last
      <4>1. Garbled.kind # "content"
        BY DEF Garbled, Frame
      <4> QED
        BY <1>1, <1>2, <1>4, <4>1 DEF Dropped
    <3> QED
      BY <3>1, <1>1 DEF Passed
  <2>6. \/ p.last = last
        \/ \E j \in 1 .. m + 1 : chunk[j].kind = "content" /\ chunk[j].n = p.last
    BY <1>1 DEF Passed
  <2>7. Passed(last, chunk, m + 1, p)
    BY <2>3, <2>4, <2>5, <2>6 DEF Passed
  <2> QED
    BY <2>1, <2>7 DEF q
<1>5. CASE ~Dropped(p, f)
  <2>1. /\ q.out = Append(p.out, f)
        /\ q.last = IF f.kind = "content" THEN f.n ELSE p.last
    BY <1>5 DEF classify, Dropped
  <2> HIDE DEF q
  <2>2. /\ Len(q.out) = Len(p.out) + 1 /\ DOMAIN q.out = 1 .. Len(p.out) + 1
        /\ \A k \in DOMAIN p.out : q.out[k] = p.out[k] /\ k \in DOMAIN q.out /\ k < Len(p.out) + 1
        /\ q.out[Len(p.out) + 1] = f /\ Len(p.out) + 1 \in DOMAIN q.out
        /\ \A k \in DOMAIN q.out : k \in DOMAIN p.out \/ k = Len(p.out) + 1
        /\ Len(p.out) \in Nat
    BY <2>1, <1>1, <1>2
  <2>3. f.kind = "content" => last <= f.n /\ p.last < f.n
    <3>1. ASSUME f.kind = "content" PROVE last <= f.n /\ p.last <= f.n
      <4>1. last <= f.n
        BY <3>1, <1>1 DEF Ordered
      <4>2. p.last <= f.n
        BY <3>1, <4>1, <1>1 DEF Passed, Ordered
      <4> QED
        BY <4>1, <4>2
    <3> QED
      BY <3>1, <1>1, <1>2, <1>5 DEF Dropped
  <2>4. \A k \in DOMAIN q.out : \E j \in 1 .. m + 1 : q.out[k] = chunk[j]
    BY <2>2, <1>1 DEF Passed
  <2>5. \A j \in 1 .. m + 1 : Kept(last, chunk[j], q.out)
    <3>1. \A j \in 1 .. m : Kept(last, chunk[j], p.out)
      BY DEF Passed
    <3>2. ASSUME NEW j \in 1 .. m + 1
          PROVE  Kept(last, chunk[j], q.out)
      <4>1. CASE j \in 1 .. m
        BY <4>1, <3>1, <2>2 DEF Kept
      <4>2. CASE j = m + 1
        BY <4>2, <2>2 DEF Kept
      <4> QED
        BY <4>1, <4>2, <1>1
    <3> QED
      BY <3>2
  <2>6. last <= p.last
    BY DEF Passed
  <2>7. \A k \in DOMAIN p.out : p.out[k].n \in Nat
    <3>1. \A k \in DOMAIN p.out : p.out[k] \in FrameType
      BY <1>2
    <3> QED
      BY <3>1 DEF FrameType
  <2>8. \A k \in DOMAIN q.out :
          q.out[k].kind = "content" => last < q.out[k].n /\ q.out[k].n <= q.last
    <3> SUFFICES ASSUME NEW k \in DOMAIN q.out, q.out[k].kind = "content"
                 PROVE  last < q.out[k].n /\ q.out[k].n <= q.last
      OBVIOUS
    <3>1. CASE k \in DOMAIN p.out
      <4>1. last < p.out[k].n /\ p.out[k].n <= p.last
        BY <3>1, <2>2 DEF Passed
      <4> QED
        BY <4>1, <3>1, <2>1, <2>2, <2>3, <2>7, <1>1, <1>2
    <3>2. CASE k = Len(p.out) + 1
      BY <3>2, <2>1, <2>2, <2>3, <2>6, <1>1, <1>2
    <3> QED
      BY <3>1, <3>2, <2>2
  <2>9. RisingFrames(q.out, "content")
    <3>1. \A k \in DOMAIN p.out : p.out[k].kind = "content" => p.out[k].n <= p.last
      BY DEF Passed
    <3>2. RisingFrames(p.out, "content")
      BY DEF Passed
    <3> SUFFICES ASSUME NEW i \in DOMAIN q.out, NEW j \in DOMAIN q.out, i < j,
                        q.out[i].kind = "content", q.out[j].kind = "content"
                 PROVE  q.out[i].n < q.out[j].n
      BY DEF RisingFrames
    <3>3. i \in DOMAIN p.out
      BY <2>2
    <3>4. CASE j \in DOMAIN p.out
      BY <3>2, <3>3, <3>4, <2>2 DEF RisingFrames
    <3>5. CASE j = Len(p.out) + 1
      <4>1. p.out[i].n <= p.last /\ p.out[i].n \in Nat /\ q.out[i] = p.out[i] /\ q.out[j] = f
        BY <3>1, <3>3, <3>5, <2>2, <2>7
      <4> QED
        BY <4>1, <2>3, <1>1, <1>2
    <3> QED
      BY <3>4, <3>5, <2>2
  <2>10. RisingFrames(q.out, "thinking")
    <3>1. \A k \in DOMAIN p.out : p.out[k].kind = "thinking" /\ f.kind = "thinking" => p.out[k].n < f.n
      <4>1. \A k \in DOMAIN p.out : \E j \in 1 .. m : p.out[k] = chunk[j]
        BY DEF Passed
      <4>2. RisingFrames(chunk, "thinking")
        BY DEF Ordered
      <4> QED
        BY <4>1, <4>2, <1>1 DEF RisingFrames
    <3>2. RisingFrames(p.out, "thinking")
      BY DEF Passed
    <3> SUFFICES ASSUME NEW i \in DOMAIN q.out, NEW j \in DOMAIN q.out, i < j,
                        q.out[i].kind = "thinking", q.out[j].kind = "thinking"
                 PROVE  q.out[i].n < q.out[j].n
      BY DEF RisingFrames
    <3>3. i \in DOMAIN p.out
      BY <2>2
    <3>4. CASE j \in DOMAIN p.out
      BY <3>2, <3>3, <3>4, <2>2 DEF RisingFrames
    <3>5. CASE j = Len(p.out) + 1
      BY <3>1, <3>3, <3>5, <2>2
    <3> QED
      BY <3>4, <3>5, <2>2
  <2>11. last <= q.last
    BY <2>1, <2>3, <2>6
  <2>12. \A j \in 1 .. m + 1 : chunk[j].kind = "content" => chunk[j].n <= q.last
    BY <2>1, <2>3, <1>1, <1>2 DEF Passed
  <2>13. \/ q.last = last
         \/ \E j \in 1 .. m + 1 : chunk[j].kind = "content" /\ chunk[j].n = q.last
    BY <2>1, <1>1 DEF Passed
  <2> QED
    BY <1>3, <2>4, <2>5, <2>8, <2>9, <2>10, <2>11, <2>12, <2>13 DEF Passed, q
<1> QED
  BY <1>4, <1>5

LEMMA FedInOrder ==
  ASSUME NEW last \in Nat, NEW chunk \in Seq(FrameType)
  PROVE  \E fed \in [0 .. Len(chunk) -> Parsers] :
            /\ fed[0] = [last |-> last, out |-> <<>>] /\ fed[Len(chunk)] = feed(last, chunk)
            /\ \A i \in 1 .. Len(chunk) : fed[i] = classify(fed[i - 1], chunk[i])
<1> DEFINE n == Len(chunk)
           start == [last |-> last, out |-> <<>>]
           Body(f) == [i \in 0 .. n |-> IF i = 0 THEN start ELSE classify(f[i - 1], chunk[i])]
           fed == CHOOSE f : f = Body(f)
           step == [p \in Parsers \X (1 .. n) |-> classify(p[1], chunk[p[2]])]
<1>1. n \in Nat /\ DOMAIN chunk = 1 .. n /\ \A i \in 1 .. n : chunk[i] \in FrameType
  OBVIOUS
<1>2. start \in Parsers
  BY DEF Parsers
<1>3. step \in [Parsers \X (1 .. n) -> Parsers]
  <2>1. ASSUME NEW p \in Parsers \X (1 .. n)
        PROVE  classify(p[1], chunk[p[2]]) \in Parsers
    <3>1. p[1] \in Parsers /\ chunk[p[2]] \in FrameType
      BY <1>1
    <3> QED
      BY <3>1, ClassifyType
  <2> QED
    BY <2>1
<1>4. PICK f : /\ f \in [0 .. n -> Parsers]
               /\ f[0] = start /\ \A i \in 1 .. n : f[i] = step[<<f[i - 1], i>>]
  <2> HIDE DEF step, n, start
  <2>1. Solutions(n, Parsers, start, step) # {}
    BY <1>1, <1>2, <1>3, RecursionSolved
  <2> QED
    BY <2>1 DEF Solutions
<1>5. ASSUME NEW i \in 1 .. n
      PROVE  f[i] = classify(f[i - 1], chunk[i])
  <2>1. i - 1 \in 0 .. n
    BY <1>1
  <2>2. <<f[i - 1], i>> \in Parsers \X (1 .. n)
    BY <1>4, <2>1
  <2>3. step[<<f[i - 1], i>>] = classify(f[i - 1], chunk[i])
    BY <2>2
  <2> QED
    BY <1>4, <2>3
<1>6. f = Body(f)
  <2>1. ASSUME NEW i \in 0 .. n
        PROVE  f[i] = IF i = 0 THEN start ELSE classify(f[i - 1], chunk[i])
    <3>1. CASE i = 0
      BY <3>1, <1>4
    <3>2. CASE i # 0
      <4>1. i \in 1 .. n
        BY <3>2
      <4> QED
        BY <3>2, <4>1, <1>5
    <3> QED
      BY <3>1, <3>2
  <2>2. f = [i \in 0 .. n |-> f[i]]
    BY <1>4
  <2> HIDE DEF n, start
  <2> QED
    BY <2>1, <2>2
<1>7. fed = Body(fed)
  <2> HIDE DEF Body
  <2> QED
    BY <1>6
<1>8. feed(last, chunk) = fed[n]
  BY DEF feed
<1>9. DOMAIN fed = 0 .. n /\ fed = [i \in 0 .. n |-> fed[i]]
  <2> HIDE DEF fed
  <2>1. DOMAIN fed = 0 .. n
    BY <1>7
  <2>2. fed = [i \in 0 .. n |-> IF i = 0 THEN start ELSE classify(fed[i - 1], chunk[i])]
    BY <1>7
  <2> HIDE DEF n, start, Body
  <2> QED
    BY <2>1, <2>2
<1> HIDE DEF fed
<1>10. fed[0] = start /\ \A i \in 1 .. n : fed[i] = classify(fed[i - 1], chunk[i])
  <2> HIDE DEF n, start
  <2>1. \A i \in 0 .. n : fed[i] = IF i = 0 THEN start ELSE classify(fed[i - 1], chunk[i])
    BY <1>7
  <2>2. 0 \in 0 .. n /\ \A i \in 1 .. n : i \in 0 .. n /\ i # 0
    BY <1>1
  <2> QED
    BY <2>1, <2>2
<1> HIDE DEF n, start, step, Body
<1> DEFINE T == {i \in 0 .. n : fed[i] \in Parsers}
<1>11. 0 \in T
  BY <1>1, <1>2, <1>10
<1>12. ASSUME NEW i \in 0 .. n - 1, i \in T
       PROVE  i + 1 \in T
  <2>1. i + 1 \in 1 .. n /\ (i + 1) - 1 = i /\ i + 1 \in 0 .. n
    BY <1>1
  <2>2. fed[i + 1] = classify(fed[i], chunk[i + 1])
    BY <2>1, <1>10
  <2>3. fed[i] \in Parsers /\ chunk[i + 1] \in FrameType
    BY <1>12, <2>1, <1>1
  <2> QED
    BY <2>1, <2>2, <2>3, ClassifyType
<1>13. \A i \in 0 .. n : i \in T
  <2> HIDE DEF T
  <2> QED
    BY <1>1, <1>11, <1>12, Induction
<1>14. fed \in [0 .. n -> Parsers]
  BY <1>9, <1>13
<1> QED
  BY <1>8, <1>10, <1>14 DEF n, start

LEMMA FeedPasses ==
  ASSUME NEW last \in Nat, NEW chunk \in Seq(FrameType)
  PROVE  /\ feed(last, chunk) \in Parsers
         /\ Ordered(last, chunk) => Passed(last, chunk, Len(chunk), feed(last, chunk))
<1> DEFINE n == Len(chunk)
<1>1. n \in Nat /\ DOMAIN chunk = 1 .. n /\ \A i \in 1 .. n : chunk[i] \in FrameType
  OBVIOUS
<1>2. PICK fed \in [0 .. n -> Parsers] :
           /\ fed[0] = [last |-> last, out |-> <<>>] /\ fed[n] = feed(last, chunk)
           /\ \A i \in 1 .. n : fed[i] = classify(fed[i - 1], chunk[i])
  BY FedInOrder
<1> HIDE DEF n
<1>3. ASSUME Ordered(last, chunk)
       PROVE  Passed(last, chunk, n, feed(last, chunk))
  <2> DEFINE T == {i \in 0 .. n : Passed(last, chunk, i, fed[i])}
  <2>1. 0 \in T
    <3>1. Passed(last, chunk, 0, [last |-> last, out |-> <<>>])
      BY <1>2 DEF Passed, RisingFrames, Parsers
    <3> QED
      BY <3>1, <1>1, <1>2
  <2>2. ASSUME NEW i \in 0 .. n - 1, i \in T
        PROVE  i + 1 \in T
    <3>1. i + 1 \in 1 .. n /\ (i + 1) - 1 = i /\ i + 1 \in 0 .. n
      BY <1>1
    <3>2. fed[i + 1] = classify(fed[i], chunk[i + 1])
      BY <3>1, <1>2
    <3>3. Passed(last, chunk, i, fed[i])
      BY <2>2
    <3>4. Passed(last, chunk, i + 1, classify(fed[i], chunk[i + 1]))
      BY <1>3, <3>3, ClassifyPasses DEF n
    <3> QED
      BY <3>1, <3>2, <3>4
  <2>3. n \in T
    <3> HIDE DEF T
    <3>1. \A i \in 0 .. n : i \in T
      BY <1>1, <2>1, <2>2, Induction
    <3> QED
      BY <1>1, <3>1
  <2> QED
    BY <2>3, <1>2
<1> QED
  BY <1>1, <1>2, <1>3 DEF n

-----------------------------------------------------------------------------
(* What a sequence of events tells: the numbers of the deltas written where  *)
(* a block of a kind was opened.                                             *)

DeltasIn(s, kind) ==
    {i \in DOMAIN s : s[i].ev = "delta" /\ \E j \in DOMAIN s : s[j].ev = kind /\ s[j].at = s[i].at}
NumbersIn(s, kind) == {s[i].x[1] : i \in DeltasIn(s, kind)}
Rising(s, kind) == \A i, j \in DeltasIn(s, kind) : i < j => s[i].x[1] < s[j].x[1]

BlockKinds == {"text", "thinking"}
Quiet(q) == \A i \in DOMAIN q : q[i].ev \notin {"text", "thinking", "delta", "message_stop", "error", "tool"}
Closing(q) == \A i \in DOMAIN q : q[i].ev \notin {"text", "thinking", "delta", "message_stop", "error"}

LEMMA EventsTyped ==
  /\ \A ev \in {"message_start", "text", "thinking", "delta", "signature", "stop", "tool", "error"} :
        \A at \in Nat : \A x \in Seq(Int) : Event(ev, at, x) \in EventType
  /\ \A at \in Nat : \A x \in Pieces : Event("input", at, x) \in EventType
  /\ \A at \in Nat : \A x \in Seq(StopReasons) : Event("message_delta", at, x) \in EventType
  /\ \A at \in Nat : \A x \in Reports : Event("message_stop", at, x) \in EventType
<1>1. \A ev \in {"message_start", "text", "thinking", "delta", "signature", "stop", "tool", "error"} :
        \A at \in Nat : \A x \in Seq(Int) : Event(ev, at, x) \in EventType
  BY DEF Event, EventType
<1>2. \A at \in Nat : \A x \in Pieces : Event("input", at, x) \in EventType
  BY DEF Event, EventType
<1>3. \A at \in Nat : \A x \in Seq(StopReasons) : Event("message_delta", at, x) \in EventType
  BY DEF Event, EventType
<1>4. \A at \in Nat : \A x \in Reports : Event("message_stop", at, x) \in EventType
  BY DEF Event, EventType
<1> QED
  BY <1>1, <1>2, <1>3, <1>4

LEMMA Appended ==
  ASSUME NEW s \in Seq(EventType), NEW q \in Seq(EventType)
  PROVE  /\ s \o q \in Seq(EventType)
         /\ \A i \in DOMAIN s : i \in DOMAIN (s \o q) /\ (s \o q)[i] = s[i]
         /\ \A i \in DOMAIN q : Len(s) + i \in DOMAIN (s \o q) /\ (s \o q)[Len(s) + i] = q[i]
         /\ \A i \in DOMAIN (s \o q) :
               \/ i \in DOMAIN s
               \/ i - Len(s) \in DOMAIN q /\ (s \o q)[i] = q[i - Len(s)]
<1>1. /\ s \o q \in Seq(EventType)
      /\ \A i \in DOMAIN s : i \in DOMAIN (s \o q) /\ (s \o q)[i] = s[i]
  OBVIOUS
<1>2. \A i \in DOMAIN q : Len(s) + i \in DOMAIN (s \o q) /\ (s \o q)[Len(s) + i] = q[i]
  OBVIOUS
<1>3. \A i \in DOMAIN (s \o q) :
         \/ i \in DOMAIN s
         \/ i - Len(s) \in DOMAIN q /\ (s \o q)[i] = q[i - Len(s)]
  OBVIOUS
<1> QED
  BY <1>1, <1>2, <1>3

(* Silent events add no delta.                                               *)
Silent(q) == \A i \in DOMAIN q : q[i].ev \notin {"text", "thinking", "delta"}

LEMMA SilentTellsNothing ==
  ASSUME NEW s \in Seq(EventType), NEW q \in Seq(EventType), Silent(q), NEW kind \in BlockKinds
  PROVE  /\ NumbersIn(s \o q, kind) = NumbersIn(s, kind)
         /\ Rising(s, kind) => Rising(s \o q, kind)
<1> DEFINE t == s \o q
<1>1. /\ \A i \in DOMAIN s : i \in DOMAIN t /\ t[i] = s[i]
      /\ \A i \in DOMAIN t :
            \/ i \in DOMAIN s
            \/ i - Len(s) \in DOMAIN q /\ t[i] = q[i - Len(s)]
  BY Appended
<1> HIDE DEF t
<1>2. \A i \in DOMAIN t : t[i].ev \in {"text", "thinking", "delta"} => i \in DOMAIN s
  BY <1>1 DEF Silent
<1>3. DeltasIn(t, kind) = DeltasIn(s, kind)
  <2>1. \A i \in DeltasIn(s, kind) : i \in DeltasIn(t, kind)
    BY <1>1 DEF DeltasIn
  <2>2. \A i \in DeltasIn(t, kind) : i \in DeltasIn(s, kind)
    BY <1>1, <1>2 DEF DeltasIn, BlockKinds
  <2> QED
    BY <2>1, <2>2
<1>4. \A i \in DeltasIn(s, kind) : t[i] = s[i]
  BY <1>1 DEF DeltasIn
<1>5. NumbersIn(t, kind) = NumbersIn(s, kind)
  BY <1>3, <1>4 DEF NumbersIn
<1>6. Rising(s, kind) => Rising(t, kind)
  BY <1>3, <1>4 DEF Rising
<1> QED
  BY <1>5, <1>6 DEF t

LEMMA OneMore ==
  ASSUME NEW s \in Seq(EventType), NEW e \in EventType
  PROVE  /\ s \o <<e>> \in Seq(EventType)
         /\ \A i \in DOMAIN s : /\ i \in DOMAIN (s \o <<e>>) /\ (s \o <<e>>)[i] = s[i]
                             /\ i < Len(s) + 1 /\ i \in Nat
         /\ Len(s) + 1 \in DOMAIN (s \o <<e>>) /\ (s \o <<e>>)[Len(s) + 1] = e
         /\ \A i \in DOMAIN (s \o <<e>>) : i \in DOMAIN s \/ i = Len(s) + 1
         /\ Len(s) + 1 \in Nat
  OBVIOUS

(* A block opened at a new place adds no delta either.                       *)
LEMMA OpeningTellsNothing ==
  ASSUME NEW s \in Seq(EventType), NEW e \in EventType, e.ev \in BlockKinds,
         \A i \in DOMAIN s : s[i].ev = "delta" => s[i].at # e.at, NEW kind \in BlockKinds
  PROVE  /\ NumbersIn(s \o <<e>>, kind) = NumbersIn(s, kind)
         /\ Rising(s, kind) => Rising(s \o <<e>>, kind)
<1> DEFINE t == s \o <<e>>
<1>1. /\ \A i \in DOMAIN s : i \in DOMAIN t /\ t[i] = s[i]
      /\ Len(s) + 1 \in DOMAIN t /\ t[Len(s) + 1] = e
      /\ \A i \in DOMAIN t : i \in DOMAIN s \/ i = Len(s) + 1
  BY OneMore
<1> HIDE DEF t
<1>2. DeltasIn(t, kind) = DeltasIn(s, kind)
  <2>1. \A i \in DeltasIn(s, kind) : i \in DeltasIn(t, kind)
    BY <1>1 DEF DeltasIn
  <2>2. \A i \in DeltasIn(t, kind) : i \in DeltasIn(s, kind)
    <3> SUFFICES ASSUME NEW i \in DeltasIn(t, kind)
                 PROVE  i \in DeltasIn(s, kind)
      OBVIOUS
    <3>1. PICK j \in DOMAIN t : t[j].ev = kind /\ t[j].at = t[i].at
      BY DEF DeltasIn
    <3>2. i \in DOMAIN t /\ t[i].ev = "delta"
      BY DEF DeltasIn
    <3>3. i \in DOMAIN s /\ t[i] = s[i]
      BY <1>1, <3>2 DEF BlockKinds
    <3>4. j \in DOMAIN s
      BY <1>1, <3>1, <3>2, <3>3
    <3> QED
      BY <1>1, <3>1, <3>2, <3>3, <3>4 DEF DeltasIn
  <2> QED
    BY <2>1, <2>2
<1>3. \A i \in DeltasIn(s, kind) : t[i] = s[i]
  BY <1>1 DEF DeltasIn
<1>4. NumbersIn(t, kind) = NumbersIn(s, kind)
  BY <1>2, <1>3 DEF NumbersIn
<1>5. Rising(s, kind) => Rising(t, kind)
  BY <1>2, <1>3 DEF Rising
<1> QED
  BY <1>4, <1>5 DEF t

(* A delta of a block tells its number, and only for the kind of the block.  *)
LEMMA DeltaTells ==
  ASSUME NEW s \in Seq(EventType), NEW e \in EventType, e.ev = "delta", NEW kind \in BlockKinds
  PROVE  /\ (\E i \in DOMAIN s : s[i].ev = kind /\ s[i].at = e.at) =>
               /\ NumbersIn(s \o <<e>>, kind) = NumbersIn(s, kind) \cup {e.x[1]}
               /\ Rising(s, kind) /\ (\A m \in NumbersIn(s, kind) : m < e.x[1]) =>
                     Rising(s \o <<e>>, kind)
         /\ (\A i \in DOMAIN s : s[i].ev = kind => s[i].at # e.at) =>
               /\ NumbersIn(s \o <<e>>, kind) = NumbersIn(s, kind)
               /\ Rising(s, kind) => Rising(s \o <<e>>, kind)
<1> DEFINE t == s \o <<e>>
           l == Len(s) + 1
<1>1. /\ \A i \in DOMAIN s : i \in DOMAIN t /\ t[i] = s[i] /\ i < l /\ i \in Nat
      /\ l \in DOMAIN t /\ t[l] = e /\ l \in Nat
      /\ \A i \in DOMAIN t : i \in DOMAIN s \/ i = l
  BY OneMore
<1> HIDE DEF t, l
<1>2. \A i \in DeltasIn(s, kind) : i \in DOMAIN s /\ i \in DeltasIn(t, kind) /\ t[i] = s[i]
  BY <1>1 DEF DeltasIn
<1>3. \A i \in DeltasIn(t, kind) : i \in DOMAIN t /\ (i # l => i \in DeltasIn(s, kind))
  <2> SUFFICES ASSUME NEW i \in DeltasIn(t, kind), i # l
               PROVE  i \in DeltasIn(s, kind)
    BY DEF DeltasIn
  <2>1. PICK j \in DOMAIN t : t[j].ev = kind /\ t[j].at = t[i].at
    BY DEF DeltasIn
  <2>2. i \in DOMAIN s /\ t[i] = s[i] /\ s[i].ev = "delta"
    BY <1>1 DEF DeltasIn
  <2>3. j \in DOMAIN s
    BY <1>1, <2>1 DEF BlockKinds
  <2> QED
    BY <1>1, <2>1, <2>2, <2>3 DEF DeltasIn
<1>4. ASSUME \E i \in DOMAIN s : s[i].ev = kind /\ s[i].at = e.at
      PROVE  /\ NumbersIn(t, kind) = NumbersIn(s, kind) \cup {e.x[1]}
             /\ Rising(s, kind) /\ (\A m \in NumbersIn(s, kind) : m < e.x[1]) => Rising(t, kind)
  <2>1. l \in DeltasIn(t, kind)
    BY <1>1, <1>4 DEF DeltasIn
  <2>2. NumbersIn(t, kind) = NumbersIn(s, kind) \cup {e.x[1]}
    <3>1. \A m \in NumbersIn(t, kind) : m \in NumbersIn(s, kind) \/ m = e.x[1]
      BY <1>1, <1>2, <1>3 DEF NumbersIn
    <3>2. \A m \in NumbersIn(s, kind) : m \in NumbersIn(t, kind)
      BY <1>2 DEF NumbersIn
    <3>3. e.x[1] \in NumbersIn(t, kind)
      BY <1>1, <2>1 DEF NumbersIn
    <3> QED
      BY <3>1, <3>2, <3>3
  <2>3. ASSUME Rising(s, kind), \A m \in NumbersIn(s, kind) : m < e.x[1]
        PROVE  Rising(t, kind)
    <3> SUFFICES ASSUME NEW i \in DeltasIn(t, kind), NEW j \in DeltasIn(t, kind), i < j
                 PROVE  t[i].x[1] < t[j].x[1]
      BY DEF Rising
    <3>1. i \in DeltasIn(s, kind)
      BY <1>1, <1>3
    <3>2. s[i].x[1] \in NumbersIn(s, kind)
      BY <3>1 DEF NumbersIn
    <3>3. CASE j = l
      BY <2>3, <3>1, <3>2, <3>3, <1>1, <1>2
    <3>4. CASE j # l
      BY <2>3, <3>1, <3>4, <1>2, <1>3 DEF Rising
    <3> QED
      BY <3>3, <3>4
  <2> QED
    BY <2>2, <2>3
<1>5. ASSUME \A i \in DOMAIN s : s[i].ev = kind => s[i].at # e.at
      PROVE  /\ NumbersIn(t, kind) = NumbersIn(s, kind)
             /\ Rising(s, kind) => Rising(t, kind)
  <2>1. l \notin DeltasIn(t, kind)
    BY <1>1, <1>5 DEF DeltasIn, BlockKinds
  <2>2. DeltasIn(t, kind) = DeltasIn(s, kind)
    BY <1>2, <1>3, <2>1
  <2> QED
    BY <1>2, <2>2 DEF NumbersIn, Rising
<1> QED
  BY <1>4, <1>5 DEF t

-----------------------------------------------------------------------------
(* The decoder and the events it has returned so far.                        *)

HasTool(d) == d.tools # <<>> \/ d.current # NoTool
Numbers(F, kind) == {f.n : f \in {g \in F : g.kind = kind}}

(* the blocks of the events s, as the decoder d remembers them *)
Delivered(s, d) ==
    /\ \A i \in DOMAIN s :
          /\ s[i].ev = "text" => d.text.open /\ s[i].at = d.text.at
          /\ s[i].ev = "thinking" => s[i].at < d.next /\ ~(d.text.open /\ s[i].at = d.text.at)
          /\ s[i].ev = "delta" => s[i].at < d.next
          /\ s[i].ev \notin {"message_stop", "error", "tool"}
    /\ d.text.open => d.text.at < d.next /\ \E i \in DOMAIN s : s[i].ev = "text"
    /\ d.thinking.open => /\ d.thinking.at < d.next
                          /\ \E i \in DOMAIN s : s[i].ev = "thinking" /\ s[i].at = d.thinking.at

(* the frames F are the ones that d has been given *)
Knows(d, s, F) ==
    /\ NumbersIn(s, "text") = Numbers(F, "content")
    /\ NumbersIn(s, "thinking") = Numbers(F, "thinking")
    /\ ToSet(d.said) = {f \in F : f.kind = "content"}
    /\ d.usage <=> \E f \in F : f.kind = "usage"
    /\ HasTool(d) <=> \E f \in F : f.kind = "tool" /\ f.named

Upto(d, s, F) == Delivered(s, d) /\ Knows(d, s, F) /\ Rising(s, "text") /\ Rising(s, "thinking")

SameBlocks(d, r) ==
    /\ r.text = d.text /\ r.next = d.next
    /\ r.thinking.open => d.thinking.open /\ r.thinking.at = d.thinking.at
SameNotes(d, r) == r.said = d.said /\ r.usage = d.usage /\ (HasTool(r) <=> HasTool(d))

LEMMA QuietKeeps ==
  ASSUME NEW d, NEW r, NEW s \in Seq(EventType), NEW q \in Seq(EventType), NEW F,
         Upto(d, s, F), SameBlocks(d, r), SameNotes(d, r), Quiet(q)
  PROVE  Upto(r, s \o q, F)
<1>1. /\ NumbersIn(s \o q, "text") = NumbersIn(s, "text")
      /\ NumbersIn(s \o q, "thinking") = NumbersIn(s, "thinking")
      /\ Rising(s \o q, "text") /\ Rising(s \o q, "thinking")
  <2>1. Silent(q)
    BY DEF Quiet, Silent
  <2> QED
    BY <2>1, SilentTellsNothing DEF Upto, BlockKinds
<1>2. Knows(r, s \o q, F)
  BY <1>1 DEF Upto, Knows, SameNotes
<1>3. Delivered(s \o q, r)
  <2> DEFINE t == s \o q
  <2>1. /\ \A i \in DOMAIN s : i \in DOMAIN t /\ t[i] = s[i]
        /\ \A i \in DOMAIN t :
              \/ i \in DOMAIN s
              \/ i - Len(s) \in DOMAIN q /\ t[i] = q[i - Len(s)]
    BY Appended
  <2> HIDE DEF t
  <2>2. \A i \in DOMAIN t : i \in DOMAIN s \/ t[i].ev \notin {"text", "thinking", "delta", "message_stop", "error", "tool"}
    BY <2>1 DEF Quiet
  <2>3. Delivered(s, d)
    BY DEF Upto
  <2>4. \A i \in DOMAIN t :
          /\ t[i].ev = "text" => r.text.open /\ t[i].at = r.text.at
          /\ t[i].ev = "thinking" => t[i].at < r.next /\ ~(r.text.open /\ t[i].at = r.text.at)
          /\ t[i].ev = "delta" => t[i].at < r.next
          /\ t[i].ev \notin {"message_stop", "error", "tool"}
    BY <2>1, <2>2, <2>3 DEF Delivered, SameBlocks
  <2>5. r.text.open => r.text.at < r.next /\ \E i \in DOMAIN t : t[i].ev = "text"
    BY <2>1, <2>3 DEF Delivered, SameBlocks
  <2>6. r.thinking.open => /\ r.thinking.at < r.next
                           /\ \E i \in DOMAIN t : t[i].ev = "thinking" /\ t[i].at = r.thinking.at
    BY <2>1, <2>3 DEF Delivered, SameBlocks
  <2>7. Delivered(t, r)
    BY <2>4, <2>5, <2>6 DEF Delivered
  <2> QED
    BY <2>7 DEF t
<1> QED
  BY <1>1, <1>2, <1>3 DEF Upto

(* Opening a block at the next place.                                        *)
LEMMA OpeningKeeps ==
  ASSUME NEW d \in DecoderType, NEW r \in DecoderType, NEW s \in Seq(EventType), NEW kind \in BlockKinds,
         NEW F, Upto(d, s, F), SameNotes(d, r), r.next = d.next + 1,
         \/ /\ kind = "text" /\ ~d.text.open /\ r.text.open /\ r.text.at = d.next
            /\ r.thinking = d.thinking
         \/ /\ kind = "thinking" /\ r.thinking.open /\ r.thinking.at = d.next
            /\ r.text = d.text
  PROVE  Upto(r, s \o <<Event(kind, d.next, <<>>)>>, F)
<1> DEFINE e == Event(kind, d.next, <<>>)
           t == s \o <<e>>
           l == Len(s) + 1
<1>0. /\ d.next \in Nat /\ d.text.at \in Nat /\ d.thinking.at \in Nat
      /\ \A i \in DOMAIN s : s[i].at \in Nat
  <2>1. \A i \in DOMAIN s : s[i] \in EventType
    OBVIOUS
  <2> QED
    BY <2>1 DEF DecoderType, BlockType, EventType
<1>1. e \in EventType /\ e.ev = kind /\ e.at = d.next
  <2>1. e.ev = kind /\ e.at = d.next
    BY DEF Event
  <2>2. <<>> \in Seq(Int)
    OBVIOUS
  <2>3. Event("text", d.next, <<>>) \in EventType /\ Event("thinking", d.next, <<>>) \in EventType
    BY <1>0, <2>2, EventsTyped
  <2> QED
    BY <2>1, <2>3 DEF BlockKinds
<1> HIDE DEF e
<1>2. Delivered(s, d)
  BY DEF Upto
<1>3. /\ \A i \in DOMAIN s : i \in DOMAIN t /\ t[i] = s[i]
      /\ l \in DOMAIN t /\ t[l] = e
      /\ \A i \in DOMAIN t : i \in DOMAIN s \/ i = l
  BY <1>1, OneMore
<1>4. \A i \in DOMAIN s : s[i].ev = "delta" => s[i].at # e.at
  BY <1>0, <1>1, <1>2 DEF Delivered
<1>5. \A k \in BlockKinds :
         /\ NumbersIn(t, k) = NumbersIn(s, k)
         /\ Rising(s, k) => Rising(t, k)
  BY <1>1, <1>4, OpeningTellsNothing
<1> HIDE DEF t, l
<1>6. Knows(r, t, F) /\ Rising(t, "text") /\ Rising(t, "thinking")
  <2>1. /\ NumbersIn(t, "text") = NumbersIn(s, "text")
        /\ NumbersIn(t, "thinking") = NumbersIn(s, "thinking")
        /\ Rising(s, "text") => Rising(t, "text")
        /\ Rising(s, "thinking") => Rising(t, "thinking")
    BY <1>5 DEF BlockKinds
  <2> QED
    BY <2>1 DEF Upto, Knows, SameNotes
<1>7. CASE kind = "text"
  <2>1. /\ ~d.text.open /\ r.text.open /\ r.text.at = d.next /\ r.thinking = d.thinking
    BY <1>7
  <2>2. \A i \in DOMAIN s : s[i].ev # "text"
    BY <1>2, <2>1 DEF Delivered
  <2>3. \A i \in DOMAIN t :
          /\ t[i].ev = "text" => r.text.open /\ t[i].at = r.text.at
          /\ t[i].ev = "thinking" => t[i].at < r.next /\ ~(r.text.open /\ t[i].at = r.text.at)
          /\ t[i].ev = "delta" => t[i].at < r.next
          /\ t[i].ev \notin {"message_stop", "error", "tool"}
    <3> SUFFICES ASSUME NEW i \in DOMAIN t
                 PROVE  /\ t[i].ev = "text" => r.text.open /\ t[i].at = r.text.at
                        /\ t[i].ev = "thinking" => t[i].at < r.next /\ ~(r.text.open /\ t[i].at = r.text.at)
                        /\ t[i].ev = "delta" => t[i].at < r.next
                        /\ t[i].ev \notin {"message_stop", "error", "tool"}
      OBVIOUS
    <3>1. CASE i \in DOMAIN s
      BY <3>1, <1>0, <1>2, <1>3, <2>1, <2>2 DEF Delivered
    <3>2. CASE i = l
      BY <3>2, <1>1, <1>3, <1>7, <2>1
    <3> QED
      BY <3>1, <3>2, <1>3
  <2>4. r.text.at < r.next /\ \E i \in DOMAIN t : t[i].ev = "text"
    BY <1>0, <1>1, <1>3, <1>7, <2>1
  <2>5. r.thinking.open => /\ r.thinking.at < r.next
                           /\ \E i \in DOMAIN t : t[i].ev = "thinking" /\ t[i].at = r.thinking.at
    BY <1>0, <1>2, <1>3, <2>1 DEF Delivered
  <2> QED
    BY <1>6, <2>3, <2>4, <2>5 DEF Upto, Delivered, t, e
<1>8. CASE kind = "thinking"
  <2>1. r.thinking.open /\ r.thinking.at = d.next /\ r.text = d.text
    BY <1>8
  <2>3. \A i \in DOMAIN t :
          /\ t[i].ev = "text" => r.text.open /\ t[i].at = r.text.at
          /\ t[i].ev = "thinking" => t[i].at < r.next /\ ~(r.text.open /\ t[i].at = r.text.at)
          /\ t[i].ev = "delta" => t[i].at < r.next
          /\ t[i].ev \notin {"message_stop", "error", "tool"}
    <3> SUFFICES ASSUME NEW i \in DOMAIN t
                 PROVE  /\ t[i].ev = "text" => r.text.open /\ t[i].at = r.text.at
                        /\ t[i].ev = "thinking" => t[i].at < r.next /\ ~(r.text.open /\ t[i].at = r.text.at)
                        /\ t[i].ev = "delta" => t[i].at < r.next
                        /\ t[i].ev \notin {"message_stop", "error", "tool"}
      OBVIOUS
    <3>1. CASE i \in DOMAIN s
      BY <3>1, <1>0, <1>2, <1>3, <2>1 DEF Delivered
    <3>2. CASE i = l
      <4>1. d.text.open => d.text.at < d.next
        BY <1>2 DEF Delivered
      <4> QED
        BY <3>2, <4>1, <1>0, <1>1, <1>3, <1>8, <2>1
    <3> QED
      BY <3>1, <3>2, <1>3
  <2>4. r.text.open => r.text.at < r.next /\ \E i \in DOMAIN t : t[i].ev = "text"
    BY <1>0, <1>2, <1>3, <2>1 DEF Delivered
  <2>5. r.thinking.open => /\ r.thinking.at < r.next
                           /\ \E i \in DOMAIN t : t[i].ev = "thinking" /\ t[i].at = r.thinking.at
    BY <1>0, <1>1, <1>3, <1>8, <2>1
  <2> QED
    BY <1>6, <2>3, <2>4, <2>5 DEF Upto, Delivered, t, e
<1> QED
  BY <1>7, <1>8 DEF BlockKinds

(* A delta in the block of its kind.                                         *)
LEMMA DeltaKeeps ==
  ASSUME NEW d \in DecoderType, NEW s \in Seq(EventType), NEW at \in Nat, NEW n \in Nat,
         NEW kind \in BlockKinds, Delivered(s, d), Rising(s, "text"), Rising(s, "thinking"),
         \/ kind = "text" /\ d.text.open /\ at = d.text.at
         \/ kind = "thinking" /\ d.thinking.open /\ at = d.thinking.at,
         \A m \in NumbersIn(s, kind) : m < n
  PROVE  /\ Delivered(s \o <<Event("delta", at, <<n>>)>>, d)
         /\ NumbersIn(s \o <<Event("delta", at, <<n>>)>>, kind) = NumbersIn(s, kind) \cup {n}
         /\ \A other \in BlockKinds \ {kind} :
               NumbersIn(s \o <<Event("delta", at, <<n>>)>>, other) = NumbersIn(s, other)
         /\ Rising(s \o <<Event("delta", at, <<n>>)>>, "text")
         /\ Rising(s \o <<Event("delta", at, <<n>>)>>, "thinking")
<1> DEFINE e == Event("delta", at, <<n>>)
           t == s \o <<e>>
           l == Len(s) + 1
<1>1. e \in EventType /\ e.ev = "delta" /\ e.at = at /\ e.x[1] = n
  <2>1. e.ev = "delta" /\ e.at = at /\ e.x[1] = n
    BY DEF Event
  <2>2. <<n>> \in Seq(Int)
    OBVIOUS
  <2>3. Event("delta", at, <<n>>) \in EventType
    BY <2>2, EventsTyped
  <2> QED
    BY <2>1, <2>3
<1>2. /\ \A i \in DOMAIN s : i \in DOMAIN t /\ t[i] = s[i]
      /\ l \in DOMAIN t /\ t[l] = e
      /\ \A i \in DOMAIN t : i \in DOMAIN s \/ i = l
  BY <1>1, OneMore
<1> HIDE DEF e, l
<1>3. at < d.next
  BY DEF Delivered
<1>4. \E i \in DOMAIN s : s[i].ev = kind /\ s[i].at = e.at
  BY <1>1 DEF Delivered
<1>5. ASSUME NEW other \in BlockKinds \ {kind}
      PROVE  \A i \in DOMAIN s : s[i].ev = other => s[i].at # e.at
  <2>1. CASE kind = "text"
    BY <1>1, <2>1, <1>5 DEF Delivered, BlockKinds
  <2>2. CASE kind = "thinking"
    <3>1. other = "text"
      BY <2>2, <1>5 DEF BlockKinds
    <3>2. PICK j \in DOMAIN s : s[j].ev = "thinking" /\ s[j].at = at
      BY <1>1, <1>4, <2>2
    <3> QED
      BY <1>1, <3>1, <3>2 DEF Delivered
  <2> QED
    BY <2>1, <2>2 DEF BlockKinds
<1>6. NumbersIn(t, kind) = NumbersIn(s, kind) \cup {n} /\ (Rising(s, kind) => Rising(t, kind))
  BY <1>1, <1>4, DeltaTells
<1>7. ASSUME NEW other \in BlockKinds \ {kind}
      PROVE  NumbersIn(t, other) = NumbersIn(s, other) /\ (Rising(s, other) => Rising(t, other))
  BY <1>1, <1>5, DeltaTells
<1>8. Rising(t, "text") /\ Rising(t, "thinking")
  BY <1>6, <1>7 DEF BlockKinds
<1>9. Delivered(t, d)
  <2> HIDE DEF t
  <2>1. \A i \in DOMAIN t :
          /\ t[i].ev = "text" => d.text.open /\ t[i].at = d.text.at
          /\ t[i].ev = "thinking" => t[i].at < d.next /\ ~(d.text.open /\ t[i].at = d.text.at)
          /\ t[i].ev = "delta" => t[i].at < d.next
          /\ t[i].ev \notin {"message_stop", "error", "tool"}
    BY <1>1, <1>2, <1>3 DEF Delivered
  <2>2. d.text.open => d.text.at < d.next /\ \E i \in DOMAIN t : t[i].ev = "text"
    BY <1>2 DEF Delivered
  <2>3. d.thinking.open => /\ d.thinking.at < d.next
                           /\ \E i \in DOMAIN t : t[i].ev = "thinking" /\ t[i].at = d.thinking.at
    BY <1>2 DEF Delivered
  <2> QED
    BY <2>1, <2>2, <2>3 DEF Delivered
<1> QED
  BY <1>6, <1>7, <1>8, <1>9 DEF t, e

-----------------------------------------------------------------------------
(* The decoder's operations, on the events of the past and the ones it is    *)
(* collecting.                                                               *)

Reached(past, d, F) ==
    /\ d \in DecoderType /\ past \in Seq(EventType) /\ F \subseteq FrameType
    /\ Upto(d, past \o d.out, F)

LEMMA Associative ==
  ASSUME NEW p \in Seq(EventType), NEW q \in Seq(EventType), NEW r \in Seq(EventType), NEW x, x = q \o r
  PROVE  p \o x = (p \o q) \o r
<1>1. p \o (q \o r) = (p \o q) \o r
  OBVIOUS
<1> QED
  BY <1>1

LEMMA OpenedBlock ==
  ASSUME NEW at \in Nat
  PROVE  /\ [NoBlock EXCEPT !.open = TRUE, !.at = at] \in BlockType
         /\ [NoBlock EXCEPT !.open = TRUE, !.at = at].open = TRUE
         /\ [NoBlock EXCEPT !.open = TRUE, !.at = at].at = at
<1>1. NoBlock \in BlockType
  BY DEF NoBlock, BlockType
<1> QED
  BY <1>1 DEF BlockType

LEMMA QuietReaches ==
  ASSUME NEW past, NEW d, NEW r \in DecoderType, NEW q \in Seq(EventType), NEW F,
         Reached(past, d, F), r.out = d.out \o q,
         SameBlocks(d, r), SameNotes(d, r), Quiet(q)
  PROVE  Reached(past, r, F)
<1>1. past \in Seq(EventType) /\ d.out \in Seq(EventType) /\ past \o d.out \in Seq(EventType)
  BY DEF Reached, DecoderType
<1>2. past \o r.out = (past \o d.out) \o q
  <2> DEFINE out == d.out
             x == r.out
  <2>1. out \in Seq(EventType) /\ x = out \o q
    BY <1>1
  <2> HIDE DEF out, x
  <2>2. past \o x = (past \o out) \o q
    BY <1>1, <2>1, Associative
  <2> QED
    BY <2>2 DEF out, x
<1>3. Upto(r, (past \o d.out) \o q, F)
  BY <1>1, QuietKeeps DEF Reached
<1> QED
  BY <1>2, <1>3 DEF Reached

LEMMA Emitted ==
  ASSUME NEW d \in DecoderType, NEW e \in EventType
  PROVE  /\ [d EXCEPT !.out = Append(@, e)] \in DecoderType
         /\ [d EXCEPT !.out = Append(@, e)] = [d EXCEPT !.out = d.out \o <<e>>]
<1>1. d.out \in Seq(EventType)
  BY DEF DecoderType
<1>2. /\ Append(d.out, e) = d.out \o <<e>>
      /\ d.out \o <<e>> \in Seq(EventType)
  BY <1>1
<1> QED
  BY <1>2 DEF DecoderType

LEMMA NothingIsQuiet == <<>> \in Seq(EventType) /\ Quiet(<<>>) /\ Closing(<<>>)
  BY DEF Quiet, Closing

LEMMA StartedReaches ==
  ASSUME NEW past, NEW d, NEW F, Reached(past, d, F)
  PROVE  Reached(past, ensureStarted(d), F)
<1>1. d \in DecoderType
  BY DEF Reached
<1>2. CASE d.started
  BY <1>2 DEF ensureStarted
<1>3. CASE ~d.started
  <2> DEFINE e == Event("message_start", 0, <<>>)
             b == [d EXCEPT !.started = TRUE]
             r == ensureStarted(d)
  <2>1. e \in EventType
    <3>1. <<>> \in Seq(Int)
      OBVIOUS
    <3> QED
      BY <3>1, EventsTyped
  <2>2. b \in DecoderType /\ b.out = d.out
    BY <1>1 DEF DecoderType
  <2>3. /\ r \in DecoderType /\ r = [b EXCEPT !.out = b.out \o <<e>>]
    <3>1. r = [b EXCEPT !.out = Append(@, e)]
      BY <1>3 DEF ensureStarted, Emit
    <3> HIDE DEF b, r, e
    <3> QED
      BY <2>1, <2>2, <3>1, Emitted, Zenon
  <2>4. /\ r.out = d.out \o <<e>> /\ SameBlocks(d, r) /\ SameNotes(d, r)
    BY <1>1, <2>2, <2>3 DEF DecoderType, SameBlocks, SameNotes, HasTool
  <2>5. Quiet(<<e>>) /\ <<e>> \in Seq(EventType)
    <3>1. e.ev = "message_start"
      BY DEF Event
    <3> HIDE DEF e
    <3> QED
      BY <2>1, <3>1 DEF Quiet
  <2> HIDE DEF r, e
  <2>6. Reached(past, r, F)
    BY <2>3, <2>4, <2>5, QuietReaches
  <2> QED
    BY <2>6 DEF r
<1> QED
  BY <1>2, <1>3

LEMMA QuietTogether ==
  ASSUME NEW p \in Seq(EventType), NEW q \in Seq(EventType), Quiet(p), Quiet(q)
  PROVE  p \o q \in Seq(EventType) /\ Quiet(p \o q)
<1> DEFINE t == p \o q
<1>1. /\ t \in Seq(EventType)
      /\ \A i \in DOMAIN p : t[i] = p[i]
      /\ \A i \in DOMAIN t :
            \/ i \in DOMAIN p
            \/ i - Len(p) \in DOMAIN q /\ t[i] = q[i - Len(p)]
  BY Appended
<1> HIDE DEF t
<1>2. Quiet(t)
  BY <1>1 DEF Quiet
<1> QED
  BY <1>1, <1>2 DEF t

LEMMA QuietIsClosing ==
  ASSUME NEW q, Quiet(q)
  PROVE  Closing(q)
  BY DEF Quiet, Closing

LEMMA ClosingTogether ==
  ASSUME NEW p \in Seq(EventType), NEW q \in Seq(EventType), Closing(p), Closing(q)
  PROVE  p \o q \in Seq(EventType) /\ Closing(p \o q)
<1> DEFINE t == p \o q
<1>1. /\ t \in Seq(EventType)
      /\ \A i \in DOMAIN p : t[i] = p[i]
      /\ \A i \in DOMAIN t :
            \/ i \in DOMAIN p
            \/ i - Len(p) \in DOMAIN q /\ t[i] = q[i - Len(p)]
  BY Appended
<1> HIDE DEF t
<1>2. Closing(t)
  BY <1>1 DEF Closing
<1> QED
  BY <1>1, <1>2 DEF t

LEMMA EndOfThinking ==
  ASSUME NEW block \in BlockType
  PROVE  ThinkingEnd(block) \in Seq(EventType) /\ Quiet(ThinkingEnd(block))
<1> DEFINE e1 == Event("signature", block.at, <<>>)
           e2 == Event("stop", block.at, <<>>)
<1>1. e1 \in EventType /\ e2 \in EventType
  <2>1. <<>> \in Seq(Int) /\ block.at \in Nat
    BY DEF BlockType
  <2> QED
    BY <2>1, EventsTyped
<1>2. e1.ev = "signature" /\ e2.ev = "stop"
  BY DEF Event
<1>3. ThinkingEnd(block) \in {<<>>, <<e1>> \o <<e2>>, <<>> \o <<e2>>}
  BY DEF ThinkingEnd
<1> HIDE DEF e1, e2
<1>4. Quiet(<<>>) /\ Quiet(<<e1>>) /\ Quiet(<<e2>>)
  BY <1>2 DEF Quiet
<1>5. <<>> \in Seq(EventType) /\ <<e1>> \in Seq(EventType) /\ <<e2>> \in Seq(EventType)
  BY <1>1
<1> QED
  BY <1>3, <1>4, <1>5, QuietTogether

LEMMA ClosedReaches ==
  ASSUME NEW past, NEW d, NEW F, Reached(past, d, F)
  PROVE  Reached(past, closeThinkingBlock(d), F)
<1> DEFINE r == closeThinkingBlock(d)
           q == ThinkingEnd(d.thinking)
<1>1. d \in DecoderType /\ d.thinking \in BlockType /\ d.out \in Seq(EventType)
  BY DEF Reached, DecoderType
<1>2. q \in Seq(EventType) /\ Quiet(q)
  BY <1>1, EndOfThinking
<1>3. d.out \o q \in Seq(EventType)
  BY <1>1, <1>2
<1> HIDE DEF q
<1>4. r = [d EXCEPT !.out = d.out \o q, !.thinking.open = FALSE]
  BY DEF closeThinkingBlock, q
<1> HIDE DEF r
<1>5. /\ r \in DecoderType /\ r.out = d.out \o q
      /\ SameBlocks(d, r) /\ SameNotes(d, r)
  BY <1>1, <1>3, <1>4 DEF DecoderType, BlockType, SameBlocks, SameNotes, HasTool
<1>6. Reached(past, r, F)
  BY <1>2, <1>5, QuietReaches
<1> QED
  BY <1>6 DEF r

LEMMA TextReaches ==
  ASSUME NEW past, NEW d, NEW F, Reached(past, d, F)
  PROVE  Reached(past, ensureTextOpen(d), F) /\ ensureTextOpen(d).text.open
<1>1. CASE d.text.open
  BY <1>1 DEF ensureTextOpen
<1>2. CASE ~d.text.open
  <2> DEFINE e == Event("text", d.next, <<>>)
             b == Emit(d, "text", d.next, <<>>)
             r == ensureTextOpen(d)
             block == [NoBlock EXCEPT !.open = TRUE, !.at = d.next]
  <2>1. d \in DecoderType /\ d.next \in Nat /\ d.text \in BlockType /\ past \in Seq(EventType)
        /\ d.out \in Seq(EventType)
    BY DEF Reached, DecoderType
  <2>2. e \in EventType
    <3>1. <<>> \in Seq(Int)
      OBVIOUS
    <3> QED
      BY <2>1, <3>1, EventsTyped
  <2>3. b \in DecoderType /\ b = [d EXCEPT !.out = d.out \o <<e>>]
    <3>1. b = [d EXCEPT !.out = Append(@, e)]
      BY DEF Emit
    <3> HIDE DEF b, e
    <3> QED
      BY <2>1, <2>2, <3>1, Emitted
  <2>4. r = [b EXCEPT !.text = block, !.next = b.next + 1]
    BY <1>2 DEF ensureTextOpen
  <2>9. block \in BlockType /\ block.open = TRUE /\ block.at = d.next
    BY <2>1, OpenedBlock
  <2> HIDE DEF b, e, r, block
  <2>5. /\ r \in DecoderType /\ r.out = d.out \o <<e>> /\ r.next = d.next + 1
        /\ r.text.open /\ r.text.at = d.next /\ r.thinking = d.thinking
        /\ SameNotes(d, r)
    <3>2. b.next = d.next /\ d.next + 1 \in Nat /\ d.out \o <<e>> \in Seq(EventType)
      BY <2>1, <2>2, <2>3 DEF DecoderType
    <3>3. r = [d EXCEPT !.out = d.out \o <<e>>, !.next = d.next + 1, !.text = block]
      BY <2>1, <2>3, <2>4, <3>2 DEF DecoderType
    <3> QED
      BY <2>1, <2>9, <3>2, <3>3 DEF DecoderType, SameNotes, HasTool
  <2>6. Upto(r, (past \o d.out) \o <<e>>, F)
    <3>1. past \o d.out \in Seq(EventType) /\ "text" \in BlockKinds
      BY <2>1 DEF BlockKinds
    <3>2. Upto(d, past \o d.out, F)
      BY DEF Reached
    <3> QED
      BY <1>2, <2>1, <2>5, <3>1, <3>2, OpeningKeeps DEF e
  <2>7. past \o r.out = (past \o d.out) \o <<e>>
    <3> DEFINE out == d.out
               x == r.out
               q == <<e>>
    <3>1. q \in Seq(EventType) /\ out \in Seq(EventType) /\ x = out \o q
      BY <2>1, <2>2, <2>5
    <3> HIDE DEF out, x, q
    <3>2. past \o x = (past \o out) \o q
      BY <2>1, <3>1, Associative
    <3> QED
      BY <3>2 DEF out, x, q
  <2>8. Reached(past, r, F)
    BY <2>5, <2>6, <2>7 DEF Reached
  <2> QED
    BY <2>5, <2>8 DEF r
<1> QED
  BY <1>1, <1>2

Fits(F, f) ==
    /\ f.kind \in {"content", "thinking"} => \A g \in F : g.kind = f.kind => g.n < f.n
    /\ f.kind = "tool" /\ f.named => f.n # 0

LEMMA TypedDelta ==
  ASSUME NEW at \in Nat, NEW f \in FrameType
  PROVE  Event("delta", at, <<f.n>>) \in EventType /\ f.n \in Nat
<1>1. f.n \in Nat
  BY DEF FrameType
<1>2. <<f.n>> \in Seq(Int)
  BY <1>1
<1> QED
  BY <1>1, <1>2, EventsTyped

LEMMA OneMoreFrame ==
  ASSUME NEW fs \in Seq(FrameType), NEW f \in FrameType
  PROVE  ToSet(Append(fs, f)) = ToSet(fs) \cup {f}
<1>1. /\ \A i \in DOMAIN fs : i \in DOMAIN Append(fs, f) /\ Append(fs, f)[i] = fs[i]
      /\ Len(fs) + 1 \in DOMAIN Append(fs, f) /\ Append(fs, f)[Len(fs) + 1] = f
      /\ \A i \in DOMAIN Append(fs, f) : i \in DOMAIN fs \/ i = Len(fs) + 1
  OBVIOUS
<1> QED
  BY <1>1 DEF ToSet

LEMMA SaidReaches ==
  ASSUME NEW past, NEW d, NEW F, Reached(past, d, F), d.text.open,
         NEW f \in FrameType, f.kind = "content", Fits(F, f)
  PROVE  Reached(past, [Emit(d, "delta", d.text.at, <<f.n>>) EXCEPT !.said = Append(@, f)], F \cup {f})
<1> DEFINE e == Event("delta", d.text.at, <<f.n>>)
           b == Emit(d, "delta", d.text.at, <<f.n>>)
           r == [b EXCEPT !.said = Append(@, f)]
           s == past \o d.out
           t == s \o <<e>>
<1>1. /\ d \in DecoderType /\ d.out \in Seq(EventType) /\ past \in Seq(EventType) /\ d.text.at \in Nat
      /\ d.said \in Seq(FrameType) /\ F \subseteq FrameType /\ s \in Seq(EventType)
      /\ Delivered(s, d) /\ Knows(d, s, F) /\ Rising(s, "text") /\ Rising(s, "thinking")
  BY DEF Reached, DecoderType, BlockType, Upto
<1>2. e \in EventType /\ f.n \in Nat
  BY <1>1, TypedDelta
<1>3. b \in DecoderType /\ b = [d EXCEPT !.out = d.out \o <<e>>]
  <2>1. b = [d EXCEPT !.out = Append(@, e)]
    BY DEF Emit
  <2> HIDE DEF b, e
  <2> QED
    BY <1>1, <1>2, <2>1, Emitted
<1>4. \A m \in NumbersIn(s, "text") : m < f.n
  BY <1>1 DEF Knows, Numbers, Fits
<1>5. /\ Delivered(t, d)
      /\ NumbersIn(t, "text") = NumbersIn(s, "text") \cup {f.n}
      /\ NumbersIn(t, "thinking") = NumbersIn(s, "thinking")
      /\ Rising(t, "text") /\ Rising(t, "thinking")
  <2>1. /\ Delivered(t, d)
        /\ NumbersIn(t, "text") = NumbersIn(s, "text") \cup {f.n}
        /\ \A other \in BlockKinds \ {"text"} : NumbersIn(t, other) = NumbersIn(s, other)
        /\ Rising(t, "text") /\ Rising(t, "thinking")
    <3> HIDE DEF s
    <3>1. "text" \in BlockKinds
      BY DEF BlockKinds
    <3> QED
      BY <1>1, <1>2, <1>4, <3>1, DeltaKeeps
  <2> QED
    BY <2>1 DEF BlockKinds
<1>6. /\ r \in DecoderType /\ r.out = d.out \o <<e>> /\ r.said = Append(d.said, f)
      /\ SameBlocks(d, r) /\ r.thinking = d.thinking /\ r.usage = d.usage /\ (HasTool(r) <=> HasTool(d))
  <2>1. Append(d.said, f) \in Seq(FrameType)
    BY <1>1
  <2> HIDE DEF b, e
  <2>2. b.said = d.said /\ b.out = d.out \o <<e>>
    BY <1>1, <1>3 DEF DecoderType
  <2>3. r = [b EXCEPT !.said = Append(d.said, f)]
    BY <2>2
  <2> HIDE DEF r
  <2> QED
    BY <1>1, <1>3, <2>1, <2>2, <2>3 DEF DecoderType, SameBlocks, HasTool
<1> HIDE DEF r, e, b
<1>7. past \o r.out = t
  <2> DEFINE out == d.out
             x == r.out
             q == <<e>>
  <2>1. q \in Seq(EventType) /\ out \in Seq(EventType) /\ x = out \o q
    BY <1>1, <1>2, <1>6
  <2> HIDE DEF out, x, q
  <2>2. past \o x = (past \o out) \o q
    BY <1>1, <2>1, Associative
  <2> QED
    BY <2>2 DEF out, x, q
<1> HIDE DEF s, t
<1>8. Delivered(t, r)
  BY <1>5, <1>6 DEF Delivered, SameBlocks
<1>9. ToSet(r.said) = ToSet(d.said) \cup {f}
  BY <1>1, <1>6, OneMoreFrame
<1>10. Knows(r, t, F \cup {f})
  <2>1. NumbersIn(t, "text") = Numbers(F \cup {f}, "content")
    BY <1>1, <1>5 DEF Knows, Numbers
  <2>2. NumbersIn(t, "thinking") = Numbers(F \cup {f}, "thinking")
    BY <1>1, <1>5 DEF Knows, Numbers
  <2>3. ToSet(r.said) = {g \in F \cup {f} : g.kind = "content"}
    BY <1>1, <1>9 DEF Knows
  <2>4. r.usage <=> \E g \in F \cup {f} : g.kind = "usage"
    BY <1>1, <1>6 DEF Knows
  <2>5. HasTool(r) <=> \E g \in F \cup {f} : g.kind = "tool" /\ g.named
    BY <1>1, <1>6 DEF Knows
  <2> QED
    BY <2>1, <2>2, <2>3, <2>4, <2>5 DEF Knows
<1>11. Upto(r, t, F \cup {f})
  BY <1>5, <1>8, <1>10 DEF Upto
<1>12. Reached(past, r, F \cup {f})
  BY <1>1, <1>6, <1>7, <1>11 DEF Reached
<1> QED
  BY <1>12 DEF r, b

LEMMA ContentReaches ==
  ASSUME NEW past, NEW d, NEW F, Reached(past, d, F),
         NEW f \in FrameType, f.kind = "content", Fits(F, f)
  PROVE  Reached(past, onContent(d, f), F \cup {f})
<1> DEFINE closedOne == closeThinkingBlock(d)
           ready == ensureTextOpen(closedOne)
           r == [Emit(ready, "delta", ready.text.at, <<f.n>>) EXCEPT !.said = Append(@, f)]
<1>1. onContent(d, f) = r
  BY DEF onContent
<1>2. Reached(past, closedOne, F)
  BY ClosedReaches
<1> HIDE DEF closedOne
<1>3. Reached(past, ready, F) /\ ready.text.open
  BY <1>2, TextReaches
<1> HIDE DEF ready
<1>4. Reached(past, r, F \cup {f})
  BY <1>3, SaidReaches
<1> QED
  BY <1>1, <1>4

(* A frame that writes nothing.                                              *)
LEMMA NotedReaches ==
  ASSUME NEW past, NEW d, NEW r \in DecoderType, NEW F, Reached(past, d, F), NEW f \in FrameType,
         f.kind \notin {"content", "thinking"}, r.out = d.out, r.said = d.said, SameBlocks(d, r),
         r.usage <=> d.usage \/ f.kind = "usage",
         HasTool(r) <=> HasTool(d) \/ (f.kind = "tool" /\ f.named)
  PROVE  Reached(past, r, F \cup {f})
<1> DEFINE s == past \o d.out
<1>1. /\ past \in Seq(EventType) /\ F \subseteq FrameType /\ past \o r.out = s
      /\ Delivered(s, d) /\ Knows(d, s, F) /\ Rising(s, "text") /\ Rising(s, "thinking")
  BY DEF Reached, Upto
<1> HIDE DEF s
<1>2. Delivered(s, r)
  BY <1>1 DEF Delivered, SameBlocks
<1>3. Knows(r, s, F \cup {f})
  <2>1. NumbersIn(s, "text") = Numbers(F \cup {f}, "content")
    BY <1>1 DEF Knows, Numbers
  <2>2. NumbersIn(s, "thinking") = Numbers(F \cup {f}, "thinking")
    BY <1>1 DEF Knows, Numbers
  <2>3. ToSet(r.said) = {g \in F \cup {f} : g.kind = "content"}
    BY <1>1 DEF Knows
  <2>4. r.usage <=> \E g \in F \cup {f} : g.kind = "usage"
    BY <1>1 DEF Knows
  <2>5. HasTool(r) <=> \E g \in F \cup {f} : g.kind = "tool" /\ g.named
    BY <1>1 DEF Knows
  <2> QED
    BY <2>1, <2>2, <2>3, <2>4, <2>5 DEF Knows
<1> QED
  BY <1>1, <1>2, <1>3 DEF Reached, Upto

LEMMA CallFinalized ==
  ASSUME NEW d \in DecoderType
  PROVE  /\ finalizeTool(d) \in DecoderType /\ finalizeTool(d).current = NoTool
         /\ finalizeTool(d).out = d.out /\ finalizeTool(d).said = d.said
         /\ finalizeTool(d).usage = d.usage /\ SameBlocks(d, finalizeTool(d))
         /\ HasTool(finalizeTool(d)) <=> HasTool(d)
<1>1. CASE d.current = NoTool
  BY <1>1 DEF finalizeTool, SameBlocks, HasTool
<1>2. CASE d.current # NoTool
  <2> DEFINE tools == Append(d.tools, d.current)
             r == finalizeTool(d)
  <2>1. d.tools \in Seq(CallType) /\ d.current \in CallType /\ NoTool \in CallType
    <3>1. <<>> \in Seq(Nat \X Nat)
      OBVIOUS
    <3> QED
      BY <3>1 DEF DecoderType, CallType, NoTool, Pieces
  <2>2. tools \in Seq(CallType) /\ tools # <<>>
    BY <2>1
  <2>3. r = [d EXCEPT !.tools = tools, !.current = NoTool]
    BY <1>2 DEF finalizeTool
  <2> HIDE DEF r, tools
  <2>4. /\ r \in DecoderType /\ r.current = NoTool /\ r.out = d.out /\ r.said = d.said
        /\ r.usage = d.usage /\ SameBlocks(d, r) /\ r.tools # <<>>
    BY <2>1, <2>2, <2>3 DEF DecoderType, SameBlocks
  <2> QED
    BY <1>2, <2>4 DEF r, HasTool
<1> QED
  BY <1>1, <1>2

(* what a decoder and another that has had a frame of a call have in common *)
Alike(d, r) == r \in DecoderType /\ r.out = d.out /\ r.said = d.said /\ r.usage = d.usage /\ SameBlocks(d, r)

LEMMA CallStarted ==
  ASSUME NEW d \in DecoderType, NEW f \in FrameType, f.n # 0
  PROVE  Alike(d, onToolStart(d, f)) /\ HasTool(onToolStart(d, f))
<1> DEFINE done == finalizeTool(d)
           call == [id |-> f.n, args |-> f.args]
           opened == [done EXCEPT !.current = call]
<1>1. Alike(d, done)
  BY CallFinalized DEF Alike
<1>2. call \in CallType /\ call # NoTool
  BY DEF CallType, FrameType, NoTool
<1> HIDE DEF done, call
<1>3. Alike(d, opened) /\ HasTool(opened)
  BY <1>1, <1>2 DEF Alike, DecoderType, SameBlocks, HasTool
<1>4. onToolStart(d, f) = IF f.stop THEN finalizeTool(opened) ELSE opened
  BY DEF onToolStart, done, call
<1> HIDE DEF opened
<1>5. Alike(d, finalizeTool(opened)) /\ HasTool(finalizeTool(opened))
  BY <1>3, CallFinalized DEF Alike, SameBlocks
<1> QED
  BY <1>3, <1>4, <1>5

LEMMA ToolHeard ==
  ASSUME NEW d \in DecoderType, NEW f \in FrameType, f.named => f.n # 0
  PROVE  Alike(d, onTool(d, f)) /\ (HasTool(onTool(d, f)) <=> HasTool(d) \/ f.named)
<1> DEFINE busy == d.current # NoTool
           mine == busy /\ f.n \in {0, d.current.id}
           more == [d EXCEPT !.current.args = @ \o f.args]
<1>0. Alike(d, d)
  BY DEF Alike, SameBlocks
<1>1. CASE f.args # <<>> /\ mine
  <2>1. onTool(d, f) = IF f.stop THEN finalizeTool(more) ELSE more
    BY <1>1 DEF onTool
  <2>2. d.current \in CallType /\ d.current.args \in Pieces /\ f.args \in Pieces
    BY DEF DecoderType, CallType, FrameType
  <2>3. d.current.args \o f.args \in Pieces /\ d.current.args \o f.args # <<>>
    BY <1>1, <2>2 DEF Pieces
  <2> DEFINE call == [d.current EXCEPT !.args = d.current.args \o f.args]
  <2>4. call \in CallType /\ call # NoTool
    <3>1. call.args # <<>> /\ call \in CallType
      BY <2>2, <2>3 DEF CallType
    <3> QED
      BY <3>1 DEF NoTool
  <2>5. more = [d EXCEPT !.current = call]
    BY <2>2 DEF DecoderType, CallType
  <2> HIDE DEF call, more
  <2>6. Alike(d, more) /\ HasTool(more)
    BY <2>4, <2>5 DEF Alike, DecoderType, SameBlocks, HasTool
  <2>7. Alike(d, finalizeTool(more)) /\ HasTool(finalizeTool(more))
    BY <2>6, CallFinalized DEF Alike, SameBlocks
  <2>8. HasTool(d)
    BY <1>1 DEF HasTool
  <2> QED
    BY <2>1, <2>6, <2>7, <2>8
<1>2. CASE f.args = <<>> /\ f.stop /\ busy
  <2>1. onTool(d, f) = IF mine THEN finalizeTool(d) ELSE d
    BY <1>2 DEF onTool
  <2>2. HasTool(d)
    BY <1>2 DEF HasTool
  <2> QED
    BY <1>0, <2>1, <2>2, CallFinalized DEF Alike
<1>3. CASE ~(f.args # <<>> /\ mine) /\ ~(f.args = <<>> /\ f.stop /\ busy)
  <2>1. onTool(d, f) = IF f.named THEN onToolStart(d, f) ELSE d
    BY <1>3 DEF onTool
  <2> QED
    BY <1>0, <2>1, CallStarted
<1> QED
  BY <1>1, <1>2, <1>3

LEMMA ThinkingOpened ==
  ASSUME NEW past, NEW d, NEW F, Reached(past, d, F), ~d.thinking.open
  PROVE  LET r == [Emit(d, "thinking", d.next, <<>>)
                      EXCEPT !.thinking = [NoBlock EXCEPT !.open = TRUE, !.at = d.next], !.next = @ + 1]
         IN  Reached(past, r, F) /\ r.thinking.open
<1> DEFINE e == Event("thinking", d.next, <<>>)
           b == Emit(d, "thinking", d.next, <<>>)
           block == [NoBlock EXCEPT !.open = TRUE, !.at = d.next]
           r == [b EXCEPT !.thinking = block, !.next = @ + 1]
<1>1. /\ d \in DecoderType /\ d.next \in Nat /\ d.thinking \in BlockType /\ past \in Seq(EventType)
      /\ d.out \in Seq(EventType) /\ Upto(d, past \o d.out, F) /\ F \subseteq FrameType
  BY DEF Reached, DecoderType
<1>2. e \in EventType
  <2>1. <<>> \in Seq(Int)
    OBVIOUS
  <2> QED
    BY <1>1, <2>1, EventsTyped
<1>3. b \in DecoderType /\ b = [d EXCEPT !.out = d.out \o <<e>>]
  <2>1. b = [d EXCEPT !.out = Append(@, e)]
    BY DEF Emit
  <2> HIDE DEF b, e
  <2> QED
    BY <1>1, <1>2, <2>1, Emitted
<1>4. block \in BlockType /\ block.open = TRUE /\ block.at = d.next
  BY <1>1, OpenedBlock
<1> HIDE DEF b, e, block
<1>5. b.next = d.next /\ d.next + 1 \in Nat /\ d.out \o <<e>> \in Seq(EventType)
  BY <1>1, <1>2, <1>3 DEF DecoderType
<1>6. r = [d EXCEPT !.out = d.out \o <<e>>, !.next = d.next + 1, !.thinking = block]
  BY <1>1, <1>3, <1>5 DEF DecoderType
<1> HIDE DEF r
<1>7. /\ r \in DecoderType /\ r.out = d.out \o <<e>> /\ r.next = d.next + 1
      /\ r.thinking.open /\ r.thinking.at = d.next /\ r.text = d.text
      /\ SameNotes(d, r)
  BY <1>1, <1>4, <1>5, <1>6 DEF DecoderType, SameNotes, HasTool
<1>8. Upto(r, (past \o d.out) \o <<e>>, F)
  <2>1. past \o d.out \in Seq(EventType) /\ "thinking" \in BlockKinds
    BY <1>1 DEF BlockKinds
  <2> QED
    BY <1>1, <1>7, <2>1, OpeningKeeps DEF e
<1>9. past \o r.out = (past \o d.out) \o <<e>>
  <2> DEFINE out == d.out
             x == r.out
             q == <<e>>
  <2>1. q \in Seq(EventType) /\ out \in Seq(EventType) /\ x = out \o q
    BY <1>1, <1>2, <1>7
  <2>3. past \in Seq(EventType)
    BY <1>1
  <2> HIDE DEF out, x, q
  <2>2. past \o x = (past \o out) \o q
    BY <2>1, <2>3, Associative
  <2> QED
    BY <2>2 DEF out, x, q
<1>10. Reached(past, r, F) /\ r.thinking.open
  BY <1>1, <1>7, <1>8, <1>9 DEF Reached
<1> QED
  BY <1>10 DEF r, b, block

LEMMA ThoughtReaches ==
  ASSUME NEW past, NEW d, NEW F, Reached(past, d, F), d.thinking.open,
         NEW f \in FrameType, f.kind = "thinking", Fits(F, f)
  PROVE  Reached(past, Emit(d, "delta", d.thinking.at, <<f.n>>), F \cup {f})
<1> DEFINE e == Event("delta", d.thinking.at, <<f.n>>)
           r == Emit(d, "delta", d.thinking.at, <<f.n>>)
           s == past \o d.out
           t == s \o <<e>>
<1>1. /\ d \in DecoderType /\ d.out \in Seq(EventType) /\ past \in Seq(EventType)
      /\ d.thinking.at \in Nat /\ F \subseteq FrameType /\ s \in Seq(EventType)
      /\ Delivered(s, d) /\ Knows(d, s, F) /\ Rising(s, "text") /\ Rising(s, "thinking")
  BY DEF Reached, DecoderType, BlockType, Upto
<1>2. e \in EventType /\ f.n \in Nat
  BY <1>1, TypedDelta
<1>3. r \in DecoderType /\ r = [d EXCEPT !.out = d.out \o <<e>>]
  <2>1. r = [d EXCEPT !.out = Append(@, e)]
    BY DEF Emit
  <2> HIDE DEF r, e
  <2> QED
    BY <1>1, <1>2, <2>1, Emitted
<1>4. \A m \in NumbersIn(s, "thinking") : m < f.n
  BY <1>1 DEF Knows, Numbers, Fits
<1>5. /\ Delivered(t, d)
      /\ NumbersIn(t, "thinking") = NumbersIn(s, "thinking") \cup {f.n}
      /\ NumbersIn(t, "text") = NumbersIn(s, "text")
      /\ Rising(t, "text") /\ Rising(t, "thinking")
  <2>1. /\ Delivered(t, d)
        /\ NumbersIn(t, "thinking") = NumbersIn(s, "thinking") \cup {f.n}
        /\ \A other \in BlockKinds \ {"thinking"} : NumbersIn(t, other) = NumbersIn(s, other)
        /\ Rising(t, "text") /\ Rising(t, "thinking")
    <3> HIDE DEF s
    <3>1. "thinking" \in BlockKinds
      BY DEF BlockKinds
    <3> QED
      BY <1>1, <1>2, <1>4, <3>1, DeltaKeeps
  <2> QED
    BY <2>1 DEF BlockKinds
<1> HIDE DEF r, e
<1>6. /\ r.out = d.out \o <<e>> /\ r.said = d.said /\ SameBlocks(d, r)
      /\ r.usage = d.usage /\ (HasTool(r) <=> HasTool(d))
  BY <1>1, <1>3 DEF DecoderType, SameBlocks, HasTool
<1>7. past \o r.out = t
  <2> DEFINE out == d.out
             x == r.out
             q == <<e>>
  <2>1. q \in Seq(EventType) /\ out \in Seq(EventType) /\ x = out \o q
    BY <1>1, <1>2, <1>6
  <2> HIDE DEF out, x, q
  <2>2. past \o x = (past \o out) \o q
    BY <1>1, <2>1, Associative
  <2> QED
    BY <2>2 DEF out, x, q
<1> HIDE DEF s, t
<1>8. Delivered(t, r)
  BY <1>5, <1>6 DEF Delivered, SameBlocks
<1>9. Knows(r, t, F \cup {f})
  <2>1. NumbersIn(t, "text") = Numbers(F \cup {f}, "content")
    BY <1>1, <1>5 DEF Knows, Numbers
  <2>2. NumbersIn(t, "thinking") = Numbers(F \cup {f}, "thinking")
    BY <1>1, <1>5 DEF Knows, Numbers
  <2>3. ToSet(r.said) = {g \in F \cup {f} : g.kind = "content"}
    BY <1>1, <1>6 DEF Knows
  <2>4. r.usage <=> \E g \in F \cup {f} : g.kind = "usage"
    BY <1>1, <1>6 DEF Knows
  <2>5. HasTool(r) <=> \E g \in F \cup {f} : g.kind = "tool" /\ g.named
    BY <1>1, <1>6 DEF Knows
  <2> QED
    BY <2>1, <2>2, <2>3, <2>4, <2>5 DEF Knows
<1>10. Upto(r, t, F \cup {f})
  BY <1>5, <1>8, <1>9 DEF Upto
<1>11. Reached(past, r, F \cup {f})
  BY <1>1, <1>3, <1>7, <1>10 DEF Reached
<1> QED
  BY <1>11 DEF r

LEMMA ThinkingReaches ==
  ASSUME NEW past, NEW d, NEW F, Reached(past, d, F),
         NEW f \in FrameType, f.kind = "thinking", Fits(F, f)
  PROVE  Reached(past, onThinking(d, f), F \cup {f})
<1> DEFINE opened == [Emit(d, "thinking", d.next, <<>>)
                         EXCEPT !.thinking = [NoBlock EXCEPT !.open = TRUE, !.at = d.next],
                                !.next = @ + 1]
           ready == IF d.thinking.open THEN d ELSE opened
           r == Emit(ready, "delta", ready.thinking.at, <<f.n>>)
<1>1. onThinking(d, f) = r
  BY DEF onThinking
<1>2. Reached(past, ready, F) /\ ready.thinking.open
  <2>1. ~d.thinking.open => Reached(past, opened, F) /\ opened.thinking.open
    BY ThinkingOpened
  <2> HIDE DEF opened
  <2> QED
    BY <2>1
<1> HIDE DEF ready
<1>3. Reached(past, r, F \cup {f})
  BY <1>2, ThoughtReaches
<1> QED
  BY <1>1, <1>3

LEMMA SignatureReaches ==
  ASSUME NEW past, NEW d, NEW F, Reached(past, d, F),
         NEW f \in FrameType, f.kind = "signature"
  PROVE  Reached(past, [Emit(d, "signature", d.thinking.at, <<>>) EXCEPT !.thinking.signed = TRUE],
                 F \cup {f})
<1> DEFINE e == Event("signature", d.thinking.at, <<>>)
           b == Emit(d, "signature", d.thinking.at, <<>>)
           r == [b EXCEPT !.thinking.signed = TRUE]
<1>1. d \in DecoderType /\ d.thinking \in BlockType /\ d.thinking.at \in Nat /\ d.out \in Seq(EventType)
  BY DEF Reached, DecoderType, BlockType
<1>2. e \in EventType /\ e.ev = "signature"
  <2>1. <<>> \in Seq(Int)
    OBVIOUS
  <2>2. e \in EventType
    BY <1>1, <2>1, EventsTyped
  <2> QED
    BY <2>2 DEF Event
<1>3. b \in DecoderType /\ b = [d EXCEPT !.out = d.out \o <<e>>]
  <2>1. b = [d EXCEPT !.out = Append(@, e)]
    BY DEF Emit
  <2> HIDE DEF b, e
  <2> QED
    BY <1>1, <1>2, <2>1, Emitted
<1> HIDE DEF b, e
<1>4. /\ r \in DecoderType /\ r.out = d.out \o <<e>> /\ SameBlocks(d, r) /\ SameNotes(d, r)
  BY <1>1, <1>3 DEF DecoderType, BlockType, SameBlocks, SameNotes, HasTool
<1>5. Quiet(<<e>>) /\ <<e>> \in Seq(EventType)
  BY <1>2 DEF Quiet
<1> HIDE DEF r
<1>6. Reached(past, r, F)
  BY <1>4, <1>5, QuietReaches
<1>7. SameBlocks(r, r)
  BY DEF SameBlocks
<1>8. Reached(past, r, F \cup {f})
  BY <1>4, <1>6, <1>7, NotedReaches
<1> QED
  BY <1>8 DEF r, b

(* A frame heard by the decoder: what it has then told is what it had told   *)
(* and what the frame says.                                                  *)
LEMMA FrameHeard ==
  ASSUME NEW past \in Seq(EventType), NEW d \in DecoderType, NEW F \in SUBSET FrameType,
         Upto(d, past, F), NEW f \in FrameType, Fits(F, f)
  PROVE  Reached(past, DecoderFeed(d, f), F \cup {f})
<1> DEFINE empty == [d EXCEPT !.out = <<>>]
           r == ensureStarted(empty)
<1>1. Reached(past, empty, F)
  <2>1. empty \in DecoderType /\ empty.out = <<>> /\ past \o empty.out = past
    <3>1. <<>> \in Seq(EventType) /\ past \o <<>> = past
      OBVIOUS
    <3>2. empty \in DecoderType /\ empty.out = <<>>
      BY <3>1 DEF DecoderType
    <3> QED
      BY <3>1, <3>2
  <2>2. SameBlocks(d, empty) /\ SameNotes(d, empty)
    BY DEF DecoderType, SameBlocks, SameNotes, HasTool
  <2> HIDE DEF empty
  <2>3. Upto(empty, past \o <<>>, F)
    BY <2>2, NothingIsQuiet, QuietKeeps
  <2> QED
    BY <2>1, <2>3 DEF Reached
<1>2. Reached(past, r, F) /\ r \in DecoderType
  <2> HIDE DEF empty
  <2>1. Reached(past, r, F)
    BY <1>1, StartedReaches
  <2> QED
    BY <2>1 DEF Reached
<1> DEFINE signed == [Emit(r, "signature", r.thinking.at, <<>>) EXCEPT !.thinking.signed = TRUE]
           used == [r EXCEPT !.usage = TRUE]
<1>3. DecoderFeed(d, f) =
        CASE f.kind = "tool" -> onTool(r, f)
          [] f.kind = "content" -> onContent(r, f)
          [] f.kind = "thinking" -> onThinking(r, f)
          [] f.kind = "signature" /\ r.thinking.open /\ ~r.thinking.signed -> signed
          [] f.kind = "usage" -> used
          [] OTHER -> r
  BY DEF DecoderFeed
<1> HIDE DEF r, signed, used
<1>4. SameBlocks(r, r)
  BY DEF SameBlocks
<1>5. CASE f.kind = "tool"
  <2> DEFINE heard == onTool(r, f)
  <2>1. DecoderFeed(d, f) = heard
    BY <1>3, <1>5
  <2>2. Alike(r, heard) /\ (HasTool(heard) <=> HasTool(r) \/ f.named)
    BY <1>2, <1>5, ToolHeard DEF Fits
  <2> HIDE DEF heard
  <2>3. Reached(past, heard, F \cup {f})
    BY <1>2, <1>5, <2>2, NotedReaches DEF Alike
  <2> QED
    BY <2>1, <2>3
<1>6. CASE f.kind = "content"
  BY <1>2, <1>3, <1>6, ContentReaches
<1>7. CASE f.kind = "thinking"
  BY <1>2, <1>3, <1>7, ThinkingReaches
<1>8. CASE f.kind = "signature" /\ r.thinking.open /\ ~r.thinking.signed
  <2>1. DecoderFeed(d, f) = signed
    BY <1>3, <1>8
  <2> QED
    BY <1>2, <1>8, <2>1, SignatureReaches DEF signed
<1>9. CASE f.kind = "usage"
  <2>1. DecoderFeed(d, f) = used
    BY <1>3, <1>9
  <2>2. /\ used \in DecoderType /\ used.out = r.out /\ used.said = r.said /\ SameBlocks(r, used)
        /\ used.usage /\ (HasTool(used) <=> HasTool(r))
    BY <1>2 DEF used, DecoderType, SameBlocks, HasTool
  <2>3. Reached(past, used, F \cup {f})
    BY <1>2, <1>9, <2>2, NotedReaches
  <2> QED
    BY <2>1, <2>3
<1>10. CASE /\ f.kind \notin {"tool", "content", "thinking", "usage"}
            /\ ~(f.kind = "signature" /\ r.thinking.open /\ ~r.thinking.signed)
  <2>1. DecoderFeed(d, f) = r
    BY <1>3, <1>10
  <2>2. Reached(past, r, F \cup {f})
    BY <1>2, <1>4, <1>10, NotedReaches
  <2> QED
    BY <2>1, <2>2
<1> QED
  BY <1>5, <1>6, <1>7, <1>8, <1>9, <1>10

-----------------------------------------------------------------------------
(* The end of the decoder.                                                   *)

(* how much of a call's arguments is known: Better compares it *)
Key(call) == IF Parses(call.args) THEN Len(call.args) + 1 ELSE 0

LEMMA BetterIsMore ==
  ASSUME NEW c \in CallType, NEW e \in CallType
  PROVE  Better(c, e) <=> Key(c) > Key(e)
<1>1. Len(c.args) \in Nat /\ Len(e.args) \in Nat
  BY DEF CallType, Pieces
<1> QED
  BY <1>1 DEF Better, Key, Parses

LEMMA KeyType ==
  ASSUME NEW c \in CallType
  PROVE  Key(c) \in Nat
<1>1. Len(c.args) \in Nat
  BY DEF CallType, Pieces
<1> QED
  BY <1>1 DEF Key

(* Of some calls one is the fullest.                                         *)
LEMMA OneIsFullest ==
  ASSUME NEW tools \in Seq(CallType), NEW Same \in SUBSET (DOMAIN tools), Same # {}
  PROVE  \E j \in Same : \A k \in Same :
            k # j => IF k < j THEN Better(tools[j], tools[k]) ELSE ~Better(tools[k], tools[j])
<1> DEFINE n == Len(tools)
           key(j) == Key(tools[j])
           Best(m, j) == /\ j \in Same /\ j <= m
                         /\ \A k \in Same : k <= m =>
                               key(k) <= key(j) /\ (k < j => key(k) < key(j))
           T == {m \in 0 .. n : (\E k \in Same : k <= m) => \E j \in Same : Best(m, j)}
<1>1. n \in Nat /\ DOMAIN tools = 1 .. n /\ \A j \in Same : j \in 1 .. n /\ tools[j] \in CallType
  OBVIOUS
<1>2. \A j \in Same : key(j) \in Nat
  BY <1>1, KeyType
<1>3. 0 \in T
  BY <1>1
<1> HIDE DEF n, key
<1>4. ASSUME NEW m \in 0 .. n - 1, m \in T
      PROVE  m + 1 \in T
  <2> SUFFICES ASSUME \E k \in Same : k <= m + 1
               PROVE  \E j \in Same : Best(m + 1, j)
    BY <1>1
  <2>1. m \in Nat /\ \A k \in Same : k \in Nat /\ (k <= m + 1 <=> k <= m \/ k = m + 1)
    BY <1>1
  <2>2. CASE \A k \in Same : k > m
    <3>1. m + 1 \in Same
      BY <2>1, <2>2
    <3>2. \A k \in Same : k <= m + 1 => k = m + 1
      BY <2>1, <2>2
    <3>3. Best(m + 1, m + 1)
      BY <1>2, <2>1, <3>1, <3>2
    <3> QED
      BY <3>1, <3>3
  <2>3. CASE \E k \in Same : k <= m
    <3>1. PICK j \in Same : Best(m, j)
      BY <1>4, <2>3
    <3>2. CASE m + 1 \in Same /\ key(m + 1) > key(j)
      <4>1. Best(m + 1, m + 1)
        BY <1>2, <2>1, <3>1, <3>2
      <4> QED
        BY <3>2, <4>1
    <3>3. CASE m + 1 \in Same => key(m + 1) <= key(j)
      <4>1. Best(m + 1, j)
        BY <1>2, <2>1, <3>1, <3>3
      <4> QED
        BY <4>1
    <3> QED
      BY <1>2, <3>2, <3>3
  <2> QED
    BY <2>1, <2>2, <2>3
<1> HIDE DEF T
<1>5. n \in T
  BY <1>1, <1>3, <1>4, Induction
<1>6. PICK j \in Same : Best(n, j)
  <2>1. \E k \in Same : k <= n
    BY <1>1
  <2> QED
    BY <1>5, <2>1 DEF T
<1>7. ASSUME NEW k \in Same, k # j
      PROVE  IF k < j THEN Better(tools[j], tools[k]) ELSE ~Better(tools[k], tools[j])
  <2>1. key(k) <= key(j) /\ (k < j => key(k) < key(j)) /\ key(k) \in Nat /\ key(j) \in Nat
    BY <1>1, <1>2, <1>6
  <2>2. /\ Better(tools[j], tools[k]) <=> key(j) > key(k)
        /\ Better(tools[k], tools[j]) <=> key(k) > key(j)
    BY <1>1, BetterIsMore DEF key
  <2> QED
    BY <2>1, <2>2
<1> QED
  BY <1>7

LEMMA NothingIn ==
  ASSUME NEW calls \in Seq(CallType)
  PROVE  calls = <<>> <=> ToSet(calls) = {}
<1>1. ToSet(<<>>) = {}
  BY DEF ToSet
<1>2. calls # <<>> => 1 \in DOMAIN calls
  OBVIOUS
<1>3. calls # <<>> => calls[1] \in ToSet(calls)
  BY <1>2 DEF ToSet
<1> QED
  BY <1>1, <1>3

LEMMA CallsWithoutDuplicates ==
  ASSUME NEW tools \in Seq(CallType)
  PROVE  /\ dedupToolCalls(tools) \in Seq(CallType)
         /\ dedupToolCalls(tools) = <<>> <=> tools = <<>>
<1> DEFINE Same(i) == {j \in DOMAIN tools : tools[j].id = tools[i].id}
           Fullest(i) == CHOOSE j \in Same(i) :
                             \A k \in Same(i) : k # j => IF k < j THEN Better(tools[j], tools[k])
                                                                 ELSE ~Better(tools[k], tools[j])
           calls == [i \in DOMAIN tools |-> tools[Fullest(i)]]
           New(i) == \A j \in 1..(i - 1) : calls[j].args # calls[i].args
           parts == [i \in DOMAIN tools |-> IF New(i) THEN <<calls[i]>> ELSE <<>>]
<1>1. dedupToolCalls(tools) = FlattenSeq(parts)
  BY DEF dedupToolCalls
<1>2. ASSUME NEW i \in DOMAIN tools
      PROVE  calls[i] \in CallType
  <2>1. Same(i) \in SUBSET (DOMAIN tools) /\ i \in Same(i)
    OBVIOUS
  <2> DEFINE S == Same(i)
             Good(j) == \A k \in S : k # j => IF k < j THEN Better(tools[j], tools[k])
                                                      ELSE ~Better(tools[k], tools[j])
  <2>2. \E j \in S : Good(j)
    <3> HIDE DEF S
    <3>1. S # {} /\ S \in SUBSET (DOMAIN tools)
      BY <2>1 DEF S
    <3> QED
      BY <3>1, OneIsFullest
  <2>3. Fullest(i) = CHOOSE j \in S : Good(j)
    OBVIOUS
  <2>4. Fullest(i) \in S
    <3> HIDE DEF Good, S, Fullest
    <3> QED
      BY <2>2, <2>3
  <2>5. Fullest(i) \in DOMAIN tools
    BY <2>1, <2>4
  <2> HIDE DEF Fullest
  <2> QED
    BY <2>5
<1> HIDE DEF calls
<1>3. \A i \in DOMAIN tools : parts[i] \in Seq(CallType)
  BY <1>2
<1>4. parts \in Seq(Seq(CallType)) /\ DOMAIN parts = DOMAIN tools
  <2>1. DOMAIN tools = 1 .. Len(tools) /\ Len(tools) \in Nat
    OBVIOUS
  <2>2. parts \in [1 .. Len(tools) -> Seq(CallType)]
    BY <1>3, <2>1
  <2> HIDE DEF parts
  <2>3. parts \in Seq(Seq(CallType)) /\ DOMAIN parts = 1 .. Len(tools)
    BY <2>1, <2>2
  <2> QED
    BY <2>1, <2>3
<1>5. tools # <<>> => 1 \in DOMAIN tools /\ parts[1] = <<calls[1]>>
  <2> SUFFICES ASSUME tools # <<>>
               PROVE  1 \in DOMAIN tools /\ parts[1] = <<calls[1]>>
    OBVIOUS
  <2>1. 1 \in DOMAIN tools
    OBVIOUS
  <2>2. New(1)
    OBVIOUS
  <2> QED
    BY <2>1, <2>2
<1> HIDE DEF parts
<1>6. /\ FlattenSeq(parts) \in Seq(CallType)
      /\ ToSet(FlattenSeq(parts)) = UNION {ToSet(parts[i]) : i \in DOMAIN parts}
  BY <1>4, Flattened
<1>7. tools # <<>> => FlattenSeq(parts) # <<>>
  <2> SUFFICES ASSUME tools # <<>>
               PROVE  FlattenSeq(parts) # <<>>
    OBVIOUS
  <2>1. calls[1] \in ToSet(parts[1])
    BY <1>5 DEF ToSet
  <2>2. calls[1] \in ToSet(FlattenSeq(parts))
    BY <1>4, <1>5, <1>6, <2>1
  <2>3. ToSet(<<>>) = {}
    BY DEF ToSet
  <2> QED
    BY <2>2, <2>3
<1>8. tools = <<>> => FlattenSeq(parts) = <<>>
  <2> SUFFICES ASSUME tools = <<>>
               PROVE  FlattenSeq(parts) = <<>>
    OBVIOUS
  <2>1. DOMAIN parts = {}
    BY <1>4
  <2>2. ToSet(FlattenSeq(parts)) = {}
    BY <1>6, <2>1
  <2> DEFINE flat == FlattenSeq(parts)
  <2>3. flat \in Seq(CallType) /\ ToSet(flat) = {}
    BY <1>6, <2>2
  <2> HIDE DEF flat
  <2>4. flat = <<>>
    BY <2>3, NothingIn
  <2> QED
    BY <2>4 DEF flat
<1> QED
  BY <1>1, <1>6, <1>7, <1>8

LEMMA CallsSpelledOut ==
  ASSUME NEW said \in Seq(FrameType)
  PROVE  /\ SpelledOut(said) \in Seq(CallType)
         /\ SpelledOut(said) = <<>> <=> \A f \in ToSet(said) : f.args = <<>>
<1> DEFINE call(i) == [id |-> -i, args |-> said[i].args]
           parts == [i \in DOMAIN said |-> IF said[i].args = <<>> THEN <<>> ELSE <<call(i)>>]
           flat == FlattenSeq(parts)
<1>1. SpelledOut(said) = flat
  BY DEF SpelledOut
<1>2. \A i \in DOMAIN said : call(i) \in CallType /\ said[i] \in FrameType
  <2> SUFFICES ASSUME NEW i \in DOMAIN said
               PROVE  call(i) \in CallType /\ said[i] \in FrameType
    OBVIOUS
  <2>1. said[i] \in FrameType /\ -i \in Int
    OBVIOUS
  <2> QED
    BY <2>1 DEF CallType, FrameType
<1>3. parts \in Seq(Seq(CallType)) /\ DOMAIN parts = DOMAIN said
  <2>1. DOMAIN said = 1 .. Len(said) /\ Len(said) \in Nat
    OBVIOUS
  <2>2. \A i \in DOMAIN said : parts[i] \in Seq(CallType)
    <3> HIDE DEF call
    <3> QED
      BY <1>2
  <2>3. parts \in [1 .. Len(said) -> Seq(CallType)]
    BY <2>1, <2>2
  <2> HIDE DEF parts
  <2>4. parts \in Seq(Seq(CallType)) /\ DOMAIN parts = 1 .. Len(said)
    BY <2>1, <2>3
  <2> QED
    BY <2>1, <2>4
<1>4. \A i \in DOMAIN said : ToSet(parts[i]) = IF said[i].args = <<>> THEN {} ELSE {call(i)}
  <2> HIDE DEF call
  <2> QED
    BY DEF ToSet
<1> HIDE DEF parts, call
<1>5. flat \in Seq(CallType) /\ ToSet(flat) = UNION {ToSet(parts[i]) : i \in DOMAIN parts}
  BY <1>3, Flattened
<1> HIDE DEF flat
<1>6. flat = <<>> <=> ToSet(flat) = {}
  BY <1>5, NothingIn
<1>7. ToSet(flat) = {} <=> \A i \in DOMAIN said : said[i].args = <<>>
  <2>1. ASSUME NEW i \in DOMAIN said, said[i].args # <<>>
        PROVE  ToSet(flat) # {}
    <3>1. call(i) \in ToSet(parts[i])
      BY <1>4, <2>1
    <3> QED
      BY <1>3, <1>5, <3>1
  <2>2. ASSUME \A i \in DOMAIN said : said[i].args = <<>>
        PROVE  ToSet(flat) = {}
    <3>1. \A i \in DOMAIN parts : ToSet(parts[i]) = {}
      BY <1>3, <1>4, <2>2
    <3> QED
      BY <1>5, <3>1
  <2> QED
    BY <2>1, <2>2
<1> QED
  BY <1>1, <1>5, <1>6, <1>7 DEF ToSet

LEMMA LastCalls ==
  ASSUME NEW d \in DecoderType
  PROVE  /\ LastTools(d) \in Seq(CallType)
         /\ LastTools(d) = <<>> <=> ~HasTool(d) /\ \A f \in ToSet(d.said) : f.args = <<>>
<1> DEFINE made == finalizeTool(d).tools
           spelled == SpelledOut(d.said)
<1>1. made \in Seq(CallType) /\ (made = <<>> <=> ~HasTool(d))
  <2> DEFINE r == finalizeTool(d)
  <2>1. r \in DecoderType /\ r.current = NoTool /\ (HasTool(r) <=> HasTool(d))
    BY CallFinalized
  <2> HIDE DEF r
  <2>2. r.tools \in Seq(CallType) /\ (r.tools = <<>> <=> ~HasTool(d))
    BY <2>1 DEF DecoderType, HasTool
  <2> QED
    BY <2>2 DEF r
<1>2. /\ spelled \in Seq(CallType)
      /\ spelled = <<>> <=> \A f \in ToSet(d.said) : f.args = <<>>
  <2>1. d.said \in Seq(FrameType)
    BY DEF DecoderType
  <2> QED
    BY <2>1, CallsSpelledOut
<1>3. LastTools(d) = dedupToolCalls(made \o spelled)
  BY DEF LastTools
<1> HIDE DEF made, spelled
<1>4. made \o spelled \in Seq(CallType) /\ (made \o spelled = <<>> <=> made = <<>> /\ spelled = <<>>)
  BY <1>1, <1>2
<1> QED
  BY <1>1, <1>2, <1>3, <1>4, CallsWithoutDuplicates

LEMMA ClosingSet ==
  ASSUME NEW q \in Seq(EventType)
  PROVE  Closing(q) <=> \A e \in ToSet(q) : e.ev \notin {"text", "thinking", "delta", "message_stop", "error"}
BY DEF Closing, ToSet

LEMMA CallWritten ==
  ASSUME NEW at \in Nat, NEW call \in CallType
  PROVE  LET q == <<Event("tool", at, <<call.id>>), Event("input", at, call.args), Event("stop", at, <<>>)>>
         IN  q \in Seq(EventType) /\ Closing(q)
<1> DEFINE e1 == Event("tool", at, <<call.id>>)
           e2 == Event("input", at, call.args)
           e3 == Event("stop", at, <<>>)
           q == <<e1, e2, e3>>
<1>1. e1 \in EventType /\ e2 \in EventType /\ e3 \in EventType
  <2>1. <<>> \in Seq(Int) /\ <<call.id>> \in Seq(Int) /\ call.args \in Pieces
    <3>1. call.id \in Int /\ call.args \in Pieces
      BY DEF CallType
    <3> QED
      BY <3>1
  <2>2. e1 \in EventType
    BY <2>1, EventsTyped
  <2>3. e2 \in EventType
    BY <2>1, EventsTyped
  <2>4. e3 \in EventType
    BY <2>1, EventsTyped
  <2> QED
    BY <2>2, <2>3, <2>4
<1>2. e1.ev = "tool" /\ e2.ev = "input" /\ e3.ev = "stop"
  BY DEF Event
<1> HIDE DEF e1, e2, e3
<1>3. q \in Seq(EventType)
  BY <1>1
<1>4. Closing(q)
  <2>1. DOMAIN q = 1 .. 3 /\ q[1] = e1 /\ q[2] = e2 /\ q[3] = e3
    OBVIOUS
  <2> HIDE DEF q
  <2>2. \A i \in DOMAIN q : i = 1 \/ i = 2 \/ i = 3
    BY <2>1
  <2>3. \A i \in DOMAIN q : q[i].ev \in {"tool", "input", "stop"}
    BY <1>2, <2>1, <2>2
  <2> QED
    BY <2>3 DEF Closing
<1> QED
  BY <1>3, <1>4 DEF e1, e2, e3

LEMMA CallsWritten ==
  ASSUME NEW tools \in Seq(CallType), NEW next \in Nat
  PROVE  LET Tool(i) == LET at == next + i - 1
                        IN  <<Event("tool", at, <<tools[i].id>>), Event("input", at, tools[i].args),
                              Event("stop", at, <<>>)>>
             q == FlattenSeq([i \in DOMAIN tools |-> Tool(i)])
         IN  q \in Seq(EventType) /\ Closing(q)
<1> DEFINE Tool(i) == LET at == next + i - 1
                      IN  <<Event("tool", at, <<tools[i].id>>), Event("input", at, tools[i].args),
                            Event("stop", at, <<>>)>>
           parts == [i \in DOMAIN tools |-> Tool(i)]
           q == FlattenSeq(parts)
<1>1. DOMAIN tools = 1 .. Len(tools) /\ Len(tools) \in Nat
  OBVIOUS
<1>2. ASSUME NEW i \in DOMAIN tools
      PROVE  Tool(i) \in Seq(EventType) /\ Closing(Tool(i))
  <2> DEFINE at == next + i - 1
             call == tools[i]
  <2>1. at \in Nat /\ call \in CallType
    BY <1>1
  <2> HIDE DEF at, call
  <2>2. LET w == <<Event("tool", at, <<call.id>>), Event("input", at, call.args), Event("stop", at, <<>>)>>
        IN  w \in Seq(EventType) /\ Closing(w)
    BY <2>1, CallWritten
  <2> QED
    BY <2>2 DEF at, call
<1> HIDE DEF Tool
<1>3. parts \in Seq(Seq(EventType)) /\ DOMAIN parts = DOMAIN tools /\ \A i \in DOMAIN tools : parts[i] = Tool(i)
  <2>1. parts \in [1 .. Len(tools) -> Seq(EventType)]
    BY <1>1, <1>2
  <2>2. \A i \in DOMAIN tools : parts[i] = Tool(i)
    OBVIOUS
  <2> HIDE DEF parts
  <2>3. parts \in Seq(Seq(EventType)) /\ DOMAIN parts = 1 .. Len(tools)
    BY <1>1, <2>1
  <2> QED
    BY <1>1, <2>2, <2>3
<1> HIDE DEF parts
<1>4. q \in Seq(EventType) /\ ToSet(q) = UNION {ToSet(parts[i]) : i \in DOMAIN parts}
  BY <1>3, Flattened
<1> HIDE DEF q
<1>5. \A e \in ToSet(q) : e.ev \notin {"text", "thinking", "delta", "message_stop", "error"}
  <2> SUFFICES ASSUME NEW e \in ToSet(q)
               PROVE  e.ev \notin {"text", "thinking", "delta", "message_stop", "error"}
    OBVIOUS
  <2>1. PICK i \in DOMAIN tools : e \in ToSet(Tool(i))
    BY <1>3, <1>4
  <2> QED
    BY <1>2, <2>1, ClosingSet
<1>6. Closing(q)
  BY <1>4, <1>5, ClosingSet
<1> QED
  BY <1>4, <1>6 DEF q, parts, Tool

(* an answer that was cut off, as the decoder knows it *)
Cut(d) == ~d.usage /\ d.said # <<>> /\ ~HasTool(d) /\ \A f \in ToSet(d.said) : f.args = <<>>

(* The blocks that are still open are closed, whatever they are.             *)
LEMMA BlocksClosed ==
  ASSUME NEW b \in DecoderType, b.out = <<>>
  PROVE  LET d == closeThinkingBlock(ensureStarted(b))
         IN  /\ d \in DecoderType /\ Quiet(d.out)
             /\ d.tools = b.tools /\ d.said = b.said /\ d.usage = b.usage
<1> DEFINE e == Event("message_start", 0, <<>>)
           started == ensureStarted(b)
           q == ThinkingEnd(started.thinking)
           d == closeThinkingBlock(started)
<1>1. <<>> \in Seq(EventType) /\ Quiet(<<>>)
  BY NothingIsQuiet
<1>2. e \in EventType /\ e.ev = "message_start"
  <2>1. <<>> \in Seq(Int)
    OBVIOUS
  <2>2. e \in EventType
    BY <2>1, EventsTyped
  <2> QED
    BY <2>2 DEF Event
<1>3. /\ started \in DecoderType /\ Quiet(started.out)
      /\ started.tools = b.tools /\ started.said = b.said /\ started.usage = b.usage
  <2>1. CASE b.started
    BY <1>1, <2>1 DEF ensureStarted
  <2>2. CASE ~b.started
    <3> DEFINE c == [b EXCEPT !.started = TRUE]
    <3>1. started = [c EXCEPT !.out = Append(@, e)]
      BY <2>2 DEF ensureStarted, Emit
    <3>4. c \in DecoderType /\ c.out = <<>> /\ c.tools = b.tools /\ c.said = b.said /\ c.usage = b.usage
      BY DEF DecoderType
    <3> HIDE DEF started, e, c
    <3>2. <<e>> \in Seq(EventType) /\ Quiet(<<e>>) /\ <<>> \o <<e>> = <<e>>
      BY <1>2 DEF Quiet
    <3>5. started \in DecoderType /\ started = [c EXCEPT !.out = c.out \o <<e>>]
      BY <1>2, <3>1, <3>4, Emitted
    <3>3. /\ started \in DecoderType /\ started.out = <<e>>
          /\ started.tools = b.tools /\ started.said = b.said /\ started.usage = b.usage
      BY <3>2, <3>4, <3>5 DEF DecoderType
    <3> QED
      BY <3>2, <3>3
  <2> QED
    BY <2>1, <2>2
<1> HIDE DEF started
<1>4. started.thinking \in BlockType /\ started.out \in Seq(EventType)
  BY <1>3 DEF DecoderType
<1>5. q \in Seq(EventType) /\ Quiet(q)
  BY <1>4, EndOfThinking
<1>6. d = [started EXCEPT !.out = started.out \o q, !.thinking.open = FALSE]
  BY DEF closeThinkingBlock
<1> HIDE DEF q, d
<1>7. started.out \o q \in Seq(EventType) /\ Quiet(started.out \o q)
  BY <1>3, <1>4, <1>5, QuietTogether
<1>8. /\ d \in DecoderType /\ d.out = started.out \o q
      /\ d.tools = b.tools /\ d.said = b.said /\ d.usage = b.usage
  BY <1>3, <1>4, <1>6, <1>7 DEF DecoderType, BlockType
<1>9. /\ d \in DecoderType /\ Quiet(d.out)
      /\ d.tools = b.tools /\ d.said = b.said /\ d.usage = b.usage
  BY <1>7, <1>8
<1> QED
  BY <1>9 DEF d, started

LEMMA Finishes ==
  ASSUME decoder \in DecoderType, DecoderFinish(decoder)
  PROVE  /\ decoder' \in DecoderType
         /\ Closing(decoder'.out) /\ decoder'.out # <<>>
         /\ decoder'.out[Len(decoder'.out)].x[1] = (IF Cut(decoder) THEN "max_tokens" ELSE StopReason(decoder'))
         /\ StopReason(decoder') = "max_tokens" <=> Cut(decoder)
         /\ ContentTruncated(decoder') <=> Cut(decoder)
<1> DEFINE b == [decoder EXCEPT !.out = <<>>, !.tools = LastTools(decoder), !.current = NoTool]
           d == closeThinkingBlock(ensureStarted(b))
           Tool(i) == LET at == d.next + i - 1
                      IN  <<Event("tool", at, <<d.tools[i].id>>), Event("input", at, d.tools[i].args),
                            Event("stop", at, <<>>)>>
           text == IF d.text.open THEN <<Event("stop", d.text.at, <<>>)>> ELSE <<>>
           calls == FlattenSeq([i \in DOMAIN d.tools |-> Tool(i)])
           last == Event("message_delta", 0, <<StopReason(d)>>)
           q == d.out \o text \o calls \o <<last>>
<1>1. decoder' = [d EXCEPT !.out = q]
  BY DEF DecoderFinish
<1>2. /\ b \in DecoderType /\ b.out = <<>> /\ b.tools = LastTools(decoder)
      /\ b.said = decoder.said /\ b.usage = decoder.usage
  <2>1. LastTools(decoder) \in Seq(CallType) /\ <<>> \in Seq(EventType)
    BY LastCalls
  <2>2. NoTool \in CallType
    <3>1. <<>> \in Seq(Nat \X Nat)
      OBVIOUS
    <3> QED
      BY <3>1 DEF CallType, NoTool, Pieces
  <2> QED
    BY <2>1, <2>2 DEF DecoderType
<1> HIDE DEF b
<1>3. /\ d \in DecoderType /\ Quiet(d.out)
      /\ d.tools = LastTools(decoder) /\ d.said = decoder.said /\ d.usage = decoder.usage
  BY <1>2, BlocksClosed
<1> HIDE DEF d
<1>4. /\ d.out \in Seq(EventType) /\ d.text \in BlockType /\ d.text.at \in Nat /\ d.next \in Nat
      /\ d.tools \in Seq(CallType) /\ d.said \in Seq(FrameType) /\ d.usage \in BOOLEAN
  BY <1>3 DEF DecoderType, BlockType
<1>5. text \in Seq(EventType) /\ Quiet(text)
  <2> DEFINE e == Event("stop", d.text.at, <<>>)
  <2>1. e \in EventType /\ e.ev = "stop"
    <3>1. <<>> \in Seq(Int)
      OBVIOUS
    <3>2. e \in EventType
      BY <1>4, <3>1, EventsTyped
    <3> QED
      BY <3>2 DEF Event
  <2>2. text \in {<<>>, <<e>>}
    OBVIOUS
  <2> HIDE DEF text, e
  <2>3. <<e>> \in Seq(EventType) /\ Quiet(<<e>>)
    BY <2>1 DEF Quiet
  <2> QED
    BY <2>2, <2>3, NothingIsQuiet
<1>6. calls \in Seq(EventType) /\ Closing(calls)
  BY <1>4, CallsWritten
<1>7. /\ ContentTruncated(d) <=> Cut(decoder)
      /\ StopReason(d) = "max_tokens" <=> Cut(decoder)
  <2>1. ContentTruncated(d) <=> Cut(decoder)
    BY <1>3, LastCalls DEF ContentTruncated, Cut
  <2>2. StopReason(d) = "max_tokens" <=> ContentTruncated(d)
    BY DEF StopReason, ContentTruncated
  <2> QED
    BY <2>1, <2>2
<1>8. last \in EventType /\ last.ev = "message_delta" /\ last.x[1] = StopReason(d)
  <2>1. StopReason(d) \in StopReasons
    BY DEF StopReason, StopReasons
  <2>2. <<StopReason(d)>> \in Seq(StopReasons)
    BY <2>1
  <2>3. last \in EventType
    BY <2>2, EventsTyped
  <2> QED
    BY <2>3 DEF Event
<1> HIDE DEF text, calls, last
<1>9. d.out \o text \o calls \in Seq(EventType) /\ Closing(d.out \o text \o calls)
  <2>1. d.out \o text \in Seq(EventType) /\ Closing(d.out \o text)
    BY <1>3, <1>4, <1>5, QuietTogether, QuietIsClosing
  <2> QED
    BY <1>6, <2>1, ClosingTogether
<1>10. /\ q \in Seq(EventType) /\ Closing(q) /\ q # <<>>
       /\ q[Len(q)] = last
  <2> DEFINE p == d.out \o text \o calls
  <2>1. p \in Seq(EventType) /\ Closing(p)
    BY <1>9
  <2>2. <<last>> \in Seq(EventType) /\ Closing(<<last>>)
    BY <1>8 DEF Closing
  <2>3. q = p \o <<last>>
    OBVIOUS
  <2> HIDE DEF p, q
  <2>4. q \in Seq(EventType) /\ Closing(q)
    BY <2>1, <2>2, <2>3, ClosingTogether
  <2>5. Len(q) = Len(p) + 1 /\ q[Len(q)] = last /\ q # <<>>
    BY <1>8, <2>1, <2>3
  <2> QED
    BY <2>4, <2>5
<1> HIDE DEF q
<1>11. /\ decoder' \in DecoderType /\ decoder'.out = q /\ decoder'.said = d.said
       /\ decoder'.tools = d.tools /\ decoder'.usage = d.usage
  BY <1>1, <1>3, <1>10 DEF DecoderType
<1>12. ContentTruncated(decoder') = ContentTruncated(d) /\ StopReason(decoder') = StopReason(d)
  BY <1>11 DEF ContentTruncated, StopReason
<1> QED
  BY <1>7, <1>8, <1>10, <1>11, <1>12

-----------------------------------------------------------------------------
(* The inductive invariant.                                                  *)

(* the events that reach the caller, with those still in the channel *)
Events == IF phase = "first" /\ channel # <<>> THEN channel[1].events ELSE emitted

(* the frames the adapter has read *)
Taken == Len(Sent) - Len(net)
TakenFrames == {OnTheWire(Sent[i]) : i \in 1 .. Taken}

Behind(s, kind, fs, fkind) ==
    \A m \in NumbersIn(s, kind), i \in DOMAIN fs : fs[i].kind = fkind => m < fs[i].n

Piped(s, F, pending) ==
    /\ Upto(decoder, s, F)
    /\ TakenFrames = F \cup ToSet(pending)
    /\ RisingFrames(pending, "content") /\ RisingFrames(pending, "thinking")
    /\ Behind(s, "text", pending, "content") /\ Behind(s, "thinking", pending, "thinking")

(* While somebody reads the body, the frames read are those the decoder has  *)
(* had and those pending, and the events s it returned for the former, which *)
(* the caller has if it still reads, tell what they say and no more.         *)
Going == phase \in {"asked", "first", "streaming"} \/ reader = "reading"
Pipeline ==
    Going =>
        \E s \in Seq(EventType), F \in SUBSET TakenFrames :
            (present => s = Events) /\ Piped(s, F, adapter.pending)

(* The provider numbers a text by the frame that says it first, repeats only *)
(* its last content, and starts a call before it sends anything of it.       *)
SentOK ==
    /\ \A i \in DOMAIN Sent :
          /\ Sent[i].kind \in {"content", "thinking"} => Sent[i].n \in 1 .. i
          /\ Sent[i].kind = "thinking" => Sent[i].n = i
          /\ Sent[i].kind = "tool" => Sent[i].n # 0 /\ Sent[i].n \in Calls
          /\ Sent[i].kind \notin {"tool", "content"} => Sent[i].args = <<>>
          /\ Sent[i].kind = "usage" => Sent[i] = Usage
    /\ \A i, j \in DOMAIN Sent : i < j /\ Sent[i].kind = "content" /\ Sent[j].kind = "content" =>
          Sent[i].n <= Sent[j].n /\ (Sent[i].n = Sent[j].n => Sent[i] = Sent[j])

NetIsRest ==
    /\ Len(net) <= Len(Sent)
    /\ \A k \in DOMAIN net : net[k] = OnTheWire(Sent[Taken + k])

LastIsLatest ==
    /\ adapter.last # 0 => \E i \in 1 .. Taken : Sent[i].kind = "content" /\ Sent[i].n = adapter.last
    /\ \A i \in 1 .. Taken : Sent[i].kind = "content" => Sent[i].n <= adapter.last

EndMeansAll == adapter.end = "eof" => provider.end # "open" /\ net = <<>>

(* the goroutine, its channel and the handler go hand in hand *)
Phases ==
    /\ phase \in {"asked", "first", "refused"} => emitted = <<>>
    /\ reader # "gone" => channel = <<>> /\ decoder = NewDecoder
    /\ phase = "asked" => reader = "none"
    /\ phase = "first" => reader # "none" /\ (reader = "reading" <=> channel = <<>>)
    /\ phase = "first" /\ channel # <<>> /\ channel[1].err # "none" => channel[1].events = <<>>
    /\ phase = "streaming" => reader = "gone" /\ channel = <<>>
    /\ phase # "done" => \A i \in DOMAIN emitted : emitted[i].ev \notin {"message_stop", "error", "tool"}

Pairs == {<<"text", "content">>, <<"thinking", "thinking">>}
InOrder ==
    \A pair \in Pairs :
        /\ Rising(emitted, pair[1])
        /\ NumbersIn(emitted, pair[1]) \subseteq Told(pair[2])
        /\ \A m \in NumbersIn(emitted, pair[1]), n \in Told(pair[2]) :
              n < m => n \in NumbersIn(emitted, pair[1])

CutOff ==
    /\ Usage \notin ToSet(Sent) /\ Calls = {}
    /\ DeltasIn(emitted, "text") # {} /\ \A f \in ToSet(Sent) : f.args = <<>>
Ended ==
    Finished =>
        /\ provider.end # "open"
        /\ \A pair \in Pairs : NumbersIn(emitted, pair[1]) = Told(pair[2])
        /\ (Stopping = "max_tokens") = CutOff /\ Reported.content = CutOff

ErrorsTold == Places("error") # {} => adapter.end = "error" \/ Damaged \in ToSet(Sent)

IInv ==
    /\ TypeOK /\ Pipeline /\ SentOK /\ NetIsRest /\ LastIsLatest /\ EndMeansAll /\ Phases
    /\ InOrder /\ Ended /\ ErrorsTold

-----------------------------------------------------------------------------
(* What the invariant says of the properties.                                *)

LEMMA DeltasAre ==
  ASSUME NEW kind
  PROVE  Deltas(kind) = DeltasIn(emitted, kind) /\ Heard(kind) = NumbersIn(emitted, kind)
<1>1. Deltas(kind) = DeltasIn(emitted, kind)
  BY DEF Deltas, DeltasIn, Places, OpenedAs
<1> QED
  BY <1>1 DEF Heard, NumbersIn

LEMMA OrderImplied == IInv => NothingRepeatedOrLost
<1> SUFFICES ASSUME IInv, NEW pair \in Pairs
             PROVE  /\ \A i, j \in Deltas(pair[1]) : i < j => emitted[i].x[1] < emitted[j].x[1]
                    /\ Heard(pair[1]) \subseteq Told(pair[2])
                    /\ \A m \in Heard(pair[1]), n \in Told(pair[2]) : n < m => n \in Heard(pair[1])
                    /\ Finished => Heard(pair[1]) = Told(pair[2])
  BY DEF NothingRepeatedOrLost, Pairs
<1>1. Deltas(pair[1]) = DeltasIn(emitted, pair[1]) /\ Heard(pair[1]) = NumbersIn(emitted, pair[1])
  BY DeltasAre
<1> QED
  BY <1>1 DEF IInv, InOrder, Ended, Rising

LEMMA CutImplied == IInv => CutAnswersSaySo
<1> SUFFICES ASSUME IInv
             PROVE  CutAnswersSaySo
  OBVIOUS
<1>1. Deltas("text") = DeltasIn(emitted, "text")
  BY DeltasAre
<1>2. Finished => (Stopping = "max_tokens") = CutOff /\ Reported.content = CutOff
  BY DEF IInv, Ended
<1>3. CutOff = (/\ Usage \notin ToSet(Sent) /\ Calls = {}
                /\ Deltas("text") # {} /\ \A f \in ToSet(Sent) : f.args = <<>>)
  BY <1>1 DEF CutOff
<1> QED
  BY <1>2, <1>3 DEF IInv, ErrorsTold, CutAnswersSaySo

-----------------------------------------------------------------------------
(* What the provider sends.                                                  *)

LEMMA OnTheWireType ==
  ASSUME NEW f \in FrameType
  PROVE  /\ OnTheWire(f) \in FrameType /\ OnTheWire(f).kind = f.kind
         /\ OnTheWire(f).args = f.args /\ OnTheWire(f).named = f.named
         /\ f.kind # "tool" \/ f.named => OnTheWire(f) = f
  BY DEF OnTheWire, FrameType

LEMMA SentTyped ==
  ASSUME TypeOK
  PROVE  /\ Sent \in Seq(FrameType) /\ Len(Sent) \in Nat /\ DOMAIN Sent = 1 .. Len(Sent)
         /\ Calls \subseteq Nat
<1>1. Sent \in Seq(FrameType)
  BY DEF TypeOK, Sent
<1>2. Len(Sent) \in Nat /\ DOMAIN Sent = 1 .. Len(Sent)
  BY <1>1
<1>3. \A f \in ToSet(Sent) : f.n \in Nat
  <2>1. \A f \in ToSet(Sent) : f \in FrameType
    BY <1>1 DEF ToSet
  <2> QED
    BY <2>1 DEF FrameType
<1> QED
  BY <1>1, <1>2, <1>3 DEF Calls

LEMMA ArgumentsTyped ==
  ASSUME NEW call \in Nat
  PROVE  Arguments(call) \in Pieces /\ \A part \in Nat : <<<<call, part>>>> \in Pieces
  BY DEF Arguments, Pieces

LEMMA GivenTyped ==
  ASSUME TypeOK, NEW call \in Nat
  PROVE  Given(call) \in Pieces
<1> DEFINE parts == [i \in DOMAIN Sent |->
               IF Sent[i].kind = "tool" /\ Sent[i].n = call THEN Sent[i].args ELSE <<>>]
<1>1. \A i \in DOMAIN Sent : parts[i] \in Pieces
  <2>1. <<>> \in Pieces
    BY DEF Pieces
  <2>2. \A i \in DOMAIN Sent : Sent[i] \in FrameType
    BY SentTyped
  <2>3. \A i \in DOMAIN Sent : Sent[i].args \in Pieces
    BY <2>2 DEF FrameType
  <2> QED
    BY <2>1, <2>3
<1>2. parts \in Seq(Pieces)
  <2>1. parts \in [1 .. Len(Sent) -> Pieces]
    BY <1>1, SentTyped
  <2> HIDE DEF parts
  <2> QED
    BY <2>1, SentTyped
<1> HIDE DEF parts
<1>3. FlattenSeq(parts) \in Pieces
  BY <1>2, Flattened DEF Pieces
<1> QED
  BY <1>3, ArgumentsTyped DEF Given, parts

(* a frame that may follow those sent *)
Follows(f) ==
    /\ f \in FrameType
    /\ f.kind = "content" =>
          /\ f.n \in 1 .. Len(Sent) + 1
          /\ \A i \in DOMAIN Sent : Sent[i].kind = "content" =>
                Sent[i].n <= f.n /\ (Sent[i].n = f.n => Sent[i] = f)
          /\ f.n \in Told("content") \/ f.n = Len(Sent) + 1
    /\ f.kind = "thinking" => f.n = Len(Sent) + 1
    /\ f.kind = "tool" => f.n # 0 /\ (f.named \/ f.n \in Calls)
    /\ f.kind \notin {"tool", "content"} => f.args = <<>>
    /\ f.kind = "usage" => f = Usage

LEMMA FramesFollow ==
  ASSUME TypeOK, SentOK, NEW f \in Frames
  PROVE  Follows(f)
<1> DEFINE n == Len(Sent) + 1
<1>1. /\ Sent \in Seq(FrameType) /\ Len(Sent) \in Nat /\ DOMAIN Sent = 1 .. Len(Sent)
      /\ Calls \subseteq Nat /\ n \in Nat /\ n # 0
  BY SentTyped
<1>2. \A c \in Calls : c # 0
  BY DEF Calls, SentOK, ToSet
<1>3. <<>> \in Pieces
  BY DEF Pieces
<1>4. \A i \in DOMAIN Sent : Sent[i].kind = "content" => Sent[i].n < n
  BY <1>1 DEF SentOK
<1>5. ASSUME NEW args \in Pieces
      PROVE  Follows(Content(n, args))
  <2> DEFINE g == Content(n, args)
  <2>1. g \in FrameType /\ g.kind = "content" /\ g.n = n
    BY <1>1 DEF Content, Frame, FrameType, Kinds
  <2> HIDE DEF g
  <2>2. \A i \in DOMAIN Sent : Sent[i].kind = "content" =>
           Sent[i].n <= g.n /\ (Sent[i].n = g.n => Sent[i] = g)
    BY <1>1, <1>4, <2>1 DEF SentOK
  <2>3. g.n \in 1 .. Len(Sent) + 1
    BY <1>1, <2>1
  <2>4. Follows(g)
    BY <2>1, <2>2, <2>3 DEF Follows
  <2> QED
    BY <2>4 DEF g
<1>6. CASE f \in {Content(n, <<>>), Content(n, Arguments(n))}
  BY <1>1, <1>3, <1>5, <1>6, ArgumentsTyped
<1>7. CASE f = Thinking(n)
  BY <1>1, <1>3, <1>7 DEF Thinking, Frame, Follows, FrameType, Kinds
<1>8. CASE f = Signature
  BY <1>1, <1>3, <1>8 DEF Signature, Frame, Follows, FrameType, Kinds
<1>9. CASE f = Damaged
  BY <1>1, <1>3, <1>9 DEF Damaged, Frame, Follows, FrameType, Kinds
<1>10. CASE f = Usage
  BY <1>1, <1>3, <1>10 DEF Usage, Frame, Follows, FrameType, Kinds
<1>11. CASE f \in {Sent[i] : i \in LastContent}
  <2>1. PICK i \in LastContent : f = Sent[i]
    BY <1>11
  <2>2. /\ i \in DOMAIN Sent /\ f.kind = "content" /\ f \in FrameType
        /\ \A j \in DOMAIN Sent : Sent[j].kind = "content" => j <= i
    BY <1>1, <2>1 DEF LastContent
  <2>3. \A j \in DOMAIN Sent : Sent[j].kind = "content" =>
           Sent[j].n <= f.n /\ (Sent[j].n = f.n => Sent[j] = f)
    <3> SUFFICES ASSUME NEW j \in DOMAIN Sent, Sent[j].kind = "content"
                 PROVE  Sent[j].n <= f.n /\ (Sent[j].n = f.n => Sent[j] = f)
      OBVIOUS
    <3>1. CASE j = i
      BY <2>1, <2>2, <3>1 DEF FrameType
    <3>2. CASE j < i
      BY <2>1, <2>2, <3>2 DEF SentOK
    <3> QED
      BY <1>1, <2>2, <3>1, <3>2
  <2>4. f.n \in 1 .. Len(Sent) + 1 /\ f.n \in Told("content")
    BY <1>1, <2>1, <2>2 DEF SentOK, Told
  <2> QED
    BY <2>2, <2>3, <2>4 DEF Follows
<1>12. CASE f \in {Content(n, Arguments(c)) : c \in {d \in Calls : Given(d) = Arguments(d)}}
  <2>1. PICK c \in Calls : f = Content(n, Arguments(c))
    BY <1>12
  <2>2. Arguments(c) \in Pieces
    BY <1>1, ArgumentsTyped
  <2> QED
    BY <1>5, <2>1, <2>2
<1>13. CASE f \in {Start(n), Whole(n)}
  <2>1. Arguments(n) \in Pieces
    BY <1>1, ArgumentsTyped
  <2> QED
    <3>1. Start(n) \in FrameType /\ Start(n).kind = "tool" /\ Start(n).n = n /\ Start(n).named
      BY <1>1, <1>3 DEF Start, Frame, FrameType, Kinds
    <3>2. Whole(n) \in FrameType /\ Whole(n).kind = "tool" /\ Whole(n).n = n /\ Whole(n).named
      BY <1>1, <2>1 DEF Whole, Frame, FrameType, Kinds
    <3> QED
      BY <1>1, <1>13, <3>1, <3>2 DEF Follows
<1>14. CASE f \in {g \in ToSet(Sent) : g = Whole(g.n)}
  <2>1. f \in FrameType /\ f.kind = "tool" /\ f.named /\ f = Whole(f.n)
    BY <1>1, <1>14 DEF ToSet, Whole, Frame
  <2>2. f.n # 0
    BY <1>14, <2>1 DEF ToSet, SentOK
  <2> QED
    BY <2>1, <2>2 DEF Follows
<1>15. CASE f \in {Input(c, Len(Given(c)) + 1, provider.repeats) : c \in Calls}
  <2>1. PICK c \in Calls : f = Input(c, Len(Given(c)) + 1, provider.repeats)
    BY <1>15
  <2>2. Len(Given(c)) + 1 \in Nat
    BY <1>1, GivenTyped DEF Pieces
  <2>3. <<<<c, Len(Given(c)) + 1>>>> \in Pieces
    BY <1>1, <2>2, ArgumentsTyped
  <2>4. provider.repeats \in BOOLEAN /\ c \in Nat /\ c # 0
    BY <1>1, <1>2 DEF TypeOK
  <2> QED
    BY <2>1, <2>3, <2>4 DEF Input, Frame, Follows, FrameType, Kinds
<1>16. CASE f \in {Stop(c, provider.repeats) : c \in Calls}
  <2>1. PICK c \in Calls : f = Stop(c, provider.repeats)
    BY <1>16
  <2>2. provider.repeats \in BOOLEAN /\ c \in Nat /\ c # 0
    BY <1>1, <1>2 DEF TypeOK
  <2> QED
    BY <1>3, <2>1, <2>2 DEF Stop, Frame, Follows, FrameType, Kinds
<1>17. CASE f = Garbled
  BY <1>1, <1>3, <1>17 DEF Garbled, Frame, Follows, FrameType, Kinds
<1> QED
  <2>1. \/ f \in {Content(n, <<>>), Content(n, Arguments(n)), Thinking(n), Signature, Damaged, Garbled,
                Usage}
        \/ f \in {Sent[i] : i \in LastContent}
        \/ f \in {Content(n, Arguments(c)) : c \in {d \in Calls : Given(d) = Arguments(d)}}
        \/ f \in {Start(n), Whole(n)}
        \/ f \in {g \in ToSet(Sent) : g = Whole(g.n)}
        \/ f \in {Input(c, Len(Given(c)) + 1, provider.repeats) : c \in Calls}
        \/ f \in {Stop(c, provider.repeats) : c \in Calls}
    BY DEF Frames, Unstopped
  <2> QED
    BY <2>1, <1>6, <1>7, <1>8, <1>9, <1>10, <1>11, <1>12, <1>13, <1>14, <1>15, <1>16, <1>17

-----------------------------------------------------------------------------
(* What a step keeps that leaves alone what it is about.                     *)

LEMMA PipelineKept ==
  ASSUME Pipeline, decoder' = decoder, TakenFrames' = TakenFrames, adapter'.pending = adapter.pending,
         Events' = Events, present' => present, Going' => Going
  PROVE  Pipeline'
<1> SUFFICES ASSUME Going'
             PROVE  \E s \in Seq(EventType), F \in SUBSET TakenFrames' :
                       (present' => s = Events') /\ Piped(s, F, adapter.pending)'
  BY DEF Pipeline, Going, Piped
<1>1. PICK s \in Seq(EventType), F \in SUBSET TakenFrames :
           (present => s = Events) /\ Piped(s, F, adapter.pending)
  BY DEF Pipeline, Going
<1>2. Piped(s, F, adapter.pending)'
  BY <1>1 DEF Piped
<1> QED
  BY <1>1, <1>2

LEMMA SentKept ==
  ASSUME SentOK, Sent' = Sent
  PROVE  SentOK'
  BY DEF SentOK, Calls

LEMMA TakenKept ==
  ASSUME NetIsRest, LastIsLatest, Sent' = Sent, net' = net
  PROVE  /\ NetIsRest' /\ TakenFrames' = TakenFrames /\ Taken' = Taken
         /\ adapter'.last = adapter.last => LastIsLatest'
  BY DEF NetIsRest, LastIsLatest, TakenFrames, Taken

LEMMA OrderKept ==
  ASSUME InOrder, Ended, Sent' = Sent, emitted' = emitted, provider.end # "open" => provider'.end # "open"
  PROVE  InOrder' /\ Ended'
<1>1. InOrder'
  BY DEF InOrder, Told
<1>2. Ended'
  BY DEF Ended, Told, CutOff, Finished, Stopping, Reported, Calls
<1> QED
  BY <1>1, <1>2

LEMMA ErrorsKept ==
  ASSUME ErrorsTold, Sent' = Sent, emitted' = emitted, adapter.end = "error" => adapter'.end = "error"
  PROVE  ErrorsTold'
  BY DEF ErrorsTold, Places

-----------------------------------------------------------------------------
(* The steps of the provider, the caller and the timers.                     *)

LEMMA SendKeeps ==
  ASSUME IInv, NEW f \in Frames, Send(f)
  PROVE  IInv'
<1> DEFINE n == Len(Sent) + 1
           w == OnTheWire(f)
<1>1. /\ TypeOK /\ Pipeline /\ SentOK /\ NetIsRest /\ LastIsLatest /\ EndMeansAll /\ Phases
      /\ InOrder /\ Ended /\ ErrorsTold
  BY DEF IInv
<1>2. Follows(f) /\ f \in FrameType /\ w \in FrameType
  BY <1>1, FramesFollow, OnTheWireType DEF Follows
<1>3. /\ Sent \in Seq(FrameType) /\ Len(Sent) \in Nat /\ DOMAIN Sent = 1 .. Len(Sent)
      /\ net \in Seq(FrameType) /\ Len(net) \in Nat /\ DOMAIN net = 1 .. Len(net)
  <2>1. net \in Seq(FrameType)
    BY <1>1 DEF TypeOK
  <2> QED
    BY <1>1, <2>1, SentTyped
<1>4. /\ provider' = [provider EXCEPT !.sent = Append(Sent, f)] /\ net' = Append(net, w)
      /\ partial' = [partial EXCEPT !.back = FALSE]
      /\ closed' = closed /\ adapter' = adapter /\ decoder' = decoder /\ reader' = reader
      /\ channel' = channel /\ phase' = phase /\ emitted' = emitted /\ present' = present
      /\ provider.end = "open"
  BY DEF Send, More, Sent
<1>5. Sent' = Append(Sent, f) /\ provider' \in [sent : Seq(FrameType), repeats : BOOLEAN,
                                                end : {"open", "closed", "broken"}]
      /\ provider'.end = "open"
  <2>1. Append(Sent, f) \in Seq(FrameType)
    BY <1>2, <1>3
  <2> QED
    BY <1>1, <1>4, <2>1 DEF TypeOK, Sent
<1> HIDE DEF w
<1>6. /\ \A i \in DOMAIN Sent : i \in DOMAIN Sent' /\ Sent'[i] = Sent[i] /\ i \in Nat /\ i < n
      /\ n \in DOMAIN Sent' /\ Sent'[n] = f /\ Len(Sent') = n /\ n \in Nat
      /\ \A i \in DOMAIN Sent' : i \in DOMAIN Sent \/ i = n
  BY <1>2, <1>3, <1>5
<1>7. /\ \A k \in DOMAIN net : k \in DOMAIN net' /\ net'[k] = net[k]
      /\ \A k \in DOMAIN net' : k \in DOMAIN net \/ k = Len(net) + 1
      /\ net'[Len(net) + 1] = w /\ Len(net') = Len(net) + 1 /\ net' \in Seq(FrameType)
  BY <1>2, <1>3, <1>4
<1>8. Taken' = Taken /\ Taken \in 0 .. Len(Sent)
  BY <1>1, <1>3, <1>6, <1>7 DEF Taken, NetIsRest
<1>9. TakenFrames' = TakenFrames
  <2>1. \A i \in 1 .. Taken : Sent'[i] = Sent[i]
    BY <1>3, <1>6, <1>8
  <2> QED
    BY <1>8, <2>1 DEF TakenFrames
<1>10. ToSet(Sent') = ToSet(Sent) \cup {f}
  BY <1>2, <1>3, <1>5, OneMoreFrame
<1>11. TypeOK'
  <2>1. partial' \in [front : BOOLEAN, back : BOOLEAN]
    BY <1>1, <1>4 DEF TypeOK
  <2> QED
    BY <1>1, <1>4, <1>5, <1>7, <2>1 DEF TypeOK
<1>12. Pipeline'
  <2>1. Events' = Events
    BY <1>4 DEF Events
  <2> QED
    BY <1>1, <1>4, <1>9, <2>1, PipelineKept DEF Going
<1>13. SentOK'
  <2>1. \A c \in Calls : c \in Calls'
    BY <1>10 DEF Calls
  <2>2. f.kind = "tool" => f.n \in Calls'
    BY <1>2, <1>10, <2>1 DEF Follows, Calls
  <2>3. ASSUME NEW i \in DOMAIN Sent'
        PROVE  /\ Sent'[i].kind \in {"content", "thinking"} => Sent'[i].n \in 1 .. i
               /\ Sent'[i].kind = "thinking" => Sent'[i].n = i
               /\ Sent'[i].kind = "tool" => Sent'[i].n # 0 /\ Sent'[i].n \in Calls'
               /\ Sent'[i].kind \notin {"tool", "content"} => Sent'[i].args = <<>>
               /\ Sent'[i].kind = "usage" => Sent'[i] = Usage
    <3>1. CASE i \in DOMAIN Sent
      BY <1>1, <1>6, <2>1, <3>1 DEF SentOK
    <3>2. CASE i = n
      <4>1. f.kind \in {"content", "thinking"} => f.n \in 1 .. n
        BY <1>2, <1>3, <1>6 DEF Follows
      <4> QED
        BY <1>2, <1>6, <2>2, <3>2, <4>1 DEF Follows
    <3> QED
      BY <1>6, <3>1, <3>2
  <2>4. ASSUME NEW i \in DOMAIN Sent', NEW j \in DOMAIN Sent', i < j,
               Sent'[i].kind = "content", Sent'[j].kind = "content"
        PROVE  Sent'[i].n <= Sent'[j].n /\ (Sent'[i].n = Sent'[j].n => Sent'[i] = Sent'[j])
    <3>1. i \in DOMAIN Sent
      BY <1>6, <2>4
    <3>2. CASE j \in DOMAIN Sent
      BY <1>1, <1>6, <2>4, <3>1, <3>2 DEF SentOK
    <3>3. CASE j = n
      BY <1>2, <1>6, <2>4, <3>1, <3>3 DEF Follows
    <3> QED
      BY <1>6, <3>2, <3>3
  <2> QED
    BY <2>3, <2>4 DEF SentOK
<1>14. NetIsRest'
  <2>1. Len(net') <= Len(Sent')
    BY <1>1, <1>3, <1>6, <1>7 DEF NetIsRest
  <2>2. ASSUME NEW k \in DOMAIN net'
        PROVE  net'[k] = OnTheWire(Sent'[Taken + k])
    <3>1. CASE k \in DOMAIN net
      <4>1. Taken + k \in DOMAIN Sent
        BY <1>3, <1>8, <3>1 DEF Taken
      <4> QED
        BY <1>1, <1>6, <1>7, <3>1, <4>1 DEF NetIsRest
    <3>2. CASE k = Len(net) + 1
      <4>1. Taken + k = n
        BY <1>3, <3>2 DEF Taken
      <4> QED
        BY <1>6, <1>7, <3>2, <4>1 DEF w
    <3> QED
      BY <1>7, <3>1, <3>2
  <2> QED
    BY <1>8, <2>1, <2>2 DEF NetIsRest
<1>15. LastIsLatest'
  <2>1. \A i \in 1 .. Taken : i \in DOMAIN Sent /\ Sent'[i] = Sent[i]
    BY <1>3, <1>6, <1>8
  <2> QED
    BY <1>1, <1>4, <1>8, <2>1 DEF LastIsLatest
<1>16. EndMeansAll'
  BY <1>1, <1>4 DEF EndMeansAll
<1>17. Phases'
  BY <1>1, <1>4 DEF Phases
<1>18. InOrder'
  <2> SUFFICES ASSUME NEW pair \in Pairs
               PROVE  /\ Rising(emitted, pair[1])
                      /\ NumbersIn(emitted, pair[1]) \subseteq Told(pair[2])'
                      /\ \A m \in NumbersIn(emitted, pair[1]), k \in Told(pair[2])' :
                            k < m => k \in NumbersIn(emitted, pair[1])
    BY <1>4 DEF InOrder
  <2>1. /\ Rising(emitted, pair[1])
        /\ NumbersIn(emitted, pair[1]) \subseteq Told(pair[2])
        /\ \A m \in NumbersIn(emitted, pair[1]), k \in Told(pair[2]) :
              k < m => k \in NumbersIn(emitted, pair[1])
    BY <1>1 DEF InOrder
  <2>2. \A k \in Told(pair[2]) : k \in Told(pair[2])'
    BY <1>6 DEF Told
  <2>3. \A k \in Told(pair[2])' : k \in Told(pair[2]) \/ (f.kind = pair[2] /\ k = f.n)
    BY <1>6 DEF Told
  <2>4. \A m \in Told(pair[2]) : m \in Nat /\ m < n
    BY <1>1, <1>3, <1>6 DEF SentOK, Told, Pairs
  <2>5. f.kind = pair[2] => f.n \in Told(pair[2]) \/ f.n = n
    BY <1>2 DEF Follows, Pairs
  <2>6. ASSUME NEW m \in NumbersIn(emitted, pair[1]), NEW k \in Told(pair[2])', k < m
        PROVE  k \in NumbersIn(emitted, pair[1])
    <3>1. k # n
      BY <1>6, <2>1, <2>4, <2>6
    <3> QED
      BY <2>1, <2>3, <2>5, <2>6, <3>1
  <2> QED
    BY <2>1, <2>2, <2>6
<1>19. Ended'
  BY <1>1, <1>4 DEF Ended, Finished
<1>20. ErrorsTold'
  BY <1>1, <1>4, <1>10 DEF ErrorsTold, Places
<1> QED
  BY <1>11, <1>12, <1>13, <1>14, <1>15, <1>16, <1>17, <1>18, <1>19, <1>20 DEF IInv

LEMMA EndKeeps ==
  ASSUME IInv, NEW how \in {"closed", "broken"}, End(how)
  PROVE  IInv'
<1>1. /\ TypeOK /\ Pipeline /\ SentOK /\ NetIsRest /\ LastIsLatest /\ EndMeansAll /\ Phases
      /\ InOrder /\ Ended /\ ErrorsTold
  BY DEF IInv
<1>2. /\ provider' = [provider EXCEPT !.end = how] /\ net' = net
      /\ partial' = partial /\ closed' = closed /\ adapter' = adapter /\ decoder' = decoder /\ reader' = reader
      /\ channel' = channel /\ phase' = phase /\ emitted' = emitted /\ present' = present
  BY DEF End
<1>3. /\ Sent' = Sent /\ provider'.end # "open"
      /\ provider' \in [sent : Seq(FrameType), repeats : BOOLEAN, end : {"open", "closed", "broken"}]
  BY <1>1, <1>2 DEF TypeOK, Sent
<1>4. TypeOK'
  BY <1>1, <1>2, <1>3 DEF TypeOK
<1>5. NetIsRest' /\ TakenFrames' = TakenFrames /\ LastIsLatest'
  BY <1>1, <1>2, <1>3, TakenKept
<1>6. Pipeline'
  <2>1. Events' = Events
    BY <1>2 DEF Events
  <2> QED
    BY <1>1, <1>2, <1>5, <2>1, PipelineKept DEF Going
<1>7. SentOK' /\ InOrder' /\ Ended' /\ ErrorsTold'
  BY <1>1, <1>2, <1>3, SentKept, OrderKept, ErrorsKept
<1>8. EndMeansAll' /\ Phases'
  BY <1>1, <1>2, <1>3 DEF EndMeansAll, Phases
<1> QED
  BY <1>4, <1>5, <1>6, <1>7, <1>8 DEF IInv

LEMMA ReadClosedKeeps ==
  ASSUME IInv, ReadClosed
  PROVE  IInv'
<1>1. /\ TypeOK /\ Pipeline /\ SentOK /\ NetIsRest /\ LastIsLatest /\ EndMeansAll /\ Phases
      /\ InOrder /\ Ended /\ ErrorsTold
  BY DEF IInv
<1>2. /\ provider' = provider /\ net' = net /\ adapter' = [adapter EXCEPT !.end = "error"]
      /\ partial' = partial /\ closed' = closed /\ decoder' = decoder /\ reader' = reader
      /\ channel' = channel /\ phase' = phase /\ emitted' = emitted /\ present' = present
  BY DEF ReadClosed
<1>3. /\ Sent' = Sent /\ adapter'.end = "error" /\ adapter'.pending = adapter.pending
      /\ adapter'.last = adapter.last
      /\ adapter' \in [pending : Seq(FrameType), last : Nat, buf : BOOLEAN, end : {"none", "eof", "error"}]
  BY <1>1, <1>2 DEF TypeOK, Sent
<1>4. TypeOK'
  BY <1>1, <1>2, <1>3 DEF TypeOK
<1>5. NetIsRest' /\ TakenFrames' = TakenFrames /\ LastIsLatest'
  BY <1>1, <1>2, <1>3, TakenKept
<1>6. Pipeline'
  <2>1. Events' = Events
    BY <1>2 DEF Events
  <2> QED
    BY <1>1, <1>2, <1>3, <1>5, <2>1, PipelineKept DEF Going
<1>7. SentOK' /\ InOrder' /\ Ended' /\ ErrorsTold'
  BY <1>1, <1>2, <1>3, SentKept, OrderKept, ErrorsKept
<1>8. EndMeansAll' /\ Phases'
  BY <1>1, <1>2, <1>3 DEF EndMeansAll, Phases
<1> QED
  BY <1>4, <1>5, <1>6, <1>7, <1>8 DEF IInv

(* A step that changes nothing but the phase, the reader, the body or the    *)
(* presence of the caller.                                                   *)
LEMMA OthersKept ==
  ASSUME IInv, UNCHANGED <<provider, net, adapter, decoder, channel, emitted>>, TypeOK', Phases',
         Events' = Events, present' => present, Going' => Going
  PROVE  IInv'
<1>1. /\ TypeOK /\ Pipeline /\ SentOK /\ NetIsRest /\ LastIsLatest /\ EndMeansAll /\ Phases
      /\ InOrder /\ Ended /\ ErrorsTold
  BY DEF IInv
<1>2. Sent' = Sent
  BY DEF Sent
<1>3. NetIsRest' /\ TakenFrames' = TakenFrames /\ LastIsLatest'
  BY <1>1, <1>2, TakenKept
<1>4. Pipeline'
  BY <1>1, <1>3, PipelineKept
<1>5. SentOK' /\ InOrder' /\ Ended' /\ ErrorsTold'
  BY <1>1, <1>2, SentKept, OrderKept, ErrorsKept
<1>6. EndMeansAll'
  BY <1>1 DEF EndMeansAll
<1> QED
  BY <1>3, <1>4, <1>5, <1>6 DEF IInv

LEMMA BeginKeeps ==
  ASSUME IInv, Begin
  PROVE  IInv'
<1>1. TypeOK /\ Phases
  BY DEF IInv
<1>2. partial' \in [front : BOOLEAN, back : BOOLEAN]
  BY <1>1 DEF TypeOK, Begin
<1>3. TypeOK'
  BY <1>1, <1>2 DEF TypeOK, Begin
<1>4. Phases'
  BY <1>1 DEF Phases, Begin
<1>5. Events' = Events
  BY DEF Events, Begin
<1> QED
  BY <1>3, <1>4, <1>5, OthersKept DEF Begin, Going

LEMMA RefuseKeeps ==
  ASSUME IInv, Refuse
  PROVE  IInv'
<1>1. TypeOK /\ Phases
  BY DEF IInv
<1>2. TypeOK'
  BY <1>1 DEF TypeOK, Refuse
<1>3. Phases'
  BY <1>1 DEF Phases, Refuse
<1>4. Events' = Events
  BY DEF Events, Refuse
<1> QED
  BY <1>2, <1>3, <1>4, OthersKept DEF Refuse, Going

LEMMA AcceptedKeeps ==
  ASSUME IInv, Accepted
  PROVE  IInv'
<1>1. TypeOK /\ Phases
  BY DEF IInv
<1>2. TypeOK'
  BY <1>1 DEF TypeOK, Accepted
<1>3. Phases'
  BY <1>1 DEF Phases, Accepted
<1>4. Events' = Events
  BY <1>1 DEF Events, Accepted, Phases
<1> QED
  BY <1>2, <1>3, <1>4, OthersKept DEF Accepted, Going

LEMMA FirstTimeoutKeeps ==
  ASSUME IInv, FirstTimeout
  PROVE  IInv'
<1>1. /\ TypeOK /\ Pipeline /\ SentOK /\ NetIsRest /\ LastIsLatest /\ EndMeansAll /\ Phases
      /\ InOrder /\ Ended /\ ErrorsTold
  BY DEF IInv
<1>2. /\ phase = "first" /\ phase' = "refused"
      /\ UNCHANGED <<provider, net, partial, adapter, decoder, reader, channel, emitted, present>>
      /\ closed' = TRUE
  BY DEF FirstTimeout
<1>3. TypeOK'
  BY <1>1, <1>2 DEF TypeOK
<1>4. Phases'
  BY <1>1, <1>2 DEF Phases
<1>5. Pipeline'
  <2>1. CASE reader = "reading"
    <3>1. Events' = Events /\ Going
      BY <1>1, <1>2, <2>1 DEF Events, Phases, Going
    <3>2. TakenFrames' = TakenFrames
      BY <1>2 DEF TakenFrames, Taken, Sent
    <3> QED
      BY <1>1, <1>2, <3>1, <3>2, PipelineKept
  <2>2. CASE reader # "reading"
    BY <1>2, <2>2 DEF Pipeline, Going
  <2> QED
    BY <2>1, <2>2
<1>6. Sent' = Sent
  BY <1>2 DEF Sent
<1>7. SentOK' /\ NetIsRest' /\ LastIsLatest' /\ InOrder' /\ Ended' /\ ErrorsTold'
  BY <1>1, <1>2, <1>6, TakenKept, SentKept, OrderKept, ErrorsKept
<1>8. EndMeansAll'
  BY <1>1, <1>2 DEF EndMeansAll
<1> QED
  BY <1>3, <1>4, <1>5, <1>7, <1>8 DEF IInv

LEMMA ReadTimeoutKeeps ==
  ASSUME IInv, ReadTimeout
  PROVE  IInv'
<1>1. TypeOK /\ Phases
  BY DEF IInv
<1>2. TypeOK'
  BY <1>1 DEF TypeOK, ReadTimeout
<1>3. Phases'
  BY <1>1 DEF Phases, ReadTimeout
<1>4. Events' = Events
  BY DEF Events, ReadTimeout
<1> QED
  BY <1>2, <1>3, <1>4, OthersKept DEF ReadTimeout, Going

LEMMA CallerLeavesKeeps ==
  ASSUME IInv, CallerLeaves
  PROVE  IInv'
<1>1. TypeOK /\ Phases
  BY DEF IInv
<1>2. TypeOK'
  BY <1>1 DEF TypeOK, CallerLeaves
<1>3. Phases'
  BY <1>1 DEF Phases, CallerLeaves
<1>4. Events' = Events
  BY DEF Events, CallerLeaves
<1> QED
  BY <1>2, <1>3, <1>4, OthersKept DEF CallerLeaves, Going

-----------------------------------------------------------------------------
(* A Read.  The parser keeps the first bytes of a frame that a Read has      *)
(* brought without the others, so that the next Read completes it.           *)

BytesKept == partial.front => adapter.buf

LEMMA BytesStay ==
  ASSUME TypeOK, BytesKept, [Next]_vars
  PROVE  BytesKept'
<1>1. /\ adapter \in [pending : Seq(FrameType), last : Nat, buf : BOOLEAN, end : {"none", "eof", "error"}]
      /\ partial \in [front : BOOLEAN, back : BOOLEAN]
  BY DEF TypeOK
<1>2. CASE Read
  <2>1. /\ partial'.front = (partial.back \/ (net = <<>> /\ partial.front))
        /\ adapter'.buf = LeftOver(adapter.buf)
    BY <1>2 DEF Read
  <2> QED
    BY <2>1 DEF BytesKept, LeftOver
<1>3. CASE partial'.front = partial.front /\ adapter'.buf = adapter.buf
  BY <1>3 DEF BytesKept
<1>4. CASE Begin \/ \E f \in Frames : Send(f)
  <2>1. /\ adapter' = adapter
        /\ partial' = [partial EXCEPT !.back = TRUE] \/ partial' = [partial EXCEPT !.back = FALSE]
    BY <1>4 DEF Begin, Send
  <2> QED
    BY <1>1, <1>3, <2>1
<1>5. CASE ReadClosed \/ ReadFirst \/ Continue
  <2>1. /\ partial' = partial
        /\ \/ adapter' = adapter \/ adapter' = [adapter EXCEPT !.end = "error"]
           \/ adapter' = [adapter EXCEPT !.pending = Tail(@)]
    BY <1>5 DEF ReadClosed, ReadFirst, Continue, Done
  <2> QED
    BY <1>1, <1>3, <2>1
<1>6. CASE UNCHANGED <<partial, adapter>>
  BY <1>3, <1>6
<1> QED
  BY <1>2, <1>4, <1>5, <1>6
     DEF Next, Service, Reads, Handler, ProviderSteps, Refuse, Accepted, TakeFirst, FirstTimeout,
         StreamEnds, Done, ReadTimeout, CallerLeaves, End, vars

LEMMA ReadIsWhole ==
  ASSUME TypeOK, BytesKept
  PROVE  Complete(adapter.buf, net) = net
  BY DEF TypeOK, BytesKept, Complete

LEMMA NetOrdered ==
  ASSUME IInv
  PROVE  /\ Ordered(adapter.last, net)
         /\ \A k \in DOMAIN net : /\ Taken + k \in DOMAIN Sent /\ net[k] = OnTheWire(Sent[Taken + k])
                                  /\ net[k].kind = Sent[Taken + k].kind
                                  /\ net[k].kind # "tool" => net[k] = Sent[Taken + k]
         /\ Taken \in 0 .. Len(Sent)
<1>1. TypeOK /\ SentOK /\ NetIsRest /\ LastIsLatest
  BY DEF IInv
<1>2. /\ Sent \in Seq(FrameType) /\ Len(Sent) \in Nat /\ DOMAIN Sent = 1 .. Len(Sent)
      /\ net \in Seq(FrameType) /\ Len(net) \in Nat /\ DOMAIN net = 1 .. Len(net)
      /\ adapter.last \in Nat
  <2>1. net \in Seq(FrameType) /\ adapter.last \in Nat
    BY <1>1 DEF TypeOK
  <2> QED
    BY <1>1, <2>1, SentTyped
<1>3. Taken \in 0 .. Len(Sent) /\ Taken + Len(net) = Len(Sent)
  BY <1>1, <1>2 DEF NetIsRest, Taken
<1>4. \A k \in DOMAIN net : Taken + k \in DOMAIN Sent /\ Taken + k > Taken /\ k \in Nat
  BY <1>2, <1>3
<1>5. \A k \in DOMAIN net : /\ net[k] = OnTheWire(Sent[Taken + k])
                            /\ net[k].kind = Sent[Taken + k].kind
                            /\ net[k].kind # "tool" => net[k] = Sent[Taken + k]
  <2> SUFFICES ASSUME NEW k \in DOMAIN net
               PROVE  /\ net[k] = OnTheWire(Sent[Taken + k])
                      /\ net[k].kind = Sent[Taken + k].kind
                      /\ net[k].kind # "tool" => net[k] = Sent[Taken + k]
    OBVIOUS
  <2>1. Sent[Taken + k] \in FrameType
    BY <1>2, <1>4
  <2>2. net[k] = OnTheWire(Sent[Taken + k])
    BY <1>1 DEF NetIsRest
  <2> QED
    BY <2>1, <2>2, OnTheWireType
<1>6. ASSUME NEW i \in DOMAIN net, net[i].kind = "content"
      PROVE  adapter.last <= net[i].n
  <2>1. net[i] = Sent[Taken + i] /\ Taken + i \in DOMAIN Sent /\ net[i].n \in Nat
    <3>1. net[i] \in FrameType
      BY <1>2
    <3> QED
      BY <1>4, <1>5, <1>6, <3>1 DEF FrameType
  <2>2. CASE adapter.last = 0
    BY <2>1, <2>2
  <2>3. CASE adapter.last # 0
    <3>1. PICK j \in 1 .. Taken : Sent[j].kind = "content" /\ Sent[j].n = adapter.last
      BY <1>1, <2>3 DEF LastIsLatest
    <3>2. j \in DOMAIN Sent /\ j < Taken + i
      BY <1>2, <1>3, <1>4
    <3> QED
      BY <1>1, <1>6, <2>1, <3>1, <3>2 DEF SentOK
  <2> QED
    BY <2>2, <2>3
<1>7. ASSUME NEW i \in DOMAIN net, NEW j \in DOMAIN net, i < j, net[i].kind = "content", net[j].kind = "content"
      PROVE  net[i].n <= net[j].n /\ (net[i].n = net[j].n => net[i] = net[j])
  <2>1. Taken + i < Taken + j
    BY <1>3, <1>4, <1>7
  <2> QED
    BY <1>1, <1>4, <1>5, <1>7, <2>1 DEF SentOK
<1>8. RisingFrames(net, "thinking")
  <2> SUFFICES ASSUME NEW i \in DOMAIN net, NEW j \in DOMAIN net, i < j,
                      net[i].kind = "thinking", net[j].kind = "thinking"
               PROVE  net[i].n < net[j].n
    BY DEF RisingFrames
  <2>1. net[i].n = Taken + i /\ net[j].n = Taken + j
    BY <1>1, <1>4, <1>5 DEF SentOK
  <2> QED
    BY <1>3, <1>4, <2>1
<1> QED
  BY <1>3, <1>4, <1>5, <1>6, <1>7, <1>8 DEF Ordered

LEMMA ReadKeeps ==
  ASSUME IInv, BytesKept, Read
  PROVE  IInv'
<1> DEFINE fed == feed(adapter.last, net)
           out == fed.out
<1>1. /\ TypeOK /\ Pipeline /\ SentOK /\ NetIsRest /\ LastIsLatest /\ EndMeansAll /\ Phases
      /\ InOrder /\ Ended /\ ErrorsTold
  BY DEF IInv
<1>2. PICK err \in Errors :
           /\ adapter' = [pending |-> fed.out, last |-> fed.last, buf |-> LeftOver(adapter.buf),
                          end |-> EndOfReading(err, fed.out)]
           /\ partial' = [front |-> partial.back \/ (net = <<>> /\ partial.front), back |-> FALSE]
  <2>1. Complete(adapter.buf, net) = net
    BY <1>1, ReadIsWhole
  <2> QED
    BY <2>1 DEF Read
<1>3. /\ provider' = provider /\ net' = <<>> /\ closed' = closed /\ decoder' = decoder /\ reader' = reader
      /\ channel' = channel /\ phase' = phase /\ emitted' = emitted /\ present' = present
      /\ adapter.pending = <<>> /\ adapter.end = "none"
  BY DEF Read, Reading
<1>4. /\ Sent \in Seq(FrameType) /\ Len(Sent) \in Nat /\ DOMAIN Sent = 1 .. Len(Sent)
      /\ net \in Seq(FrameType) /\ Len(net) \in Nat /\ DOMAIN net = 1 .. Len(net)
      /\ adapter.last \in Nat /\ Sent' = Sent
  <2>1. net \in Seq(FrameType) /\ adapter.last \in Nat
    BY <1>1 DEF TypeOK
  <2> QED
    BY <1>1, <1>3, <2>1, SentTyped DEF Sent
<1>5. /\ \A k \in DOMAIN net : /\ Taken + k \in DOMAIN Sent /\ net[k] = OnTheWire(Sent[Taken + k])
                               /\ net[k].kind = Sent[Taken + k].kind
                               /\ net[k].kind # "tool" => net[k] = Sent[Taken + k]
      /\ Taken \in 0 .. Len(Sent) /\ Ordered(adapter.last, net)
  BY NetOrdered
<1>6. fed \in Parsers /\ Passed(adapter.last, net, Len(net), fed)
  BY <1>4, <1>5, FeedPasses
<1> HIDE DEF fed
<1>7. out \in Seq(FrameType) /\ fed.last \in Nat
  BY <1>6 DEF Parsers
<1>8. /\ \A k \in DOMAIN out : \E j \in DOMAIN net : out[k] = net[j]
      /\ \A j \in DOMAIN net : Kept(adapter.last, net[j], out)
      /\ \A k \in DOMAIN out : out[k].kind = "content" => adapter.last < out[k].n /\ out[k].n <= fed.last
      /\ RisingFrames(out, "content") /\ RisingFrames(out, "thinking")
      /\ adapter.last <= fed.last
      /\ \A j \in DOMAIN net : net[j].kind = "content" => net[j].n <= fed.last
      /\ \/ fed.last = adapter.last
         \/ \E j \in DOMAIN net : net[j].kind = "content" /\ net[j].n = fed.last
  BY <1>4, <1>6 DEF Passed
<1> HIDE DEF out
<1>9. Len(net') = 0 /\ net' \in Seq(FrameType) /\ DOMAIN net' = {}
  BY <1>3
<1>10. Taken' = Len(Sent) /\ \A i \in 1 .. Taken' : i \in 1 .. Taken \/ i - Taken \in DOMAIN net
  BY <1>4, <1>5, <1>9 DEF Taken
<1>11. /\ adapter'.pending = out /\ adapter'.last = fed.last
       /\ adapter'.end \in {"none", "eof", "error"}
       /\ adapter'.end = "eof" => provider.end # "open"
       /\ adapter' \in [pending : Seq(FrameType), last : Nat, buf : BOOLEAN, end : {"none", "eof", "error"}]
  <2>1. err \in {"none", "eof", "error"} /\ (err # "none" => provider.end # "open")
    BY DEF Errors
  <2>2. /\ EndOfReading(err, fed.out) \in {"none", "eof", "error"}
        /\ EndOfReading(err, fed.out) = "eof" => provider.end # "open"
    BY <2>1 DEF EndOfReading
  <2>3. LeftOver(adapter.buf) \in BOOLEAN
    BY DEF LeftOver
  <2> QED
    BY <1>2, <1>7, <2>2, <2>3 DEF out
<1>12. TypeOK'
  <2>1. partial' \in [front : BOOLEAN, back : BOOLEAN]
    BY <1>2
  <2> QED
    BY <1>1, <1>3, <1>9, <1>11, <2>1 DEF TypeOK
<1>13. SentOK' /\ InOrder' /\ Ended' /\ ErrorsTold' /\ Phases'
  <2>1. SentOK' /\ InOrder' /\ Ended' /\ ErrorsTold'
    BY <1>1, <1>3, <1>4, SentKept, OrderKept, ErrorsKept
  <2> QED
    BY <1>1, <1>3, <2>1 DEF Phases
<1>14. NetIsRest' /\ EndMeansAll'
  BY <1>3, <1>4, <1>9, <1>11 DEF NetIsRest, EndMeansAll
<1>15. LastIsLatest'
  <2>1. adapter'.last # 0 => \E i \in 1 .. Taken' : Sent[i].kind = "content" /\ Sent[i].n = adapter'.last
    <3> SUFFICES ASSUME adapter'.last # 0
                 PROVE  \E i \in 1 .. Taken' : Sent[i].kind = "content" /\ Sent[i].n = adapter'.last
      OBVIOUS
    <3>1. CASE fed.last = adapter.last
      <4>1. PICK i \in 1 .. Taken : Sent[i].kind = "content" /\ Sent[i].n = adapter.last
        BY <1>1, <1>11, <3>1 DEF LastIsLatest
      <4>2. i \in 1 .. Taken'
        BY <1>4, <1>5, <1>10
      <4> QED
        BY <1>11, <3>1, <4>1, <4>2
    <3>2. CASE \E j \in DOMAIN net : net[j].kind = "content" /\ net[j].n = fed.last
      <4>1. PICK j \in DOMAIN net : net[j].kind = "content" /\ net[j].n = fed.last
        BY <3>2
      <4>2. Taken + j \in 1 .. Taken' /\ net[j] = Sent[Taken + j]
        BY <1>4, <1>5, <1>10, <4>1
      <4> QED
        BY <1>11, <4>1, <4>2
    <3> QED
      BY <1>8, <3>1, <3>2
  <2>2. ASSUME NEW i \in 1 .. Taken', Sent[i].kind = "content"
        PROVE  Sent[i].n <= adapter'.last
    <3>1. CASE i \in 1 .. Taken
      <4>1. Sent[i].n <= adapter.last
        BY <1>1, <2>2, <3>1 DEF LastIsLatest
      <4>2. Sent[i] \in FrameType /\ Sent[i].n \in Nat
        <5>1. i \in DOMAIN Sent
          BY <1>4, <1>10
        <5>2. Sent[i] \in FrameType
          BY <1>4, <5>1
        <5> QED
          BY <5>2 DEF FrameType
      <4> QED
        BY <1>4, <1>7, <1>8, <1>11, <4>1, <4>2
    <3>2. CASE i - Taken \in DOMAIN net
      <4> DEFINE k == i - Taken
      <4>1. k \in DOMAIN net /\ i = Taken + k
        BY <1>5, <1>10, <3>2
      <4> HIDE DEF k
      <4>2. net[k] = Sent[i]
        BY <1>5, <2>2, <4>1
      <4> QED
        BY <1>8, <1>11, <2>2, <4>1, <4>2
    <3> QED
      BY <1>10, <3>1, <3>2
  <2> QED
    BY <1>4, <2>1, <2>2 DEF LastIsLatest
<1>16. Pipeline'
  <2> SUFFICES ASSUME Going
               PROVE  \E s \in Seq(EventType), F \in SUBSET TakenFrames' :
                         /\ present' => s = Events'
                         /\ Upto(decoder', s, F) /\ TakenFrames' = F \cup ToSet(out)
                         /\ RisingFrames(out, "content") /\ RisingFrames(out, "thinking")
                         /\ Behind(s, "text", out, "content") /\ Behind(s, "thinking", out, "thinking")
    BY <1>3, <1>11 DEF Pipeline, Going, Piped
  <2>1. PICK s \in Seq(EventType), F \in SUBSET TakenFrames :
             (present => s = Events) /\ Piped(s, F, adapter.pending)
    BY <1>1 DEF Pipeline, Going
  <2>2. Events' = Events
    BY <1>3 DEF Events
  <2>3. F = TakenFrames
    BY <1>3, <2>1 DEF Piped, ToSet
  <2> DEFINE G == F \cup {g \in TakenFrames' : g = Garbled}
  <2>4. TakenFrames' = G \cup ToSet(out)
    <3>1. ASSUME NEW g \in TakenFrames'
          PROVE  g \in G \cup ToSet(out)
      <4>1. PICK i \in 1 .. Taken' : g = OnTheWire(Sent[i])
        BY <1>4 DEF TakenFrames
      <4>2. CASE i \in 1 .. Taken
        BY <2>3, <4>1, <4>2 DEF TakenFrames
      <4>3. CASE i - Taken \in DOMAIN net
        <5> DEFINE k == i - Taken
        <5>1. k \in DOMAIN net /\ i = Taken + k
          BY <1>5, <1>10, <4>3
        <5> HIDE DEF k
        <5>2. g = net[k]
          BY <1>5, <4>1, <5>1
        <5>3. CASE \E j \in DOMAIN out : out[j] = net[k]
          BY <5>2, <5>3 DEF ToSet
        <5>4. CASE net[k].kind = "content" /\ net[k].n = adapter.last
          <6>1. net[k] = Sent[i] /\ i \in DOMAIN Sent /\ Sent[i].n # 0 /\ i > Taken
            BY <1>1, <1>4, <1>5, <1>10, <5>1, <5>4 DEF SentOK
          <6>2. PICK j \in 1 .. Taken : Sent[j].kind = "content" /\ Sent[j].n = adapter.last
            BY <1>1, <5>4, <6>1 DEF LastIsLatest
          <6>3. j \in DOMAIN Sent /\ j < i
            BY <1>4, <1>5, <6>1
          <6>4. Sent[j] = Sent[i]
            BY <1>1, <5>4, <6>1, <6>2, <6>3 DEF SentOK
          <6>5. g = OnTheWire(Sent[j])
            BY <4>1, <6>4
          <6> QED
            BY <2>3, <6>5 DEF TakenFrames
        <5>5. CASE net[k] = Garbled
          BY <3>1, <5>2, <5>5
        <5> QED
          BY <1>8, <5>1, <5>3, <5>4, <5>5 DEF Kept
      <4> QED
        BY <1>10, <4>2, <4>3
    <3>2. ASSUME NEW g \in F
          PROVE  g \in TakenFrames' /\ F \subseteq G /\ G \subseteq F \cup TakenFrames'
      <4>1. PICK i \in 1 .. Taken : g = OnTheWire(Sent[i])
        BY <2>3 DEF TakenFrames
      <4>2. i \in 1 .. Taken'
        BY <1>4, <1>5, <1>10
      <4> QED
        BY <1>4, <4>1, <4>2 DEF TakenFrames
    <3>3. ASSUME NEW g \in ToSet(out)
          PROVE  g \in TakenFrames'
      <4>1. PICK j \in DOMAIN net : g = net[j]
        BY <1>8 DEF ToSet
      <4>2. Taken + j \in 1 .. Taken'
        BY <1>4, <1>5, <1>10
      <4> QED
        BY <1>4, <1>5, <4>1, <4>2 DEF TakenFrames
    <3> QED
      BY <3>1, <3>2, <3>3
  <2>5. Upto(decoder, s, F)
    BY <2>1 DEF Piped
  <2>6. Behind(s, "text", out, "content")
    <3> SUFFICES ASSUME NEW m \in NumbersIn(s, "text"), NEW k \in DOMAIN out, out[k].kind = "content"
                 PROVE  m < out[k].n
      BY DEF Behind
    <3>1. m \in Numbers(F, "content")
      BY <2>5 DEF Upto, Knows
    <3>2. PICK i \in 1 .. Taken : OnTheWire(Sent[i]).kind = "content" /\ m = OnTheWire(Sent[i]).n
      BY <2>3, <3>1 DEF Numbers, TakenFrames
    <3>3. i \in DOMAIN Sent /\ Sent[i] \in FrameType
      BY <1>4, <1>5
    <3>4. Sent[i].kind = "content" /\ m = Sent[i].n /\ m \in Nat
      BY <3>2, <3>3, OnTheWireType DEF FrameType
    <3>5. m <= adapter.last
      BY <1>1, <3>4 DEF LastIsLatest
    <3>6. adapter.last < out[k].n /\ out[k].n \in Nat
      <4>1. out[k] \in FrameType
        BY <1>7
      <4> QED
        BY <1>8, <4>1 DEF FrameType
    <3> QED
      BY <1>4, <3>4, <3>5, <3>6
  <2>7. Behind(s, "thinking", out, "thinking")
    <3> SUFFICES ASSUME NEW m \in NumbersIn(s, "thinking"), NEW k \in DOMAIN out, out[k].kind = "thinking"
                 PROVE  m < out[k].n
      BY DEF Behind
    <3>1. m \in Numbers(F, "thinking")
      BY <2>5 DEF Upto, Knows
    <3>2. PICK i \in 1 .. Taken : OnTheWire(Sent[i]).kind = "thinking" /\ m = OnTheWire(Sent[i]).n
      BY <2>3, <3>1 DEF Numbers, TakenFrames
    <3>3. i \in DOMAIN Sent /\ Sent[i] \in FrameType
      BY <1>4, <1>5
    <3>4. Sent[i].kind = "thinking" /\ m = Sent[i].n
      BY <3>2, <3>3, OnTheWireType DEF FrameType
    <3>5. m = i
      BY <1>1, <3>3, <3>4 DEF SentOK
    <3>6. PICK j \in DOMAIN net : out[k] = net[j]
      BY <1>8
    <3>7. out[k].n = Taken + j
      BY <1>1, <1>5, <3>6 DEF SentOK
    <3> QED
      BY <1>4, <1>5, <3>5, <3>7
  <2>8. G \in SUBSET TakenFrames'
    BY <2>4
  <2>9. Upto(decoder', s, G)
    <3>1. Garbled.kind = "garbled"
      BY DEF Garbled, Frame
    <3>2. \A g \in G : g \in F \/ g.kind = "garbled"
      BY <3>1
    <3>3. F \subseteq G
      OBVIOUS
    <3> HIDE DEF G
    <3>4. /\ Numbers(G, "content") = Numbers(F, "content") /\ Numbers(G, "thinking") = Numbers(F, "thinking")
          /\ {f \in G : f.kind = "content"} = {f \in F : f.kind = "content"}
      BY <3>2, <3>3 DEF Numbers
    <3>5. /\ (\E f \in G : f.kind = "usage") <=> \E f \in F : f.kind = "usage"
          /\ (\E f \in G : f.kind = "tool" /\ f.named) <=> \E f \in F : f.kind = "tool" /\ f.named
      BY <3>2, <3>3
    <3>6. Knows(decoder, s, G)
      BY <2>5, <3>4, <3>5 DEF Upto, Knows
    <3> QED
      BY <1>3, <2>5, <3>6 DEF Upto
  <2> HIDE DEF G
  <2> QED
    BY <1>3, <1>8, <2>1, <2>2, <2>4, <2>6, <2>7, <2>8, <2>9
<1> QED
  BY <1>12, <1>13, <1>14, <1>15, <1>16 DEF IInv

-----------------------------------------------------------------------------
(* A pending frame.                                                          *)

LEMMA FramesTaken ==
  ASSUME IInv
  PROVE  /\ Taken \in 0 .. Len(Sent)
         /\ \A g \in TakenFrames : \E i \in DOMAIN Sent :
               /\ i \in 1 .. Taken /\ g = OnTheWire(Sent[i]) /\ Sent[i] \in FrameType /\ g \in FrameType
               /\ g.kind = Sent[i].kind /\ g.args = Sent[i].args /\ g.named = Sent[i].named
               /\ g.kind # "tool" \/ g.named => g = Sent[i]
<1>1. TypeOK /\ Taken \in 0 .. Len(Sent)
  BY NetOrdered DEF IInv
<1>2. Sent \in Seq(FrameType) /\ Len(Sent) \in Nat /\ DOMAIN Sent = 1 .. Len(Sent)
  BY <1>1, SentTyped
<1>3. ASSUME NEW g \in TakenFrames
      PROVE  \E i \in DOMAIN Sent :
               /\ i \in 1 .. Taken /\ g = OnTheWire(Sent[i]) /\ Sent[i] \in FrameType /\ g \in FrameType
               /\ g.kind = Sent[i].kind /\ g.args = Sent[i].args /\ g.named = Sent[i].named
               /\ g.kind # "tool" \/ g.named => g = Sent[i]
  <2>1. PICK i \in 1 .. Taken : g = OnTheWire(Sent[i])
    BY DEF TakenFrames
  <2>2. i \in DOMAIN Sent /\ Sent[i] \in FrameType
    BY <1>1, <1>2
  <2> QED
    BY <2>1, <2>2, OnTheWireType
<1> QED
  BY <1>1, <1>3

LEMMA HeadAndTail ==
  ASSUME NEW fs \in Seq(FrameType), fs # <<>>
  PROVE  /\ Head(fs) \in FrameType /\ Tail(fs) \in Seq(FrameType)
         /\ 1 \in DOMAIN fs /\ fs[1] = Head(fs)
         /\ \A k \in DOMAIN Tail(fs) : k + 1 \in DOMAIN fs /\ 1 < k + 1 /\ fs[k + 1] = Tail(fs)[k] /\ k \in Nat
         /\ \A k \in DOMAIN fs : k = 1 \/ (k - 1 \in DOMAIN Tail(fs) /\ fs[k] = Tail(fs)[k - 1])
  OBVIOUS

LEMMA FrameDecoded ==
  ASSUME IInv, NEW s \in Seq(EventType), NEW F \in SUBSET TakenFrames,
         Piped(s, F, adapter.pending), adapter.pending # <<>>
  PROVE  LET f    == Head(adapter.pending)
             rest == Tail(adapter.pending)
             r    == DecoderFeed(decoder, f)
             t    == s \o r.out
         IN  /\ r \in DecoderType /\ r.out \in Seq(EventType) /\ t \in Seq(EventType)
             /\ F \cup {f} \in SUBSET TakenFrames
             /\ Upto(r, t, F \cup {f}) /\ TakenFrames = (F \cup {f}) \cup ToSet(rest)
             /\ RisingFrames(rest, "content") /\ RisingFrames(rest, "thinking")
             /\ Behind(t, "text", rest, "content") /\ Behind(t, "thinking", rest, "thinking")
<1> DEFINE fs == adapter.pending
           f == Head(fs)
           rest == Tail(fs)
           r == DecoderFeed(decoder, f)
           t == s \o r.out
<1>1. /\ TypeOK /\ SentOK /\ fs \in Seq(FrameType) /\ fs # <<>> /\ decoder \in DecoderType
  BY DEF IInv, TypeOK
<1>2. /\ Upto(decoder, s, F) /\ TakenFrames = F \cup ToSet(fs)
      /\ RisingFrames(fs, "content") /\ RisingFrames(fs, "thinking")
      /\ Behind(s, "text", fs, "content") /\ Behind(s, "thinking", fs, "thinking")
  BY DEF Piped
<1> HIDE DEF fs
<1>3. /\ f \in FrameType /\ rest \in Seq(FrameType) /\ 1 \in DOMAIN fs /\ fs[1] = f
      /\ \A k \in DOMAIN rest : k + 1 \in DOMAIN fs /\ 1 < k + 1 /\ fs[k + 1] = rest[k] /\ k \in Nat
      /\ \A k \in DOMAIN fs : k = 1 \/ (k - 1 \in DOMAIN rest /\ fs[k] = rest[k - 1])
  BY <1>1, HeadAndTail
<1> HIDE DEF f, rest
<1>4. ToSet(fs) = {f} \cup ToSet(rest)
  <2>1. \A g \in ToSet(fs) : g = f \/ g \in ToSet(rest)
    BY <1>3 DEF ToSet
  <2>2. f \in ToSet(fs) /\ \A g \in ToSet(rest) : g \in ToSet(fs)
    BY <1>3 DEF ToSet
  <2> QED
    BY <2>1, <2>2
<1>5. F \cup {f} \in SUBSET TakenFrames /\ TakenFrames = (F \cup {f}) \cup ToSet(rest)
  BY <1>2, <1>4
<1>6. F \in SUBSET FrameType
  BY FramesTaken
<1>7. Fits(F, f)
  <2>1. f.kind = "content" => \A g \in F : g.kind = "content" => g.n < f.n
    BY <1>2, <1>3 DEF Upto, Knows, Numbers, Behind
  <2>2. f.kind = "thinking" => \A g \in F : g.kind = "thinking" => g.n < f.n
    BY <1>2, <1>3 DEF Upto, Knows, Numbers, Behind
  <2>3. f.kind = "tool" /\ f.named => f.n # 0
    <3>1. f \in TakenFrames
      BY <1>5
    <3>2. PICK i \in DOMAIN Sent : f.kind = Sent[i].kind /\ (f.kind # "tool" \/ f.named => f = Sent[i])
      BY <3>1, FramesTaken
    <3> QED
      BY <1>1, <3>2 DEF SentOK
  <2> QED
    BY <2>1, <2>2, <2>3 DEF Fits
<1>8. Reached(s, r, F \cup {f})
  BY <1>1, <1>2, <1>3, <1>6, <1>7, FrameHeard
<1> HIDE DEF r
<1>9. r \in DecoderType /\ r.out \in Seq(EventType) /\ t \in Seq(EventType) /\ Upto(r, t, F \cup {f})
  <2>1. r \in DecoderType /\ Upto(r, t, F \cup {f})
    BY <1>8 DEF Reached
  <2>2. r.out \in Seq(EventType)
    BY <2>1 DEF DecoderType
  <2> QED
    BY <2>1, <2>2
<1> HIDE DEF t
<1>10. RisingFrames(rest, "content") /\ RisingFrames(rest, "thinking")
  <2>1. ASSUME NEW kind, RisingFrames(fs, kind)
        PROVE  RisingFrames(rest, kind)
    <3> SUFFICES ASSUME NEW i \in DOMAIN rest, NEW j \in DOMAIN rest, i < j,
                        rest[i].kind = kind, rest[j].kind = kind
                 PROVE  rest[i].n < rest[j].n
      BY DEF RisingFrames
    <3>1. i + 1 < j + 1 /\ i + 1 \in DOMAIN fs /\ j + 1 \in DOMAIN fs
      BY <1>3
    <3>2. fs[i + 1] = rest[i] /\ fs[j + 1] = rest[j]
      BY <1>3
    <3> QED
      BY <2>1, <3>1, <3>2 DEF RisingFrames
  <2> QED
    BY <1>2, <2>1
<1>11. Behind(t, "text", rest, "content")
  <2> SUFFICES ASSUME NEW m \in NumbersIn(t, "text"), NEW k \in DOMAIN rest, rest[k].kind = "content"
               PROVE  m < rest[k].n
    BY DEF Behind
  <2>1. m \in Numbers(F \cup {f}, "content")
    BY <1>9 DEF Upto, Knows
  <2>2. CASE m \in Numbers(F, "content")
    BY <1>2, <1>3, <2>2 DEF Upto, Knows, Behind
  <2>3. CASE f.kind = "content" /\ m = f.n
    BY <1>2, <1>3, <2>3 DEF RisingFrames
  <2> QED
    BY <2>1, <2>2, <2>3 DEF Numbers
<1>12. Behind(t, "thinking", rest, "thinking")
  <2> SUFFICES ASSUME NEW m \in NumbersIn(t, "thinking"), NEW k \in DOMAIN rest, rest[k].kind = "thinking"
               PROVE  m < rest[k].n
    BY DEF Behind
  <2>1. m \in Numbers(F \cup {f}, "thinking")
    BY <1>9 DEF Upto, Knows
  <2>2. CASE m \in Numbers(F, "thinking")
    BY <1>2, <1>3, <2>2 DEF Upto, Knows, Behind
  <2>3. CASE f.kind = "thinking" /\ m = f.n
    BY <1>2, <1>3, <2>3 DEF RisingFrames
  <2> QED
    BY <2>1, <2>2, <2>3 DEF Numbers
<1> QED
  BY <1>5, <1>9, <1>10, <1>11, <1>12 DEF t, r, rest, f, fs

-----------------------------------------------------------------------------
(* The goroutine and the handler.                                            *)

LEMMA NewKnowsNothing ==
  /\ NewDecoder \in DecoderType
  /\ Upto(NewDecoder, <<>>, {})
<1>1. <<>> \in Seq(CallType) /\ <<>> \in Seq(FrameType) /\ <<>> \in Seq(EventType) /\ <<>> \in Pieces
  BY DEF Pieces
<1>2. NoBlock \in BlockType /\ NoTool \in CallType
  BY <1>1 DEF NoBlock, BlockType, NoTool, CallType
<1>3. NewDecoder \in DecoderType
  BY <1>1, <1>2 DEF NewDecoder, DecoderType
<1>4. DeltasIn(<<>>, "text") = {} /\ DeltasIn(<<>>, "thinking") = {}
  BY DEF DeltasIn
<1>5. NumbersIn(<<>>, "text") = {} /\ NumbersIn(<<>>, "thinking") = {}
      /\ Rising(<<>>, "text") /\ Rising(<<>>, "thinking")
  BY <1>4 DEF NumbersIn, Rising
<1>6. Numbers({}, "content") = {} /\ Numbers({}, "thinking") = {}
  BY DEF Numbers
<1>7. ToSet(NewDecoder.said) = {} /\ ~NewDecoder.usage /\ ~HasTool(NewDecoder)
  BY DEF NewDecoder, ToSet, HasTool
<1>8. Knows(NewDecoder, <<>>, {})
  BY <1>5, <1>6, <1>7 DEF Knows
<1>9. Delivered(<<>>, NewDecoder)
  BY DEF Delivered, NewDecoder, NoBlock
<1> QED
  BY <1>3, <1>5, <1>8, <1>9 DEF Upto

LEMMA ReadFirstKeeps ==
  ASSUME IInv, ReadFirst
  PROVE  IInv'
<1> DEFINE fs == adapter.pending
           f == Head(fs)
           rest == Tail(fs)
           r == DecoderFeed(decoder, f)
<1>1. /\ TypeOK /\ Pipeline /\ SentOK /\ NetIsRest /\ LastIsLatest /\ EndMeansAll /\ Phases
      /\ InOrder /\ Ended /\ ErrorsTold
  BY DEF IInv
<1>2. /\ provider' = provider /\ net' = net /\ partial' = partial /\ closed' = closed /\ phase' = phase
      /\ emitted' = emitted /\ present' = present /\ reader' = "gone" /\ reader = "reading"
      /\ channel = <<>> /\ Sent' = Sent
  BY <1>1 DEF ReadFirst, Phases, Sent
<1>3. /\ adapter \in [pending : Seq(FrameType), last : Nat, buf : BOOLEAN, end : {"none", "eof", "error"}]
      /\ decoder \in DecoderType /\ decoder = NewDecoder /\ Events = emitted /\ <<>> \in Seq(EventType)
      /\ fs \in Seq(FrameType)
  BY <1>1, <1>2 DEF TypeOK, Phases, Events
<1>4. PICK s \in Seq(EventType), F \in SUBSET TakenFrames :
           (present => s = Events) /\ Piped(s, F, fs)
  BY <1>1, <1>2 DEF Pipeline, Going
<1>5. NetIsRest' /\ TakenFrames' = TakenFrames /\ SentOK' /\ InOrder' /\ Ended'
      /\ (adapter'.last = adapter.last => LastIsLatest')
      /\ (adapter'.end = adapter.end => ErrorsTold' /\ EndMeansAll')
  <2>1. SentOK' /\ InOrder' /\ Ended' /\ NetIsRest' /\ TakenFrames' = TakenFrames
        /\ (adapter'.last = adapter.last => LastIsLatest')
    BY <1>1, <1>2, SentKept, OrderKept, TakenKept
  <2>2. adapter'.end = adapter.end => ErrorsTold'
    BY <1>1, <1>2, ErrorsKept
  <2>3. adapter'.end = adapter.end => EndMeansAll'
    BY <1>1, <1>2 DEF EndMeansAll
  <2> QED
    BY <2>1, <2>2, <2>3
<1>6. CASE fs # <<>>
  <2>1. adapter' = [adapter EXCEPT !.pending = rest]
    BY <1>6 DEF ReadFirst
  <2>2. f \in FrameType /\ rest \in Seq(FrameType)
    BY <1>3, <1>6, HeadAndTail
  <2>3. /\ r \in DecoderType /\ r.out \in Seq(EventType) /\ s \o r.out \in Seq(EventType)
        /\ F \cup {f} \in SUBSET TakenFrames
        /\ Upto(r, s \o r.out, F \cup {f}) /\ TakenFrames = (F \cup {f}) \cup ToSet(rest)
        /\ RisingFrames(rest, "content") /\ RisingFrames(rest, "thinking")
        /\ Behind(s \o r.out, "text", rest, "content") /\ Behind(s \o r.out, "thinking", rest, "thinking")
    BY <1>4, <1>6, FrameDecoded
  <2> HIDE DEF rest, r
  <2>4. /\ adapter'.pending = rest /\ adapter'.last = adapter.last /\ adapter'.end = adapter.end
        /\ adapter' \in [pending : Seq(FrameType), last : Nat, buf : BOOLEAN, end : {"none", "eof", "error"}]
    BY <1>3, <2>1, <2>2
  <2>5. CASE f = Damaged
    <3>1. channel' = <<Result("decode", <<>>)>> /\ decoder' = decoder
      BY <1>6, <2>5 DEF ReadFirst
    <3>2. Result("decode", <<>>) \in Results /\ Result("decode", <<>>).err = "decode"
          /\ Result("decode", <<>>).events = <<>>
      BY <1>3 DEF Result, Results
    <3>3. Len(channel') = 1 /\ channel' \in Seq(Results) /\ channel'[1] = Result("decode", <<>>)
          /\ channel' # <<>>
      BY <3>1, <3>2
    <3>4. TypeOK'
      BY <1>1, <1>2, <2>4, <3>1, <3>3 DEF TypeOK
    <3>5. Phases'
      BY <1>1, <1>2, <3>2, <3>3 DEF Phases
    <3>6. Pipeline'
      <4> SUFFICES ASSUME phase = "first"
                   PROVE  Pipeline'
        BY <1>1, <1>2 DEF Pipeline, Going, Phases
      <4>1. Events' = <<>> /\ emitted = <<>>
        BY <1>1, <1>2, <3>2, <3>3 DEF Events, Phases
      <4>2. f.kind = "damaged"
        BY <2>5 DEF Damaged, Frame
      <4>3. Reached(s, decoder, F \cup {f})
        <5>1. decoder.out = <<>> /\ s \o decoder.out = s
          BY <1>3 DEF NewDecoder
        <5>2. F \subseteq FrameType
          BY FramesTaken
        <5>3. Reached(s, decoder, F)
          BY <1>3, <1>4, <5>1, <5>2 DEF Reached, Piped
        <5>4. SameBlocks(decoder, decoder)
          BY DEF SameBlocks
        <5> QED
          BY <1>3, <2>2, <4>2, <5>3, <5>4, NotedReaches
      <4>4. Upto(decoder, s, F \cup {f})
        <5>1. decoder.out = <<>> /\ s \o decoder.out = s
          BY <1>3 DEF NewDecoder
        <5> QED
          BY <4>3, <5>1 DEF Reached
      <4>5. Behind(s, "text", rest, "content") /\ Behind(s, "thinking", rest, "thinking")
        <5>1. Numbers(F, "content") \subseteq Numbers(F \cup {f}, "content")
              /\ Numbers(F, "thinking") \subseteq Numbers(F \cup {f}, "thinking")
          BY DEF Numbers
        <5> QED
          BY <1>4, <2>3, <5>1 DEF Behind, Piped, Upto, Knows
      <4>6. present' => s = Events'
        BY <1>2, <1>3, <1>4, <4>1
      <4> QED
        BY <1>2, <1>5, <2>3, <2>4, <3>1, <4>4, <4>5, <4>6 DEF Pipeline, Piped
    <3> QED
      BY <1>5, <2>4, <3>4, <3>5, <3>6 DEF IInv
  <2>6. CASE f # Damaged
    <3>1. decoder' = r /\ channel' = <<Result("none", r.out)>>
      BY <1>6, <2>6 DEF ReadFirst, r
    <3>2. Result("none", r.out) \in Results /\ Result("none", r.out).err = "none"
          /\ Result("none", r.out).events = r.out
      BY <2>3 DEF Result, Results
    <3>3. Len(channel') = 1 /\ channel' \in Seq(Results) /\ channel'[1] = Result("none", r.out)
          /\ channel' # <<>>
      BY <3>1, <3>2
    <3>4. TypeOK'
      BY <1>1, <1>2, <2>3, <2>4, <3>1, <3>3 DEF TypeOK
    <3>5. Phases'
      BY <1>1, <1>2, <3>2, <3>3 DEF Phases
    <3>6. Pipeline'
      <4> SUFFICES ASSUME phase = "first"
                   PROVE  Pipeline'
        BY <1>1, <1>2 DEF Pipeline, Going, Phases
      <4>1. Events' = r.out /\ emitted = <<>>
        BY <1>1, <1>2, <3>2, <3>3 DEF Events, Phases
      <4>2. present' => s \o r.out = Events'
        <5>1. <<>> \o r.out = r.out
          BY <2>3
        <5> QED
          BY <1>2, <1>3, <1>4, <4>1, <5>1
      <4> QED
        BY <1>2, <1>5, <2>3, <2>4, <3>1, <4>2 DEF Pipeline, Piped
    <3> QED
      BY <1>5, <2>4, <3>4, <3>5, <3>6 DEF IInv
  <2> QED
    BY <2>5, <2>6
<1>7. CASE fs = <<>>
  <2>1. adapter' = adapter /\ decoder' = decoder /\ adapter.end # "none"
        /\ channel' = <<Result(adapter.end, <<>>)>>
    BY <1>7 DEF ReadFirst
  <2>2. Result(adapter.end, <<>>) \in Results /\ Result(adapter.end, <<>>).err = adapter.end
        /\ Result(adapter.end, <<>>).events = <<>>
    BY <1>3 DEF Result, Results
  <2>3. Len(channel') = 1 /\ channel' \in Seq(Results) /\ channel'[1] = Result(adapter.end, <<>>)
        /\ channel' # <<>>
    BY <2>1, <2>2
  <2>4. TypeOK'
    BY <1>1, <1>2, <2>1, <2>3 DEF TypeOK
  <2>5. Phases'
    BY <1>1, <1>2, <2>2, <2>3 DEF Phases
  <2>6. Pipeline'
    <3>1. CASE phase = "first"
      <4>1. Events' = Events /\ Going
        BY <1>1, <1>2, <1>3, <2>2, <2>3, <3>1 DEF Events, Phases, Going
      <4> QED
        BY <1>1, <1>2, <1>5, <2>1, <4>1, PipelineKept
    <3>2. CASE phase # "first"
      BY <1>1, <1>2, <3>2 DEF Pipeline, Going, Phases
    <3> QED
      BY <3>1, <3>2
  <2> QED
    BY <1>5, <2>1, <2>4, <2>5, <2>6 DEF IInv
<1> QED
  BY <1>6, <1>7

(* The caller has a beginning of what was said, whatever is still pending.   *)
LEMMA ToldInOrder ==
  ASSUME IInv, NEW s \in Seq(EventType), NEW F \in SUBSET TakenFrames, NEW d, NEW pending \in Seq(FrameType),
         Upto(d, s, F), TakenFrames = F \cup ToSet(pending),
         Behind(s, "text", pending, "content"), Behind(s, "thinking", pending, "thinking")
  PROVE  \A pair \in Pairs :
            /\ Rising(s, pair[1])
            /\ NumbersIn(s, pair[1]) \subseteq Told(pair[2])
            /\ \A m \in NumbersIn(s, pair[1]), n \in Told(pair[2]) : n < m => n \in NumbersIn(s, pair[1])
<1>1. TypeOK /\ SentOK
  BY DEF IInv
<1>2. /\ Sent \in Seq(FrameType) /\ Len(Sent) \in Nat /\ DOMAIN Sent = 1 .. Len(Sent)
      /\ Taken \in 0 .. Len(Sent)
  BY <1>1, SentTyped, FramesTaken
<1> SUFFICES ASSUME NEW pair \in Pairs
             PROVE  /\ Rising(s, pair[1])
                    /\ NumbersIn(s, pair[1]) \subseteq Told(pair[2])
                    /\ \A m \in NumbersIn(s, pair[1]), n \in Told(pair[2]) :
                          n < m => n \in NumbersIn(s, pair[1])
  OBVIOUS
<1>3. /\ Rising(s, pair[1]) /\ NumbersIn(s, pair[1]) = Numbers(F, pair[2])
      /\ Behind(s, pair[1], pending, pair[2]) /\ pair[2] \in {"content", "thinking"}
  BY DEF Pairs, Upto, Knows
<1>4. \A m \in NumbersIn(s, pair[1]) : \E i \in DOMAIN Sent :
         i \in 1 .. Taken /\ Sent[i].kind = pair[2] /\ m = Sent[i].n /\ Sent[i] \in F /\ m \in Nat
  <2> SUFFICES ASSUME NEW m \in NumbersIn(s, pair[1])
               PROVE  \E i \in DOMAIN Sent :
                         i \in 1 .. Taken /\ Sent[i].kind = pair[2] /\ m = Sent[i].n /\ Sent[i] \in F /\ m \in Nat
    OBVIOUS
  <2>1. PICK g \in F : g.kind = pair[2] /\ m = g.n
    BY <1>3 DEF Numbers
  <2>2. PICK i \in DOMAIN Sent : /\ i \in 1 .. Taken /\ Sent[i] \in FrameType /\ g.kind = Sent[i].kind
                                 /\ g.kind # "tool" \/ g.named => g = Sent[i]
    BY FramesTaken
  <2>3. g = Sent[i] /\ Sent[i].n \in Nat
    BY <1>3, <2>1, <2>2 DEF FrameType
  <2> QED
    BY <2>1, <2>2, <2>3
<1>5. NumbersIn(s, pair[1]) \subseteq Told(pair[2])
  BY <1>4 DEF Told
<1>6. ASSUME NEW m \in NumbersIn(s, pair[1]), NEW n \in Told(pair[2]), n < m
      PROVE  n \in NumbersIn(s, pair[1])
  <2>1. PICK i \in DOMAIN Sent : i \in 1 .. Taken /\ Sent[i].kind = pair[2] /\ m = Sent[i].n /\ m \in Nat
    BY <1>4
  <2>2. PICK j \in DOMAIN Sent : Sent[j].kind = pair[2] /\ n = Sent[j].n
    BY DEF Told
  <2>3. Sent[j] \in FrameType /\ n \in Nat
    <3>1. Sent[j] \in FrameType
      BY <1>2
    <3> QED
      BY <2>2, <3>1 DEF FrameType
  <2>4. j < i
    <3>1. CASE pair[2] = "thinking"
      BY <1>1, <1>6, <2>1, <2>2, <3>1 DEF SentOK
    <3>2. CASE pair[2] = "content"
      <4>1. i < j => m <= n
        BY <1>1, <2>1, <2>2, <3>2 DEF SentOK
      <4>2. i # j
        BY <1>6, <2>1, <2>2, <2>3
      <4> QED
        BY <1>2, <1>6, <2>1, <2>3, <4>1, <4>2
    <3> QED
      BY <1>3, <3>1, <3>2
  <2>5. Sent[j] \in TakenFrames
    <3>1. OnTheWire(Sent[j]) = Sent[j]
      BY <1>3, <2>2, <2>3, OnTheWireType
    <3>2. j \in 1 .. Taken
      BY <1>2, <2>1, <2>4
    <3> QED
      BY <3>1, <3>2 DEF TakenFrames
  <2>6. Sent[j] \notin ToSet(pending)
    <3> SUFFICES ASSUME NEW k \in DOMAIN pending, pending[k] = Sent[j]
                 PROVE  FALSE
      BY DEF ToSet
    <3>1. m < n
      BY <1>3, <2>2 DEF Behind
    <3> QED
      BY <1>6, <2>1, <2>3, <3>1
  <2>7. Sent[j] \in F
    BY <2>5, <2>6
  <2> QED
    BY <1>3, <2>2, <2>7 DEF Numbers
<1> QED
  BY <1>3, <1>5, <1>6

LEMMA TakeFirstKeeps ==
  ASSUME IInv, TakeFirst
  PROVE  IInv'
<1>1. /\ TypeOK /\ Pipeline /\ SentOK /\ NetIsRest /\ LastIsLatest /\ EndMeansAll /\ Phases
      /\ InOrder /\ Ended /\ ErrorsTold
  BY DEF IInv
<1>2. /\ provider' = provider /\ net' = net /\ partial' = partial /\ adapter' = adapter /\ decoder' = decoder /\ reader' = reader
      /\ present' = present /\ channel' = <<>> /\ phase = "first" /\ channel # <<>>
      /\ Head(channel) = channel[1] /\ reader = "gone" /\ emitted = <<>> /\ Sent' = Sent
  BY <1>1 DEF TakeFirst, Phases, Sent, TypeOK
<1>3. /\ Events = channel[1].events /\ channel[1] \in Results /\ Events \in Seq(EventType)
      /\ channel' \in Seq(Results) /\ Len(channel') = 0
  <2>1. channel \in Seq(Results)
    BY <1>1 DEF TypeOK
  <2>2. channel[1] \in Results
    BY <1>2, <2>1
  <2>3. Events = channel[1].events
    BY <1>2 DEF Events
  <2>4. Events \in Seq(EventType)
    BY <2>2, <2>3 DEF Results
  <2> QED
    BY <1>2, <2>2, <2>3, <2>4
<1>4. NetIsRest' /\ TakenFrames' = TakenFrames /\ SentOK' /\ LastIsLatest' /\ EndMeansAll'
  <2>1. EndMeansAll'
    BY <1>1, <1>2 DEF EndMeansAll
  <2> QED
    BY <1>1, <1>2, <2>1, SentKept, TakenKept
<1>5. CASE channel[1].err # "none"
  <2>1. phase' = "refused" /\ closed' = TRUE /\ emitted' = emitted
    BY <1>2, <1>5 DEF TakeFirst
  <2>2. InOrder' /\ Ended' /\ ErrorsTold'
    BY <1>1, <1>2, <2>1, OrderKept, ErrorsKept
  <2>3. TypeOK'
    BY <1>1, <1>2, <1>3, <2>1 DEF TypeOK
  <2>4. Phases' /\ Pipeline'
    BY <1>1, <1>2, <2>1 DEF Phases, Pipeline, Going
  <2> QED
    BY <1>4, <2>2, <2>3, <2>4 DEF IInv
<1>6. CASE channel[1].err = "none" /\ ~present
  <2>1. phase' = "done" /\ closed' = TRUE /\ emitted' = emitted
    BY <1>2, <1>6 DEF TakeFirst, Written
  <2>2. InOrder' /\ Ended' /\ ErrorsTold'
    BY <1>1, <1>2, <2>1, OrderKept, ErrorsKept
  <2>3. TypeOK'
    BY <1>1, <1>2, <1>3, <2>1 DEF TypeOK
  <2>4. Phases' /\ Pipeline'
    BY <1>1, <1>2, <2>1 DEF Phases, Pipeline, Going
  <2> QED
    BY <1>4, <2>2, <2>3, <2>4 DEF IInv
<1>7. CASE channel[1].err = "none" /\ present
  <2>1. phase' = "streaming" /\ closed' = closed /\ emitted' = Events
    <3>1. emitted' = emitted \o channel[1].events /\ phase' = "streaming" /\ closed' = (closed \/ ~present)
      BY <1>2, <1>7 DEF TakeFirst, Written
    <3>2. closed \in BOOLEAN
      BY <1>1 DEF TypeOK
    <3>3. <<>> \o Events = Events
      BY <1>3
    <3> QED
      BY <1>2, <1>3, <1>7, <3>1, <3>2, <3>3
  <2>2. TypeOK'
    BY <1>1, <1>2, <1>3, <2>1 DEF TypeOK
  <2>3. Events' = Events /\ Going
    BY <1>2, <2>1 DEF Events, Going
  <2>4. Pipeline'
    BY <1>1, <1>2, <1>4, <2>3, PipelineKept
  <2>5. PICK F \in SUBSET TakenFrames : Piped(Events, F, adapter.pending)
    BY <1>1, <1>7, <2>3 DEF Pipeline
  <2>6. \A i \in DOMAIN emitted' : emitted'[i].ev \notin {"message_stop", "error", "tool"}
    BY <2>1, <2>5 DEF Piped, Upto, Delivered
  <2>7. Phases'
    BY <1>1, <1>2, <2>1, <2>6 DEF Phases
  <2>8. InOrder'
    <3>1. adapter.pending \in Seq(FrameType)
      BY <1>1 DEF TypeOK
    <3>2. \A pair \in Pairs :
            /\ Rising(Events, pair[1])
            /\ NumbersIn(Events, pair[1]) \subseteq Told(pair[2])
            /\ \A m \in NumbersIn(Events, pair[1]), n \in Told(pair[2]) :
                  n < m => n \in NumbersIn(Events, pair[1])
      BY <1>3, <2>5, <3>1, ToldInOrder DEF Piped
    <3>3. \A kind : Told(kind)' = Told(kind)
      BY <1>2 DEF Told
    <3> QED
      BY <2>1, <3>2, <3>3 DEF InOrder
  <2>9. Ended' /\ ErrorsTold'
    <3>1. emitted' # <<>> => Last(emitted') \in {emitted'[i] : i \in DOMAIN emitted'}
      BY <1>3, <2>1 DEF Last
    <3> QED
      BY <2>6, <3>1 DEF Ended, ErrorsTold, Finished, Places
  <2> QED
    BY <1>4, <2>2, <2>4, <2>7, <2>8, <2>9 DEF IInv
<1> QED
  BY <1>5, <1>6, <1>7

(* What ends a call is written after the rest of it.                         *)
LEMMA LastWritten ==
  ASSUME NEW s \in Seq(EventType), NEW q \in Seq(EventType), NEW e \in EventType, Closing(q),
         e.ev \in {"message_stop", "error"}
  PROVE  LET t == s \o Append(q, e)
         IN  /\ t \in Seq(EventType) /\ Append(q, e) \in Seq(EventType) /\ t # <<>>
             /\ Len(t) \in Nat /\ t[Len(t)] = e /\ Last(t) = e
             /\ q # <<>> => t[Len(t) - 1] = q[Len(q)]
             /\ DeltasIn(t, "text") # {} <=> NumbersIn(s, "text") # {}
             /\ \A pair \in Pairs : /\ NumbersIn(t, pair[1]) = NumbersIn(s, pair[1])
                                    /\ Rising(s, pair[1]) => Rising(t, pair[1])
             /\ \A i \in DOMAIN t : t[i].ev = "error" =>
                   e.ev = "error" \/ \E j \in DOMAIN s : s[j].ev = "error"
<1> DEFINE w == Append(q, e)
           t == s \o w
<1>1. /\ w \in Seq(EventType) /\ Len(w) = Len(q) + 1 /\ w[Len(w)] = e /\ Len(q) \in Nat /\ Len(s) \in Nat
      /\ \A i \in DOMAIN q : i \in DOMAIN w /\ w[i] = q[i]
      /\ \A i \in DOMAIN w : i \in DOMAIN q \/ i = Len(q) + 1
      /\ q # <<>> => Len(q) \in DOMAIN q
      /\ Len(w) \in DOMAIN w
  OBVIOUS
<1> HIDE DEF w
<1>2. Silent(w)
  BY <1>1 DEF Silent, Closing
<1>3. /\ t \in Seq(EventType)
      /\ \A i \in DOMAIN w : Len(s) + i \in DOMAIN t /\ t[Len(s) + i] = w[i]
      /\ \A i \in DOMAIN t : \/ i \in DOMAIN s /\ t[i] = s[i]
                             \/ i - Len(s) \in DOMAIN w /\ t[i] = w[i - Len(s)]
      /\ Len(t) = Len(s) + Len(w)
  <2>1. Len(t) = Len(s) + Len(w)
    BY <1>1
  <2>2. /\ t \in Seq(EventType)
        /\ \A i \in DOMAIN s : i \in DOMAIN t /\ t[i] = s[i]
        /\ \A i \in DOMAIN w : Len(s) + i \in DOMAIN t /\ t[Len(s) + i] = w[i]
        /\ \A i \in DOMAIN t : \/ i \in DOMAIN s
                               \/ i - Len(s) \in DOMAIN w /\ t[i] = w[i - Len(s)]
    BY <1>1, Appended
  <2> HIDE DEF t
  <2> QED
    BY <2>1, <2>2
<1> HIDE DEF t
<1>4. Len(t) \in Nat /\ t[Len(t)] = e /\ t # <<>> /\ Last(t) = e
  <2>1. t[Len(s) + Len(w)] = w[Len(w)]
    BY <1>1, <1>3
  <2>2. t[Len(t)] = e
    BY <1>1, <1>3, <2>1
  <2>3. Len(t) \in Nat /\ Len(t) > 0 /\ t # <<>>
    BY <1>1, <1>3
  <2> QED
    BY <2>2, <2>3 DEF Last
<1>5. q # <<>> => t[Len(t) - 1] = q[Len(q)]
  <2> SUFFICES ASSUME q # <<>>
               PROVE  t[Len(t) - 1] = q[Len(q)]
    OBVIOUS
  <2>1. Len(q) \in DOMAIN w /\ w[Len(q)] = q[Len(q)] /\ Len(t) - 1 = Len(s) + Len(q)
    BY <1>1, <1>3
  <2> QED
    BY <1>3, <2>1
<1>6. ASSUME NEW kind \in BlockKinds
      PROVE  /\ NumbersIn(t, kind) = NumbersIn(s, kind)
             /\ Rising(s, kind) => Rising(t, kind)
  BY <1>1, <1>2, SilentTellsNothing DEF t
<1>7. \A pair \in Pairs : /\ NumbersIn(t, pair[1]) = NumbersIn(s, pair[1])
                          /\ Rising(s, pair[1]) => Rising(t, pair[1])
  BY <1>6 DEF Pairs, BlockKinds
<1>8. DeltasIn(t, "text") # {} <=> NumbersIn(s, "text") # {}
  <2>1. DeltasIn(t, "text") # {} <=> NumbersIn(t, "text") # {}
    BY DEF NumbersIn
  <2> QED
    BY <1>6, <2>1 DEF BlockKinds
<1>9. ASSUME NEW i \in DOMAIN t, t[i].ev = "error"
      PROVE  e.ev = "error" \/ \E j \in DOMAIN s : s[j].ev = "error"
  <2>1. CASE i \in DOMAIN s /\ t[i] = s[i]
    BY <1>9, <2>1
  <2>2. CASE i - Len(s) \in DOMAIN w /\ t[i] = w[i - Len(s)]
    BY <1>1, <1>9, <2>2 DEF Closing
  <2> QED
    BY <1>3, <2>1, <2>2
<1> QED
  BY <1>1, <1>3, <1>4, <1>5, <1>7, <1>8, <1>9 DEF t, w

LEMMA ErrorIsTyped == EvError \in Seq(EventType) /\ EvError = Append(<<>>, Event("error", 0, <<>>))
                      /\ Event("error", 0, <<>>) \in EventType /\ Event("error", 0, <<>>).ev = "error"
<1>1. <<>> \in Seq(Int)
  OBVIOUS
<1>2. Event("error", 0, <<>>) \in EventType
  BY <1>1, EventsTyped
<1>3. Event("error", 0, <<>>).ev = "error"
  BY DEF Event
<1> QED
  BY <1>2, <1>3 DEF EvError

(* The call ends with nothing more written, or with an error.                *)
LEMMA DoneKeeps ==
  ASSUME IInv, phase = "streaming", phase' = "done", TypeOK',
         provider' = provider, net' = net, reader' = reader, channel' = channel,
         adapter'.last = adapter.last, adapter'.end = adapter.end,
         \/ emitted' = emitted
         \/ emitted' = emitted \o EvError /\ (adapter.end = "error" \/ Damaged \in ToSet(Sent))
  PROVE  IInv'
<1>1. /\ TypeOK /\ Pipeline /\ SentOK /\ NetIsRest /\ LastIsLatest /\ EndMeansAll /\ Phases
      /\ InOrder /\ Ended /\ ErrorsTold
  BY DEF IInv
<1>2. Sent' = Sent /\ reader = "gone" /\ channel = <<>> /\ emitted \in Seq(EventType)
  BY <1>1 DEF Sent, Phases, TypeOK
<1>3. NetIsRest' /\ SentOK' /\ LastIsLatest' /\ EndMeansAll'
  <2>1. EndMeansAll'
    BY <1>1 DEF EndMeansAll
  <2> QED
    BY <1>1, <1>2, <2>1, SentKept, TakenKept
<1>4. Phases' /\ Pipeline'
  BY <1>2 DEF Phases, Pipeline, Going
<1>5. CASE emitted' = emitted
  <2>1. InOrder' /\ Ended' /\ ErrorsTold'
    BY <1>1, <1>2, <1>5, OrderKept, ErrorsKept
  <2> QED
    BY <1>3, <1>4, <2>1 DEF IInv
<1>6. CASE emitted' = emitted \o EvError /\ (adapter.end = "error" \/ Damaged \in ToSet(Sent))
  <2> DEFINE e == Event("error", 0, <<>>)
             t == emitted \o Append(<<>>, e)
  <2>1. e \in EventType /\ e.ev = "error" /\ emitted' = t
    BY <1>6, ErrorIsTyped
  <2>2. /\ Last(t) = e
        /\ \A pair \in Pairs : /\ NumbersIn(t, pair[1]) = NumbersIn(emitted, pair[1])
                               /\ Rising(emitted, pair[1]) => Rising(t, pair[1])
    <3> HIDE DEF e
    <3> QED
      BY <1>2, <2>1, LastWritten, NothingIsQuiet
  <2> HIDE DEF t, e
  <2>3. InOrder'
    <3>1. \A kind : Told(kind)' = Told(kind)
      BY <1>2 DEF Told
    <3> QED
      BY <1>1, <2>1, <2>2, <3>1 DEF InOrder
  <2>4. Ended'
    BY <2>1, <2>2 DEF Ended, Finished
  <2>5. ErrorsTold'
    BY <1>2, <1>6 DEF ErrorsTold
  <2> QED
    BY <1>3, <1>4, <2>3, <2>4, <2>5 DEF IInv
<1> QED
  BY <1>5, <1>6

LEMMA ContinueKeeps ==
  ASSUME IInv, Continue
  PROVE  IInv'
<1> DEFINE fs == adapter.pending
           f == Head(fs)
           rest == Tail(fs)
           r == DecoderFeed(decoder, f)
<1>1. /\ TypeOK /\ Pipeline /\ SentOK /\ NetIsRest /\ LastIsLatest /\ EndMeansAll /\ Phases
      /\ InOrder /\ Ended /\ ErrorsTold
  BY DEF IInv
<1>2. /\ phase = "streaming" /\ fs # <<>> /\ adapter' = [adapter EXCEPT !.pending = rest]
      /\ provider' = provider /\ net' = net /\ partial' = partial /\ reader' = reader /\ channel' = channel /\ present' = present
      /\ Sent' = Sent
  BY DEF Continue, Done, Sent
<1>3. /\ adapter \in [pending : Seq(FrameType), last : Nat, buf : BOOLEAN, end : {"none", "eof", "error"}]
      /\ decoder \in DecoderType /\ fs \in Seq(FrameType) /\ emitted \in Seq(EventType)
      /\ Events = emitted /\ present \in BOOLEAN
  BY <1>1, <1>2 DEF TypeOK, Events
<1>4. PICK s \in Seq(EventType), F \in SUBSET TakenFrames :
           (present => s = emitted) /\ Piped(s, F, fs)
  BY <1>1, <1>2, <1>3 DEF Pipeline, Going
<1>5. f \in FrameType /\ rest \in Seq(FrameType) /\ f = fs[1] /\ 1 \in DOMAIN fs
  BY <1>2, <1>3, HeadAndTail
<1>6. /\ r \in DecoderType /\ r.out \in Seq(EventType) /\ s \o r.out \in Seq(EventType)
      /\ F \cup {f} \in SUBSET TakenFrames
      /\ Upto(r, s \o r.out, F \cup {f}) /\ TakenFrames = (F \cup {f}) \cup ToSet(rest)
      /\ RisingFrames(rest, "content") /\ RisingFrames(rest, "thinking")
      /\ Behind(s \o r.out, "text", rest, "content") /\ Behind(s \o r.out, "thinking", rest, "thinking")
  BY <1>2, <1>4, FrameDecoded
<1> HIDE DEF rest, r
<1>7. /\ adapter'.pending = rest /\ adapter'.last = adapter.last /\ adapter'.end = adapter.end
      /\ adapter' \in [pending : Seq(FrameType), last : Nat, buf : BOOLEAN, end : {"none", "eof", "error"}]
  BY <1>2, <1>3, <1>5
<1>8. CASE f = Damaged
  <2>1. decoder' = decoder /\ emitted' = Written(EvError) /\ phase' = "done" /\ closed' = TRUE
    BY <1>8 DEF Continue, Done
  <2>2. emitted' = emitted \/ emitted' = emitted \o EvError
    BY <2>1 DEF Written
  <2>3. emitted' \in Seq(EventType)
    <3>1. EvError \in Seq(EventType)
      BY ErrorIsTyped
    <3>2. emitted \o EvError \in Seq(EventType)
      BY <1>3, <3>1
    <3> QED
      BY <1>3, <2>2, <3>2
  <2>4. TypeOK'
    BY <1>1, <1>2, <1>7, <2>1, <2>3 DEF TypeOK
  <2>5. Damaged \in ToSet(Sent)
    <3>1. f \in TakenFrames
      BY <1>6
    <3>2. PICK i \in DOMAIN Sent : f.kind # "tool" \/ f.named => f = Sent[i]
      BY <3>1, FramesTaken
    <3>3. f.kind = "damaged"
      BY <1>8 DEF Damaged, Frame
    <3> QED
      BY <1>8, <3>2, <3>3 DEF ToSet
  <2> QED
    BY <1>2, <1>7, <2>1, <2>2, <2>4, <2>5, DoneKeeps
<1>9. CASE f # Damaged /\ ~present /\ r.out # <<>>
  <2>1. decoder' = r /\ emitted' = Written(<<>>) /\ phase' = "done" /\ closed' = TRUE
    BY <1>9 DEF Continue, Done, r
  <2>2. emitted' = emitted
    BY <1>9, <2>1 DEF Written
  <2>3. TypeOK'
    BY <1>1, <1>2, <1>6, <1>7, <2>1, <2>2 DEF TypeOK
  <2> QED
    BY <1>2, <1>7, <2>1, <2>2, <2>3, DoneKeeps
<1>10. CASE f # Damaged /\ ~(~present /\ r.out # <<>>)
  <2>1. decoder' = r /\ emitted' = Written(r.out) /\ phase' = phase /\ closed' = closed
    BY <1>10 DEF Continue, r
  <2>2. (present => emitted' = s \o r.out) /\ (~present => emitted' = emitted)
    BY <1>4, <2>1 DEF Written
  <2>3. emitted' \in Seq(EventType)
    BY <1>3, <1>6, <2>2
  <2>4. TypeOK'
    BY <1>1, <1>2, <1>6, <1>7, <2>1, <2>3 DEF TypeOK
  <2>5. NetIsRest' /\ TakenFrames' = TakenFrames /\ SentOK' /\ LastIsLatest' /\ EndMeansAll'
    <3>1. EndMeansAll'
      BY <1>1, <1>2, <1>7 DEF EndMeansAll
    <3> QED
      BY <1>1, <1>2, <1>7, <3>1, SentKept, TakenKept
  <2>6. Pipeline'
    <3>1. Events' = emitted'
      BY <1>2, <2>1 DEF Events
    <3>3. present' => s \o r.out = Events'
      BY <1>2, <2>2, <3>1
    <3> QED
      BY <1>6, <1>7, <2>1, <2>5, <3>3 DEF Pipeline, Piped
  <2>7. CASE ~present
    <3>1. emitted' = emitted
      BY <2>2, <2>7
    <3>2. InOrder' /\ Ended' /\ ErrorsTold'
      BY <1>1, <1>2, <1>7, <3>1, OrderKept, ErrorsKept
    <3>3. Phases'
      BY <1>1, <1>2, <2>1, <3>1 DEF Phases
    <3> QED
      BY <2>4, <2>5, <2>6, <3>2, <3>3 DEF IInv
  <2>8. CASE present
    <3> DEFINE t == s \o r.out
    <3>1. emitted' = t /\ t \in Seq(EventType)
      BY <1>6, <2>2, <2>8
    <3>2. \A i \in DOMAIN t : t[i].ev \notin {"message_stop", "error", "tool"}
      BY <1>6 DEF Upto, Delivered
    <3>3. \A pair \in Pairs :
            /\ Rising(t, pair[1])
            /\ NumbersIn(t, pair[1]) \subseteq Told(pair[2])
            /\ \A m \in NumbersIn(t, pair[1]), n \in Told(pair[2]) : n < m => n \in NumbersIn(t, pair[1])
      BY <1>5, <1>6, ToldInOrder
    <3> HIDE DEF t
    <3>4. Phases'
      BY <1>1, <1>2, <2>1, <3>1, <3>2 DEF Phases
    <3>5. InOrder'
      <4>1. \A kind : Told(kind)' = Told(kind)
        BY <1>2 DEF Told
      <4> QED
        BY <3>1, <3>3, <4>1 DEF InOrder
    <3>6. Ended' /\ ErrorsTold'
      <4>1. t # <<>> => Last(t) \in {t[i] : i \in DOMAIN t}
        BY <3>1 DEF Last
      <4> QED
        BY <3>1, <3>2, <4>1 DEF Ended, ErrorsTold, Finished, Places
    <3> QED
      BY <2>4, <2>5, <2>6, <3>4, <3>5, <3>6 DEF IInv
  <2> QED
    BY <1>3, <2>7, <2>8
<1> QED
  BY <1>3, <1>8, <1>9, <1>10

(* Once the net is empty the decoder has had every frame sent, and what it   *)
(* knows of them is what the provider said.                                  *)
LEMMA EverythingTaken ==
  ASSUME IInv, net = <<>>
  PROVE  /\ \A i \in DOMAIN Sent : \E g \in TakenFrames :
               /\ g.kind = Sent[i].kind /\ g.args = Sent[i].args /\ g.named = Sent[i].named
               /\ g.kind # "tool" \/ g.named => g = Sent[i]
         /\ \A g \in TakenFrames : \E i \in DOMAIN Sent :
               /\ g.kind = Sent[i].kind /\ g.args = Sent[i].args /\ g.named = Sent[i].named
               /\ g.kind # "tool" \/ g.named => g = Sent[i]
<1>1. /\ Sent \in Seq(FrameType) /\ Len(Sent) \in Nat /\ DOMAIN Sent = 1 .. Len(Sent)
  BY SentTyped DEF IInv
<1>2. Taken = Len(Sent)
  BY <1>1 DEF Taken
<1>3. ASSUME NEW i \in DOMAIN Sent
      PROVE  \E g \in TakenFrames : /\ g.kind = Sent[i].kind /\ g.args = Sent[i].args /\ g.named = Sent[i].named
                                    /\ g.kind # "tool" \/ g.named => g = Sent[i]
  <2>1. OnTheWire(Sent[i]) \in TakenFrames
    BY <1>1, <1>2 DEF TakenFrames
  <2>2. Sent[i] \in FrameType
    BY <1>1
  <2> QED
    BY <2>1, <2>2, OnTheWireType
<1>4. \A g \in TakenFrames : \E i \in DOMAIN Sent :
               /\ g.kind = Sent[i].kind /\ g.args = Sent[i].args /\ g.named = Sent[i].named
               /\ g.kind # "tool" \/ g.named => g = Sent[i]
  BY FramesTaken
<1> QED
  BY <1>3, <1>4

LEMMA AllHeard ==
  ASSUME IInv, net = <<>>, NEW s \in Seq(EventType), NEW d \in DecoderType, Upto(d, s, TakenFrames)
  PROVE  /\ \A pair \in Pairs : NumbersIn(s, pair[1]) = Told(pair[2])
         /\ Cut(d) <=> /\ Usage \notin ToSet(Sent) /\ Calls = {}
                       /\ NumbersIn(s, "text") # {} /\ \A f \in ToSet(Sent) : f.args = <<>>
<1>1. SentOK /\ Knows(d, s, TakenFrames)
  BY DEF IInv, Upto
<1>2. ASSUME NEW kind \in {"content", "thinking"}
      PROVE  Numbers(TakenFrames, kind) = Told(kind)
  <2>1. \A n \in Numbers(TakenFrames, kind) : n \in Told(kind)
    BY EverythingTaken DEF Numbers, Told
  <2>2. \A n \in Told(kind) : n \in Numbers(TakenFrames, kind)
    BY EverythingTaken DEF Numbers, Told
  <2> QED
    BY <2>1, <2>2
<1>3. \A pair \in Pairs : NumbersIn(s, pair[1]) = Told(pair[2])
  BY <1>1, <1>2 DEF Pairs, Knows
<1>4. d.usage <=> Usage \in ToSet(Sent)
  <2>1. d.usage <=> \E i \in DOMAIN Sent : Sent[i].kind = "usage"
    BY <1>1, EverythingTaken DEF Knows
  <2>2. (\E i \in DOMAIN Sent : Sent[i].kind = "usage") <=> Usage \in ToSet(Sent)
    BY <1>1 DEF SentOK, ToSet, Usage, Frame
  <2> QED
    BY <2>1, <2>2
<1>5. HasTool(d) <=> Calls # {}
  <2>1. HasTool(d) <=> \E i \in DOMAIN Sent : Sent[i].kind = "tool" /\ Sent[i].named
    BY <1>1, EverythingTaken DEF Knows
  <2>2. (\E i \in DOMAIN Sent : Sent[i].kind = "tool" /\ Sent[i].named) <=> Calls # {}
    BY DEF Calls, ToSet
  <2> QED
    BY <2>1, <2>2
<1>6. d.said # <<>> <=> NumbersIn(s, "text") # {}
  <2>1. d.said # <<>> <=> ToSet(d.said) # {}
    BY DEF DecoderType, ToSet
  <2>2. ToSet(d.said) # {} <=> Numbers(TakenFrames, "content") # {}
    BY <1>1 DEF Knows, Numbers
  <2> QED
    BY <1>1, <2>1, <2>2 DEF Knows
<1>7. ASSUME Calls = {}
      PROVE  (\A f \in ToSet(d.said) : f.args = <<>>) <=> \A f \in ToSet(Sent) : f.args = <<>>
  <2>1. (\A f \in ToSet(d.said) : f.args = <<>>)
        <=> \A i \in DOMAIN Sent : Sent[i].kind = "content" => Sent[i].args = <<>>
    <3>1. ToSet(d.said) = {f \in TakenFrames : f.kind = "content"}
      BY <1>1 DEF Knows
    <3> QED
      BY <3>1, EverythingTaken
  <2>2. \A i \in DOMAIN Sent : Sent[i].kind # "content" => Sent[i].args = <<>>
    BY <1>1, <1>7 DEF SentOK
  <2>3. (\A f \in ToSet(Sent) : f.args = <<>>) <=> \A i \in DOMAIN Sent : Sent[i].args = <<>>
    BY DEF ToSet
  <2> QED
    BY <2>1, <2>2, <2>3
<1>8. d.usage \in BOOLEAN
  BY DEF DecoderType
<1>9. Cut(d) <=> /\ Usage \notin ToSet(Sent) /\ Calls = {}
                 /\ NumbersIn(s, "text") # {} /\ \A f \in ToSet(Sent) : f.args = <<>>
  BY <1>4, <1>5, <1>6, <1>7, <1>8 DEF Cut
<1> QED
  BY <1>3, <1>9

LEMMA ReportIsTyped ==
  ASSUME NEW d \in DecoderType
  PROVE  /\ Report(d) \in EventType /\ Report(d).ev = "message_stop"
         /\ Report(d).x.content = ContentTruncated(d)
<1>1. \A t \in ToSet(d.tools) : t.id \in Int
  <2>1. d.tools \in Seq(CallType)
    BY DEF DecoderType
  <2>2. \A t \in ToSet(d.tools) : t \in CallType
    BY <2>1 DEF ToSet
  <2> QED
    BY <2>2 DEF CallType
<1>2. TruncatedTools(d) \in SUBSET Int
  BY <1>1 DEF TruncatedTools
<1>3. ContentTruncated(d) \in BOOLEAN
  BY DEF ContentTruncated
<1>4. [calls |-> TruncatedTools(d), content |-> ContentTruncated(d)] \in Reports
  BY <1>2, <1>3 DEF Reports
<1>5. Report(d) \in EventType
  BY <1>4, EventsTyped DEF Report
<1> QED
  BY <1>5 DEF Report, Event

LEMMA StreamEndsKeeps ==
  ASSUME IInv, StreamEnds
  PROVE  IInv'
<1>1. /\ TypeOK /\ Pipeline /\ SentOK /\ NetIsRest /\ LastIsLatest /\ EndMeansAll /\ Phases
      /\ InOrder /\ Ended /\ ErrorsTold
  BY DEF IInv
<1>2. /\ phase = "streaming" /\ adapter.pending = <<>> /\ adapter.end \in {"eof", "error"} /\ adapter' = adapter
      /\ provider' = provider /\ net' = net /\ partial' = partial /\ reader' = reader /\ channel' = channel /\ present' = present
      /\ phase' = "done" /\ closed' = TRUE /\ Sent' = Sent
  <2>1. adapter.end \in {"none", "eof", "error"}
    BY <1>1 DEF TypeOK
  <2> QED
    BY <2>1 DEF StreamEnds, Done, Sent
<1>3. /\ decoder \in DecoderType /\ emitted \in Seq(EventType) /\ Events = emitted /\ present \in BOOLEAN
  BY <1>1, <1>2 DEF TypeOK, Events
<1>4. CASE adapter.end = "error" /\ present
  <2>1. decoder' = decoder /\ emitted' = emitted \o EvError
    BY <1>4 DEF StreamEnds, Done, Written
  <2>2. emitted' \in Seq(EventType)
    <3>1. EvError \in Seq(EventType)
      BY ErrorIsTyped
    <3> HIDE DEF EvError
    <3> QED
      BY <1>3, <2>1, <3>1
  <2>3. TypeOK'
    BY <1>1, <1>2, <2>1, <2>2 DEF TypeOK
  <2> QED
    BY <1>2, <1>4, <2>1, <2>3, DoneKeeps
<1>5. CASE ~(adapter.end = "error" /\ present)
  <2> DEFINE q == decoder'.out
             e == Report(decoder')
  <2>1. DecoderFinish(decoder) /\ emitted' = Written(Append(q, e))
    BY <1>5 DEF StreamEnds, Done
  <2>2. /\ decoder' \in DecoderType /\ Closing(q) /\ q # <<>>
        /\ q[Len(q)].x[1] = "max_tokens" <=> Cut(decoder)
        /\ ContentTruncated(decoder') <=> Cut(decoder)
    BY <1>3, <2>1, Finishes
  <2>3. /\ e \in EventType /\ e.ev = "message_stop" /\ e.x.content = ContentTruncated(decoder')
        /\ q \in Seq(EventType)
    <3>1. \A d \in DecoderType : /\ Report(d) \in EventType /\ Report(d).ev = "message_stop"
                                 /\ Report(d).x.content = ContentTruncated(d)
      BY ReportIsTyped
    <3> QED
      BY <2>2, <3>1 DEF DecoderType
  <2> HIDE DEF q, e
  <2>4. CASE ~present
    <3>1. emitted' = emitted
      BY <2>1, <2>4 DEF Written
    <3>2. TypeOK'
      BY <1>1, <1>2, <2>2, <3>1 DEF TypeOK
    <3> QED
      BY <1>2, <3>1, <3>2, DoneKeeps
  <2>5. CASE present
    <3> DEFINE t == emitted \o Append(q, e)
    <3>1. emitted' = t
      BY <2>1, <2>5 DEF Written
    <3>2. /\ t \in Seq(EventType) /\ t # <<>> /\ Last(t) = e /\ t[Len(t) - 1] = q[Len(q)]
          /\ DeltasIn(t, "text") # {} <=> NumbersIn(emitted, "text") # {}
          /\ \A pair \in Pairs : /\ NumbersIn(t, pair[1]) = NumbersIn(emitted, pair[1])
                                 /\ Rising(emitted, pair[1]) => Rising(t, pair[1])
          /\ \A i \in DOMAIN t : t[i].ev = "error" =>
                e.ev = "error" \/ \E j \in DOMAIN emitted : emitted[j].ev = "error"
      BY <1>3, <2>2, <2>3, LastWritten
    <3> HIDE DEF t
    <3>3. adapter.end = "eof" /\ provider.end # "open" /\ net = <<>>
      BY <1>1, <1>2, <1>5, <2>5 DEF EndMeansAll
    <3>4. Upto(decoder, emitted, TakenFrames)
      <4>1. PICK F \in SUBSET TakenFrames : Piped(emitted, F, <<>>)
        BY <1>1, <1>2, <1>3, <2>5 DEF Pipeline, Going
      <4>2. ToSet(<<>>) = {}
        BY DEF ToSet
      <4>3. TakenFrames = F
        BY <4>1, <4>2 DEF Piped
      <4> QED
        BY <4>1, <4>3 DEF Piped
    <3>5. /\ \A pair \in Pairs : NumbersIn(emitted, pair[1]) = Told(pair[2])
          /\ Cut(decoder) <=> /\ Usage \notin ToSet(Sent) /\ Calls = {}
                              /\ NumbersIn(emitted, "text") # {} /\ \A f \in ToSet(Sent) : f.args = <<>>
      BY <1>3, <3>3, <3>4, AllHeard
    <3>6. NetIsRest' /\ SentOK' /\ LastIsLatest' /\ EndMeansAll'
      <4>1. EndMeansAll'
        BY <1>1, <1>2 DEF EndMeansAll
      <4> QED
        BY <1>1, <1>2, <4>1, SentKept, TakenKept
    <3>7. TypeOK'
      BY <1>1, <1>2, <2>2, <3>1, <3>2 DEF TypeOK
    <3>8. Phases' /\ Pipeline'
      <4>1. reader = "gone" /\ channel = <<>>
        BY <1>1, <1>2 DEF Phases
      <4> QED
        BY <1>2, <4>1 DEF Phases, Pipeline, Going
    <3>9. \A kind : Told(kind)' = Told(kind)
      BY <1>2 DEF Told
    <3>10. InOrder'
      BY <1>1, <3>1, <3>2, <3>9 DEF InOrder
    <3>11. Ended'
      <4>1. \A pair \in Pairs : NumbersIn(emitted', pair[1]) = Told(pair[2])'
        BY <3>1, <3>2, <3>5, <3>9
      <4>2. CutOff' <=> Cut(decoder)
        <5>1. Calls' = Calls
          BY <1>2 DEF Calls
        <5> QED
          BY <1>2, <3>1, <3>2, <3>5, <5>1 DEF CutOff
      <4>3. (Stopping = "max_tokens")' <=> Cut(decoder)
        BY <2>2, <3>1, <3>2 DEF Stopping
      <4>4. Reported'.content <=> Cut(decoder)
        BY <2>2, <2>3, <3>1, <3>2 DEF Reported
      <4>5. Reported'.content \in BOOLEAN
        BY <2>3, <3>1, <3>2 DEF Reported, ContentTruncated
      <4>6. (Stopping = "max_tokens")' = CutOff' /\ Reported'.content = CutOff'
        BY <4>2, <4>3, <4>4, <4>5 DEF CutOff
      <4> QED
        BY <1>2, <3>3, <4>1, <4>6 DEF Ended
    <3>12. ErrorsTold'
      <4>1. \A i \in DOMAIN emitted : emitted[i].ev # "error"
        BY <1>1, <1>2 DEF Phases
      <4> QED
        BY <2>3, <3>1, <3>2, <4>1 DEF ErrorsTold, Places
    <3> QED
      BY <3>6, <3>7, <3>8, <3>10, <3>11, <3>12 DEF IInv
  <2> QED
    BY <1>3, <2>4, <2>5
<1> QED
  BY <1>4, <1>5

-----------------------------------------------------------------------------
(* The specification.                                                        *)

LEMMA Starts == Init => IInv
<1> SUFFICES ASSUME Init
             PROVE  IInv
  OBVIOUS
<1>1. /\ provider.sent = <<>> /\ provider.end = "open" /\ net = <<>> /\ closed = FALSE
      /\ partial = [front |-> FALSE, back |-> FALSE]
      /\ adapter = [pending |-> <<>>, last |-> 0, buf |-> FALSE, end |-> "none"] /\ decoder = NewDecoder
      /\ reader = "none" /\ channel = <<>> /\ phase = "asked" /\ emitted = <<>> /\ present = TRUE
      /\ Sent = <<>> /\ Events = <<>>
  BY DEF Init, Sent, Events
<1>2. TypeOK
  <2>1. <<>> \in Seq(FrameType) /\ <<>> \in Seq(Results) /\ <<>> \in Seq(EventType) /\ Len(<<>>) = 0
    OBVIOUS
  <2>2. provider \in [sent : Seq(FrameType), repeats : BOOLEAN, end : {"open", "closed", "broken"}]
    BY <2>1 DEF Init
  <2>3. adapter \in [pending : Seq(FrameType), last : Nat, buf : BOOLEAN, end : {"none", "eof", "error"}]
    BY <1>1, <2>1
  <2>4. /\ net \in Seq(FrameType) /\ channel \in Seq(Results) /\ Len(channel) <= 1
        /\ emitted \in Seq(EventType) /\ decoder \in DecoderType
    BY <1>1, <2>1, NewKnowsNothing
  <2>5. /\ closed \in BOOLEAN /\ partial \in [front : BOOLEAN, back : BOOLEAN]
        /\ present \in BOOLEAN /\ reader \in {"none", "reading", "gone"}
        /\ phase \in {"asked", "first", "streaming", "refused", "done"}
    BY <1>1
  <2> QED
    BY <2>2, <2>3, <2>4, <2>5 DEF TypeOK
<1>3. Taken = 0 /\ TakenFrames = {}
  BY <1>1 DEF Taken, TakenFrames
<1>4. Pipeline
  <2>1. Piped(<<>>, {}, <<>>)
    <3>1. ToSet(<<>>) = {} /\ RisingFrames(<<>>, "content") /\ RisingFrames(<<>>, "thinking")
      BY DEF ToSet, RisingFrames
    <3>2. Behind(<<>>, "text", <<>>, "content") /\ Behind(<<>>, "thinking", <<>>, "thinking")
      BY DEF Behind
    <3> QED
      BY <1>1, <1>3, <3>1, <3>2, NewKnowsNothing DEF Piped
  <2>2. <<>> \in Seq(EventType) /\ {} \in SUBSET TakenFrames
    OBVIOUS
  <2> QED
    BY <1>1, <2>1, <2>2 DEF Pipeline
<1>5. SentOK
  BY <1>1 DEF SentOK
<1>6. NetIsRest /\ LastIsLatest /\ EndMeansAll
  BY <1>1, <1>3 DEF NetIsRest, LastIsLatest, EndMeansAll
<1>7. Phases
  BY <1>1 DEF Phases
<1>8. InOrder
  <2>1. \A kind : NumbersIn(emitted, kind) = {} /\ Rising(emitted, kind)
    BY <1>1 DEF NumbersIn, DeltasIn, Rising
  <2> QED
    BY <2>1 DEF InOrder
<1>9. Ended /\ ErrorsTold
  BY <1>1 DEF Ended, Finished, ErrorsTold, Places
<1> QED
  BY <1>2, <1>4, <1>5, <1>6, <1>7, <1>8, <1>9 DEF IInv

LEMMA StandsStill ==
  ASSUME IInv, UNCHANGED vars
  PROVE  IInv'
<1>1. TypeOK /\ Phases
  BY DEF IInv
<1>2. TypeOK'
  BY <1>1 DEF TypeOK, vars
<1>3. Phases'
  BY <1>1 DEF Phases, vars
<1>4. Events' = Events
  BY DEF Events, vars
<1> QED
  BY <1>2, <1>3, <1>4, OthersKept DEF vars, Going

LEMMA StepKeeps ==
  ASSUME IInv, BytesKept, [Next]_vars
  PROVE  IInv'
<1>1. CASE Refuse
  BY <1>1, RefuseKeeps
<1>2. CASE Accepted
  BY <1>2, AcceptedKeeps
<1>3. CASE TakeFirst
  BY <1>3, TakeFirstKeeps
<1>4. CASE FirstTimeout
  BY <1>4, FirstTimeoutKeeps
<1>5. CASE Continue
  BY <1>5, ContinueKeeps
<1>6. CASE StreamEnds
  BY <1>6, StreamEndsKeeps
<1>7. CASE ReadFirst
  BY <1>7, ReadFirstKeeps
<1>8. CASE ReadClosed
  BY <1>8, ReadClosedKeeps
<1>9. CASE Read
  BY <1>9, ReadKeeps
<1>10. CASE ReadTimeout
  BY <1>10, ReadTimeoutKeeps
<1>11. CASE CallerLeaves
  BY <1>11, CallerLeavesKeeps
<1>12. ASSUME NEW f \in Frames, Send(f)
       PROVE  IInv'
  BY <1>12, SendKeeps
<1>13. ASSUME NEW how \in {"closed", "broken"}, End(how)
       PROVE  IInv'
  BY <1>13, EndKeeps
<1>14. CASE UNCHANGED vars
  BY <1>14, StandsStill
<1>15. CASE Begin
  BY <1>15, BeginKeeps
<1> QED
  BY <1>1, <1>2, <1>3, <1>4, <1>5, <1>6, <1>7, <1>8, <1>9, <1>10, <1>11, <1>12, <1>13, <1>14, <1>15
     DEF Next, Service, Reads, Handler, ProviderSteps

LEMMA BytesAtFirst == Init => BytesKept
  BY DEF Init, BytesKept

LEMMA InvariantHolds == Spec => []IInv
<1>1. IInv /\ BytesKept /\ [Next]_vars => IInv' /\ BytesKept'
  BY StepKeeps, BytesStay DEF IInv
<1> QED
  BY Starts, BytesAtFirst, <1>1, PTL DEF Spec

(* Whatever the provider sends and however its bytes arrive, every variable  *)
(* holds what the code may put there: a decoder with a call it knows nothing *)
(* of, a second result in the channel, an event without its fields are ruled *)
(* out (kiro_execute.go:305, decode.go:150).                                 *)
THEOREM TypesKept == Spec => []TypeOK
<1>1. IInv => TypeOK
  BY DEF IInv
<1> QED
  BY InvariantHolds, <1>1, PTL

(* For any number of frames, whatever they are and however they are cut into *)
(* Reads, also inside a frame, what the caller is sent is a beginning of     *)
(* what the provider said, in its order and each text once, and all of it    *)
(* when the answer ends by itself, but for contents that do not parse        *)
(* (eventstream.go:39, eventstream.go:81, decode.go:164, kiro_execute.go:276). *)
THEOREM TheAnswerIsPassedOn == Spec => []NothingRepeatedOrLost
  BY InvariantHolds, OrderImplied, PTL

(* For any number of frames, a finished answer says that it was cut off      *)
(* exactly if the provider ended it without its closing frame and made no    *)
(* call, and an error is written only after a damaged frame or a Read that   *)
(* failed (decode.go:234, kiro_execute.go:255).                              *)
THEOREM CutsAreTold == Spec => []CutAnswersSaySo
  BY InvariantHolds, CutImplied, PTL

-----------------------------------------------------------------------------
(* The calls. FlattenSeq goes through its sequences from the first to the    *)
(* last.                                                                     *)

Joins(seqs, S, f) ==
    /\ f \in [0 .. Len(seqs) -> Seq(S)] /\ f[0] = <<>>
    /\ \A i \in 1 .. Len(seqs) : f[i] = f[i - 1] \o seqs[i]
    /\ f[Len(seqs)] = FlattenSeq(seqs)

LEMMA FlattenedInOrder ==
  ASSUME NEW S, NEW seqs \in Seq(Seq(S))
  PROVE  \E f : Joins(seqs, S, f)
<1> DEFINE n == Len(seqs)
<1>1. CASE n = 0
  <2>1. seqs = <<>>
    BY <1>1
  <2>2. FlattenSeq(seqs) = <<>>
    BY <2>1 DEF FlattenSeq
  <2> DEFINE f == [i \in 0 .. 0 |-> <<>>]
  <2>3. f \in [0 .. 0 -> Seq(S)] /\ f[0] = <<>>
    OBVIOUS
  <2> HIDE DEF f
  <2>4. Joins(seqs, S, f)
    BY <1>1, <2>2, <2>3 DEF Joins
  <2> QED
    BY <2>4
<1>2. CASE n # 0
  <2> DEFINE Body(f) == [i \in 1 .. n |-> IF i = 1 THEN seqs[i] ELSE f[i - 1] \o seqs[i]]
             flatten == CHOOSE f : f = Body(f)
             step == [p \in Seq(S) \X (1 .. n) |-> p[1] \o seqs[p[2]]]
  <2>0. n \in Nat /\ n >= 1 /\ DOMAIN seqs = 1 .. n /\ \A i \in 1 .. n : seqs[i] \in Seq(S)
    BY <1>2
  <2>1. step \in [Seq(S) \X (1 .. n) -> Seq(S)]
    BY <2>0
  <2>2. PICK f : /\ f \in [0 .. n -> Seq(S)]
                 /\ f[0] = <<>> /\ \A i \in 1 .. n : f[i] = step[<<f[i - 1], i>>]
    <3> DEFINE A == Seq(S)
               base == <<>>
    <3>1. base \in A /\ step \in [A \X (1 .. n) -> A] /\ n \in Nat
      BY <2>0, <2>1
    <3> HIDE DEF step, n, A, base
    <3>2. Solutions(n, A, base, step) # {}
      BY <3>1, RecursionSolved
    <3> QED
      BY <3>2 DEF A, base, Solutions
  <2>3. ASSUME NEW i \in 1 .. n
        PROVE  f[i] = f[i - 1] \o seqs[i]
    <3>1. i - 1 \in 0 .. n
      BY <2>0
    <3>2. <<f[i - 1], i>> \in Seq(S) \X (1 .. n)
      BY <2>2, <3>1
    <3>3. step[<<f[i - 1], i>>] = f[i - 1] \o seqs[i]
      BY <3>2
    <3> QED
      BY <2>2, <3>3
  <2>4. f[1] = seqs[1]
    <3>1. 1 \in 1 .. n /\ 1 - 1 = 0
      BY <2>0
    <3>2. f[1] = f[0] \o seqs[1] /\ seqs[1] \in Seq(S)
      <4> HIDE DEF n
      <4> QED
        BY <2>0, <2>3, <3>1
    <3> QED
      BY <2>2, <3>2
  <2> DEFINE h == [i \in 1 .. n |-> f[i]]
  <2>5. h = Body(h)
    <3>1. ASSUME NEW i \in 1 .. n
          PROVE  h[i] = IF i = 1 THEN seqs[i] ELSE h[i - 1] \o seqs[i]
      <4>1. CASE i = 1
        BY <4>1, <2>4
      <4>2. CASE i # 1
        <5>1. i - 1 \in 1 .. n
          BY <4>2, <2>0
        <5>2. h[i - 1] = f[i - 1] /\ h[i] = f[i]
          BY <5>1
        <5> HIDE DEF h
        <5> QED
          BY <4>2, <5>2, <2>3
      <4> QED
        BY <4>1, <4>2
    <3> HIDE DEF n
    <3>2. h = [i \in 1 .. n |-> h[i]]
      OBVIOUS
    <3> HIDE DEF h
    <3> QED
      BY <3>1, <3>2
  <2>6. flatten = Body(flatten)
    <3> HIDE DEF Body
    <3> QED
      BY <2>5
  <2>7. FlattenSeq(seqs) = flatten[n]
    BY <1>2 DEF FlattenSeq
  <2> HIDE DEF flatten
  <2>8. flatten[1] = seqs[1] /\ \A i \in 2 .. n : flatten[i] = flatten[i - 1] \o seqs[i]
    <3> HIDE DEF n
    <3>1. \A i \in 1 .. n : flatten[i] = IF i = 1 THEN seqs[i] ELSE flatten[i - 1] \o seqs[i]
      BY <2>6
    <3>2. 1 \in 1 .. n /\ \A i \in 2 .. n : i \in 1 .. n /\ i # 1
      BY <2>0
    <3> QED
      BY <3>1, <3>2
  <2> DEFINE T == {i \in 0 .. n : i = 0 \/ f[i] = flatten[i]}
  <2>9. ASSUME NEW i \in 0 .. n - 1, i \in T
        PROVE  i + 1 \in T
    <3>1. i + 1 \in 0 .. n /\ i + 1 \in 1 .. n /\ (i + 1) - 1 = i
      BY <2>0
    <3>2. CASE i = 0
      BY <3>1, <3>2, <2>4, <2>8
    <3>3. CASE i # 0
      <4>1. i + 1 \in 2 .. n
        BY <3>1, <3>3
      <4>2. flatten[i + 1] = flatten[i] \o seqs[i + 1]
        <5> HIDE DEF n
        <5> QED
          BY <4>1, <3>1, <2>8
      <4>3. f[i + 1] = f[i] \o seqs[i + 1]
        <5> HIDE DEF n
        <5> QED
          BY <3>1, <2>3
      <4> QED
        BY <2>9, <3>1, <3>3, <4>2, <4>3
    <3> QED
      BY <3>2, <3>3
  <2>10. n \in T
    <3>1. 0 \in T
      BY <2>0
    <3> HIDE DEF T, n
    <3>2. \A i \in 0 .. n : i \in T
      BY <2>0, <2>9, <3>1, Induction
    <3> QED
      BY <2>0, <3>2
  <2>11. f[n] = FlattenSeq(seqs)
    BY <1>2, <2>7, <2>10
  <2>12. Joins(seqs, S, f)
    BY <2>2, <2>3, <2>11 DEF Joins
  <2> QED
    BY <2>12
<1> QED
  BY <1>1, <1>2

LEMMA FlattenedAppend ==
  ASSUME NEW S, NEW seqs \in Seq(Seq(S)), NEW x \in Seq(S)
  PROVE  FlattenSeq(Append(seqs, x)) = FlattenSeq(seqs) \o x
<1> DEFINE n == Len(seqs)
           more == Append(seqs, x)
<1>1. n \in Nat /\ more \in Seq(Seq(S)) /\ Len(more) = n + 1 /\ more[n + 1] = x
      /\ \A i \in 1 .. n : more[i] = seqs[i]
  OBVIOUS
<1> HIDE DEF more
<1>2. PICK f : Joins(seqs, S, f)
  BY FlattenedInOrder
<1>3. PICK g : Joins(more, S, g)
  BY <1>1, FlattenedInOrder
<1> DEFINE T == {i \in 0 .. n : f[i] = g[i]}
<1>4. 0 \in T
  BY <1>1, <1>2, <1>3 DEF Joins
<1>5. ASSUME NEW i \in 0 .. n - 1, i \in T
      PROVE  i + 1 \in T
  <2>1. i + 1 \in 0 .. n /\ i + 1 \in 1 .. n /\ i + 1 \in 1 .. Len(more) /\ (i + 1) - 1 = i
    BY <1>1
  <2>2. f[i + 1] = f[i] \o seqs[i + 1]
    BY <1>2, <2>1 DEF Joins
  <2>3. g[i + 1] = g[i] \o more[i + 1]
    BY <1>3, <2>1 DEF Joins
  <2> QED
    BY <1>1, <1>5, <2>1, <2>2, <2>3
<1> HIDE DEF T
<1>6. n \in T
  <2> HIDE DEF n
  <2>1. \A i \in 0 .. n : i \in T
    BY <1>1, <1>4, <1>5, Induction
  <2> QED
    BY <1>1, <2>1
<1>7. g[n + 1] = g[n] \o x
  <2>1. n + 1 \in 1 .. Len(more) /\ (n + 1) - 1 = n
    BY <1>1
  <2>2. g[n + 1] = g[n] \o more[n + 1]
    BY <1>3, <2>1 DEF Joins
  <2> QED
    BY <1>1, <2>2
<1> QED
  BY <1>1, <1>2, <1>3, <1>6, <1>7 DEF Joins, T, more

-----------------------------------------------------------------------------
(* What the frames sent say of the calls, for any frames.                    *)

PartsOf(sent, call) ==
    [i \in DOMAIN sent |-> IF sent[i].kind = "tool" /\ sent[i].n = call THEN sent[i].args ELSE <<>>]
CallsOf(sent) == {f.n : f \in {g \in ToSet(sent) : g.kind = "tool" /\ g.named}}
GivenOf(sent, call) ==
    IF Whole(call) \in ToSet(sent) THEN Arguments(call) ELSE FlattenSeq(PartsOf(sent, call))
StoppedOf(sent, call) == \E f \in ToSet(sent) : f.kind = "tool" /\ f.n = call /\ f.stop
UnstoppedOf(sent) == {call \in CallsOf(sent) : ~StoppedOf(sent, call)}
HalfOf(sent) == {call \in CallsOf(sent) : ~Parses(GivenOf(sent, call))}

LEMMA SentSays ==
  /\ Calls = CallsOf(Sent) /\ Unstopped = UnstoppedOf(Sent) /\ Half = HalfOf(Sent)
  /\ \A call : Given(call) = GivenOf(Sent, call) /\ (Stopped(call) <=> StoppedOf(Sent, call))
<1>1. Calls = CallsOf(Sent)
  BY DEF Calls, CallsOf
<1>2. \A call : Given(call) = GivenOf(Sent, call) /\ (Stopped(call) <=> StoppedOf(Sent, call))
  BY DEF Given, GivenOf, PartsOf, Stopped, StoppedOf
<1> QED
  BY <1>1, <1>2 DEF Unstopped, UnstoppedOf, Half, HalfOf

(* what there is of the arguments of a call at any time *)
ShownOf(call) == {<<>>, <<<<call, 1>>>>, Arguments(call)}

LEMMA Two ==
  ASSUME NEW S, NEW a \in S, NEW b \in S
  PROVE  <<a>> \o <<b>> = <<a, b>>
<1>1. /\ <<a>> \o <<b>> \in Seq(S) /\ Len(<<a>> \o <<b>>) = 2
      /\ (<<a>> \o <<b>>)[1] = a /\ (<<a>> \o <<b>>)[2] = b
  OBVIOUS
<1>2. <<a, b>> \in Seq(S) /\ Len(<<a, b>>) = 2 /\ \A i \in 1 .. 2 : i = 1 \/ i = 2
  OBVIOUS
<1>3. \A i \in 1 .. 2 : (<<a>> \o <<b>>)[i] = <<a, b>>[i]
  BY <1>1, <1>2
<1> QED
  BY <1>1, <1>2, <1>3, SeqEqual

LEMMA PartlyShown ==
  ASSUME NEW call \in Nat
  PROVE  /\ <<>> \in ShownOf(call) /\ Arguments(call) \in ShownOf(call)
         /\ Parses(<<>>) /\ Parses(Arguments(call)) /\ <<>> # Arguments(call) /\ ShownOf(call) \subseteq Pieces
         /\ Len(<<>>) = 0 /\ Len(Arguments(call)) = 2
         /\ \A a \in ShownOf(call) :
               /\ Len(a) \in Nat /\ (~Parses(a) <=> a = <<<<call, 1>>>>)
               /\ Len(a) < 2 => a \o <<<<call, Len(a) + 1>>>> \in ShownOf(call) /\ Len(a) \in {0, 1}
<1>1. Len(<<>>) = 0 /\ Len(<<<<call, 1>>>>) = 1 /\ Len(Arguments(call)) = 2
  BY DEF Arguments
<1>2. <<>> \o <<<<call, 1>>>> = <<<<call, 1>>>>
  OBVIOUS
<1>3. <<<<call, 1>>>> \o <<<<call, 2>>>> = Arguments(call)
  <2>1. <<call, 1>> \in Nat \X Nat /\ <<call, 2>> \in Nat \X Nat
    OBVIOUS
  <2> QED
    BY <2>1, Two DEF Arguments
<1>4. <<>> \in Pieces /\ <<<<call, 1>>>> \in Pieces /\ Arguments(call) \in Pieces
  <2>1. <<>> \in Pieces
    BY DEF Pieces
  <2> QED
    BY <2>1, ArgumentsTyped
<1>5. ShownOf(call) \subseteq Pieces
  BY <1>4 DEF ShownOf
<1>6. ASSUME NEW a \in ShownOf(call)
      PROVE  /\ Len(a) \in Nat /\ (~Parses(a) <=> a = <<<<call, 1>>>>)
             /\ Len(a) < 2 => a \o <<<<call, Len(a) + 1>>>> \in ShownOf(call) /\ Len(a) \in {0, 1}
  <2>1. CASE a = <<>>
    <3>1. Len(a) = 0 /\ Len(a) + 1 = 1 /\ Parses(a) /\ a # <<<<call, 1>>>>
      BY <1>1, <2>1 DEF Parses
    <3>2. a \o <<<<call, Len(a) + 1>>>> \in ShownOf(call)
      BY <1>2, <2>1, <3>1 DEF ShownOf
    <3> QED
      BY <3>1, <3>2
  <2>2. CASE a = <<<<call, 1>>>>
    <3>1. Len(a) = 1 /\ Len(a) + 1 = 2 /\ ~Parses(a)
      BY <1>1, <2>2 DEF Parses
    <3>2. a \o <<<<call, Len(a) + 1>>>> \in ShownOf(call)
      BY <1>3, <2>2, <3>1 DEF ShownOf
    <3> QED
      BY <2>2, <3>1, <3>2
  <2>3. CASE a = Arguments(call)
    <3>1. Len(a) = 2
      BY <1>1, <2>3
    <3>2. Parses(a) /\ ~(Len(a) < 2)
      BY <3>1 DEF Parses
    <3>3. a # <<<<call, 1>>>>
      <4> DEFINE one == <<<<call, 1>>>>
      <4>1. Len(one) = 1
        BY <1>1
      <4> HIDE DEF one
      <4> QED
        BY <3>1, <4>1 DEF one
    <3> QED
      BY <3>1, <3>2, <3>3
  <2> QED
    BY <2>1, <2>2, <2>3 DEF ShownOf
<1>7. Parses(<<>>) /\ Parses(Arguments(call)) /\ <<>> # Arguments(call)
  BY <1>1 DEF Parses
<1>8. <<>> \in ShownOf(call) /\ Arguments(call) \in ShownOf(call)
  BY DEF ShownOf
<1> QED
  BY <1>1, <1>5, <1>6, <1>7, <1>8

LEMMA PartsTyped ==
  ASSUME NEW sent \in Seq(FrameType), NEW call
  PROVE  PartsOf(sent, call) \in Seq(Pieces) /\ DOMAIN PartsOf(sent, call) = DOMAIN sent
<1> DEFINE parts == PartsOf(sent, call)
<1>1. DOMAIN sent = 1 .. Len(sent) /\ Len(sent) \in Nat /\ \A i \in DOMAIN sent : sent[i] \in FrameType
  OBVIOUS
<1>2. \A i \in DOMAIN sent : sent[i].args \in Pieces
  BY <1>1 DEF FrameType
<1>3. <<>> \in Pieces
  BY DEF Pieces
<1>4. parts \in [1 .. Len(sent) -> Pieces]
  BY <1>1, <1>2, <1>3 DEF PartsOf
<1> HIDE DEF parts
<1> QED
  BY <1>1, <1>4 DEF parts

LEMMA SentGrows ==
  ASSUME NEW sent \in Seq(FrameType), NEW f \in FrameType
  PROVE  LET more == Append(sent, f)
         IN  /\ more \in Seq(FrameType) /\ Len(more) = Len(sent) + 1 /\ ToSet(more) = ToSet(sent) \cup {f}
             /\ CallsOf(more) = CallsOf(sent) \cup (IF f.kind = "tool" /\ f.named THEN {f.n} ELSE {})
             /\ \A call :
                   /\ StoppedOf(more, call) <=>
                         StoppedOf(sent, call) \/ (f.kind = "tool" /\ f.n = call /\ f.stop)
                   /\ FlattenSeq(PartsOf(more, call)) =
                         FlattenSeq(PartsOf(sent, call))
                           \o (IF f.kind = "tool" /\ f.n = call THEN f.args ELSE <<>>)
                   /\ FlattenSeq(PartsOf(sent, call)) \in Pieces
<1> DEFINE more == Append(sent, f)
<1>1. more \in Seq(FrameType) /\ Len(more) = Len(sent) + 1
  OBVIOUS
<1>2. ToSet(more) = ToSet(sent) \cup {f}
  BY OneMoreFrame
<1>3. DOMAIN more = 1 .. Len(sent) + 1 /\ more[Len(sent) + 1] = f /\ DOMAIN sent = 1 .. Len(sent)
      /\ Len(sent) \in Nat /\ \A i \in DOMAIN sent : more[i] = sent[i]
  OBVIOUS
<1> HIDE DEF more
<1>4. CallsOf(more) = CallsOf(sent) \cup (IF f.kind = "tool" /\ f.named THEN {f.n} ELSE {})
  BY <1>2 DEF CallsOf
<1>5. ASSUME NEW call
      PROVE  /\ StoppedOf(more, call) <=>
                   StoppedOf(sent, call) \/ (f.kind = "tool" /\ f.n = call /\ f.stop)
             /\ FlattenSeq(PartsOf(more, call)) =
                   FlattenSeq(PartsOf(sent, call))
                     \o (IF f.kind = "tool" /\ f.n = call THEN f.args ELSE <<>>)
             /\ FlattenSeq(PartsOf(sent, call)) \in Pieces
  <2> DEFINE x == IF f.kind = "tool" /\ f.n = call THEN f.args ELSE <<>>
             old == PartsOf(sent, call)
             new == PartsOf(more, call)
  <2>1. StoppedOf(more, call) <=> StoppedOf(sent, call) \/ (f.kind = "tool" /\ f.n = call /\ f.stop)
    BY <1>2 DEF StoppedOf
  <2>2. x \in Pieces
    <3>1. <<>> \in Pieces
      BY DEF Pieces
    <3> QED
      BY <3>1 DEF FrameType
  <2>3. /\ old \in Seq(Pieces) /\ new \in Seq(Pieces)
        /\ DOMAIN old = DOMAIN sent /\ DOMAIN new = DOMAIN more
    BY <1>1, PartsTyped
  <2>4. \A i \in DOMAIN sent : new[i] = old[i]
    BY <1>3 DEF PartsOf
  <2>5. new[Len(sent) + 1] = x
    BY <1>3 DEF PartsOf
  <2> HIDE DEF x, old, new
  <2>6. Len(old) = Len(sent) /\ Len(new) = Len(sent) + 1
    BY <1>3, <2>3
  <2>7. new = Append(old, x)
    <3>1. Append(old, x) \in Seq(Pieces) /\ Len(Append(old, x)) = Len(new)
      BY <2>2, <2>3, <2>6
    <3>2. \A i \in 1 .. Len(new) : new[i] = Append(old, x)[i]
      BY <1>3, <2>2, <2>3, <2>4, <2>5, <2>6
    <3> QED
      BY <2>3, <3>1, <3>2, SeqEqual
  <2>8. FlattenSeq(new) = FlattenSeq(old) \o x
    BY <2>2, <2>3, <2>7, FlattenedAppend DEF Pieces
  <2>9. FlattenSeq(old) \in Pieces
    BY <2>3, Flattened DEF Pieces
  <2> QED
    BY <2>1, <2>8, <2>9 DEF x, old, new
<1> QED
  BY <1>1, <1>2, <1>4, <1>5 DEF more

(* What a frame adds to the arguments of a call.                             *)
LEMMA GivenGrows ==
  ASSUME NEW sent \in Seq(FrameType), NEW f \in FrameType, NEW call \in Nat
  PROVE  LET more == Append(sent, f)
         IN  /\ f.kind # "tool" \/ f.n # call \/ f.args = <<>> => GivenOf(more, call) = GivenOf(sent, call)
             /\ f = Whole(call) => GivenOf(more, call) = Arguments(call)
             /\ f.kind = "tool" /\ f.n = call /\ ~f.stop /\ ~StoppedOf(sent, call) =>
                   GivenOf(more, call) = GivenOf(sent, call) \o f.args
             /\ GivenOf(sent, call) \in Pieces
<1> DEFINE more == Append(sent, f)
           had == FlattenSeq(PartsOf(sent, call))
<1>1. /\ ToSet(more) = ToSet(sent) \cup {f} /\ had \in Pieces
      /\ FlattenSeq(PartsOf(more, call)) = had \o (IF f.kind = "tool" /\ f.n = call THEN f.args ELSE <<>>)
  BY SentGrows
<1> HIDE DEF more, had
<1>2. /\ Whole(call).kind = "tool" /\ Whole(call).n = call /\ Whole(call).stop
      /\ Whole(call).args = Arguments(call) /\ Arguments(call) # <<>>
  <2>1. Arguments(call) # <<>>
    BY PartlyShown
  <2> QED
    BY <2>1 DEF Whole, Frame
<1>3. had \o <<>> = had
  BY <1>1 DEF Pieces
<1>4. f.kind # "tool" \/ f.n # call \/ f.args = <<>> => GivenOf(more, call) = GivenOf(sent, call)
  BY <1>1, <1>2, <1>3 DEF GivenOf, had
<1>5. f = Whole(call) => GivenOf(more, call) = Arguments(call)
  BY <1>1 DEF GivenOf
<1>6. ASSUME f.kind = "tool", f.n = call, ~f.stop, ~StoppedOf(sent, call)
      PROVE  GivenOf(more, call) = GivenOf(sent, call) \o f.args
  <2>1. Whole(call) \notin ToSet(sent) /\ f # Whole(call)
    BY <1>2, <1>6 DEF StoppedOf
  <2> QED
    BY <1>1, <1>6, <2>1 DEF GivenOf, had
<1>7. GivenOf(sent, call) \in Pieces
  BY <1>1, ArgumentsTyped DEF GivenOf, had
<1> QED
  BY <1>4, <1>5, <1>6, <1>7 DEF more

(* Of a call no frame was about nothing is given.                            *)
LEMMA NothingGiven ==
  ASSUME NEW sent \in Seq(FrameType), NEW call \in Nat,
         \A f \in ToSet(sent) : f.kind = "tool" => f.n # call
  PROVE  GivenOf(sent, call) = <<>>
<1>1. Whole(call) \notin ToSet(sent)
  BY DEF Whole, Frame
<1> DEFINE parts == PartsOf(sent, call)
           flat == FlattenSeq(parts)
<1>2. parts \in Seq(Pieces) /\ DOMAIN parts = DOMAIN sent
  BY PartsTyped
<1>3. \A i \in DOMAIN sent : parts[i] = <<>>
  BY DEF PartsOf, ToSet
<1> HIDE DEF parts
<1>4. flat \in Pieces /\ ToSet(flat) = UNION {ToSet(parts[i]) : i \in DOMAIN parts}
  BY <1>2, Flattened DEF Pieces
<1> HIDE DEF flat
<1>5. ToSet(flat) = {}
  <2>1. ToSet(<<>>) = {}
    BY DEF ToSet
  <2> QED
    BY <1>2, <1>3, <1>4, <2>1
<1>6. flat = <<>>
  <2>1. flat # <<>> => flat[1] \in ToSet(flat)
    <3>1. flat # <<>> => 1 \in DOMAIN flat
      BY <1>4 DEF Pieces
    <3> QED
      BY <3>1 DEF ToSet
  <2> QED
    BY <1>5, <2>1
<1> QED
  BY <1>1, <1>6 DEF GivenOf, flat, parts

-----------------------------------------------------------------------------
(* The part of the decoder that handles calls: onTool is about it alone.     *)

Handlings == [current : CallType, tools : Seq(CallType)]
HandlingOf(d) == [current |-> d.current, tools |-> d.tools]
Turned(h, f) == IF f.kind = "tool" THEN onTool(h, f) ELSE h

Laid(h) == IF h.current = NoTool THEN h.tools ELSE Append(h.tools, h.current)
Handling(call, tools) == [current |-> call, tools |-> tools]

LEMMA NoCallTyped == NoTool \in CallType /\ NoTool.id = 0 /\ NoTool.args = <<>>
<1>1. <<>> \in Seq(Nat \X Nat)
  OBVIOUS
<1> QED
  BY <1>1 DEF CallType, NoTool, Pieces

LEMMA LaidDown ==
  ASSUME NEW h \in Handlings
  PROVE  /\ Laid(h) \in Seq(CallType) /\ finalizeTool(h) = Handling(NoTool, Laid(h))
         /\ ToSet(Laid(h)) = ToSet(h.tools) \cup (IF h.current = NoTool THEN {} ELSE {h.current})
<1>1. h.tools \in Seq(CallType) /\ h.current \in CallType
  BY DEF Handlings
<1>2. CASE h.current = NoTool
  BY <1>1, <1>2 DEF Laid, Handling, finalizeTool, Handlings
<1>3. CASE h.current # NoTool
  <2>1. Laid(h) = Append(h.tools, h.current)
    BY <1>3 DEF Laid
  <2>2. Laid(h) \in Seq(CallType)
    BY <1>1, <2>1
  <2>3. finalizeTool(h) = Handling(NoTool, Laid(h))
    BY <1>3, <2>1 DEF finalizeTool, Handling, Handlings
  <2>4. ToSet(Laid(h)) = ToSet(h.tools) \cup {h.current}
    <3> DEFINE s == h.tools
               e == h.current
    <3>1. s \in Seq(CallType) /\ e \in CallType
      BY <1>1
    <3> HIDE DEF s, e
    <3>2. /\ DOMAIN Append(s, e) = 1 .. Len(s) + 1 /\ Append(s, e)[Len(s) + 1] = e
          /\ Len(s) \in Nat /\ DOMAIN s = 1 .. Len(s) /\ \A i \in 1 .. Len(s) : Append(s, e)[i] = s[i]
      BY <3>1
    <3>3. \A i \in 1 .. Len(s) + 1 : i \in 1 .. Len(s) \/ i = Len(s) + 1
      BY <3>2
    <3>4. 1 .. Len(s) \subseteq 1 .. Len(s) + 1 /\ Len(s) + 1 \in 1 .. Len(s) + 1
      BY <3>2
    <3>5. ToSet(Append(s, e)) = ToSet(s) \cup {e}
      BY <3>2, <3>3, <3>4 DEF ToSet
    <3> QED
      BY <2>1, <3>5 DEF s, e
  <2> QED
    BY <1>3, <2>2, <2>3, <2>4
<1> QED
  BY <1>2, <1>3

LEMMA MoreGiven ==
  ASSUME NEW h \in Handlings, NEW args
  PROVE  [h EXCEPT !.current.args = @ \o args] =
            Handling([id |-> h.current.id, args |-> h.current.args \o args], h.tools)
<1> DEFINE c == h.current
           more == [id |-> c.id, args |-> c.args \o args]
<1>1. c \in CallType
  BY DEF Handlings
<1>2. [c EXCEPT !.args = @ \o args] = more
  <2> HIDE DEF c
  <2> DEFINE x == c.args \o args
  <2>1. [c EXCEPT !.args = @ \o args] = [c EXCEPT !.args = x] /\ more = [id |-> c.id, args |-> x]
    OBVIOUS
  <2> HIDE DEF x, more
  <2>2. [c EXCEPT !.args = x] = [id |-> c.id, args |-> x]
    BY <1>1 DEF CallType
  <2> QED
    BY <2>1, <2>2
<1>3. [h EXCEPT !.current.args = @ \o args] = [h EXCEPT !.current = [c EXCEPT !.args = @ \o args]]
  OBVIOUS
<1> HIDE DEF more, c
<1>4. [h EXCEPT !.current = more] = Handling(more, h.tools)
  BY DEF Handlings, Handling
<1> QED
  BY <1>2, <1>3, <1>4 DEF more, c

(* What onTool does with a frame, by the cases of the code.                  *)
LEMMA CallTurned ==
  ASSUME NEW h \in Handlings, NEW f \in FrameType
  PROVE  LET busy == h.current # NoTool
             mine == busy /\ f.n \in {0, h.current.id}
             call == [id |-> f.n, args |-> f.args]
             more == [id |-> h.current.id, args |-> h.current.args \o f.args]
         IN  /\ f.args # <<>> /\ mine /\ ~f.stop => onTool(h, f) = Handling(more, h.tools)
             /\ f.args = <<>> /\ f.stop /\ mine => onTool(h, f) = Handling(NoTool, Laid(h))
             /\ f.args = <<>> /\ f.stop /\ busy /\ ~mine => onTool(h, f) = h
             /\ ~(f.args # <<>> /\ mine) /\ ~(f.args = <<>> /\ f.stop /\ busy) =>
                  onTool(h, f) =
                     IF ~f.named THEN h
                     ELSE IF f.stop /\ call # NoTool THEN Handling(NoTool, Append(Laid(h), call))
                     ELSE Handling(call, Laid(h))
<1> DEFINE busy == h.current # NoTool
           mine == busy /\ f.n \in {0, h.current.id}
           call == [id |-> f.n, args |-> f.args]
           more == [id |-> h.current.id, args |-> h.current.args \o f.args]
<1>1. h.current \in CallType /\ h.tools \in Seq(CallType) /\ h = Handling(h.current, h.tools)
  BY DEF Handlings, Handling
<1>2. ASSUME f.args # <<>>, mine, ~f.stop
      PROVE  onTool(h, f) = Handling(more, h.tools)
  <2>1. onTool(h, f) = [h EXCEPT !.current.args = @ \o f.args]
    BY <1>2 DEF onTool
  <2> QED
    BY <2>1, MoreGiven
<1>3. ASSUME f.args = <<>>, f.stop, mine
      PROVE  onTool(h, f) = Handling(NoTool, Laid(h))
  <2>1. onTool(h, f) = finalizeTool(h)
    BY <1>3 DEF onTool
  <2> QED
    BY <2>1, LaidDown
<1>4. ASSUME f.args = <<>>, f.stop, busy, ~mine
      PROVE  onTool(h, f) = h
  BY <1>4 DEF onTool
<1>5. ASSUME ~(f.args # <<>> /\ mine), ~(f.args = <<>> /\ f.stop /\ busy)
      PROVE  onTool(h, f) =
                IF ~f.named THEN h
                ELSE IF f.stop /\ call # NoTool THEN Handling(NoTool, Append(Laid(h), call))
                ELSE Handling(call, Laid(h))
  <2>1. onTool(h, f) = IF f.named THEN onToolStart(h, f) ELSE h
    BY <1>5 DEF onTool
  <2>2. CASE ~f.named
    BY <2>1, <2>2
  <2>3. CASE f.named
    <3> DEFINE opened == [finalizeTool(h) EXCEPT !.current = call]
    <3>1. onToolStart(h, f) = IF f.stop THEN finalizeTool(opened) ELSE opened
      BY DEF onToolStart
    <3>2. finalizeTool(h) = Handling(NoTool, Laid(h)) /\ Laid(h) \in Seq(CallType)
      BY LaidDown
    <3>3. call \in CallType
      BY DEF CallType, FrameType
    <3> HIDE DEF call
    <3>4. opened = Handling(call, Laid(h))
      BY <3>2 DEF Handling
    <3> HIDE DEF opened
    <3>5. opened \in Handlings /\ opened.current = call /\ opened.tools = Laid(h)
      BY <3>2, <3>3, <3>4 DEF Handling, Handlings
    <3>6. finalizeTool(opened) = Handling(NoTool, Laid(opened))
      BY <3>5, LaidDown
    <3>7. Laid(opened) = IF call = NoTool THEN Laid(h) ELSE Append(Laid(h), call)
      BY <3>5 DEF Laid
    <3> QED
      BY <2>1, <2>3, <3>1, <3>4, <3>6, <3>7
  <2> QED
    BY <2>2, <2>3
<1> QED
  BY <1>2, <1>3, <1>4, <1>5

LEMMA TurnedTyped ==
  ASSUME NEW h \in Handlings, NEW f \in FrameType
  PROVE  Turned(h, f) \in Handlings
<1> DEFINE busy == h.current # NoTool
           mine == busy /\ f.n \in {0, h.current.id}
           call == [id |-> f.n, args |-> f.args]
           more == [id |-> h.current.id, args |-> h.current.args \o f.args]
<1>1. h.current \in CallType /\ h.tools \in Seq(CallType)
  BY DEF Handlings
<1>2. Laid(h) \in Seq(CallType)
  BY LaidDown
<1>3. call \in CallType /\ more \in CallType
  <2>1. f.args \in Pieces /\ f.n \in Nat /\ h.current.args \in Pieces /\ h.current.id \in Int
    BY <1>1 DEF CallType, FrameType
  <2>2. h.current.args \o f.args \in Pieces
    BY <2>1 DEF Pieces
  <2> QED
    BY <2>1, <2>2 DEF CallType
<1>4. \A c \in CallType : \A s \in Seq(CallType) : Handling(c, s) \in Handlings /\ Append(s, c) \in Seq(CallType)
  BY DEF Handling, Handlings
<1>5. CASE f.args # <<>> /\ mine /\ f.stop
  <2> DEFINE r == [h EXCEPT !.current.args = @ \o f.args]
  <2>1. onTool(h, f) = finalizeTool(r)
    BY <1>5 DEF onTool
  <2>2. r = Handling(more, h.tools)
    BY MoreGiven
  <2> HIDE DEF r, more
  <2>3. r \in Handlings
    BY <1>1, <1>3, <1>4, <2>2
  <2> QED
    BY <1>4, <2>1, <2>3, LaidDown, NoCallTyped DEF Turned
<1>6. CASE ~(f.args # <<>> /\ mine /\ f.stop)
  <2>1. \/ onTool(h, f) = Handling(more, h.tools)
        \/ onTool(h, f) = Handling(NoTool, Laid(h))
        \/ onTool(h, f) = h
        \/ onTool(h, f) = Handling(NoTool, Append(Laid(h), call))
        \/ onTool(h, f) = Handling(call, Laid(h))
    BY <1>6, CallTurned
  <2> HIDE DEF more, call
  <2> QED
    BY <1>1, <1>2, <1>3, <1>4, <2>1, NoCallTyped DEF Turned
<1> QED
  BY <1>5, <1>6

(* A decoder that is given a frame handles it so.                            *)
LEMMA FinalizedAlike ==
  ASSUME NEW d \in DecoderType
  PROVE  HandlingOf(finalizeTool(d)) = finalizeTool(HandlingOf(d)) /\ finalizeTool(d) \in DecoderType
<1>1. CASE d.current = NoTool
  BY <1>1 DEF finalizeTool, HandlingOf
<1>2. CASE d.current # NoTool
  <2>1. HandlingOf(finalizeTool(d)) = finalizeTool(HandlingOf(d))
    BY <1>2 DEF finalizeTool, HandlingOf, DecoderType
  <2> QED
    BY <2>1, CallFinalized
<1> QED
  BY <1>1, <1>2

LEMMA HandlingTurns ==
  ASSUME NEW d \in DecoderType, NEW f \in FrameType
  PROVE  /\ HandlingOf(d) \in Handlings
         /\ HandlingOf(onTool(d, f)) = onTool(HandlingOf(d), f)
<1> DEFINE h == HandlingOf(d)
           busy == d.current # NoTool
           mine == busy /\ f.n \in {0, d.current.id}
           dmore == [d EXCEPT !.current.args = @ \o f.args]
           hmore == [h EXCEPT !.current.args = @ \o f.args]
<1>1. h \in Handlings /\ h.current = d.current /\ h.tools = d.tools
  BY DEF HandlingOf, Handlings, DecoderType
<1>2. dmore \in DecoderType /\ HandlingOf(dmore) = hmore
  <2>1. d.current \in CallType /\ d.current.args \in Pieces /\ f.args \in Pieces
    BY DEF DecoderType, CallType, FrameType
  <2>2. d.current.args \o f.args \in Pieces
    BY <2>1 DEF Pieces
  <2> DEFINE call == [d.current EXCEPT !.args = d.current.args \o f.args]
  <2>3. call \in CallType
    BY <2>1, <2>2 DEF CallType
  <2>4. dmore = [d EXCEPT !.current = call] /\ hmore = [h EXCEPT !.current = call]
    BY <1>1, <2>1 DEF DecoderType, CallType, Handlings
  <2> HIDE DEF call, dmore, hmore
  <2> QED
    BY <1>1, <2>3, <2>4 DEF DecoderType, HandlingOf
<1>3. /\ HandlingOf(finalizeTool(dmore)) = finalizeTool(hmore)
      /\ HandlingOf(finalizeTool(d)) = finalizeTool(h)
  <2> HIDE DEF dmore, hmore
  <2> QED
    BY <1>2, FinalizedAlike
<1>4. HandlingOf(onToolStart(d, f)) = onToolStart(h, f)
  <2> DEFINE call == [id |-> f.n, args |-> f.args]
             od == [finalizeTool(d) EXCEPT !.current = call]
             oh == [finalizeTool(h) EXCEPT !.current = call]
             fd == finalizeTool(d)
             fh == finalizeTool(h)
  <2>1. call \in CallType
    BY DEF CallType, FrameType
  <2>2. fd \in DecoderType /\ HandlingOf(fd) = fh
    BY FinalizedAlike
  <2>3. /\ onToolStart(d, f) = IF f.stop THEN finalizeTool(od) ELSE od
        /\ onToolStart(h, f) = IF f.stop THEN finalizeTool(oh) ELSE oh
    BY DEF onToolStart
  <2> HIDE DEF call
  <2>4. od \in DecoderType /\ HandlingOf(od) = oh
    <3> HIDE DEF fd, fh
    <3>1. [fd EXCEPT !.current = call] \in DecoderType
      BY <2>1, <2>2 DEF DecoderType
    <3>2. HandlingOf([fd EXCEPT !.current = call]) = [fh EXCEPT !.current = call]
      <4>1. /\ [fd EXCEPT !.current = call].current = call
            /\ [fd EXCEPT !.current = call].tools = fd.tools
        BY <2>2 DEF DecoderType
      <4>2. fh = [current |-> fd.current, tools |-> fd.tools]
        BY <2>2 DEF HandlingOf
      <4>3. [fh EXCEPT !.current = call] = [current |-> call, tools |-> fd.tools]
        BY <4>2
      <4> QED
        BY <4>1, <4>3 DEF HandlingOf
    <3> QED
      BY <3>1, <3>2 DEF fd, fh
  <2> HIDE DEF od, oh
  <2> QED
    BY <2>3, <2>4, FinalizedAlike
<1>5. CASE f.args # <<>> /\ mine
  <2>1. /\ onTool(d, f) = IF f.stop THEN finalizeTool(dmore) ELSE dmore
        /\ onTool(h, f) = IF f.stop THEN finalizeTool(hmore) ELSE hmore
    BY <1>1, <1>5 DEF onTool
  <2> HIDE DEF dmore, hmore
  <2> QED
    BY <1>1, <1>2, <1>3, <2>1
<1>6. CASE f.args = <<>> /\ f.stop /\ busy
  <2>1. /\ onTool(d, f) = IF mine THEN finalizeTool(d) ELSE d
        /\ onTool(h, f) = IF mine THEN finalizeTool(h) ELSE h
    BY <1>1, <1>6 DEF onTool
  <2> QED
    BY <1>1, <1>3, <2>1
<1>7. CASE ~(f.args # <<>> /\ mine) /\ ~(f.args = <<>> /\ f.stop /\ busy)
  <2>1. /\ onTool(d, f) = IF f.named THEN onToolStart(d, f) ELSE d
        /\ onTool(h, f) = IF f.named THEN onToolStart(h, f) ELSE h
    BY <1>1, <1>7 DEF onTool
  <2> QED
    BY <1>1, <1>4, <2>1
<1> QED
  BY <1>1, <1>5, <1>6, <1>7

-----------------------------------------------------------------------------
(* What a decoder that has had all the frames sent knows of the calls: the   *)
(* call in progress is the newest, unless that was stopped, and has all its  *)
(* arguments; of each other call one entry has all of them, and the others   *)
(* have none.                                                                *)

Newest(sent, call) == \A other \in CallsOf(sent) : other <= call
Made(sent, call) == [id |-> call, args |-> GivenOf(sent, call)]

Known(sent) ==
    /\ \A f \in ToSet(sent) : f.kind = "tool" => f.n \in CallsOf(sent)
    /\ CallsOf(sent) \subseteq 1 .. Len(sent)
    /\ \A call \in CallsOf(sent) : GivenOf(sent, call) \in ShownOf(call)

InProgress(sent, repeats, current) ==
    /\ current # NoTool => /\ current.id \in UnstoppedOf(sent) /\ Newest(sent, current.id)
                           /\ current.args = GivenOf(sent, current.id)
    /\ \A call \in UnstoppedOf(sent) : Newest(sent, call) => call = current.id
    /\ ~repeats => UnstoppedOf(sent) \subseteq {current.id}
    /\ HalfOf(sent) \subseteq {current.id}

Former(sent, current, T) ==
    /\ \A t \in T : /\ t.id \in CallsOf(sent) /\ t.id # current.id
                    /\ t.args \in {<<>>, GivenOf(sent, t.id)}
    /\ \A call \in CallsOf(sent) : call = current.id \/ Made(sent, call) \in T

Handled(sent, repeats, h) ==
    Known(sent) /\ InProgress(sent, repeats, h.current) /\ Former(sent, h.current, ToSet(h.tools))

LEMMA CallsAreNumbers ==
  ASSUME NEW sent \in Seq(FrameType), Known(sent)
  PROVE  /\ Len(sent) \in Nat /\ 0 \notin CallsOf(sent) /\ Len(sent) + 1 \notin CallsOf(sent)
         /\ \A call \in CallsOf(sent) : call \in Nat /\ call < Len(sent) + 1
         /\ UnstoppedOf(sent) \subseteq CallsOf(sent) /\ HalfOf(sent) \subseteq CallsOf(sent)
<1>1. Len(sent) \in Nat
  OBVIOUS
<1>2. \A call \in CallsOf(sent) : call \in Nat /\ call < Len(sent) + 1 /\ call # 0
  BY <1>1 DEF Known
<1> QED
  BY <1>1, <1>2 DEF UnstoppedOf, HalfOf

(* A frame that is not about a call.                                         *)
LEMMA HandledWithoutCall ==
  ASSUME NEW sent \in Seq(FrameType), NEW repeats, NEW h, Handled(sent, repeats, h),
         NEW f \in FrameType, f.kind # "tool"
  PROVE  Handled(Append(sent, f), repeats, h)
<1> DEFINE more == Append(sent, f)
<1>1. Known(sent) /\ InProgress(sent, repeats, h.current) /\ Former(sent, h.current, ToSet(h.tools))
  BY DEF Handled
<1>2. \A call \in CallsOf(sent) : call \in Nat /\ call < Len(sent) + 1
  BY <1>1, CallsAreNumbers
<1>3. /\ CallsOf(more) = CallsOf(sent) /\ Len(more) = Len(sent) + 1 /\ ToSet(more) = ToSet(sent) \cup {f}
      /\ \A call : StoppedOf(more, call) <=> StoppedOf(sent, call)
  BY SentGrows
<1>4. \A call \in CallsOf(sent) : GivenOf(more, call) = GivenOf(sent, call)
  BY <1>2, GivenGrows
<1>5. Len(sent) \in Nat
  OBVIOUS
<1> HIDE DEF more
<1>6. UnstoppedOf(more) = UnstoppedOf(sent) /\ HalfOf(more) = HalfOf(sent)
  BY <1>3, <1>4 DEF UnstoppedOf, HalfOf
<1>7. Known(more)
  BY <1>1, <1>3, <1>4, <1>5 DEF Known
<1>8. InProgress(more, repeats, h.current)
  <2>1. \A call : Newest(more, call) <=> Newest(sent, call)
    BY <1>3 DEF Newest
  <2>2. \A call \in UnstoppedOf(sent) : call \in CallsOf(sent)
    BY DEF UnstoppedOf
  <2> QED
    BY <1>1, <1>4, <1>6, <2>1, <2>2 DEF InProgress
<1>9. Former(more, h.current, ToSet(h.tools))
  BY <1>1, <1>3, <1>4 DEF Former, Made
<1> QED
  BY <1>7, <1>8, <1>9 DEF Handled, more

(* What a decoder has laid down are former calls, of any other call.         *)
LEMMA LaidAside ==
  ASSUME NEW sent \in Seq(FrameType), NEW repeats, NEW h \in Handlings, Handled(sent, repeats, h)
  PROVE  /\ \A t \in ToSet(Laid(h)) : t.id \in CallsOf(sent) /\ t.args \in {<<>>, GivenOf(sent, t.id)}
         /\ \A t \in ToSet(Laid(h)) : t.id \in HalfOf(sent) => t.args = GivenOf(sent, t.id)
         /\ \A call \in CallsOf(sent) : Made(sent, call) \in ToSet(Laid(h))
<1>1. /\ Known(sent) /\ InProgress(sent, repeats, h.current) /\ Former(sent, h.current, ToSet(h.tools))
      /\ h.current \in CallType
  BY DEF Handled, Handlings
<1>2. ToSet(Laid(h)) = ToSet(h.tools) \cup (IF h.current = NoTool THEN {} ELSE {h.current})
  BY LaidDown
<1>3. h.current # NoTool => /\ h.current.id \in CallsOf(sent) /\ h.current.args = GivenOf(sent, h.current.id)
                            /\ h.current = Made(sent, h.current.id)
  BY <1>1 DEF InProgress, UnstoppedOf, Made, CallType
<1>4. ASSUME NEW t \in ToSet(Laid(h))
      PROVE  /\ t.id \in CallsOf(sent) /\ t.args \in {<<>>, GivenOf(sent, t.id)}
             /\ t.id \in HalfOf(sent) => t.args = GivenOf(sent, t.id)
  <2>1. CASE t \in ToSet(h.tools)
    BY <1>1, <2>1 DEF Former, InProgress
  <2>2. CASE h.current # NoTool /\ t = h.current
    BY <1>3, <2>2
  <2> QED
    BY <1>2, <2>1, <2>2
<1>5. ASSUME NEW call \in CallsOf(sent)
      PROVE  Made(sent, call) \in ToSet(Laid(h))
  <2>1. CASE call = h.current.id
    <3>1. h.current # NoTool
      BY <1>1, <2>1, CallsAreNumbers, NoCallTyped
    <3> QED
      BY <1>2, <1>3, <2>1, <3>1
  <2>2. CASE Made(sent, call) \in ToSet(h.tools)
    BY <1>2, <2>2
  <2> QED
    BY <1>1, <2>1, <2>2 DEF Former
<1> QED
  BY <1>4, <1>5

LEMMA OneMoreIn ==
  ASSUME NEW S, NEW s \in Seq(S), NEW e \in S
  PROVE  ToSet(Append(s, e)) = ToSet(s) \cup {e}
<1>1. /\ DOMAIN Append(s, e) = 1 .. Len(s) + 1 /\ Append(s, e)[Len(s) + 1] = e
      /\ Len(s) \in Nat /\ DOMAIN s = 1 .. Len(s) /\ \A i \in 1 .. Len(s) : Append(s, e)[i] = s[i]
  OBVIOUS
<1>2. /\ \A i \in 1 .. Len(s) + 1 : i \in 1 .. Len(s) \/ i = Len(s) + 1
      /\ 1 .. Len(s) \subseteq 1 .. Len(s) + 1 /\ Len(s) + 1 \in 1 .. Len(s) + 1
  BY <1>1
<1> QED
  BY <1>1, <1>2 DEF ToSet

LEMMA HandlingIs == \A call, tools : Handling(call, tools).current = call /\ Handling(call, tools).tools = tools
BY DEF Handling

(* A frame that begins a call, or makes it whole.                            *)
LEMMA HandledStart ==
  ASSUME NEW sent \in Seq(FrameType), NEW repeats, NEW h \in Handlings, Handled(sent, repeats, h),
         HalfOf(sent) = {}, repeats \/ UnstoppedOf(sent) = {},
         NEW f \in FrameType, f \in {Start(Len(sent) + 1), Whole(Len(sent) + 1)}
  PROVE  Handled(Append(sent, f), repeats, Turned(h, f))
<1> DEFINE more == Append(sent, f)
           n == Len(sent) + 1
           call == [id |-> n, args |-> f.args]
           calls == CallsOf(sent)
<1>1. Known(sent) /\ InProgress(sent, repeats, h.current) /\ Former(sent, h.current, ToSet(h.tools))
  BY DEF Handled
<1>2. /\ Len(sent) \in Nat /\ n \in Nat /\ n # 0 /\ n \notin calls /\ 0 \notin calls
      /\ \A c \in calls : c \in Nat /\ c < n
      /\ UnstoppedOf(sent) \subseteq calls
  BY <1>1, CallsAreNumbers
<1>3. /\ f.kind = "tool" /\ f.n = n /\ f.named
      /\ \/ f.args = <<>> /\ ~f.stop /\ f = Start(n)
         \/ f.args = Arguments(n) /\ f.stop /\ f = Whole(n)
  BY DEF Start, Whole, Frame
<1>4. f.args \in ShownOf(n) /\ <<>> # Arguments(n) /\ Parses(<<>>) /\ Parses(Arguments(n))
  BY <1>2, <1>3, PartlyShown
<1>5. /\ CallsOf(more) = calls \cup {n} /\ Len(more) = n /\ ToSet(more) = ToSet(sent) \cup {f}
      /\ \A c : StoppedOf(more, c) <=> StoppedOf(sent, c) \/ (f.n = c /\ f.stop)
  BY <1>3, SentGrows
<1>6. \A c \in calls : GivenOf(more, c) = GivenOf(sent, c) /\ c # n
  BY <1>2, <1>3, GivenGrows
<1>7. ~StoppedOf(sent, n) /\ GivenOf(more, n) = f.args
  <2>1. \A g \in ToSet(sent) : g.kind = "tool" => g.n # n
    BY <1>1, <1>2 DEF Known
  <2>2. ~StoppedOf(sent, n)
    BY <2>1 DEF StoppedOf
  <2>3. GivenOf(sent, n) = <<>>
    BY <1>2, <2>1, NothingGiven
  <2>4. /\ f.args = <<>> => GivenOf(more, n) = GivenOf(sent, n)
        /\ f = Whole(n) => GivenOf(more, n) = Arguments(n)
    <3> HIDE DEF n
    <3> QED
      BY <1>2, GivenGrows
  <2> QED
    BY <1>3, <2>2, <2>3, <2>4
<1> HIDE DEF more, n
<1>8. UnstoppedOf(more) = UnstoppedOf(sent) \cup (IF f.stop THEN {} ELSE {n})
  BY <1>2, <1>3, <1>5, <1>7 DEF UnstoppedOf
<1>9. HalfOf(more) = {}
  BY <1>3, <1>4, <1>5, <1>6, <1>7 DEF HalfOf
<1>10. Newest(more, n) /\ \A c \in calls : ~Newest(more, c)
  BY <1>2, <1>5 DEF Newest
<1>11. Known(more)
  <2>1. \A c \in CallsOf(more) : c \in 1 .. n
    BY <1>2, <1>5
  <2>2. \A c \in CallsOf(more) : GivenOf(more, c) \in ShownOf(c)
    BY <1>1, <1>4, <1>5, <1>6, <1>7 DEF Known
  <2>3. \A g \in ToSet(more) : g.kind = "tool" => g.n \in CallsOf(more)
    BY <1>1, <1>3, <1>5 DEF Known
  <2> QED
    BY <1>5, <2>1, <2>2, <2>3 DEF Known
<1>12. Turned(h, f) = IF f.stop THEN Handling(NoTool, Append(Laid(h), call)) ELSE Handling(call, Laid(h))
  <2>1. call # NoTool
    BY <1>2, NoCallTyped
  <2>2. ~(h.current # NoTool /\ f.n \in {0, h.current.id})
    BY <1>1, <1>2, <1>3 DEF InProgress
  <2>3. ~(f.args = <<>> /\ f.stop)
    BY <1>3, <1>4
  <2> DEFINE c2 == [id |-> f.n, args |-> f.args]
  <2>4. c2 = call
    BY <1>3
  <2> HIDE DEF call
  <2>5. onTool(h, f) = IF ~f.named THEN h
                       ELSE IF f.stop /\ c2 # NoTool THEN Handling(NoTool, Append(Laid(h), c2))
                       ELSE Handling(c2, Laid(h))
    BY <2>2, <2>3, CallTurned
  <2> HIDE DEF c2
  <2> QED
    BY <1>3, <2>1, <2>4, <2>5 DEF Turned
<1>13. /\ Laid(h) \in Seq(CallType) /\ call \in CallType /\ call = Made(more, n) /\ call.id = n
       /\ call.args = GivenOf(more, n)
  <2>1. f.args \in Pieces /\ n \in Int
    BY <1>2 DEF FrameType
  <2>2. call \in CallType /\ call.id = n /\ call.args = f.args
    BY <2>1 DEF CallType
  <2> QED
    BY <1>7, <2>2, LaidDown DEF Made
<1>14. /\ \A t \in ToSet(Laid(h)) : t.id \in calls /\ t.args \in {<<>>, GivenOf(sent, t.id)}
       /\ \A c \in calls : Made(sent, c) \in ToSet(Laid(h))
  BY LaidAside
<1> HIDE DEF call
<1>15. CASE f.stop
  <2>1. ToSet(Append(Laid(h), call)) = ToSet(Laid(h)) \cup {call}
    BY <1>13, OneMoreIn
  <2>2. InProgress(more, repeats, NoTool)
    BY <1>2, <1>1, <1>8, <1>9, <1>10, <1>15 DEF InProgress
  <2>3. Former(more, NoTool, ToSet(Laid(h)) \cup {call})
    <3>1. \A t \in ToSet(Laid(h)) \cup {call} :
             t.id \in CallsOf(more) /\ t.id # 0 /\ t.args \in {<<>>, GivenOf(more, t.id)}
      BY <1>2, <1>5, <1>6, <1>13, <1>14
    <3>2. \A c \in CallsOf(more) : Made(more, c) \in ToSet(Laid(h)) \cup {call}
      BY <1>5, <1>6, <1>13, <1>14 DEF Made
    <3> QED
      BY <3>1, <3>2, NoCallTyped DEF Former
  <2>4. Turned(h, f).current = NoTool /\ Turned(h, f).tools = Append(Laid(h), call)
    <3>1. Turned(h, f) = Handling(NoTool, Append(Laid(h), call))
      BY <1>12, <1>15
    <3> QED
      BY <3>1, HandlingIs
  <2> QED
    BY <1>11, <2>1, <2>2, <2>3, <2>4 DEF Handled, more
<1>16. CASE ~f.stop
  <2>2. InProgress(more, repeats, call)
    <3>1. n \in UnstoppedOf(more) /\ Newest(more, n)
      BY <1>8, <1>10, <1>16
    <3>2. \A c \in UnstoppedOf(more) : Newest(more, c) => c = n
      BY <1>2, <1>8, <1>10, <1>16
    <3>3. ~repeats => UnstoppedOf(more) \subseteq {n}
      BY <1>8, <1>16
    <3> QED
      BY <1>9, <1>13, <3>1, <3>2, <3>3 DEF InProgress
  <2>3. Former(more, call, ToSet(Laid(h)))
    <3>1. \A t \in ToSet(Laid(h)) :
             t.id \in CallsOf(more) /\ t.id # n /\ t.args \in {<<>>, GivenOf(more, t.id)}
      BY <1>5, <1>6, <1>14
    <3>2. \A c \in CallsOf(more) : c = n \/ Made(more, c) \in ToSet(Laid(h))
      BY <1>5, <1>6, <1>14 DEF Made
    <3> QED
      BY <1>13, <3>1, <3>2 DEF Former
  <2> QED
    BY <1>11, <1>12, <1>16, <2>2, <2>3, HandlingIs DEF Handled, more
<1> QED
  BY <1>15, <1>16

(* A whole call said again.                                                  *)
LEMMA HandledAgain ==
  ASSUME NEW sent \in Seq(FrameType), NEW repeats, NEW h \in Handlings, Handled(sent, repeats, h),
         UnstoppedOf(sent) = {}, NEW f \in FrameType, f \in ToSet(sent), f = Whole(f.n)
  PROVE  Handled(Append(sent, f), repeats, Turned(h, f))
<1> DEFINE more == Append(sent, f)
           call == [id |-> f.n, args |-> f.args]
           calls == CallsOf(sent)
<1>1. Known(sent) /\ InProgress(sent, repeats, h.current) /\ Former(sent, h.current, ToSet(h.tools))
  BY DEF Handled
<1>2. /\ Len(sent) \in Nat /\ 0 \notin calls /\ \A c \in calls : c \in Nat
      /\ UnstoppedOf(sent) \subseteq calls
  BY <1>1, CallsAreNumbers
<1>3. f.kind = "tool" /\ f.named /\ f.stop /\ f.args = Arguments(f.n) /\ f.n \in Nat
  BY DEF Whole, Frame, FrameType
<1>4. f.n \in calls /\ f.n # 0 /\ h.current = NoTool
  BY <1>1, <1>2, <1>3 DEF Known, InProgress
<1>5. /\ CallsOf(more) = calls /\ Len(more) = Len(sent) + 1 /\ ToSet(more) = ToSet(sent)
      /\ \A c : StoppedOf(more, c) <=> StoppedOf(sent, c) \/ (f.n = c /\ f.stop)
  <2>1. calls \cup {f.n} = calls /\ ToSet(sent) \cup {f} = ToSet(sent)
    BY <1>4
  <2>2. /\ CallsOf(more) = calls \cup {f.n} /\ Len(more) = Len(sent) + 1 /\ ToSet(more) = ToSet(sent) \cup {f}
        /\ \A c : StoppedOf(more, c) <=> StoppedOf(sent, c) \/ (f.kind = "tool" /\ f.n = c /\ f.stop)
    BY <1>3, SentGrows
  <2> QED
    BY <1>3, <2>1, <2>2
<1>6. \A c \in calls : GivenOf(more, c) = GivenOf(sent, c)
  <2>1. GivenOf(more, f.n) = Arguments(f.n) /\ GivenOf(sent, f.n) = Arguments(f.n)
    BY <1>3, GivenGrows DEF GivenOf
  <2>2. \A c \in calls : c # f.n => GivenOf(more, c) = GivenOf(sent, c)
    BY <1>2, GivenGrows
  <2> QED
    BY <2>1, <2>2
<1> HIDE DEF more
<1>7. UnstoppedOf(more) = {} /\ HalfOf(more) = HalfOf(sent)
  BY <1>5, <1>6 DEF UnstoppedOf, HalfOf
<1>8. Known(more)
  BY <1>1, <1>2, <1>5, <1>6 DEF Known
<1>9. Turned(h, f) = Handling(NoTool, Append(Laid(h), call))
  <2>1. call # NoTool
    BY <1>4, NoCallTyped
  <2>2. f.args # <<>>
    BY <1>3, PartlyShown
  <2> DEFINE c2 == [id |-> f.n, args |-> f.args]
  <2>3. onTool(h, f) = IF ~f.named THEN h
                       ELSE IF f.stop /\ c2 # NoTool THEN Handling(NoTool, Append(Laid(h), c2))
                       ELSE Handling(c2, Laid(h))
    BY <1>4, <2>2, CallTurned
  <2> QED
    BY <1>3, <2>1, <2>3 DEF Turned
<1>10. /\ call \in CallType /\ call.id = f.n /\ call.args = GivenOf(more, f.n)
  <2>1. GivenOf(more, f.n) = f.args
    BY <1>3, GivenGrows DEF more
  <2> QED
    BY <1>3, <2>1 DEF CallType, FrameType
<1>11. /\ \A t \in ToSet(Laid(h)) : t.id \in calls /\ t.args \in {<<>>, GivenOf(sent, t.id)}
       /\ \A c \in calls : Made(sent, c) \in ToSet(Laid(h))
       /\ Laid(h) \in Seq(CallType)
  BY LaidAside, LaidDown
<1> HIDE DEF call
<1>12. ToSet(Append(Laid(h), call)) = ToSet(Laid(h)) \cup {call}
  BY <1>10, <1>11, OneMoreIn
<1>13. InProgress(more, repeats, NoTool)
  BY <1>1, <1>4, <1>7 DEF InProgress
<1>14. Former(more, NoTool, ToSet(Laid(h)) \cup {call})
  <2>1. \A t \in ToSet(Laid(h)) \cup {call} :
           t.id \in CallsOf(more) /\ t.id # 0 /\ t.args \in {<<>>, GivenOf(more, t.id)}
    BY <1>2, <1>4, <1>5, <1>6, <1>10, <1>11
  <2>2. \A c \in CallsOf(more) : Made(more, c) \in ToSet(Laid(h)) \cup {call}
    BY <1>5, <1>6, <1>11 DEF Made
  <2> QED
    BY <2>1, <2>2, NoCallTyped DEF Former
<1>15. Turned(h, f).current = NoTool /\ Turned(h, f).tools = Append(Laid(h), call)
  BY <1>9, HandlingIs DEF call
<1> QED
  BY <1>8, <1>12, <1>13, <1>14, <1>15 DEF Handled, more

(* More of the arguments of the newest call.                                 *)
LEMMA HandledInput ==
  ASSUME NEW sent \in Seq(FrameType), NEW repeats \in BOOLEAN, NEW h \in Handlings, Handled(sent, repeats, h),
         NEW c \in UnstoppedOf(sent), Newest(sent, c), Len(GivenOf(sent, c)) < 2,
         NEW f \in FrameType, f = Input(c, Len(GivenOf(sent, c)) + 1, repeats)
  PROVE  Handled(Append(sent, f), repeats, Turned(h, OnTheWire(f)))
<1> DEFINE more == Append(sent, f)
           w == OnTheWire(f)
           args == GivenOf(sent, c) \o f.args
           call == [id |-> c, args |-> args]
           calls == CallsOf(sent)
<1>1. Known(sent) /\ InProgress(sent, repeats, h.current) /\ Former(sent, h.current, ToSet(h.tools))
  BY DEF Handled
<1>2. /\ Len(sent) \in Nat /\ 0 \notin calls /\ \A x \in calls : x \in Nat
      /\ UnstoppedOf(sent) \subseteq calls /\ c \in calls /\ c \in Nat /\ c # 0 /\ ~StoppedOf(sent, c)
  <2>1. c \in calls /\ ~StoppedOf(sent, c)
    BY DEF UnstoppedOf
  <2> QED
    BY <1>1, <2>1, CallsAreNumbers
<1>3. /\ f.kind = "tool" /\ f.n = c /\ ~f.stop /\ f.args = <<<<c, Len(GivenOf(sent, c)) + 1>>>>
      /\ f.args # <<>>
  BY DEF Input, Frame
<1>4. args \in ShownOf(c) /\ args \in Pieces
  <2>1. GivenOf(sent, c) \in ShownOf(c)
    BY <1>1, <1>2 DEF Known
  <2> QED
    BY <1>2, <1>3, <2>1, PartlyShown
<1>5. /\ CallsOf(more) = calls /\ Len(more) = Len(sent) + 1 /\ ToSet(more) = ToSet(sent) \cup {f}
      /\ \A x : StoppedOf(more, x) <=> StoppedOf(sent, x)
  <2>1. /\ CallsOf(more) = calls \cup (IF f.kind = "tool" /\ f.named THEN {f.n} ELSE {})
        /\ Len(more) = Len(sent) + 1 /\ ToSet(more) = ToSet(sent) \cup {f}
        /\ \A x : StoppedOf(more, x) <=> StoppedOf(sent, x) \/ (f.kind = "tool" /\ f.n = x /\ f.stop)
    BY SentGrows
  <2>2. calls \cup (IF f.kind = "tool" /\ f.named THEN {f.n} ELSE {}) = calls
    BY <1>2, <1>3
  <2> QED
    BY <1>3, <2>1, <2>2
<1>6. GivenOf(more, c) = args /\ \A x \in calls : x # c => GivenOf(more, x) = GivenOf(sent, x)
  BY <1>2, <1>3, GivenGrows
<1> HIDE DEF more
<1>7. UnstoppedOf(more) = UnstoppedOf(sent) /\ HalfOf(more) \subseteq HalfOf(sent) \cup {c}
  BY <1>5, <1>6 DEF UnstoppedOf, HalfOf
<1>8. Known(more)
  <2>1. \A x \in calls : GivenOf(more, x) \in ShownOf(x)
    BY <1>1, <1>4, <1>6 DEF Known
  <2> QED
    BY <1>1, <1>2, <1>3, <1>5, <2>1 DEF Known
<1>9. h.current.id = c /\ h.current # NoTool /\ h.current.args = GivenOf(sent, c)
  BY <1>1, <1>2, NoCallTyped DEF InProgress
<1>10. Turned(h, w).current = call /\ Turned(h, w).tools = h.tools
  <2>1. w.kind = "tool" /\ w.args = f.args /\ w.stop = f.stop /\ w.n \in {0, c} /\ w \in FrameType
    BY <1>3 DEF OnTheWire, FrameType
  <2> DEFINE m == [id |-> h.current.id, args |-> h.current.args \o w.args]
  <2>2. m = call
    BY <1>9, <2>1
  <2> HIDE DEF w, call
  <2>3. onTool(h, w) = Handling(m, h.tools)
    BY <1>3, <1>9, <2>1, CallTurned
  <2> HIDE DEF m
  <2>4. Turned(h, w) = Handling(call, h.tools)
    BY <2>1, <2>2, <2>3 DEF Turned
  <2> QED
    BY <2>4, HandlingIs
<1>11. call.id = c /\ call.args = GivenOf(more, c)
  BY <1>6
<1> HIDE DEF call, args
<1>12. InProgress(more, repeats, call)
  <2>1. \A x : Newest(more, x) <=> Newest(sent, x)
    BY <1>5 DEF Newest
  <2> QED
    BY <1>1, <1>7, <1>9, <1>11, <2>1 DEF InProgress
<1>13. Former(more, call, ToSet(h.tools))
  <2>1. \A t \in ToSet(h.tools) : t.id \in calls /\ t.id # c /\ t.args \in {<<>>, GivenOf(more, t.id)}
    BY <1>1, <1>6, <1>9 DEF Former
  <2>2. \A x \in calls : x = c \/ Made(more, x) \in ToSet(h.tools)
    BY <1>1, <1>6, <1>9 DEF Former, Made
  <2> QED
    BY <1>5, <1>11, <2>1, <2>2 DEF Former
<1> QED
  BY <1>8, <1>10, <1>12, <1>13 DEF Handled, more, w

(* A call is stopped, perhaps late: if it is not the one in progress, the    *)
(* decoder may lay it down a second time, without arguments.                 *)
LEMMA HandledStop ==
  ASSUME NEW sent \in Seq(FrameType), NEW repeats \in BOOLEAN, NEW h \in Handlings, Handled(sent, repeats, h),
         NEW c \in UnstoppedOf(sent) \ HalfOf(sent), NEW f \in FrameType, f = Stop(c, repeats)
  PROVE  Handled(Append(sent, f), repeats, Turned(h, OnTheWire(f)))
<1> DEFINE more == Append(sent, f)
           w == OnTheWire(f)
           late == [id |-> c, args |-> <<>>]
           calls == CallsOf(sent)
           r == Turned(h, w)
<1>1. /\ Known(sent) /\ InProgress(sent, repeats, h.current) /\ Former(sent, h.current, ToSet(h.tools))
      /\ h.current \in CallType
  BY DEF Handled, Handlings
<1>2. /\ Len(sent) \in Nat /\ 0 \notin calls /\ \A x \in calls : x \in Nat
      /\ UnstoppedOf(sent) \subseteq calls /\ c \in calls /\ c \in Nat /\ c # 0
  BY <1>1, CallsAreNumbers
<1>3. f.kind = "tool" /\ f.n = c /\ f.stop /\ f.args = <<>> /\ f.named = repeats
  BY DEF Stop, Frame
<1>4. /\ CallsOf(more) = calls /\ Len(more) = Len(sent) + 1 /\ ToSet(more) = ToSet(sent) \cup {f}
      /\ \A x : StoppedOf(more, x) <=> StoppedOf(sent, x) \/ x = c
  <2>1. /\ CallsOf(more) = calls \cup (IF f.kind = "tool" /\ f.named THEN {f.n} ELSE {})
        /\ Len(more) = Len(sent) + 1 /\ ToSet(more) = ToSet(sent) \cup {f}
        /\ \A x : StoppedOf(more, x) <=> StoppedOf(sent, x) \/ (f.kind = "tool" /\ f.n = x /\ f.stop)
    BY SentGrows
  <2>2. calls \cup (IF f.kind = "tool" /\ f.named THEN {f.n} ELSE {}) = calls
    BY <1>2, <1>3
  <2> QED
    BY <1>3, <2>1, <2>2
<1>5. \A x \in calls : GivenOf(more, x) = GivenOf(sent, x)
  BY <1>2, <1>3, GivenGrows
<1> HIDE DEF more
<1>6. UnstoppedOf(more) = UnstoppedOf(sent) \ {c} /\ HalfOf(more) = HalfOf(sent)
  BY <1>4, <1>5 DEF UnstoppedOf, HalfOf
<1>7. Known(more)
  BY <1>1, <1>2, <1>3, <1>4, <1>5 DEF Known
<1>8. \A x : Newest(more, x) <=> Newest(sent, x)
  BY <1>4 DEF Newest
<1>9. w.kind = "tool" /\ w.args = <<>> /\ w.stop /\ w.named = repeats /\ w \in FrameType
      /\ w.n = (IF repeats THEN c ELSE 0)
  BY <1>3 DEF OnTheWire, FrameType
<1> HIDE DEF w
<1>10. \A t \in ToSet(Laid(h)) : t.id \in calls /\ t.args \in {<<>>, GivenOf(sent, t.id)}
  BY LaidAside
<1>11. \A x \in calls : Made(sent, x) \in ToSet(Laid(h))
  BY LaidAside
<1>12. CASE h.current # NoTool /\ c = h.current.id
  <2>1. r.current = NoTool /\ r.tools = Laid(h)
    <3>1. onTool(h, w) = Handling(NoTool, Laid(h))
      BY <1>9, <1>12, CallTurned
    <3>2. r = Handling(NoTool, Laid(h))
      BY <1>9, <3>1 DEF Turned
    <3> QED
      BY <3>2, HandlingIs
  <2>2. InProgress(more, repeats, NoTool)
    <3>1. Newest(sent, c) /\ HalfOf(sent) = {}
      BY <1>1, <1>12 DEF InProgress
    <3>2. \A x \in UnstoppedOf(more) : ~Newest(more, x)
      BY <1>1, <1>6, <1>8, <1>12 DEF InProgress
    <3>3. ~repeats => UnstoppedOf(more) = {}
      BY <1>1, <1>6, <1>12 DEF InProgress
    <3> QED
      BY <1>6, <3>1, <3>2, <3>3 DEF InProgress
  <2>3. Former(more, NoTool, ToSet(Laid(h)))
    BY <1>2, <1>4, <1>5, <1>10, <1>11, NoCallTyped DEF Former, Made
  <2> QED
    BY <1>7, <2>1, <2>2, <2>3 DEF Handled, more, w
<1>13. CASE h.current # NoTool /\ c # h.current.id
  <2>1. repeats
    BY <1>1, <1>13 DEF InProgress
  <2>2. r = h
    <3>1. w.n \notin {0, h.current.id}
      BY <1>2, <1>9, <1>13, <2>1
    <3>2. onTool(h, w) = h
      BY <1>9, <1>13, <3>1, CallTurned
    <3> QED
      BY <1>9, <3>2 DEF Turned
  <2>3. InProgress(more, repeats, h.current)
    <3>1. h.current.id \in UnstoppedOf(more) /\ Newest(more, h.current.id) /\ h.current.id \in calls
      BY <1>1, <1>2, <1>6, <1>8, <1>13 DEF InProgress
    <3>2. h.current.args = GivenOf(more, h.current.id)
      BY <1>1, <1>5, <1>13, <3>1 DEF InProgress
    <3> QED
      BY <1>1, <1>6, <1>8, <2>1, <3>1, <3>2 DEF InProgress
  <2>4. Former(more, h.current, ToSet(h.tools))
    BY <1>1, <1>4, <1>5 DEF Former, Made
  <2> QED
    BY <1>7, <2>2, <2>3, <2>4 DEF Handled, more, w
<1>14. CASE h.current = NoTool
  <2>1. repeats
    BY <1>1, <1>2, <1>14, NoCallTyped DEF InProgress
  <2>2. Laid(h) = h.tools /\ h.tools \in Seq(CallType)
    BY <1>14 DEF Laid, Handlings
  <2>3. late \in CallType /\ late # NoTool /\ late.id = c /\ late.args = <<>>
    <3>1. <<>> \in Pieces /\ c \in Int
      BY <1>2 DEF Pieces
    <3> QED
      BY <1>2, <3>1 DEF CallType, NoTool
  <2>4. r.current = NoTool /\ r.tools = Append(h.tools, late)
    <3> DEFINE c2 == [id |-> w.n, args |-> w.args]
    <3>1. c2 = late
      BY <1>9, <2>1
    <3> HIDE DEF late
    <3>2. onTool(h, w) = IF ~w.named THEN h
                         ELSE IF w.stop /\ c2 # NoTool THEN Handling(NoTool, Append(Laid(h), c2))
                         ELSE Handling(c2, Laid(h))
      BY <1>9, <1>14, CallTurned
    <3> HIDE DEF c2
    <3>3. r = Handling(NoTool, Append(h.tools, late))
      BY <1>9, <2>1, <2>2, <2>3, <3>1, <3>2 DEF Turned
    <3> QED
      BY <3>3, HandlingIs
  <2> HIDE DEF late
  <2>5. ToSet(r.tools) = ToSet(h.tools) \cup {late}
    BY <2>2, <2>3, <2>4, OneMoreIn
  <2>6. InProgress(more, repeats, NoTool)
    BY <1>1, <1>6, <1>8, <1>14, <2>1 DEF InProgress
  <2>7. Former(more, NoTool, ToSet(h.tools) \cup {late})
    <3>1. \A t \in ToSet(h.tools) \cup {late} :
             t.id \in calls /\ t.id # 0 /\ t.args \in {<<>>, GivenOf(more, t.id)}
      BY <1>2, <1>5, <1>10, <2>2, <2>3
    <3>2. \A x \in calls : Made(more, x) \in ToSet(h.tools) \cup {late}
      BY <1>5, <1>11, <2>2 DEF Made
    <3> QED
      BY <1>4, <3>1, <3>2, NoCallTyped DEF Former
  <2> QED
    BY <1>7, <2>4, <2>5, <2>6, <2>7 DEF Handled, more, w
<1> QED
  BY <1>12, <1>13, <1>14

(* Every frame the provider may send leaves the calls so.                    *)
LEMMA HandledSend ==
  ASSUME TypeOK, NEW h \in Handlings, Handled(Sent, provider.repeats, h), NEW f \in Frames, f \in FrameType
  PROVE  Handled(Append(Sent, f), provider.repeats, Turned(h, OnTheWire(f)))
<1> DEFINE sent == Sent
           repeats == provider.repeats
           n == Len(sent) + 1
<1>1. sent \in Seq(FrameType) /\ repeats \in BOOLEAN /\ Known(sent)
  BY SentTyped DEF TypeOK, Handled
<1>2. /\ Calls = CallsOf(sent) /\ Unstopped = UnstoppedOf(sent) /\ Half = HalfOf(sent)
      /\ \A call : Given(call) = GivenOf(sent, call) /\ (Stopped(call) <=> StoppedOf(sent, call))
  BY SentSays
<1>3. CASE f.kind # "tool"
  <2>1. Turned(h, OnTheWire(f)) = h
    BY <1>3 DEF Turned, OnTheWire
  <2> QED
    BY <1>1, <1>3, <2>1, HandledWithoutCall
<1>4. CASE f \in {Start(n), Whole(n)} /\ Half = {} /\ (repeats \/ Unstopped = {})
  <2>1. OnTheWire(f) = f
    BY <1>4 DEF Start, Whole, Frame, OnTheWire
  <2> HIDE DEF repeats
  <2> QED
    BY <1>1, <1>2, <1>4, <2>1, HandledStart DEF repeats
<1>5. CASE f \in ToSet(sent) /\ f = Whole(f.n) /\ Unstopped = {}
  <2>1. OnTheWire(f) = f
    BY <1>5 DEF Whole, Frame, OnTheWire
  <2> QED
    BY <1>1, <1>2, <1>5, <2>1, HandledAgain
<1>6. ASSUME NEW c \in Calls, ~Stopped(c), Len(Given(c)) < 2, \A d \in Calls : d <= c,
             f = Input(c, Len(Given(c)) + 1, repeats)
      PROVE  Handled(Append(sent, f), repeats, Turned(h, OnTheWire(f)))
  <2>1. c \in UnstoppedOf(sent) /\ Newest(sent, c) /\ Len(GivenOf(sent, c)) < 2
        /\ f = Input(c, Len(GivenOf(sent, c)) + 1, repeats)
    BY <1>2, <1>6 DEF UnstoppedOf, Newest
  <2> HIDE DEF sent, repeats
  <2>2. Handled(sent, repeats, h)
    BY DEF sent, repeats
  <2> QED
    BY <1>1, <2>1, <2>2, HandledInput
<1>7. ASSUME NEW c \in Unstopped \ Half, f = Stop(c, repeats)
      PROVE  Handled(Append(sent, f), repeats, Turned(h, OnTheWire(f)))
  <2>1. c \in UnstoppedOf(sent) \ HalfOf(sent)
    BY <1>2, <1>7
  <2> HIDE DEF sent, repeats
  <2>2. Handled(sent, repeats, h)
    BY DEF sent, repeats
  <2> QED
    BY <1>1, <1>7, <2>1, <2>2, HandledStop
<1>8. \/ f.kind # "tool"
      \/ f \in {Start(n), Whole(n)} /\ Half = {} /\ (repeats \/ Unstopped = {})
      \/ f \in ToSet(sent) /\ f = Whole(f.n) /\ Unstopped = {}
      \/ \E c \in Calls : /\ ~Stopped(c) /\ Len(Given(c)) < 2 /\ \A d \in Calls : d <= c
                          /\ f = Input(c, Len(Given(c)) + 1, repeats)
      \/ \E c \in Unstopped \ Half : f = Stop(c, repeats)
  <2>1. \A i \in LastContent : Sent[i].kind # "tool"
    BY DEF LastContent
  <2>2. \A x, y : Content(x, y).kind # "tool" /\ Thinking(x).kind # "tool"
    BY DEF Content, Thinking, Frame
  <2>3. /\ Signature.kind # "tool" /\ Damaged.kind # "tool" /\ Garbled.kind # "tool"
        /\ Usage.kind # "tool"
    BY DEF Signature, Damaged, Garbled, Usage, Frame
  <2> DEFINE newest(c) == \A d \in Calls : d <= c
             more(c) == ~Stopped(c) /\ Len(Given(c)) < 2 /\ newest(c)
  <2>4. \/ f \in {Content(n, <<>>), Content(n, Arguments(n)), Thinking(n), Signature, Damaged, Garbled}
        \/ f \in {Sent[i] : i \in LastContent}
        \/ f \in {Content(n, Arguments(c)) : c \in {d \in Calls : Given(d) = Arguments(d)}}
        \/ f \in {Start(n), Whole(n)} /\ Half = {} /\ (repeats \/ Unstopped = {})
        \/ f \in {g \in ToSet(Sent) : g = Whole(g.n)} /\ Unstopped = {}
        \/ f \in {Input(c, Len(Given(c)) + 1, repeats) : c \in {d \in Calls : more(d)}}
        \/ f \in {Stop(c, repeats) : c \in Unstopped \ Half}
        \/ f = Usage
    BY DEF Frames
  <2> QED
    BY <2>1, <2>2, <2>3, <2>4
<1> QED
  BY <1>3, <1>4, <1>5, <1>6, <1>7, <1>8

-----------------------------------------------------------------------------
(* A decoder is led from one state of its calls to another by frames.        *)

Leads(h, frames, r) ==
    \E g : /\ g \in [0 .. Len(frames) -> Handlings] /\ g[0] = h /\ g[Len(frames)] = r
           /\ \A i \in 1 .. Len(frames) : g[i] = Turned(g[i - 1], frames[i])

LEMMA NothingLeads ==
  ASSUME NEW h \in Handlings
  PROVE  Leads(h, <<>>, h) /\ \A r : Leads(h, <<>>, r) => r = h
<1>1. Leads(h, <<>>, h)
  <2> DEFINE g == [i \in 0 .. 0 |-> h]
  <2>1. g \in [0 .. 0 -> Handlings] /\ g[0] = h
    OBVIOUS
  <2> HIDE DEF g
  <2> QED
    BY <2>1 DEF Leads
<1> QED
  BY <1>1 DEF Leads

LEMMA LeadsOn ==
  ASSUME NEW h \in Handlings, NEW frames \in Seq(FrameType), NEW r, Leads(h, frames, r), NEW f \in FrameType
  PROVE  Leads(h, Append(frames, f), Turned(r, f)) /\ r \in Handlings
<1> DEFINE n == Len(frames)
           more == Append(frames, f)
<1>1. n \in Nat /\ Len(more) = n + 1 /\ more[n + 1] = f /\ \A i \in 1 .. n : more[i] = frames[i]
  OBVIOUS
<1>2. PICK g : /\ g \in [0 .. n -> Handlings] /\ g[0] = h /\ g[n] = r
               /\ \A i \in 1 .. n : g[i] = Turned(g[i - 1], frames[i])
  BY DEF Leads
<1> HIDE DEF more, n
<1>3. r \in Handlings
  BY <1>1, <1>2
<1> DEFINE k == [i \in 0 .. n + 1 |-> IF i = n + 1 THEN Turned(r, f) ELSE g[i]]
<1>4. k \in [0 .. n + 1 -> Handlings]
  <2>1. Turned(r, f) \in Handlings
    BY <1>3, TurnedTyped
  <2>2. \A i \in 0 .. n : g[i] \in Handlings
    BY <1>2
  <2>3. \A i \in 0 .. n + 1 : i = n + 1 \/ i \in 0 .. n
    BY <1>1
  <2> QED
    BY <2>1, <2>2, <2>3
<1>5. k[n + 1] = Turned(r, f) /\ \A i \in 0 .. n : k[i] = g[i]
  BY <1>1
<1> HIDE DEF k
<1>6. k[0] = h
  BY <1>1, <1>2, <1>5
<1>7. ASSUME NEW i \in 1 .. n + 1
      PROVE  k[i] = Turned(k[i - 1], more[i])
  <2>1. CASE i = n + 1
    <3>1. i - 1 = n /\ n \in 0 .. n
      BY <1>1, <2>1
    <3> QED
      BY <1>1, <1>2, <1>5, <2>1, <3>1
  <2>2. CASE i \in 1 .. n
    <3>1. i \in 0 .. n /\ i - 1 \in 0 .. n
      BY <1>1, <2>2
    <3> QED
      BY <1>1, <1>2, <1>5, <2>2, <3>1
  <2> QED
    BY <1>1, <2>1, <2>2
<1>8. Leads(h, more, Turned(r, f))
  BY <1>1, <1>4, <1>5, <1>6, <1>7 DEF Leads
<1> QED
  BY <1>3, <1>8 DEF more

LEMMA LeadsFromNext ==
  ASSUME NEW h \in Handlings, NEW frames \in Seq(FrameType), NEW r, Leads(h, frames, r), frames # <<>>
  PROVE  Leads(Turned(h, Head(frames)), Tail(frames), r)
<1> DEFINE n == Len(frames)
           rest == Tail(frames)
<1>1. n \in Nat /\ n > 0 /\ Len(rest) = n - 1 /\ frames[1] = Head(frames)
      /\ \A i \in 1 .. n - 1 : rest[i] = frames[i + 1]
  OBVIOUS
<1>2. PICK g : /\ g \in [0 .. n -> Handlings] /\ g[0] = h /\ g[n] = r
               /\ \A i \in 1 .. n : g[i] = Turned(g[i - 1], frames[i])
  BY DEF Leads
<1> HIDE DEF rest, n
<1> DEFINE k == [i \in 0 .. n - 1 |-> g[i + 1]]
<1>3. k \in [0 .. n - 1 -> Handlings] /\ \A i \in 0 .. n - 1 : k[i] = g[i + 1]
  <2>1. \A i \in 0 .. n - 1 : g[i + 1] \in Handlings
    BY <1>1, <1>2
  <2> QED
    BY <2>1
<1> HIDE DEF k
<1>4. k[0] = Turned(h, Head(frames))
  <2>1. 1 \in 1 .. n /\ 0 \in 0 .. n - 1 /\ 0 + 1 = 1 /\ 1 - 1 = 0
    BY <1>1
  <2>2. g[1] = Turned(g[0], frames[1]) /\ k[0] = g[1]
    BY <1>2, <1>3, <2>1
  <2> QED
    BY <1>1, <1>2, <2>2
<1>5. k[n - 1] = r
  <2>1. n - 1 \in 0 .. n - 1 /\ (n - 1) + 1 = n
    BY <1>1
  <2> QED
    BY <1>2, <1>3, <2>1
<1>6. ASSUME NEW i \in 1 .. n - 1
      PROVE  k[i] = Turned(k[i - 1], rest[i])
  <2>1. i \in 0 .. n - 1 /\ i - 1 \in 0 .. n - 1 /\ i + 1 \in 1 .. n /\ (i + 1) - 1 = i /\ (i - 1) + 1 = i
    BY <1>1
  <2>2. k[i] = g[i + 1] /\ k[i - 1] = g[i]
    BY <1>3, <2>1
  <2>3. g[i + 1] = Turned(g[i], frames[i + 1])
    BY <1>2, <2>1
  <2> QED
    BY <1>1, <2>2, <2>3
<1>7. Leads(Turned(h, Head(frames)), rest, r)
  BY <1>1, <1>3, <1>4, <1>5, <1>6 DEF Leads
<1> QED
  BY <1>7 DEF rest

(* What the adapter drops is no call.                                        *)
LEMMA FeedLeads ==
  ASSUME NEW last \in Nat, NEW chunk \in Seq(FrameType), NEW h \in Handlings, NEW r, Leads(h, chunk, r)
  PROVE  Leads(h, feed(last, chunk).out, r) /\ feed(last, chunk) \in Parsers
<1> DEFINE n == Len(chunk)
<1>1. n \in Nat /\ \A i \in 1 .. n : chunk[i] \in FrameType
  OBVIOUS
<1>2. PICK fed \in [0 .. n -> Parsers] :
           /\ fed[0] = [last |-> last, out |-> <<>>] /\ fed[n] = feed(last, chunk)
           /\ \A i \in 1 .. n : fed[i] = classify(fed[i - 1], chunk[i])
  BY FedInOrder
<1>3. PICK g : /\ g \in [0 .. n -> Handlings] /\ g[0] = h /\ g[n] = r
               /\ \A i \in 1 .. n : g[i] = Turned(g[i - 1], chunk[i])
  BY DEF Leads
<1> HIDE DEF n
<1> DEFINE T == {i \in 0 .. n : Leads(h, fed[i].out, g[i])}
<1>4. 0 \in T
  <2>1. fed[0].out = <<>>
    BY <1>2
  <2>2. Leads(h, <<>>, h)
    BY NothingLeads
  <2> QED
    BY <1>1, <1>3, <2>1, <2>2
<1>5. ASSUME NEW i \in 0 .. n - 1, i \in T
      PROVE  i + 1 \in T
  <2> DEFINE p == fed[i]
             f == chunk[i + 1]
             q == fed[i + 1]
  <2>1. i + 1 \in 1 .. n /\ (i + 1) - 1 = i /\ i + 1 \in 0 .. n /\ i \in 0 .. n
    BY <1>1
  <2>2. q = classify(p, f) /\ g[i + 1] = Turned(g[i], f) /\ p \in Parsers /\ f \in FrameType
    BY <1>1, <1>2, <1>3, <2>1
  <2>3. p.out \in Seq(FrameType) /\ Leads(h, p.out, g[i])
    BY <1>5, <2>2 DEF Parsers
  <2> HIDE DEF p, f, q
  <2>4. CASE Dropped(p, f)
    <3>1. Garbled.kind # "tool"
      BY DEF Garbled, Frame
    <3>2. q = p /\ f.kind # "tool"
      BY <2>2, <2>4, <3>1 DEF classify, Dropped
    <3>3. g[i + 1] = g[i]
      BY <2>2, <3>2 DEF Turned
    <3> QED
      BY <2>1, <2>3, <3>2, <3>3 DEF q, p
  <2>5. CASE ~Dropped(p, f)
    <3>1. q.out = Append(p.out, f)
      BY <2>2, <2>5 DEF classify, Dropped
    <3>2. Leads(h, Append(p.out, f), Turned(g[i], f))
      BY <2>2, <2>3, LeadsOn
    <3> QED
      BY <2>1, <2>2, <3>1, <3>2 DEF q
  <2> QED
    BY <2>4, <2>5
<1>6. \A i \in 0 .. n : i \in T
  <2> HIDE DEF T
  <2> QED
    BY <1>1, <1>4, <1>5, Induction
<1>7. n \in 0 .. n
  BY <1>1
<1>8. Leads(h, fed[n].out, g[n]) /\ fed[n] \in Parsers
  BY <1>2, <1>6, <1>7
<1> QED
  BY <1>2, <1>3, <1>8

(* The events a decoder returns are no concern of its calls.                 *)
SameCalls(d, r) == {"current", "tools"} \subseteq DOMAIN r /\ r.current = d.current /\ r.tools = d.tools

LEMMA OtherFields ==
  ASSUME NEW d, NEW r, SameCalls(d, r), NEW x
  PROVE  /\ SameCalls(d, [r EXCEPT !.out = x]) /\ SameCalls(d, [r EXCEPT !.started = x])
         /\ SameCalls(d, [r EXCEPT !.thinking = x]) /\ SameCalls(d, [r EXCEPT !.text = x])
         /\ SameCalls(d, [r EXCEPT !.next = x]) /\ SameCalls(d, [r EXCEPT !.said = x])
         /\ SameCalls(d, [r EXCEPT !.usage = x])
<1>1. SameCalls(d, [r EXCEPT !.out = x]) /\ SameCalls(d, [r EXCEPT !.started = x])
  BY DEF SameCalls
<1>2. SameCalls(d, [r EXCEPT !.thinking = x]) /\ SameCalls(d, [r EXCEPT !.text = x])
  BY DEF SameCalls
<1>3. SameCalls(d, [r EXCEPT !.next = x]) /\ SameCalls(d, [r EXCEPT !.said = x])
  BY DEF SameCalls
<1>4. SameCalls(d, [r EXCEPT !.usage = x])
  BY DEF SameCalls
<1> QED
  BY <1>1, <1>2, <1>3, <1>4

LEMMA EmittedAlike ==
  ASSUME NEW d, NEW r, SameCalls(d, r), NEW ev, NEW at, NEW x
  PROVE  SameCalls(d, Emit(r, ev, at, x))
<1> DEFINE out == Append(r.out, Event(ev, at, x))
<1>1. Emit(r, ev, at, x) = [r EXCEPT !.out = out]
  BY DEF Emit
<1> HIDE DEF out
<1>2. SameCalls(d, [r EXCEPT !.out = out])
  BY OtherFields
<1> QED
  BY <1>1, <1>2

LEMMA BlocksAlike ==
  ASSUME NEW d, NEW r, SameCalls(d, r)
  PROVE  SameCalls(d, closeThinkingBlock(r)) /\ SameCalls(d, ensureTextOpen(r)) /\ SameCalls(d, ensureStarted(r))
<1>1. SameCalls(d, closeThinkingBlock(r))
  <2> DEFINE out == r.out \o ThinkingEnd(r.thinking)
             s == [r EXCEPT !.out = out]
             block == [s.thinking EXCEPT !.open = FALSE]
  <2>1. closeThinkingBlock(r) = [s EXCEPT !.thinking = block]
    BY DEF closeThinkingBlock
  <2> HIDE DEF out, block
  <2>2. SameCalls(d, s)
    BY OtherFields
  <2> HIDE DEF s
  <2>3. SameCalls(d, [s EXCEPT !.thinking = block])
    BY <2>2, OtherFields
  <2> QED
    BY <2>1, <2>3
<1>2. SameCalls(d, ensureTextOpen(r))
  <2> DEFINE s == Emit(r, "text", r.next, <<>>)
             block == [NoBlock EXCEPT !.open = TRUE, !.at = r.next]
             t == [s EXCEPT !.text = block]
             next == t.next + 1
  <2>1. ensureTextOpen(r) = IF r.text.open THEN r ELSE [t EXCEPT !.next = next]
    BY DEF ensureTextOpen
  <2>2. SameCalls(d, s)
    BY EmittedAlike
  <2> HIDE DEF s, block, next
  <2>3. SameCalls(d, t)
    BY <2>2, OtherFields
  <2> HIDE DEF t
  <2>4. SameCalls(d, [t EXCEPT !.next = next])
    BY <2>3, OtherFields
  <2> QED
    BY <2>1, <2>4
<1>3. SameCalls(d, ensureStarted(r))
  <2> DEFINE s == [r EXCEPT !.started = TRUE]
             t == Emit(s, "message_start", 0, <<>>)
  <2>1. ensureStarted(r) = IF r.started THEN r ELSE t
    BY DEF ensureStarted
  <2>2. SameCalls(d, s)
    BY OtherFields
  <2> HIDE DEF s
  <2>3. SameCalls(d, t)
    BY <2>2, EmittedAlike
  <2> HIDE DEF t
  <2> QED
    BY <2>1, <2>3
<1> QED
  BY <1>1, <1>2, <1>3

LEMMA StartedTyped ==
  ASSUME NEW d \in DecoderType
  PROVE  LET r == ensureStarted([d EXCEPT !.out = <<>>])
         IN  r \in DecoderType /\ HandlingOf(r) = HandlingOf(d) /\ SameCalls(d, r)
<1> DEFINE b == [d EXCEPT !.out = <<>>]
           r == ensureStarted(b)
<1>1. b \in DecoderType
  <2>1. <<>> \in Seq(EventType)
    OBVIOUS
  <2> QED
    BY <2>1 DEF DecoderType
<1>2. SameCalls(d, b)
  <2>1. SameCalls(d, d)
    BY DEF SameCalls, DecoderType
  <2> QED
    BY <2>1, OtherFields
<1> HIDE DEF b
<1>3. SameCalls(d, r)
  BY <1>2, BlocksAlike
<1>4. r \in DecoderType
  <2> DEFINE s == [b EXCEPT !.started = TRUE]
             e == Event("message_start", 0, <<>>)
  <2>1. r = IF b.started THEN b ELSE [s EXCEPT !.out = Append(@, e)]
    BY DEF ensureStarted, Emit
  <2>2. s \in DecoderType /\ e \in EventType
    <3>1. <<>> \in Seq(Int)
      OBVIOUS
    <3>2. e \in EventType
      BY <3>1, EventsTyped
    <3> QED
      BY <1>1, <3>2 DEF DecoderType
  <2> HIDE DEF s, e, r
  <2>3. [s EXCEPT !.out = Append(@, e)] \in DecoderType
    BY <2>2, Emitted
  <2> QED
    BY <1>1, <2>1, <2>3
<1> HIDE DEF r
<1>5. HandlingOf(r) = HandlingOf(d)
  BY <1>3 DEF HandlingOf, SameCalls
<1> QED
  BY <1>3, <1>4, <1>5 DEF r, b

LEMMA FeedHandles ==
  ASSUME NEW decoded \in DecoderType, NEW f \in FrameType
  PROVE  HandlingOf(DecoderFeed(decoded, f)) = Turned(HandlingOf(decoded), f)
<1> DEFINE d == ensureStarted([decoded EXCEPT !.out = <<>>])
           signed == [Emit(d, "signature", d.thinking.at, <<>>) EXCEPT !.thinking.signed = TRUE]
           used == [d EXCEPT !.usage = TRUE]
           fed == DecoderFeed(decoded, f)
<1>1. d \in DecoderType /\ HandlingOf(d) = HandlingOf(decoded) /\ SameCalls(decoded, d)
  BY StartedTyped
<1>2. fed =
        CASE f.kind = "tool" -> onTool(d, f)
          [] f.kind = "content" -> onContent(d, f)
          [] f.kind = "thinking" -> onThinking(d, f)
          [] f.kind = "signature" /\ d.thinking.open /\ ~d.thinking.signed -> signed
          [] f.kind = "usage" -> used
          [] OTHER -> d
  BY DEF DecoderFeed
<1> HIDE DEF d, fed
<1>3. CASE f.kind = "tool"
  <2>1. fed = onTool(d, f)
    BY <1>2, <1>3
  <2> QED
    BY <1>1, <1>3, <2>1, HandlingTurns DEF Turned, fed
<1>4. CASE f.kind # "tool"
  <2>1. SameCalls(decoded, onContent(d, f))
    <3> DEFINE ready == ensureTextOpen(closeThinkingBlock(d))
               s == Emit(ready, "delta", ready.text.at, <<f.n>>)
               said == Append(s.said, f)
    <3>1. onContent(d, f) = [s EXCEPT !.said = said]
      BY DEF onContent
    <3>2. SameCalls(decoded, ready)
      <4>1. SameCalls(decoded, closeThinkingBlock(d))
        BY <1>1, BlocksAlike
      <4> QED
        BY <4>1, BlocksAlike
    <3> HIDE DEF ready, said
    <3>3. SameCalls(decoded, s)
      BY <3>2, EmittedAlike
    <3> HIDE DEF s
    <3>4. SameCalls(decoded, [s EXCEPT !.said = said])
      BY <3>3, OtherFields
    <3> QED
      BY <3>1, <3>4
  <2>2. SameCalls(decoded, onThinking(d, f))
    <3> DEFINE s == Emit(d, "thinking", d.next, <<>>)
               block == [NoBlock EXCEPT !.open = TRUE, !.at = d.next]
               t == [s EXCEPT !.thinking = block]
               next == t.next + 1
               opened == [t EXCEPT !.next = next]
               ready == IF d.thinking.open THEN d ELSE opened
    <3>1. onThinking(d, f) = Emit(ready, "delta", ready.thinking.at, <<f.n>>)
      BY DEF onThinking
    <3>2. SameCalls(decoded, s)
      BY <1>1, EmittedAlike
    <3> HIDE DEF s, block, next
    <3>3. SameCalls(decoded, t)
      BY <3>2, OtherFields
    <3> HIDE DEF t
    <3>4. SameCalls(decoded, opened)
      BY <3>3, OtherFields
    <3> HIDE DEF opened
    <3>5. SameCalls(decoded, ready)
      BY <1>1, <3>4
    <3> HIDE DEF ready
    <3> QED
      BY <3>1, <3>5, EmittedAlike
  <2>3. SameCalls(decoded, signed) /\ SameCalls(decoded, used)
    <3> DEFINE s == Emit(d, "signature", d.thinking.at, <<>>)
               block == [s.thinking EXCEPT !.signed = TRUE]
    <3>1. SameCalls(decoded, s)
      BY <1>1, EmittedAlike
    <3>2. signed = [s EXCEPT !.thinking = block]
      OBVIOUS
    <3> HIDE DEF s, block, signed
    <3> QED
      BY <1>1, <3>1, <3>2, OtherFields
  <2>4. fed \in {onContent(d, f), onThinking(d, f), signed, used, d}
    BY <1>2, <1>4
  <2> HIDE DEF signed, used
  <2>5. SameCalls(decoded, fed)
    BY <1>1, <2>1, <2>2, <2>3, <2>4
  <2> QED
    BY <1>4, <2>5 DEF Turned, HandlingOf, SameCalls, fed
<1> QED
  BY <1>3, <1>4

-----------------------------------------------------------------------------
(* The calls of a finished answer. Of equal arguments the first are kept,    *)
(* and of one id the fullest.                                                *)

ArgsOf(calls) == {call.args : call \in ToSet(calls)}
Distinct(calls) == \A i, j \in DOMAIN calls : calls[i].args = calls[j].args => i = j
Fuller(calls, t) == t \in ToSet(calls) /\ \A u \in ToSet(calls) : u.id = t.id => Key(u) <= Key(t)

LEMMA OneMoreDistinct ==
  ASSUME NEW s \in Seq(CallType), NEW e \in CallType
  PROVE  /\ s \o <<e>> = Append(s, e) /\ ArgsOf(s \o <<e>>) = ArgsOf(s) \cup {e.args}
         /\ Distinct(s) /\ e.args \notin ArgsOf(s) => Distinct(s \o <<e>>)
<1> DEFINE t == s \o <<e>>
<1>1. t = Append(s, e)
  OBVIOUS
<1>2. /\ Len(s) \in Nat /\ DOMAIN s = 1 .. Len(s) /\ DOMAIN t = 1 .. Len(s) + 1 /\ t[Len(s) + 1] = e
      /\ \A i \in DOMAIN s : t[i] = s[i] /\ s[i] \in ToSet(s)
  BY DEF ToSet
<1>3. ToSet(Append(s, e)) = ToSet(s) \cup {e}
  BY OneMoreIn
<1> HIDE DEF t
<1>4. ArgsOf(t) = ArgsOf(s) \cup {e.args}
  BY <1>1, <1>3 DEF ArgsOf
<1>5. ASSUME Distinct(s), e.args \notin ArgsOf(s)
      PROVE  Distinct(t)
  <2> SUFFICES ASSUME NEW i \in DOMAIN t, NEW j \in DOMAIN t, t[i].args = t[j].args
               PROVE  i = j
    BY DEF Distinct
  <2>1. \A k \in DOMAIN t : k \in DOMAIN s \/ k = Len(s) + 1
    BY <1>2
  <2>2. \A k \in DOMAIN s : t[k].args # e.args
    BY <1>2, <1>5 DEF ArgsOf
  <2> QED
    BY <1>2, <1>5, <2>1, <2>2 DEF Distinct
<1> QED
  BY <1>1, <1>4, <1>5 DEF t

LEMMA FirstOfEach ==
  ASSUME NEW calls \in Seq(CallType)
  PROVE  LET New(i) == \A j \in 1..(i - 1) : calls[j].args # calls[i].args
             flat == FlattenSeq([i \in DOMAIN calls |-> IF New(i) THEN <<calls[i]>> ELSE <<>>])
         IN  /\ flat \in Seq(CallType) /\ ToSet(flat) \subseteq ToSet(calls)
             /\ Distinct(flat) /\ ArgsOf(flat) = ArgsOf(calls)
<1> DEFINE n == Len(calls)
           New(i) == \A j \in 1..(i - 1) : calls[j].args # calls[i].args
           parts == [i \in DOMAIN calls |-> IF New(i) THEN <<calls[i]>> ELSE <<>>]
           So(i) == {calls[k].args : k \in 1 .. i}
<1>1. n \in Nat /\ DOMAIN calls = 1 .. n /\ \A i \in 1 .. n : calls[i] \in CallType
  OBVIOUS
<1>2. /\ parts \in Seq(Seq(CallType)) /\ Len(parts) = n
      /\ \A i \in 1 .. n : parts[i] = IF New(i) THEN <<calls[i]>> ELSE <<>>
  <2>1. \A i \in 1 .. n : parts[i] = IF New(i) THEN <<calls[i]>> ELSE <<>>
    BY <1>1
  <2>2. \A i \in 1 .. n : parts[i] \in Seq(CallType)
    BY <1>1, <2>1
  <2>3. parts \in [1 .. n -> Seq(CallType)]
    BY <1>1, <2>2
  <2> HIDE DEF parts, n
  <2> QED
    BY <1>1, <2>1, <2>3
<1>3. \A i \in 1 .. n : New(i) <=> calls[i].args \notin So(i - 1)
  OBVIOUS
<1> HIDE DEF parts, New
<1>4. PICK f : Joins(parts, CallType, f)
  BY <1>2, FlattenedInOrder
<1>5. /\ f \in [0 .. n -> Seq(CallType)] /\ f[0] = <<>> /\ f[n] = FlattenSeq(parts)
      /\ \A i \in 1 .. n : f[i] = f[i - 1] \o parts[i]
  BY <1>2, <1>4 DEF Joins
<1> DEFINE T == {i \in 0 .. n : /\ Distinct(f[i]) /\ ArgsOf(f[i]) = So(i)
                                /\ ToSet(f[i]) \subseteq ToSet(calls)}
<1>6. 0 \in T
  <2>1. ToSet(<<>>) = {} /\ Distinct(<<>>) /\ So(0) = {}
    BY DEF ToSet, Distinct
  <2>2. ArgsOf(<<>>) = {}
    BY <2>1 DEF ArgsOf
  <2> QED
    BY <1>1, <1>5, <2>1, <2>2
<1>7. ASSUME NEW i \in 0 .. n - 1, i \in T
      PROVE  i + 1 \in T
  <2> DEFINE s == f[i]
             e == calls[i + 1]
  <2>1. i + 1 \in 1 .. n /\ (i + 1) - 1 = i /\ i + 1 \in 0 .. n /\ i \in 0 .. n
    BY <1>1
  <2>2. s \in Seq(CallType) /\ e \in CallType /\ e \in ToSet(calls)
    BY <1>1, <1>5, <2>1 DEF ToSet
  <2>3. f[i + 1] = s \o parts[i + 1]
    BY <1>5, <2>1
  <2>4. So(i + 1) = So(i) \cup {e.args}
    <3>1. \A k \in 1 .. i + 1 : k \in 1 .. i \/ k = i + 1
      BY <2>1
    <3>2. 1 .. i \subseteq 1 .. i + 1 /\ i + 1 \in 1 .. i + 1
      BY <2>1
    <3> QED
      BY <3>1, <3>2
  <2>5. Distinct(s) /\ ArgsOf(s) = So(i) /\ ToSet(s) \subseteq ToSet(calls)
    BY <1>7
  <2>6. New(i + 1) <=> e.args \notin So(i)
    BY <1>3, <2>1
  <2> HIDE DEF s, e, So
  <2>7. CASE New(i + 1)
    <3>1. f[i + 1] = s \o <<e>>
      BY <1>2, <2>1, <2>3, <2>7 DEF e
    <3> DEFINE t == s \o <<e>>
    <3>2. t = Append(s, e) /\ ArgsOf(t) = ArgsOf(s) \cup {e.args} /\ Distinct(t)
      BY <2>2, <2>5, <2>6, <2>7, OneMoreDistinct
    <3> HIDE DEF t
    <3>3. ToSet(Append(s, e)) = ToSet(s) \cup {e}
      BY <2>2, OneMoreIn
    <3>4. Distinct(t) /\ ArgsOf(t) = So(i + 1) /\ ToSet(t) \subseteq ToSet(calls)
      BY <2>2, <2>4, <2>5, <3>2, <3>3
    <3> QED
      BY <2>1, <3>1, <3>4 DEF t
  <2>8. CASE ~New(i + 1)
    <3>1. f[i + 1] = s \o <<>>
      BY <1>2, <2>1, <2>3, <2>8
    <3>2. f[i + 1] = s
      BY <2>2, <3>1
    <3> QED
      BY <2>1, <2>4, <2>5, <2>6, <2>8, <3>2
  <2> QED
    BY <2>7, <2>8
<1>8. n \in T
  <2> HIDE DEF T, n
  <2>1. \A i \in 0 .. n : i \in T
    BY <1>1, <1>6, <1>7, Induction
  <2> QED
    BY <1>1, <2>1
<1>9. So(n) = ArgsOf(calls)
  BY <1>1 DEF ArgsOf, ToSet
<1> HIDE DEF So
<1>10. /\ FlattenSeq(parts) \in Seq(CallType) /\ ToSet(FlattenSeq(parts)) \subseteq ToSet(calls)
       /\ Distinct(FlattenSeq(parts)) /\ ArgsOf(FlattenSeq(parts)) = ArgsOf(calls)
  <2>1. n \in 0 .. n
    BY <1>1
  <2> QED
    BY <1>5, <1>8, <1>9, <2>1
<1> QED
  BY <1>10 DEF parts, New

LEMMA DeduplicatedCalls ==
  ASSUME NEW tools \in Seq(CallType)
  PROVE  /\ dedupToolCalls(tools) \in Seq(CallType) /\ Distinct(dedupToolCalls(tools))
         /\ \A t \in ToSet(dedupToolCalls(tools)) : Fuller(tools, t)
         /\ \A u \in ToSet(tools) : \E t \in ToSet(tools) :
               t.id = u.id /\ Fuller(tools, t) /\ t.args \in ArgsOf(dedupToolCalls(tools))
<1> DEFINE Same(i) == {j \in DOMAIN tools : tools[j].id = tools[i].id}
           Fullest(i) == CHOOSE j \in Same(i) :
                             \A k \in Same(i) : k # j => IF k < j THEN Better(tools[j], tools[k])
                                                                 ELSE ~Better(tools[k], tools[j])
           calls == [i \in DOMAIN tools |-> tools[Fullest(i)]]
           New(i) == \A j \in 1..(i - 1) : calls[j].args # calls[i].args
           flat == FlattenSeq([i \in DOMAIN tools |-> IF New(i) THEN <<calls[i]>> ELSE <<>>])
<1>1. dedupToolCalls(tools) = flat
  BY DEF dedupToolCalls
<1>2. ASSUME NEW i \in DOMAIN tools
      PROVE  calls[i] \in CallType /\ calls[i].id = tools[i].id /\ Fuller(tools, calls[i])
  <2>1. Same(i) \in SUBSET (DOMAIN tools) /\ i \in Same(i)
    OBVIOUS
  <2> DEFINE S == Same(i)
             Good(j) == \A k \in S : k # j => IF k < j THEN Better(tools[j], tools[k])
                                                      ELSE ~Better(tools[k], tools[j])
             m == Fullest(i)
  <2>2. \E j \in S : Good(j)
    <3> HIDE DEF S
    <3>1. S # {} /\ S \in SUBSET (DOMAIN tools)
      BY <2>1 DEF S
    <3> QED
      BY <3>1, OneIsFullest
  <2>3. m = CHOOSE j \in S : Good(j)
    OBVIOUS
  <2>4. m \in S /\ Good(m)
    <3> HIDE DEF Good, S, m
    <3> QED
      BY <2>2, <2>3
  <2>5. calls[i] = tools[m]
    OBVIOUS
  <2> HIDE DEF m, Fullest, calls
  <2>6. m \in DOMAIN tools /\ tools[m].id = tools[i].id /\ tools[m] \in CallType
    BY <2>4
  <2>7. ASSUME NEW k \in DOMAIN tools, tools[k].id = tools[m].id
        PROVE  Key(tools[k]) <= Key(tools[m])
    <3>1. k \in S /\ tools[k] \in CallType
      BY <2>6, <2>7
    <3>2. Key(tools[k]) \in Nat /\ Key(tools[m]) \in Nat
      BY <2>6, <3>1, KeyType
    <3>3. k # m => Better(tools[m], tools[k]) \/ ~Better(tools[k], tools[m])
      BY <2>4, <3>1
    <3>4. /\ Better(tools[m], tools[k]) <=> Key(tools[m]) > Key(tools[k])
          /\ Better(tools[k], tools[m]) <=> Key(tools[k]) > Key(tools[m])
      BY <2>6, <3>1, BetterIsMore
    <3> QED
      BY <3>2, <3>3, <3>4
  <2>8. Fuller(tools, tools[m])
    BY <2>6, <2>7 DEF Fuller, ToSet
  <2> QED
    BY <2>5, <2>6, <2>8
<1>3. calls \in Seq(CallType) /\ DOMAIN calls = DOMAIN tools
  <2> HIDE DEF Fullest
  <2>1. DOMAIN tools = 1 .. Len(tools) /\ Len(tools) \in Nat
    OBVIOUS
  <2>2. calls \in [1 .. Len(tools) -> CallType]
    BY <1>2, <2>1
  <2> HIDE DEF calls
  <2> QED
    BY <2>1, <2>2
<1> HIDE DEF calls
<1>4. /\ flat \in Seq(CallType) /\ ToSet(flat) \subseteq ToSet(calls)
      /\ Distinct(flat) /\ ArgsOf(flat) = ArgsOf(calls)
  <2>1. flat = FlattenSeq([i \in DOMAIN calls |-> IF New(i) THEN <<calls[i]>> ELSE <<>>])
    BY <1>3
  <2> HIDE DEF flat
  <2> QED
    BY <1>3, <2>1, FirstOfEach
<1> HIDE DEF flat
<1>5. \A t \in ToSet(calls) : Fuller(tools, t)
  BY <1>2, <1>3 DEF ToSet
<1>6. ASSUME NEW u \in ToSet(tools)
      PROVE  \E t \in ToSet(tools) : t.id = u.id /\ Fuller(tools, t) /\ t.args \in ArgsOf(flat)
  <2>1. PICK i \in DOMAIN tools : u = tools[i]
    BY DEF ToSet
  <2>2. calls[i].id = u.id /\ Fuller(tools, calls[i]) /\ calls[i] \in ToSet(calls)
    BY <1>2, <1>3, <2>1 DEF ToSet
  <2>3. calls[i] \in ToSet(tools) /\ calls[i].args \in ArgsOf(flat)
    BY <1>4, <2>2 DEF Fuller, ArgsOf
  <2> QED
    BY <2>2, <2>3
<1> QED
  BY <1>1, <1>4, <1>5, <1>6

LEMMA SpelledTells ==
  ASSUME NEW said \in Seq(FrameType)
  PROVE  /\ SpelledOut(said) \in Seq(CallType)
         /\ \A t \in ToSet(SpelledOut(said)) : \E k \in DOMAIN said :
               t.id = -k /\ t.args = said[k].args /\ t.args # <<>>
         /\ \A k \in DOMAIN said : said[k].args # <<>> =>
               \E t \in ToSet(SpelledOut(said)) : t.id = -k /\ t.args = said[k].args
<1> DEFINE call(i) == [id |-> -i, args |-> said[i].args]
           parts == [i \in DOMAIN said |-> IF said[i].args = <<>> THEN <<>> ELSE <<call(i)>>]
           flat == FlattenSeq(parts)
<1>1. SpelledOut(said) = flat
  BY DEF SpelledOut
<1>2. SpelledOut(said) \in Seq(CallType)
  BY CallsSpelledOut
<1>3. \A i \in DOMAIN said : call(i) \in CallType /\ call(i).id = -i /\ call(i).args = said[i].args
  <2> SUFFICES ASSUME NEW i \in DOMAIN said
               PROVE  call(i) \in CallType
    OBVIOUS
  <2>1. said[i] \in FrameType /\ -i \in Int
    OBVIOUS
  <2> QED
    BY <2>1 DEF CallType, FrameType
<1> HIDE DEF call
<1>4. \A i \in DOMAIN said : ToSet(parts[i]) = IF said[i].args = <<>> THEN {} ELSE {call(i)}
  BY DEF ToSet
<1>5. parts \in Seq(Seq(CallType)) /\ DOMAIN parts = DOMAIN said
  <2>1. DOMAIN said = 1 .. Len(said) /\ Len(said) \in Nat
    OBVIOUS
  <2>2. \A i \in DOMAIN said : parts[i] \in Seq(CallType)
    BY <1>3
  <2>3. parts \in [1 .. Len(said) -> Seq(CallType)]
    BY <2>1, <2>2
  <2> HIDE DEF parts
  <2> QED
    BY <2>1, <2>3
<1> HIDE DEF parts
<1>6. ToSet(flat) = UNION {ToSet(parts[i]) : i \in DOMAIN parts}
  BY <1>5, Flattened
<1> HIDE DEF flat
<1>7. ASSUME NEW t \in ToSet(flat)
      PROVE  \E k \in DOMAIN said : t.id = -k /\ t.args = said[k].args /\ t.args # <<>>
  <2>1. PICK k \in DOMAIN said : t \in ToSet(parts[k])
    BY <1>5, <1>6
  <2>2. said[k].args # <<>> /\ t = call(k)
    BY <1>4, <2>1
  <2> QED
    BY <1>3, <2>2
<1>8. ASSUME NEW k \in DOMAIN said, said[k].args # <<>>
      PROVE  \E t \in ToSet(flat) : t.id = -k /\ t.args = said[k].args
  <2>1. call(k) \in ToSet(parts[k])
    BY <1>4, <1>8
  <2>2. call(k) \in ToSet(flat)
    BY <1>5, <1>6, <2>1
  <2> QED
    BY <1>3, <2>2
<1> QED
  BY <1>1, <1>2, <1>7, <1>8

(* the arguments that texts spell out, which are never half of any *)
Spells(frames) == {f.args : f \in {g \in frames : g.kind = "content"}} \ {<<>>}
ContentsSpell == \A args \in Spells(ToSet(Sent)) : \E n \in Nat : args = Arguments(n)

LEMMA CallsInTheEnd ==
  ASSUME TypeOK, ContentsSpell, NEW d \in DecoderType, Handled(Sent, provider.repeats, HandlingOf(d)),
         ToSet(d.said) = {f \in ToSet(Sent) : f.kind = "content"}
  PROVE  /\ LastTools(d) \in Seq(CallType) /\ Distinct(LastTools(d))
         /\ ArgsOf(LastTools(d)) = Spells(ToSet(Sent)) \cup {Given(c) : c \in Calls}
         /\ \A t \in ToSet(LastTools(d)) : t.id \in Calls => t.args = Given(t.id)
         /\ {t.id : t \in {u \in ToSet(LastTools(d)) : ~Parses(u.args)}} = Half
<1> DEFINE h == HandlingOf(d)
           made == finalizeTool(d).tools
           spelled == SpelledOut(d.said)
           tools == made \o spelled
           last == LastTools(d)
<1>1. d.said \in Seq(FrameType) /\ h \in Handlings /\ Sent \in Seq(FrameType)
  BY SentTyped DEF DecoderType, HandlingOf, Handlings
<1>2. made = Laid(h) /\ Laid(h) \in Seq(CallType)
  <2>1. HandlingOf(finalizeTool(d)) = Handling(NoTool, Laid(h)) /\ Laid(h) \in Seq(CallType)
    BY <1>1, FinalizedAlike, LaidDown
  <2> QED
    BY <2>1 DEF HandlingOf, Handling
<1>3. /\ Calls = CallsOf(Sent) /\ Half = HalfOf(Sent) /\ \A c : Given(c) = GivenOf(Sent, c)
  BY SentSays
<1>4. /\ \A t \in ToSet(made) : t.id \in Calls /\ t.args \in {<<>>, Given(t.id)}
      /\ \A t \in ToSet(made) : t.id \in Half => t.args = Given(t.id)
      /\ \A c \in Calls : [id |-> c, args |-> Given(c)] \in ToSet(made)
  <2>1. /\ \A t \in ToSet(Laid(h)) : t.id \in CallsOf(Sent) /\ t.args \in {<<>>, GivenOf(Sent, t.id)}
        /\ \A t \in ToSet(Laid(h)) : t.id \in HalfOf(Sent) => t.args = GivenOf(Sent, t.id)
        /\ \A c \in CallsOf(Sent) : Made(Sent, c) \in ToSet(Laid(h))
    BY <1>1, LaidAside
  <2> QED
    BY <1>2, <1>3, <2>1 DEF Made
<1>5. /\ spelled \in Seq(CallType)
      /\ \A t \in ToSet(spelled) : \E k \in DOMAIN d.said :
               t.id = -k /\ t.args = d.said[k].args /\ t.args # <<>>
      /\ \A k \in DOMAIN d.said : d.said[k].args # <<>> =>
               \E t \in ToSet(spelled) : t.id = -k /\ t.args = d.said[k].args
  BY <1>1, SpelledTells
<1>6. Known(Sent) /\ \A c \in Calls : c \in Nat /\ c # 0
  <2>1. Known(Sent)
    BY DEF Handled
  <2> QED
    BY <1>1, <1>3, <2>1, CallsAreNumbers
<1>7. \A c \in Calls : Given(c) \in ShownOf(c)
  BY <1>3, <1>6 DEF Known
<1> HIDE DEF made, spelled, h
<1>8. tools \in Seq(CallType) /\ ToSet(tools) = ToSet(made) \cup ToSet(spelled)
  <2>1. tools \in Seq(CallType)
    BY <1>2, <1>5
  <2>2. ToSet(tools) = ToSet(made) \cup ToSet(spelled)
    <3>1. /\ made \in Seq(CallType) /\ spelled \in Seq(CallType)
          /\ \A i \in DOMAIN made : i \in DOMAIN tools /\ tools[i] = made[i]
      BY <1>2, <1>5
    <3>2. \A i \in DOMAIN spelled : Len(made) + i \in DOMAIN tools /\ tools[Len(made) + i] = spelled[i]
      BY <3>1
    <3>3. \A i \in DOMAIN tools : \/ i \in DOMAIN made
                                  \/ i - Len(made) \in DOMAIN spelled /\ tools[i] = spelled[i - Len(made)]
      BY <3>1
    <3> HIDE DEF tools
    <3> QED
      BY <3>1, <3>2, <3>3 DEF ToSet
  <2> QED
    BY <2>1, <2>2
<1> HIDE DEF tools
<1>9. /\ last \in Seq(CallType) /\ Distinct(last)
      /\ \A t \in ToSet(last) : Fuller(tools, t)
      /\ \A u \in ToSet(tools) : \E t \in ToSet(tools) :
               t.id = u.id /\ Fuller(tools, t) /\ t.args \in ArgsOf(last)
  <2>1. last = dedupToolCalls(tools)
    BY DEF LastTools, tools, made, spelled
  <2> HIDE DEF last
  <2> QED
    BY <1>8, <2>1, DeduplicatedCalls
<1> HIDE DEF last
<1>10. \A t \in ToSet(spelled) : t.id \notin Calls /\ t.args \in Spells(ToSet(Sent)) /\ Parses(t.args)
  <2> SUFFICES ASSUME NEW t \in ToSet(spelled)
               PROVE  t.id \notin Calls /\ t.args \in Spells(ToSet(Sent)) /\ Parses(t.args)
    OBVIOUS
  <2>1. PICK k \in DOMAIN d.said : t.id = -k /\ t.args = d.said[k].args /\ t.args # <<>>
    BY <1>5
  <2>2. d.said[k] \in ToSet(Sent) /\ d.said[k].kind = "content"
    BY <2>1 DEF ToSet
  <2>3. t.args \in Spells(ToSet(Sent))
    BY <2>1, <2>2 DEF Spells
  <2>4. Parses(t.args)
    BY <2>3, PartlyShown DEF ContentsSpell
  <2>5. t.id \notin Calls
    <3>1. k \in Nat /\ k # 0
      BY <1>1
    <3> QED
      BY <1>6, <2>1, <3>1
  <2> QED
    BY <2>3, <2>4, <2>5
<1>11. ASSUME NEW t, Fuller(tools, t), t.id \in Calls
       PROVE  t.args = Given(t.id)
  <2> DEFINE c == t.id
             u == [id |-> c, args |-> Given(c)]
  <2>1. t \in ToSet(made)
    BY <1>8, <1>10, <1>11 DEF Fuller
  <2>2. u \in ToSet(tools) /\ u.id = c
    BY <1>4, <1>8, <1>11
  <2>3. Key(u) <= Key(t)
    BY <1>11, <2>2 DEF Fuller
  <2>4. CASE Given(c) \in {<<>>, <<<<c, 1>>>>}
    <3>1. Given(c) = <<>> => t.args = <<>>
      BY <1>4, <2>1
    <3>2. Given(c) = <<<<c, 1>>>> => c \in Half
      BY <1>6, <1>11, <1>7, PartlyShown DEF Half
    <3> QED
      BY <1>4, <2>1, <2>4, <3>1, <3>2
  <2>5. CASE Given(c) = Arguments(c)
    <3>1. Len(<<>>) = 0 /\ Len(Given(c)) = 2 /\ Parses(Given(c)) /\ Parses(<<>>)
      BY <1>6, <1>11, <2>5, PartlyShown
    <3>2. Key(u) = 3
      <4>1. Len(u.args) = 2 /\ Parses(u.args)
        BY <3>1
      <4> HIDE DEF u
      <4> QED
        BY <4>1 DEF Key
    <3>3. t.args = <<>> => Key(t) = 1
      BY <3>1 DEF Key
    <3> QED
      BY <1>4, <2>1, <2>3, <3>2, <3>3
  <2> QED
    BY <1>7, <1>11, <2>4, <2>5 DEF ShownOf
<1>12. \A t \in ToSet(last) : t.id \in Calls => t.args = Given(t.id)
  BY <1>9, <1>11
<1>13. ArgsOf(last) = Spells(ToSet(Sent)) \cup {Given(c) : c \in Calls}
  <2>1. ASSUME NEW t \in ToSet(last)
        PROVE  t.args \in Spells(ToSet(Sent)) \cup {Given(c) : c \in Calls}
    <3>1. t \in ToSet(tools)
      BY <1>9 DEF Fuller
    <3> QED
      BY <1>4, <1>8, <1>10, <1>12, <3>1
  <2>2. ASSUME NEW c \in Calls
        PROVE  Given(c) \in ArgsOf(last)
    <3>1. [id |-> c, args |-> Given(c)] \in ToSet(tools)
      BY <1>4, <1>8
    <3>2. PICK t \in ToSet(tools) : t.id = c /\ Fuller(tools, t) /\ t.args \in ArgsOf(last)
      BY <1>9, <3>1
    <3> QED
      BY <1>11, <3>2
  <2>3. ASSUME NEW args \in Spells(ToSet(Sent))
        PROVE  args \in ArgsOf(last)
    <3>1. PICK f \in ToSet(Sent) : f.kind = "content" /\ f.args = args /\ args # <<>>
      BY DEF Spells
    <3>2. PICK k \in DOMAIN d.said : d.said[k] = f
      BY <3>1 DEF ToSet
    <3>3. PICK u \in ToSet(spelled) : u.id = -k /\ u.args = args
      BY <1>5, <3>1, <3>2
    <3>4. PICK t \in ToSet(tools) : t.id = u.id /\ Fuller(tools, t) /\ t.args \in ArgsOf(last)
      BY <1>8, <1>9, <3>3
    <3>5. t \in ToSet(spelled)
      BY <1>4, <1>8, <1>10, <3>3, <3>4
    <3>6. PICK j \in DOMAIN d.said : t.id = -j /\ t.args = d.said[j].args
      BY <1>5, <3>5
    <3>7. j = k
      <4>1. j \in Nat /\ k \in Nat
        BY <1>1
      <4> QED
        BY <3>3, <3>4, <3>6, <4>1
    <3> QED
      BY <3>1, <3>2, <3>4, <3>6, <3>7
  <2> QED
    BY <2>1, <2>2, <2>3 DEF ArgsOf
<1>14. {t.id : t \in {u \in ToSet(last) : ~Parses(u.args)}} = Half
  <2>1. ASSUME NEW t \in ToSet(last), ~Parses(t.args)
        PROVE  t.id \in Half
    <3>1. t.id \in Calls
      BY <1>4, <1>8, <1>9, <1>10, <2>1 DEF Fuller
    <3> QED
      BY <1>12, <2>1, <3>1 DEF Half
  <2>2. ASSUME NEW c \in Half
        PROVE  \E t \in ToSet(last) : ~Parses(t.args) /\ t.id = c
    <3>1. c \in Calls /\ ~Parses(Given(c))
      BY DEF Half
    <3>2. Given(c) = <<<<c, 1>>>>
      BY <1>6, <1>7, <3>1, PartlyShown
    <3>3. PICK t \in ToSet(last) : t.args = Given(c)
      BY <1>13, <3>1 DEF ArgsOf
    <3>4. t.id \in Calls
      BY <1>4, <1>8, <1>9, <1>10, <3>1, <3>3 DEF Fuller
    <3>5. t.args = <<<<t.id, 1>>>>
      BY <1>6, <1>7, <1>12, <3>1, <3>3, <3>4, PartlyShown
    <3>6. <<t.id, 1>> = <<c, 1>>
      <4> DEFINE x == <<t.id, 1>>
                 y == <<c, 1>>
      <4>1. <<x>> = <<y>>
        BY <3>2, <3>3, <3>5
      <4> HIDE DEF x, y
      <4>2. x = y
        BY <4>1
      <4> QED
        BY <4>2 DEF x, y
    <3> QED
      BY <3>1, <3>3, <3>6
  <2> QED
    BY <2>1, <2>2
<1> QED
  BY <1>9, <1>12, <1>13, <1>14 DEF last

-----------------------------------------------------------------------------
(* How the calls of a finished answer are written: three events each.        *)

(* n of the calls are written in t, from the place after b *)
CallsAt(t, b, n, calls) ==
    /\ \A k \in DOMAIN t : t[k].ev = "tool" => \E i \in 1 .. n : k = b + 3 * i - 2
    /\ \A i \in 1 .. n :
          /\ b + 3 * i - 2 \in DOMAIN t /\ t[b + 3 * i - 2].ev = "tool"
          /\ t[b + 3 * i - 2].x[1] = calls[i].id
          /\ b + 3 * i - 1 \in DOMAIN t /\ t[b + 3 * i - 1].x = calls[i].args
Toolless(q) == \A k \in DOMAIN q : q[k].ev # "tool"

LEMMA QuietIsToolless ==
  ASSUME NEW q, Quiet(q)
  PROVE  Toolless(q)
  BY DEF Quiet, Toolless

LEMMA CallsAfter ==
  ASSUME NEW p \in Seq(EventType), NEW q \in Seq(EventType), NEW b \in Nat, NEW n \in Nat, NEW calls,
         Toolless(p), CallsAt(q, b, n, calls)
  PROVE  p \o q \in Seq(EventType) /\ CallsAt(p \o q, Len(p) + b, n, calls)
<1> DEFINE t == p \o q
           l == Len(p)
<1>1. /\ t \in Seq(EventType) /\ l \in Nat
      /\ \A k \in DOMAIN p : k \in DOMAIN t /\ t[k] = p[k]
      /\ \A k \in DOMAIN q : l + k \in DOMAIN t /\ t[l + k] = q[k]
      /\ \A k \in DOMAIN t : \/ k \in DOMAIN p
                             \/ k - l \in DOMAIN q /\ t[k] = q[k - l]
  BY Appended
<1>2. \A k \in DOMAIN t : k \in Nat
  OBVIOUS
<1> HIDE DEF t, l
<1>3. ASSUME NEW k \in DOMAIN t, t[k].ev = "tool"
      PROVE  \E i \in 1 .. n : k = (l + b) + 3 * i - 2
  <2>1. k - l \in DOMAIN q /\ q[k - l].ev = "tool"
    BY <1>1, <1>3 DEF Toolless
  <2>2. PICK i \in 1 .. n : k - l = b + 3 * i - 2
    BY <2>1 DEF CallsAt
  <2> QED
    BY <1>1, <1>2, <2>2
<1>4. ASSUME NEW i \in 1 .. n
      PROVE  /\ (l + b) + 3 * i - 2 \in DOMAIN t /\ t[(l + b) + 3 * i - 2].ev = "tool"
             /\ t[(l + b) + 3 * i - 2].x[1] = calls[i].id
             /\ (l + b) + 3 * i - 1 \in DOMAIN t /\ t[(l + b) + 3 * i - 1].x = calls[i].args
  <2>1. /\ b + 3 * i - 2 \in DOMAIN q /\ q[b + 3 * i - 2].ev = "tool"
        /\ q[b + 3 * i - 2].x[1] = calls[i].id
        /\ b + 3 * i - 1 \in DOMAIN q /\ q[b + 3 * i - 1].x = calls[i].args
    BY DEF CallsAt
  <2>2. l + (b + 3 * i - 2) = (l + b) + 3 * i - 2 /\ l + (b + 3 * i - 1) = (l + b) + 3 * i - 1
    BY <1>1
  <2> QED
    BY <1>1, <2>1, <2>2
<1>5. CallsAt(t, l + b, n, calls)
  BY <1>3, <1>4 DEF CallsAt
<1> QED
  BY <1>1, <1>5 DEF t, l

LEMMA CallsBefore ==
  ASSUME NEW p \in Seq(EventType), NEW q \in Seq(EventType), NEW b \in Nat, NEW n \in Nat, NEW calls,
         Toolless(q), CallsAt(p, b, n, calls)
  PROVE  p \o q \in Seq(EventType) /\ CallsAt(p \o q, b, n, calls)
<1> DEFINE t == p \o q
<1>1. /\ t \in Seq(EventType)
      /\ \A k \in DOMAIN p : k \in DOMAIN t /\ t[k] = p[k]
      /\ \A k \in DOMAIN t : \/ k \in DOMAIN p
                             \/ k - Len(p) \in DOMAIN q /\ t[k] = q[k - Len(p)]
  BY Appended
<1> HIDE DEF t
<1>2. \A k \in DOMAIN t : t[k].ev = "tool" => k \in DOMAIN p /\ t[k] = p[k]
  BY <1>1 DEF Toolless
<1>3. CallsAt(t, b, n, calls)
  BY <1>1, <1>2 DEF CallsAt
<1> QED
  BY <1>1, <1>3 DEF t

LEMMA LengthOfBoth ==
  ASSUME NEW s \in Seq(EventType), NEW q \in Seq(EventType)
  PROVE  Len(s \o q) = Len(s) + Len(q)
  OBVIOUS

LEMMA NextCallAt ==
  ASSUME NEW s \in Seq(EventType), NEW n \in Nat, Len(s) = 3 * n, NEW calls \in Seq(CallType),
         CallsAt(s, 0, n, calls), NEW q \in Seq(EventType), Len(q) = 3,
         q[1].ev = "tool", q[2].ev = "input", q[3].ev = "stop",
         q[1].x[1] = calls[n + 1].id, q[2].x = calls[n + 1].args
  PROVE  s \o q \in Seq(EventType) /\ Len(s \o q) = 3 * (n + 1) /\ CallsAt(s \o q, 0, n + 1, calls)
<1> DEFINE t == s \o q
<1>1. /\ t \in Seq(EventType) /\ Len(t) = 3 * (n + 1)
      /\ \A k \in DOMAIN s : k \in DOMAIN t /\ t[k] = s[k]
      /\ \A k \in DOMAIN q : Len(s) + k \in DOMAIN t /\ t[Len(s) + k] = q[k]
      /\ \A k \in DOMAIN t : \/ k \in DOMAIN s
                             \/ k - Len(s) \in DOMAIN q /\ t[k] = q[k - Len(s)]
  <2>1. Len(t) = Len(s) + Len(q)
    BY LengthOfBoth
  <2>2. /\ t \in Seq(EventType)
        /\ \A k \in DOMAIN s : k \in DOMAIN t /\ t[k] = s[k]
        /\ \A k \in DOMAIN q : Len(s) + k \in DOMAIN t /\ t[Len(s) + k] = q[k]
        /\ \A k \in DOMAIN t : \/ k \in DOMAIN s
                               \/ k - Len(s) \in DOMAIN q /\ t[k] = q[k - Len(s)]
    BY Appended
  <2> HIDE DEF t
  <2>3. Len(t) = 3 * (n + 1)
    BY <2>1
  <2> QED
    BY <2>2, <2>3
<1>2. DOMAIN q = 1 .. 3 /\ \A k \in DOMAIN t : k \in Nat
  OBVIOUS
<1> HIDE DEF t
<1>3. ASSUME NEW k \in DOMAIN t, t[k].ev = "tool"
      PROVE  \E i \in 1 .. n + 1 : k = 0 + 3 * i - 2
  <2>1. CASE k \in DOMAIN s
    <3>1. PICK i \in 1 .. n : k = 0 + 3 * i - 2
      BY <1>1, <1>3, <2>1 DEF CallsAt
    <3>2. i \in 1 .. n + 1
      OBVIOUS
    <3> QED
      BY <3>1, <3>2
  <2>2. CASE k - Len(s) \in DOMAIN q /\ t[k] = q[k - Len(s)]
    <3>1. k - Len(s) = 1
      BY <1>2, <1>3, <2>2
    <3>3. k = 3 * n + 1
      BY <1>2, <3>1
    <3>2. k = 0 + 3 * (n + 1) - 2 /\ n + 1 \in 1 .. n + 1
      BY <3>3
    <3> QED
      BY <3>2
  <2> QED
    BY <1>1, <1>3, <2>1, <2>2
<1>4. ASSUME NEW i \in 1 .. n + 1
      PROVE  /\ 0 + 3 * i - 2 \in DOMAIN t /\ t[0 + 3 * i - 2].ev = "tool"
             /\ t[0 + 3 * i - 2].x[1] = calls[i].id
             /\ 0 + 3 * i - 1 \in DOMAIN t /\ t[0 + 3 * i - 1].x = calls[i].args
  <2>1. CASE i \in 1 .. n
    BY <1>1, <2>1 DEF CallsAt
  <2>2. CASE i = n + 1
    <3>1. 0 + 3 * i - 2 = Len(s) + 1 /\ 0 + 3 * i - 1 = Len(s) + 2 /\ 1 \in DOMAIN q /\ 2 \in DOMAIN q
      BY <1>2, <2>2
    <3>2. t[Len(s) + 1] = q[1] /\ t[Len(s) + 2] = q[2] /\ Len(s) + 1 \in DOMAIN t /\ Len(s) + 2 \in DOMAIN t
      BY <1>1, <3>1
    <3> QED
      BY <2>2, <3>1, <3>2
  <2> QED
    BY <2>1, <2>2
<1>5. CallsAt(t, 0, n + 1, calls)
  BY <1>3, <1>4 DEF CallsAt
<1> QED
  BY <1>1, <1>5 DEF t

LEMMA CallsWrittenInOrder ==
  ASSUME NEW tools \in Seq(CallType), NEW next \in Nat
  PROVE  LET Tool(i) == LET at == next + i - 1
                        IN  <<Event("tool", at, <<tools[i].id>>), Event("input", at, tools[i].args),
                              Event("stop", at, <<>>)>>
             q == FlattenSeq([i \in DOMAIN tools |-> Tool(i)])
         IN  q \in Seq(EventType) /\ CallsAt(q, 0, Len(tools), tools)
<1> DEFINE Tool(i) == LET at == next + i - 1
                      IN  <<Event("tool", at, <<tools[i].id>>), Event("input", at, tools[i].args),
                            Event("stop", at, <<>>)>>
           parts == [i \in DOMAIN tools |-> Tool(i)]
           n == Len(tools)
<1>1. DOMAIN tools = 1 .. n /\ n \in Nat
  OBVIOUS
<1>2. ASSUME NEW i \in 1 .. n
      PROVE  /\ Tool(i) \in Seq(EventType) /\ Len(Tool(i)) = 3
             /\ Tool(i)[1].ev = "tool" /\ Tool(i)[2].ev = "input" /\ Tool(i)[3].ev = "stop"
             /\ Tool(i)[1].x[1] = tools[i].id /\ Tool(i)[2].x = tools[i].args
  <2> DEFINE at == next + i - 1
             call == tools[i]
             e1 == Event("tool", at, <<call.id>>)
             e2 == Event("input", at, call.args)
             e3 == Event("stop", at, <<>>)
  <2>1. at \in Nat /\ call \in CallType
    BY <1>1
  <2>2. Tool(i) = <<e1, e2, e3>>
    OBVIOUS
  <2> HIDE DEF at, call, Tool
  <2>3. <<e1, e2, e3>> \in Seq(EventType)
    BY <2>1, CallWritten
  <2>4. e1.ev = "tool" /\ e2.ev = "input" /\ e3.ev = "stop" /\ e1.x[1] = call.id /\ e2.x = call.args
    BY DEF Event
  <2> HIDE DEF e1, e2, e3
  <2> QED
    BY <2>2, <2>3, <2>4 DEF call
<1>3. parts \in Seq(Seq(EventType)) /\ Len(parts) = n /\ \A i \in 1 .. n : parts[i] = Tool(i)
  <2> HIDE DEF Tool
  <2>1. \A i \in 1 .. n : parts[i] = Tool(i)
    BY <1>1
  <2>2. parts \in [1 .. n -> Seq(EventType)]
    BY <1>1, <1>2
  <2> HIDE DEF parts, n
  <2> QED
    BY <1>1, <2>1, <2>2
<1> HIDE DEF parts, Tool
<1>4. PICK f : Joins(parts, EventType, f)
  BY <1>3, FlattenedInOrder
<1>5. /\ f \in [0 .. n -> Seq(EventType)] /\ f[0] = <<>> /\ f[n] = FlattenSeq(parts)
      /\ \A i \in 1 .. n : f[i] = f[i - 1] \o parts[i]
  BY <1>3, <1>4 DEF Joins
<1> DEFINE T == {i \in 0 .. n : Len(f[i]) = 3 * i /\ CallsAt(f[i], 0, i, tools)}
<1> HIDE DEF n
<1>6. 0 \in T
  <2>1. Len(<<>>) = 3 * 0 /\ CallsAt(<<>>, 0, 0, tools)
    BY DEF CallsAt
  <2> QED
    BY <1>1, <1>5, <2>1
<1>7. ASSUME NEW i \in 0 .. n - 1, i \in T
      PROVE  i + 1 \in T
  <2>1. i + 1 \in 1 .. n /\ (i + 1) - 1 = i /\ i + 1 \in 0 .. n /\ i \in 0 .. n /\ i \in Nat
    BY <1>1
  <2>2. f[i + 1] = f[i] \o Tool(i + 1) /\ f[i] \in Seq(EventType)
    BY <1>3, <1>5, <2>1
  <2> DEFINE s == f[i]
             q == Tool(i + 1)
  <2>3. /\ q \in Seq(EventType) /\ Len(q) = 3
        /\ q[1].ev = "tool" /\ q[2].ev = "input" /\ q[3].ev = "stop"
        /\ q[1].x[1] = tools[i + 1].id /\ q[2].x = tools[i + 1].args
    BY <1>2, <2>1
  <2>4. s \in Seq(EventType) /\ Len(s) = 3 * i /\ CallsAt(s, 0, i, tools)
    BY <1>7, <2>2
  <2> HIDE DEF s, q, T
  <2>5. Len(s \o q) = 3 * (i + 1) /\ CallsAt(s \o q, 0, i + 1, tools)
    BY <2>1, <2>3, <2>4, NextCallAt
  <2> QED
    BY <2>1, <2>2, <2>5 DEF s, q, T
<1>8. \A i \in 0 .. n : i \in T
  <2> HIDE DEF T
  <2> QED
    BY <1>1, <1>6, <1>7, Induction
<1>9. FlattenSeq(parts) \in Seq(EventType) /\ CallsAt(FlattenSeq(parts), 0, n, tools)
  <2>1. n \in 0 .. n
    BY <1>1
  <2> QED
    BY <1>5, <1>8, <2>1
<1> QED
  BY <1>9 DEF parts, Tool, n

(* What is read from calls so written, if no two have the same arguments.    *)
LEMMA CallsRead ==
  ASSUME NEW t \in Seq(EventType), NEW b \in Nat, NEW calls \in Seq(CallType), CallsAt(t, b, Len(calls), calls),
         Distinct(calls)
  PROVE  LET made == {k \in DOMAIN t : t[k].ev = "tool"}
             arguments == {t[k + 1].x : k \in made}
         IN  /\ arguments = ArgsOf(calls) /\ Cardinality(arguments) = Cardinality(made)
             /\ \A k \in made : \E call \in ToSet(calls) : t[k].x[1] = call.id /\ t[k + 1].x = call.args
<1> DEFINE made == {k \in DOMAIN t : t[k].ev = "tool"}
           arguments == {t[k + 1].x : k \in made}
           n == Len(calls)
           g == [k \in made |-> t[k + 1].x]
<1>1. n \in Nat /\ DOMAIN calls = 1 .. n /\ DOMAIN t = 1 .. Len(t) /\ Len(t) \in Nat
  OBVIOUS
<1> HIDE DEF n
<1>2. \A k \in made : \E i \in 1 .. n : k = b + 3 * i - 2
  BY DEF CallsAt, n
<1>3. ASSUME NEW i \in 1 .. n
      PROVE  /\ b + 3 * i - 2 \in made /\ t[b + 3 * i - 2].x[1] = calls[i].id
             /\ t[(b + 3 * i - 2) + 1].x = calls[i].args
  <2>1. (b + 3 * i - 2) + 1 = b + 3 * i - 1
    BY <1>1
  <2> QED
    BY <2>1 DEF CallsAt, n
<1>4. ASSUME NEW k \in made
      PROVE  \E i \in 1 .. n : k = b + 3 * i - 2 /\ t[k].x[1] = calls[i].id /\ t[k + 1].x = calls[i].args
  BY <1>2, <1>3
<1>5. arguments = ArgsOf(calls)
  <2>1. ASSUME NEW k \in made
        PROVE  t[k + 1].x \in ArgsOf(calls)
    BY <1>1, <1>4 DEF ArgsOf, ToSet
  <2>2. ASSUME NEW i \in 1 .. n
        PROVE  calls[i].args \in arguments
    BY <1>3
  <2> HIDE DEF made
  <2> QED
    BY <1>1, <2>1, <2>2 DEF ArgsOf, ToSet
<1>6. \A k, m \in made : t[k + 1].x = t[m + 1].x => k = m
  <2> SUFFICES ASSUME NEW k \in made, NEW m \in made, t[k + 1].x = t[m + 1].x
               PROVE  k = m
    OBVIOUS
  <2>1. PICK i \in 1 .. n : k = b + 3 * i - 2 /\ t[k + 1].x = calls[i].args
    BY <1>4
  <2>2. PICK j \in 1 .. n : m = b + 3 * j - 2 /\ t[m + 1].x = calls[j].args
    BY <1>4
  <2>3. i = j
    BY <1>1, <2>1, <2>2 DEF Distinct
  <2> QED
    BY <2>1, <2>2, <2>3
<1>7. IsFiniteSet(made)
  <2>1. IsFiniteSet(1 .. Len(t))
    BY <1>1, FS_Interval
  <2>2. made \in SUBSET (1 .. Len(t))
    BY <1>1
  <2> HIDE DEF made
  <2> QED
    BY <2>1, <2>2, FS_Subset
<1> HIDE DEF made
<1>8. g \in Surjection(made, arguments) /\ g \in Injection(made, arguments)
  <2>1. g \in [made -> arguments]
    OBVIOUS
  <2>2. \A k \in made : g[k] = t[k + 1].x
    OBVIOUS
  <2>3. \A y \in arguments : \E k \in made : g[k] = y
    OBVIOUS
  <2> HIDE DEF g, arguments
  <2>4. \A k, m \in made : g[k] = g[m] => k = m
    BY <1>6, <2>2
  <2> QED
    BY <2>1, <2>3, <2>4 DEF Surjection, Injection, IsInjective
<1>9. Cardinality(arguments) = Cardinality(made)
  <2> HIDE DEF g, arguments
  <2> QED
    BY <1>7, <1>8, FS_Surjection
<1>10. \A k \in made : \E call \in ToSet(calls) : t[k].x[1] = call.id /\ t[k + 1].x = call.args
  BY <1>1, <1>4 DEF ToSet
<1> QED
  BY <1>5, <1>9, <1>10 DEF made

LEMMA FinishWritesCalls ==
  ASSUME decoder \in DecoderType, DecoderFinish(decoder)
  PROVE  /\ decoder'.tools = LastTools(decoder) /\ decoder'.out \in Seq(EventType)
         /\ \E b \in Nat : CallsAt(decoder'.out, b, Len(LastTools(decoder)), LastTools(decoder))
<1> DEFINE b == [decoder EXCEPT !.out = <<>>, !.tools = LastTools(decoder), !.current = NoTool]
           d == closeThinkingBlock(ensureStarted(b))
           Tool(i) == LET at == d.next + i - 1
                      IN  <<Event("tool", at, <<d.tools[i].id>>), Event("input", at, d.tools[i].args),
                            Event("stop", at, <<>>)>>
           text == IF d.text.open THEN <<Event("stop", d.text.at, <<>>)>> ELSE <<>>
           calls == FlattenSeq([i \in DOMAIN d.tools |-> Tool(i)])
           last == Event("message_delta", 0, <<StopReason(d)>>)
           q == d.out \o text \o calls \o <<last>>
           n == Len(LastTools(decoder))
<1>1. decoder' = [d EXCEPT !.out = q]
  BY DEF DecoderFinish
<1>2. b \in DecoderType /\ b.out = <<>> /\ b.tools = LastTools(decoder)
  <2>1. LastTools(decoder) \in Seq(CallType) /\ <<>> \in Seq(EventType)
    BY LastCalls
  <2> QED
    BY <2>1, NoCallTyped DEF DecoderType
<1> HIDE DEF b
<1>3. d \in DecoderType /\ Quiet(d.out) /\ d.tools = LastTools(decoder)
  BY <1>2, BlocksClosed
<1> HIDE DEF d
<1>4. /\ d.out \in Seq(EventType) /\ d.text \in BlockType /\ d.text.at \in Nat /\ d.next \in Nat
      /\ d.tools \in Seq(CallType) /\ n \in Nat
  BY <1>3 DEF DecoderType, BlockType
<1>5. text \in Seq(EventType) /\ Toolless(text)
  <2> DEFINE e == Event("stop", d.text.at, <<>>)
  <2>1. e \in EventType /\ e.ev = "stop"
    <3>1. <<>> \in Seq(Int)
      OBVIOUS
    <3>2. e \in EventType
      BY <1>4, <3>1, EventsTyped
    <3> QED
      BY <3>2 DEF Event
  <2>2. text \in {<<>>, <<e>>}
    OBVIOUS
  <2> HIDE DEF text, e
  <2>3. <<e>> \in Seq(EventType) /\ Toolless(<<e>>) /\ <<>> \in Seq(EventType) /\ Toolless(<<>>)
    BY <2>1 DEF Toolless
  <2> QED
    BY <2>2, <2>3
<1>6. calls \in Seq(EventType) /\ CallsAt(calls, 0, n, d.tools)
  BY <1>3, <1>4, CallsWrittenInOrder
<1>7. <<last>> \in Seq(EventType) /\ Toolless(<<last>>)
  <2>1. StopReason(d) \in StopReasons
    BY DEF StopReason, StopReasons
  <2>2. <<StopReason(d)>> \in Seq(StopReasons)
    BY <2>1
  <2>3. last \in EventType
    BY <2>2, EventsTyped
  <2>4. last.ev = "message_delta"
    BY DEF Event
  <2> HIDE DEF last
  <2> QED
    BY <2>3, <2>4 DEF Toolless
<1> HIDE DEF text, calls, last
<1> DEFINE p == d.out \o text
           m == p \o calls
<1>8. p \in Seq(EventType) /\ Len(p) \in Nat /\ Toolless(p)
  <2>1. Toolless(d.out)
    BY <1>3, QuietIsToolless
  <2>2. /\ p \in Seq(EventType)
        /\ \A k \in DOMAIN d.out : p[k] = d.out[k]
        /\ \A k \in DOMAIN p : \/ k \in DOMAIN d.out
                               \/ k - Len(d.out) \in DOMAIN text /\ p[k] = text[k - Len(d.out)]
    BY <1>4, <1>5, Appended
  <2> HIDE DEF p
  <2> QED
    BY <1>5, <2>1, <2>2 DEF Toolless
<1>9. q = m \o <<last>>
  OBVIOUS
<1> HIDE DEF p, q
<1>10. m \in Seq(EventType) /\ CallsAt(m, Len(p) + 0, n, d.tools)
  <2> HIDE DEF n
  <2> QED
    BY <1>4, <1>6, <1>8, CallsAfter
<1> HIDE DEF m
<1>11. q \in Seq(EventType) /\ CallsAt(q, Len(p) + 0, n, d.tools)
  <2>1. Len(p) + 0 \in Nat
    BY <1>8
  <2> HIDE DEF n
  <2> QED
    BY <1>4, <1>7, <1>9, <1>10, <2>1, CallsBefore
<1>12. decoder'.out = q /\ decoder'.tools = d.tools
  BY <1>1, <1>3 DEF DecoderType
<1>13. Len(p) + 0 \in Nat
  BY <1>8
<1> QED
  BY <1>3, <1>11, <1>12, <1>13

-----------------------------------------------------------------------------
(* The calls on their way from the provider to the decoder: the frames       *)
(* pending and on the net will bring the decoder to where it has the calls   *)
(* of all the frames sent.                                                   *)

CallsFlow ==
    ~Over =>
        \E r : /\ Leads(HandlingOf(decoder), adapter.pending \o net, r)
               /\ Handled(Sent, provider.repeats, r)

CallsInv == IInv /\ ContentsSpell /\ CallsFlow /\ CallsArriveWholeOrReported

LEMMA NotFinishedYet ==
  ASSUME TypeOK, Phases, phase # "done"
  PROVE  ~Finished
<1>1. emitted \in Seq(EventType) /\ \A i \in DOMAIN emitted : emitted[i].ev # "message_stop"
  BY DEF TypeOK, Phases
<1>2. emitted # <<>> => Len(emitted) \in DOMAIN emitted
  BY <1>1
<1> QED
  BY <1>1, <1>2 DEF Finished, Last

LEMMA CallsOnTheWay ==
  ASSUME CallsFlow, Sent' = Sent, provider'.repeats = provider.repeats, decoder' = decoder, net' = net,
         adapter'.pending = adapter.pending, ~Over' => ~Over
  PROVE  CallsFlow'
<1> SUFFICES ASSUME ~Over'
             PROVE  \E r : /\ Leads(HandlingOf(decoder'), adapter'.pending \o net', r)
                           /\ Handled(Sent', provider'.repeats, r)
  BY DEF CallsFlow
<1> QED
  BY DEF CallsFlow

LEMMA CallsStay ==
  ASSUME ContentsSpell, CallsArriveWholeOrReported, Sent' = Sent
  PROVE  ContentsSpell' /\ (emitted' = emitted => CallsArriveWholeOrReported')
<1>1. ContentsSpell'
  BY DEF ContentsSpell, Spells
<1>2. Calls' = Calls /\ \A c : Given(c)' = Given(c)
  BY DEF Calls, Given
<1>3. Half' = Half
  BY <1>2 DEF Half
<1>4. ASSUME emitted' = emitted
      PROVE  CallsArriveWholeOrReported'
  <2>1. Finished' = Finished /\ Reported' = Reported /\ Places("tool")' = Places("tool")
    BY <1>4 DEF Finished, Reported, Places
  <2> QED
    BY <1>2, <1>3, <1>4, <2>1 DEF CallsArriveWholeOrReported
<1> QED
  BY <1>1, <1>4

LEMMA CallsInvSays ==
  ASSUME CallsInv
  PROVE  /\ TypeOK /\ Pipeline /\ SentOK /\ EndMeansAll /\ Phases /\ Ended
         /\ IInv /\ ContentsSpell /\ CallsFlow /\ CallsArriveWholeOrReported
         /\ Sent \in Seq(FrameType) /\ net \in Seq(FrameType) /\ adapter.pending \in Seq(FrameType)
         /\ adapter.last \in Nat /\ decoder \in DecoderType /\ emitted \in Seq(EventType)
         /\ HandlingOf(decoder) \in Handlings
<1>1. /\ TypeOK /\ Pipeline /\ SentOK /\ EndMeansAll /\ Phases /\ Ended
      /\ IInv /\ ContentsSpell /\ CallsFlow /\ CallsArriveWholeOrReported
  BY DEF CallsInv, IInv
<1>2. /\ net \in Seq(FrameType) /\ adapter.pending \in Seq(FrameType)
      /\ adapter.last \in Nat /\ decoder \in DecoderType /\ emitted \in Seq(EventType)
  BY <1>1 DEF TypeOK
<1>3. Sent \in Seq(FrameType)
  BY <1>1, SentTyped
<1>4. HandlingOf(decoder) \in Handlings
  BY <1>2 DEF HandlingOf, Handlings, DecoderType
<1> QED
  BY <1>1, <1>2, <1>3, <1>4

LEMMA NotFinishedThen ==
  ASSUME TypeOK', Phases', phase' # "done"
  PROVE  ~Finished'
<1>1. emitted' \in Seq(EventType) /\ \A i \in DOMAIN emitted' : emitted'[i].ev # "message_stop"
  BY DEF TypeOK, Phases
<1>2. emitted' # <<>> => Len(emitted') \in DOMAIN emitted'
  BY <1>1
<1> QED
  BY <1>1, <1>2 DEF Finished, Last

(* A step that leaves frames and events alone.                               *)
LEMMA CallsUntouched ==
  ASSUME CallsInv, IInv', Sent' = Sent, provider'.repeats = provider.repeats, decoder' = decoder, net' = net,
         adapter'.pending = adapter.pending, ~Over' => ~Over, emitted' = emitted
  PROVE  CallsInv'
<1>1. ContentsSpell /\ CallsFlow /\ CallsArriveWholeOrReported
  BY DEF CallsInv
<1>2. CallsFlow'
  BY <1>1, CallsOnTheWay
<1>3. ContentsSpell' /\ CallsArriveWholeOrReported'
  BY <1>1, CallsStay
<1> QED
  BY <1>2, <1>3 DEF CallsInv

(* Each content the provider adds spells a call as a text can.               *)
LEMMA SendSpells ==
  ASSUME CallsInv, NEW f \in Frames, f.kind = "content", f.args # <<>>
  PROVE  \E n \in Nat : f.args = Arguments(n)
<1> DEFINE n == Len(Sent) + 1
<1>1. TypeOK /\ ContentsSpell /\ Sent \in Seq(FrameType)
  BY CallsInvSays
<1>2. n \in Nat /\ Calls \subseteq Nat
  BY <1>1, SentTyped
<1>3. \A x, y : Content(x, y).kind = "content" /\ Content(x, y).args = y
  BY DEF Content, Frame
<1>4. f \in ToSet(Sent) => \E m \in Nat : f.args = Arguments(m)
  <2>1. f \in ToSet(Sent) => f.args \in Spells(ToSet(Sent))
    BY DEF Spells
  <2> QED
    BY <1>1, <2>1 DEF ContentsSpell
<1>5. \/ f = Content(n, <<>>) \/ f = Content(n, Arguments(n)) \/ f \in ToSet(Sent)
      \/ \E c \in Calls : f = Content(n, Arguments(c))
  <2>1. \A x, part, named : /\ Start(x).kind = "tool" /\ Whole(x).kind = "tool" /\ Stop(x, named).kind = "tool"
                            /\ Input(x, part, named).kind = "tool" /\ Thinking(x).kind = "thinking"
    BY DEF Start, Whole, Stop, Input, Thinking, Frame
  <2>2. /\ Signature.kind = "signature" /\ Damaged.kind = "damaged" /\ Garbled.kind = "garbled"
        /\ Usage.kind = "usage"
    BY DEF Signature, Damaged, Garbled, Usage, Frame
  <2>3. \A i \in LastContent : Sent[i] \in ToSet(Sent)
    BY DEF LastContent, ToSet
  <2> DEFINE newest(c) == \A d \in Calls : d <= c
             more(c) == ~Stopped(c) /\ Len(Given(c)) < 2 /\ newest(c)
  <2>4. \/ f \in {Content(n, <<>>), Content(n, Arguments(n)), Thinking(n), Signature, Damaged, Garbled}
        \/ f \in {Sent[i] : i \in LastContent}
        \/ f \in {Content(n, Arguments(c)) : c \in {d \in Calls : Given(d) = Arguments(d)}}
        \/ f \in {Start(n), Whole(n)}
        \/ f \in {g \in ToSet(Sent) : g = Whole(g.n)}
        \/ f \in {Input(c, Len(Given(c)) + 1, provider.repeats) : c \in {d \in Calls : more(d)}}
        \/ f \in {Stop(c, provider.repeats) : c \in Unstopped \ Half}
        \/ f = Usage
    BY DEF Frames
  <2> QED
    BY <2>1, <2>2, <2>3, <2>4
<1> QED
  BY <1>2, <1>3, <1>4, <1>5

LEMMA OneMoreBehind ==
  ASSUME NEW p \in Seq(FrameType), NEW q \in Seq(FrameType), NEW f \in FrameType
  PROVE  p \o Append(q, f) = Append(p \o q, f)
<1> DEFINE s == p \o Append(q, f)
           t == Append(p \o q, f)
<1>1. s \in Seq(FrameType) /\ t \in Seq(FrameType)
  OBVIOUS
<1>2. Len(s) = Len(t)
  OBVIOUS
<1>3. \A i \in 1 .. Len(s) : s[i] = t[i]
  OBVIOUS
<1> HIDE DEF s, t
<1>4. s = t
  BY <1>1, <1>2, <1>3
<1> QED
  BY <1>4 DEF s, t

LEMMA OneLessInFront ==
  ASSUME NEW p \in Seq(FrameType), NEW q \in Seq(FrameType), p # <<>>
  PROVE  /\ p \o q \in Seq(FrameType) /\ p \o q # <<>> /\ Head(p \o q) = Head(p)
         /\ Tail(p \o q) = Tail(p) \o q
<1> DEFINE s == Tail(p \o q)
           t == Tail(p) \o q
<1>1. p \o q \in Seq(FrameType) /\ p \o q # <<>> /\ Head(p \o q) = Head(p)
  OBVIOUS
<1>2. s \in Seq(FrameType) /\ t \in Seq(FrameType)
  BY <1>1
<1>3. Len(s) = Len(t)
  OBVIOUS
<1>4. \A i \in 1 .. Len(s) : s[i] = t[i]
  OBVIOUS
<1> HIDE DEF s, t
<1>5. s = t
  BY <1>2, <1>3, <1>4
<1> QED
  BY <1>1, <1>5 DEF s, t

LEMMA SendKeepsCalls ==
  ASSUME CallsInv, NEW f \in Frames, Send(f)
  PROVE  CallsInv'
<1> DEFINE w == OnTheWire(f)
           frames == adapter.pending \o net
<1>1. /\ IInv /\ TypeOK /\ SentOK /\ Ended /\ ContentsSpell /\ CallsFlow
      /\ Sent \in Seq(FrameType) /\ net \in Seq(FrameType) /\ adapter.pending \in Seq(FrameType)
      /\ HandlingOf(decoder) \in Handlings
  BY CallsInvSays
<1>2. IInv'
  BY <1>1, SendKeeps
<1>3. f \in FrameType /\ w \in FrameType
  BY <1>1, FramesFollow, OnTheWireType DEF Follows
<1>4. /\ provider' = [provider EXCEPT !.sent = Append(Sent, f)] /\ net' = Append(net, w)
      /\ adapter' = adapter /\ decoder' = decoder /\ phase' = phase /\ emitted' = emitted
      /\ provider.end = "open"
  BY DEF Send, More, Sent
<1>5. Sent' = Append(Sent, f) /\ provider'.repeats = provider.repeats
  BY <1>1, <1>4 DEF TypeOK, Sent
<1>6. ContentsSpell'
  <2>1. ToSet(Sent') = ToSet(Sent) \cup {f}
    BY <1>1, <1>3, <1>5, SentGrows
  <2>2. \A args \in Spells(ToSet(Sent')) :
           args \in Spells(ToSet(Sent)) \/ (f.kind = "content" /\ args = f.args /\ f.args # <<>>)
    BY <2>1 DEF Spells
  <2>3. \A args \in Spells(ToSet(Sent)) : \E n \in Nat : args = Arguments(n)
    BY <1>1 DEF ContentsSpell
  <2>4. f.kind = "content" /\ f.args # <<>> => \E n \in Nat : f.args = Arguments(n)
    BY SendSpells
  <2>5. \A args \in Spells(ToSet(Sent')) : \E n \in Nat : args = Arguments(n)
    BY <2>2, <2>3, <2>4
  <2> QED
    BY <2>5 DEF ContentsSpell
<1>7. CallsFlow'
  <2>1. SUFFICES ASSUME ~Over'
                 PROVE  \E r : /\ Leads(HandlingOf(decoder'), adapter'.pending \o net', r)
                               /\ Handled(Sent', provider'.repeats, r)
    BY DEF CallsFlow
  <2>2. PICK r : Leads(HandlingOf(decoder), frames, r) /\ Handled(Sent, provider.repeats, r)
    BY <1>1, <1>4, <2>1 DEF CallsFlow, Over
  <2>3. frames \in Seq(FrameType) /\ adapter'.pending \o net' = Append(frames, w)
    <3> HIDE DEF w
    <3>1. frames \in Seq(FrameType)
      BY <1>1
    <3>2. adapter.pending \o Append(net, w) = Append(frames, w)
      BY <1>1, <1>3, OneMoreBehind
    <3> QED
      BY <1>4, <3>1, <3>2
  <2> HIDE DEF frames, w
  <2>4. Leads(HandlingOf(decoder), Append(frames, w), Turned(r, w)) /\ r \in Handlings
    BY <1>1, <1>3, <2>2, <2>3, LeadsOn
  <2>5. Handled(Append(Sent, f), provider.repeats, Turned(r, OnTheWire(f)))
    BY <1>1, <1>3, <2>2, <2>4, HandledSend
  <2> QED
    BY <1>4, <1>5, <2>3, <2>4, <2>5 DEF w
<1>8. CallsArriveWholeOrReported'
  <2>1. ~Finished
    BY <1>1, <1>4 DEF Ended
  <2>2. Finished' <=> Finished
    BY <1>4 DEF Finished
  <2> QED
    BY <2>1, <2>2 DEF CallsArriveWholeOrReported
<1> QED
  BY <1>2, <1>6, <1>7, <1>8 DEF CallsInv

LEMMA ReadKeepsCalls ==
  ASSUME CallsInv, BytesKept, Read
  PROVE  CallsInv'
<1> DEFINE fed == feed(adapter.last, net)
           h == HandlingOf(decoder)
<1>1. /\ IInv /\ TypeOK /\ ContentsSpell /\ CallsFlow /\ CallsArriveWholeOrReported
      /\ net \in Seq(FrameType) /\ adapter.last \in Nat /\ h \in Handlings
  BY CallsInvSays
<1>2. IInv'
  BY <1>1, ReadKeeps
<1>3. /\ provider' = provider /\ net' = <<>> /\ decoder' = decoder /\ phase' = phase /\ emitted' = emitted
      /\ adapter.pending = <<>> /\ adapter'.pending = fed.out /\ Sent' = Sent
  <2>1. Complete(adapter.buf, net) = net
    BY <1>1, ReadIsWhole
  <2> QED
    BY <2>1 DEF Read, Reading, Sent
<1>4. ContentsSpell' /\ CallsArriveWholeOrReported'
  BY <1>1, <1>3, CallsStay
<1>5. CallsFlow'
  <2>1. SUFFICES ASSUME ~Over'
                 PROVE  \E r : /\ Leads(HandlingOf(decoder'), adapter'.pending \o net', r)
                               /\ Handled(Sent', provider'.repeats, r)
    BY DEF CallsFlow
  <2>2. PICK r : Leads(h, adapter.pending \o net, r) /\ Handled(Sent, provider.repeats, r)
    BY <1>1, <1>3, <2>1 DEF CallsFlow, Over
  <2>3. adapter.pending \o net = net
    BY <1>1, <1>3
  <2>4. Leads(h, fed.out, r) /\ fed \in Parsers
    <3> HIDE DEF h
    <3>1. Leads(h, net, r)
      BY <2>2, <2>3
    <3> QED
      BY <1>1, <3>1, FeedLeads
  <2> HIDE DEF fed
  <2>5. fed.out \in Seq(FrameType)
    BY <2>4 DEF Parsers
  <2>6. adapter'.pending \o net' = fed.out
    BY <1>3, <2>5
  <2>7. Handled(Sent', provider'.repeats, r)
    BY <1>3, <2>2
  <2> QED
    BY <1>3, <2>4, <2>6, <2>7
<1> QED
  BY <1>2, <1>4, <1>5 DEF CallsInv

(* The decoder takes the next frame pending, or drops a damaged one.         *)
LEMMA NextFrameTaken ==
  ASSUME CallsInv, ~Over, adapter.pending # <<>>, adapter' = [adapter EXCEPT !.pending = Tail(@)],
         provider' = provider, net' = net,
         \/ Head(adapter.pending) = Damaged /\ decoder' = decoder
         \/ decoder' = DecoderFeed(decoder, Head(adapter.pending))
  PROVE  CallsFlow'
<1> DEFINE fs == adapter.pending
           frames == fs \o net
           h == HandlingOf(decoder)
<1>1. /\ TypeOK /\ CallsFlow /\ net \in Seq(FrameType) /\ fs \in Seq(FrameType) /\ decoder \in DecoderType
      /\ h \in Handlings
  BY CallsInvSays
<1>2. PICK r : Leads(h, frames, r) /\ Handled(Sent, provider.repeats, r)
  BY <1>1 DEF CallsFlow
<1>3. /\ frames \in Seq(FrameType) /\ frames # <<>> /\ Head(frames) = Head(fs)
      /\ Tail(frames) = Tail(fs) \o net
  <2> HIDE DEF fs
  <2> QED
    BY <1>1, OneLessInFront DEF fs
<1>4. Head(fs) \in FrameType
  BY <1>1, HeadAndTail
<1>5. adapter'.pending = Tail(fs)
  BY <1>1 DEF TypeOK
<1> HIDE DEF frames, fs
<1>6. HandlingOf(decoder') = Turned(h, Head(fs))
  <2>1. CASE Head(fs) = Damaged /\ decoder' = decoder
    <3>1. Damaged.kind # "tool"
      BY DEF Damaged, Frame
    <3> QED
      BY <2>1, <3>1 DEF Turned
  <2>2. CASE decoder' = DecoderFeed(decoder, Head(fs))
    BY <1>1, <1>4, <2>2, FeedHandles
  <2> QED
    BY <2>1, <2>2 DEF fs
<1>7. Leads(Turned(h, Head(frames)), Tail(frames), r)
  <2> HIDE DEF h
  <2> QED
    BY <1>1, <1>2, <1>3, LeadsFromNext
<1>8. Leads(HandlingOf(decoder'), adapter'.pending \o net', r)
  BY <1>3, <1>5, <1>6, <1>7
<1>9. Handled(Sent', provider'.repeats, r)
  <2>1. Sent' = Sent
    BY DEF Sent
  <2> QED
    BY <1>2, <2>1
<1> QED
  BY <1>8, <1>9 DEF CallsFlow

LEMMA ReadFirstKeepsCalls ==
  ASSUME CallsInv, ReadFirst
  PROVE  CallsInv'
<1>1. IInv /\ TypeOK /\ ContentsSpell /\ CallsFlow /\ CallsArriveWholeOrReported
  BY CallsInvSays
<1>2. IInv'
  BY <1>1, ReadFirstKeeps
<1>3. provider' = provider /\ net' = net /\ phase' = phase /\ emitted' = emitted /\ Sent' = Sent
      /\ (Over' <=> Over)
  BY DEF ReadFirst, Sent, Over
<1>4. ContentsSpell' /\ CallsArriveWholeOrReported'
  BY <1>1, <1>3, CallsStay
<1>5. CallsFlow'
  <2>1. CASE Over
    BY <1>3, <2>1 DEF CallsFlow
  <2>2. CASE ~Over /\ adapter.pending # <<>>
    <3>1. /\ adapter' = [adapter EXCEPT !.pending = Tail(@)]
          /\ \/ Head(adapter.pending) = Damaged /\ decoder' = decoder
             \/ decoder' = DecoderFeed(decoder, Head(adapter.pending))
      BY <2>2 DEF ReadFirst
    <3> QED
      BY <1>3, <2>2, <3>1, NextFrameTaken
  <2>3. CASE adapter.pending = <<>>
    <3>1. adapter' = adapter /\ decoder' = decoder
      BY <2>3 DEF ReadFirst
    <3> QED
      BY <1>1, <1>3, <3>1, CallsOnTheWay
  <2> QED
    BY <2>1, <2>2, <2>3
<1> QED
  BY <1>2, <1>4, <1>5 DEF CallsInv

LEMMA TakeFirstKeepsCalls ==
  ASSUME CallsInv, TakeFirst
  PROVE  CallsInv'
<1>1. IInv /\ TypeOK /\ ContentsSpell /\ CallsFlow /\ CallsArriveWholeOrReported
  BY CallsInvSays
<1>2. IInv' /\ TypeOK' /\ Phases'
  <2>1. IInv'
    BY <1>1, TakeFirstKeeps
  <2> QED
    BY <2>1 DEF IInv
<1>3. /\ provider' = provider /\ net' = net /\ adapter' = adapter /\ decoder' = decoder /\ phase = "first"
      /\ Sent' = Sent
  BY DEF TakeFirst, Sent
<1>4. CallsFlow'
  BY <1>1, <1>3, CallsOnTheWay DEF Over
<1>5. ContentsSpell' /\ (emitted' = emitted => CallsArriveWholeOrReported')
  BY <1>1, <1>3, CallsStay
<1>6. CallsArriveWholeOrReported'
  <2>1. CASE phase' # "done"
    <3>1. ~Finished'
      BY <1>2, <2>1, NotFinishedThen
    <3> QED
      BY <3>1 DEF CallsArriveWholeOrReported
  <2>2. CASE phase' = "done"
    <3>1. emitted' = emitted
      BY <2>2 DEF TakeFirst, Written
    <3> QED
      BY <1>5, <3>1
  <2> QED
    BY <2>1, <2>2
<1> QED
  BY <1>2, <1>4, <1>5, <1>6 DEF CallsInv

(* An answer that ends with an error is not a finished one.                  *)
LEMMA ErrorIsNoFinish ==
  ASSUME emitted \in Seq(EventType), emitted' = emitted \o EvError
  PROVE  CallsArriveWholeOrReported'
<1> DEFINE e == Event("error", 0, <<>>)
           t == emitted \o Append(<<>>, e)
<1>1. e \in EventType /\ e.ev = "error" /\ emitted' = t
  BY ErrorIsTyped
<1>2. Last(t) = e
  <2> DEFINE q == <<>>
  <2>1. q \in Seq(EventType) /\ Closing(q)
    BY NothingIsQuiet
  <2> HIDE DEF e, q
  <2>2. Last(emitted \o Append(q, e)) = e
    BY <1>1, <2>1, LastWritten
  <2> QED
    BY <2>2 DEF q
<1> HIDE DEF t, e
<1>3. ~Finished'
  BY <1>1, <1>2 DEF Finished
<1> QED
  BY <1>3 DEF CallsArriveWholeOrReported

LEMMA ContinueKeepsCalls ==
  ASSUME CallsInv, Continue
  PROVE  CallsInv'
<1>1. /\ IInv /\ TypeOK /\ ContentsSpell /\ CallsFlow /\ CallsArriveWholeOrReported
      /\ emitted \in Seq(EventType)
  BY CallsInvSays
<1>2. IInv' /\ TypeOK' /\ Phases'
  <2>1. IInv'
    BY <1>1, ContinueKeeps
  <2> QED
    BY <2>1 DEF IInv
<1>3. /\ phase = "streaming" /\ adapter.pending # <<>> /\ adapter' = [adapter EXCEPT !.pending = Tail(@)]
      /\ provider' = provider /\ net' = net /\ Sent' = Sent
  BY DEF Continue, Done, Sent
<1>4. \/ Head(adapter.pending) = Damaged /\ decoder' = decoder
      \/ decoder' = DecoderFeed(decoder, Head(adapter.pending))
  BY DEF Continue
<1>5. CallsFlow'
  BY <1>3, <1>4, NextFrameTaken DEF Over
<1>6. ContentsSpell' /\ (emitted' = emitted => CallsArriveWholeOrReported')
  BY <1>1, <1>3, CallsStay
<1>7. CallsArriveWholeOrReported'
  <2>1. CASE phase' # "done"
    <3>1. ~Finished'
      BY <1>2, <2>1, NotFinishedThen
    <3> QED
      BY <3>1 DEF CallsArriveWholeOrReported
  <2>2. CASE phase' = "done"
    <3>1. emitted' \in {Written(EvError), Written(<<>>)}
      BY <1>3, <2>2 DEF Continue, Done
    <3>2. Written(<<>>) = emitted
      BY <1>1 DEF Written
    <3>3. Written(EvError) \in {emitted, emitted \o EvError}
      BY DEF Written
    <3>4. emitted' = emitted \/ emitted' = emitted \o EvError
      BY <3>1, <3>2, <3>3
    <3> QED
      BY <1>1, <1>6, <3>4, ErrorIsNoFinish
  <2> QED
    BY <2>1, <2>2
<1> QED
  BY <1>2, <1>5, <1>6, <1>7 DEF CallsInv

(* What is there of the arguments of a call that was cut names the call.     *)
LEMMA HalfGiven ==
  ASSUME TypeOK, NEW h, Handled(Sent, provider.repeats, h), NEW call \in Calls, ~Parses(Given(call))
  PROVE  Given(call)[1][1] = call
<1>1. call \in Nat
  BY SentTyped
<1>2. Given(call) \in ShownOf(call)
  BY SentSays DEF Handled, Known
<1>3. Given(call) = <<<<call, 1>>>>
  BY <1>1, <1>2, PartlyShown
<1> QED
  BY <1>3

(* The decoder is finished when it has had everything sent.                  *)
LEMMA FinishKeepsCalls ==
  ASSUME CallsInv, phase = "streaming", adapter.pending = <<>>, adapter.end = "eof", present,
         DecoderFinish(decoder), decoder' \in DecoderType, provider' = provider,
         emitted' = emitted \o Append(decoder'.out, Report(decoder'))
  PROVE  CallsArriveWholeOrReported'
<1> DEFINE q == decoder'.out
           e == Report(decoder')
           calls == LastTools(decoder)
           n == Len(calls)
           t == emitted \o Append(q, e)
           half == {u.id : u \in {v \in ToSet(calls) : ~Parses(v.args)}}
<1>1. /\ IInv /\ TypeOK /\ Pipeline /\ EndMeansAll /\ Phases /\ ContentsSpell /\ CallsFlow
      /\ decoder \in DecoderType /\ emitted \in Seq(EventType) /\ HandlingOf(decoder) \in Handlings
      /\ Sent \in Seq(FrameType)
  BY CallsInvSays
<1>2. net = <<>> /\ Sent' = Sent
  BY <1>1 DEF EndMeansAll, Sent
<1>3. Handled(Sent, provider.repeats, HandlingOf(decoder))
  <2>1. PICK r : Leads(HandlingOf(decoder), <<>> \o <<>>, r) /\ Handled(Sent, provider.repeats, r)
    BY <1>1, <1>2 DEF CallsFlow, Over
  <2>2. <<>> \o <<>> = <<>>
    OBVIOUS
  <2>3. r = HandlingOf(decoder)
    BY <1>1, <2>1, <2>2, NothingLeads
  <2> QED
    BY <2>1, <2>3
<1>4. ToSet(decoder.said) = {f \in ToSet(Sent) : f.kind = "content"}
  <2>1. PICK F \in SUBSET TakenFrames : Piped(emitted, F, <<>>)
    BY <1>1 DEF Pipeline, Going, Events
  <2>2. ToSet(<<>>) = {}
    BY DEF ToSet
  <2>3. TakenFrames = F /\ ToSet(decoder.said) = {f \in F : f.kind = "content"}
    BY <2>1, <2>2 DEF Piped, Upto, Knows
  <2>4. \A f \in TakenFrames : f.kind = "content" => f \in ToSet(Sent)
    BY <1>1, <1>2, EverythingTaken DEF ToSet
  <2>5. \A f \in ToSet(Sent) : f.kind = "content" => f \in TakenFrames
    BY <1>1, <1>2, EverythingTaken DEF ToSet
  <2> QED
    BY <2>3, <2>4, <2>5
<1>5. /\ calls \in Seq(CallType) /\ Distinct(calls)
      /\ ArgsOf(calls) = Spells(ToSet(Sent)) \cup {Given(c) : c \in Calls}
      /\ \A u \in ToSet(calls) : u.id \in Calls => u.args = Given(u.id)
      /\ half = Half
  BY <1>1, <1>3, <1>4, CallsInTheEnd
<1>6. decoder'.tools = calls /\ q \in Seq(EventType) /\ \E b \in Nat : CallsAt(q, b, n, calls)
  BY <1>1, FinishWritesCalls
<1>7. /\ e \in EventType /\ e.ev = "message_stop" /\ e.x.calls = half \ LooksClosed
  <2>1. \A d \in DecoderType : Report(d) \in EventType /\ Report(d).ev = "message_stop"
    BY ReportIsTyped
  <2>2. Report(decoder').x.calls = TruncatedTools(decoder')
    BY DEF Report, Event
  <2>3. \A v \in ToSet(calls) : ~Parses(v.args) => v.args[1][1] = v.id
    <3> SUFFICES ASSUME NEW v \in ToSet(calls), ~Parses(v.args)
                 PROVE  v.args[1][1] = v.id
      OBVIOUS
    <3>1. v.id \in half
      OBVIOUS
    <3>2. v.id \in Calls
      BY <1>5, <3>1 DEF Half
    <3>3. v.args = Given(v.id)
      BY <1>5, <3>2
    <3> QED
      BY <1>1, <1>3, <3>2, <3>3, HalfGiven
  <2>4. TruncatedTools(decoder') = {u.id : u \in {v \in ToSet(calls) : LooksTruncated(v.args)}}
    BY <1>6 DEF TruncatedTools
  <2> HIDE DEF calls
  <2>5. TruncatedTools(decoder') = half \ LooksClosed
    BY <2>3, <2>4 DEF LooksTruncated
  <2> QED
    BY <1>6, <2>1, <2>2, <2>5
<1> HIDE DEF q, e, calls, half
<1>8. n \in Nat
  BY <1>5
<1> HIDE DEF n
<1>9. PICK b \in Nat : CallsAt(q, b, n, calls)
  BY <1>6
<1>10. Append(q, e) \in Seq(EventType) /\ CallsAt(Append(q, e), b, n, calls)
  <2>1. <<e>> \in Seq(EventType) /\ Toolless(<<e>>)
    BY <1>7 DEF Toolless
  <2>2. q \o <<e>> \in Seq(EventType) /\ CallsAt(q \o <<e>>, b, n, calls)
    BY <1>6, <1>8, <1>9, <2>1, CallsBefore
  <2>3. q \o <<e>> = Append(q, e)
    BY <1>6, <1>7
  <2> QED
    BY <2>2, <2>3
<1>11. t \in Seq(EventType) /\ CallsAt(t, Len(emitted) + b, n, calls) /\ Len(emitted) + b \in Nat
  <2> DEFINE z == Append(q, e)
  <2>1. Toolless(emitted)
    BY <1>1 DEF Phases, Toolless
  <2> HIDE DEF z
  <2>2. z \in Seq(EventType) /\ CallsAt(z, b, n, calls)
    BY <1>10 DEF z
  <2>3. emitted \o z \in Seq(EventType) /\ CallsAt(emitted \o z, Len(emitted) + b, n, calls)
    BY <1>1, <1>8, <2>1, <2>2, CallsAfter
  <2>4. Len(emitted) + b \in Nat
    BY <1>1
  <2> QED
    BY <2>3, <2>4 DEF z
<1>12. Last(t) = e
  <2>1. Append(q, e) \in Seq(EventType) /\ Len(Append(q, e)) = Len(q) + 1 /\ Append(q, e)[Len(q) + 1] = e
        /\ Len(q) \in Nat
    BY <1>6, <1>7
  <2> DEFINE z == Append(q, e)
  <2>2. z \in Seq(EventType) /\ z # <<>> /\ z[Len(z)] = e
    BY <2>1
  <2> HIDE DEF z
  <2>3. Len(emitted \o z) = Len(emitted) + Len(z) /\ (emitted \o z)[Len(emitted) + Len(z)] = z[Len(z)]
    BY <1>1, <2>2
  <2> QED
    BY <2>2, <2>3 DEF Last, z
<1> HIDE DEF t
<1> DEFINE made == {k \in DOMAIN t : t[k].ev = "tool"}
           arguments == {t[k + 1].x : k \in made}
<1>13. /\ arguments = ArgsOf(calls) /\ Cardinality(arguments) = Cardinality(made)
       /\ \A k \in made : \E call \in ToSet(calls) : t[k].x[1] = call.id /\ t[k + 1].x = call.args
  <2>1. CallsAt(t, Len(emitted) + b, Len(calls), calls)
    BY <1>11 DEF n
  <2> QED
    BY <1>5, <1>11, <2>1, CallsRead
<1>14. emitted' = t
  BY DEF t, q, e
<1>15. Calls' = Calls /\ (\A c : Given(c)' = Given(c)) /\ Half' = Half
  <2>1. Calls' = Calls /\ \A c : Given(c)' = Given(c)
    BY <1>2 DEF Calls, Given
  <2> QED
    BY <2>1 DEF Half
<1>16. {k \in Places("tool")' : TRUE} = made
  BY <1>14 DEF Places
<1>17. Reported'.calls = Half \ LooksClosed
  BY <1>5, <1>7, <1>12, <1>14 DEF Reported
<1> HIDE DEF made
<1>18. {emitted'[k + 1].x : k \in {i \in Places("tool")' : TRUE}} = arguments
  BY <1>14, <1>16
<1>19. \A k \in made : t[k].x[1] \in Calls => t[k + 1].x = Given(t[k].x[1])
  BY <1>5, <1>13
<1> HIDE DEF arguments
<1>20. arguments = ({f.args : f \in {g \in ToSet(Sent') : g.kind = "content"}} \ {<<>>})
                  \cup {Given(c) : c \in Calls}
  BY <1>2, <1>5, <1>13 DEF Spells
<1>21. {Given(c)' : c \in Calls'} = {Given(c) : c \in Calls}
  BY <1>15
<1> QED
  BY <1>13, <1>14, <1>15, <1>16, <1>17, <1>18, <1>19, <1>20, <1>21 DEF CallsArriveWholeOrReported

LEMMA StreamEndsKeepsCalls ==
  ASSUME CallsInv, StreamEnds
  PROVE  CallsInv'
<1>1. /\ IInv /\ TypeOK /\ ContentsSpell /\ CallsFlow /\ CallsArriveWholeOrReported
      /\ emitted \in Seq(EventType)
  BY CallsInvSays
<1>2. IInv' /\ decoder' \in DecoderType
  <2>1. IInv'
    BY <1>1, StreamEndsKeeps
  <2> QED
    BY <2>1 DEF IInv, TypeOK
<1>3. /\ phase = "streaming" /\ adapter.pending = <<>> /\ adapter.end \in {"eof", "error"}
      /\ provider' = provider /\ phase' = "done" /\ Sent' = Sent
  BY <1>1 DEF StreamEnds, Done, Sent, TypeOK
<1>4. ContentsSpell' /\ (emitted' = emitted => CallsArriveWholeOrReported')
  BY <1>1, <1>3, CallsStay
<1>5. CallsFlow'
  BY <1>3 DEF CallsFlow, Over
<1>6. CallsArriveWholeOrReported'
  <2>1. CASE ~present
    <3>1. emitted' = emitted
      BY <2>1 DEF StreamEnds, Done, Written
    <3> QED
      BY <1>4, <3>1
  <2>2. CASE present /\ adapter.end = "error"
    <3>1. emitted' = emitted \o EvError
      BY <2>2 DEF StreamEnds, Done, Written
    <3> QED
      BY <1>1, <3>1, ErrorIsNoFinish
  <2>3. CASE present /\ adapter.end = "eof"
    <3>1. DecoderFinish(decoder) /\ emitted' = emitted \o Append(decoder'.out, Report(decoder'))
      BY <2>3 DEF StreamEnds, Done, Written
    <3> QED
      BY <1>2, <1>3, <2>3, <3>1, FinishKeepsCalls
  <2> QED
    BY <1>1, <1>3, <2>1, <2>2, <2>3 DEF TypeOK
<1> QED
  BY <1>2, <1>4, <1>5, <1>6 DEF CallsInv

LEMMA StartsWithoutCalls == Init => CallsInv
<1> SUFFICES ASSUME Init
             PROVE  CallsInv
  OBVIOUS
<1> DEFINE h == HandlingOf(decoder)
<1>1. IInv
  BY Starts
<1>2. Sent = <<>> /\ net = <<>> /\ adapter.pending = <<>> /\ decoder = NewDecoder /\ emitted = <<>>
  BY DEF Init, Sent
<1>3. ToSet(Sent) = {}
  BY <1>2 DEF ToSet
<1>4. ContentsSpell
  BY <1>3 DEF ContentsSpell, Spells
<1>5. CallsOf(Sent) = {}
  BY <1>3 DEF CallsOf
<1>6. h.current = NoTool /\ h.tools = <<>> /\ h \in Handlings
  <2>1. h.current = NoTool /\ h.tools = <<>>
    BY <1>2 DEF HandlingOf, NewDecoder
  <2>2. decoder \in DecoderType
    BY <1>1 DEF IInv, TypeOK
  <2>3. h \in Handlings
    BY <2>2 DEF HandlingOf, Handlings, DecoderType
  <2> QED
    BY <2>1, <2>3
<1> HIDE DEF h
<1>7. Handled(Sent, provider.repeats, h)
  <2>1. UnstoppedOf(Sent) = {} /\ HalfOf(Sent) = {}
    BY <1>5 DEF UnstoppedOf, HalfOf
  <2>2. Known(Sent)
    BY <1>3, <1>5 DEF Known
  <2>3. InProgress(Sent, provider.repeats, h.current)
    BY <1>6, <2>1 DEF InProgress
  <2>4. ToSet(h.tools) = {}
    BY <1>6 DEF ToSet
  <2>5. Former(Sent, h.current, ToSet(h.tools))
    BY <1>5, <2>4 DEF Former
  <2> QED
    BY <2>2, <2>3, <2>5 DEF Handled
<1>8. CallsFlow
  <2>1. Leads(h, <<>>, h)
    BY <1>6, NothingLeads
  <2>2. <<>> \o <<>> = <<>>
    OBVIOUS
  <2> QED
    BY <1>2, <1>7, <2>1, <2>2 DEF CallsFlow, h
<1>9. CallsArriveWholeOrReported
  BY <1>2 DEF CallsArriveWholeOrReported, Finished
<1> QED
  BY <1>1, <1>4, <1>8, <1>9 DEF CallsInv

LEMMA StepKeepsCalls ==
  ASSUME CallsInv, BytesKept, [Next]_vars
  PROVE  CallsInv'
<1>1. IInv'
  <2>1. IInv
    BY DEF CallsInv
  <2> QED
    BY <2>1, StepKeeps
<1>2. CASE Refuse
  BY <1>1, <1>2, CallsUntouched DEF Refuse, Sent, Over
<1>3. CASE Accepted
  BY <1>1, <1>3, CallsUntouched DEF Accepted, Sent, Over
<1>4. CASE TakeFirst
  BY <1>4, TakeFirstKeepsCalls
<1>5. CASE FirstTimeout
  BY <1>1, <1>5, CallsUntouched DEF FirstTimeout, Sent, Over
<1>6. CASE Continue
  BY <1>6, ContinueKeepsCalls
<1>7. CASE StreamEnds
  BY <1>7, StreamEndsKeepsCalls
<1>8. CASE ReadFirst
  BY <1>8, ReadFirstKeepsCalls
<1>9. CASE ReadClosed
  <2>1. adapter'.pending = adapter.pending
    BY <1>9, CallsInvSays DEF ReadClosed, TypeOK
  <2> QED
    BY <1>1, <1>9, <2>1, CallsUntouched DEF ReadClosed, Sent, Over
<1>10. CASE Read
  BY <1>10, ReadKeepsCalls
<1>11. CASE ReadTimeout
  BY <1>1, <1>11, CallsUntouched DEF ReadTimeout, Sent, Over
<1>12. CASE CallerLeaves
  BY <1>1, <1>12, CallsUntouched DEF CallerLeaves, Sent, Over
<1>13. ASSUME NEW f \in Frames, Send(f)
       PROVE  CallsInv'
  BY <1>13, SendKeepsCalls
<1>14. ASSUME NEW how \in {"closed", "broken"}, End(how)
       PROVE  CallsInv'
  <2>1. Sent' = Sent /\ provider'.repeats = provider.repeats
    BY <1>14, CallsInvSays DEF End, Sent, TypeOK
  <2> QED
    BY <1>1, <1>14, <2>1, CallsUntouched DEF End, Over
<1>15. CASE UNCHANGED vars
  BY <1>1, <1>15, CallsUntouched DEF vars, Sent, Over
<1>16. CASE Begin
  BY <1>1, <1>16, CallsUntouched DEF Begin, Sent, Over
<1> QED
  BY <1>2, <1>3, <1>4, <1>5, <1>6, <1>7, <1>8, <1>9, <1>10, <1>11, <1>12, <1>13, <1>14, <1>15, <1>16
     DEF Next, Service, Reads, Handler, ProviderSteps

(* For any number of frames, in any order the provider may send them and     *)
(* however they are cut into Reads, whether or not each repeats the name of  *)
(* its call, with ends that come late and calls said again: a finished       *)
(* answer holds every call made or spelled out once, with all the arguments  *)
(* given for it and no other's, and names, of the calls cut short, exactly   *)
(* those whose braces and quotes show it (decode.go:253, decode.go:131,      *)
(* decode.go:223).                                                           *)
THEOREM CallsAreWhole == Spec => []CallsArriveWholeOrReported
<1>1. CallsInv /\ BytesKept /\ [Next]_vars => CallsInv' /\ BytesKept'
  BY StepKeepsCalls, BytesStay, CallsInvSays
<1>2. CallsInv => CallsArriveWholeOrReported
  BY DEF CallsInv
<1> QED
  BY StartsWithoutCalls, BytesAtFirst, <1>1, <1>2, PTL DEF Spec
=============================================================================
