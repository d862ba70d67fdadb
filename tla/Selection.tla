----------------------------- MODULE Selection -----------------------------
(***************************************************************************)
(* Replay's scheduler (replay/schedule/schedule.go): Select picks a target *)
(* of a schedule group. It tries the group's row of target_cache first,    *)
(* then asks Upstream to evaluate the members, orders them by the policy   *)
(* and takes the first one Upstream resolves. Calls run concurrently in    *)
(* several replicas, which share the database and the round-robin counter  *)
(* in Redis. The result of a leased call is reported and rewrites the same *)
(* row of target_cache (relaystore ApplyReport).                           *)
(*                                                                         *)
(* Upstream is the environment: up[m] says whether Resolve would let a     *)
(* call through now, view[m] what Evaluate knows of it, which may be out   *)
(* of date (HotState says when and why).                                   *)
(***************************************************************************)
EXTENDS Integers, FiniteSets, Sequences, SequencesExt

CONSTANTS
  Members,      \* the members of the group, a sequence in their positions
  Narrow,       \* targets whose context window is too small for big requests
  Silent,       \* targets Resolve tells no window of (kiro)
  Calls, Replicas,
  ReplicaOf,    \* ReplicaOf[c]: the replica that runs call c
  Policies,     \* the policies a group may have
  Requests,     \* what a call may ask for: [tried : SUBSET Targets, big : BOOLEAN]
  RedisFails,   \* whether the shared counter may be out of reach
  MaxChanges,   \* bound: how often a target turns up or down, is looked at
                \* again, or the row of target_cache grows old
  None

Targets == ToSet(Members)

(* Why a call may end without a target.                                    *)
Reasons == {"no target", "too large", "error"}

CachePolicies == {"sticky", "failover", "preset"}
OtherPolicies == {"round_robin", "least_used"}

ASSUME SelectionAssumption ==
  /\ Members \in Seq(Targets) /\ Len(Members) > 0 /\ IsInjective(Members)
  /\ Narrow \subseteq Targets /\ Silent \subseteq Targets
  /\ ReplicaOf \in [Calls -> Replicas]
  /\ Policies \subseteq CachePolicies \cup OtherPolicies \cup {"unsupported"}
  /\ Requests \subseteq [tried : SUBSET Targets, big : BOOLEAN]
  /\ RedisFails \in BOOLEAN /\ MaxChanges \in Nat
  /\ Targets \cap Reasons = {} /\ None \notin Targets \cup Reasons

VARIABLES
  policy,       \* policy_type of the group
  cached,       \* its row of target_cache, None if there is none
  fresh,        \* the row is younger than CacheTTL
  counter,      \* Redis key rr:group
  cursor,       \* cursor[p]: the replica's own cursor
  up, view,
  pc,
  tried,        \* tried[c]: targets the call must not return
  big,          \* big[c]: the request needs a wide context window
  hit,          \* hit[c]: the target of the row the call has read
  todo,         \* todo[c]: evaluations still to be looked at, in order
  avail,        \* avail[c]: what Evaluate found available
  tooSmall,     \* tooSmall[c]: a candidate was passed over for its window
  result,       \* result[c]: the target leased, or why there is none
  steady,       \* history: targets that could have served c all along
  starts,       \* history: starts[m]: round-robin turns that began with m
  undisturbed,  \* history: no retry and no failure of Redis so far
  changes       \* bounded by MaxChanges

groupVars == <<policy, cached, fresh>>
rrVars == <<counter, cursor, starts, undisturbed>>
upVars == <<up, view, changes>>
inVars == <<tried, big>>
callVars == <<hit, todo, avail, tooSmall, result>>
vars == <<groupVars, rrVars, upVars, pc, inVars, callVars, steady>>

Init ==
  /\ policy \in Policies
  /\ cached = None /\ fresh = FALSE
  /\ counter = 0 /\ cursor = [p \in Replicas |-> 0]
  /\ up = [m \in Targets |-> TRUE] /\ view = up
  /\ changes = 0
  /\ pc = [c \in Calls |-> "idle"]
  /\ tried = [c \in Calls |-> {}] /\ big = [c \in Calls |-> FALSE]
  /\ hit = [c \in Calls |-> None]
  /\ todo = [c \in Calls |-> <<>>]
  /\ avail = [c \in Calls |-> {}]
  /\ tooSmall = [c \in Calls |-> FALSE]
  /\ result = [c \in Calls |-> None]
  /\ steady = [c \in Calls |-> {}]
  /\ starts = [m \in Targets |-> 0]
  /\ undisturbed = TRUE

Goto(c, l) == pc' = [pc EXCEPT ![c] = l]

(* SetCache, and ApplyReport: the last writer wins. *)
SetCache(m, r) == cached' = [target |-> m, result |-> r] /\ fresh' = TRUE

Fits(c, m) == big[c] => m \notin Narrow

(* Select returns. *)
End(c, r) ==
  /\ Goto(c, "done")
  /\ result' = [result EXCEPT ![c] = r]
  /\ hit' = [hit EXCEPT ![c] = None]
  /\ todo' = [todo EXCEPT ![c] = <<>>]
  /\ avail' = [avail EXCEPT ![c] = {}]
  /\ tooSmall' = [tooSmall EXCEPT ![c] = FALSE]
-----------------------------------------------------------------------------
(* The row of target_cache sends a call that avoids T to its target.       *)
(* RowUsableAnyway does not ask which targets were tried.                  *)
RowUsableAnyway(T) ==
  policy \in CachePolicies /\ fresh /\ cached # None /\ cached.result = "normal"
RowUsable(T) == RowUsableAnyway(T) /\ cached.target \notin T

(* GroupForModel: the row is read once, here. *)
Start(c, T, b) ==
  /\ pc[c] = "idle"
  /\ tried' = [tried EXCEPT ![c] = T] /\ big' = [big EXCEPT ![c] = b]
  /\ steady' = [steady EXCEPT ![c] =
       {m \in Targets \ T : up[m] /\ view[m] /\ (b => m \notin Narrow)}]
  /\ undisturbed' = (undisturbed /\ T = {})
  /\ \/ RowUsable(T) /\ hit' = [hit EXCEPT ![c] = cached.target] /\ Goto(c, "cached")
     \/ ~RowUsable(T) /\ Goto(c, "evaluate") /\ UNCHANGED hit
  /\ UNCHANGED <<groupVars, counter, cursor, starts, upVars, todo, avail, tooSmall, result>>

(* The fast path. A target too small for this request stays in the row:    *)
(* the target itself is well.                                              *)
ResolveCached(c) ==
  LET m == hit[c] IN
  /\ pc[c] = "cached"
  /\ \/ /\ up[m] /\ (Fits(c, m) \/ m \in Silent)
        /\ End(c, m)
     \/ /\ up[m] /\ ~Fits(c, m) /\ m \notin Silent
        /\ hit' = [hit EXCEPT ![c] = None]
        /\ Goto(c, "evaluate")
        /\ UNCHANGED <<todo, avail, tooSmall, result>>
     \/ /\ ~up[m]
        /\ Goto(c, "markCached")
        /\ UNCHANGED callVars
  /\ UNCHANGED <<groupVars, rrVars, upVars, inVars, steady>>

MarkCached(c) ==
  /\ pc[c] = "markCached"
  /\ SetCache(hit[c], "abnormal")
  /\ hit' = [hit EXCEPT ![c] = None]
  /\ Goto(c, "evaluate")
  /\ UNCHANGED <<policy, rrVars, upVars, inVars, todo, avail, tooSmall, result, steady>>
-----------------------------------------------------------------------------
(* The slow path. *)

(* The members not tried yet, in their positions: left are the positions,  *)
(* Nth(k) the k-th of them.                                                *)
Untried(c) ==
  LET left == {i \in DOMAIN Members : Members[i] \notin tried[c]}
      Nth(k) == CHOOSE i \in left : Cardinality({j \in left : j <= i}) = k
  IN  [k \in 1 .. Cardinality(left) |-> Members[Nth(k)]]

Evaluate(c) ==
  /\ pc[c] = "evaluate"
  /\ \/ /\ Untried(c) = <<>>
        /\ End(c, "no target")
     \/ /\ Untried(c) # <<>>
        /\ avail' = [avail EXCEPT ![c] = {m \in ToSet(Untried(c)) : view[m]}]
        /\ Goto(c, "order")
        /\ UNCHANGED <<hit, todo, tooSmall, result>>
  /\ UNCHANGED <<groupVars, rrVars, upVars, inVars, steady>>

(* append(ordered[start:], ordered[:start]...)                           *)
Rotate(s, i) == SubSeq(s, i + 1, Len(s)) \o SubSeq(s, 1, i)

(* rrCursor: the replica's own cursor under its mutex, or INCR in Redis;   *)
(* either way the list is rotated by start. An INCR without an answer may  *)
(* have been done.                                                         *)
LocalCursor(c, n, start) ==
  LET p == ReplicaOf[c] IN
  /\ start = cursor[p] % n
  /\ cursor' = [cursor EXCEPT ![p] = (start + 1) % n]
  /\ counter' \in {counter, counter + 1}
SharedCursor(c, n, start) ==
  /\ counter' = counter + 1
  /\ start = (counter' - 1) % n
  /\ UNCHANGED cursor

Order(c) ==
  LET s == Untried(c)
      n == Len(s)
  IN
  /\ pc[c] = "order"
  /\ \/ /\ policy \in CachePolicies
        /\ todo' = [todo EXCEPT ![c] = s]
        /\ UNCHANGED rrVars
     \/ /\ policy = "least_used"
        /\ \E t \in SetToSeqs(ToSet(s)) : todo' = [todo EXCEPT ![c] = t]
        /\ UNCHANGED rrVars
     \/ /\ policy = "round_robin"
        /\ \E start \in 0 .. n - 1 :
             /\ \/ SharedCursor(c, n, start) /\ UNCHANGED undisturbed
                \/ RedisFails /\ LocalCursor(c, n, start) /\ undisturbed' = FALSE
             /\ todo' = [todo EXCEPT ![c] = Rotate(s, start)]
             /\ starts' = [starts EXCEPT ![s[start + 1]] = @ + 1]
  /\ Goto(c, "candidate")
  /\ UNCHANGED <<groupVars, upVars, inVars, hit, avail, tooSmall, result, steady>>

(* A policy the administrator could save and the scheduler does not know. *)
UnknownPolicy(c) ==
  /\ pc[c] = "order" /\ policy = "unsupported"
  /\ End(c, "error")
  /\ UNCHANGED <<groupVars, rrVars, upVars, inVars, steady>>

(* The next candidate: passed over, or resolved. What an unavailable and a *)
(* narrow candidate leave behind is only the window's mark.                *)
Candidate(c) ==
  /\ pc[c] = "candidate" /\ todo[c] # <<>>
  /\ LET m == Head(todo[c]) IN
     \/ /\ m \notin avail[c] \/ ~Fits(c, m)
        /\ tooSmall' = [tooSmall EXCEPT ![c] = @ \/ m \in avail[c]]
        /\ todo' = [todo EXCEPT ![c] = Tail(@)]
        /\ UNCHANGED pc
     \/ /\ m \in avail[c] /\ Fits(c, m)
        /\ Goto(c, IF up[m] THEN "keep" ELSE "mark")
        /\ UNCHANGED <<todo, tooSmall>>
  /\ UNCHANGED <<groupVars, rrVars, upVars, inVars, hit, avail, result, steady>>

(* The target could not be resolved: try the next one. StopAtFirst is the  *)
(* loop without its continue.                                              *)
StopAtFirst(s) == <<>>
TryNext(s) == Tail(s)

MarkUnresolved(c) ==
  /\ pc[c] = "mark"
  /\ SetCache(Head(todo[c]), "abnormal")
  /\ todo' = [todo EXCEPT ![c] = TryNext(@)]
  /\ Goto(c, "candidate")
  /\ UNCHANGED <<policy, rrVars, upVars, inVars, hit, avail, tooSmall, result, steady>>

(* The target is leased, and is the one to try first from now on. *)
KeepSelected(c) ==
  /\ pc[c] = "keep"
  /\ SetCache(Head(todo[c]), "normal")
  /\ End(c, Head(todo[c]))
  /\ UNCHANGED <<policy, rrVars, upVars, inVars, steady>>

NoneLeft(c) ==
  /\ pc[c] = "candidate" /\ todo[c] = <<>>
  /\ End(c, IF tooSmall[c] THEN "too large" ELSE "no target")
  /\ UNCHANGED <<groupVars, rrVars, upVars, inVars, steady>>

(* A statement of the database fails, or Evaluate does: so does Select,    *)
(* also when a target has been resolved already.                           *)
Fails(c) ==
  /\ pc[c] \in {"markCached", "evaluate", "mark", "keep"}
  /\ End(c, "error")
  /\ UNCHANGED <<groupVars, rrVars, upVars, inVars, steady>>
-----------------------------------------------------------------------------
(* The attempt ends and its report is applied: "normal" also for a first   *)
(* failure that is retried; a context error leaves the row alone.          *)
Reported(c) ==
  /\ pc[c] = "done" /\ result[c] \in Targets
  /\ Goto(c, "reported")
  /\ \/ \E r \in {"normal", "abnormal"} : SetCache(result[c], r)
     \/ UNCHANGED <<cached, fresh>>
  /\ UNCHANGED <<policy, rrVars, upVars, inVars, callVars, steady>>

Change == changes < MaxChanges /\ changes' = changes + 1

(* CacheTTL. *)
RowAges ==
  /\ fresh /\ Change
  /\ fresh' = FALSE
  /\ UNCHANGED <<policy, cached, rrVars, up, view, pc, inVars, callVars, steady>>

(* DELETE /admin/groups/{id}/cache. *)
InvalidateCache ==
  /\ cached # None /\ Change
  /\ cached' = None /\ fresh' = FALSE
  /\ UNCHANGED <<policy, rrVars, up, view, pc, inVars, callVars, steady>>

Turns(m) ==
  /\ Change
  /\ up' = [up EXCEPT ![m] = ~@]
  /\ steady' = [c \in Calls |-> IF pc[c] \in {"done", "reported"} THEN steady[c]
                                 ELSE steady[c] \ {m}]
  /\ UNCHANGED <<groupVars, rrVars, view, pc, inVars, callVars>>

Learns(m) ==
  /\ view[m] # up[m] /\ Change
  /\ view' = [view EXCEPT ![m] = up[m]]
  /\ UNCHANGED <<groupVars, rrVars, up, pc, inVars, callVars, steady>>

Quiescent == (\A c \in Calls : pc[c] \in {"done", "reported"}) /\ UNCHANGED vars

Next ==
  \/ \E c \in Calls :
       \/ \E r \in Requests : Start(c, r.tried, r.big)
       \/ ResolveCached(c) \/ MarkCached(c) \/ Evaluate(c) \/ Order(c)
       \/ UnknownPolicy(c) \/ Candidate(c) \/ MarkUnresolved(c) \/ KeepSelected(c) \/ NoneLeft(c)
       \/ Fails(c) \/ Reported(c)
  \/ RowAges \/ InvalidateCache
  \/ \E m \in Targets : Turns(m) \/ Learns(m)
  \/ Quiescent

Spec == Init /\ [][Next]_vars
-----------------------------------------------------------------------------
(* Properties. *)

Results == Targets \cup Reasons \cup {None}

TypeOK ==
  /\ policy \in Policies
  /\ cached \in {None} \cup [target : Targets, result : {"normal", "abnormal"}]
  /\ fresh \in BOOLEAN /\ undisturbed \in BOOLEAN
  /\ changes \in 0 .. MaxChanges
  /\ counter \in Nat /\ cursor \in [Replicas -> 0 .. Len(Members) - 1]
  /\ starts \in [Targets -> Nat]
  /\ up \in [Targets -> BOOLEAN] /\ view \in [Targets -> BOOLEAN]
  /\ pc \in [Calls -> {"idle", "cached", "markCached", "evaluate", "order", "candidate",
                       "mark", "keep", "done", "reported"}]
  /\ tried \in [Calls -> SUBSET Targets] /\ big \in [Calls -> BOOLEAN]
  /\ hit \in [Calls -> Targets \cup {None}]
  /\ todo \in [Calls -> Seq(Targets)] /\ \A c \in Calls : IsInjective(todo[c])
  /\ avail \in [Calls -> SUBSET Targets] /\ tooSmall \in [Calls -> BOOLEAN]
  /\ result \in [Calls -> Results]
  /\ steady \in [Calls -> SUBSET Targets]

(* Select does not give up while a member could have served the request    *)
(* all the time it ran: not because another member failed to resolve, nor  *)
(* because the row of target_cache was rewritten by others meanwhile, nor  *)
(* because a target that is too small was in the row.                      *)
GivesUpOnlyIfNobodyCould ==
  \A c \in Calls : result[c] \in {"no target", "too large"} => steady[c] = {}

(* A call that was told which targets to avoid leases none of them, though *)
(* the row of target_cache changes under it. *)
NeverATriedTarget ==
  \A c \in Calls : result[c] \in Targets => result[c] \notin tried[c]

(* Round robin is global: over all replicas the turns of any two members   *)
(* differ by one at most, as long as Redis answers and nobody retries.     *)
TurnsAreEven ==
  undisturbed => \A a, b \in Targets : starts[a] - starts[b] <= 1
=============================================================================
