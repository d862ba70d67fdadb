-------------------------- MODULE SelectionProofs --------------------------
(***************************************************************************)
(* Proofs about Selection, for any group of members, any number of calls   *)
(* and replicas, whatever the members do and whether Redis answers or not. *)
(* First what the lists of candidates are made of, then one lemma for each *)
(* action.                                                                 *)
(***************************************************************************)
EXTENDS Selection, FiniteSetTheorems, SequenceTheorems, TLAPS

N == Len(Members)

Steps == {"idle", "cached", "markCached", "evaluate", "order", "candidate", "mark", "keep",
          "done", "reported"}
Looking == {"candidate", "mark", "keep"}
Ended == {"done", "reported"}

(* Nothing a call may still return has been tried.                         *)
Avoids(c) ==
  /\ hit[c] # None => hit[c] \notin tried[c]
  /\ ToSet(todo[c]) \cap tried[c] = {}
  /\ result[c] \in Targets => result[c] \notin tried[c]

(* What a call has in hand where it is.                                    *)
InHand(c) ==
  /\ pc[c] \in {"cached", "markCached"} => hit[c] # None
  /\ pc[c] \in {"mark", "keep"} => todo[c] # <<>>
  /\ pc[c] = "idle" => hit[c] = None /\ todo[c] = <<>>
  /\ pc[c] \notin Ended => result[c] = None

(* A target that could serve the call all along is not lost on the way: it *)
(* is among the members not tried, then among those found available, then  *)
(* among those still to be looked at, and it is not the one that has just  *)
(* failed to resolve.                                                      *)
SteadyServes(c) ==
  pc[c] \notin Ended =>
    \A m \in steady[c] : up[m] /\ view[m] /\ Fits(c, m) /\ m \notin tried[c]
SteadyAhead(c) ==
  /\ pc[c] \in {"order"} \cup Looking => steady[c] \subseteq avail[c]
  /\ pc[c] \in Looking => steady[c] \subseteq ToSet(todo[c])
  /\ pc[c] = "mark" => Head(todo[c]) \notin steady[c]
  /\ result[c] \in {"no target", "too large"} => steady[c] = {}

(* As long as nothing disturbs it the counter says how far the current     *)
(* round has got: the members up to there have had one turn more.          *)
EvenTurns ==
  undisturbed =>
    /\ \A c \in Calls : tried[c] = {}
    /\ \E q \in Nat : \A i \in 1 .. N :
         starts[Members[i]] = IF i <= counter % N THEN q + 1 ELSE q

(* The inductive invariant.                                                *)
IInv ==
  /\ TypeOK /\ EvenTurns
  /\ \A c \in Calls : Avoids(c) /\ InHand(c) /\ SteadyServes(c) /\ SteadyAhead(c)
-----------------------------------------------------------------------------
(* Lists of targets.                                                       *)

(* s lists S: everything in it, once.                                      *)
Lists(s, S) == s \in Seq(Targets) /\ IsInjective(s) /\ ToSet(s) = S

LEMMA MembersAreListed ==
  /\ N \in Nat \ {0} /\ DOMAIN Members = 1 .. N
  /\ \A i \in 1 .. N : Members[i] \in Targets
  /\ \A t \in Targets : \E i \in 1 .. N : Members[i] = t
  /\ \A i, j \in 1 .. N : Members[i] = Members[j] => i = j
<1>1. N \in Nat \ {0} /\ DOMAIN Members = 1 .. N
  <2>1. Members \in Seq(Targets) /\ Len(Members) > 0
    BY SelectionAssumption
  <2> QED
    BY <2>1 DEF N
<1>2. \A i, j \in 1 .. N : Members[i] = Members[j] => i = j
  BY <1>1, SelectionAssumption DEF IsInjective
<1> QED
  BY <1>1, <1>2 DEF Targets, ToSet

(* The rank of a position among those left is a bijection onto 1 .. their  *)
(* number.                                                                 *)
Upto(left, i) == {j \in left : j <= i}

LEMMA Ranks ==
  ASSUME NEW left \in SUBSET (1 .. N)
  PROVE  /\ IsFiniteSet(left) /\ Cardinality(left) \in Nat
         /\ \A i \in left : Cardinality(Upto(left, i)) \in 1 .. Cardinality(left)
         /\ \A i, j \in left :
              Cardinality(Upto(left, i)) = Cardinality(Upto(left, j)) => i = j
         /\ \A k \in 1 .. Cardinality(left) :
              \E i \in left : Cardinality(Upto(left, i)) = k
<1> DEFINE rank == [i \in left |-> Cardinality(Upto(left, i))]
           m == Cardinality(left)
<1>1. IsFiniteSet(left) /\ m \in Nat
  <2>1. IsFiniteSet(1 .. N)
    BY MembersAreListed, FS_Interval
  <2> QED
    BY <2>1, FS_Subset, FS_CardinalityType
<1>2. \A i \in left : IsFiniteSet(Upto(left, i)) /\ Cardinality(Upto(left, i)) \in 1 .. m
  <2> SUFFICES ASSUME NEW i \in left
               PROVE  IsFiniteSet(Upto(left, i)) /\ Cardinality(Upto(left, i)) \in 1 .. m
    OBVIOUS
  <2>1. Upto(left, i) \subseteq left /\ i \in Upto(left, i)
    BY MembersAreListed DEF Upto
  <2>2. IsFiniteSet(Upto(left, i)) /\ Cardinality(Upto(left, i)) <= m
    BY <1>1, <2>1, FS_Subset
  <2>3. Cardinality(Upto(left, i)) \in Nat /\ Cardinality(Upto(left, i)) # 0
    BY <2>1, <2>2, FS_CardinalityType, FS_EmptySet
  <2> QED
    BY <1>1, <2>2, <2>3
<1>3. \A i, j \in left :
        Cardinality(Upto(left, i)) = Cardinality(Upto(left, j)) => i = j
  <2>1. ASSUME NEW i \in left, NEW j \in left, i < j
        PROVE  Cardinality(Upto(left, i)) # Cardinality(Upto(left, j))
    <3>1. Upto(left, i) \subseteq Upto(left, j) /\ j \in Upto(left, j) /\ j \notin Upto(left, i)
      <4>1. i \in Nat /\ j \in Nat /\ \A k \in left : k \in Nat
        BY MembersAreListed
      <4>2. \A k \in left : k <= i => k <= j
        BY <2>1, <4>1
      <4>3. j <= j /\ ~(j <= i)
        BY <2>1, <4>1
      <4> QED
        BY <4>2, <4>3 DEF Upto
    <3> QED
      BY <1>2, <3>1, FS_Subset
  <2> QED
    BY <2>1, MembersAreListed
<1>4. rank \in Injection(left, 1 .. m)
  BY <1>2, <1>3 DEF Injection, IsInjective
<1>5. rank \in Surjection(left, 1 .. m)
  <2>1. IsFiniteSet(1 .. m) /\ Cardinality(1 .. m) = m
    BY <1>1, FS_Interval
  <2> QED
    BY <1>4, <2>1, FS_Injection
<1> QED
  BY <1>1, <1>2, <1>3, <1>5 DEF Surjection

LEMMA NothingListed == Lists(<<>>, {})
<1>1. <<>> \in Seq(Targets) /\ DOMAIN <<>> = {}
  OBVIOUS
<1> QED
  BY <1>1 DEF Lists, IsInjective, ToSet

(* The members that are evaluated are those not tried, each once; if none  *)
(* was tried they are the members in their positions.                      *)
LEMMA UntriedLists ==
  ASSUME NEW c \in Calls, tried[c] \in SUBSET Targets
  PROVE  /\ Lists(Untried(c), Targets \ tried[c])
         /\ tried[c] = {} => Untried(c) = Members
<1> DEFINE left == {i \in DOMAIN Members : Members[i] \notin tried[c]}
           m == Cardinality(left)
           Nth(k) == CHOOSE i \in left : Cardinality({j \in left : j <= i}) = k
<1>1. left \in SUBSET (1 .. N)
  BY MembersAreListed
<1>2. /\ IsFiniteSet(left) /\ m \in Nat
      /\ \A i \in left : Cardinality(Upto(left, i)) \in 1 .. m
      /\ \A i, j \in left : Cardinality(Upto(left, i)) = Cardinality(Upto(left, j)) => i = j
      /\ \A k \in 1 .. m : \E i \in left : Cardinality(Upto(left, i)) = k
  <2> HIDE DEF left
  <2> QED
    BY <1>1, Ranks
<1>3. \A k \in 1 .. m : Nth(k) \in left /\ Cardinality(Upto(left, Nth(k))) = k
  <2> HIDE DEF left
  <2> QED
    BY <1>2 DEF Upto
<1>4. Untried(c) = [k \in 1 .. m |-> Members[Nth(k)]]
  BY DEF Untried
<1> HIDE DEF Nth
<1>5. \A i \in left : \E k \in 1 .. m : Nth(k) = i
  <2> HIDE DEF left
  <2> QED
    BY <1>2, <1>3
<1>6. Untried(c) \in Seq(Targets)
  <2>1. \A k \in 1 .. m : Members[Nth(k)] \in Targets
    BY <1>1, <1>3, MembersAreListed
  <2> QED
    BY <1>2, <1>4, <2>1
<1>7. IsInjective(Untried(c))
  <2>1. \A k, l \in 1 .. m : Members[Nth(k)] = Members[Nth(l)] => k = l
    BY <1>1, <1>3, MembersAreListed
  <2> QED
    BY <1>4, <2>1 DEF IsInjective
<1>8. ToSet(Untried(c)) = Targets \ tried[c]
  <2>1. \A k \in 1 .. m : Members[Nth(k)] \in Targets \ tried[c]
    BY <1>1, <1>3, MembersAreListed
  <2>2. \A t \in Targets \ tried[c] : \E k \in 1 .. m : Members[Nth(k)] = t
    <3> SUFFICES ASSUME NEW t \in Targets \ tried[c]
                 PROVE  \E k \in 1 .. m : Members[Nth(k)] = t
      OBVIOUS
    <3>1. PICK i \in 1 .. N : Members[i] = t
      BY MembersAreListed
    <3>2. i \in left
      BY <3>1, MembersAreListed
    <3> QED
      BY <1>5, <3>1, <3>2
  <2>3. ToSet(Untried(c)) = {Members[Nth(k)] : k \in 1 .. m}
    BY <1>4 DEF ToSet
  <2> HIDE DEF m
  <2> QED
    BY <2>1, <2>2, <2>3
<1>9. ASSUME tried[c] = {}
      PROVE  Untried(c) = Members
  <2>1. left = 1 .. N
    BY <1>9, MembersAreListed
  <2>2. m = N
    <3>1. Cardinality(1 .. N) = N
      BY MembersAreListed, FS_Interval
    <3> QED
      BY <2>1, <3>1
  <2>3. \A i \in 1 .. N : Upto(left, i) = 1 .. i
    BY <2>1, MembersAreListed DEF Upto
  <2>4. \A i \in 1 .. N : Cardinality(Upto(left, i)) = i
    BY <2>3, MembersAreListed, FS_Interval
  <2>5. \A k \in 1 .. N : Nth(k) = k
    <3> HIDE DEF left
    <3> QED
      BY <1>3, <2>1, <2>2, <2>4
  <2>6. Untried(c) = [k \in 1 .. N |-> Members[k]]
    BY <1>4, <2>2, <2>5
  <2>7. Members \in Seq(Targets)
    BY SelectionAssumption
  <2>8. Members = [k \in 1 .. N |-> Members[k]]
    BY <2>7 DEF N
  <2> QED
    BY <2>6, <2>8
<1> QED
  BY <1>6, <1>7, <1>8, <1>9 DEF Lists

LEMMA RotateLists ==
  ASSUME NEW s, NEW S, Lists(s, S), NEW i \in 0 .. Len(s) - 1
  PROVE  Lists(Rotate(s, i), S)
<1> DEFINE n == Len(s)
           r == Rotate(s, i)
<1>1. s \in Seq(Targets) /\ n \in Nat /\ i \in Nat /\ i < n
  BY DEF Lists
<1>2. /\ SubSeq(s, i + 1, n) \in Seq(Targets) /\ Len(SubSeq(s, i + 1, n)) = n - i
      /\ \A k \in 1 .. n - i : SubSeq(s, i + 1, n)[k] = s[i + k]
  BY <1>1, SubSeqProperties
<1>3. /\ SubSeq(s, 1, i) \in Seq(Targets) /\ Len(SubSeq(s, 1, i)) = i
      /\ \A k \in 1 .. i : SubSeq(s, 1, i)[k] = s[k]
  BY <1>1, SubSeqProperties
<1>4. /\ r \in Seq(Targets) /\ Len(r) = n
      /\ \A k \in 1 .. n : r[k] = IF k <= n - i THEN s[i + k] ELSE s[k - (n - i)]
  <2> DEFINE a == SubSeq(s, i + 1, n)
             b == SubSeq(s, 1, i)
  <2>1. r = a \o b
    BY DEF Rotate
  <2>2. /\ a \in Seq(Targets) /\ Len(a) = n - i /\ b \in Seq(Targets) /\ Len(b) = i
        /\ \A k \in 1 .. n - i : a[k] = s[i + k]
        /\ \A k \in 1 .. i : b[k] = s[k]
    BY <1>2, <1>3
  <2> HIDE DEF a, b, r, n
  <2>3. /\ a \o b \in Seq(Targets) /\ Len(a \o b) = n
        /\ \A k \in 1 .. n : (a \o b)[k] = IF k <= n - i THEN a[k] ELSE b[k - (n - i)]
    <3>1. /\ a \o b \in Seq(Targets) /\ Len(a \o b) = Len(a) + Len(b)
          /\ \A k \in 1 .. Len(a) + Len(b) : (a \o b)[k] =
                IF k <= Len(a) THEN a[k] ELSE b[k - Len(a)]
      BY <2>2, ConcatProperties
    <3>2. Len(a) + Len(b) = n
      BY <1>1, <2>2
    <3> QED
      BY <2>2, <3>1, <3>2
  <2>4. \A k \in 1 .. n : /\ k <= n - i => k \in 1 .. n - i
                          /\ ~(k <= n - i) => k - (n - i) \in 1 .. i
    BY <1>1
  <2> QED
    BY <2>1, <2>2, <2>3, <2>4
<1> HIDE DEF r, n
<1>5. DOMAIN r = 1 .. n /\ DOMAIN s = 1 .. n
  BY <1>1, <1>4 DEF n
<1>6. \A k, l \in 1 .. n : s[k] = s[l] => k = l
  BY <1>5 DEF Lists, IsInjective
<1> DEFINE At(k) == IF k <= n - i THEN i + k ELSE k - (n - i)
<1>7. \A k \in 1 .. n : At(k) \in 1 .. n /\ r[k] = s[At(k)]
  <2>1. \A k \in 1 .. n : At(k) \in 1 .. n
    BY <1>1
  <2> QED
    BY <1>4, <2>1
<1>8. \A k, l \in 1 .. n : At(k) = At(l) => k = l
  BY <1>1
<1>9. \A l \in 1 .. n : \E k \in 1 .. n : At(k) = l
  <2> SUFFICES ASSUME NEW l \in 1 .. n PROVE \E k \in 1 .. n : At(k) = l
    OBVIOUS
  <2>1. CASE l > i
    <3>1. l - i \in 1 .. n /\ At(l - i) = l
      BY <1>1, <2>1
    <3> QED
      BY <3>1
  <2>2. CASE l <= i
    <3>1. l + (n - i) \in 1 .. n /\ At(l + (n - i)) = l
      BY <1>1, <2>2
    <3> QED
      BY <3>1
  <2> QED
    BY <1>1, <2>1, <2>2
<1> HIDE DEF At
<1>10. ToSet(r) = ToSet(s)
  BY <1>5, <1>7, <1>9 DEF ToSet
<1>11. IsInjective(r)
  BY <1>5, <1>6, <1>7, <1>8 DEF IsInjective
<1> QED
  BY <1>4, <1>10, <1>11 DEF Lists, r

LEMMA AnyOrderLists ==
  ASSUME NEW S \in SUBSET Targets, NEW t \in SetToSeqs(S), IsFiniteSet(S)
  PROVE  Lists(t, S)
<1> DEFINE D == 1 .. Cardinality(S)
<1>1. t \in [D -> S] /\ \A i, j \in D : i # j => t[i] # t[j]
  BY DEF SetToSeqs
<1>2. Cardinality(S) \in Nat /\ IsFiniteSet(D) /\ Cardinality(D) = Cardinality(S)
  BY FS_CardinalityType, FS_Interval
<1>3. t \in Injection(D, S)
  BY <1>1 DEF Injection, IsInjective
<1>4. t \in Surjection(D, S)
  BY <1>2, <1>3, FS_Injection
<1>5. ToSet(t) = S
  BY <1>1, <1>4 DEF ToSet, Surjection
<1>6. t \in Seq(Targets)
  BY <1>1, <1>2
<1> QED
  BY <1>3, <1>5, <1>6 DEF Lists, Injection

LEMMA TailLists ==
  ASSUME NEW s, NEW S, Lists(s, S), s # <<>>
  PROVE  /\ Head(s) \in S /\ Head(s) \in Targets
         /\ Lists(Tail(s), S \ {Head(s)})
<1>1. s \in Seq(Targets) /\ Len(s) \in Nat \ {0} /\ DOMAIN s = 1 .. Len(s)
  BY EmptySeq DEF Lists
<1>2. Head(s) = s[1] /\ 1 \in 1 .. Len(s) /\ s[1] \in Targets
  BY <1>1
<1>3. /\ Tail(s) \in Seq(Targets) /\ Len(Tail(s)) = Len(s) - 1
      /\ DOMAIN Tail(s) = 1 .. Len(s) - 1
      /\ \A k \in 1 .. Len(s) - 1 : Tail(s)[k] = s[k + 1]
  BY <1>1, HeadTailProperties
<1>4. \A k, l \in 1 .. Len(s) : s[k] = s[l] => k = l
  BY <1>1 DEF Lists, IsInjective
<1>5. IsInjective(Tail(s))
  BY <1>1, <1>3, <1>4 DEF IsInjective
<1>6. ToSet(Tail(s)) = ToSet(s) \ {Head(s)}
  <2>1. \A k \in 1 .. Len(s) - 1 : \E l \in 1 .. Len(s) : s[l] = Tail(s)[k] /\ l # 1
    BY <1>1, <1>3
  <2>2. \A l \in 1 .. Len(s) : l # 1 => \E k \in 1 .. Len(s) - 1 : Tail(s)[k] = s[l]
    <3> SUFFICES ASSUME NEW l \in 1 .. Len(s), l # 1
                 PROVE  \E k \in 1 .. Len(s) - 1 : Tail(s)[k] = s[l]
      OBVIOUS
    <3>1. l - 1 \in 1 .. Len(s) - 1 /\ (l - 1) + 1 = l
      BY <1>1
    <3> QED
      BY <1>3, <3>1
  <2>3. \A l \in 1 .. Len(s) : s[l] # Head(s) <=> l # 1
    BY <1>2, <1>4
  <2>4. ToSet(Tail(s)) = {Tail(s)[k] : k \in 1 .. Len(s) - 1}
    BY <1>3 DEF ToSet
  <2>5. ToSet(s) = {s[l] : l \in 1 .. Len(s)}
    BY <1>1 DEF ToSet
  <2> QED
    <3>1. ASSUME NEW k \in 1 .. Len(s) - 1
          PROVE  Tail(s)[k] \in ToSet(s) \ {Head(s)}
      BY <2>1, <2>3, <2>5
    <3>2. ASSUME NEW l \in 1 .. Len(s), s[l] # Head(s)
          PROVE  s[l] \in ToSet(Tail(s))
      BY <2>2, <2>3, <2>4, <3>2
    <3> QED
      BY <2>4, <2>5, <3>1, <3>2
<1> QED
  BY <1>1, <1>2, <1>3, <1>5, <1>6 DEF Lists, ToSet

LEMMA TargetsFinite == IsFiniteSet(Targets) /\ \A S \in SUBSET Targets : IsFiniteSet(S)
<1> DEFINE f == [i \in 1 .. N |-> Members[i]]
<1>1. f \in Surjection(1 .. N, Targets)
  BY MembersAreListed DEF Surjection
<1>2. IsFiniteSet(1 .. N)
  BY MembersAreListed, FS_Interval
<1>3. IsFiniteSet(Targets)
  BY <1>1, <1>2, FS_Surjection
<1> QED
  BY <1>3, FS_Subset

LEMMA MembersListed == Lists(Members, Targets)
BY SelectionAssumption DEF Lists, Targets

LEMMA ListedOnce ==
  ASSUME NEW s, NEW S, Lists(s, S)
  PROVE  Cardinality(S) = Len(s)
<1>1. Len(s) \in Nat /\ DOMAIN s = 1 .. Len(s) /\ s = [i \in 1 .. Len(s) |-> s[i]]
  BY DEF Lists
<1>2. s \in Bijection(1 .. Len(s), S)
  BY <1>1 DEF Lists, ToSet, Bijection, Injection, Surjection, IsInjective
<1>3. ExistsBijection(1 .. Len(s), S)
  BY <1>2 DEF ExistsBijection
<1> QED
  BY <1>1, <1>3, FS_CountingElements

(* Where the round-robin counter points to next.                           *)
LEMMA NextTurn ==
  ASSUME NEW k \in Nat, NEW n \in Nat \ {0}
  PROVE  /\ k % n \in 0 .. n - 1
         /\ (k + 1) % n = IF (k % n) + 1 = n THEN 0 ELSE (k % n) + 1
<1> DEFINE q == k \div n
           r == k % n
<1>1. q \in Nat /\ r \in 0 .. n - 1 /\ k = n * q + r
  OBVIOUS
<1> HIDE DEF q, r
<1>2. ASSUME NEW p \in Nat, NEW m \in 0 .. n - 1
      PROVE  (n * p + m) % n = m
  OBVIOUS
<1>3. CASE r + 1 = n
  <2>1. k + 1 = n * (q + 1) + 0 /\ q + 1 \in Nat /\ 0 \in 0 .. n - 1
    BY <1>1, <1>3
  <2>2. (n * (q + 1) + 0) % n = 0
    BY <1>2, <2>1
  <2> QED
    BY <1>1, <1>3, <2>1, <2>2 DEF r
<1>4. CASE r + 1 # n
  <2>1. k + 1 = n * q + (r + 1) /\ r + 1 \in 0 .. n - 1
    BY <1>1, <1>4
  <2>2. (n * q + (r + 1)) % n = r + 1
    BY <1>1, <1>2, <2>1
  <2> QED
    BY <1>1, <1>4, <2>1, <2>2 DEF r
<1> QED
  BY <1>3, <1>4
-----------------------------------------------------------------------------
(* The parts of the types and of the invariant.                            *)

GroupTypes ==
  /\ policy \in Policies
  /\ cached \in {None} \cup [target : Targets, result : {"normal", "abnormal"}]
  /\ fresh \in BOOLEAN

RoundTypes ==
  /\ undisturbed \in BOOLEAN
  /\ counter \in Nat /\ cursor \in [Replicas -> 0 .. Len(Members) - 1]
  /\ starts \in [Targets -> Nat]

UpTypes ==
  /\ changes \in 0 .. MaxChanges
  /\ up \in [Targets -> BOOLEAN] /\ view \in [Targets -> BOOLEAN]

CallTypes ==
  /\ pc \in [Calls -> Steps]
  /\ tried \in [Calls -> SUBSET Targets] /\ big \in [Calls -> BOOLEAN]
  /\ hit \in [Calls -> Targets \cup {None}]
  /\ todo \in [Calls -> Seq(Targets)] /\ \A c \in Calls : IsInjective(todo[c])
  /\ avail \in [Calls -> SUBSET Targets] /\ tooSmall \in [Calls -> BOOLEAN]
  /\ result \in [Calls -> Results]
  /\ steady \in [Calls -> SUBSET Targets]

LEMMA Parts == TypeOK <=> GroupTypes /\ RoundTypes /\ UpTypes /\ CallTypes
BY DEF TypeOK, GroupTypes, RoundTypes, UpTypes, CallTypes, Steps

LEMMA PartsAfter == GroupTypes' /\ RoundTypes' /\ UpTypes' /\ CallTypes' => TypeOK'
BY Parts, PTL

CallInv(c) == Avoids(c) /\ InHand(c) /\ SteadyServes(c) /\ SteadyAhead(c)

LEMMA Holds ==
  ASSUME IInv
  PROVE  /\ GroupTypes /\ RoundTypes /\ UpTypes /\ CallTypes /\ EvenTurns
         /\ \A c \in Calls : CallInv(c)
BY Parts DEF IInv, CallInv

(* What a step of call c leaves alone of the others.                       *)
OnlyCall(c) ==
  \A d \in Calls \ {c} :
    /\ pc'[d] = pc[d] /\ tried'[d] = tried[d] /\ big'[d] = big[d] /\ hit'[d] = hit[d]
    /\ todo'[d] = todo[d] /\ avail'[d] = avail[d] /\ tooSmall'[d] = tooSmall[d]
    /\ result'[d] = result[d] /\ steady'[d] = steady[d]

LEMMA OthersKeep ==
  ASSUME IInv, NEW c \in Calls, OnlyCall(c), UNCHANGED <<up, view>>,
         NEW d \in Calls, d # c
  PROVE  CallInv(d)'
<1>1. /\ pc'[d] = pc[d] /\ tried'[d] = tried[d] /\ big'[d] = big[d] /\ hit'[d] = hit[d]
      /\ todo'[d] = todo[d] /\ avail'[d] = avail[d] /\ tooSmall'[d] = tooSmall[d]
      /\ result'[d] = result[d] /\ steady'[d] = steady[d]
  BY DEF OnlyCall
<1>2. CallInv(d)
  BY Holds
<1>3. Avoids(d)' /\ InHand(d)'
  BY <1>1, <1>2 DEF CallInv, Avoids, InHand
<1>4. SteadyServes(d)' /\ SteadyAhead(d)'
  BY <1>1, <1>2 DEF CallInv, SteadyServes, SteadyAhead, Fits
<1> QED
  BY <1>3, <1>4 DEF CallInv

(* A step of c that nobody's turn depends on.                              *)
LEMMA CallStep ==
  ASSUME IInv, NEW c \in Calls, OnlyCall(c), UNCHANGED upVars,
         GroupTypes', CallTypes', CallInv(c)',
         (EvenTurns' /\ RoundTypes') \/ UNCHANGED <<rrVars, tried>>
  PROVE  IInv'
<1>1. \A d \in Calls : CallInv(d)'
  BY OthersKeep DEF upVars
<1>2. UpTypes'
  BY Holds DEF UpTypes, upVars
<1>3. EvenTurns' /\ RoundTypes'
  <2>1. CASE UNCHANGED <<rrVars, tried>>
    BY <2>1, Holds DEF EvenTurns, RoundTypes, rrVars
  <2> QED
    BY <2>1
<1> QED
  BY <1>1, <1>2, <1>3, PartsAfter DEF IInv, CallInv

(* A call that ends.                                                       *)
LEMMA EndStep ==
  ASSUME IInv, NEW c \in Calls, NEW r \in Results, End(c, r),
         UNCHANGED <<rrVars, upVars, inVars, steady>>, GroupTypes',
         r \in Targets => r \notin tried[c],
         r \in {"no target", "too large"} => steady[c] = {}
  PROVE  IInv'
<1>1. /\ pc' = [pc EXCEPT ![c] = "done"]
      /\ result' = [result EXCEPT ![c] = r]
      /\ hit' = [hit EXCEPT ![c] = None]
      /\ todo' = [todo EXCEPT ![c] = <<>>]
      /\ avail' = [avail EXCEPT ![c] = {}]
      /\ tooSmall' = [tooSmall EXCEPT ![c] = FALSE]
      /\ UNCHANGED <<tried, big, steady>>
  BY DEF End, Goto, inVars
<1>2. /\ pc' \in [Calls -> Steps] /\ result' \in [Calls -> Results]
      /\ hit' \in [Calls -> Targets \cup {None}]
      /\ avail' \in [Calls -> SUBSET Targets] /\ tooSmall' \in [Calls -> BOOLEAN]
      /\ pc'[c] = "done" /\ result'[c] = r /\ hit'[c] = None /\ todo'[c] = <<>>
  BY <1>1, Holds DEF CallTypes, Steps
<1>3. todo' \in [Calls -> Seq(Targets)] /\ \A d \in Calls : IsInjective(todo'[d])
  <2>1. <<>> \in Seq(Targets) /\ IsInjective(<<>>)
    BY NothingListed DEF Lists
  <2>2. todo' \in [Calls -> Seq(Targets)]
    BY <1>1, <2>1, Holds DEF CallTypes
  <2>3. \A d \in Calls : todo'[d] = <<>> \/ todo'[d] = todo[d]
    BY <1>1, Holds DEF CallTypes
  <2> QED
    BY <2>1, <2>2, <2>3, Holds DEF CallTypes
<1>4. CallTypes'
  BY <1>1, <1>2, <1>3, Holds DEF CallTypes
<1>5. OnlyCall(c)
  BY <1>1, Holds DEF OnlyCall, CallTypes
<1>6. CallInv(c)'
  <2>1. ToSet(todo'[c]) = {}
    BY <1>2, NothingListed DEF Lists
  <2>2. Avoids(c)'
    BY <1>1, <1>2, <2>1 DEF Avoids
  <2>3. InHand(c)' /\ SteadyServes(c)' /\ SteadyAhead(c)'
    BY <1>1, <1>2 DEF InHand, SteadyServes, SteadyAhead, Ended, Looking
  <2> QED
    BY <2>2, <2>3 DEF CallInv
<1> QED
  BY <1>1, <1>4, <1>5, <1>6, CallStep
-----------------------------------------------------------------------------
(* One lemma for each action.                                              *)

LEMMA StartStep ==
  ASSUME IInv, NEW c \in Calls, NEW q \in Requests, Start(c, q.tried, q.big)
  PROVE  IInv'
<1> DEFINE T == q.tried
           b == q.big
           S == {m \in Targets \ T : up[m] /\ view[m] /\ (b => m \notin Narrow)}
<1>1. T \in SUBSET Targets /\ b \in BOOLEAN
  BY SelectionAssumption
<1>2. /\ pc[c] = "idle" /\ hit[c] = None /\ todo[c] = <<>> /\ result[c] = None
  BY Holds DEF Start, CallInv, InHand, Ended
<1>3. /\ tried' = [tried EXCEPT ![c] = T] /\ big' = [big EXCEPT ![c] = b]
      /\ steady' = [steady EXCEPT ![c] = S]
      /\ UNCHANGED <<groupVars, upVars, todo, avail, tooSmall, result>>
  BY DEF Start
<1> HIDE DEF T, b
<1>4. PICK h \in Targets \cup {None}, l \in {"cached", "evaluate"} :
        /\ hit' = [hit EXCEPT ![c] = h] /\ pc' = [pc EXCEPT ![c] = l]
        /\ h # None => h \notin T
        /\ l = "cached" => h # None
  <2>1. CASE /\ RowUsable(T) /\ hit' = [hit EXCEPT ![c] = cached.target]
             /\ Goto(c, "cached")
    <3>1. cached.target \in Targets /\ cached.target # None /\ cached.target \notin T
      BY <2>1, Holds, SelectionAssumption DEF RowUsable, RowUsableAnyway, GroupTypes
    <3> QED
      BY <2>1, <3>1 DEF Goto
  <2>2. CASE Goto(c, "evaluate") /\ UNCHANGED hit
    <3>1. hit' = [hit EXCEPT ![c] = None]
      BY <1>2, <2>2, Holds DEF CallTypes
    <3> QED
      BY <2>2, <3>1 DEF Goto
  <2> QED
    BY <2>1, <2>2 DEF Start, T
<1>5. /\ tried' \in [Calls -> SUBSET Targets] /\ big' \in [Calls -> BOOLEAN]
      /\ steady' \in [Calls -> SUBSET Targets]
      /\ tried'[c] = T /\ big'[c] = b /\ steady'[c] = S
  BY <1>1, <1>3, Holds DEF CallTypes
<1>6. /\ pc' \in [Calls -> Steps] /\ hit' \in [Calls -> Targets \cup {None}]
      /\ pc'[c] = l /\ hit'[c] = h
  BY <1>4, Holds DEF CallTypes, Steps
<1>7. CallTypes'
  BY <1>3, <1>5, <1>6, Holds DEF CallTypes
<1>8. OnlyCall(c)
  BY <1>3, <1>4, Holds DEF OnlyCall, CallTypes
<1>9. CallInv(c)'
  <2>1. Avoids(c)'
    <3>1. ToSet(todo'[c]) = {}
      BY <1>2, <1>3, NothingListed DEF Lists
    <3>2. result'[c] \notin Targets
      BY <1>2, <1>3, SelectionAssumption
    <3> QED
      BY <1>4, <1>5, <1>6, <3>1, <3>2 DEF Avoids
  <2>2. InHand(c)'
    BY <1>2, <1>3, <1>4, <1>6 DEF InHand, Ended
  <2>3. SteadyServes(c)'
    BY <1>3, <1>5 DEF SteadyServes, Fits, upVars
  <2>4. result'[c] \notin {"no target", "too large"}
    BY <1>2, <1>3, SelectionAssumption DEF Reasons
  <2>5. SteadyAhead(c)'
    BY <1>4, <1>6, <2>4 DEF SteadyAhead, Looking
  <2> QED
    BY <2>1, <2>2, <2>3, <2>5 DEF CallInv
<1>10. RoundTypes' /\ EvenTurns'
  <2>1. counter' = counter /\ cursor' = cursor /\ starts' = starts
        /\ undisturbed' = (undisturbed /\ T = {})
    BY DEF Start, T
  <2>2. RoundTypes'
    BY <2>1, Holds DEF RoundTypes
  <2>3. ASSUME undisturbed' PROVE \A d \in Calls : tried'[d] = {}
    BY <1>3, <1>5, <2>1, <2>3, Holds DEF EvenTurns, CallTypes
  <2> QED
    BY <2>1, <2>2, <2>3, Holds DEF EvenTurns
<1>11. GroupTypes'
  BY <1>3, Holds DEF GroupTypes, groupVars
<1> QED
  BY <1>3, <1>7, <1>8, <1>9, <1>10, <1>11, CallStep

(* A step of c that neither begins the call nor ends it.                   *)
LEMMA InsideStep ==
  ASSUME IInv, NEW c \in Calls, CallTypes', OnlyCall(c),
         UNCHANGED <<inVars, upVars, result, steady>>,
         pc[c] \notin Ended, pc'[c] \notin {"idle"} \cup Ended,
         GroupTypes', (EvenTurns' /\ RoundTypes') \/ UNCHANGED <<rrVars, tried>>,
         hit'[c] # None => hit'[c] \notin tried[c],
         ToSet(todo'[c]) \cap tried[c] = {},
         pc'[c] \in {"cached", "markCached"} => hit'[c] # None,
         pc'[c] \in {"mark", "keep"} => todo'[c] # <<>>,
         pc'[c] \in {"order"} \cup Looking => steady[c] \subseteq avail'[c],
         pc'[c] \in Looking => steady[c] \subseteq ToSet(todo'[c]),
         pc'[c] = "mark" => Head(todo'[c]) \notin steady[c]
  PROVE  IInv'
<1>1. result[c] = None
  BY Holds DEF CallInv, InHand
<1>2. result'[c] \notin Targets /\ result'[c] \notin {"no target", "too large"}
  BY <1>1, SelectionAssumption DEF Reasons
<1>3. Avoids(c)'
  BY <1>2 DEF Avoids, inVars
<1>4. InHand(c)'
  BY <1>1 DEF InHand
<1>5. SteadyServes(c)'
  BY Holds DEF CallInv, SteadyServes, Fits, inVars, upVars
<1>6. SteadyAhead(c)'
  BY <1>2 DEF SteadyAhead
<1> QED
  BY <1>3, <1>4, <1>5, <1>6, CallStep DEF CallInv

LEMMA CallTyped ==
  ASSUME IInv, NEW c \in Calls
  PROVE  /\ pc[c] \in Steps /\ hit[c] \in Targets \cup {None}
         /\ Lists(todo[c], ToSet(todo[c])) /\ avail[c] \in SUBSET Targets
         /\ tooSmall[c] \in BOOLEAN /\ steady[c] \in SUBSET Targets
         /\ tried[c] \in SUBSET Targets
BY Holds DEF CallTypes, Lists

(* What the invariant says of a call.                                      *)
LEMMA CallFacts ==
  ASSUME IInv, NEW c \in Calls
  PROVE  /\ hit[c] # None => hit[c] \notin tried[c]
         /\ ToSet(todo[c]) \cap tried[c] = {}
         /\ pc[c] \in {"cached", "markCached"} => hit[c] # None
         /\ pc[c] \in {"mark", "keep"} => todo[c] # <<>>
         /\ pc[c] \notin Ended =>
              \A m \in steady[c] : up[m] /\ view[m] /\ Fits(c, m) /\ m \notin tried[c]
         /\ pc[c] \in {"order"} \cup Looking => steady[c] \subseteq avail[c]
         /\ pc[c] \in Looking => steady[c] \subseteq ToSet(todo[c])
         /\ pc[c] = "mark" => Head(todo[c]) \notin steady[c]
<1>1. CallInv(c)
  BY Holds
<1>2. /\ hit[c] # None => hit[c] \notin tried[c]
      /\ ToSet(todo[c]) \cap tried[c] = {}
  BY <1>1 DEF CallInv, Avoids
<1>3. /\ pc[c] \in {"cached", "markCached"} => hit[c] # None
      /\ pc[c] \in {"mark", "keep"} => todo[c] # <<>>
  BY <1>1 DEF CallInv, InHand
<1>4. pc[c] \notin Ended =>
        \A m \in steady[c] : up[m] /\ view[m] /\ Fits(c, m) /\ m \notin tried[c]
  BY <1>1 DEF CallInv, SteadyServes
<1>5. /\ pc[c] \in {"order"} \cup Looking => steady[c] \subseteq avail[c]
      /\ pc[c] \in Looking => steady[c] \subseteq ToSet(todo[c])
      /\ pc[c] = "mark" => Head(todo[c]) \notin steady[c]
  BY <1>1 DEF CallInv, SteadyAhead
<1> QED
  BY <1>2, <1>3, <1>4, <1>5

LEMMA WritesRow ==
  ASSUME IInv, NEW m \in Targets, NEW r \in {"normal", "abnormal"}, SetCache(m, r),
         policy' = policy
  PROVE  GroupTypes'
BY Holds DEF SetCache, GroupTypes

LEMMA ResolveCachedStep ==
  ASSUME IInv, NEW c \in Calls, ResolveCached(c)
  PROVE  IInv'
<1>1. pc[c] = "cached" /\ hit[c] \in Targets /\ hit[c] \notin tried[c]
  BY CallFacts, CallTyped DEF ResolveCached
<1>2. GroupTypes' /\ UNCHANGED <<rrVars, upVars, inVars, tried, steady>>
  BY Holds DEF ResolveCached, groupVars, GroupTypes, inVars
<1>3. CASE End(c, hit[c])
  BY <1>1, <1>2, <1>3, EndStep, SelectionAssumption DEF Results, Reasons
<1>4. CASE /\ \/ hit' = [hit EXCEPT ![c] = None] /\ Goto(c, "evaluate")
              \/ hit' = hit /\ Goto(c, "markCached")
           /\ UNCHANGED <<todo, avail, tooSmall, result>>
  <2>1. PICK l \in {"evaluate", "markCached"} : pc' = [pc EXCEPT ![c] = l]
    BY <1>4 DEF Goto
  <2>2. pc' \in [Calls -> Steps] /\ pc'[c] = l
    BY <2>1, Holds DEF CallTypes, Steps
  <2>3. /\ hit' \in [Calls -> Targets \cup {None}] /\ hit'[c] \in {hit[c], None}
        /\ l = "markCached" => hit'[c] = hit[c]
    BY <1>4, <2>1, <2>2, Holds DEF CallTypes, Goto
  <2>4. CallTypes'
    BY <1>2, <1>4, <2>2, <2>3, Holds DEF CallTypes, inVars
  <2>5. OnlyCall(c)
    BY <1>2, <1>4, <2>1, Holds DEF OnlyCall, CallTypes, inVars
  <2> QED
    BY <1>1, <1>2, <1>4, <2>2, <2>3, <2>4, <2>5, InsideStep, CallFacts, SelectionAssumption
       DEF Ended, Looking
<1> QED
  BY <1>3, <1>4 DEF ResolveCached, callVars

LEMMA MarkCachedStep ==
  ASSUME IInv, NEW c \in Calls, MarkCached(c)
  PROVE  IInv'
<1>1. pc[c] = "markCached" /\ hit[c] \in Targets
  BY CallFacts, CallTyped DEF MarkCached
<1>2. GroupTypes' /\ UNCHANGED <<rrVars, upVars, inVars, todo, avail, tooSmall, result, steady>>
  BY <1>1, WritesRow DEF MarkCached
<1>3. /\ pc' \in [Calls -> Steps] /\ pc'[c] = "evaluate"
      /\ hit' \in [Calls -> Targets \cup {None}] /\ hit'[c] = None
  BY Holds DEF MarkCached, Goto, CallTypes, Steps
<1>4. CallTypes'
  BY <1>2, <1>3, Holds DEF CallTypes, inVars
<1>5. OnlyCall(c)
  BY <1>2, Holds DEF MarkCached, Goto, OnlyCall, CallTypes, inVars
<1> QED
  BY <1>1, <1>2, <1>3, <1>4, <1>5, InsideStep, CallFacts DEF Ended, Looking, inVars

LEMMA EvaluateStep ==
  ASSUME IInv, NEW c \in Calls, Evaluate(c)
  PROVE  IInv'
<1>1. pc[c] = "evaluate" /\ GroupTypes' /\ UNCHANGED <<rrVars, upVars, inVars, steady>>
  BY Holds DEF Evaluate, groupVars, GroupTypes
<1>2. ToSet(Untried(c)) = Targets \ tried[c] /\ steady[c] \subseteq Targets \ tried[c]
  BY <1>1, UntriedLists, CallTyped, CallFacts DEF Lists, Ended
<1>3. CASE Untried(c) = <<>> /\ End(c, "no target")
  <2>1. steady[c] = {}
    BY <1>2, <1>3, NothingListed DEF Lists
  <2> QED
    BY <1>1, <1>3, <2>1, EndStep, SelectionAssumption DEF Results, Reasons
<1>4. CASE /\ avail' = [avail EXCEPT ![c] = {m \in ToSet(Untried(c)) : view[m]}]
           /\ Goto(c, "order") /\ UNCHANGED <<hit, todo, tooSmall, result>>
  <2> DEFINE A == {m \in ToSet(Untried(c)) : view[m]}
  <2>1. A \in SUBSET Targets /\ steady[c] \subseteq A
    BY <1>1, <1>2, CallFacts DEF Ended
  <2> HIDE DEF A
  <2>2. /\ pc' \in [Calls -> Steps] /\ pc'[c] = "order"
        /\ avail' \in [Calls -> SUBSET Targets] /\ avail'[c] = A
    BY <1>4, <2>1, Holds DEF Goto, CallTypes, Steps, A
  <2>3. CallTypes'
    BY <1>1, <1>4, <2>2, Holds DEF CallTypes, inVars
  <2>4. OnlyCall(c)
    BY <1>1, <1>4, Holds DEF Goto, OnlyCall, CallTypes, inVars
  <2> QED
    BY <1>1, <1>4, <2>1, <2>2, <2>3, <2>4, InsideStep, CallFacts DEF Ended, Looking, inVars
<1> QED
  BY <1>3, <1>4 DEF Evaluate

(* One more turn, that begins with the member the counter points to, keeps *)
(* the turns even.                                                         *)
LEMMA TurnKeepsEven ==
  ASSUME IInv, NEW c \in Calls, NEW start \in 0 .. N - 1, start = counter % N,
         counter' = counter + 1, UNCHANGED <<tried, undisturbed>>,
         starts' = [starts EXCEPT ![Members[start + 1]] = @ + 1]
  PROVE  EvenTurns'
<1> SUFFICES ASSUME undisturbed'
             PROVE  /\ \A d \in Calls : tried'[d] = {}
                    /\ \E q \in Nat : \A i \in 1 .. N :
                         starts'[Members[i]] = IF i <= counter' % N THEN q + 1 ELSE q
  BY DEF EvenTurns
<1>1. PICK q \in Nat : \A i \in 1 .. N :
        starts[Members[i]] = IF i <= start THEN q + 1 ELSE q
  BY Holds DEF EvenTurns
<1>2. start + 1 \in 1 .. N /\ start \in Nat /\ N \in Nat
  BY MembersAreListed
<1>3. \A i \in 1 .. N :
        starts'[Members[i]] = IF i = start + 1 THEN starts[Members[i]] + 1 ELSE starts[Members[i]]
  BY <1>2, MembersAreListed, Holds DEF RoundTypes
<1>4. \A i \in 1 .. N : starts'[Members[i]] = IF i <= start + 1 THEN q + 1 ELSE q
  BY <1>1, <1>2, <1>3
<1>5. counter' % N = IF start + 1 = N THEN 0 ELSE start + 1
  BY MembersAreListed, NextTurn, Holds DEF RoundTypes
<1>6. CASE start + 1 = N
  <2>1. \A i \in 1 .. N : starts'[Members[i]] = IF i <= counter' % N THEN (q + 1) + 1 ELSE q + 1
    BY <1>2, <1>4, <1>5, <1>6
  <2>2. q + 1 \in Nat
    OBVIOUS
  <2> QED
    BY <2>1, <2>2, Holds DEF EvenTurns
<1>7. CASE start + 1 # N
  BY <1>4, <1>5, <1>7, Holds DEF EvenTurns
<1> QED
  BY <1>6, <1>7

LEMMA RoundRobin ==
  ASSUME IInv, NEW c \in Calls, UNCHANGED tried,
         NEW start \in 0 .. Len(Untried(c)) - 1,
         \/ SharedCursor(c, Len(Untried(c)), start) /\ UNCHANGED undisturbed
         \/ LocalCursor(c, Len(Untried(c)), start) /\ undisturbed' = FALSE,
         starts' = [starts EXCEPT ![Untried(c)[start + 1]] = @ + 1]
  PROVE  EvenTurns' /\ RoundTypes'
<1> DEFINE s == Untried(c)
           n == Len(s)
<1>1. s \in Seq(Targets) /\ n \in Nat /\ start + 1 \in 1 .. n /\ start \in Nat
  BY UntriedLists, CallTyped DEF Lists
<1>2. s[start + 1] \in Targets
  BY <1>1
<1>3. starts' \in [Targets -> Nat] /\ counter \in Nat /\ cursor \in [Replicas -> 0 .. N - 1]
  BY <1>2, Holds DEF RoundTypes, N
<1>4. n <= N
  <2>1. Lists(s, Targets \ tried[c])
    BY UntriedLists, CallTyped
  <2>2. n = Cardinality(Targets \ tried[c])
    BY <2>1, ListedOnce
  <2>3. N = Cardinality(Targets)
    BY ListedOnce, MembersListed DEF N
  <2> QED
    BY <2>2, <2>3, TargetsFinite, FS_Subset
<1>5. CASE SharedCursor(c, n, start) /\ UNCHANGED undisturbed
  <2>1. counter' = counter + 1 /\ start = counter % n /\ cursor' = cursor
    BY <1>3, <1>5 DEF SharedCursor
  <2>2. RoundTypes'
    BY <1>3, <1>5, <2>1, Holds DEF RoundTypes
  <2>3. CASE undisturbed
    <3>1. s = Members
      BY <2>3, UntriedLists, CallTyped, Holds DEF EvenTurns
    <3> QED
      BY <1>5, <2>1, <2>2, <3>1, TurnKeepsEven DEF N
  <2>4. CASE ~undisturbed
    BY <1>5, <2>2, <2>4 DEF EvenTurns
  <2> QED
    BY <2>3, <2>4
<1>6. CASE LocalCursor(c, n, start) /\ undisturbed' = FALSE
  <2>1. EvenTurns'
    BY <1>6 DEF EvenTurns
  <2>2. (start + 1) % n \in 0 .. N - 1
    <3>1. start + 1 \in Nat /\ n \in Nat \ {0}
      BY <1>1
    <3>2. (start + 1) % n \in 0 .. n - 1
      BY <3>1, NextTurn
    <3> QED
      BY <1>1, <1>4, <3>2, MembersAreListed
  <2>3. counter' \in Nat /\ cursor' \in [Replicas -> 0 .. N - 1]
    BY <1>3, <1>6, <2>2, SelectionAssumption DEF LocalCursor
  <2> QED
    BY <1>3, <1>6, <2>1, <2>3 DEF RoundTypes, N
<1> QED
  BY <1>5, <1>6

LEMMA OrderStep ==
  ASSUME IInv, NEW c \in Calls, Order(c)
  PROVE  IInv'
<1> DEFINE s == Untried(c)
           S == Targets \ tried[c]
<1>1. /\ pc[c] = "order" /\ GroupTypes'
      /\ UNCHANGED <<upVars, inVars, hit, avail, tooSmall, result, steady, tried>>
  BY Holds DEF Order, groupVars, GroupTypes, inVars
<1>2. Lists(s, S) /\ S \in SUBSET Targets /\ steady[c] \subseteq S
  BY <1>1, UntriedLists, CallTyped, CallFacts DEF Ended
<1>3. /\ \E t : Lists(t, S) /\ todo' = [todo EXCEPT ![c] = t]
      /\ (EvenTurns' /\ RoundTypes') \/ UNCHANGED <<rrVars, tried>>
  <2>1. CASE todo' = [todo EXCEPT ![c] = s] /\ UNCHANGED rrVars
    BY <1>1, <1>2, <2>1
  <2>2. CASE /\ \E t \in SetToSeqs(ToSet(s)) : todo' = [todo EXCEPT ![c] = t]
             /\ UNCHANGED rrVars
    <3>1. PICK t \in SetToSeqs(S) : todo' = [todo EXCEPT ![c] = t]
      BY <1>2, <2>2 DEF Lists
    <3>2. Lists(t, S)
      BY <1>2, AnyOrderLists, TargetsFinite
    <3> QED
      BY <1>1, <2>2, <3>1, <3>2
  <2>3. CASE \E start \in 0 .. Len(s) - 1 :
               /\ \/ SharedCursor(c, Len(s), start) /\ UNCHANGED undisturbed
                  \/ LocalCursor(c, Len(s), start) /\ undisturbed' = FALSE
               /\ todo' = [todo EXCEPT ![c] = Rotate(s, start)]
               /\ starts' = [starts EXCEPT ![s[start + 1]] = @ + 1]
    <3>1. PICK start \in 0 .. Len(s) - 1 :
               /\ \/ SharedCursor(c, Len(s), start) /\ UNCHANGED undisturbed
                  \/ LocalCursor(c, Len(s), start) /\ undisturbed' = FALSE
               /\ todo' = [todo EXCEPT ![c] = Rotate(s, start)]
               /\ starts' = [starts EXCEPT ![s[start + 1]] = @ + 1]
      BY <2>3
    <3>2. Lists(Rotate(s, start), S)
      BY <1>2, RotateLists
    <3>3. EvenTurns' /\ RoundTypes'
      BY <1>1, <3>1, RoundRobin
    <3> QED
      BY <3>1, <3>2, <3>3
  <2> QED
    BY <2>1, <2>2, <2>3 DEF Order
<1>4. PICK t : Lists(t, S) /\ todo' = [todo EXCEPT ![c] = t]
  BY <1>3
<1>5. /\ pc' \in [Calls -> Steps] /\ pc'[c] = "candidate"
      /\ todo' \in [Calls -> Seq(Targets)] /\ todo'[c] = t
      /\ \A d \in Calls : todo'[d] \in {t, todo[d]}
  BY <1>4, Holds DEF Order, Goto, CallTypes, Steps, Lists
<1>6. CallTypes'
  BY <1>1, <1>4, <1>5, Holds DEF CallTypes, inVars, Lists
<1>7. OnlyCall(c)
  BY <1>1, <1>4, Holds DEF Order, Goto, OnlyCall, CallTypes, inVars
<1>8. ToSet(todo'[c]) \cap tried[c] = {} /\ steady[c] \subseteq ToSet(todo'[c])
  BY <1>2, <1>4, <1>5 DEF Lists
<1> QED
  BY <1>1, <1>3, <1>5, <1>6, <1>7, <1>8, InsideStep, CallFacts DEF Ended, Looking, inVars

LEMMA UnknownPolicyStep ==
  ASSUME IInv, NEW c \in Calls, UnknownPolicy(c)
  PROVE  IInv'
BY EndStep, Holds, SelectionAssumption DEF UnknownPolicy, Results, Reasons, groupVars, GroupTypes

(* The candidate looked at is one that was not tried.                      *)
LEMMA First ==
  ASSUME IInv, NEW c \in Calls, todo[c] # <<>>
  PROVE  /\ Head(todo[c]) \in Targets /\ Head(todo[c]) \notin tried[c]
         /\ Lists(Tail(todo[c]), ToSet(todo[c]) \ {Head(todo[c])})
BY TailLists, CallTyped, CallFacts

(* A candidate is given up that cannot have served c all along.            *)
LEMMA PassOn ==
  ASSUME IInv, NEW c \in Calls, pc[c] \in Looking, todo[c] # <<>>,
         Head(todo[c]) \notin steady[c],
         todo' = [todo EXCEPT ![c] = Tail(@)], Goto(c, "candidate"),
         tooSmall' \in [Calls -> BOOLEAN],
         \A d \in Calls \ {c} : tooSmall'[d] = tooSmall[d],
         UNCHANGED <<rrVars, upVars, inVars, hit, avail, result, steady>>, GroupTypes'
  PROVE  IInv'
<1>1. Lists(Tail(todo[c]), ToSet(todo[c]) \ {Head(todo[c])})
  BY First
<1>2. /\ pc' \in [Calls -> Steps] /\ pc'[c] = "candidate"
      /\ todo' \in [Calls -> Seq(Targets)] /\ todo'[c] = Tail(todo[c])
      /\ \A d \in Calls \ {c} : todo'[d] = todo[d]
  BY <1>1, Holds DEF Goto, CallTypes, Steps, Lists
<1>3. CallTypes'
  BY <1>1, <1>2, Holds DEF CallTypes, inVars, Lists
<1>4. OnlyCall(c)
  BY <1>2, Holds DEF Goto, OnlyCall, CallTypes, inVars
<1>5. ToSet(todo'[c]) \cap tried[c] = {} /\ steady[c] \subseteq ToSet(todo'[c])
  BY <1>1, <1>2, CallFacts DEF Lists
<1> QED
  BY <1>2, <1>3, <1>4, <1>5, InsideStep, CallFacts DEF Ended, Looking, inVars

LEMMA CandidateStep ==
  ASSUME IInv, NEW c \in Calls, Candidate(c)
  PROVE  IInv'
<1> DEFINE m == Head(todo[c])
<1>1. /\ pc[c] = "candidate" /\ todo[c] # <<>> /\ GroupTypes'
      /\ UNCHANGED <<rrVars, upVars, inVars, hit, avail, result, steady>>
  BY Holds DEF Candidate, groupVars, GroupTypes
<1>2. steady[c] \subseteq avail[c] /\ \A x \in steady[c] : up[x] /\ Fits(c, x)
  BY <1>1, CallFacts DEF Looking, Ended
<1>3. CASE /\ m \notin avail[c] \/ ~Fits(c, m)
           /\ tooSmall' = [tooSmall EXCEPT ![c] = @ \/ m \in avail[c]]
           /\ todo' = [todo EXCEPT ![c] = Tail(@)]
           /\ UNCHANGED pc
  <2>1. Head(todo[c]) \notin steady[c]
    BY <1>2, <1>3
  <2>2. Goto(c, "candidate")
    BY <1>1, <1>3, Holds DEF Goto, CallTypes
  <2>3. tooSmall' \in [Calls -> BOOLEAN] /\ \A d \in Calls \ {c} : tooSmall'[d] = tooSmall[d]
    BY <1>3, Holds DEF CallTypes
  <2> QED
    BY <1>1, <1>3, <2>1, <2>2, <2>3, PassOn DEF Looking
<1>4. CASE /\ m \in avail[c] /\ Fits(c, m)
           /\ Goto(c, IF up[m] THEN "keep" ELSE "mark")
           /\ UNCHANGED <<todo, tooSmall>>
  <2>1. PICK l \in {"keep", "mark"} : pc' = [pc EXCEPT ![c] = l] /\ (l = "mark" => ~up[m])
    BY <1>4 DEF Goto
  <2>2. pc' \in [Calls -> Steps] /\ pc'[c] = l
    BY <2>1, Holds DEF CallTypes, Steps
  <2>3. CallTypes'
    BY <1>1, <1>4, <2>2, Holds DEF CallTypes, inVars
  <2>4. OnlyCall(c)
    BY <1>1, <1>4, <2>1, Holds DEF OnlyCall, CallTypes, inVars
  <2>5. l = "mark" => m \notin steady[c]
    BY <1>2, <2>1
  <2> QED
    BY <1>1, <1>4, <2>2, <2>3, <2>4, <2>5, InsideStep, CallFacts DEF Ended, Looking, inVars
<1> QED
  BY <1>3, <1>4 DEF Candidate

LEMMA MarkUnresolvedStep ==
  ASSUME IInv, NEW c \in Calls, MarkUnresolved(c)
  PROVE  IInv'
<1>1. pc[c] = "mark" /\ todo[c] # <<>> /\ Head(todo[c]) \notin steady[c]
  BY CallFacts DEF MarkUnresolved
<1>2. GroupTypes'
  BY <1>1, First, WritesRow DEF MarkUnresolved
<1>3. tooSmall' \in [Calls -> BOOLEAN] /\ \A d \in Calls \ {c} : tooSmall'[d] = tooSmall[d]
  BY Holds DEF MarkUnresolved, CallTypes
<1> QED
  BY <1>1, <1>2, <1>3, PassOn DEF MarkUnresolved, TryNext, Looking

LEMMA KeepSelectedStep ==
  ASSUME IInv, NEW c \in Calls, KeepSelected(c)
  PROVE  IInv'
<1>1. Head(todo[c]) \in Targets /\ Head(todo[c]) \notin tried[c]
  BY CallFacts, First DEF KeepSelected
<1>2. GroupTypes'
  BY <1>1, WritesRow DEF KeepSelected
<1> QED
  BY <1>1, <1>2, EndStep, SelectionAssumption DEF KeepSelected, Results, Reasons

LEMMA NoneLeftStep ==
  ASSUME IInv, NEW c \in Calls, NoneLeft(c)
  PROVE  IInv'
<1>1. steady[c] = {}
  BY CallFacts, NothingListed DEF NoneLeft, Looking, Lists
<1>2. GroupTypes'
  BY Holds DEF NoneLeft, groupVars, GroupTypes
<1>3. PICK r \in {"too large", "no target"} : End(c, r)
  BY DEF NoneLeft
<1> QED
  BY <1>1, <1>2, <1>3, EndStep, SelectionAssumption DEF NoneLeft, Results, Reasons

LEMMA FailsStep ==
  ASSUME IInv, NEW c \in Calls, Fails(c)
  PROVE  IInv'
BY EndStep, Holds, SelectionAssumption DEF Fails, Results, Reasons, groupVars, GroupTypes

LEMMA ReportedStep ==
  ASSUME IInv, NEW c \in Calls, Reported(c)
  PROVE  IInv'
<1>1. /\ pc[c] = "done" /\ pc' = [pc EXCEPT ![c] = "reported"]
      /\ UNCHANGED <<policy, rrVars, upVars, tried, big, hit, todo, avail, tooSmall, result,
                     steady>>
  BY DEF Reported, Goto, inVars, callVars
<1>2. pc' \in [Calls -> Steps] /\ pc'[c] = "reported"
  BY <1>1, Holds DEF CallTypes, Steps
<1>3. CallTypes'
  BY <1>1, <1>2, Holds DEF CallTypes
<1>4. OnlyCall(c)
  BY <1>1, Holds DEF OnlyCall, CallTypes
<1>5. GroupTypes'
  <2>1. CASE \E r \in {"normal", "abnormal"} : SetCache(result[c], r)
    BY <1>1, <2>1, WritesRow DEF Reported
  <2>2. CASE UNCHANGED <<cached, fresh>>
    BY <1>1, <2>2, Holds DEF GroupTypes
  <2> QED
    BY <2>1, <2>2 DEF Reported
<1>6. CallInv(c)'
  <2>1. CallInv(c)
    BY Holds
  <2> QED
    BY <1>1, <1>2, <2>1
       DEF CallInv, Avoids, InHand, SteadyServes, SteadyAhead, Ended, Looking
<1> QED
  BY <1>1, <1>3, <1>4, <1>5, <1>6, CallStep

(* The row of target_cache grows old or is deleted, and steps that change  *)
(* nothing.                                                                *)
LEMMA RowStep ==
  ASSUME IInv, RowAges \/ InvalidateCache \/ Quiescent \/ UNCHANGED vars
  PROVE  IInv'
<1>1. UNCHANGED <<rrVars, up, view, pc, tried, big, hit, todo, avail, tooSmall, result, steady>>
  BY DEF RowAges, InvalidateCache, Quiescent, vars, upVars, inVars, callVars
<1>2. GroupTypes'
  BY Holds DEF RowAges, InvalidateCache, Quiescent, vars, groupVars, GroupTypes
<1>3. UpTypes'
  BY Holds, SelectionAssumption
     DEF RowAges, InvalidateCache, Quiescent, Change, vars, upVars, UpTypes
<1>4. RoundTypes' /\ EvenTurns'
  BY <1>1, Holds DEF RoundTypes, EvenTurns, rrVars
<1>5. CallTypes'
  BY <1>1, Holds DEF CallTypes
<1>6. \A c \in Calls : CallInv(c)'
  BY <1>1, Holds DEF CallInv, Avoids, InHand, SteadyServes, SteadyAhead, Fits
<1> QED
  BY <1>2, <1>3, <1>4, <1>5, <1>6, PartsAfter DEF IInv, CallInv

LEMMA TurnsStep ==
  ASSUME IInv, NEW m \in Targets, Turns(m)
  PROVE  IInv'
<1>1. UNCHANGED <<groupVars, rrVars, view, pc, tried, big, hit, todo, avail, tooSmall, result>>
  BY DEF Turns, inVars, callVars
<1>2. up' \in [Targets -> BOOLEAN] /\ \A x \in Targets \ {m} : up'[x] = up[x]
  BY Holds DEF Turns, UpTypes
<1>3. UpTypes'
  BY <1>1, <1>2, Holds, SelectionAssumption DEF Turns, Change, UpTypes
<1>4. \A c \in Calls : /\ steady'[c] \subseteq steady[c]
                       /\ pc[c] \notin Ended => m \notin steady'[c]
  BY DEF Turns, Ended
<1>5. steady' \in [Calls -> SUBSET Targets]
  BY Holds DEF Turns, CallTypes
<1>6. CallTypes' /\ GroupTypes'
  BY <1>1, <1>5, Holds DEF CallTypes, GroupTypes, groupVars
<1>7. RoundTypes' /\ EvenTurns'
  BY <1>1, Holds DEF RoundTypes, EvenTurns, rrVars
<1>8. ASSUME NEW c \in Calls
      PROVE  CallInv(c)'
  <2>1. CallInv(c) /\ steady[c] \in SUBSET Targets
    BY Holds, CallTyped
  <2>2. Avoids(c)' /\ InHand(c)'
    BY <1>1, <2>1 DEF CallInv, Avoids, InHand
  <2>3. SteadyServes(c)'
    BY <1>1, <1>2, <1>4, <2>1 DEF CallInv, SteadyServes, Fits
  <2>4. SteadyAhead(c)'
    BY <1>1, <1>4, <2>1 DEF CallInv, SteadyAhead
  <2> QED
    BY <2>2, <2>3, <2>4 DEF CallInv
<1> QED
  BY <1>3, <1>6, <1>7, <1>8, PartsAfter DEF IInv, CallInv

LEMMA LearnsStep ==
  ASSUME IInv, NEW m \in Targets, Learns(m)
  PROVE  IInv'
<1>1. UNCHANGED <<groupVars, rrVars, up, pc, tried, big, hit, todo, avail, tooSmall, result,
                  steady>>
  BY DEF Learns, inVars, callVars
<1>2. /\ view' \in [Targets -> BOOLEAN] /\ view'[m] = up[m]
      /\ \A x \in Targets \ {m} : view'[x] = view[x]
  BY Holds DEF Learns, UpTypes
<1>3. UpTypes'
  BY <1>1, <1>2, Holds, SelectionAssumption DEF Learns, Change, UpTypes
<1>4. CallTypes' /\ GroupTypes'
  BY <1>1, Holds DEF CallTypes, GroupTypes, groupVars
<1>5. RoundTypes' /\ EvenTurns'
  BY <1>1, Holds DEF RoundTypes, EvenTurns, rrVars
<1>6. ASSUME NEW c \in Calls
      PROVE  CallInv(c)'
  <2>1. CallInv(c) /\ steady[c] \in SUBSET Targets
    BY Holds, CallTyped
  <2>2. Avoids(c)' /\ InHand(c)' /\ SteadyAhead(c)'
    BY <1>1, <2>1 DEF CallInv, Avoids, InHand, SteadyAhead
  <2>3. SteadyServes(c)'
    BY <1>1, <1>2, <2>1 DEF CallInv, SteadyServes, Fits
  <2> QED
    BY <2>2, <2>3 DEF CallInv
<1> QED
  BY <1>3, <1>4, <1>5, <1>6, PartsAfter DEF IInv, CallInv
-----------------------------------------------------------------------------
(* The state a group starts in, and the invariant of every execution.      *)
LEMMA Initially == Init => IInv
<1> SUFFICES ASSUME Init PROVE IInv
  OBVIOUS
<1>1. GroupTypes /\ UpTypes
  <2>1. GroupTypes
    BY DEF Init, GroupTypes
  <2>2. changes \in 0 .. MaxChanges
    BY SelectionAssumption DEF Init
  <2>3. up \in [Targets -> BOOLEAN] /\ view = up
    BY DEF Init
  <2> QED
    BY <2>1, <2>2, <2>3 DEF UpTypes
<1>2. RoundTypes
  BY MembersAreListed DEF Init, RoundTypes, N
<1>3. <<>> \in Seq(Targets) /\ IsInjective(<<>>) /\ ToSet(<<>>) = {}
  BY NothingListed DEF Lists
<1>4. CallTypes
  BY <1>3 DEF Init, CallTypes, Steps, Results
<1>5. EvenTurns
  <2>1. 0 % N = 0
    BY MembersAreListed
  <2>2. \A i \in 1 .. N : starts[Members[i]] = IF i <= counter % N THEN 0 + 1 ELSE 0
    BY <2>1, MembersAreListed DEF Init
  <2> QED
    BY <2>2 DEF Init, EvenTurns
<1>6. ASSUME NEW c \in Calls
      PROVE  CallInv(c)
  <2>1. /\ pc[c] = "idle" /\ hit[c] = None /\ todo[c] = <<>> /\ result[c] = None
        /\ steady[c] = {} /\ tried[c] = {}
    BY DEF Init
  <2>2. Avoids(c) /\ InHand(c)
    BY <1>3, <2>1 DEF Avoids, InHand
  <2>3. SteadyServes(c) /\ SteadyAhead(c)
    BY <2>1 DEF SteadyServes, SteadyAhead, Looking
  <2> QED
    BY <2>2, <2>3 DEF CallInv
<1> QED
  BY <1>1, <1>2, <1>4, <1>5, <1>6, Parts DEF IInv, CallInv

LEMMA Inductive == IInv /\ [Next]_vars => IInv'
BY StartStep, ResolveCachedStep, MarkCachedStep, EvaluateStep, OrderStep, UnknownPolicyStep,
   CandidateStep, MarkUnresolvedStep, KeepSelectedStep, NoneLeftStep, FailsStep, ReportedStep,
   RowStep, TurnsStep, LearnsStep DEF Next

LEMMA AlwaysIInv == Spec => []IInv
BY Initially, Inductive, PTL DEF Spec

(* Every variable keeps its type; in particular the candidates of a call   *)
(* are members of the group, each once, whatever the policy makes of their *)
(* order.                                                                  *)
THEOREM TypesKept == Spec => []TypeOK
<1>1. IInv => TypeOK
  BY DEF IInv
<1> QED
  BY <1>1, AlwaysIInv, PTL

(* No target the caller has asked to avoid is leased, neither from the row *)
(* of target_cache, however often other calls rewrite it, nor from the     *)
(* candidates.                                                             *)
THEOREM TriedTargetsAreAvoided == Spec => []NeverATriedTarget
<1>1. IInv => NeverATriedTarget
  BY DEF IInv, Avoids, NeverATriedTarget
<1> QED
  BY <1>1, AlwaysIInv, PTL

(* Select gives up only if no member could have served the request from    *)
(* its start to its end.                                                   *)
THEOREM NobodyIsPassedOver == Spec => []GivesUpOnlyIfNobodyCould
<1>1. IInv => GivesUpOnlyIfNobodyCould
  BY DEF IInv, SteadyAhead, GivesUpOnlyIfNobodyCould
<1> QED
  BY <1>1, AlwaysIInv, PTL

(* The turns of any two members differ by one at most, however the calls   *)
(* of all replicas interleave.                                             *)
THEOREM RoundRobinIsFair == Spec => []TurnsAreEven
<1>1. ASSUME IInv, undisturbed, NEW x \in Targets, NEW y \in Targets
      PROVE  starts[x] - starts[y] <= 1
  <2>1. PICK q \in Nat : \A i \in 1 .. N :
          starts[Members[i]] = IF i <= counter % N THEN q + 1 ELSE q
    BY <1>1 DEF IInv, EvenTurns
  <2>2. starts[x] \in {q, q + 1} /\ starts[y] \in {q, q + 1}
    BY <2>1, MembersAreListed
  <2> QED
    BY <2>2
<1>2. IInv => TurnsAreEven
  BY <1>1 DEF TurnsAreEven
<1> QED
  BY <1>2, AlwaysIInv, PTL
=============================================================================
