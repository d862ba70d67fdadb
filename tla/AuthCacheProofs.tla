-------------------------- MODULE AuthCacheProofs --------------------------
(***************************************************************************)
(* Proofs about AuthCache, for any number of replicas, calls,              *)
(* administrators and models, any lifetimes and any number of changes and  *)
(* faults: an entry that contradicts its row has a reason, and no row is   *)
(* answered from after an entry's lifetime and a command's time.           *)
(***************************************************************************)
EXTENDS AuthCache, TLAPS

(* The stored row has not been replaced yet.                               *)
LastIsStored == \A m \in Models : history[m][Len(history[m])].past = 0

(* Whoever is under way knows where it is and what it is about.            *)
Busy ==
  /\ \A c \in Calls : call[c].at \in {"query", "fill"} => call[c].req \in Requests
  /\ \A a \in Admins : admin[a].at # "idle" => admin[a].model \in Models

(* A call caches what a row was when it read it, no longer ago than it     *)
(* has been about it.                                                      *)
AsRead(c, h) ==
  /\ call[c].read \in DOMAIN h
  /\ call[c].row = Published(h[call[c].read].row)
  /\ h[call[c].read].past <= call[c].lag

FillsAsRead ==
  \A c \in Calls : call[c].at = "fill" => AsRead(c, history[call[c].req.model])

(* An entry is what a row was, and has the less to live the longer ago.    *)
OnceStored(entry, h) ==
  \E i \in DOMAIN h : /\ entry.row = Published(h[i].row)
                      /\ h[i].past + entry.left <= TTL + MaxLag

EntriesOnceStored == \A m \in Models : cache[m] # None => OnceStored(cache[m], history[m])

(* The inductive invariant.                                                *)
IInv ==
  /\ TypeOK /\ Busy
  /\ LastIsStored /\ FillsAsRead /\ EntriesOnceStored
  /\ StaleForAReason
-----------------------------------------------------------------------------
LEMMA Bounds == /\ TTL \in Nat \ {0} /\ DownFor \in Nat \ {0}
                /\ MaxLag \in Nat /\ MaxChanges \in Nat /\ MaxFaults \in Nat
                /\ Cap \in Nat /\ Cap = TTL + MaxLag + 1
BY AuthCacheAssumption DEF Cap

LEMMA NothingKnown == None \in Rows /\ None \in Known
BY DEF Rows, Known, Published

LEMMA OfRequests == \A q \in Requests : q.model \in Models
BY AuthCacheAssumption

CallType == [at : {"idle", "query", "fill", "answered"},
             replica : Replicas \cup {None}, req : Requests \cup {None},
             row : Known, read : Nat, lag : 0..MaxLag, since : Nat, answer : Answers]
AdminType == [at : {"idle", "commit", "invalidate"},
              replica : Replicas \cup {None}, model : Models \cup {None},
              row : Rows, mine : Nat]
RowType == [row : Rows, past : 0..Cap]
EntryType == [row : Known, left : 1..TTL]

LEMMA Types ==
  ASSUME TypeOK
  PROVE  /\ history \in [Models -> Seq(RowType)]
         /\ \A m \in Models : /\ history[m] \in Seq(RowType) /\ Len(history[m]) \in Nat \ {0}
                              /\ DOMAIN history[m] = 1..Len(history[m])
                              /\ \A i \in DOMAIN history[m] : history[m][i] \in RowType
                              /\ Stored(m) \in Rows
         /\ cache \in [Models -> EntryType \cup {None}]
         /\ call \in [Calls -> CallType]
         /\ admin \in [Admins -> AdminType]
         /\ excuse \in [Models -> SUBSET {"filled_late", "not_deleted"}]
         /\ Idle \in CallType /\ Resting \in AdminType
<1>1. /\ history \in [Models -> Seq(RowType)]
      /\ \A m \in Models : history[m] # <<>>
  BY DEF TypeOK, RowType
<1>2. ASSUME NEW m \in Models
      PROVE  /\ history[m] \in Seq(RowType) /\ Len(history[m]) \in Nat \ {0}
             /\ DOMAIN history[m] = 1..Len(history[m])
             /\ \A i \in DOMAIN history[m] : history[m][i] \in RowType
             /\ Stored(m) \in Rows
  <2>1. history[m] \in Seq(RowType) /\ history[m] # <<>>
    BY <1>1
  <2>2. Len(history[m]) \in Nat \ {0} /\ DOMAIN history[m] = 1..Len(history[m])
    BY <2>1
  <2>3. \A i \in DOMAIN history[m] : history[m][i] \in RowType
    BY <2>1
  <2>4. history[m][Len(history[m])] \in RowType
    BY <2>2, <2>3
  <2> QED
    BY <2>1, <2>2, <2>3, <2>4 DEF Stored, RowType
<1>3. Idle \in CallType /\ Resting \in AdminType
  BY Bounds, NothingKnown DEF Idle, Resting, CallType, AdminType, Answers
<1> QED
  BY <1>1, <1>2, <1>3 DEF TypeOK, EntryType, CallType, AdminType

(* The rows of a model: those of before, and perhaps one that is new.      *)
Extends ==
  \A m \in Models : /\ Len(history[m]) <= Len(history'[m])
                    /\ \A i \in DOMAIN history[m] : /\ i \in DOMAIN history'[m]
                                                    /\ history'[m][i] = history[m][i]

(* Nothing that is cached and nothing about to be is touched.              *)
LEMMA KeepsFills ==
  ASSUME IInv, Extends,
         \A c \in Calls : call'[c].at = "fill" => call'[c] = call[c]
  PROVE  FillsAsRead'
<1> SUFFICES ASSUME NEW c \in Calls, call'[c].at = "fill"
             PROVE  AsRead(c, history[call[c].req.model])'
  BY DEF FillsAsRead
<1>1. call'[c] = call[c] /\ call[c].req.model \in Models
  BY OfRequests DEF IInv, Busy
<1>2. AsRead(c, history[call[c].req.model])
  BY <1>1 DEF IInv, FillsAsRead
<1> QED
  BY <1>1, <1>2 DEF AsRead, Extends

LEMMA KeepsEntries ==
  ASSUME IInv, Extends, \A m \in Models : cache'[m] \in {cache[m], None}
  PROVE  EntriesOnceStored'
<1> SUFFICES ASSUME NEW m \in Models, cache'[m] # None
             PROVE  OnceStored(cache'[m], history'[m])
  BY DEF EntriesOnceStored, OnceStored
<1>1. cache'[m] = cache[m]
  OBVIOUS
<1>2. PICK i \in DOMAIN history[m] : /\ cache[m].row = Published(history[m][i].row)
                                     /\ history[m][i].past + cache[m].left <= TTL + MaxLag
  BY <1>1 DEF IInv, EntriesOnceStored, OnceStored
<1> QED
  BY <1>1, <1>2 DEF OnceStored, Extends

LEMMA KeepsReasons ==
  ASSUME IInv, UNCHANGED history,
         \A m \in Models : \/ cache'[m] = None
                           \/ cache'[m] = cache[m] /\ excuse'[m] = excuse[m],
         \A a \in Admins : admin[a].at = "invalidate" => admin'[a] = admin[a]
  PROVE  StaleForAReason'
BY DEF IInv, StaleForAReason, Stored

(* A statement that writes a row.                                          *)
LEMMA Writing ==
  ASSUME IInv, NEW m \in Models, NEW row \in Rows, Write(m, row)
  PROVE  /\ history' \in [Models -> Seq(RowType)]
         /\ \A n \in Models : history'[n] # <<>>
         /\ Extends /\ LastIsStored'
         /\ \A n \in Models : n # m => history'[n] = history[n]
<1> DEFINE new == [row |-> row, past |-> 0]
<1>1. /\ \A n \in Models : n # m => history'[n] = history[n]
      /\ history'[m] \in {history[m], Append(history[m], new)}
      /\ history' = [n \in Models |-> history'[n]]
  BY Types DEF Write, IInv
<1>2. new \in RowType
  BY Bounds DEF RowType
<1>3. ASSUME NEW n \in Models
      PROVE  /\ history'[n] \in Seq(RowType) /\ history'[n] # <<>>
             /\ Len(history[n]) <= Len(history'[n])
             /\ \A i \in DOMAIN history[n] : /\ i \in DOMAIN history'[n]
                                             /\ history'[n][i] = history[n][i]
             /\ history'[n][Len(history'[n])].past = 0
  <2>1. /\ history[n] \in Seq(RowType) /\ Len(history[n]) \in Nat \ {0}
        /\ DOMAIN history[n] = 1..Len(history[n])
        /\ history[n][Len(history[n])].past = 0
    BY Types DEF IInv, LastIsStored
  <2>2. CASE history'[n] = history[n]
    BY <2>1, <2>2
  <2>3. CASE history'[n] = Append(history[n], new)
    <3>1. /\ history'[n] \in Seq(RowType) /\ Len(history'[n]) = Len(history[n]) + 1
          /\ DOMAIN history'[n] = 1..(Len(history[n]) + 1)
          /\ history'[n][Len(history[n]) + 1] = new
          /\ \A i \in 1..Len(history[n]) : history'[n][i] = history[n][i]
      BY <1>2, <2>1, <2>3
    <3> QED
      BY <2>1, <3>1
  <2> QED
    BY <1>1, <2>2, <2>3
<1> QED
  BY <1>1, <1>3 DEF Extends, LastIsStored

LEMMA Unwritten == ASSUME IInv, UNCHANGED history PROVE Extends /\ LastIsStored'
<1>1. \A m \in Models : Len(history[m]) \in Nat
  BY Types DEF IInv
<1> QED
  BY <1>1 DEF Extends, LastIsStored, IInv

(* Commands to Redis, and what may go wrong.                               *)
LEMMA Faulting == ASSUME TypeOK, Fault PROVE faults' \in 0..MaxFaults
BY Bounds DEF TypeOK, Fault

LEMMA Commanding ==
  ASSUME TypeOK, NEW r, Reaches(r) \/ Refuses(r) \/ Breaks(r)
  PROVE  down' \in [Replicas -> 0..DownFor] /\ faults' \in 0..MaxFaults
<1>1. down \in [Replicas -> 0..DownFor] /\ faults \in 0..MaxFaults
  BY DEF TypeOK
<1>2. CASE Reaches(r) \/ Refuses(r)
  BY <1>1, <1>2 DEF Reaches, Refuses
<1>3. CASE Breaks(r)
  <2>1. [down EXCEPT ![r] = DownFor] \in [Replicas -> 0..DownFor]
    <3>1. DownFor \in 0..DownFor
      BY Bounds
    <3> QED
      BY <1>1, <3>1
  <2>2. down' \in {down, [down EXCEPT ![r] = DownFor]} /\ Fault
    BY <1>3 DEF Breaks
  <2> QED
    BY <1>1, <2>1, <2>2, Faulting
<1> QED
  BY <1>2, <1>3

LEMMA Dropping ==
  ASSUME TypeOK, NEW m \in Models, Drop(m)
  PROVE  /\ cache' \in [Models -> EntryType \cup {None}]
         /\ excuse' \in [Models -> SUBSET {"filled_late", "not_deleted"}]
         /\ cache'[m] = None
         /\ \A n \in Models : n # m => cache'[n] = cache[n] /\ excuse'[n] = excuse[n]
BY Types DEF Drop

LEMMA Keeping ==
  ASSUME TypeOK, NEW m \in Models, Keep(m)
  PROVE  /\ UNCHANGED cache
         /\ excuse' \in [Models -> SUBSET {"filled_late", "not_deleted"}]
         /\ cache[m] # None => excuse'[m] # {}
         /\ \A n \in Models : n # m => excuse'[n] = excuse[n]
BY Types DEF Keep

LEMMA Putting ==
  ASSUME TypeOK, NEW m \in Models, NEW row \in Known, NEW read, Put(m, row, read)
  PROVE  /\ cache' \in [Models -> EntryType \cup {None}]
         /\ excuse' \in [Models -> SUBSET {"filled_late", "not_deleted"}]
         /\ cache'[m] = [row |-> row, left |-> TTL]
         /\ read < Len(history[m]) => excuse'[m] # {}
         /\ \A n \in Models : n # m => cache'[n] = cache[n] /\ excuse'[n] = excuse[n]
BY Types, Bounds DEF Put, Entry, EntryType
-----------------------------------------------------------------------------
(* One lemma per action, with one step per part of the invariant.          *)

LEMMA InitInv == Init => IInv
<1> SUFFICES ASSUME Init PROVE IInv
  OBVIOUS
<1>1. \A m \in Models : \E row \in Rows : history[m] = <<[row |-> row, past |-> 0]>>
  BY DEF Init, Rows
<1>2. history \in [Models -> Seq([row : Rows, past : 0..Cap])]
  <2>1. DOMAIN history = Models /\ history = [m \in Models |-> history[m]]
    BY DEF Init
  <2>2. ASSUME NEW row \in Rows
        PROVE  <<[row |-> row, past |-> 0]>> \in Seq([row : Rows, past : 0..Cap])
    <3>1. [row |-> row, past |-> 0] \in [row : Rows, past : 0..Cap]
      BY Bounds
    <3> QED
      BY <3>1
  <2> QED
    BY <1>1, <2>1, <2>2
<1>3. TypeOK
  <2>1. \A m \in Models : history[m] # <<>>
    <3>1. \A row : <<[row |-> row, past |-> 0]>> # <<>>
      OBVIOUS
    <3> QED
      BY <1>1, <3>1
  <2>2. Idle \in CallType /\ Resting \in AdminType
    BY Bounds, NothingKnown DEF Idle, Resting, CallType, AdminType, Answers
  <2>3. call \in [Calls -> CallType] /\ admin \in [Admins -> AdminType]
    BY <2>2 DEF Init
  <2>4. cache \in [Models -> [row : Known, left : 1..TTL] \cup {None}]
    BY DEF Init
  <2>5. /\ down \in [Replicas -> 0..DownFor] /\ acked \in [Models -> Nat]
        /\ changes \in 0..MaxChanges /\ faults \in 0..MaxFaults
    BY Bounds DEF Init
  <2>6. excuse \in [Models -> SUBSET {"filled_late", "not_deleted"}]
    BY DEF Init
  <2> QED
    BY <1>2, <2>1, <2>3, <2>4, <2>5, <2>6 DEF TypeOK, CallType, AdminType
<1>4. LastIsStored
  <2> SUFFICES ASSUME NEW m \in Models PROVE history[m][Len(history[m])].past = 0
    BY DEF LastIsStored
  <2>1. PICK row \in Rows : history[m] = <<[row |-> row, past |-> 0]>>
    BY <1>1
  <2>2. Len(history[m]) = 1 /\ history[m][1] = [row |-> row, past |-> 0]
    BY <2>1
  <2> QED
    BY <2>2
<1>5. Busy /\ FillsAsRead /\ EntriesOnceStored /\ StaleForAReason
  BY DEF Init, Busy, FillsAsRead, EntriesOnceStored, StaleForAReason, Idle, Resting
<1> QED
  BY <1>3, <1>4, <1>5 DEF IInv

LEMMA LookupInv ==
  ASSUME IInv, NEW c \in Calls, NEW r \in Replicas, NEW q \in Requests, Lookup(c, r, q)
  PROVE  IInv'
<1>1. TypeOK /\ q.model \in Models
  BY OfRequests DEF IInv
<1>2. UNCHANGED <<history, cache, admin, changes, acked, excuse>>
  BY DEF Lookup
<1>3. /\ call' = [call EXCEPT ![c] = call'[c]]
      /\ call'[c] \in CallType /\ call'[c].at # "fill" /\ call'[c].req = q
  <2> DEFINE begun == [Idle EXCEPT !.replica = r, !.req = q, !.since = acked[q.model]]
  <2>1. begun \in CallType /\ begun.req = q
    BY <1>1, Types DEF Idle, CallType, TypeOK
  <2>2. CASE call' = [call EXCEPT ![c] = [begun EXCEPT !.at = "query"]]
    <3>1. [begun EXCEPT !.at = "query"] \in CallType
      BY <2>1 DEF CallType
    <3> QED
      BY <1>1, <2>1, <2>2, <3>1, Types DEF CallType
  <2>3. CASE /\ cache[q.model] # None
             /\ call' = [call EXCEPT ![c] = [begun EXCEPT !.at = "answered",
                           !.replica = None, !.answer = Verdict(cache[q.model].row, q)]]
    <3>1. Verdict(cache[q.model].row, q) \in Answers
      BY <1>1, <2>3, Types DEF EntryType, Answers
    <3>2. [begun EXCEPT !.at = "answered", !.replica = None,
                        !.answer = Verdict(cache[q.model].row, q)] \in CallType
      BY <2>1, <3>1 DEF CallType
    <3> QED
      BY <1>1, <2>1, <2>3, <3>2, Types DEF CallType
  <2> QED
    BY <2>2, <2>3 DEF Lookup
<1>4. TypeOK'
  <2>1. down' \in [Replicas -> 0..DownFor] /\ faults' \in 0..MaxFaults
    BY <1>1, Commanding DEF Lookup
  <2>2. call' \in [Calls -> CallType]
    BY <1>1, <1>3, Types
  <2> QED
    BY <1>1, <1>2, <2>1, <2>2 DEF TypeOK, CallType
<1>5. \A d \in Calls : d # c => call'[d] = call[d]
  BY <1>1, <1>3, Types
<1>6. Busy'
  BY <1>2, <1>3, <1>5 DEF IInv, Busy
<1>7. FillsAsRead'
  BY <1>2, <1>3, <1>5, Unwritten, KeepsFills
<1> QED
  BY <1>2, <1>4, <1>6, <1>7, Unwritten, KeepsEntries, KeepsReasons DEF IInv

(* What an answer leaves of a call.                                        *)
LEMMA Answering ==
  ASSUME TypeOK, NEW c \in Calls, NEW verdict \in Answers, Answer(c, verdict)
  PROVE  /\ call' \in [Calls -> CallType] /\ call'[c].at = "answered"
         /\ \A d \in Calls : d # c => call'[d] = call[d]
<1> DEFINE done == [Idle EXCEPT !.at = "answered", !.req = call[c].req,
                                !.since = call[c].since, !.answer = verdict]
<1>1. Idle \in CallType /\ call[c] \in CallType
  BY Types
<1>2. done \in CallType /\ done.at = "answered"
  BY <1>1 DEF CallType
<1> QED
  BY <1>2, Types DEF Answer

LEMMA QueryInv ==
  ASSUME IInv, NEW c \in Calls, Query(c)
  PROVE  IInv'
<1> DEFINE m == call[c].req.model
<1>1. /\ TypeOK /\ call[c].req \in Requests /\ m \in Models /\ call[c] \in CallType
      /\ UNCHANGED <<history, cache, down, admin, changes, acked, excuse>>
  BY OfRequests, Types DEF IInv, Busy, Query
<1>2. CASE /\ call' = [call EXCEPT ![c].at = "fill", ![c].row = Published(Stored(m)),
                                   ![c].read = Len(history[m])]
           /\ UNCHANGED faults
  <2> DEFINE reading == [call[c] EXCEPT !.at = "fill", !.row = Published(Stored(m)),
                                        !.read = Len(history[m])]
  <2>1. Published(Stored(m)) \in Known /\ Len(history[m]) \in Nat
    BY <1>1, Types DEF Known
  <2>2. /\ reading \in CallType /\ reading.at = "fill" /\ reading.req = call[c].req
        /\ reading.row = Published(Stored(m)) /\ reading.read = Len(history[m])
        /\ reading.lag = call[c].lag /\ call[c].lag \in 0..MaxLag
    BY <1>1, <2>1 DEF CallType
  <2>3. call' = [call EXCEPT ![c] = reading]
    BY <1>1, <1>2, Types DEF CallType
  <2>4. /\ call' \in [Calls -> CallType] /\ call'[c] = reading
        /\ \A d \in Calls : d # c => call'[d] = call[d]
    BY <1>1, <2>2, <2>3, Types
  <2>5. TypeOK'
    BY <1>1, <1>2, <2>4 DEF TypeOK, CallType
  <2>6. Busy'
    BY <1>1, <2>2, <2>4 DEF IInv, Busy
  <2>7. ASSUME NEW d \in Calls, call'[d].at = "fill"
        PROVE  AsRead(d, history[call[d].req.model])'
    <3>1. CASE d = c
      <4>1. /\ Len(history[m]) \in DOMAIN history[m]
            /\ history[m][Len(history[m])].past = 0
        BY <1>1, Types DEF IInv, LastIsStored
      <4>2. /\ call'[d] = reading /\ reading.req.model = m /\ history' = history
            /\ reading.read \in DOMAIN history[m]
            /\ reading.row = Published(history[m][reading.read].row)
        BY <1>1, <2>2, <2>4, <3>1, <4>1 DEF Stored
      <4>3. history[m][reading.read].past <= reading.lag
        <5>1. 0 <= call[c].lag
          BY <2>2, Bounds
        <5> HIDE DEF reading
        <5> QED
          BY <2>2, <4>1, <5>1
      <4> QED
        BY <2>2, <4>2, <4>3 DEF AsRead
    <3>2. CASE d # c
      BY <1>1, <2>4, <2>7, <3>2 DEF IInv, FillsAsRead, AsRead
    <3> QED
      BY <3>1, <3>2
  <2> QED
    BY <1>1, <2>5, <2>6, <2>7, Unwritten, KeepsEntries, KeepsReasons DEF IInv, FillsAsRead
<1>3. CASE Fault /\ Answer(c, Failed)
  <2>1. /\ call' \in [Calls -> CallType] /\ call'[c].at = "answered"
        /\ \A d \in Calls : d # c => call'[d] = call[d]
    BY <1>1, <1>3, Answering DEF Answers
  <2>2. TypeOK'
    BY <1>1, <1>3, <2>1, Faulting DEF TypeOK, CallType
  <2>3. Busy' /\ FillsAsRead'
    BY <1>1, <2>1, Unwritten, KeepsFills DEF IInv, Busy
  <2> QED
    BY <1>1, <2>2, <2>3, Unwritten, KeepsEntries, KeepsReasons DEF IInv
<1> QED
  BY <1>2, <1>3 DEF Query

LEMMA FillInv ==
  ASSUME IInv, NEW c \in Calls, Fill(c)
  PROVE  IInv'
<1> DEFINE m == call[c].req.model
           row == call[c].row
<1>1. /\ TypeOK /\ call[c].req \in Requests /\ m \in Models /\ call[c] \in CallType
      /\ row \in Known
      /\ UNCHANGED <<history, admin, changes, acked>>
  BY OfRequests, Types DEF IInv, Busy, Fill, CallType
<1>2. /\ down' \in [Replicas -> 0..DownFor] /\ faults' \in 0..MaxFaults
  BY <1>1, Commanding DEF Fill
<1>3. /\ call' \in [Calls -> CallType] /\ call'[c].at = "answered"
      /\ \A d \in Calls : d # c => call'[d] = call[d]
  <2>1. Verdict(row, call[c].req) \in Answers
    BY <1>1 DEF Answers
  <2> QED
    BY <1>1, <2>1, Answering DEF Fill
<1>4. Busy' /\ FillsAsRead' /\ LastIsStored'
  BY <1>1, <1>3, Unwritten, KeepsFills DEF IInv, Busy
<1>5. CASE UNCHANGED <<cache, excuse>>
  <2>1. TypeOK'
    BY <1>1, <1>2, <1>3, <1>5 DEF TypeOK, CallType
  <2> QED
    BY <1>1, <1>4, <1>5, <2>1, Unwritten, KeepsEntries, KeepsReasons DEF IInv
<1>6. CASE Put(m, row, call[c].read)
  <2>1. /\ cache' \in [Models -> EntryType \cup {None}]
        /\ excuse' \in [Models -> SUBSET {"filled_late", "not_deleted"}]
        /\ cache'[m] = [row |-> row, left |-> TTL]
        /\ call[c].read < Len(history[m]) => excuse'[m] # {}
        /\ \A n \in Models : n # m => cache'[n] = cache[n] /\ excuse'[n] = excuse[n]
    BY <1>1, <1>6, Putting
  <2>2. TypeOK'
    BY <1>1, <1>2, <1>3, <2>1 DEF TypeOK, CallType, EntryType
  <2>3. AsRead(c, history[m])
    BY DEF IInv, FillsAsRead, Fill
  <2>4. history[m][call[c].read].past \in Nat /\ call[c].lag \in 0..MaxLag
    BY <1>1, <2>3, Types, Bounds DEF AsRead, RowType, CallType
  <2>5. ASSUME NEW n \in Models, cache'[n] # None
        PROVE  OnceStored(cache'[n], history'[n])
    <3>1. CASE n = m
      <4>1. cache'[n].row = row /\ cache'[n].left = TTL /\ history'[n] = history[m]
        BY <1>1, <2>1, <3>1
      <4>2. history[m][call[c].read].past + TTL <= TTL + MaxLag
        BY <2>3, <2>4, Bounds DEF AsRead
      <4> QED
        BY <2>3, <4>1, <4>2 DEF AsRead, OnceStored
    <3>2. CASE n # m
      BY <1>1, <2>1, <2>5, <3>2 DEF IInv, EntriesOnceStored
    <3> QED
      BY <3>1, <3>2
  <2>6. EntriesOnceStored'
    BY <2>5 DEF EntriesOnceStored, OnceStored
  <2>7. excuse'[m] # {} \/ cache'[m].row = Published(Stored(m))
    <3>1. call[c].read \in 1..Len(history[m]) /\ Len(history[m]) \in Nat
      BY <1>1, <2>3, Types DEF AsRead
    <3>2. CASE call[c].read < Len(history[m])
      BY <2>1, <3>2
    <3>3. CASE call[c].read = Len(history[m])
      BY <2>1, <2>3, <3>3 DEF AsRead, Stored
    <3> QED
      BY <3>1, <3>2, <3>3
  <2>8. StaleForAReason'
    BY <1>1, <2>1, <2>7 DEF IInv, StaleForAReason, Stored
  <2> QED
    BY <1>4, <2>2, <2>6, <2>8 DEF IInv
<1> QED
  BY <1>5, <1>6 DEF Fill

LEMMA LeaveInv ==
  ASSUME IInv, NEW c \in Calls, Leave(c)
  PROVE  IInv'
<1>1. /\ TypeOK
      /\ UNCHANGED <<history, cache, down, admin, changes, faults, acked, excuse>>
  BY DEF IInv, Leave
<1>2. /\ call' \in [Calls -> CallType] /\ call'[c] = Idle /\ Idle.at = "idle"
      /\ \A d \in Calls : d # c => call'[d] = call[d]
  BY <1>1, Types DEF Leave, Idle
<1>3. TypeOK'
  BY <1>1, <1>2 DEF TypeOK, CallType
<1>4. Busy' /\ FillsAsRead'
  BY <1>1, <1>2, Unwritten, KeepsFills DEF IInv, Busy
<1> QED
  BY <1>1, <1>3, <1>4, Unwritten, KeepsEntries, KeepsReasons DEF IInv

LEMMA BeginsInv ==
  ASSUME IInv, NEW a \in Admins, NEW r \in Replicas, NEW m \in Models, NEW row \in Rows,
         admin[a].at = "idle", Begins(a, r, m, row)
  PROVE  IInv'
<1> DEFINE begun == [Resting EXCEPT !.at = "commit", !.replica = r, !.model = m, !.row = row]
<1>1. /\ TypeOK
      /\ UNCHANGED <<history, cache, down, call, faults, acked, excuse>>
      /\ admin' = [admin EXCEPT ![a] = begun]
  BY DEF IInv, Begins
<1>2. begun \in AdminType /\ begun.at = "commit" /\ begun.model = m
  BY <1>1, Types DEF AdminType, Resting
<1>3. /\ admin' \in [Admins -> AdminType] /\ admin'[a] = begun
      /\ \A b \in Admins : b # a => admin'[b] = admin[b]
  BY <1>1, <1>2, Types
<1>4. changes' \in 0..MaxChanges
  BY <1>1, Bounds DEF Begins, TypeOK
<1>5. TypeOK'
  BY <1>1, <1>3, <1>4 DEF TypeOK, AdminType
<1>6. Busy' /\ FillsAsRead'
  BY <1>1, <1>2, <1>3, Unwritten, KeepsFills DEF IInv, Busy
<1>7. \A b \in Admins : admin[b].at = "invalidate" => admin'[b] = admin[b]
  BY <1>3
<1> QED
  BY <1>1, <1>5, <1>6, <1>7, Unwritten, KeepsEntries, KeepsReasons DEF IInv

LEMMA CommitInv ==
  ASSUME IInv, NEW a \in Admins, Commit(a)
  PROVE  IInv'
<1> DEFINE m == admin[a].model
           row == admin[a].row
<1>1. /\ TypeOK /\ m \in Models /\ row \in Rows /\ admin[a] \in AdminType
      /\ admin[a].at = "commit"
      /\ UNCHANGED <<down, call, changes, acked>>
  BY Types DEF IInv, Busy, Commit, AdminType
<1>2. CASE /\ Write(m, row)
           /\ admin' = [admin EXCEPT ![a].at = "invalidate", ![a].mine = Len(history'[m])]
           /\ UNCHANGED <<cache, excuse, faults>>
  <2> DEFINE next == [admin[a] EXCEPT !.at = "invalidate", !.mine = Len(history'[m])]
  <2>1. /\ history' \in [Models -> Seq(RowType)] /\ \A n \in Models : history'[n] # <<>>
        /\ Extends /\ LastIsStored' /\ \A n \in Models : n # m => history'[n] = history[n]
    BY <1>1, <1>2, Writing
  <2>2. next \in AdminType /\ next.at = "invalidate" /\ next.model = m
    <3>1. history'[m] \in Seq(RowType)
      BY <1>1, <2>1
    <3>2. Len(history'[m]) \in Nat
      BY <3>1
    <3> QED
      BY <1>1, <3>2 DEF AdminType
  <2>3. /\ admin' \in [Admins -> AdminType] /\ admin'[a] = next
        /\ \A b \in Admins : b # a => admin'[b] = admin[b]
    BY <1>1, <1>2, <2>2, Types DEF AdminType
  <2>4. TypeOK'
    BY <1>1, <1>2, <2>1, <2>3 DEF TypeOK, AdminType, RowType
  <2>5. Busy'
    BY <1>1, <2>2, <2>3 DEF IInv, Busy
  <2>6. StaleForAReason'
    BY <1>1, <1>2, <2>1, <2>2, <2>3 DEF IInv, StaleForAReason, Stored
  <2> QED
    BY <1>1, <1>2, <2>1, <2>4, <2>5, <2>6, KeepsFills, KeepsEntries DEF IInv
<1>3. CASE /\ Fault
           /\ admin' = [admin EXCEPT ![a] = Resting]
           /\ \/ UNCHANGED <<history, cache, excuse>>
              \/ Write(m, row) /\ Keep(m)
  <2>1. /\ admin' \in [Admins -> AdminType] /\ admin'[a] = Resting /\ Resting.at = "idle"
        /\ \A b \in Admins : b # a => admin'[b] = admin[b]
        /\ faults' \in 0..MaxFaults
    BY <1>1, <1>3, Types, Faulting DEF Resting
  <2>2. Busy'
    BY <1>1, <2>1 DEF IInv, Busy
  <2>3. \A b \in Admins : admin[b].at = "invalidate" => admin'[b] = admin[b]
    BY <1>1, <2>1
  <2>4. CASE UNCHANGED <<history, cache, excuse>>
    <3>1. TypeOK'
      BY <1>1, <2>1, <2>4 DEF TypeOK, AdminType
    <3> QED
      BY <1>1, <2>2, <2>3, <2>4, <3>1, Unwritten, KeepsFills, KeepsEntries, KeepsReasons
      DEF IInv
  <2>5. CASE Write(m, row) /\ Keep(m)
    <3>1. /\ history' \in [Models -> Seq(RowType)] /\ \A n \in Models : history'[n] # <<>>
          /\ Extends /\ LastIsStored' /\ \A n \in Models : n # m => history'[n] = history[n]
      BY <1>1, <2>5, Writing
    <3>2. /\ UNCHANGED cache
          /\ excuse' \in [Models -> SUBSET {"filled_late", "not_deleted"}]
          /\ cache[m] # None => excuse'[m] # {}
          /\ \A n \in Models : n # m => excuse'[n] = excuse[n]
      BY <1>1, <2>5, Keeping
    <3>3. TypeOK'
      BY <1>1, <2>1, <3>1, <3>2 DEF TypeOK, AdminType, RowType
    <3>4. ASSUME NEW n \in Models, n # m, cache'[n] # None,
                 cache'[n].row # Published(Stored(n)')
          PROVE  \/ excuse'[n] # {}
                 \/ \E b \in Admins : admin'[b].at = "invalidate" /\ admin'[b].model = n
      <4>1. cache[n] # None /\ cache[n].row # Published(Stored(n))
        BY <3>1, <3>2, <3>4 DEF Stored
      <4>2. \/ excuse[n] # {}
            \/ \E b \in Admins : admin[b].at = "invalidate" /\ admin[b].model = n
        BY <4>1 DEF IInv, StaleForAReason
      <4> QED
        BY <2>3, <3>2, <3>4, <4>2
    <3>5. StaleForAReason'
      BY <3>2, <3>4 DEF StaleForAReason
    <3> QED
      BY <1>1, <2>2, <3>5, <3>1, <3>2, <3>3, <3>4, KeepsFills, KeepsEntries DEF IInv
  <2> QED
    BY <1>3, <2>4, <2>5
<1> QED
  BY <1>2, <1>3 DEF Commit

LEMMA InvalidateInv ==
  ASSUME IInv, NEW a \in Admins, Invalidate(a)
  PROVE  IInv'
<1> DEFINE m == admin[a].model
<1>1. /\ TypeOK /\ m \in Models /\ admin[a] \in AdminType /\ admin[a].at = "invalidate"
      /\ UNCHANGED <<history, call, changes>>
  BY Types DEF IInv, Busy, Invalidate
<1>2. down' \in [Replicas -> 0..DownFor] /\ faults' \in 0..MaxFaults
  BY <1>1, Commanding DEF Invalidate
<1>3. /\ admin' \in [Admins -> AdminType] /\ admin'[a] = Resting /\ Resting.at = "idle"
      /\ \A b \in Admins : b # a => admin'[b] = admin[b]
  BY <1>1, Types DEF Invalidate, Resting
<1>4. acked' \in [Models -> Nat]
  BY <1>1 DEF Invalidate, TypeOK, AdminType
<1>5. Busy' /\ FillsAsRead' /\ LastIsStored'
  BY <1>1, <1>3, Unwritten, KeepsFills DEF IInv, Busy
<1>6. /\ cache' \in [Models -> EntryType \cup {None}]
      /\ excuse' \in [Models -> SUBSET {"filled_late", "not_deleted"}]
      /\ cache'[m] \in {cache[m], None} /\ (cache'[m] = None \/ excuse'[m] # {})
      /\ \A n \in Models : n # m => cache'[n] = cache[n] /\ excuse'[n] = excuse[n]
  <2>1. CASE Drop(m)
    BY <1>1, <2>1, Dropping
  <2>2. CASE Keep(m)
    BY <1>1, <2>2, Keeping, Types
  <2> QED
    BY <2>1, <2>2 DEF Invalidate
<1>7. TypeOK'
  BY <1>1, <1>2, <1>3, <1>4, <1>6 DEF TypeOK, AdminType, EntryType
<1>8. \A n \in Models : cache'[n] \in {cache[n], None}
  BY <1>6
<1>9. StaleForAReason'
  BY <1>1, <1>3, <1>6 DEF IInv, StaleForAReason, Stored
<1> QED
  BY <1>1, <1>5, <1>7, <1>8, <1>9, Unwritten, KeepsEntries DEF IInv

LEMMA BootstrapInv ==
  ASSUME IInv, NEW m \in Models, Bootstrap(m)
  PROVE  IInv'
<1>1. TypeOK /\ UNCHANGED <<down, call, admin, faults, acked>> /\ Booted \in Rows
  BY AuthCacheAssumption DEF IInv, Bootstrap, Rows
<1>2. /\ history' \in [Models -> Seq(RowType)] /\ \A n \in Models : history'[n] # <<>>
      /\ Extends /\ LastIsStored' /\ \A n \in Models : n # m => history'[n] = history[n]
  BY <1>1, Writing DEF Bootstrap
<1>3. /\ UNCHANGED cache
      /\ excuse' \in [Models -> SUBSET {"filled_late", "not_deleted"}]
      /\ cache[m] # None => excuse'[m] # {}
      /\ \A n \in Models : n # m => excuse'[n] = excuse[n]
  BY <1>1, Keeping DEF Bootstrap
<1>4. changes' \in 0..MaxChanges
  BY <1>1, Bounds DEF Bootstrap, TypeOK
<1>5. TypeOK'
  BY <1>1, <1>2, <1>3, <1>4 DEF TypeOK, RowType
<1>6. Busy'
  BY <1>1 DEF IInv, Busy
<1>7. StaleForAReason'
  BY <1>1, <1>2, <1>3 DEF IInv, StaleForAReason, Stored
<1> QED
  BY <1>1, <1>2, <1>3, <1>5, <1>6, <1>7, KeepsFills, KeepsEntries DEF IInv

LEMMA EvictInv ==
  ASSUME IInv, NEW m \in Models, Evict(m)
  PROVE  IInv'
<1>1. TypeOK /\ UNCHANGED <<history, down, call, admin, changes, faults, acked>>
  BY DEF IInv, Evict
<1>2. /\ cache' \in [Models -> EntryType \cup {None}]
      /\ excuse' \in [Models -> SUBSET {"filled_late", "not_deleted"}]
      /\ cache'[m] = None
      /\ \A n \in Models : n # m => cache'[n] = cache[n] /\ excuse'[n] = excuse[n]
  BY <1>1, Dropping DEF Evict
<1>3. TypeOK'
  BY <1>1, <1>2 DEF TypeOK, EntryType
<1>4. Busy' /\ FillsAsRead'
  BY <1>1, Unwritten, KeepsFills DEF IInv, Busy
<1>5. EntriesOnceStored' /\ StaleForAReason'
  BY <1>1, <1>2, Unwritten, KeepsEntries, KeepsReasons
<1> QED
  BY <1>1, <1>3, <1>4, <1>5, Unwritten DEF IInv

(* A tick: what was replaced is longer ago, and every entry has less to    *)
(* live by as much.                                                        *)
LEMMA TickInv ==
  ASSUME IInv, Tick
  PROVE  IInv'
<1>1. TypeOK /\ UNCHANGED <<admin, changes, faults, acked>>
  BY DEF IInv, Tick
<1>2. \A n \in Nat : Earlier(n) \in Nat /\ Earlier(n) <= n
  BY DEF Earlier
<1>3. ASSUME NEW m \in Models, NEW i \in DOMAIN history[m]
      PROVE  /\ i \in DOMAIN history'[m]
             /\ history'[m][i] \in RowType
             /\ history'[m][i].row = history[m][i].row
             /\ history'[m][i].past \in {history[m][i].past, history[m][i].past + 1}
             /\ i = Len(history[m]) => history'[m][i] = history[m][i]
  <2>1. history[m][i] \in RowType /\ Len(history[m]) \in Nat /\ i \in 1..Len(history[m])
    BY <1>1, Types
  <2>2. DOMAIN history'[m] = DOMAIN history[m]
    BY <1>1, Types DEF Tick
  <2>3. history'[m][i] = IF i < Len(history[m]) /\ history[m][i].past < Cap
                         THEN [history[m][i] EXCEPT !.past = @ + 1] ELSE history[m][i]
    BY <1>1, Types DEF Tick
  <2>4. CASE i < Len(history[m]) /\ history[m][i].past < Cap
    <3>1. history'[m][i] = [history[m][i] EXCEPT !.past = @ + 1]
      BY <2>3, <2>4
    <3> QED
      BY <2>1, <2>2, <2>4, <3>1, Bounds DEF RowType
  <2>5. CASE ~(i < Len(history[m]) /\ history[m][i].past < Cap)
    BY <2>1, <2>2, <2>3, <2>5
  <2> QED
    BY <2>4, <2>5
<1>4. /\ history' \in [Models -> Seq(RowType)]
      /\ \A m \in Models : /\ history'[m] # <<>> /\ Len(history'[m]) = Len(history[m])
                           /\ DOMAIN history'[m] = DOMAIN history[m]
  <2>1. ASSUME NEW m \in Models
        PROVE  /\ history'[m] \in Seq(RowType) /\ history'[m] # <<>>
               /\ Len(history'[m]) = Len(history[m])
               /\ DOMAIN history'[m] = DOMAIN history[m]
    <3>1. /\ Len(history[m]) \in Nat \ {0} /\ DOMAIN history[m] = 1..Len(history[m])
      BY <1>1, Types
    <3>2. DOMAIN history'[m] = 1..Len(history[m])
      BY <1>1, <3>1, Types DEF Tick
    <3>3. history'[m] = [i \in 1..Len(history[m]) |-> history'[m][i]]
      BY <1>1, <3>1, <3>2, Types DEF Tick
    <3>4. history'[m] \in Seq(RowType)
      BY <1>3, <3>1, <3>3
    <3>5. Len(history'[m]) = Len(history[m])
      BY <3>1, <3>2, <3>4
    <3> QED
      BY <3>1, <3>2, <3>4, <3>5
  <2>2. history' = [m \in Models |-> history'[m]]
    BY <1>1, Types DEF Tick
  <2> QED
    BY <2>1, <2>2
<1>5. LastIsStored'
  BY <1>1, <1>3, <1>4, Types DEF IInv, LastIsStored
<1>6. ASSUME NEW c \in Calls
      PROVE  /\ call'[c] \in CallType /\ call'[c].at = call[c].at
             /\ call'[c].req = call[c].req /\ call'[c].row = call[c].row
             /\ call'[c].read = call[c].read
             /\ call[c].at = "fill" => call'[c].lag = call[c].lag + 1
  <2>1. call[c] \in CallType
    BY <1>1, Types
  <2>2. CASE call[c].at = "fill"
    <3>1. call[c].lag < MaxLag /\ call'[c] = [call[c] EXCEPT !.lag = @ + 1]
      BY <2>2 DEF Tick
    <3> QED
      BY <2>1, <3>1, Bounds DEF CallType
  <2>3. CASE call[c].at # "fill"
    BY <2>1, <2>3 DEF Tick
  <2> QED
    BY <2>2, <2>3
<1>7. call' \in [Calls -> CallType]
  BY <1>6 DEF Tick
<1>8. ASSUME NEW m \in Models
      PROVE  \/ cache'[m] = None /\ excuse'[m] \in {{}, excuse[m]}
             \/ /\ cache[m] # None /\ cache'[m] \in EntryType
                /\ cache'[m].row = cache[m].row
                /\ cache'[m].left = cache[m].left - 1 /\ cache[m].left \in 2..TTL
                /\ excuse'[m] = excuse[m]
  <2>1. cache[m] \in EntryType \cup {None}
    BY <1>1, Types
  <2>2. CASE cache[m] = None \/ cache[m].left = 1
    BY <2>2 DEF Tick
  <2>3. CASE cache[m] # None /\ cache[m].left # 1
    <3>1. cache'[m] = [cache[m] EXCEPT !.left = Earlier(@)] /\ excuse'[m] = excuse[m]
      BY <2>3 DEF Tick
    <3>2. cache[m].left \in 2..TTL /\ Earlier(cache[m].left) = cache[m].left - 1
      BY <2>1, <2>3, Bounds DEF EntryType, Earlier
    <3> QED
      BY <2>1, <2>3, <3>1, <3>2, Bounds DEF EntryType
  <2> QED
    BY <2>2, <2>3
<1>9. /\ cache' \in [Models -> EntryType \cup {None}]
      /\ excuse' \in [Models -> SUBSET {"filled_late", "not_deleted"}]
  <2>1. DOMAIN cache' = Models /\ cache' = [m \in Models |-> cache'[m]]
    BY DEF Tick
  <2>2. excuse' = [m \in Models |-> excuse'[m]]
    BY DEF Tick
  <2>3. \A m \in Models : excuse'[m] \in SUBSET {"filled_late", "not_deleted"}
    BY <1>1, <1>8, Types
  <2> QED
    BY <1>8, <2>1, <2>2, <2>3
<1>10. down' \in [Replicas -> 0..DownFor]
  <2>1. \A r \in Replicas : Earlier(down[r]) \in 0..DownFor
    BY <1>1, Bounds DEF TypeOK, Earlier
  <2> QED
    BY <2>1 DEF Tick
<1>11. TypeOK'
  BY <1>1, <1>4, <1>7, <1>9, <1>10 DEF TypeOK, RowType, CallType, EntryType
<1>12. Busy'
  BY <1>1, <1>6 DEF IInv, Busy
<1>13. ASSUME NEW c \in Calls, call'[c].at = "fill"
       PROVE  AsRead(c, history[call[c].req.model])'
  <2> DEFINE h == history[call[c].req.model]
  <2>1. /\ call[c].at = "fill" /\ call[c].req.model \in Models /\ AsRead(c, h)
        /\ call'[c].lag = call[c].lag + 1 /\ call[c].lag \in Nat
    BY <1>1, <1>6, <1>13, OfRequests, Types, Bounds DEF IInv, Busy, FillsAsRead, CallType
  <2>2. /\ history'[call[c].req.model][call[c].read].row = h[call[c].read].row
        /\ history'[call[c].req.model][call[c].read].past <= h[call[c].read].past + 1
        /\ h[call[c].read].past \in Nat
        /\ call[c].read \in DOMAIN history'[call[c].req.model]
    <3>1. call[c].read \in DOMAIN h
      BY <2>1 DEF AsRead
    <3>2. h[call[c].read].past \in Nat
      BY <1>1, <2>1, <3>1, Types, Bounds DEF RowType
    <3>3. PICK m \in Models : m = call[c].req.model
      BY <2>1
    <3>4. PICK i \in DOMAIN history[m] : i = call[c].read
      BY <3>1, <3>3
    <3>5. /\ i \in DOMAIN history'[m] /\ history'[m][i].row = history[m][i].row
          /\ history'[m][i].past \in {history[m][i].past, history[m][i].past + 1}
      BY <1>3
    <3>6. history[m][i].past \in Nat
      BY <3>2, <3>3, <3>4
    <3>7. history'[m][i].past <= history[m][i].past + 1
      BY <3>5, <3>6
    <3> QED
      BY <3>3, <3>4, <3>5, <3>6, <3>7
  <2>3. history'[call[c].req.model][call[c].read].past <= call'[c].lag
    <3>1. history'[call[c].req.model][call[c].read].past \in Nat
      BY <1>1, <1>3, <2>1, Bounds DEF AsRead, RowType
    <3> QED
      BY <2>1, <2>2, <3>1 DEF AsRead
  <2> QED
    BY <1>6, <2>1, <2>2, <2>3 DEF AsRead
<1>14. ASSUME NEW m \in Models, cache'[m] # None
       PROVE  OnceStored(cache'[m], history'[m])
  <2>1. /\ cache[m] # None /\ cache'[m].row = cache[m].row
        /\ cache'[m].left = cache[m].left - 1 /\ cache[m].left \in 2..TTL
    BY <1>8, <1>14
  <2>2. PICK i \in DOMAIN history[m] : /\ cache[m].row = Published(history[m][i].row)
                                       /\ history[m][i].past + cache[m].left <= TTL + MaxLag
    BY <2>1 DEF IInv, EntriesOnceStored, OnceStored
  <2>3. /\ i \in DOMAIN history'[m] /\ history'[m][i].row = history[m][i].row
        /\ history'[m][i].past \in {history[m][i].past, history[m][i].past + 1}
        /\ history[m][i].past \in Nat
    BY <1>1, <1>3, Types, Bounds DEF RowType
  <2>4. history'[m][i].past + cache'[m].left <= TTL + MaxLag
    BY <2>1, <2>2, <2>3, Bounds
  <2> QED
    BY <2>1, <2>2, <2>3, <2>4 DEF OnceStored
<1>15. FillsAsRead' /\ EntriesOnceStored'
  BY <1>13, <1>14 DEF FillsAsRead, EntriesOnceStored, OnceStored
<1>16. \A m \in Models : Stored(m)' = Stored(m)
  BY <1>1, <1>3, <1>4, Types DEF Stored
<1>17. StaleForAReason'
  <2> SUFFICES ASSUME NEW m \in Models, cache'[m] # None,
                      cache'[m].row # Published(Stored(m)')
               PROVE  \/ excuse'[m] # {}
                      \/ \E a \in Admins : admin'[a].at = "invalidate" /\ admin'[a].model = m
    BY DEF StaleForAReason
  <2>1. cache[m] # None /\ cache'[m].row = cache[m].row /\ excuse'[m] = excuse[m]
    BY <1>8
  <2> QED
    BY <1>1, <1>16, <2>1 DEF IInv, StaleForAReason
<1> QED
  BY <1>5, <1>11, <1>12, <1>15, <1>17 DEF IInv
-----------------------------------------------------------------------------
LEMMA StepInv == IInv /\ [Next]_vars => IInv'
<1> SUFFICES ASSUME IInv, [Next]_vars PROVE IInv'
  OBVIOUS
<1>1. ASSUME NEW c \in Calls, NEW r \in Replicas, NEW q \in Requests, Lookup(c, r, q)
      PROVE  IInv'
  BY <1>1, LookupInv
<1>2. ASSUME NEW c \in Calls, CallSteps(c) \/ Leave(c)
      PROVE  IInv'
  BY <1>2, QueryInv, FillInv, LeaveInv DEF CallSteps
<1>3. ASSUME NEW a \in Admins, NEW r \in Replicas, NEW m \in Models,
             NEW s \in Settings[m], PutUserModel(a, r, m, s)
      PROVE  IInv'
  BY <1>3, BeginsInv DEF PutUserModel, Begins, Rows
<1>4. ASSUME NEW a \in Admins, NEW r \in Replicas, NEW m \in Models,
             DeleteUserModel(a, r, m)
      PROVE  IInv'
  BY <1>4, BeginsInv, NothingKnown DEF DeleteUserModel, Begins
<1>5. ASSUME NEW a \in Admins, AdminSteps(a)
      PROVE  IInv'
  BY <1>5, CommitInv, InvalidateInv DEF AdminSteps
<1>6. ASSUME NEW m \in Models, Bootstrap(m) \/ Evict(m)
      PROVE  IInv'
  BY <1>6, BootstrapInv, EvictInv
<1>7. CASE Tick
  BY <1>7, TickInv
<1>8. CASE UNCHANGED vars
  BY <1>8 DEF vars, IInv, TypeOK, Busy, LastIsStored, FillsAsRead, AsRead,
              EntriesOnceStored, OnceStored, StaleForAReason, Stored
<1> QED
  BY <1>1, <1>2, <1>3, <1>4, <1>5, <1>6, <1>7, <1>8 DEF Next

THEOREM Invariance == Spec => []IInv
<1> QED
  BY InitInv, StepInv, PTL DEF Spec

(* The types of AuthCache.                                                 *)
THEOREM TypeCorrect == Spec => []TypeOK
<1>1. IInv => TypeOK
  BY DEF IInv
<1> QED
  BY <1>1, Invariance, PTL

(* An entry of auth:<model> contradicts its row only for one of the        *)
(* reasons Authenticate, invalidateAuth and Bootstrap leave room for,      *)
(* however many calls and administrators meet.                             *)
THEOREM StaleIsExcused == Spec => []StaleForAReason
<1>1. IInv => StaleForAReason
  BY DEF IInv
<1> QED
  BY <1>1, Invariance, PTL

(* Only a hit, a fill and a failed query answer.                           *)
LEMMA WhoAnswers ==
  ASSUME IInv, [Next]_vars, NEW c \in Calls, Answered(c), call'[c].answer # Failed
  PROVE  \/ \E q \in Requests : /\ cache[q.model] # None
                                /\ call'[c].req = q
                                /\ call'[c].answer = Verdict(cache[q.model].row, q)
         \/ /\ call[c].at = "fill" /\ call'[c].req = call[c].req
            /\ call'[c].answer = Verdict(call[c].row, call[c].req)
<1> DEFINE Goal == \/ \E q \in Requests : /\ cache[q.model] # None
                                          /\ call'[c].req = q
                                          /\ call'[c].answer = Verdict(cache[q.model].row, q)
                   \/ /\ call[c].at = "fill" /\ call'[c].req = call[c].req
                      /\ call'[c].answer = Verdict(call[c].row, call[c].req)
<1> SUFFICES Goal
  OBVIOUS
<1>1. /\ call \in [Calls -> CallType] /\ Idle \in CallType
      /\ call[c].at # "answered" /\ call'[c].at = "answered"
  BY Types DEF IInv, Answered
<1>2. ASSUME NEW r \in Replicas, NEW q \in Requests, Lookup(c, r, q)
      PROVE  Goal
  <2> DEFINE begun == [Idle EXCEPT !.replica = r, !.req = q, !.since = acked[q.model]]
             hit == [begun EXCEPT !.at = "answered", !.replica = None,
                                  !.answer = Verdict(cache[q.model].row, q)]
  <2>1. CASE cache[q.model] # None /\ call' = [call EXCEPT ![c] = hit]
    <3>1. call'[c] = hit
      BY <1>1, <2>1
    <3>2. hit.req = q /\ hit.answer = Verdict(cache[q.model].row, q)
      BY DEF Idle
    <3> QED
      BY <2>1, <3>1, <3>2
  <2>2. CASE call' = [call EXCEPT ![c] = [begun EXCEPT !.at = "query"]]
    BY <1>1, <2>2 DEF Idle
  <2> QED
    BY <1>2, <2>1, <2>2 DEF Lookup
<1>3. CASE Fill(c)
  <2>1. /\ call[c].at = "fill"
        /\ call'[c] = [Idle EXCEPT !.at = "answered", !.req = call[c].req,
                         !.since = call[c].since,
                         !.answer = Verdict(call[c].row, call[c].req)]
    BY <1>1, <1>3 DEF Fill, Answer
  <2> QED
    BY <2>1 DEF Idle
<1>4. CASE Query(c)
  <2>1. CASE Answer(c, Failed)
    BY <1>1, <2>1 DEF Answer, Idle
  <2>2. CASE call' = [call EXCEPT ![c].at = "fill",
                        ![c].row = Published(Stored(call[c].req.model)),
                        ![c].read = Len(history[call[c].req.model])]
    BY <1>1, <2>2 DEF CallType
  <2> QED
    BY <1>4, <2>1, <2>2 DEF Query
<1>5. CASE Leave(c)
  BY <1>1, <1>5 DEF Leave, Idle
<1>6. ASSUME NEW d \in Calls, d # c,
             \/ \E r \in Replicas, q \in Requests : Lookup(d, r, q)
             \/ Query(d) \/ Fill(d) \/ Leave(d)
      PROVE  Goal
  <2>1. call'[c] = call[c]
    BY <1>1, <1>6 DEF Lookup, Query, Fill, Leave, Answer
  <2> QED
    BY <1>1, <2>1
<1>7. CASE Tick
  <2>1. call[c] \in CallType
    BY <1>1
  <2> QED
    BY <1>1, <1>7, <2>1 DEF Tick, CallType
<1>8. CASE UNCHANGED call
  BY <1>1, <1>8
<1>9. ASSUME NEW a \in Admins, NEW r \in Replicas, NEW m \in Models,
             (\E s \in Settings[m] : PutUserModel(a, r, m, s)) \/ DeleteUserModel(a, r, m)
      PROVE  UNCHANGED call
  BY <1>9 DEF PutUserModel, DeleteUserModel, Begins
<1>10. ASSUME NEW a \in Admins, AdminSteps(a) PROVE UNCHANGED call
  BY <1>10 DEF AdminSteps, Commit, Invalidate
<1>11. ASSUME NEW m \in Models, Bootstrap(m) \/ Evict(m) PROVE UNCHANGED call
  BY <1>11 DEF Bootstrap, Evict
<1>12. CASE UNCHANGED vars
  BY <1>8, <1>12 DEF vars
<1> QED
  BY <1>2, <1>3, <1>4, <1>5, <1>6, <1>7, <1>8, <1>9, <1>10, <1>11, <1>12 DEF Next, CallSteps

(* No client is judged by a row that was replaced longer ago than an entry *)
(* lives and a command takes, whatever fails and whoever races.            *)
THEOREM BoundedStaleness == Spec => NothingOutlivesTheCache
<1>1. ASSUME IInv, [Next]_vars, NEW c \in Calls, Answered(c), call'[c].answer # Failed
      PROVE  LET rows == history[call'[c].req.model]
             IN \E i \in DOMAIN rows : /\ AnswersAsOf(c, i)
                                       /\ i = Len(rows) \/ rows[i].past <= TTL + MaxLag
  <2>1. CASE \E q \in Requests : /\ cache[q.model] # None
                                 /\ call'[c].req = q
                                 /\ call'[c].answer = Verdict(cache[q.model].row, q)
    <3>1. PICK q \in Requests : /\ cache[q.model] # None
                                /\ call'[c].req = q
                                /\ call'[c].answer = Verdict(cache[q.model].row, q)
      BY <2>1
    <3>2. PICK i \in DOMAIN history[q.model] :
            /\ cache[q.model].row = Published(history[q.model][i].row)
            /\ history[q.model][i].past + cache[q.model].left <= TTL + MaxLag
      BY <1>1, <3>1, OfRequests DEF IInv, EntriesOnceStored, OnceStored
    <3>3. history[q.model][i].past \in Nat /\ cache[q.model].left \in Nat
      BY <1>1, <3>1, OfRequests, Types, Bounds DEF IInv, RowType, EntryType
    <3>4. history[q.model][i].past <= TTL + MaxLag
      BY <3>2, <3>3, Bounds
    <3> QED
      BY <3>1, <3>2, <3>4 DEF AnswersAsOf
  <2>2. CASE /\ call[c].at = "fill" /\ call'[c].req = call[c].req
             /\ call'[c].answer = Verdict(call[c].row, call[c].req)
    <3> DEFINE h == history[call[c].req.model]
    <3>1. AsRead(c, h) /\ call[c].lag \in 0..MaxLag /\ call[c].req.model \in Models
      BY <1>1, <2>2, OfRequests, Types DEF IInv, Busy, FillsAsRead, CallType
    <3>2. h[call[c].read].past \in Nat
      BY <1>1, <3>1, Types, Bounds DEF IInv, AsRead, RowType
    <3>3. h[call[c].read].past <= TTL + MaxLag
      BY <3>1, <3>2, Bounds DEF AsRead
    <3> QED
      BY <2>2, <3>1, <3>3 DEF AsRead, AnswersAsOf
  <2> QED
    BY <1>1, <2>1, <2>2, WhoAnswers
<1>2. IInv /\ [Next]_vars =>
        [\A c \in Calls : Answered(c) /\ call'[c].answer # Failed =>
           LET rows == history[call'[c].req.model]
           IN \E i \in DOMAIN rows : /\ AnswersAsOf(c, i)
                                     /\ i = Len(rows) \/ rows[i].past <= TTL + MaxLag]_vars
  BY <1>1
<1> QED
  BY <1>2, Invariance, PTL DEF Spec, NothingOutlivesTheCache
=============================================================================
