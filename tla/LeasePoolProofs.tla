-------------------------- MODULE LeasePoolProofs --------------------------
(***************************************************************************)
(* Proofs about LeasePool for any number of services, values, workers and  *)
(* faults.                                                                 *)
(*                                                                         *)
(* TypeOK holds however the leases are read.  The promises to the callers  *)
(* are proved for reads that show a call its own leases as they are, from  *)
(* the API server or from a cache that is behind about everyone else       *)
(* (ReadsOwnWrites).  Without that they are false: a retry may be given    *)
(* the value of a lease that it released and that has a new holder.        *)
(* What a release deletes is the releaser's own with cached reads as well, *)
(* when one call runs at a time.                                           *)
(***************************************************************************)
EXTENDS LeasePool, FiniteSetTheorems, TLAPS

-----------------------------------------------------------------------------
(* Type correctness *)

\* No lease, no call in progress, nothing granted: the types hold.
LEMMA InitType == Init => TypeOK
BY LeasePoolAssumption DEF Init, TypeOK, Values, Holders

\* Every request, watch event and restart of the model keeps the types, in
\* both read modes.
LEMMA NextType == TypeOK /\ [Next]_vars => TypeOK'
<1> USE LeasePoolAssumption
<1> SUFFICES ASSUME TypeOK, [Next]_vars PROVE TypeOK'
  OBVIOUS
<1> USE DEF TypeOK, Values, Holders
<1>w. ASSUME NEW v \in Values, NEW h \in Holders, Write(v, h)
      PROVE  /\ leases' \in [Values -> Holders]
             /\ cache' \in [Values -> Holders]
             /\ events' \in Seq(Values \X Holders)
  <2>1. CASE CachedReads
    <3>1. <<v, h>> \in Values \X Holders
      OBVIOUS
    <3>2. Append(events, <<v, h>>) \in Seq(Values \X Holders)
      BY <3>1
    <3> QED BY <1>w, <2>1, <3>2 DEF Write
  <2>2. CASE ~CachedReads
    BY <1>w, <2>2 DEF Write
  <2> QED BY <2>1, <2>2
<1>1. ASSUME NEW c \in CorrIDs, AllocStep(c) PROVE TypeOK'
  <2>1. CASE ListOwn(c)
    BY <2>1 DEF ListOwn, Return, NoWrite, NoFault
  <2>2. CASE ListOthers(c)
    BY <2>2 DEF ListOthers, NoWrite, NoFault
  <2>3. CASE CreateOK(c)
    <3> PICK v \in Values : Write(v, c) /\ Return(c, v)
      BY <2>3 DEF CreateOK
    <3> QED BY <1>w, <2>3 DEF CreateOK, Return, NoFault
  <2>4. CASE CreateExists(c)
    BY <2>4 DEF CreateExists, NoWrite, NoFault
  <2>5. CASE CreateError(c)
    <3> PICK v \in Values : NoWrite \/ Write(v, c)
      BY <2>5 DEF CreateError
    <3>1. /\ leases' \in [Values -> Holders]
          /\ cache' \in [Values -> Holders]
          /\ events' \in Seq(Values \X Holders)
      BY <1>w DEF NoWrite
    <3> QED BY <3>1, <2>5 DEF CreateError, Fail, Fault
  <2>6. CASE GetOwn(c)
    BY <2>6 DEF GetOwn, Return, NoWrite, NoFault
  <2>7. CASE GetOther(c)
    BY <2>7 DEF GetOther, NoWrite, NoFault, Fault
  <2>8. CASE Exhausted(c)
    BY <2>8 DEF Exhausted, Fail, NoWrite, NoFault
  <2> QED
    BY <1>1, <2>1, <2>2, <2>3, <2>4, <2>5, <2>6, <2>7, <2>8 DEF AllocStep
<1>2. ASSUME NEW c \in CorrIDs, ReleaseStep(c) PROVE TypeOK'
  <2>1. CASE ReleaseList(c)
    BY <2>1 DEF ReleaseList, NoWrite, NoFault
  <2>2. CASE ReleaseDelete(c)
    <3> PICK v \in Values : /\ NoWrite \/ Write(v, Free)
                            /\ todo' = [todo EXCEPT ![c] = @ \ {v}]
      BY <2>2 DEF ReleaseDelete
    <3>1. /\ leases' \in [Values -> Holders]
          /\ cache' \in [Values -> Holders]
          /\ events' \in Seq(Values \X Holders)
      BY <1>w DEF NoWrite
    <3> QED BY <3>1, <2>2 DEF ReleaseDelete, NoFault
  <2>3. CASE ReleaseError(c)
    <3> PICK v \in Values : NoWrite \/ Write(v, Free)
      BY <2>3 DEF ReleaseError
    <3>1. /\ leases' \in [Values -> Holders]
          /\ cache' \in [Values -> Holders]
          /\ events' \in Seq(Values \X Holders)
      BY <1>w DEF NoWrite
    <3> QED BY <3>1, <2>3 DEF ReleaseError, Fail, Fault
  <2>4. CASE ReleaseDone(c)
    BY <2>4 DEF ReleaseDone, Fail, NoWrite, NoFault
  <2> QED BY <1>2, <2>1, <2>2, <2>3, <2>4 DEF ReleaseStep
<1>3. CASE Deliver
  <2>1. Head(events) \in Values \X Holders /\ Tail(events) \in Seq(Values \X Holders)
    BY <1>3 DEF Deliver
  <2> QED BY <1>3, <2>1 DEF Deliver
<1>4. CASE Restart
  BY <1>4 DEF Restart, Fault
<1>5. CASE UNCHANGED vars
  BY <1>5 DEF vars
<1> QED BY <1>1, <1>2, <1>3, <1>4, <1>5 DEF Next

\* Type correctness of the Lease fallback, cached reads or not.
THEOREM TypeCorrect == Spec => []TypeOK
BY InitType, NextType, PTL DEF Spec

-----------------------------------------------------------------------------
(* The promises to the callers, when a call sees its own leases *)

\* A scan runs only for a service that holds nothing.
ScanHoldsNothing ==
    \A c \in CorrIDs : pc[c] \in {"scan", "get"} =>
        grant[c] = 0 /\ \A v \in Values : leases[v] # c

\* A release deletes only leases that are still the releaser's own.
DeletesOwn ==
    \A c \in CorrIDs : pc[c] = "delete" =>
        grant[c] = 0 /\ \A v \in todo[c] : leases[v] = c

\* GrantBacked and OneLeasePerCorrID are not inductive: the first needs that
\* a delete cannot hit a lease in use, the second that a scan holds nothing.
HoldInv ==
    /\ TypeOK
    /\ GrantBacked
    /\ OneLeasePerCorrID
    /\ ScanHoldsNothing
    /\ DeletesOwn

\* With no lease and no call in progress the strengthened invariant holds.
LEMMA InitHold == Init => HoldInv
<1> SUFFICES ASSUME Init PROVE HoldInv
  OBVIOUS
<1>1. TypeOK
  BY InitType
<1>2. GrantBacked /\ OneLeasePerCorrID /\ ScanHoldsNothing /\ DeletesOwn
  BY LeasePoolAssumption DEF Init, GrantBacked, OneLeasePerCorrID, ScanHoldsNothing, DeletesOwn
<1> QED BY <1>1, <1>2 DEF HoldInv

\* Taking a free value for a service that holds none keeps what concerns the
\* other services, and one lease per correlation id.
LEMMA TakeKeeps ==
    ASSUME HoldInv,
           NEW c \in CorrIDs, NEW v \in Values,
           leases[v] = Free, pc[c] = "scan", Write(v, c)
    PROVE  /\ OneLeasePerCorrID'
           /\ leases' = [leases EXCEPT ![v] = c]
           /\ \A w \in Values : leases[w] # Free => leases'[w] = leases[w]
           /\ \A w \in Values, d \in CorrIDs : leases'[w] = d => leases[w] = d \/ d = c
<1>1. leases' = [leases EXCEPT ![v] = c]
  BY DEF Write
<1>2. \A w \in Values : leases[w] # c
  BY DEF HoldInv, ScanHoldsNothing
<1>3. OneLeasePerCorrID'
  BY <1>1, <1>2 DEF OneLeasePerCorrID, HoldInv, TypeOK
<1> QED BY <1>1, <1>3, LeasePoolAssumption DEF HoldInv, TypeOK

\* Freeing one of the releaser's own values concerns nobody else.
LEMMA FreeKeeps ==
    ASSUME HoldInv,
           NEW c \in CorrIDs, NEW v \in Values,
           pc[c] = "delete", leases[v] = c, Write(v, Free)
    PROVE  /\ OneLeasePerCorrID'
           /\ leases' = [leases EXCEPT ![v] = Free]
           /\ \A w \in Values : w # v => leases'[w] = leases[w]
           /\ \A w \in Values, d \in CorrIDs : leases'[w] = d => leases[w] = d
<1>1. leases' = [leases EXCEPT ![v] = Free]
  BY DEF Write
<1> QED BY <1>1, LeasePoolAssumption DEF OneLeasePerCorrID, HoldInv, TypeOK

\* Every step whose reads show the caller's own leases keeps the invariant.
LEMMA NextHold == HoldInv /\ [Next]_vars /\ [ReadsOwnWrites]_vars => HoldInv'
<1> SUFFICES ASSUME HoldInv, [Next]_vars, [ReadsOwnWrites]_vars PROVE HoldInv'
  OBVIOUS
<1>s. CASE UNCHANGED vars
  BY <1>s, NextType DEF vars, HoldInv, GrantBacked, OneLeasePerCorrID, ScanHoldsNothing, DeletesOwn
<1> SUFFICES ASSUME Next, ReadsOwnWrites PROVE HoldInv'
  BY <1>s
<1>t. TypeOK /\ TypeOK'
  BY NextType DEF HoldInv
<1> SUFFICES (GrantBacked /\ OneLeasePerCorrID /\ ScanHoldsNothing /\ DeletesOwn)'
  BY <1>t DEF HoldInv
<1>v. ASSUME NEW c \in CorrIDs, Reads(c), NEW v \in Values
      PROVE  View[v] = c <=> leases[v] = c
  BY <1>v DEF ReadsOwnWrites
<1>a. Free \notin CorrIDs /\ 0 \notin Values
  BY LeasePoolAssumption DEF Values
<1> USE DEF HoldInv, GrantBacked, ScanHoldsNothing, DeletesOwn
<1>1. ASSUME NEW c \in CorrIDs, AllocStep(c)
      PROVE  (GrantBacked /\ OneLeasePerCorrID /\ ScanHoldsNothing /\ DeletesOwn)'
  <2>1. CASE ListOwn(c)
    <3>1. \A v \in Values : View[v] = c <=> leases[v] = c
      BY <2>1, <1>v DEF Reads
    <3> QED BY <2>1, <3>1, <1>t DEF ListOwn, Return, NoWrite, TypeOK, OneLeasePerCorrID
  <2>2. CASE ListOthers(c)
    <3>1. \A v \in Values : View[v] = c <=> leases[v] = c
      BY <2>2, <1>v DEF Reads
    <3> QED BY <2>2, <3>1, <1>t DEF ListOthers, NoWrite, TypeOK, OneLeasePerCorrID
  <2>3. CASE CreateOK(c)
    <3>1. PICK v \in Values : leases[v] = Free /\ Write(v, c) /\ Return(c, v)
      BY <2>3 DEF CreateOK
    <3>2. pc[c] = "scan"
      BY <2>3 DEF CreateOK
    <3>3. OneLeasePerCorrID'
      BY <3>1, <3>2, TakeKeeps
    <3>4. leases' = [leases EXCEPT ![v] = c]
      BY <3>1, <3>2, TakeKeeps
    <3>5. GrantBacked'
      BY <3>1, <3>2, <3>4, <1>t, <1>a DEF Return, TypeOK
    <3>6. ScanHoldsNothing'
      BY <3>1, <3>2, <3>4, <1>t, <1>a DEF Return, TypeOK
    <3>7. DeletesOwn'
      BY <3>1, <3>2, <3>4, <1>t, <1>a DEF Return, TypeOK
    <3> QED BY <3>3, <3>5, <3>6, <3>7
  <2>4. CASE CreateExists(c)
    BY <2>4, <1>t DEF CreateExists, NoWrite, TypeOK, OneLeasePerCorrID
  <2>5. CASE CreateError(c)
    <3>1. PICK v \in Values : NoWrite \/ (leases[v] = Free /\ Write(v, c))
      BY <2>5 DEF CreateError
    <3>2. pc[c] = "scan" /\ Fail(c)
      BY <2>5 DEF CreateError
    <3>3. CASE NoWrite
      BY <3>2, <3>3, <1>t DEF Fail, NoWrite, TypeOK, OneLeasePerCorrID
    <3>4. CASE leases[v] = Free /\ Write(v, c)
      <4>1. OneLeasePerCorrID' /\ leases' = [leases EXCEPT ![v] = c]
        BY <3>2, <3>4, TakeKeeps
      <4>2. GrantBacked'
        BY <3>2, <3>4, <4>1, <1>t, <1>a DEF Fail, TypeOK
      <4>3. ScanHoldsNothing'
        BY <3>2, <3>4, <4>1, <1>t, <1>a DEF Fail, TypeOK
      <4>4. DeletesOwn'
        BY <3>2, <3>4, <4>1, <1>t, <1>a DEF Fail, TypeOK
      <4> QED BY <4>1, <4>2, <4>3, <4>4
    <3> QED BY <3>1, <3>3, <3>4
  <2>6. CASE GetOwn(c)
    \* The scan holds nothing, so the read never finds an own lease.
    <3>1. FALSE
      BY <2>6, <1>v, <1>t DEF Reads, GetOwn, TypeOK
    <3> QED BY <3>1
  <2>7. CASE GetOther(c)
    BY <2>7, <1>t DEF GetOther, NoWrite, TypeOK, OneLeasePerCorrID
  <2>8. CASE Exhausted(c)
    BY <2>8, <1>t DEF Exhausted, Fail, NoWrite, TypeOK, OneLeasePerCorrID
  <2> QED
    BY <1>1, <2>1, <2>2, <2>3, <2>4, <2>5, <2>6, <2>7, <2>8 DEF AllocStep
<1>2. ASSUME NEW c \in CorrIDs, ReleaseStep(c)
      PROVE  (GrantBacked /\ OneLeasePerCorrID /\ ScanHoldsNothing /\ DeletesOwn)'
  <2>1. CASE ReleaseList(c)
    <3>1. \A v \in Values : View[v] = c <=> leases[v] = c
      BY <2>1, <1>v DEF Reads
    <3> QED BY <2>1, <3>1, <1>t DEF ReleaseList, NoWrite, TypeOK, OneLeasePerCorrID
  <2>2. CASE ReleaseDelete(c)
    <3>1. PICK v \in todo[c] : /\ IF leases[v] = Free THEN NoWrite ELSE Write(v, Free)
                               /\ todo' = [todo EXCEPT ![c] = @ \ {v}]
      BY <2>2 DEF ReleaseDelete
    <3>2. v \in Values /\ leases[v] = c /\ leases[v] # Free
      BY <2>2, <3>1, <1>t, <1>a DEF ReleaseDelete, TypeOK
    <3>3. Write(v, Free) /\ pc[c] = "delete"
      BY <2>2, <3>1, <3>2 DEF ReleaseDelete
    <3>4. OneLeasePerCorrID' /\ leases' = [leases EXCEPT ![v] = Free]
      BY <3>2, <3>3, FreeKeeps
    <3>5. UNCHANGED <<pc, used, value, grant>>
      BY <2>2 DEF ReleaseDelete
    <3>6. GrantBacked'
      BY <3>2, <3>3, <3>4, <3>5, <1>t, <1>a DEF TypeOK
    <3>7. ScanHoldsNothing'
      BY <3>2, <3>3, <3>4, <3>5, <1>t, <1>a DEF TypeOK
    <3>8. DeletesOwn'
      BY <3>1, <3>2, <3>3, <3>4, <3>5, <1>t, <1>a DEF TypeOK
    <3> QED BY <3>4, <3>6, <3>7, <3>8
  <2>3. CASE ReleaseError(c)
    <3>1. PICK v \in todo[c] : NoWrite \/ (leases[v] # Free /\ Write(v, Free))
      BY <2>3 DEF ReleaseError
    <3>2. v \in Values /\ leases[v] = c /\ pc[c] = "delete" /\ Fail(c)
      BY <2>3, <3>1, <1>t DEF ReleaseError, TypeOK
    <3>3. CASE NoWrite
      BY <3>2, <3>3, <1>t DEF Fail, NoWrite, TypeOK, OneLeasePerCorrID
    <3>4. CASE Write(v, Free)
      <4>1. OneLeasePerCorrID' /\ leases' = [leases EXCEPT ![v] = Free]
        BY <3>2, <3>4, FreeKeeps
      <4>2. GrantBacked'
        BY <3>2, <4>1, <1>t, <1>a DEF Fail, TypeOK
      <4>3. ScanHoldsNothing'
        BY <3>2, <4>1, <1>t, <1>a DEF Fail, TypeOK
      <4>4. DeletesOwn'
        BY <3>2, <4>1, <1>t, <1>a DEF Fail, TypeOK
      <4> QED BY <4>1, <4>2, <4>3, <4>4
    <3> QED BY <3>1, <3>3, <3>4
  <2>4. CASE ReleaseDone(c)
    BY <2>4, <1>t DEF ReleaseDone, Fail, NoWrite, TypeOK, OneLeasePerCorrID
  <2> QED BY <1>2, <2>1, <2>2, <2>3, <2>4 DEF ReleaseStep
<1>3. CASE Deliver
  BY <1>3 DEF Deliver, OneLeasePerCorrID
<1>4. CASE Restart
  BY <1>4, <1>t DEF Restart, TypeOK, OneLeasePerCorrID
<1> QED BY <1>1, <1>2, <1>3, <1>4 DEF Next

\* A lease has one annotation, so two granted ids backed by leases differ.
LEMMA BackedIsDistinct == HoldInv => DistinctGrants
BY LeasePoolAssumption DEF HoldInv, TypeOK, GrantBacked, DistinctGrants, Values

\* The strengthened invariant holds while calls see their own leases.
LEMMA Holds == Spec /\ [][ReadsOwnWrites]_vars => []HoldInv
BY NextHold, InitHold, PTL DEF Spec

\* Reads from the API server show every lease as it is.
LEMMA FreshReads ==
    ASSUME ~CachedReads
    PROVE  Spec => [][ReadsOwnWrites]_vars
<1>1. ReadsOwnWrites
  BY DEF ReadsOwnWrites, View
<1> QED BY <1>1, PTL

\* Any interleaving, reads from the server or from a cache that lags about
\* everybody else's leases: every id in use is held by a lease annotated with
\* the correlation id that uses it ("Creation success means allocation",
\* lease.go).  So an id is unbacked only after a read that showed the caller
\* its own leases wrongly.
THEOREM GrantsBacked == Spec /\ [][ReadsOwnWrites]_vars => []GrantBacked
<1>1. HoldInv => GrantBacked
  BY DEF HoldInv
<1> QED BY <1>1, Holds, PTL

\* The same reads: no two services work with the same id, whatever calls,
\* lost answers and restarts came between.
THEOREM GrantsDistinct == Spec /\ [][ReadsOwnWrites]_vars => []DistinctGrants
BY BackedIsDistinct, Holds, PTL

\* The same reads: no correlation id accumulates leases, although the answer
\* to its Create may be lost and the call repeated.
THEOREM LeasesSingle == Spec /\ [][ReadsOwnWrites]_vars => []OneLeasePerCorrID
<1>1. HoldInv => OneLeasePerCorrID
  BY DEF HoldInv
<1> QED BY <1>1, Holds, PTL

-----------------------------------------------------------------------------
(* One call at a time, with cached reads *)

\* As the manager runs the reconciler: no call begins beside another.
OneCall == \A c, d \in CorrIDs : pc[c] # "idle" /\ pc[d] # "idle" => c = d

\* A watch event for value v is on its way to the cache.
Pending(v) == \E i \in DOMAIN events : events[i][1] = v

\* The cache trails by one event per value, which takes it or frees it: who
\* creates or deletes a lease has seen the one before.
Trails ==
    /\ \A i, j \in DOMAIN events : events[i][1] = events[j][1] => i = j
    /\ \A i \in DOMAIN events : \E v \in Values :
          events[i] = <<v, leases[v]>> /\ (cache[v] = Free <=> leases[v] # Free)
    /\ \A v \in Values : Pending(v) \/ cache[v] = leases[v]

\* What a scan may take was free in the cache as well.
ScansTrue ==
    \A c \in CorrIDs : pc[c] \in {"scan", "get"} =>
        \A v \in Values \ used[c] : leases[v] = Free => ~Pending(v)

\* What a release has listed is still the releaser's own, or gone.
DeletesTrue ==
    \A c \in CorrIDs : pc[c] = "delete" =>
        \A v \in todo[c] : leases[v] = Free \/ (leases[v] = c /\ ~Pending(v))

LagInv == TypeOK /\ OneCall /\ Trails /\ ScansTrue /\ DeletesTrue

LEMMA InitLag == Init => LagInv
<1>1. Init => TypeOK
  BY InitType
<1>2. Init => OneCall /\ Trails /\ ScansTrue /\ DeletesTrue
  BY DEF Init, OneCall, Trails, Pending, ScansTrue, DeletesTrue
<1> QED BY <1>1, <1>2 DEF LagInv

\* With one worker a call begins when none is in progress.
LEMMA FreeMeansIdle ==
    ASSUME Workers = 1, OneCall, WorkerFree
    PROVE  \A c \in CorrIDs : pc[c] = "idle"
<1>. DEFINE S == {d \in CorrIDs : pc[d] # "idle"}
<1>1. SUFFICES ASSUME NEW c \in S PROVE FALSE
  OBVIOUS
<1>2. S = {c}
  BY DEF OneCall
<1>3. Cardinality(S) = 1
  BY <1>2, FS_Singleton
<1>. QED  BY <1>3 DEF WorkerFree

\* What a step does to the calls: it leaves them, ends them, moves one on or
\* begins one while all are idle.
LEMMA OneCallKept ==
    ASSUME LagInv, NEW c \in CorrIDs, pc[c] # "idle" \/ \A d \in CorrIDs : pc[d] = "idle",
           NEW x, pc' = [pc EXCEPT ![c] = x]
    PROVE  OneCall'
BY DEF LagInv, OneCall, TypeOK

\* A write to a value without a pending event leaves one.
LEMMA WriteTrails ==
    ASSUME LagInv, CachedReads, NEW v \in Values, NEW h \in Holders,
           ~Pending(v), leases[v] = Free <=> h # Free, Write(v, h)
    PROVE  /\ Trails'
           /\ leases' = [leases EXCEPT ![v] = h]
           /\ \A u \in Values : u # v => (Pending(u)' <=> Pending(u))
<1>1. /\ leases' = [leases EXCEPT ![v] = h] /\ cache' = cache
      /\ events' = Append(events, <<v, h>>)
  BY DEF Write
<1>2. /\ events \in Seq(Values \X Holders)
      /\ leases \in [Values -> Holders] /\ cache \in [Values -> Holders]
  BY DEF LagInv, TypeOK
<1>. DEFINE n == Len(events)
<1>3. /\ n \in Nat /\ DOMAIN events = 1..n /\ DOMAIN events' = 1..(n + 1)
      /\ events'[n + 1] = <<v, h>>
      /\ \A i \in 1..n : events'[i] = events[i]
  BY <1>1, <1>2
<1>4. \A u : Pending(u)' <=> Pending(u) \/ u = v
  <2>1. ASSUME NEW u, Pending(u) PROVE Pending(u)'
    <3>1. PICK i \in 1..n : events[i][1] = u
      BY <2>1, <1>3 DEF Pending
    <3>2. i \in 1..(n + 1) /\ events'[i][1] = u
      BY <1>3, <3>1
    <3>. QED  BY <3>2, <1>3 DEF Pending
  <2>2. Pending(v)'
    <3>1. n + 1 \in 1..(n + 1) /\ events'[n + 1][1] = v
      BY <1>3
    <3>. QED  BY <3>1, <1>3 DEF Pending
  <2>3. ASSUME NEW u, Pending(u)', u # v PROVE Pending(u)
    <3>1. PICK i \in 1..(n + 1) : events'[i][1] = u
      BY <2>3, <1>3 DEF Pending
    <3>2. i # n + 1
      BY <1>3, <2>3, <3>1
    <3>3. i \in 1..n /\ events[i][1] = u
      BY <1>3, <3>1, <3>2
    <3>. QED  BY <3>3, <1>3 DEF Pending
  <2>. QED  BY <2>1, <2>2, <2>3
<1>5. \A i \in 1..n : events[i][1] # v
  BY <1>3 DEF Pending
<1>6. \A i, j \in DOMAIN events' : events'[i][1] = events'[j][1] => i = j
  <2>1. SUFFICES ASSUME NEW i \in 1..(n + 1), NEW j \in 1..(n + 1), events'[i][1] = events'[j][1]
                 PROVE  i = j
    BY <1>3
  <2>2. CASE i \in 1..n /\ j \in 1..n
    BY <2>1, <2>2, <1>3 DEF LagInv, Trails
  <2>3. CASE i = n + 1 \/ j = n + 1
    BY <2>1, <2>3, <1>3, <1>5
  <2>. QED  BY <2>2, <2>3, <1>3
<1>7. \A i \in DOMAIN events' : \E u \in Values :
        events'[i] = <<u, leases'[u]>> /\ (cache'[u] = Free <=> leases'[u] # Free)
  <2>1. SUFFICES ASSUME NEW i \in 1..(n + 1)
                 PROVE  \E u \in Values : events'[i] = <<u, leases'[u]>>
                                            /\ (cache'[u] = Free <=> leases'[u] # Free)
    BY <1>3
  <2>2. CASE i \in 1..n
    <3>1. PICK u \in Values : events[i] = <<u, leases[u]>> /\ (cache[u] = Free <=> leases[u] # Free)
      BY <2>2, <1>3 DEF LagInv, Trails
    <3>2. u # v
      BY <3>1, <1>5, <2>2
    <3>. QED  BY <3>1, <3>2, <2>2, <1>1, <1>2, <1>3
  <2>3. CASE i = n + 1
    <3>1. cache[v] = leases[v]
      BY DEF LagInv, Trails
    <3>. QED  BY <3>1, <2>3, <1>1, <1>2, <1>3
  <2>. QED  BY <2>2, <2>3, <1>3
<1>8. \A u \in Values : Pending(u)' \/ cache'[u] = leases'[u]
  BY <1>1, <1>2, <1>4 DEF LagInv, Trails
<1>. QED  BY <1>1, <1>4, <1>6, <1>7, <1>8 DEF Trails

\* A delivery takes one event away and brings the cache up to it.
LEMMA DeliverTrails ==
    ASSUME LagInv, Deliver
    PROVE  Trails' /\ \A u \in Values : Pending(u)' => Pending(u)
<1>. DEFINE n == Len(events)
<1>1. /\ events \in Seq(Values \X Holders) /\ events # <<>>
      /\ leases \in [Values -> Holders] /\ cache \in [Values -> Holders]
  BY DEF LagInv, TypeOK, Deliver
<1>2. /\ n \in Nat \ {0} /\ DOMAIN events = 1..n /\ DOMAIN events' = 1..(n - 1)
      /\ Head(events) = events[1]
      /\ \A i \in 1..(n - 1) : events'[i] = events[i + 1] /\ i + 1 \in 1..n /\ i + 1 # 1
      /\ 1 \in 1..n
  BY <1>1 DEF Deliver
<1>3. PICK v \in Values : events[1] = <<v, leases[v]>>
  BY <1>2 DEF LagInv, Trails
<1>4. cache' = [cache EXCEPT ![v] = leases[v]] /\ leases' = leases
  <2>1. Head(events)[1] = v /\ Head(events)[2] = leases[v]
    BY <1>2, <1>3
  <2>. QED  BY <2>1 DEF Deliver
<1>5. \A u : Pending(u)' => Pending(u)
  BY <1>2 DEF Pending
<1>6. \A i \in 1..(n - 1) : events'[i][1] # v
  BY <1>2, <1>3 DEF LagInv, Trails
<1>7. \A u : u # v /\ Pending(u) => Pending(u)'
  <2>1. SUFFICES ASSUME NEW u, u # v, Pending(u) PROVE Pending(u)'
    OBVIOUS
  <2>2. PICK i \in 1..n : events[i][1] = u
    BY <2>1, <1>2 DEF Pending
  <2>3. i # 1
    BY <2>1, <2>2, <1>3
  <2>4. i - 1 \in 1..(n - 1) /\ (i - 1) + 1 = i
    BY <2>3, <1>2
  <2>5. events'[i - 1][1] = u
    BY <2>2, <2>4, <1>2
  <2>. QED  BY <2>4, <2>5, <1>2 DEF Pending
<1>8. \A i, j \in DOMAIN events' : events'[i][1] = events'[j][1] => i = j
  BY <1>2 DEF LagInv, Trails
<1>9. \A i \in DOMAIN events' : \E u \in Values :
        events'[i] = <<u, leases'[u]>> /\ (cache'[u] = Free <=> leases'[u] # Free)
  <2>1. SUFFICES ASSUME NEW i \in 1..(n - 1)
                 PROVE  \E u \in Values : events'[i] = <<u, leases'[u]>>
                                            /\ (cache'[u] = Free <=> leases'[u] # Free)
    BY <1>2
  <2>2. PICK u \in Values : events[i + 1] = <<u, leases[u]>> /\ (cache[u] = Free <=> leases[u] # Free)
    BY <2>1, <1>2 DEF LagInv, Trails
  <2>3. u # v
    <3>1. events'[i][1] = u
      BY <2>2, <1>2
    <3>. QED  BY <3>1, <1>6
  <2>. QED  BY <2>1, <2>2, <2>3, <1>1, <1>2, <1>4
<1>10. \A u \in Values : Pending(u)' \/ cache'[u] = leases'[u]
  BY <1>1, <1>4, <1>7 DEF LagInv, Trails
<1>. QED  BY <1>5, <1>8, <1>9, <1>10 DEF Trails

\* Every step of one call at a time keeps the cache that close.
LEMMA NextLag ==
    ASSUME CachedReads, Workers = 1
    PROVE  LagInv /\ [Next]_vars => LagInv'
<1> SUFFICES ASSUME LagInv, [Next]_vars PROVE LagInv'
  OBVIOUS
<1>t. TypeOK /\ TypeOK'
  BY NextType DEF LagInv
<1>a. Free \notin CorrIDs
  BY LeasePoolAssumption
<1>v. View = cache
  BY DEF View
<1> SUFFICES (OneCall /\ Trails /\ ScansTrue /\ DeletesTrue)'
  BY <1>t DEF LagInv
\* A step that writes no lease moves one call, or begins one.
<1>1. ASSUME NoWrite, NEW c \in CorrIDs, NEW x, pc' = [pc EXCEPT ![c] = x],
             pc[c] # "idle" \/ WorkerFree,
             \A d \in CorrIDs \ {c} : used'[d] = used[d] /\ todo'[d] = todo[d],
             pc'[c] \in {"scan", "get"} =>
                 \A v \in Values \ used'[c] : leases[v] = Free => ~Pending(v),
             pc'[c] = "delete" =>
                 \A v \in todo'[c] : leases[v] = Free \/ (leases[v] = c /\ ~Pending(v))
      PROVE  (OneCall /\ Trails /\ ScansTrue /\ DeletesTrue)'
  <2>1. OneCall'
    BY <1>1, FreeMeansIdle, OneCallKept DEF LagInv
  <2>2. Trails' /\ \A v : Pending(v)' <=> Pending(v)
    BY <1>1 DEF LagInv, Trails, Pending, NoWrite
  <2>3. ScansTrue'
    BY <1>1, <1>t, <2>2 DEF LagInv, ScansTrue, NoWrite, TypeOK
  <2>4. DeletesTrue'
    BY <1>1, <1>t, <2>2 DEF LagInv, DeletesTrue, NoWrite, TypeOK
  <2>. QED  BY <2>1, <2>2, <2>3, <2>4
\* A call that writes ends, or goes on deleting.
<1>2. ASSUME NEW c \in CorrIDs, NEW x \in {"idle", "delete"}, pc' = [pc EXCEPT ![c] = x], pc[c] # "idle",
             NEW v \in Values, NEW h \in Holders, Write(v, h),
             ~Pending(v), leases[v] = Free <=> h # Free,
             x = "delete" => /\ pc[c] = "delete" /\ h = Free
                             /\ todo'[c] \subseteq todo[c] \ {v}
      PROVE  (OneCall /\ Trails /\ ScansTrue /\ DeletesTrue)'
  <2>1. OneCall'
    BY <1>2, OneCallKept
  <2>2. /\ Trails' /\ leases' = [leases EXCEPT ![v] = h]
        /\ \A u \in Values : u # v => (Pending(u)' <=> Pending(u))
    BY <1>2, WriteTrails
  <2>3. \A d \in CorrIDs : pc'[d] # "idle" => d = c /\ x = "delete"
    BY <1>2, <1>t, <2>1 DEF LagInv, OneCall, TypeOK
  <2>4. ScansTrue'
    BY <1>2, <1>t, <2>3 DEF ScansTrue, TypeOK
  <2>5. DeletesTrue'
    <3>1. SUFFICES ASSUME NEW u \in todo'[c], x = "delete"
                   PROVE  leases'[u] = Free \/ (leases'[u] = c /\ ~Pending(u)')
      BY <2>3 DEF DeletesTrue
    <3>2. u \in todo[c] /\ u # v /\ u \in Values
      BY <1>2, <1>t, <3>1 DEF TypeOK
    <3>. QED  BY <1>2, <1>t, <2>2, <3>1, <3>2 DEF LagInv, DeletesTrue, TypeOK
  <2>. QED  BY <2>1, <2>2, <2>4, <2>5
<1>3. ASSUME NEW c \in CorrIDs, AllocStep(c)
      PROVE  (OneCall /\ Trails /\ ScansTrue /\ DeletesTrue)'
  <2>1. CASE ListOwn(c)
    <3>1. /\ NoWrite /\ pc' = [pc EXCEPT ![c] = "idle"] /\ WorkerFree
          /\ used' = used /\ todo' = todo /\ pc'[c] = "idle"
      BY <2>1, <1>t DEF ListOwn, Return, TypeOK
    <3>. QED  BY <3>1, <1>1
  <2>2. CASE ListOthers(c)
    <3>1. /\ NoWrite /\ pc' = [pc EXCEPT ![c] = "scan"] /\ WorkerFree /\ todo' = todo
          /\ used' = [used EXCEPT ![c] = {v \in Values : cache[v] # Free}]
      BY <2>2, <1>v DEF ListOthers
    <3>2. used'[c] = {v \in Values : cache[v] # Free} /\ pc'[c] = "scan"
          /\ \A d \in CorrIDs \ {c} : used'[d] = used[d]
      BY <3>1, <1>t DEF TypeOK
    <3>3. ASSUME NEW v \in Values \ used'[c], leases[v] = Free PROVE ~Pending(v)
      <4>1. cache[v] = Free
        BY <3>2, <3>3
      <4>. QED  BY <4>1, <3>3 DEF LagInv, Trails, Pending
    <3>. QED  BY <3>1, <3>2, <3>3, <1>1
  <2>3. CASE CreateOK(c)
    <3>1. PICK v \in Values : Next1(c, v) /\ leases[v] = Free /\ Write(v, c) /\ Return(c, v)
      BY <2>3 DEF CreateOK
    <3>2. pc[c] = "scan" /\ v \notin used[c]
      BY <2>3, <3>1 DEF CreateOK, Next1
    <3>3. ~Pending(v)
      BY <3>1, <3>2 DEF LagInv, ScansTrue
    <3>4. pc' = [pc EXCEPT ![c] = "idle"] /\ c \in Holders /\ c # Free
      BY <3>1, <1>a DEF Return, Holders
    <3>. QED  BY <3>1, <3>2, <3>3, <3>4, <1>2
  <2>4. CASE CreateExists(c) \/ GetOther(c)
    <3>1. PICK x \in {"get", "scan"} : pc' = [pc EXCEPT ![c] = x]
      BY <2>4 DEF CreateExists, GetOther
    <3>2. NoWrite /\ used' = used /\ todo' = todo /\ pc[c] \in {"scan", "get"}
      BY <2>4 DEF CreateExists, GetOther
    <3>3. pc'[c] = x
      BY <3>1, <1>t DEF TypeOK
    <3>4. \A v \in Values \ used'[c] : leases[v] = Free => ~Pending(v)
      BY <3>2 DEF LagInv, ScansTrue
    <3>. QED  BY <3>1, <3>2, <3>3, <3>4, <1>1
  <2>5. CASE CreateError(c)
    <3>1. PICK v \in Values : Next1(c, v) /\ (NoWrite \/ (leases[v] = Free /\ Write(v, c)))
      BY <2>5 DEF CreateError
    <3>2. /\ pc[c] = "scan" /\ v \notin used[c] /\ used' = used /\ todo' = todo
          /\ pc' = [pc EXCEPT ![c] = "idle"]
      BY <2>5, <3>1 DEF CreateError, Next1, Fail
    <3>3. pc'[c] = "idle"
      BY <3>2, <1>t DEF TypeOK
    <3>4. CASE NoWrite
      BY <3>2, <3>3, <3>4, <1>1
    <3>5. CASE leases[v] = Free /\ Write(v, c)
      <4>1. ~Pending(v)
        BY <3>2, <3>5 DEF LagInv, ScansTrue
      <4>2. c \in Holders /\ c # Free
        BY <1>a DEF Holders
      <4>. QED  BY <3>2, <3>5, <4>1, <4>2, <1>2
    <3>. QED  BY <3>1, <3>4, <3>5
  <2>6. CASE GetOwn(c) \/ Exhausted(c)
    <3>1. /\ NoWrite /\ pc' = [pc EXCEPT ![c] = "idle"] /\ pc[c] # "idle"
          /\ used' = used /\ todo' = todo
      BY <2>6 DEF GetOwn, Exhausted, Return, Fail
    <3>2. pc'[c] = "idle"
      BY <3>1, <1>t DEF TypeOK
    <3>. QED  BY <3>1, <3>2, <1>1
  <2>. QED  BY <1>3, <2>1, <2>2, <2>3, <2>4, <2>5, <2>6 DEF AllocStep
<1>4. ASSUME NEW c \in CorrIDs, ReleaseStep(c)
      PROVE  (OneCall /\ Trails /\ ScansTrue /\ DeletesTrue)'
  <2>1. CASE ReleaseList(c)
    <3>1. /\ NoWrite /\ pc' = [pc EXCEPT ![c] = "delete"] /\ WorkerFree /\ used' = used
          /\ todo' = [todo EXCEPT ![c] = {v \in Values : cache[v] = c}]
      BY <2>1, <1>v DEF ReleaseList
    <3>2. todo'[c] = {v \in Values : cache[v] = c} /\ pc'[c] = "delete"
          /\ \A d \in CorrIDs \ {c} : todo'[d] = todo[d]
      BY <3>1, <1>t DEF TypeOK
    <3>3. ASSUME NEW v \in todo'[c]
          PROVE  leases[v] = Free \/ (leases[v] = c /\ ~Pending(v))
      <4>1. v \in Values /\ cache[v] = c /\ cache[v] # Free
        BY <3>2, <1>a
      <4>2. Pending(v) => leases[v] = Free
        BY <4>1 DEF LagInv, Trails, Pending
      <4>. QED  BY <4>1, <4>2 DEF LagInv, Trails
    <3>. QED  BY <3>1, <3>2, <3>3, <1>1
  <2>2. CASE ReleaseDelete(c)
    <3>1. PICK v \in todo[c] : /\ IF leases[v] = Free THEN NoWrite ELSE Write(v, Free)
                               /\ todo' = [todo EXCEPT ![c] = @ \ {v}]
      BY <2>2 DEF ReleaseDelete
    <3>2. /\ pc[c] = "delete" /\ pc' = pc /\ used' = used
          /\ v \in Values /\ Free \in Holders
          /\ todo'[c] = todo[c] \ {v} /\ \A d \in CorrIDs \ {c} : todo'[d] = todo[d]
      BY <2>2, <3>1, <1>t DEF ReleaseDelete, TypeOK, Holders
    <3>3. pc' = [pc EXCEPT ![c] = "delete"] /\ pc'[c] = "delete"
      BY <3>2, <1>t DEF TypeOK
    <3>4. \A u \in todo[c] : leases[u] = Free \/ (leases[u] = c /\ ~Pending(u))
      BY <3>2 DEF LagInv, DeletesTrue
    <3>5. CASE leases[v] = Free
      BY <3>1, <3>2, <3>3, <3>4, <3>5, <1>1
    <3>6. CASE leases[v] # Free
      BY <3>1, <3>2, <3>3, <3>4, <3>6, <1>2
    <3>. QED  BY <3>5, <3>6
  <2>3. CASE ReleaseError(c)
    <3>1. PICK v \in todo[c] : NoWrite \/ (leases[v] # Free /\ Write(v, Free))
      BY <2>3 DEF ReleaseError
    <3>2. /\ pc[c] = "delete" /\ pc' = [pc EXCEPT ![c] = "idle"] /\ used' = used /\ todo' = todo
          /\ v \in Values /\ Free \in Holders
      BY <2>3, <3>1, <1>t DEF ReleaseError, Fail, TypeOK, Holders
    <3>3. pc'[c] = "idle"
      BY <3>2, <1>t DEF TypeOK
    <3>4. CASE NoWrite
      BY <3>2, <3>3, <3>4, <1>1
    <3>5. CASE leases[v] # Free /\ Write(v, Free)
      <4>1. ~Pending(v)
        BY <3>1, <3>2, <3>5 DEF LagInv, DeletesTrue
      <4>. QED  BY <3>2, <3>5, <4>1, <1>2
    <3>. QED  BY <3>1, <3>4, <3>5
  <2>4. CASE ReleaseDone(c)
    <3>1. /\ NoWrite /\ pc' = [pc EXCEPT ![c] = "idle"] /\ pc[c] # "idle"
          /\ used' = used /\ todo' = todo
      BY <2>4 DEF ReleaseDone, Fail
    <3>2. pc'[c] = "idle"
      BY <3>1, <1>t DEF TypeOK
    <3>. QED  BY <3>1, <3>2, <1>1
  <2>. QED  BY <1>4, <2>1, <2>2, <2>3, <2>4 DEF ReleaseStep
<1>5. CASE Deliver
  <2>1. Trails' /\ \A v \in Values : Pending(v)' => Pending(v)
    BY <1>5, DeliverTrails
  <2>2. UNCHANGED <<leases, pc, used, todo>>
    BY <1>5 DEF Deliver
  <2>3. OneCall' /\ ScansTrue' 
    BY <2>1, <2>2 DEF LagInv, OneCall, ScansTrue
  <2>4. DeletesTrue'
    BY <2>1, <2>2, <1>t DEF LagInv, DeletesTrue, TypeOK
  <2>. QED  BY <2>1, <2>3, <2>4
<1>6. CASE Restart
  <2>1. pc' = [c \in CorrIDs |-> "idle"] /\ cache' = leases /\ leases' = leases /\ events' = <<>>
    BY <1>6 DEF Restart
  <2>. QED  BY <2>1 DEF OneCall, Trails, Pending, ScansTrue, DeletesTrue
<1>7. CASE UNCHANGED vars
  BY <1>7 DEF vars, LagInv, OneCall, Trails, Pending, ScansTrue, DeletesTrue
<1> QED BY <1>3, <1>4, <1>5, <1>6, <1>7 DEF Next

-----------------------------------------------------------------------------
(* Whose leases a release deletes *)

\* What has to be known of the deletes in progress.
DeletesNoOthers ==
    \A c \in CorrIDs : pc[c] = "delete" => \A v \in todo[c] : leases[v] \in {Free, c}

\* The reads are fresh, or cached and the manager runs one reconcile at a
\* time, as cmd/srv6-controller does: although Delete names no holder, a lease
\* is only ever deleted by the release of the correlation id it belongs to.
\* With cached reads and two workers it may hit another's.
THEOREM ReleasesOwn ==
    ASSUME ~CachedReads \/ Workers = 1
    PROVE  Spec => OnlyHolderReleases
<1> DEFINE Own == \A v \in Values : leases[v] # Free /\ leases'[v] # leases[v]
                     => leases'[v] = Free /\ pc[leases[v]] = "delete"
<1>1. TypeOK /\ DeletesNoOthers /\ [Next]_vars => [Own]_vars
  <2> SUFFICES ASSUME TypeOK, DeletesNoOthers, Next PROVE Own
    BY DEF Next
  <2>1. ASSUME NEW c \in CorrIDs, AllocStep(c) PROVE Own
    <3>1. CASE CreateOK(c)
      BY <3>1 DEF CreateOK, Write, TypeOK
    <3>2. CASE CreateError(c)
      BY <3>2 DEF CreateError, Write, NoWrite, TypeOK
    <3>3. CASE ~CreateOK(c) /\ ~CreateError(c)
      BY <2>1, <3>3 DEF AllocStep, ListOwn, ListOthers, CreateExists, GetOwn, GetOther,
                        Exhausted, NoWrite
    <3> QED BY <3>1, <3>2, <3>3
  <2>2. ASSUME NEW c \in CorrIDs, ReleaseStep(c) PROVE Own
    <3>1. CASE ReleaseDelete(c)
      BY <3>1 DEF ReleaseDelete, Write, NoWrite, TypeOK, DeletesNoOthers
    <3>2. CASE ReleaseError(c)
      BY <3>2 DEF ReleaseError, Write, NoWrite, TypeOK, DeletesNoOthers
    <3>3. CASE ReleaseList(c) \/ ReleaseDone(c)
      BY <3>3 DEF ReleaseList, ReleaseDone, NoWrite
    <3> QED BY <2>2, <3>1, <3>2, <3>3 DEF ReleaseStep
  <2>3. CASE Deliver \/ Restart
    BY <2>3 DEF Deliver, Restart
  <2> QED BY <2>1, <2>2, <2>3 DEF Next
<1>2. CASE ~CachedReads
  <2>1. HoldInv => TypeOK /\ DeletesNoOthers
    BY DEF HoldInv, DeletesOwn, DeletesNoOthers
  <2>2. Spec => []HoldInv
    BY <1>2, FreshReads, Holds, PTL
  <2>. QED  BY <1>1, <2>1, <2>2, PTL DEF Spec, OnlyHolderReleases
<1>3. CASE CachedReads /\ Workers = 1
  <2>1. LagInv => TypeOK /\ DeletesNoOthers
    BY DEF LagInv, DeletesTrue, DeletesNoOthers
  <2>2. LagInv /\ [Next]_vars => LagInv'
    BY <1>3, NextLag
  <2>. QED  BY <1>1, <2>1, <2>2, InitLag, PTL DEF Spec, OnlyHolderReleases
<1> QED BY <1>2, <1>3

-----------------------------------------------------------------------------
(* Refinement *)

\* Every step of the requests is a step of the atomic authority or a stutter.
LEMMA StepRefines ==
    HoldInv /\ [Next]_vars /\ [ReadsOwnWrites]_vars => [Authority!Next]_<<leases, grant>>
<1> SUFFICES ASSUME HoldInv, Next, ReadsOwnWrites PROVE [Authority!Next]_<<leases, grant>>
  BY DEF vars
<1>v. ASSUME NEW c \in CorrIDs, Reads(c), NEW v \in Values
      PROVE  View[v] = c <=> leases[v] = c
  BY <1>v DEF ReadsOwnWrites
<1>a. Free \notin CorrIDs /\ 0 \notin Values
  BY LeasePoolAssumption DEF Values
<1> USE DEF HoldInv
<1>1. ASSUME NEW c \in CorrIDs, NEW v \in Values,
             grant[c] = 0, leases[v] \in {Free, c},
             \A w \in Values : leases[w] = c => w = v,
             leases' = [leases EXCEPT ![v] = c], grant' = [grant EXCEPT ![c] = v]
      PROVE  Authority!Next
  BY <1>1 DEF Authority!Next, Authority!Acquire
<1>2. ASSUME NEW v \in Values, leases[v] # Free, grant[leases[v]] # v,
             leases' = [leases EXCEPT ![v] = Free], grant' = grant
      PROVE  Authority!Next
  BY <1>2 DEF Authority!Next, Authority!Relinquish
<1>3. ASSUME NEW S \in SUBSET CorrIDs, leases' = leases,
             grant' = [c \in CorrIDs |-> IF c \in S THEN 0 ELSE grant[c]]
      PROVE  Authority!Next
  BY <1>3 DEF Authority!Next, Authority!Forget
<1>4. ASSUME NEW c \in CorrIDs, AllocStep(c)
      PROVE  [Authority!Next]_<<leases, grant>>
  <2>1. CASE ListOwn(c)
    <3>1. PICK v \in Values : leases[v] = c /\ grant' = [grant EXCEPT ![c] = v]
      BY <2>1, <1>v DEF Reads, ListOwn, Return
    <3>2. leases' = [leases EXCEPT ![v] = c]
      BY <2>1, <3>1 DEF ListOwn, NoWrite, TypeOK
    <3>3. \A w \in Values : leases[w] = c => w = v
      BY <3>1, <1>a DEF OneLeasePerCorrID
    <3> QED BY <2>1, <3>1, <3>2, <3>3, <1>1 DEF ListOwn
  <2>2. CASE CreateOK(c)
    <3>1. PICK v \in Values : leases[v] = Free /\ Write(v, c) /\ Return(c, v)
      BY <2>2 DEF CreateOK
    <3>2. grant[c] = 0 /\ \A w \in Values : leases[w] # c
      BY <2>2 DEF CreateOK, ScanHoldsNothing
    <3> QED BY <3>1, <3>2, <1>1 DEF Write, Return
  <2>3. CASE CreateError(c)
    <3>1. PICK v \in Values : NoWrite \/ (leases[v] = Free /\ Write(v, c))
      BY <2>3 DEF CreateError
    <3>2. \A w \in Values : leases[w] # c
      BY <2>3 DEF CreateError, ScanHoldsNothing
    <3>3. grant' = grant
      BY <2>3 DEF CreateError, Fail
    <3> QED BY <3>1, <3>2, <3>3 DEF Write, NoWrite, Authority!Next, Authority!Reserve
  <2>4. CASE GetOwn(c)
    BY <2>4, <1>v DEF Reads, GetOwn, ScanHoldsNothing, TypeOK
  <2>5. CASE ListOthers(c) \/ CreateExists(c) \/ GetOther(c) \/ Exhausted(c)
    BY <2>5 DEF ListOthers, CreateExists, GetOther, Exhausted, NoWrite, Fail
  <2> QED BY <1>4, <2>1, <2>2, <2>3, <2>4, <2>5 DEF AllocStep
<1>5. ASSUME NEW c \in CorrIDs, ReleaseStep(c)
      PROVE  [Authority!Next]_<<leases, grant>>
  <2>1. CASE ReleaseList(c)
    <3>1. grant' = [d \in CorrIDs |-> IF d \in {c} THEN 0 ELSE grant[d]]
      BY <2>1 DEF ReleaseList, TypeOK
    <3> QED BY <2>1, <3>1, <1>3 DEF ReleaseList, NoWrite
  <2>2. CASE ReleaseDelete(c) \/ ReleaseError(c)
    <3>1. PICK v \in todo[c] : NoWrite \/ Write(v, Free)
      BY <2>2 DEF ReleaseDelete, ReleaseError
    <3>2. v \in Values /\ leases[v] = c /\ grant[c] = 0 /\ grant' = grant
      BY <2>2, <3>1 DEF ReleaseDelete, ReleaseError, Fail, DeletesOwn, TypeOK
    <3> QED BY <3>1, <3>2, <1>2, <1>a DEF Write, NoWrite
  <2>3. CASE ReleaseDone(c)
    BY <2>3 DEF ReleaseDone, Fail, NoWrite
  <2> QED BY <1>5, <2>1, <2>2, <2>3 DEF ReleaseStep
<1>6. CASE Restart
  BY <1>6, <1>3 DEF Restart
<1>7. CASE Deliver
  BY <1>7 DEF Deliver
<1> QED BY <1>4, <1>5, <1>6, <1>7 DEF Next

\* A call that sees its own leases: the request-level protocol implements the
\* atomic authority, every interleaving, lost answer and restart included.
THEOREM Refinement == Spec /\ [][ReadsOwnWrites]_vars => ImplementsIdAuthority
<1>1. Init => Authority!Init
  BY DEF Init, Authority!Init
<1>2. HoldInv /\ [Next]_vars /\ [ReadsOwnWrites]_vars => [Authority!Next]_<<leases, grant>>
  BY StepRefines
<1> QED
  BY <1>1, <1>2, InitHold, NextHold, PTL DEF Spec, ImplementsIdAuthority, Authority!Spec,
                                             Authority!authority
=============================================================================
