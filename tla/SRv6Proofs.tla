----------------------------- MODULE SRv6Proofs -----------------------------
(***************************************************************************)
(* ClaimsGuarded for every set of nodes, ports and specs, every bound, and *)
(* a Get that reads the API server or a cache that trails it.              *)
(*                                                                         *)
(* The argument.  Only a pass claims, and only once it has seen the        *)
(* finalizer on an object that is not being deleted; what it has seen may  *)
(* be old, but an object only moves from bare to held (finalizer on) to    *)
(* deleting to gone, so the object was held then.  From held it becomes    *)
(* gone only through a finalizing pass, and there is one worker.           *)
(***************************************************************************)
EXTENDS SRv6Controller, TLAPS

\* Steps of a pass that found the service deleted, and of one that serves it.
Finalizing == {"finRollback", "finRelease", "finNote", "finDrop"}
Serving == Steps \ (Finalizing \cup {"idle", "addFin"})

\* obj, seen and w are records with these fields.
Shapes ==
    /\ DOMAIN obj = DOMAIN Gone
    /\ DOMAIN seen = DOMAIN Gone
    /\ DOMAIN w = DOMAIN Idle
    /\ w.pc \in Steps

\* The phases of an object, and what the copy Get reads tells of it.
Held(o) == o.here /\ o.fin /\ ~o.deleting

Phases ==
    /\ obj.fin => obj.here
    /\ obj.deleting => obj.fin
    /\ Held(seen) => obj.here /\ obj.fin
    /\ seen.deleting => obj.deleting \/ ~obj.here

PassKnows ==
    /\ w.pc \in Serving => obj.here /\ obj.fin
    /\ w.pc \in Finalizing => ~Held(obj) /\ ~Held(seen)
    /\ w.pc = "finDrop" => claims = {}

GuardInv == Shapes /\ Phases /\ PassKnows /\ ClaimsGuarded

\* A write keeps the fields of the object, and the copy is the old one or it.
LEMMA StoreSeen ==
    ASSUME NEW o, NEW by, Store(o, by)
    PROVE  obj' = o /\ (seen' = seen \/ seen' = o)
BY DEF Store

\* A patch of the status leaves the phase alone.
LEMMA PatchedPhase ==
    ASSUME NEW new, DOMAIN obj = DOMAIN Gone
    PROVE  /\ DOMAIN Patched(new) = DOMAIN Gone
           /\ Patched(new).here = obj.here
           /\ Patched(new).fin = obj.fin
           /\ Patched(new).deleting = obj.deleting
BY DEF Patched, Gone

\* Initially the object is bare and nothing is claimed.
LEMMA InitGuard == Init => GuardInv
BY DEF Init, GuardInv, Shapes, Phases, PassKnows, ClaimsGuarded, Held, Created, Gone,
       Idle, Serving, Finalizing, Steps, Applying, RollingBack, Verifying, Releasing

\* A step keeps GuardInv if it leaves the phase of the object alone, keeps
\* the pass on its side (serving or finalizing), claims only when serving and
\* goes to finDrop only without claims.
LEMMA SamePhase ==
    ASSUME GuardInv,
           DOMAIN obj' = DOMAIN Gone,
           obj'.here = obj.here, obj'.fin = obj.fin, obj'.deleting = obj.deleting,
           seen' = seen \/ seen' = obj',
           DOMAIN w' = DOMAIN Idle, w'.pc \in Steps,
           \/ w'.pc = w.pc
           \/ w'.pc = "idle"
           \/ w.pc \in Serving /\ w'.pc \in Serving
           \/ w.pc \in Finalizing /\ w'.pc \in Finalizing,
           claims' # {} => claims # {} \/ w.pc \in Serving,
           w'.pc = "finDrop" => claims' = {}
    PROVE  GuardInv'
<1>1. Shapes'
  BY DEF GuardInv, Shapes
<1>2. Phases'
  BY DEF GuardInv, Phases, Held
<1>3. PassKnows'
  <2>1. w'.pc \in Serving => obj'.here /\ obj'.fin
    BY DEF GuardInv, PassKnows, Serving, Finalizing
  <2>2. w'.pc \in Finalizing => ~Held(obj') /\ ~Held(seen')
    BY DEF GuardInv, PassKnows, Serving, Finalizing, Held
  <2>. QED  BY <2>1, <2>2 DEF PassKnows, Held
<1>4. ClaimsGuarded'
  BY DEF GuardInv, PassKnows, ClaimsGuarded
<1>. QED  BY <1>1, <1>2, <1>3, <1>4 DEF GuardInv

\* What the steps of a pass have in common when they do not write the object.
Inside ==
    /\ UNCHANGED <<obj, seen>>
    /\ DOMAIN w' = DOMAIN Idle /\ w'.pc \in Steps
    /\ \/ w'.pc = w.pc
       \/ w'.pc = "idle"
       \/ w.pc \in Serving /\ w'.pc \in Serving
       \/ w.pc \in Finalizing /\ w'.pc \in Finalizing
    /\ claims' # {} => claims # {} \/ w.pc \in Serving
    /\ w'.pc = "finDrop" => claims' = {}

\* Such a step keeps the invariant.
LEMMA InsideKeeps ==
    ASSUME GuardInv, Inside
    PROVE  GuardInv'
<1>1. DOMAIN obj = DOMAIN Gone
  BY DEF GuardInv, Shapes
<1>. QED  BY <1>1, SamePhase DEF Inside

\* Claims: made by a serving pass only, released by either.
LEMMA IdentifyInside ==
    ASSUME GuardInv,
           \/ AddFinalizerFails
           \/ ClaimOK \/ ClaimFails \/ ClaimExhausted \/ ClaimsDone
           \/ ReleaseOK \/ ReleaseFails
    PROVE  Inside
<1>. USE DEF GuardInv, Shapes, Inside, Idle, Serving, Finalizing, Steps, Applying, RollingBack,
             Verifying, Releasing, api
<1>1. CASE AddFinalizerFails
  BY <1>1 DEF AddFinalizerFails, Return
<1>2. CASE ClaimOK
  BY <1>2 DEF ClaimOK, Allocating
<1>3. CASE ClaimFails
  BY <1>3 DEF ClaimFails, Allocating, Return
<1>4. CASE ClaimExhausted
  BY <1>4 DEF ClaimExhausted, Allocating
<1>5. CASE ClaimsDone
  BY <1>5 DEF ClaimsDone
<1>6. CASE ReleaseOK
  BY <1>6 DEF ReleaseOK, AfterRelease
<1>7. CASE ReleaseFails
  BY <1>7 DEF ReleaseFails, AfterRelease
<1>. QED  BY <1>1, <1>2, <1>3, <1>4, <1>5, <1>6, <1>7

\* The walks write devices, never the object or the claims.
LEMMA DriveInside ==
    ASSUME GuardInv, Drive
    PROVE  Inside
<1>. USE DEF GuardInv, Shapes, Inside, Idle, Serving, Finalizing, Steps, Applying, RollingBack,
             Verifying, Releasing, api
<1>1. CASE PlanFirst
  BY <1>1 DEF PlanFirst, Walk
<1>2. CASE PlanUpdate
  BY <1>2 DEF PlanUpdate
<1>3. CASE PlanSame
  BY <1>3 DEF PlanSame, Walk
<1>4. CASE ApplyOK
  BY <1>4 DEF ApplyOK
<1>5. CASE ApplyFails
  BY <1>5 DEF ApplyFails, Walk
<1>6. CASE ApplyDone
  BY <1>6 DEF ApplyDone, Walk
<1>7. CASE RollbackAnswered
  BY <1>7 DEF RollbackAnswered
<1>8. CASE RollbackFails
  BY <1>8 DEF RollbackFails
<1>9. CASE RollbackDone
  BY <1>9 DEF RollbackDone, Walk
<1>10. CASE VerifyOK
  BY <1>10 DEF VerifyOK
<1>11. CASE VerifyFails
  BY <1>11 DEF VerifyFails
<1>12. CASE VerifyDone
  BY <1>12 DEF VerifyDone
<1>. QED  BY <1>1, <1>2, <1>3, <1>4, <1>5, <1>6, <1>7, <1>8, <1>9, <1>10, <1>11, <1>12 DEF Drive

\* The concluding steps that leave the object alone.
LEMMA ConcludeInside ==
    ASSUME GuardInv,
           \/ PathUnsteered \/ PathServed \/ PathDown \/ PathUnread \/ DriftUnnoted
           \/ ProbePassed \/ ProbeFailed \/ ProbeUnanswered
           \/ RecordNewFails \/ RecordFails \/ RefuseFails \/ FinalizeDropFails
    PROVE  Inside
<1>. USE DEF GuardInv, Shapes, Inside, Idle, Serving, Finalizing, Steps, Applying, RollingBack,
             Verifying, Releasing, api
<1>0. \A ref, act : /\ DOMAIN Judged(ref, act) = DOMAIN Idle
                    /\ Judged(ref, act).pc \in {"probe", "drift", "refuse"}
  BY DEF Judged
<1>1. CASE PathUnsteered
  BY <1>0, <1>1 DEF PathUnsteered
<1>2. CASE PathServed
  <2>1. PICK ref, act : w' = Judged(ref, act)
    BY <1>2 DEF PathServed
  <2>. QED  BY <1>0, <1>2, <2>1 DEF PathServed
<1>3. CASE PathDown
  BY <1>3 DEF PathDown
<1>4. CASE PathUnread
  BY <1>4 DEF PathUnread, Return
<1>5. CASE DriftUnnoted
  BY <1>5 DEF DriftUnnoted, Walk
<1>6. CASE ProbePassed
  BY <1>6 DEF ProbePassed
<1>7. CASE ProbeFailed
  BY <1>7 DEF ProbeFailed
<1>8. CASE ProbeUnanswered
  BY <1>8 DEF ProbeUnanswered, Return
<1>9. CASE RecordNewFails
  BY <1>9 DEF RecordNewFails
<1>10. CASE RecordFails
  BY <1>10 DEF RecordFails, Return
<1>11. CASE RefuseFails
  BY <1>11 DEF RefuseFails, Return
<1>12. CASE FinalizeDropFails
  BY <1>12 DEF FinalizeDropFails, Return
<1>. QED  BY <1>1, <1>2, <1>3, <1>4, <1>5, <1>6, <1>7, <1>8, <1>9, <1>10, <1>11, <1>12

\* A step that writes the object without changing its phase.
LEMMA WriteKeeps ==
    ASSUME GuardInv, NEW o, NEW by, Store(o, by),
           DOMAIN o = DOMAIN Gone,
           o.here = obj.here, o.fin = obj.fin, o.deleting = obj.deleting,
           DOMAIN w' = DOMAIN Idle, w'.pc \in Steps,
           \/ w'.pc = w.pc
           \/ w'.pc = "idle"
           \/ w.pc \in Serving /\ w'.pc \in Serving,
           w'.pc # "finDrop" \/ w'.pc = w.pc,
           claims' = claims
    PROVE  GuardInv'
<1>1. obj' = o /\ (seen' = seen \/ seen' = o)
  BY StoreSeen
<1>2. w'.pc = "finDrop" => claims' = {}
  BY DEF GuardInv, PassKnows
<1>. QED  BY <1>1, <1>2, SamePhase

\* The concluding steps that patch the status.
LEMMA ConcludeWrites ==
    ASSUME GuardInv, DriftNoted \/ RecordNew \/ Record \/ Refuse \/ FinalizeNote
    PROVE  GuardInv'
<1>0. DOMAIN obj = DOMAIN Gone /\ DOMAIN w = DOMAIN Idle
  BY DEF GuardInv, Shapes
<1>a. \A new : /\ DOMAIN Patched(new) = DOMAIN Gone
               /\ Patched(new).here = obj.here
               /\ Patched(new).fin = obj.fin
               /\ Patched(new).deleting = obj.deleting
  BY <1>0, PatchedPhase
<1>b. Idle.pc = "idle" /\ "idle" \in Steps
  BY DEF Idle, Steps
<1>1. CASE DriftNoted
  <2>1. PICK o : o = Patched([w.svc.st EXCEPT !.cond = Condition(FALSE, w.ref)])
    OBVIOUS
  <2>2. Store(o, "self") /\ w' = [Walk("repair", w.plan) EXCEPT !.svc = Refreshed(o)] /\ claims' = claims
    BY <1>1, <2>1 DEF DriftNoted
  <2>3. DOMAIN w' = DOMAIN Idle /\ w'.pc = "repair"
    BY <1>0, <2>2 DEF Walk, Idle
  <2>4. w.pc \in Serving /\ "repair" \in Serving /\ "repair" \in Steps
    BY <1>1 DEF DriftNoted, Serving, Finalizing, Steps, Applying
  <2>. QED  BY <1>a, <2>1, <2>2, <2>3, <2>4, WriteKeeps
<1>2. CASE RecordNew
  <2>1. PICK o : o = Patched(ReadyOutcome(w.svc.st.active, w.svc.st.probed))
    OBVIOUS
  <2>2. Store(o, "self") /\ w' = [Walk("verify", w.plan) EXCEPT !.svc = Refreshed(o)] /\ claims' = claims
    BY <1>2, <2>1 DEF RecordNew
  <2>3. DOMAIN w' = DOMAIN Idle /\ w'.pc = "verify"
    BY <1>0, <2>2 DEF Walk, Idle
  <2>4. w.pc \in Serving /\ "verify" \in Serving /\ "verify" \in Steps
    BY <1>2 DEF RecordNew, Serving, Finalizing, Steps, Verifying
  <2>. QED  BY <1>a, <2>1, <2>2, <2>3, <2>4, WriteKeeps
<1>3. CASE Record
  <2>1. w' = Idle /\ claims' = claims
    BY <1>3 DEF Record, Return
  <2>2. CASE UNCHANGED api
    <3>. Inside
      BY <1>b, <2>1, <2>2 DEF Inside, api, Idle
    <3>. QED  BY InsideKeeps
  <2>3. CASE Store(Patched(ReadyOutcome(w.active, w.probed)), "self")
    BY <1>a, <1>b, <2>1, <2>3, WriteKeeps
  <2>. QED  BY <1>3, <2>2, <2>3 DEF Record
<1>4. CASE Refuse
  <2>1. w' = Idle /\ claims' = claims
    BY <1>4 DEF Refuse, Return
  <2>2. Store(Patched([w.svc.st EXCEPT !.cond = Condition(FALSE, w.ref)]), "self")
    BY <1>4 DEF Refuse
  <2>. QED  BY <1>a, <1>b, <2>1, <2>2, WriteKeeps
<1>5. CASE FinalizeNote
  <2>1. w' = Idle /\ claims' = claims
    BY <1>5 DEF FinalizeNote, Return
  <2>2. CASE UNCHANGED api
    <3>. Inside
      BY <1>b, <2>1, <2>2 DEF Inside, api, Idle
    <3>. QED  BY InsideKeeps
  <2>3. CASE Store(Patched([w.svc.st EXCEPT !.cond = Condition(FALSE, <<"Finalizing", 0>>)]), "self")
    BY <1>a, <1>b, <2>1, <2>3, WriteKeeps
  <2>. QED  BY <1>5, <2>2, <2>3 DEF FinalizeNote
<1>. QED  BY <1>1, <1>2, <1>3, <1>4, <1>5

\* Get: a pass serves only an object it saw held, and finalizes only one it
\* saw deleting.
LEMMA GetKeeps ==
    ASSUME GuardInv, Get
    PROVE  GuardInv'
<1>1. UNCHANGED <<obj, seen, claims>> /\ w.pc = "idle"
  BY DEF Get, GetGone, GetDeleting, GetBare, GetRefused, GetReuse, GetAllocate, Getting, Dequeue
<1>2. CASE GetGone
  <2>. Inside
    BY <1>1, <1>2 DEF GetGone, Return, Inside, Idle, Steps
  <2>. QED  BY InsideKeeps
<1>3. CASE GetDeleting
  <2>1. DOMAIN w' = DOMAIN Idle /\ w'.pc = "finRollback"
    BY <1>3 DEF GetDeleting, Begin, Idle
  <2>2. ~Held(seen) /\ ~Held(obj)
    BY <1>3 DEF GetDeleting, GuardInv, Phases, Held
  <2>. QED
    BY <1>1, <2>1, <2>2 DEF GuardInv, Shapes, Phases, PassKnows, ClaimsGuarded, Serving, Finalizing,
                          Steps, RollingBack, Held
<1>4. CASE GetBare
  <2>1. DOMAIN w' = DOMAIN Idle /\ w'.pc = "addFin"
    BY <1>4 DEF GetBare, Begin, Idle
  <2>. QED
    BY <1>1, <2>1 DEF GuardInv, Shapes, Phases, PassKnows, ClaimsGuarded, Serving, Finalizing, Steps, Held
<1>5. CASE GetRefused \/ GetReuse \/ GetAllocate
  <2>1. DOMAIN w' = DOMAIN Idle /\ w'.pc \in {"refuse", "plan", "allocId"}
    BY <1>5 DEF GetRefused, GetReuse, GetAllocate, Begin, Idle
  <2>2. obj.here /\ obj.fin
    BY <1>5 DEF GetRefused, GetReuse, GetAllocate, Getting, GuardInv, Phases, Held
  <2>. QED
    BY <1>1, <2>1, <2>2 DEF GuardInv, Shapes, Phases, PassKnows, ClaimsGuarded, Serving, Finalizing,
                          Steps, Held
<1>. QED  BY <1>2, <1>3, <1>4, <1>5 DEF Get

\* The finalizer goes on, and off.
LEMMA FinalizerKeeps ==
    ASSUME GuardInv, AddFinalizer \/ FinalizeDrop
    PROVE  GuardInv'
<1>0. DOMAIN obj = DOMAIN Gone
  BY DEF GuardInv, Shapes
<1>1. w' = Idle /\ claims' = claims
  BY DEF AddFinalizer, FinalizeDrop, Return
<1>2. Shapes' /\ PassKnows' <=> DOMAIN obj' = DOMAIN Gone /\ DOMAIN seen' = DOMAIN Gone
  BY <1>1 DEF Shapes, PassKnows, Idle, Steps, Serving, Finalizing
<1>3. CASE AddFinalizer
  <2>1. PICK o : o = [obj EXCEPT !.fin = TRUE]
    OBVIOUS
  <2>2. obj' = o /\ (seen' = seen \/ seen' = o)
    BY <1>3, <2>1, StoreSeen DEF AddFinalizer
  <2>3. DOMAIN o = DOMAIN Gone /\ o.fin /\ o.here = obj.here /\ o.deleting = obj.deleting /\ obj.here
    BY <1>0, <1>3, <2>1 DEF AddFinalizer, Gone
  <2>. QED
    BY <1>1, <1>2, <2>2, <2>3 DEF GuardInv, Shapes, Phases, ClaimsGuarded, Held
<1>4. CASE FinalizeDrop
  <2>1. obj' = Gone /\ (seen' = seen \/ seen' = Gone)
    BY <1>4, StoreSeen DEF FinalizeDrop
  <2>2. claims = {} /\ ~Held(seen)
    BY <1>4 DEF FinalizeDrop, GuardInv, PassKnows, Finalizing
  <2>3. ~Gone.here /\ ~Gone.fin /\ ~Gone.deleting
    BY DEF Gone
  <2>. QED
    BY <1>1, <1>2, <2>1, <2>2, <2>3 DEF GuardInv, Shapes, Phases, ClaimsGuarded, Held
<1>. QED  BY <1>3, <1>4

\* The operator, the informer, the devices and the crash.
LEMMA SurroundingsKeep ==
    ASSUME GuardInv, Surroundings
    PROVE  GuardInv'
<1>0. /\ DOMAIN obj = DOMAIN Gone /\ DOMAIN w = DOMAIN Idle /\ w.pc \in Steps
      /\ w.pc = "finDrop" => claims = {}
  BY DEF GuardInv, Shapes, PassKnows
<1>1. CASE Edit
  <2>1. PICK s \in Specs \ {obj.spec} : Store([obj EXCEPT !.spec = s, !.gen = @ + 1], "other")
    BY <1>1 DEF Edit
  <2>2. PICK o : o = [obj EXCEPT !.spec = s, !.gen = @ + 1]
    OBVIOUS
  <2>3. DOMAIN o = DOMAIN Gone /\ o.here = obj.here /\ o.fin = obj.fin /\ o.deleting = obj.deleting
    BY <1>0, <2>2 DEF Gone
  <2>4. w' = w /\ claims' = claims
    BY <1>1 DEF Edit
  <2>. QED  BY <1>0, <2>1, <2>2, <2>3, <2>4, WriteKeeps
<1>2. CASE Delete
  <2>1. w' = w /\ claims' = claims
    BY <1>2 DEF Delete
  <2>2. CASE obj.fin
    <3>1. PICK o : o = [obj EXCEPT !.deleting = TRUE, !.gen = @ + 1]
      OBVIOUS
    <3>2. obj' = o /\ (seen' = seen \/ seen' = o)
      BY <1>2, <2>2, <3>1, StoreSeen DEF Delete
    <3>3. DOMAIN o = DOMAIN Gone /\ o.here = obj.here /\ o.fin = obj.fin /\ o.deleting /\ obj.here
      BY <1>0, <1>2, <3>1 DEF Delete, Gone
    <3>. QED
      BY <2>1, <2>2, <3>2, <3>3 DEF GuardInv, Shapes, Phases, PassKnows, ClaimsGuarded, Held
  <2>3. CASE ~obj.fin
    <3>1. obj' = Gone /\ (seen' = seen \/ seen' = Gone)
      BY <1>2, <2>3, StoreSeen DEF Delete
    <3>2. claims = {} /\ ~Held(seen) /\ w.pc \notin Serving
      BY <2>3 DEF GuardInv, Phases, PassKnows, ClaimsGuarded
    <3>3. ~Gone.here /\ ~Gone.fin /\ ~Gone.deleting
      BY DEF Gone
    <3>. QED
      BY <2>1, <3>1, <3>2, <3>3 DEF GuardInv, Shapes, Phases, PassKnows, ClaimsGuarded, Held
  <2>. QED  BY <2>2, <2>3
<1>3. CASE Deliver
  BY <1>0, <1>3, SamePhase DEF Deliver
<1>4. CASE Crash
  <2>1. obj' = obj /\ seen' = obj /\ claims' = claims /\ w' = Idle
    BY <1>4 DEF Crash
  <2>2. Idle.pc = "idle" /\ "idle" \in Steps
    BY DEF Idle, Steps
  <2>. QED  BY <1>0, <2>1, <2>2, SamePhase
<1>5. CASE \/ TimerFires \/ Resync \/ DeviceLoses \/ LocatorRestored \/ Failover
           \/ NodeBreaks \/ NodeHeals \/ GateCloses \/ GateOpens
  <2>. Inside
    BY <1>0, <1>5 DEF TimerFires, Resync, DeviceLoses, LocatorRestored, Failover, NodeBreaks, NodeHeals,
                    GateCloses, GateOpens, Inside, api
  <2>. QED  BY InsideKeeps
<1>. QED  BY <1>1, <1>2, <1>3, <1>4, <1>5 DEF Surroundings

\* Every step of Reconcile and of its surroundings keeps the invariant.
LEMMA NextGuard == GuardInv /\ [Next]_vars => GuardInv'
<1>. SUFFICES ASSUME GuardInv, [Next]_vars  PROVE GuardInv'
  OBVIOUS
<1>1. CASE Get
  BY <1>1, GetKeeps
<1>2. CASE Identify
  <2>1. CASE AddFinalizer
    BY <2>1, FinalizerKeeps
  <2>2. CASE ~AddFinalizer
    BY <1>2, <2>2, IdentifyInside, InsideKeeps DEF Identify
  <2>. QED  BY <2>1, <2>2
<1>3. CASE Drive
  BY <1>3, DriveInside, InsideKeeps
<1>4. CASE Conclude
  <2>1. CASE FinalizeDrop
    BY <2>1, FinalizerKeeps
  <2>2. CASE DriftNoted \/ RecordNew \/ Record \/ Refuse \/ FinalizeNote
    BY <2>2, ConcludeWrites
  <2>3. CASE ~(FinalizeDrop \/ DriftNoted \/ RecordNew \/ Record \/ Refuse \/ FinalizeNote)
    BY <1>4, <2>3, ConcludeInside, InsideKeeps DEF Conclude
  <2>. QED  BY <2>1, <2>2, <2>3
<1>5. CASE Surroundings
  BY <1>5, SurroundingsKeep
<1>6. CASE UNCHANGED vars
  BY <1>6 DEF vars, GuardInv, Shapes, Phases, PassKnows, ClaimsGuarded, Held
<1>. QED  BY <1>1, <1>2, <1>3, <1>4, <1>5, <1>6 DEF Next, Work

\* Whatever is edited, deleted, interrupted or lost when, and however far the
\* informer trails: a claim always has an object whose finalizer the
\* controller will have to take off after releasing it.
THEOREM Guarded == Spec => []ClaimsGuarded
<1>1. GuardInv => ClaimsGuarded
  BY DEF GuardInv
<1>. QED  BY <1>1, InitGuard, NextGuard, PTL DEF Spec
=============================================================================
