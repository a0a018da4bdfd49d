-------------------------- MODULE SRv6StatusProofs --------------------------
(***************************************************************************)
(* What the status of the service may be trusted for, provided a pass      *)
(* finds its predecessors' patches in the cache (OwnPatchesSeen): the      *)
(* identifiers it reports are held, and Ready turns True only over devices *)
(* that carry the plan.                                                    *)
(*                                                                         *)
(* The argument.  A pass is the only writer of the recorded part of the    *)
(* status (hashes, applied spec, allocations, probe), so the copy it works *)
(* on agrees with the server there although the operator edits and deletes *)
(* meanwhile (CopyFresh).  Identifiers are recorded after they are claimed   *)
(* and no path of a pass that has something recorded releases (IdInv).     *)
(***************************************************************************)
EXTENDS SRv6TypeProofs

\* The part of the status that later passes decide on.
Recorded(st) == <<st.hashed, st.applied, st.alloc, st.probed, st.active>>

\* The pass's copy and the server agree on it, up to a refusal.
Copying == Serving \ {"refuse"}
CopyFresh == w.pc \in Copying => Recorded(w.svc.st) = Recorded(obj.st)

\* A patch that does not touch the recorded part leaves the server's.
LEMMA PatchKeeps ==
    ASSUME TInv, NEW new \in Statuses, Recorded(new) = Recorded(w.svc.st)
    PROVE  Recorded(Patched(new).st) = Recorded(obj.st)
<1>1. obj \in Objects /\ obj.st \in Statuses
  BY DEF TInv, ApiType, Objects
<1>. QED  BY <1>1 DEF Recorded, Patched, Statuses, Objects

\* From a fresh copy, a patch records what it says.
LEMMA PatchRecords ==
    ASSUME TInv, NEW new \in Statuses, Recorded(w.svc.st) = Recorded(obj.st)
    PROVE  Recorded(Patched(new).st) = Recorded(new)
<1>1. obj \in Objects /\ obj.st \in Statuses
  BY DEF TInv, ApiType, Objects
<1>. QED  BY <1>1 DEF Recorded, Patched, Statuses, Objects

\* The answer's recorded part is the copy's afterwards.
LEMMA RefreshKeeps ==
    ASSUME NEW o \in Objects
    PROVE  Recorded(Refreshed(o).st) = Recorded(o.st)
BY DEF Recorded, Refreshed, Objects, Statuses

\* The other parts of a status do not matter.
LEMMA RecordedExcept ==
    ASSUME NEW st \in Statuses
    PROVE  /\ \A c : Recorded([st EXCEPT !.cond = c]) = Recorded(st)
           /\ \A n : Recorded([st EXCEPT !.nodes = n]) = Recorded(st)
BY DEF Recorded, Statuses

\* A step of a pass that does not write the object keeps its copy fresh.
Kept ==
    \/ w'.pc \in {"idle", "refuse"}
    \/ w.pc # "refuse" /\ Recorded(w'.svc.st) = Recorded(w.svc.st)

LEMMA KeptFresh ==
    ASSUME CopyFresh, Inside, Kept
    PROVE  CopyFresh'
<1>1. w'.pc \in Copying => w.pc \in Copying /\ Recorded(w'.svc.st) = Recorded(w.svc.st)
  BY DEF Kept, Inside, Copying, Serving, Finalizing
<1>. QED  BY <1>1 DEF CopyFresh, Inside, Recorded

\* Claims and walks.
LEMMA DriveCopies ==
    ASSUME TInv, GuardInv, CopyFresh, (Identify /\ ~AddFinalizer) \/ Drive
    PROVE  CopyFresh'
<1>0. w \in Passes /\ w.svc \in Objects /\ w.svc.st \in Statuses
  BY DEF TInv, PassOK, Passes, Objects
<1>1. CASE Identify /\ ~AddFinalizer
  <2>1. Inside
    BY <1>1, IdentifyInside DEF Identify
  <2>2. w' = Idle \/ (w'.svc = w.svc /\ w.pc # "refuse")
    BY <1>0, <1>1 DEF Identify, AddFinalizerFails, ClaimOK, ClaimFails, ClaimExhausted, ClaimsDone,
                      ReleaseOK, ReleaseFails, Return, Allocating, Releasing, Passes
  <2>3. Kept
    BY <2>2 DEF Kept, Idle
  <2>. QED  BY <2>1, <2>3, KeptFresh
<1>2. CASE Drive
  <2>1. Inside
    BY <1>2, DriveInside
  <2>2. CASE VerifyFails \/ VerifyDone
    <3>1. PICK pc, vref, ref :
              w' = [w EXCEPT !.pc = pc, !.vref = vref, !.ref = ref, !.svc.st.nodes = TRUE]
      <4>1. CASE VerifyFails
        <5>1. PICK ref : w' = [w EXCEPT !.pc = IF w.pc = "verify" THEN "path" ELSE "refuse",
                                        !.vref = ref, !.ref = ref, !.svc.st.nodes = TRUE]
          BY <4>1 DEF VerifyFails
        <5>. QED  BY <5>1
      <4>2. CASE VerifyDone
        <5>1. PICK pc : w' = [w EXCEPT !.pc = pc, !.vref = NoRefusal, !.ref = NoRefusal,
                                       !.svc.st.nodes = TRUE]
          BY <4>2 DEF VerifyDone
        <5>. QED  BY <5>1
      <4>. QED  BY <2>2, <4>1, <4>2
    <3>2. w'.svc.st = [w.svc.st EXCEPT !.nodes = TRUE] /\ w.pc # "refuse"
      BY <1>0, <2>2, <3>1 DEF VerifyFails, VerifyDone, Verifying, Passes, Objects
    <3>3. Kept
      BY <1>0, <3>2, RecordedExcept DEF Kept
    <3>. QED  BY <2>1, <3>3, KeptFresh
  <2>3. CASE PlanFirst \/ PlanUpdate \/ PlanSame
    <3>1. w'.svc = w.svc /\ w.pc # "refuse"
      BY <1>0, <2>3 DEF PlanFirst, PlanUpdate, PlanSame, Walk, Passes
    <3>. QED  BY <2>1, <3>1, KeptFresh DEF Kept
  <2>4. CASE ApplyOK \/ ApplyFails \/ ApplyDone
    <3>1. w'.svc = w.svc /\ w.pc # "refuse"
      BY <1>0, <2>4 DEF ApplyOK, ApplyFails, ApplyDone, Applying, Walk, Passes
    <3>. QED  BY <2>1, <3>1, KeptFresh DEF Kept
  <2>5. CASE RollbackAnswered \/ RollbackFails \/ RollbackDone \/ VerifyOK
    <3>1. w'.svc = w.svc /\ w.pc # "refuse"
      BY <1>0, <2>5 DEF RollbackAnswered, RollbackFails, RollbackDone, VerifyOK, RollingBack, Verifying,
                        Walk, Passes
    <3>. QED  BY <2>1, <3>1, KeptFresh DEF Kept
  <2>. QED  BY <1>2, <2>2, <2>3, <2>4, <2>5 DEF Drive
<1>. QED  BY <1>1, <1>2

\* Path, drift, probe, and requests that fail.
LEMMA JudgeCopies ==
    ASSUME TInv, GuardInv, CopyFresh,
           \/ PathUnsteered \/ PathServed \/ PathDown \/ PathUnread \/ DriftUnnoted
           \/ ProbePassed \/ ProbeFailed \/ ProbeUnanswered
           \/ RecordNewFails \/ RecordFails \/ RefuseFails \/ FinalizeDropFails
    PROVE  CopyFresh'
<1>0. w \in Passes /\ w.svc \in Objects /\ w.svc.st \in Statuses
  BY DEF TInv, PassOK, Passes, Objects
<1>1. Inside
  BY ConcludeInside
<1>2. CASE PathUnsteered \/ PathServed
  <2>1. PICK ref, act : w' = Judged(ref, act)
    BY <1>2 DEF PathUnsteered, PathServed
  <2>2. w'.svc = w.svc /\ w.pc # "refuse"
    BY <1>0, <1>2, <2>1 DEF PathUnsteered, PathServed, Judged, Passes
  <2>. QED  BY <1>1, <2>2, KeptFresh DEF Kept
<1>3. CASE DriftUnnoted
  <2>. DEFINE st == [w.svc.st EXCEPT !.cond = Condition(FALSE, w.ref)]
              svc == [w.svc EXCEPT !.st = st]
  <2>1. w' = [Walk("repair", w.plan) EXCEPT !.svc = svc] /\ w.pc # "refuse"
    BY <1>0, <1>3 DEF DriftUnnoted, Walk, Passes, Objects
  <2>. HIDE DEF st
  <2>2. w'.svc.st = st
    BY <1>0, <2>1 DEF Walk, Passes, Objects
  <2>3. Recorded(st) = Recorded(w.svc.st)
    BY <1>0, RecordedExcept DEF st
  <2>. QED  BY <1>1, <2>1, <2>2, <2>3, KeptFresh DEF Kept
<1>4. CASE ProbePassed
  <2>1. w'.svc = w.svc /\ w.pc # "refuse"
    BY <1>0, <1>4 DEF ProbePassed, Passes
  <2>. QED  BY <1>1, <2>1, KeptFresh DEF Kept
<1>5. CASE \/ PathDown \/ PathUnread \/ ProbeFailed \/ ProbeUnanswered
           \/ RecordNewFails \/ RecordFails \/ RefuseFails \/ FinalizeDropFails
  <2>1. w'.pc \in {"idle", "refuse"}
    <3>1. CASE RecordNewFails
      BY <1>0, <3>1 DEF RecordNewFails, Passes, Objects
    <3>2. CASE PathDown \/ ProbeFailed
      BY <1>0, <3>2 DEF PathDown, ProbeFailed, Passes
    <3>3. CASE PathUnread \/ ProbeUnanswered \/ RecordFails \/ RefuseFails \/ FinalizeDropFails
      <4>1. w' = Idle
        BY <3>3 DEF PathUnread, ProbeUnanswered, RecordFails, RefuseFails, FinalizeDropFails, Return
      <4>. QED  BY <4>1 DEF Idle
    <3>. QED  BY <1>5, <3>1, <3>2, <3>3
  <2>. QED  BY <1>1, <2>1, KeptFresh DEF Kept
<1>. QED  BY <1>2, <1>3, <1>4, <1>5

\* The steps that write: a pass goes on only with the answer as its copy.
LEMMA WriteCopies ==
    ASSUME TInv, CopyFresh,
           \/ AddFinalizer \/ FinalizeDrop
           \/ DriftNoted \/ RecordNew \/ Record \/ Refuse \/ FinalizeNote
    PROVE  CopyFresh'
<1>0. w \in Passes /\ obj \in Objects /\ w.svc \in Objects /\ w.svc.st \in Statuses /\ PassOK(w)
      /\ w.ref \in Refusals
  BY DEF TInv, ApiType, PassOK, Passes, Objects, CopyFresh
<1>2. CASE AddFinalizer \/ FinalizeDrop \/ Record \/ Refuse \/ FinalizeNote
  <2>1. w'.pc = "idle"
    BY <1>2 DEF AddFinalizer, FinalizeDrop, Record, Refuse, FinalizeNote, Return, Idle
  <2>. QED  BY <2>1 DEF CopyFresh, Copying, Serving
<1>3. ASSUME NEW new \in Statuses, NEW pc, Store(Patched(new), "self"),
             w' = [Walk(pc, w.plan) EXCEPT !.svc = Refreshed(Patched(new))]
      PROVE  CopyFresh'
  <2>1. obj' = Patched(new) /\ Patched(new) \in Objects
    BY <1>3, StoreSeen, PatchedTyped
  <2>2. w'.svc = Refreshed(Patched(new))
    BY <1>0, <1>3 DEF Walk, Passes
  <2>3. Recorded(w'.svc.st) = Recorded(obj'.st)
    BY <2>1, <2>2, RefreshKeeps
  <2>. QED  BY <2>3 DEF CopyFresh, Recorded
<1>4. CASE DriftNoted
  <2>1. [w.svc.st EXCEPT !.cond = Condition(FALSE, w.ref)] \in Statuses
    BY <1>0, WrittenTyped
  <2>. QED  BY <1>3, <1>4, <2>1 DEF DriftNoted
<1>5. CASE RecordNew
  <2>1. ReadyOutcome(w.svc.st.active, w.svc.st.probed) \in Statuses
    BY <1>0, WrittenTyped DEF Statuses
  <2>. QED  BY <1>3, <1>5, <2>1 DEF RecordNew
<1>. QED  BY <1>2, <1>4, <1>5

\* A pass starts from the server's status; the surroundings leave the status.
LEMMA OuterCopies ==
    ASSUME OwnPatchesSeen, TInv, GuardInv, CopyFresh, Get \/ Surroundings
    PROVE  CopyFresh'
<1>0. w \in Passes /\ obj \in Objects /\ (w.pc \in Serving => obj.fin)
  BY DEF TInv, ApiType, PassOK, CopyFresh, GuardInv, PassKnows
<1>1. CASE Get
  <2>1. UNCHANGED <<obj, seen>>
    BY <1>1 DEF Get, GetGone, GetDeleting, GetBare, GetRefused, GetReuse, GetAllocate, Getting, Dequeue
  <2>2. w' = Idle \/ w'.svc = seen
    BY <1>1 DEF Get, GetGone, GetDeleting, GetBare, GetRefused, GetReuse, GetAllocate, Getting, Return,
                Begin, Idle
  <2>3. seen.st = obj.st
    BY <1>1 DEF OwnPatchesSeen
  <2>. QED  BY <2>1, <2>2, <2>3 DEF CopyFresh, Copying, Serving, Idle, Recorded
<1>2. CASE Edit
  <2>1. PICK s \in Specs : Store([obj EXCEPT !.spec = s, !.gen = @ + 1], "other")
    BY <1>2 DEF Edit
  <2>2. obj' = [obj EXCEPT !.spec = s, !.gen = @ + 1]
    BY <2>1 DEF Store
  <2>3. obj'.st = obj.st /\ w' = w
    BY <1>0, <1>2, <2>2 DEF Edit, Objects
  <2>. QED  BY <2>3 DEF CopyFresh, Recorded
<1>3. CASE Delete
  <2>1. w' = w
    BY <1>3 DEF Delete
  <2>2. CASE obj.fin
    <3>1. obj'.st = obj.st
      BY <1>0, <1>3, <2>2 DEF Delete, Store, Objects
    <3>. QED  BY <2>1, <3>1 DEF CopyFresh, Recorded
  <2>3. CASE ~obj.fin
    BY <1>0, <2>1, <2>3 DEF CopyFresh, Copying
  <2>. QED  BY <2>2, <2>3
<1>4. CASE Crash
  BY <1>4 DEF Crash, CopyFresh, Copying, Serving, Idle
<1>5. CASE \/ Deliver \/ TimerFires \/ Resync \/ DeviceLoses \/ LocatorRestored \/ Failover
           \/ NodeBreaks \/ NodeHeals \/ GateCloses \/ GateOpens
  <2>1. UNCHANGED <<obj, w>>
    BY <1>5 DEF Deliver, TimerFires, Resync, DeviceLoses, LocatorRestored, Failover, NodeBreaks, NodeHeals,
                GateCloses, GateOpens, api
  <2>. QED  BY <2>1 DEF CopyFresh, Recorded
<1>. QED  BY <1>1, <1>2, <1>3, <1>4, <1>5 DEF Surroundings

\* Every step keeps the copy fresh.
LEMMA NextCopies ==
    ASSUME [OwnPatchesSeen]_vars, TInv, GuardInv, CopyFresh, [Next]_vars
    PROVE  CopyFresh'
<1>1. CASE OwnPatchesSeen /\ (Get \/ Surroundings)
  BY <1>1, OuterCopies
<1>2. CASE Identify \/ Drive
  BY <1>2, DriveCopies, WriteCopies
<1>3. CASE Conclude
  BY <1>3, JudgeCopies, WriteCopies DEF Conclude
<1>4. CASE UNCHANGED vars
  BY <1>4 DEF vars, CopyFresh, Recorded
<1>. QED  BY <1>1, <1>2, <1>3, <1>4 DEF Next, Work

\* The three invariants of this and the earlier modules, together.
Base == TInv /\ GuardInv /\ CopyFresh

\* Initially there is nothing to copy.
LEMMA InitBase == Init => Base
<1>. SUFFICES ASSUME Init PROVE Base
  OBVIOUS
<1>1. CopyFresh
  BY DEF Init, CopyFresh, Copying, Serving, Idle
<1>. QED  BY <1>1, InitTyped, InitGuard DEF Base

\* They hold together.
LEMMA NextBase ==
    ASSUME [OwnPatchesSeen]_vars, Base, [Next]_vars
    PROVE  Base'
<1>1. TInv'
  BY NextTyped DEF Base
<1>2. GuardInv'
  BY NextGuard DEF Base
<1>3. CopyFresh'
  BY NextCopies DEF Base
<1>. QED  BY <1>1, <1>2, <1>3 DEF Base

-----------------------------------------------------------------------------
(* The identifiers status.allocations reports *)

\* The service id and a client prefix for each node of S are held.
IdsHeld(S) ==
    /\ IdClaim \in claims
    /\ \A n \in S : \E p \in Ports : <<n, p>> \in claims

\* Steps of a pass that has its identifiers, and of a first application.
Committed == Copying \ {"allocId", "allocPrefix", "poolRelease", "firstRelease"}
FirstApply == {"first", "firstRb", "firstRelease"}

\* A pass has claimed what it goes on with, and is on its way to a release
\* only if nothing is recorded or the object is being deleted.
PassIds ==
    /\ w.pc = "allocPrefix" =>
          /\ IdClaim \in claims
          /\ \A n \in Attached(w.svc.spec) \ w.todo : PrefixClaim(w.svc.spec, n) \in claims
    /\ w.pc \in Committed => IdsHeld(w.ids)
    /\ w.pc = "poolRelease" => obj.st.alloc = {} \/ (obj.deleting /\ ~Held(seen))
    /\ w.pc \in FirstApply => obj.st.applied = None

\* The recorded identifiers are held as long as a pass may still serve the
\* service: one that has not seen the deletion goes on with them.
ServedIdsHeld ==
    obj.st.alloc # {} /\ (~obj.deleting \/ Held(seen)) => IdsHeld(obj.st.alloc)

IdInv ==
    /\ obj.st.applied = None => obj.st.alloc = {}
    /\ obj.st.alloc # {} => obj.here /\ obj.fin
    /\ ServedIdsHeld
    /\ PassIds

\* A step that releases nothing and leaves the recorded part and the phase of
\* the object alone has only the pass to answer for.
LEMMA IdsKeep ==
    ASSUME IdInv, Recorded(obj'.st) = Recorded(obj.st),
           obj'.here = obj.here, obj'.fin = obj.fin, obj.deleting => obj'.deleting,
           seen' = seen \/ seen' = obj', claims \subseteq claims', PassIds'
    PROVE  IdInv'
BY DEF IdInv, ServedIdsHeld, IdsHeld, Held, Recorded

\* What a pass does between its claims and its release.
OnWith ==
    \/ w'.pc \in Finalizing \cup {"idle", "addFin", "refuse", "allocId"}
    \/ /\ w.pc \in Committed /\ w'.ids = w.ids
       /\ w'.pc \in Committed \cup {"firstRelease"}
       /\ w'.pc \in FirstApply => w.pc \in FirstApply \/ w.svc.st.applied = None

\* Such a step keeps what the pass knows.
LEMMA OnWithKeeps ==
    ASSUME Base, IdInv, Recorded(obj'.st) = Recorded(obj.st), claims \subseteq claims', OnWith
    PROVE  PassIds'
<1>1. CASE w'.pc \in Finalizing \cup {"idle", "addFin", "refuse", "allocId"}
  BY <1>1 DEF PassIds, Committed, Copying, Serving, FirstApply, Finalizing
<1>2. CASE /\ w.pc \in Committed /\ w'.ids = w.ids
           /\ w'.pc \in Committed \cup {"firstRelease"}
           /\ w'.pc \in FirstApply => w.pc \in FirstApply \/ w.svc.st.applied = None
  <2>1. IdsHeld(w.ids)'
    BY <1>2 DEF IdInv, PassIds, IdsHeld
  <2>2. w.svc.st.applied = obj.st.applied /\ obj'.st.applied = obj.st.applied
    BY <1>2 DEF Base, CopyFresh, Committed, Recorded
  <2>3. w'.pc \in FirstApply => obj'.st.applied = None
    BY <1>2, <2>2 DEF IdInv, PassIds
  <2>. QED
    BY <1>2, <2>1, <2>3 DEF PassIds, Committed, IdsHeld
<1>. QED  BY <1>1, <1>2 DEF OnWith

\* The walks.
LEMMA DriveOn ==
    ASSUME Base, Drive
    PROVE  OnWith
<1>. USE DEF OnWith, Committed, Copying, Serving, Finalizing, FirstApply, Steps, Applying, RollingBack,
             Verifying, Releasing
<1>0. w \in Passes /\ w.svc \in Objects
  BY DEF Base, TInv, PassOK, Passes
<1>1. CASE PlanFirst
  BY <1>0, <1>1 DEF PlanFirst, Walk, Passes
<1>s. CASE PlanSame
  BY <1>0, <1>s DEF PlanSame, Walk, Passes
<1>u. CASE PlanUpdate
  BY <1>0, <1>u DEF PlanUpdate, Passes
<1>2. CASE ApplyOK
  BY <1>0, <1>2 DEF ApplyOK, Passes
<1>3. CASE ApplyFails
  BY <1>0, <1>3 DEF ApplyFails, Walk, Passes
<1>4. CASE ApplyDone
  BY <1>0, <1>4 DEF ApplyDone, Walk, Passes
<1>5. CASE RollbackAnswered
  BY <1>0, <1>5 DEF RollbackAnswered, Passes
<1>6. CASE RollbackFails
  BY <1>0, <1>6 DEF RollbackFails, Passes
<1>7. CASE RollbackDone
  BY <1>0, <1>7 DEF RollbackDone, Walk, Passes
<1>8. CASE VerifyOK
  BY <1>0, <1>8 DEF VerifyOK, Passes
<1>9. CASE VerifyFails
  BY <1>0, <1>9 DEF VerifyFails, Passes, Objects
<1>10. CASE VerifyDone
  BY <1>0, <1>10 DEF VerifyDone, Passes, Objects
<1>. QED  BY <1>1, <1>s, <1>u, <1>2, <1>3, <1>4, <1>5, <1>6, <1>7, <1>8, <1>9, <1>10 DEF Drive

\* The judgements and the requests that fail.
LEMMA JudgeOn ==
    ASSUME Base,
           \/ PathUnsteered \/ PathServed \/ PathDown \/ PathUnread \/ DriftUnnoted
           \/ ProbePassed \/ ProbeFailed \/ ProbeUnanswered
           \/ RecordNewFails \/ RecordFails \/ RefuseFails \/ FinalizeDropFails
    PROVE  OnWith
<1>. USE DEF OnWith, Committed, Copying, Serving, Finalizing, FirstApply, Steps, Applying, RollingBack,
             Verifying, Releasing
<1>0. w \in Passes /\ w.svc \in Objects
  BY DEF Base, TInv, PassOK, Passes
<1>1. CASE PathUnsteered \/ PathServed
  <2>1. PICK ref, act : w' = Judged(ref, act)
    BY <1>1 DEF PathUnsteered, PathServed
  <2>. QED  BY <1>0, <1>1, <2>1 DEF PathUnsteered, PathServed, Judged, Passes
<1>2. CASE PathDown \/ ProbeFailed
  BY <1>0, <1>2 DEF PathDown, ProbeFailed, Passes
<1>p. CASE ProbePassed
  BY <1>0, <1>p DEF ProbePassed, Passes
<1>3. CASE DriftUnnoted
  BY <1>0, <1>3 DEF DriftUnnoted, Walk, Passes, Objects
<1>4. CASE RecordNewFails
  BY <1>0, <1>4 DEF RecordNewFails, Passes, Objects
<1>5. CASE PathUnread \/ ProbeUnanswered \/ RecordFails \/ RefuseFails \/ FinalizeDropFails
  <2>1. w' = Idle
    BY <1>5 DEF PathUnread, ProbeUnanswered, RecordFails, RefuseFails, FinalizeDropFails, Return
  <2>. QED  BY <2>1 DEF Idle
<1>. QED  BY <1>1, <1>2, <1>p, <1>3, <1>4, <1>5

\* Get: recorded identifiers are held, so a pass may reuse them.
LEMMA GetIds ==
    ASSUME OwnPatchesSeen, Base, IdInv, Get
    PROVE  IdInv'
<1>1. UNCHANGED <<obj, seen, claims>> /\ seen.st = obj.st
  BY DEF Get, GetGone, GetDeleting, GetBare, GetRefused, GetReuse, GetAllocate, Getting, Dequeue,
         OwnPatchesSeen
<1>2. PassIds'
  <2>1. CASE GetReuse
    <3>1. w'.pc = "plan" /\ w'.ids = obj.st.alloc /\ obj.st.alloc # {} /\ Held(seen)
      BY <1>1, <2>1 DEF GetReuse, Getting, Begin, Idle, Held
    <3>2. IdsHeld(obj.st.alloc)
      BY <3>1 DEF IdInv, ServedIdsHeld
    <3>. QED  BY <1>1, <3>1, <3>2 DEF PassIds, IdsHeld, FirstApply
  <2>2. CASE ~GetReuse
    <3>1. w'.pc \in {"idle", "finRollback", "addFin", "refuse", "allocId"}
      <4>1. CASE GetGone
        BY <4>1 DEF GetGone, Return, Idle
      <4>2. CASE GetDeleting
        BY <4>2 DEF GetDeleting, Begin, Idle
      <4>3. CASE GetBare \/ GetRefused \/ GetAllocate
        BY <4>3 DEF GetBare, GetRefused, GetAllocate, Begin, Idle
      <4>. QED  BY <2>2, <4>1, <4>2, <4>3 DEF Get
    <3>. QED
      BY <1>1, <3>1, OnWithKeeps DEF OnWith, Finalizing, Recorded
  <2>. QED  BY <2>1, <2>2
<1>. QED  BY <1>1, <1>2, IdsKeep DEF Recorded

\* Claims are made one by one; exhaustion of the ids and a failed first
\* application release, and then nothing is recorded.
LEMMA IdentifyIds ==
    ASSUME Base, IdInv, Identify, ~AddFinalizer
    PROVE  IdInv'
<1>. USE DEF Base
<1>0. /\ w \in Passes /\ obj' = obj /\ seen' = seen /\ claims \subseteq AllClaims
      /\ w.pc # "idle" => w.svc.spec \in AllSpecs
      /\ w.pc = "allocPrefix" => w.todo \subseteq Attached(w.svc.spec)
  BY DEF Identify, AddFinalizerFails, ClaimOK, ClaimFails, ClaimExhausted, ClaimsDone, ReleaseOK,
         ReleaseFails, api, TInv, PassOK, SiteType
<1>1. CASE AddFinalizerFails \/ ClaimFails
  <2>1. w' = Idle /\ claims \subseteq claims'
    BY <1>1 DEF AddFinalizerFails, ClaimFails, Return
  <2>2. OnWith
    BY <2>1 DEF OnWith, Idle
  <2>. QED  BY <1>0, <2>1, <2>2, OnWithKeeps, IdsKeep DEF Recorded
<1>2. CASE ClaimOK
  <2>1. claims \subseteq claims' /\ ThisClaim \in claims'
    BY <1>2 DEF ClaimOK
  <2>2. PassIds'
    <3>1. CASE w.pc = "allocId"
      <4>1. w'.pc = "allocPrefix" /\ w'.todo = Attached(w.svc.spec) /\ w'.svc = w.svc
        BY <1>0, <1>2, <3>1 DEF ClaimOK, Passes
      <4>2. IdClaim \in claims'
        BY <2>1, <3>1 DEF ThisClaim
      <4>. QED
        BY <4>1, <4>2 DEF PassIds, Committed, FirstApply
    <3>2. CASE w.pc = "allocPrefix" /\ w.todo # {}
      <4>1. w'.pc = "allocPrefix" /\ w'.todo = w.todo \ {Min(w.todo)} /\ w'.svc = w.svc
        BY <1>0, <1>2, <3>2 DEF ClaimOK, Passes
      <4>2. PrefixClaim(w.svc.spec, Min(w.todo)) \in claims'
        BY <2>1, <3>2 DEF ThisClaim
      <4>3. \A n \in Attached(w.svc.spec) \ w'.todo : PrefixClaim(w.svc.spec, n) \in claims'
        BY <2>1, <3>2, <4>1, <4>2 DEF IdInv, PassIds
      <4>4. IdClaim \in claims'
        BY <2>1, <3>2 DEF IdInv, PassIds
      <4>. QED
        BY <4>1, <4>3, <4>4 DEF PassIds, Committed, FirstApply
    <3>. QED  BY <1>2, <3>1, <3>2 DEF ClaimOK, Allocating
  <2>. QED  BY <1>0, <2>1, <2>2, IdsKeep DEF Recorded
<1>3. CASE ClaimExhausted
  <2>1. claims' = claims /\ w'.pc \in {"poolRelease", "refuse"}
        /\ (w'.pc = "poolRelease" => IdClaim \notin claims)
    BY <1>0, <1>3 DEF ClaimExhausted, ThisClaim, Passes
  <2>2. PassIds'
    BY <1>0, <2>1 DEF PassIds, IdInv, ServedIdsHeld, IdsHeld, Committed, Copying, FirstApply
  <2>. QED  BY <1>0, <2>1, <2>2, IdsKeep DEF Recorded
<1>4. CASE ClaimsDone
  <2>1. claims' = claims /\ w'.pc = "plan" /\ w'.ids = Attached(w.svc.spec)
        /\ w.pc = "allocPrefix" /\ w.todo = {} /\ w.svc.spec \in AllSpecs
    BY <1>0, <1>4 DEF ClaimsDone, Passes
  <2>2. \A n \in Attached(w.svc.spec) : w.svc.spec.port[n] \in Ports
    BY <2>1, SpecParts
  <2>3. IdsHeld(Attached(w.svc.spec))
    BY <2>1, <2>2 DEF IdInv, PassIds, IdsHeld, PrefixClaim
  <2>4. PassIds'
    BY <2>1, <2>3 DEF PassIds, IdsHeld, FirstApply
  <2>. QED  BY <1>0, <2>1, <2>4, IdsKeep DEF Recorded
<1>5. CASE ReleaseOK \/ ReleaseFails
  <2>1. w'.pc \in {"refuse", "finDrop", "finNote"} /\ w.pc \in Releasing
    BY <1>0, <1>5 DEF ReleaseOK, ReleaseFails, AfterRelease, Passes
  <2>2. PassIds'
    BY <2>1 DEF PassIds, Committed, Copying, Serving, Finalizing, FirstApply
  <2>3. obj.st.alloc = {} \/ (obj.deleting /\ ~Held(seen))
    <3>1. CASE w.pc = "finRelease"
      BY <3>1 DEF IdInv, GuardInv, PassKnows, Finalizing, Held
    <3>2. CASE w.pc \in {"poolRelease", "firstRelease"}
      BY <3>2 DEF IdInv, PassIds, FirstApply
    <3>. QED  BY <2>1, <3>1, <3>2 DEF Releasing
  <2>. QED  BY <1>0, <2>2, <2>3 DEF IdInv, ServedIdsHeld, Held
<1>. QED  BY <1>1, <1>2, <1>3, <1>4, <1>5 DEF Identify

\* A write to the object: the phase of the object stays, and what is recorded
\* is what was, or the identifiers the pass holds.
LEMMA RecordIds ==
    ASSUME Base, IdInv,
           \/ AddFinalizer \/ FinalizeDrop
           \/ DriftNoted \/ RecordNew \/ Record \/ Refuse \/ FinalizeNote
    PROVE  IdInv'
<1>. USE DEF Base
<1>0. /\ w \in Passes /\ obj \in Objects /\ w.svc \in Objects /\ w.svc.st \in Statuses /\ PassOK(w)
      /\ w.ref \in Refusals /\ claims' = claims
  BY DEF TInv, ApiType, PassOK, Passes, Objects, AddFinalizer, FinalizeDrop, DriftNoted, RecordNew,
         Record, Refuse, FinalizeNote
<1>1. ASSUME NEW new \in Statuses, Store(Patched(new), "self")
      PROVE  /\ obj' = Patched(new) /\ (seen' = seen \/ seen' = obj')
             /\ obj'.here = obj.here /\ obj'.fin = obj.fin /\ obj'.deleting = obj.deleting
  <2>1. obj' = Patched(new) /\ (seen' = seen \/ seen' = obj')
    BY <1>1, StoreSeen
  <2>. QED  BY <1>0, <2>1, PatchedPhase DEF Objects, Gone
<1>2. CASE AddFinalizer
  <2>1. obj' = [obj EXCEPT !.fin = TRUE] /\ w' = Idle /\ obj.here
        /\ (seen' = seen \/ seen' = obj')
    BY <1>2, StoreSeen DEF AddFinalizer, Return
  <2>2. PassIds'
    BY <2>1 DEF PassIds, Idle, Committed, Copying, Serving, FirstApply
  <2>3. obj'.st = obj.st /\ obj'.here /\ obj'.fin /\ obj'.deleting = obj.deleting
    BY <1>0, <2>1 DEF Objects
  <2>. QED  BY <1>0, <2>1, <2>2, <2>3 DEF IdInv, ServedIdsHeld, IdsHeld, Held
<1>3. CASE FinalizeDrop
  <2>1. obj' = Gone /\ w' = Idle
    BY <1>3 DEF FinalizeDrop, Store, Return
  <2>2. PassIds'
    BY <2>1 DEF PassIds, Idle, Committed, Copying, Serving, FirstApply
  <2>. QED  BY <2>1, <2>2 DEF IdInv, ServedIdsHeld, Gone, NoStatus
<1>4. ASSUME NEW ref \in Refusals,
             Store(Patched([w.svc.st EXCEPT !.cond = Condition(FALSE, ref)]), "self"), OnWith
      PROVE  IdInv'
  <2>. DEFINE new == [w.svc.st EXCEPT !.cond = Condition(FALSE, ref)]
  <2>1. new \in Statuses
    BY <1>0, WrittenTyped
  <2>2. Recorded(new) = Recorded(w.svc.st)
    BY <1>0, RecordedExcept
  <2>3. Store(Patched(new), "self")
    BY <1>4
  <2>. HIDE DEF new
  <2>4. Recorded(obj'.st) = Recorded(obj.st)
    BY <1>1, <2>1, <2>2, <2>3, PatchKeeps
  <2>5. PassIds'
    BY <1>0, <1>4, <2>4, OnWithKeeps
  <2>. QED  BY <1>0, <1>1, <2>1, <2>3, <2>4, <2>5, IdsKeep
<1>5. CASE DriftNoted
  <2>1. w'.pc = "repair" /\ w'.ids = w.ids /\ w.pc = "drift"
    BY <1>0, <1>5 DEF DriftNoted, Walk, Passes
  <2>2. OnWith
    BY <2>1 DEF OnWith, Committed, Copying, Serving, Finalizing, Steps, Applying, FirstApply
  <2>. QED  BY <1>0, <1>4, <1>5, <2>2 DEF DriftNoted
<1>6. CASE Refuse
  <2>1. OnWith
    BY <1>6 DEF Refuse, Return, Idle, OnWith
  <2>. QED  BY <1>0, <1>4, <1>6, <2>1 DEF Refuse
<1>7. CASE FinalizeNote
  <2>1. OnWith /\ w' = Idle
    BY <1>7 DEF FinalizeNote, Return, Idle, OnWith
  <2>2. <<"Finalizing", 0>> \in Refusals
    BY DEF Refusals
  <2>3. CASE UNCHANGED api
    BY <1>0, <2>1, <2>3, OnWithKeeps, IdsKeep DEF api, Recorded
  <2>. QED  BY <1>4, <1>7, <2>1, <2>2, <2>3 DEF FinalizeNote
<1>8. ASSUME NEW act \in Spines \cup {None}, NEW p \in BOOLEAN, w.pc \in {"recordNew", "record"},
             Store(Patched(ReadyOutcome(act, p)), "self"),
             w'.pc = "idle" \/ (w'.pc = "verify" /\ w'.ids = w.ids)
      PROVE  IdInv'
  <2>. DEFINE new == ReadyOutcome(act, p)
  <2>1. new \in Statuses /\ new.applied = w.svc.spec
    BY <1>0, WrittenTyped
  <2>2. new.alloc = w.ids
    BY <1>0 DEF ReadyOutcome, Statuses
  <2>3. Store(Patched(new), "self")
    BY <1>8
  <2>. HIDE DEF new
  <2>4. w.pc \in Committed /\ w.pc \in Serving /\ w.pc \in Copying /\ w.pc # "idle"
    BY <1>8 DEF Committed, Copying, Serving, Finalizing, Steps
  <2>5. Recorded(obj'.st) = Recorded(new)
    BY <1>1, <2>1, <2>3, <2>4, PatchRecords DEF CopyFresh
  <2>6. obj'.st.applied = w.svc.spec /\ obj'.st.alloc = w.ids /\ w.svc.spec # None
    BY <1>0, <2>1, <2>2, <2>4, <2>5, SRv6Assumption DEF Recorded, PassOK
  <2>7. IdClaim \in claims' /\ \A n \in w.ids : \E q \in Ports : <<n, q>> \in claims'
    BY <1>0, <2>4 DEF IdInv, PassIds, IdsHeld
  <2>8. obj'.here /\ obj'.fin
    BY <1>1, <2>1, <2>3, <2>4 DEF GuardInv, PassKnows
  <2>9. ServedIdsHeld'
    BY <2>6, <2>7 DEF ServedIdsHeld, IdsHeld
  <2>10. PassIds'
    BY <1>8, <2>7 DEF PassIds, IdsHeld, Committed, Copying, Serving, FirstApply
  <2>. QED  BY <2>6, <2>8, <2>9, <2>10 DEF IdInv
<1>9. CASE RecordNew
  <2>1. w'.pc = "verify" /\ w'.ids = w.ids
    BY <1>0, <1>9 DEF RecordNew, Walk, Passes
  <2>2. w.svc.st.active \in Spines \cup {None} /\ w.svc.st.probed \in BOOLEAN
    BY <1>0 DEF Statuses
  <2>. QED  BY <1>8, <1>9, <2>1, <2>2 DEF RecordNew
<1>10. CASE Record
  <2>1. w'.pc = "idle"
    BY <1>10 DEF Record, Return, Idle
  <2>2. CASE UNCHANGED api
    <3>1. OnWith
      BY <2>1 DEF OnWith
    <3>. QED  BY <1>0, <2>2, <3>1, OnWithKeeps, IdsKeep DEF api, Recorded
  <2>3. w.active \in Spines \cup {None} /\ w.probed \in BOOLEAN
    BY <1>0 DEF Passes
  <2>. QED  BY <1>8, <1>10, <2>1, <2>2, <2>3 DEF Record
<1>. QED  BY <1>2, <1>3, <1>5, <1>6, <1>7, <1>9, <1>10

\* The surroundings release nothing.
LEMMA OuterIds ==
    ASSUME Base, IdInv, Surroundings
    PROVE  IdInv'
<1>. USE DEF Base
<1>0. w \in Passes /\ obj \in Objects /\ claims' = claims
  BY DEF TInv, ApiType, PassOK, Surroundings, Edit, Delete, Deliver, TimerFires, Resync,
         DeviceLoses, LocatorRestored, Failover, NodeBreaks, NodeHeals, GateCloses, GateOpens, Crash
<1>a. ASSUME w' = w, obj'.st = obj.st, obj'.here = obj.here, obj'.fin = obj.fin,
             obj.deleting => obj'.deleting, seen' = seen \/ seen' = obj'
      PROVE  IdInv'
  <2>1. PassIds'
    BY <1>0, <1>a DEF IdInv, PassIds, IdsHeld, Held
  <2>. QED  BY <1>0, <1>a, <2>1, IdsKeep DEF Recorded
<1>1. CASE Edit
  <2>1. PICK s \in Specs : Store([obj EXCEPT !.spec = s, !.gen = @ + 1], "other")
    BY <1>1 DEF Edit
  <2>2. /\ obj'.st = obj.st /\ obj'.here = obj.here /\ obj'.fin = obj.fin
        /\ obj'.deleting = obj.deleting /\ w' = w /\ (seen' = seen \/ seen' = obj')
    <3>1. /\ obj' = [obj EXCEPT !.spec = s, !.gen = @ + 1]
          /\ seen' = seen \/ seen' = obj'
      BY <2>1 DEF Store
    <3>. QED  BY <1>0, <1>1, <3>1 DEF Edit, Objects
  <2>. QED  BY <1>a, <2>2
<1>2. CASE Delete
  <2>1. w' = w
    BY <1>2 DEF Delete
  <2>2. CASE obj.fin
    <3>1. /\ obj'.st = obj.st /\ obj'.here = obj.here /\ obj'.fin = obj.fin /\ obj'.deleting
          /\ (seen' = seen \/ seen' = obj')
      BY <1>0, <1>2, <2>2 DEF Delete, Store, Objects
    <3>. QED  BY <1>a, <2>1, <3>1
  <2>3. CASE ~obj.fin
    <3>1. obj' = Gone
      BY <1>2, <2>3 DEF Delete, Store
    <3>2. w.pc \notin Serving
      BY <2>3 DEF GuardInv, PassKnows
    <3>3. PassIds'
      BY <2>1, <3>2
         DEF PassIds, Committed, Copying, Serving, FirstApply, Finalizing, Steps, Applying, RollingBack,
             Releasing
    <3>. QED  BY <3>1, <3>3 DEF IdInv, ServedIdsHeld, Gone, NoStatus
  <2>. QED  BY <2>2, <2>3
<1>3. CASE Crash
  <2>1. OnWith /\ obj' = obj /\ seen' = obj'
    BY <1>3 DEF Crash, OnWith, Idle
  <2>. QED  BY <1>0, <2>1, OnWithKeeps, IdsKeep DEF Recorded
<1>4. CASE \/ Deliver \/ TimerFires \/ Resync \/ DeviceLoses \/ LocatorRestored \/ Failover
           \/ NodeBreaks \/ NodeHeals \/ GateCloses \/ GateOpens
  <2>1. obj' = obj /\ w' = w /\ (seen' = seen \/ seen' = obj')
    BY <1>4 DEF Deliver, TimerFires, Resync, DeviceLoses, LocatorRestored, Failover, NodeBreaks, NodeHeals,
                GateCloses, GateOpens, api
  <2>. QED  BY <1>a, <2>1
<1>. QED  BY <1>1, <1>2, <1>3, <1>4 DEF Surroundings

\* Every step keeps the invariant.
LEMMA NextIds ==
    ASSUME [OwnPatchesSeen]_vars, Base, IdInv, [Next]_vars
    PROVE  IdInv'
<1>1. CASE OwnPatchesSeen /\ Get
  BY <1>1, GetIds
<1>2. CASE Identify
  BY <1>2, IdentifyIds, RecordIds
<1>3. ASSUME OnWith, UNCHANGED <<obj, seen, claims>> PROVE IdInv'
  BY <1>3, OnWithKeeps, IdsKeep DEF Recorded
<1>4. CASE Drive
  <2>1. UNCHANGED <<obj, seen, claims>>
    BY <1>4 DEF Drive, PlanFirst, PlanUpdate, PlanSame, ApplyOK, ApplyFails, ApplyDone, RollbackAnswered,
                RollbackFails, RollbackDone, VerifyOK, VerifyFails, VerifyDone, api
  <2>. QED  BY <1>3, <1>4, <2>1, DriveOn
<1>5. CASE \/ PathUnsteered \/ PathServed \/ PathDown \/ PathUnread \/ DriftUnnoted
           \/ ProbePassed \/ ProbeFailed \/ ProbeUnanswered
           \/ RecordNewFails \/ RecordFails \/ RefuseFails \/ FinalizeDropFails
  <2>1. UNCHANGED <<obj, seen, claims>>
    BY <1>5 DEF PathUnsteered, PathServed, PathDown, PathUnread, DriftUnnoted, ProbePassed, ProbeFailed,
                ProbeUnanswered, RecordNewFails, RecordFails, RefuseFails, FinalizeDropFails, api
  <2>. QED  BY <1>3, <1>5, <2>1, JudgeOn
<1>6. CASE Conclude
  BY <1>5, <1>6, RecordIds DEF Conclude
<1>7. CASE Surroundings
  BY <1>7, OuterIds
<1>8. CASE UNCHANGED vars
  BY <1>8 DEF vars, IdInv, ServedIdsHeld, PassIds, IdsHeld, Held
<1>. QED  BY <1>1, <1>2, <1>4, <1>6, <1>7, <1>8 DEF Next, Work

\* Provided every pass finds the controller's earlier patches in the cache:
\* the identifiers that status.allocations reports are held at the authority
\* while the service is not being deleted, whatever a later pass meets: a
\* pool that is exhausted, an update that fails and is undone, a crash
\* between a claim and its recording, an edit that moves the service.
THEOREM IdsRecordedAreHeld == Spec /\ [][OwnPatchesSeen]_vars => []RecordedIdsHeld
<1>1. Init => Base /\ IdInv
  <2>1. Init => IdInv
    BY DEF Init, IdInv, ServedIdsHeld, PassIds, Created, Gone, NoStatus, Idle, Committed, Copying,
           Serving, FirstApply
  <2>. QED  BY <2>1, InitBase
<1>2. Base /\ IdInv /\ [Next]_vars /\ [OwnPatchesSeen]_vars => Base' /\ IdInv'
  BY NextBase, NextIds
<1>3. IdInv => RecordedIdsHeld
  BY DEF IdInv, ServedIdsHeld, IdsHeld, RecordedIdsHeld
<1>. QED  BY <1>1, <1>2, <1>3, PTL DEF Spec

-----------------------------------------------------------------------------
(* Ready and the devices                                                   *)
(*                                                                         *)
(* A verification that passed still holds when Ready is written: between   *)
(* the two a pass writes no device, and none changes by itself             *)
(* (HoldsStill).  Before its first check and after the record a device may *)
(* lose anything, and the pin may be moved.                                *)

\* The nodes a pass has verified carry its plan.
Carried(s, S) == \A n \in S : ChecksPass(s, n, dev[n])

\* The path stage lets a failed check through only when the pin rides another
\* spine than the preferred one.
PassVerified ==
    /\ w.pc \in Verifying => Carried(w.plan, Attached(w.plan) \ w.todo)
    /\ w.pc = "recordNew" => Carried(w.plan, Attached(w.plan))
    /\ w.pc = "path" /\ w.vref = NoRefusal => Carried(w.plan, Attached(w.plan))
    /\ w.pc \in {"probe", "record"} /\ w.active \in {None, w.svc.spec.pref} =>
          Carried(w.plan, Attached(w.plan))
    /\ w.pc = "record" => w.probed

\* An update has a previous plan.
PassUpdates == w.pc \in Updating \cup {"verifyNew", "recordNew"} => w.svc.st.applied # None

ReadyInv ==
    /\ obj.st.applied # None => obj.st.probed
    /\ PassUpdates
    /\ PassVerified

\* Only an update that found a previous plan gets to its later steps.
LEMMA DriveUpdates ==
    ASSUME Base, PassUpdates, Drive
    PROVE  PassUpdates'
<1>. USE DEF Updating, Applying, RollingBack, Verifying
<1>0. w \in Passes /\ w.svc \in Objects /\ w.svc.st \in Statuses
  BY DEF Base, TInv, PassOK, Passes, Objects
<1>a. ASSUME w'.svc.st.applied = w.svc.st.applied,
             w'.pc \in Updating \cup {"verifyNew", "recordNew"} =>
                \/ w.pc \in Updating \cup {"verifyNew", "recordNew"}
                \/ w.svc.st.applied # None
      PROVE  PassUpdates'
  BY <1>a DEF PassUpdates
<1>1. CASE PlanFirst \/ PlanSame \/ PlanUpdate
  BY <1>0, <1>1, <1>a DEF PlanFirst, PlanSame, PlanUpdate, Walk, Passes
<1>4. CASE ApplyOK
  BY <1>0, <1>4, <1>a DEF ApplyOK, Passes
<1>5. CASE ApplyFails
  BY <1>0, <1>5, <1>a DEF ApplyFails, Walk, Passes
<1>6. CASE ApplyDone
  BY <1>0, <1>6, <1>a DEF ApplyDone, Walk, Passes
<1>7. CASE RollbackAnswered
  BY <1>0, <1>7, <1>a DEF RollbackAnswered, Passes
<1>8. CASE RollbackFails
  BY <1>0, <1>8, <1>a DEF RollbackFails, Passes
<1>9. CASE RollbackDone
  BY <1>0, <1>9, <1>a DEF RollbackDone, Walk, Passes
<1>10. CASE VerifyOK
  BY <1>0, <1>10, <1>a DEF VerifyOK, Passes
<1>11. CASE VerifyFails
  <2>1. PICK ref : w' = [w EXCEPT !.pc = IF w.pc = "verify" THEN "path" ELSE "refuse",
                                  !.vref = ref, !.ref = ref, !.svc.st.nodes = TRUE]
    BY <1>11 DEF VerifyFails
  <2>. QED  BY <1>0, <2>1 DEF PassUpdates, Passes, Objects, Statuses
<1>12. CASE VerifyDone
  <2>1. PICK pc \in {"path", "recordNew", "probe"} :
             w' = [w EXCEPT !.pc = pc, !.vref = NoRefusal, !.ref = NoRefusal, !.svc.st.nodes = TRUE]
    BY <1>12 DEF VerifyDone
  <2>2. w'.pc = pc /\ w'.svc.st.applied = w.svc.st.applied
    BY <1>0, <2>1 DEF Passes, Objects, Statuses
  <2>3. w'.pc = "recordNew" => w.pc = "verifyNew"
    BY <1>0, <1>12 DEF VerifyDone, Passes, Objects
  <2>. QED  BY <1>a, <2>2, <2>3
<1>. QED  BY <1>1, <1>4, <1>5, <1>6, <1>7, <1>8, <1>9, <1>10, <1>11, <1>12 DEF Drive

\* What is verified stays so through the walk, and a walk that is done has
\* verified every node; a walk that writes devices has verified nothing yet.
LEMMA DriveVerified ==
    ASSUME Base, PassVerified, Drive
    PROVE  PassVerified'
<1>. USE DEF Applying, RollingBack, Verifying
<1>0. w \in Passes /\ w.svc \in Objects
  BY DEF Base, TInv, PassOK, Passes
<1>a. ASSUME w'.pc \notin Verifying \cup {"recordNew", "probe", "record", "path"}
      PROVE  PassVerified'
  BY <1>a DEF PassVerified
<1>b. ASSUME w'.pc \in Verifying, w'.todo = Attached(w'.plan)
      PROVE  PassVerified'
  BY <1>b DEF PassVerified, Carried
<1>1. CASE PlanFirst
  BY <1>0, <1>1, <1>a DEF PlanFirst, Walk, Passes
<1>2. CASE PlanSame
  BY <1>0, <1>2, <1>b DEF PlanSame, Walk, Passes
<1>3. CASE PlanUpdate
  BY <1>0, <1>3, <1>a DEF PlanUpdate, Passes
<1>4. CASE ApplyOK
  BY <1>0, <1>4, <1>a DEF ApplyOK, Passes
<1>5. CASE ApplyFails
  BY <1>0, <1>5, <1>a DEF ApplyFails, Walk, Passes
<1>6. CASE ApplyDone
  BY <1>0, <1>6, <1>a, <1>b DEF ApplyDone, Walk, Passes
<1>7. CASE RollbackAnswered
  BY <1>0, <1>7, <1>a DEF RollbackAnswered, Passes
<1>8. CASE RollbackFails
  BY <1>0, <1>8, <1>a DEF RollbackFails, Passes
<1>9. CASE RollbackDone
  BY <1>0, <1>9, <1>a DEF RollbackDone, Walk, Passes
<1>10. CASE VerifyOK
  <2>. DEFINE n == Min(w.todo)
  <2>1. /\ w.pc \in Verifying /\ dev' = dev /\ ChecksPass(w.plan, n, dev[n])
        /\ w'.pc = w.pc /\ w'.plan = w.plan /\ w'.todo = w.todo \ {n}
    BY <1>0, <1>10 DEF VerifyOK, NodeVerified, Passes
  <2>. HIDE DEF n
  <2>2. Carried(w.plan, Attached(w.plan) \ w.todo)
    BY <2>1 DEF PassVerified
  <2>3. \A m \in Attached(w.plan) \ (w.todo \ {n}) : ChecksPass(w.plan, m, dev[m])
    BY <2>1, <2>2 DEF Carried
  <2>. QED  BY <2>1, <2>3 DEF PassVerified, Carried
<1>11. CASE VerifyFails
  <2>1. PICK ref \in {<<"LocatorMissing", Min(w.todo)>>, <<"CheckFailed", Min(w.todo)>>} :
             w' = [w EXCEPT !.pc = IF w.pc = "verify" THEN "path" ELSE "refuse",
                            !.vref = ref, !.ref = ref, !.svc.st.nodes = TRUE]
    BY <1>11 DEF VerifyFails
  <2>2. w'.pc \in {"path", "refuse"} /\ w'.vref = ref
    BY <1>0, <2>1 DEF Passes, Objects
  <2>3. ref # NoRefusal
    <3>1. \A n : <<"LocatorMissing", n>> # NoRefusal /\ <<"CheckFailed", n>> # NoRefusal
      BY DEF NoRefusal
    <3>. QED  BY <2>1, <3>1
  <2>. QED  BY <2>2, <2>3 DEF PassVerified
<1>12. CASE VerifyDone
  <2>1. PICK pc \in {"path", "recordNew", "probe"} :
             w' = [w EXCEPT !.pc = pc, !.vref = NoRefusal, !.ref = NoRefusal, !.svc.st.nodes = TRUE]
    BY <1>12 DEF VerifyDone
  <2>2. w'.pc = pc /\ w'.plan = w.plan /\ dev' = dev
    BY <1>0, <1>12, <2>1 DEF VerifyDone, Passes, Objects
  <2>3. Attached(w.plan) \ w.todo = Attached(w.plan)
    BY <1>12 DEF VerifyDone
  <2>4. Carried(w.plan, Attached(w.plan))
    BY <1>12, <2>3 DEF VerifyDone, PassVerified
  <2>. QED  BY <2>2, <2>4 DEF PassVerified, Carried
<1>. QED  BY <1>1, <1>2, <1>3, <1>4, <1>5, <1>6, <1>7, <1>8, <1>9, <1>10, <1>11, <1>12 DEF Drive

\* The concluding steps: from the path on, a pass writes no device.
LEMMA ConcludeReady ==
    ASSUME Base, ReadyInv, Conclude, dev' = dev
    PROVE  PassUpdates' /\ PassVerified'
<1>. USE DEF Base
<1>0. /\ w \in Passes /\ w.svc \in Objects /\ w.svc.st \in Statuses /\ PassOK(w)
      /\ PassVerified
  BY DEF TInv, PassOK, Passes, Objects, ReadyInv
<1>a. ASSUME w' = Idle PROVE PassUpdates' /\ PassVerified'
  BY <1>a DEF Idle, PassUpdates, PassVerified, Updating, Verifying
<1>b. ASSUME w'.pc \in {"drift", "probe", "refuse", "record"}, w'.plan = w.plan,
             w'.pc \in {"probe", "record"} /\ w'.active \in {None, w'.svc.spec.pref} =>
                Carried(w.plan, Attached(w.plan)),
             w'.pc = "record" => w'.probed
      PROVE  PassUpdates' /\ PassVerified'
  BY <1>b DEF PassUpdates, PassVerified, Carried, Updating, Verifying
<1>c. ASSUME w'.pc \in {"repair", "verify"}, w'.todo = Attached(w'.plan)
      PROVE  PassUpdates' /\ PassVerified'
  BY <1>c DEF PassUpdates, PassVerified, Carried, Updating, Verifying
<1>1. CASE PathUnsteered
  <2>1. w.pc = "path" /\ w' = Judged(w.vref, None)
    BY <1>1 DEF PathUnsteered
  <2>2. /\ w'.pc \in {"drift", "probe", "refuse"} /\ w'.plan = w.plan
        /\ w'.pc = "probe" => w.vref = NoRefusal
    BY <1>0, <2>1 DEF Judged, Passes
  <2>. QED  BY <1>0, <1>b, <2>1, <2>2 DEF PassVerified
<1>2. CASE PathServed
  <2>1. PICK p \in Spines :
             w' = Judged(IF w.vref[1] = "CheckFailed" /\ p # w.svc.spec.pref
                         THEN NoRefusal ELSE w.vref, p)
    BY <1>2, FabricPlanAssumption DEF PathServed, PinVia
  <2>2. w.pc = "path"
    BY <1>2 DEF PathServed
  <2>3. /\ w'.pc \in {"drift", "probe", "refuse"} /\ w'.plan = w.plan
        /\ w'.active = p /\ w'.svc = w.svc
    BY <1>0, <2>1 DEF Judged, Passes
  <2>4. w'.pc = "probe" /\ p = w.svc.spec.pref => w.vref = NoRefusal
    BY <1>0, <2>1 DEF Judged, Passes
  <2>5. p # None
    BY FabricPlanAssumption
  <2>. QED  BY <1>0, <1>b, <2>2, <2>3, <2>4, <2>5 DEF PassVerified
<1>3. CASE DriftUnnoted
  <2>1. w' = [Walk("repair", w.plan) EXCEPT !.svc.st.cond = Condition(FALSE, w.ref)]
    BY <1>3 DEF DriftUnnoted
  <2>2. w'.pc = "repair" /\ w'.todo = Attached(w.plan) /\ w'.plan = w.plan
    BY <1>0, <2>1 DEF Walk, Passes, Objects
  <2>. QED  BY <1>c, <2>2
<1>4. CASE ProbePassed
  <2>1. /\ w'.pc = "record" /\ w'.probed /\ w.pc = "probe" /\ w'.svc = w.svc
        /\ w'.plan = w.plan /\ w'.active = w.active
    BY <1>0, <1>4 DEF ProbePassed, Passes
  <2>. QED  BY <1>0, <1>b, <2>1 DEF PassVerified
<1>5. CASE PathDown \/ ProbeFailed
  <2>1. w'.pc = "refuse" /\ w'.plan = w.plan
    BY <1>0, <1>5 DEF PathDown, ProbeFailed, Passes
  <2>. QED  BY <1>b, <2>1
<1>6. CASE RecordNewFails
  <2>1. w'.pc = "refuse" /\ w'.plan = w.plan
    BY <1>0, <1>6 DEF RecordNewFails, Passes, Objects
  <2>. QED  BY <1>b, <2>1
<1>7. CASE \/ PathUnread \/ ProbeUnanswered \/ RecordFails \/ RefuseFails \/ FinalizeDropFails
           \/ Record \/ Refuse \/ FinalizeNote \/ FinalizeDrop
  BY <1>7, <1>a DEF PathUnread, ProbeUnanswered, RecordFails, RefuseFails, FinalizeDropFails, Record,
                    Refuse, FinalizeNote, FinalizeDrop, Return
<1>8. ASSUME NEW svc, NEW pc \in {"repair", "verify"}, w' = [Walk(pc, w.plan) EXCEPT !.svc = svc]
      PROVE  PassUpdates' /\ PassVerified'
  <2>1. w'.pc = pc /\ w'.todo = Attached(w.plan) /\ w'.plan = w.plan
    BY <1>0, <1>8 DEF Walk, Passes
  <2>. QED  BY <1>c, <2>1
<1>9. CASE DriftNoted
  BY <1>8, <1>9 DEF DriftNoted
<1>10. CASE RecordNew
  BY <1>8, <1>10 DEF RecordNew
<1>. QED  BY <1>1, <1>2, <1>3, <1>4, <1>5, <1>6, <1>7, <1>9, <1>10 DEF Conclude

\* The status records something only at two steps of a pass, and Ready turns
\* True only there.
Records ==
    /\ w.pc \in {"recordNew", "record"}
    /\ dev' = dev
    /\ obj'.st.hashed = w.plan /\ obj'.st.applied = w.svc.spec
    /\ w.pc = "record" => obj'.st.active = w.active
    /\ obj'.st.probed = IF w.pc = "record" THEN w.probed ELSE w.svc.st.probed

Leaves ==
    /\ Recorded(obj'.st) = Recorded(obj.st)
    /\ obj'.st.cond.ready => obj.st.cond.ready

\* What setReadyOutcome says is recorded.
LEMMA OutcomeRecords ==
    ASSUME Base, NEW act \in Spines \cup {None}, NEW p \in BOOLEAN,
           w.pc \in {"recordNew", "record"}, w.pc = "record" => act = w.active,
           p = IF w.pc = "record" THEN w.probed ELSE w.svc.st.probed, dev' = dev,
           Store(Patched(ReadyOutcome(act, p)), "self")
    PROVE  Records
<1>0. w \in Passes /\ w.svc.st \in Statuses /\ PassOK(w) /\ TInv /\ CopyFresh
  BY DEF Base, TInv, PassOK, Passes, Objects
<1>. DEFINE new == ReadyOutcome(act, p)
<1>1. new \in Statuses
  BY <1>0, WrittenTyped
<1>2. new.hashed = w.plan /\ new.applied = w.svc.spec /\ new.active = act /\ new.probed = p
  BY <1>0 DEF ReadyOutcome, Statuses
<1>. HIDE DEF new
<1>3. obj' = Patched(new)
  BY DEF Store, new
<1>4. w.pc \in Copying
  BY DEF Copying, Serving, Finalizing, Steps
<1>5. Recorded(obj'.st) = Recorded(new)
  BY <1>0, <1>1, <1>3, <1>4, PatchRecords DEF CopyFresh
<1>. QED  BY <1>2, <1>5 DEF Records, Recorded

\* Every step drops the object, leaves the record or records.
LEMMA StatusSteps ==
    ASSUME Base, [Next]_vars
    PROVE  obj' = Gone \/ Leaves \/ Records
<1>. USE DEF Base
<1>0. /\ w \in Passes /\ obj \in Objects /\ w.svc \in Objects /\ w.svc.st \in Statuses /\ PassOK(w)
      /\ w.ref \in Refusals
  BY DEF TInv, ApiType, PassOK, Passes, Objects
<1>1. ASSUME obj' = obj PROVE Leaves
  BY <1>1 DEF Leaves, Recorded
<1>2. CASE Get \/ (Identify /\ ~AddFinalizer) \/ Drive
  <2>1. obj' = obj
    <3>1. CASE Get
      BY <3>1 DEF Get, GetGone, GetDeleting, GetBare, GetRefused, GetReuse, GetAllocate, Getting, Dequeue
    <3>2. CASE Identify /\ ~AddFinalizer
      BY <3>2 DEF Identify, AddFinalizerFails, ClaimOK, ClaimFails, ClaimExhausted, ClaimsDone, ReleaseOK,
                  ReleaseFails, api
    <3>3. CASE Drive
      BY <3>3 DEF Drive, PlanFirst, PlanUpdate, PlanSame, ApplyOK, ApplyFails, ApplyDone,
                  RollbackAnswered, RollbackFails, RollbackDone, VerifyOK, VerifyFails, VerifyDone, api
    <3>. QED  BY <1>2, <3>1, <3>2, <3>3
  <2>. QED  BY <1>1, <2>1
<1>3. CASE AddFinalizer
  <2>1. obj' = [obj EXCEPT !.fin = TRUE]
    BY <1>3 DEF AddFinalizer, Store
  <2>. QED  BY <1>0, <2>1 DEF Leaves, Recorded, Objects
<1>4. ASSUME NEW new \in Statuses, Store(Patched(new), "self") PROVE obj' = Patched(new)
  BY <1>4 DEF Store
<1>5. ASSUME NEW ref \in Refusals,
             Store(Patched([w.svc.st EXCEPT !.cond = Condition(FALSE, ref)]), "self")
      PROVE  Leaves
  <2>. DEFINE new == [w.svc.st EXCEPT !.cond = Condition(FALSE, ref)]
  <2>1. new \in Statuses
    BY <1>0, WrittenTyped
  <2>2. Recorded(new) = Recorded(w.svc.st) /\ ~new.cond.ready
    BY <1>0, RecordedExcept DEF Statuses, Condition
  <2>3. Store(Patched(new), "self")
    BY <1>5
  <2>. HIDE DEF new
  <2>4. Recorded(obj'.st) = Recorded(obj.st)
    BY <1>4, <2>1, <2>2, <2>3, PatchKeeps
  <2>5. obj'.st.cond \in {new.cond, obj.st.cond}
    BY <1>0, <1>4, <2>1, <2>3 DEF Patched, Objects, Statuses
  <2>. QED  BY <2>2, <2>4, <2>5 DEF Leaves
<1>6. CASE Conclude
  <2>1. CASE DriftNoted \/ Refuse
    BY <1>0, <1>5, <2>1 DEF DriftNoted, Refuse
  <2>2. CASE FinalizeNote
    <3>1. <<"Finalizing", 0>> \in Refusals
      BY DEF Refusals
    <3>. QED  BY <1>1, <1>5, <2>2, <3>1 DEF FinalizeNote, api
  <2>3. CASE FinalizeDrop
    BY <2>3 DEF FinalizeDrop, Store
  <2>4. CASE RecordNew
    <3>1. w.svc.st.active \in Spines \cup {None} /\ w.svc.st.probed \in BOOLEAN
      BY <1>0 DEF Statuses
    <3>. QED  BY <2>4, <3>1, OutcomeRecords DEF RecordNew
  <2>5. CASE Record
    <3>1. w.active \in Spines \cup {None} /\ w.probed \in BOOLEAN
      BY <1>0 DEF Passes
    <3>. QED  BY <1>1, <2>5, <3>1, OutcomeRecords DEF Record, api
  <2>6. CASE \/ PathUnsteered \/ PathServed \/ PathDown \/ PathUnread \/ DriftUnnoted
             \/ ProbePassed \/ ProbeFailed \/ ProbeUnanswered
             \/ RecordNewFails \/ RecordFails \/ RefuseFails \/ FinalizeDropFails
    <3>1. obj' = obj
      BY <2>6 DEF PathUnsteered, PathServed, PathDown, PathUnread, DriftUnnoted, ProbePassed, ProbeFailed,
                  ProbeUnanswered, RecordNewFails, RecordFails, RefuseFails, FinalizeDropFails, api
    <3>. QED  BY <1>1, <3>1
  <2>. QED  BY <1>6, <2>1, <2>2, <2>3, <2>4, <2>5, <2>6 DEF Conclude
<1>7. CASE Edit \/ (Delete /\ obj.fin)
  <2>1. obj'.st = obj.st
    BY <1>0, <1>7 DEF Edit, Delete, Store, Objects
  <2>. QED  BY <2>1 DEF Leaves, Recorded
<1>8. CASE Delete /\ ~obj.fin
  BY <1>8 DEF Delete, Store
<1>9. CASE \/ Deliver \/ TimerFires \/ Resync \/ DeviceLoses \/ LocatorRestored \/ Failover
            \/ NodeBreaks \/ NodeHeals \/ GateCloses \/ GateOpens \/ Crash
  <2>1. obj' = obj
    BY <1>9 DEF Deliver, TimerFires, Resync, DeviceLoses, LocatorRestored, Failover, NodeBreaks,
                 NodeHeals, GateCloses, GateOpens, Crash, api
  <2>. QED  BY <1>1, <2>1
<1>10. CASE UNCHANGED vars
  BY <1>1, <1>10 DEF vars
<1>. QED  BY <1>2, <1>3, <1>6, <1>7, <1>8, <1>9, <1>10 DEF Next, Work, Surroundings

\* Elsewhere a pass is not at its update or its verification, and nothing
\* happens to the devices while one is.
LEMMA OuterReady ==
    ASSUME HoldsStill, Base, ReadyInv, Get \/ Identify \/ Surroundings
    PROVE  PassUpdates' /\ PassVerified'
<1>. USE DEF Base
<1>0. w \in Passes /\ PassUpdates /\ PassVerified
  BY DEF TInv, PassOK, ReadyInv
<1>a. ASSUME w'.pc \notin Updating \cup Found
      PROVE  PassUpdates' /\ PassVerified'
  BY <1>a DEF PassUpdates, PassVerified, Found, Verifying
<1>1. CASE Get
  <2>1. w'.pc \in {"idle", "finRollback", "addFin", "refuse", "plan", "allocId"}
    <3>1. CASE GetGone
      BY <3>1 DEF GetGone, Return, Idle
    <3>2. CASE GetDeleting
      BY <3>2 DEF GetDeleting, Begin, Idle
    <3>3. CASE GetBare \/ GetRefused \/ GetAllocate
      BY <3>3 DEF GetBare, GetRefused, GetAllocate, Begin, Idle
    <3>4. CASE GetReuse
      BY <3>4 DEF GetReuse, Begin, Idle
    <3>. QED  BY <1>1, <3>1, <3>2, <3>3, <3>4 DEF Get
  <2>. QED  BY <1>a, <2>1 DEF Updating, Found, Verifying
<1>2. CASE Identify
  <2>1. w'.pc \in {"idle", "allocPrefix", "poolRelease", "refuse", "plan", "finDrop", "finNote"}
    <3>1. CASE AddFinalizer \/ AddFinalizerFails \/ ClaimFails
      BY <3>1 DEF AddFinalizer, AddFinalizerFails, ClaimFails, Return, Idle
    <3>2. CASE ClaimOK
      BY <1>0, <3>2 DEF ClaimOK, Allocating, Passes
    <3>3. CASE ClaimExhausted \/ ClaimsDone
      BY <1>0, <3>3 DEF ClaimExhausted, ClaimsDone, Passes
    <3>4. CASE ReleaseOK \/ ReleaseFails
      BY <1>0, <3>4 DEF ReleaseOK, ReleaseFails, AfterRelease, Passes
    <3>. QED  BY <1>2, <3>1, <3>2, <3>3, <3>4 DEF Identify
  <2>. QED  BY <1>a, <2>1 DEF Updating, Found, Verifying
<1>3. CASE Surroundings /\ ~Crash
  <2>1. w' = w
    BY <1>3 DEF Surroundings, Edit, Delete, Deliver, TimerFires, Resync, DeviceLoses, LocatorRestored,
                Failover, NodeBreaks, NodeHeals, GateCloses, GateOpens
  <2>2. CASE w.pc \in Found
    <3>1. dev' = dev
      BY <2>2 DEF HoldsStill
    <3>. QED  BY <1>0, <2>1, <3>1 DEF PassUpdates, PassVerified, Carried
  <2>3. CASE w.pc \notin Found
    <3>1. w.pc \notin Verifying \cup {"recordNew", "path", "probe", "record"}
      BY <2>3 DEF Found
    <3>2. PassVerified'
      BY <2>1, <3>1 DEF PassVerified
    <3>. QED  BY <1>0, <2>1, <3>2 DEF PassUpdates
  <2>. QED  BY <2>2, <2>3
<1>4. CASE Crash
  BY <1>4, <1>a DEF Crash, Idle, Updating, Found, Verifying
<1>. QED  BY <1>1, <1>2, <1>3, <1>4

\* When a pass records, it has verified, unless it found the path elsewhere,
\* and probed.
LEMMA RecordsVerified ==
    ASSUME Base, ReadyInv, Records
    PROVE  /\ obj'.st.probed
           /\ obj'.st.active \in {None, obj'.st.applied.pref} =>
                 \A n \in Attached(w.plan) : ChecksPass(w.plan, n, dev[n])
<1>1. CASE w.pc = "record"
  <2>1. w.probed /\ obj'.st.active = w.active /\ obj'.st.applied = w.svc.spec
    BY <1>1 DEF Records, ReadyInv, PassVerified
  <2>. QED  BY <1>1, <2>1 DEF Records, ReadyInv, PassVerified, Carried
<1>2. CASE w.pc = "recordNew"
  <2>1. w.svc.st.applied = obj.st.applied /\ w.svc.st.probed = obj.st.probed
    BY <1>2 DEF Base, CopyFresh, Copying, Serving, Finalizing, Steps, Recorded
  <2>2. obj.st.probed
    BY <1>2, <2>1 DEF ReadyInv, PassUpdates
  <2>. QED  BY <1>2, <2>1, <2>2 DEF Records, ReadyInv, PassVerified, Carried
<1>. QED  BY <1>1, <1>2 DEF Records

\* Every step keeps the invariant.
LEMMA NextReady ==
    ASSUME [HoldsStill]_vars, Base, ReadyInv, [Next]_vars
    PROVE  ReadyInv'
<1>1. obj'.st.applied # None => obj'.st.probed
  <2>1. CASE obj' = Gone
    BY <2>1 DEF Gone, NoStatus
  <2>2. CASE Leaves
    BY <2>2 DEF Leaves, Recorded, ReadyInv
  <2>3. CASE Records
    BY <2>3, RecordsVerified
  <2>. QED  BY <2>1, <2>2, <2>3, StatusSteps
<1>2. PassUpdates' /\ PassVerified'
  <2>1. CASE HoldsStill /\ (Get \/ Identify \/ Surroundings)
    BY <2>1, OuterReady
  <2>2. CASE Drive
    BY <2>2, DriveUpdates, DriveVerified DEF ReadyInv
  <2>3. CASE Conclude
    <3>1. dev' = dev
      BY <2>3 DEF Conclude, PathUnsteered, PathServed, PathDown, PathUnread, DriftNoted, DriftUnnoted,
                  ProbePassed, ProbeFailed, ProbeUnanswered, RecordNew, RecordNewFails, Record,
                  RecordFails, Refuse, RefuseFails, FinalizeNote, FinalizeDrop, FinalizeDropFails
    <3>. QED  BY <2>3, <3>1, ConcludeReady
  <2>4. CASE UNCHANGED vars
    BY <2>4 DEF vars, ReadyInv, PassUpdates, PassVerified, Carried
  <2>. QED  BY <2>1, <2>2, <2>3, <2>4 DEF Next, Work
<1>. QED  BY <1>1, <1>2 DEF ReadyInv

\* Provided every pass finds the controller's earlier patches in the cache and
\* no device changes between a check and the record of it: whenever Ready
\* turns True the data path has been probed once and, unless the path rides
\* another spine than the preferred one, both nodes carry every item of the
\* plan whose hashes the status records, whatever was edited, rejected, lost
\* or interrupted before.  No verification is used after the pass wrote a
\* device, and a failed check reaches Ready by no other way.
THEOREM ReadyMeansOnDevice ==
    Spec /\ [][OwnPatchesSeen /\ HoldsStill]_vars => ReadyOnDevice
<1>1. Init => Base /\ ReadyInv
  <2>1. ASSUME Init PROVE ReadyInv
    <3>1. PICK s \in Specs : obj = Created(s)
      BY <2>1 DEF Init
    <3>2. w = Idle
      BY <2>1 DEF Init
    <3>. QED
      BY <3>1, <3>2 DEF ReadyInv, PassUpdates, PassVerified, Created, Gone, NoStatus, Idle, Updating,
                       Verifying
  <2>. QED  BY <2>1, InitBase
<1>2. Base /\ ReadyInv /\ [Next]_vars /\ [OwnPatchesSeen /\ HoldsStill]_vars => Base' /\ ReadyInv'
  <2>1. [OwnPatchesSeen /\ HoldsStill]_vars => [OwnPatchesSeen]_vars /\ [HoldsStill]_vars
    OBVIOUS
  <2>. QED  BY <2>1, NextBase, NextReady
<1>3. ASSUME Base, ReadyInv, [Next]_vars, ~obj.st.cond.ready, obj'.st.cond.ready
      PROVE  /\ obj'.st.probed
             /\ obj'.st.active \in {None, obj'.st.applied.pref} =>
                   \A n \in Attached(obj'.st.hashed) : ChecksPass(obj'.st.hashed, n, dev[n])
  <2>1. Records
    BY <1>3, StatusSteps DEF Leaves, Gone, NoStatus
  <2>2. obj'.st.hashed = w.plan
    BY <2>1 DEF Records
  <2>. QED  BY <1>3, <2>1, <2>2, RecordsVerified
<1>4. Base /\ ReadyInv /\ [Next]_vars =>
        [~obj.st.cond.ready /\ obj'.st.cond.ready =>
            /\ obj'.st.probed
            /\ obj'.st.active \in {None, obj'.st.applied.pref} =>
                  \A n \in Attached(obj'.st.hashed) : ChecksPass(obj'.st.hashed, n, dev[n])]_vars
  BY <1>3
<1>. QED  BY <1>1, <1>2, <1>4, PTL DEF Spec, ReadyOnDevice
=============================================================================
