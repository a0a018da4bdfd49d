--------------------------- MODULE SRv6TypeProofs ---------------------------
(***************************************************************************)
(* TypeOK of SRv6Controller for every set of nodes, ports, spines and      *)
(* specs and every bound, with the lemmas about the plan's operators that  *)
(* it and SRv6StatusProofs rest on.                                        *)
(*                                                                         *)
(* The argument.  An absent spec, plan or applied spec is None, of which   *)
(* nothing can be read; so the type invariant needs to know where in a     *)
(* pass each of the three is present, and that a walk visits only nodes of *)
(* the plan it applies or rolls back (PassOK).                             *)
(***************************************************************************)
EXTENDS SRv6Proofs, FiniteSetTheorems, WellFoundedInduction

-----------------------------------------------------------------------------
(* The plan's operators *)

\* The walks and the claims go through the nodes in order: there is a next
\* one as long as some are left.
LEMMA MinIn ==
    ASSUME NEW S, S \subseteq Nat, S # {}
    PROVE  Min(S) \in S /\ \A n \in S : Min(S) <= n
<1>. DEFINE Below(n) == {m \in S : m <= n}
            F == {Below(m) : m \in S}
<1>1. PICK T \in F : \A U \in F : ~(U \subseteq T /\ U # T)
  <2>1. ASSUME NEW n \in S PROVE Below(n) \in FiniteSubsetsOf(Nat)
    <3>1. 0 \in Int /\ n \in Int
      OBVIOUS
    <3>2. IsFiniteSet(0..n)
      BY <3>1, FS_Interval
    <3>3. \A m \in Below(n) : m \in Nat /\ m \in 0..n
      OBVIOUS
    <3>. HIDE DEF Below
    <3>. QED  BY <3>2, <3>3, FS_Subset DEF FiniteSubsetsOf
  <2>2. F \subseteq FiniteSubsetsOf(Nat) /\ F # {}
    BY <2>1
  <2>. HIDE DEF F
  <2>3. PICK T \in F : \A U \in F : ~(<<U, T>> \in StrictSubsetOrdering(Nat))
    BY <2>2, FS_StrictSubsetOrderingWellFounded, WFMin
  <2>. QED  BY <2>2, <2>3 DEF StrictSubsetOrdering, FiniteSubsetsOf
<1>2. PICK n \in S : T = Below(n)
  OBVIOUS
<1>3. \A m \in S : n <= m
  <2>. SUFFICES ASSUME NEW m \in S, ~(n <= m) PROVE FALSE
    OBVIOUS
  <2>1. Below(m) \in F
    OBVIOUS
  <2>2. m < n /\ \A q \in S : q <= m => q <= n
    OBVIOUS
  <2>3. n <= n /\ ~(n <= m) /\ m \in Nat /\ n \in Nat
    BY <2>2
  <2>4. Below(m) \subseteq Below(n)
    BY <2>2
  <2>5. n \in Below(n) /\ n \notin Below(m)
    BY <2>3
  <2>. HIDE DEF F, Below
  <2>. QED  BY <1>1, <1>2, <2>1, <2>4, <2>5
<1>. QED  BY <1>3 DEF Min

\* The parts of a spec: two attachment nodes with their ports.
LEMMA SpecParts ==
    ASSUME NEW s \in AllSpecs
    PROVE  /\ Attached(s) \in SUBSET Nodes
           /\ Attached(s) # {}
           /\ IsFiniteSet(Attached(s)) /\ Cardinality(Attached(s)) = 2
           /\ s.port \in [Attached(s) -> Ports]
           /\ s.pref \in Spines \cup {None}
           /\ s = [port |-> s.port, pref |-> s.pref]
<1>1. PICK S \in Pairs : s \in [port : [S -> Ports], pref : Spines \cup {None}]
  BY DEF AllSpecs
<1>2. Attached(s) = S /\ S \in SUBSET Nodes /\ Cardinality(S) = 2
  BY <1>1 DEF Attached, Pairs
<1>3. IsFiniteSet(S)
  BY <1>2, FabricPlanAssumption, FS_Subset
<1>4. S # {}
  BY <1>2, FS_EmptySet
<1>. QED  BY <1>1, <1>2, <1>3, <1>4

\* A spec with its spine preference replaced is a spec.
LEMMA SpecMade ==
    ASSUME NEW s \in AllSpecs, NEW p \in Spines \cup {None}
    PROVE  [s EXCEPT !.pref = p] \in AllSpecs
<1>1. PICK S \in Pairs : s \in [port : [S -> Ports], pref : Spines \cup {None}]
  BY DEF AllSpecs
<1>2. [s EXCEPT !.pref = p] \in [port : [S -> Ports], pref : Spines \cup {None}]
  BY <1>1
<1>. QED  BY <1>2 DEF AllSpecs

\* The other end of the service.
LEMMA PeerIn ==
    ASSUME NEW s \in AllSpecs, NEW n \in Attached(s)
    PROVE  Peer(s, n) \in Attached(s) /\ Peer(s, n) # n
<1>1. \E m \in Attached(s) : m # n
  <2>. SUFFICES ASSUME Attached(s) = {n} PROVE FALSE
    OBVIOUS
  <2>1. Cardinality(Attached(s)) = 2
    BY SpecParts
  <2>2. Cardinality({n}) = 1
    BY FS_Singleton
  <2>. QED  BY <2>1, <2>2
<1>. QED  BY <1>1 DEF Peer

\* The ingress leaf is one of the two.
LEMMA IngressIn ==
    ASSUME NEW s \in AllSpecs
    PROVE  Ingress(s) \in Attached(s)
BY SpecParts, MinIn, FabricPlanAssumption DEF Ingress

\* NodePlan.Ops asks for items.
LEMMA OpsTyped ==
    ASSUME NEW s \in AllSpecs, NEW n \in Attached(s)
    PROVE  /\ Ops(s, n) \in Seq(Items)
           /\ ToSet(Ops(s, n)) \subseteq Items
<1>1. s.port[n] \in Ports /\ Peer(s, n) \in Nodes /\ PinSpine(s) \in Spines
  BY SpecParts, PeerIn, FabricPlanAssumption DEF PinSpine
<1>2. /\ <<"vrf", 0, 0>> \in Items
      /\ <<"port", s.port[n], 0>> \in Items
      /\ <<"route", Peer(s, n), PinSpine(s)>> \in Items
      /\ <<"client", s.port[n], 0>> \in Items
  BY <1>1 DEF Items
<1>3. Pinned(s, n) => <<"pin", Peer(s, n), s.pref>> \in Items
  BY <1>1, SpecParts DEF Pinned, Items
<1>. DEFINE a == <<<<"vrf", 0, 0>>, <<"port", s.port[n], 0>>, <<"route", Peer(s, n), PinSpine(s)>>>>
            b == IF Pinned(s, n) THEN <<<<"pin", Peer(s, n), s.pref>>>> ELSE <<>>
            c == <<<<"client", s.port[n], 0>>>>
<1>4. a \in Seq(Items) /\ b \in Seq(Items) /\ c \in Seq(Items)
  BY <1>2, <1>3
<1>5. Ops(s, n) = a \o b \o c
  BY DEF Ops
<1>. HIDE DEF a, b, c
<1>6. Ops(s, n) \in Seq(Items)
  BY <1>4, <1>5
<1>. QED  BY <1>6 DEF ToSet

\* handleApply leaves items.
LEMMA ApplyTyped ==
    ASSUME NEW conf \in SUBSET Items, NEW ops \in Seq(Items), NEW k \in 0..Len(ops)
    PROVE  ApplyOps(conf, ops, k) \in SUBSET Items
<1>1. \A i \in 1..k : ops[i] \in Items
  OBVIOUS
<1>. QED  BY <1>1 DEF ApplyOps

\* A rollback only takes away.
LEMMA RollbackTakes ==
    ASSUME NEW s, NEW n, NEW conf, NEW k
    PROVE  RollbackOps(s, n, conf, k) \subseteq conf
BY DEF RollbackOps

-----------------------------------------------------------------------------
(* The invariant *)

\* Steps at which a plan is made, and steps of an update.
Planned ==
    Applying \cup RollingBack \cup Verifying
        \cup {"plan", "recordNew", "path", "drift", "probe", "record"}
Updating == {"remove", "new", "undo", "restore"}

\* An object has a spec, and room for the generation of its deletion.
ApiType ==
    /\ obj \in Objects /\ seen \in Objects
    /\ queue \in {"empty", "self", "other"} /\ timer \in BOOLEAN
    /\ obj.here => obj.spec \in AllSpecs
    /\ seen.here => seen.spec \in AllSpecs
    /\ ~obj.deleting => obj.gen <= MaxGen

SiteType ==
    /\ claims \subseteq AllClaims
    /\ dev \in [Nodes -> SUBSET Items]
    /\ broken \subseteq Nodes
    /\ admitted \in BOOLEAN
    /\ mishaps \in 0..MaxMishaps

\* The plan that pass x applies or rolls back.
TargetOf(x) == IF x.pc \in {"remove", "undo", "restore"} THEN x.svc.st.applied ELSE x.plan

\* What a pass x knows at each step.
PassOK(x) ==
    /\ x \in Passes
    /\ x.pc # "idle" => x.svc.spec \in AllSpecs
    /\ x.pc = "allocPrefix" => x.todo \subseteq Attached(x.svc.spec)
    /\ x.pc \in Planned => x.plan \in AllSpecs
    /\ x.pc \in Updating => x.svc.st.applied \in AllSpecs
    /\ x.pc \in Applying \cup RollingBack => x.todo \subseteq Attached(TargetOf(x))

TInv == ApiType /\ SiteType /\ PassOK(w)

\* The invariant says more than TypeOK.
LEMMA TInvTypes == TInv => TypeOK
BY DEF TInv, ApiType, SiteType, PassOK, TypeOK

-----------------------------------------------------------------------------
(* Writes to the object *)

\* What is absent, new or idle is of its type.
LEMMA NoneTyped ==
    /\ NoRefusal \in Refusals /\ NoStatus \in Statuses /\ Gone \in Objects /\ Idle \in Passes
    /\ \A s \in AllSpecs : Created(s) \in Objects
<1>1. NoRefusal \in Refusals
  BY DEF NoRefusal, Refusals
<1>2. 0 \in 0..(MaxGen + 1) /\ 1 \in 0..(MaxGen + 1)
  BY SRv6Assumption
<1>3. NoStatus \in Statuses
  BY <1>1, <1>2 DEF NoStatus, Statuses
<1>4. Gone \in Objects
  BY <1>2, <1>3 DEF Gone, Objects
<1>5. Idle \in Passes
  BY <1>1, <1>4 DEF Idle, Passes, Steps
<1>6. \A s \in AllSpecs : Created(s) \in Objects
  BY <1>2, <1>4 DEF Created, Objects
<1>. QED  BY <1>1, <1>3, <1>4, <1>5, <1>6

\* A merge patch makes a status from three.
LEMMA PatchedTyped ==
    ASSUME TInv, NEW new \in Statuses
    PROVE  /\ Patched(new) \in Objects
           /\ Patched(new).spec = obj.spec /\ Patched(new).gen = obj.gen
           /\ Patched(new).here = obj.here /\ Patched(new).deleting = obj.deleting
           /\ Patched(new).st.applied \in {new.applied, obj.st.applied}
<1>1. obj.st \in Statuses /\ obj \in Objects
  BY DEF TInv, ApiType, Objects
<1>. DEFINE st == [f \in DOMAIN new |-> IF new[f] # w.svc.st[f] THEN new[f] ELSE obj.st[f]]
<1>2. st \in Statuses /\ st.applied \in {new.applied, obj.st.applied}
  BY <1>1 DEF Statuses
<1>3. Patched(new) = [obj EXCEPT !.st = st]
  BY DEF Patched
<1>. HIDE DEF st
<1>. QED  BY <1>1, <1>2, <1>3 DEF Objects

\* The answer to a patch is decoded into the copy of a pass.
LEMMA RefreshedTyped ==
    ASSUME NEW o \in Objects, o.spec \in AllSpecs, w.svc \in Objects, w.svc.spec \in AllSpecs
    PROVE  /\ Refreshed(o) \in Objects
           /\ Refreshed(o).spec \in AllSpecs
           /\ Refreshed(o).st.applied = o.st.applied
<1>. DEFINE p == IF o.spec.pref = None THEN w.svc.spec.pref ELSE o.spec.pref
            sp == [o.spec EXCEPT !.pref = p]
            st == [o.st EXCEPT !.nodes = @ \/ w.svc.st.nodes]
<1>1. sp \in AllSpecs
  BY SpecParts, SpecMade
<1>2. o.st \in Statuses /\ w.svc.st \in Statuses
  BY DEF Objects
<1>3. st \in Statuses /\ st.applied = o.st.applied
  BY <1>2 DEF Statuses
<1>4. Refreshed(o) = [o EXCEPT !.spec = sp, !.st = st]
  BY DEF Refreshed, Objects
<1>. HIDE DEF sp, st
<1>. QED  BY <1>1, <1>3, <1>4 DEF Objects

\* A write of a well-formed object.
LEMMA StoreTyped ==
    ASSUME ApiType, NEW o \in Objects, NEW by \in {"self", "other"}, Store(o, by),
           o.here => o.spec \in AllSpecs,
           ~o.deleting => o.gen <= MaxGen,
           timer' \in BOOLEAN
    PROVE  ApiType'
BY DEF ApiType, Store

\* A request that goes well, or one mishap within the bound.
Counted == mishaps' = mishaps \/ (mishaps < MaxMishaps /\ mishaps' = mishaps + 1)

\* The bound on mishaps is kept.
LEMMA CountedTyped ==
    ASSUME SiteType, Counted
    PROVE  mishaps' \in 0..MaxMishaps
BY SRv6Assumption DEF SiteType, Counted

\* What most steps of a pass leave alone: object, queue, devices, site.
Aside ==
    /\ UNCHANGED <<api, dev, site>>
    /\ timer' \in BOOLEAN
    /\ claims' \subseteq AllClaims
    /\ Counted

\* Such a step is right as soon as the pass it leaves is.
LEMMA AsideTyped ==
    ASSUME TInv, Aside, PassOK(w')
    PROVE  TInv'
<1>1. ApiType'
  BY DEF TInv, ApiType, Aside, api
<1>2. SiteType'
  BY CountedTyped DEF TInv, SiteType, Aside, site
<1>. QED  BY <1>1, <1>2 DEF TInv

\* The end of a pass.
LEMMA IdleOK == PassOK(Idle)
BY NoneTyped DEF PassOK, Idle, Planned, Updating, Applying, RollingBack, Verifying

\* Get: the pass starts with the object as it is read.
LEMMA GetTyped ==
    ASSUME TInv, Get
    PROVE  TInv'
<1>. USE DEF TInv, ApiType
<1>1. UNCHANGED <<obj, seen, claims, dev, site, mishaps>> /\ queue' = "empty" /\ timer' \in BOOLEAN
  BY DEF Get, GetGone, GetDeleting, GetBare, GetRefused, GetReuse, GetAllocate, Getting, Dequeue,
         Return, Smooth
<1>2. ApiType' /\ SiteType'
  BY <1>1 DEF SiteType, site
<1>3. CASE GetGone
  <2>1. w' = Idle
    BY <1>3 DEF GetGone, Return
  <2>. QED  BY <1>2, <2>1, IdleOK
<1>4. ASSUME ~GetGone PROVE PassOK(w')
  <2>. USE DEF PassOK, Begin, Passes, Idle, Steps, Planned, Updating, Applying, RollingBack, Verifying,
               Releasing, TargetOf
  <2>1. Idle \in Passes /\ seen \in Objects
    BY NoneTyped
  <2>3. CASE GetDeleting
    <3>1. seen.spec \in AllSpecs /\ Attached(seen.spec) \in SUBSET Nodes
      BY <2>3, SpecParts DEF GetDeleting
    <3>2. PICK T \in {Attached(seen.spec), {}} :
               w' = [Begin("finRollback") EXCEPT !.plan = seen.spec, !.todo = T]
      BY <2>3 DEF GetDeleting
    <3>3. T \in SUBSET Nodes /\ T \subseteq Attached(seen.spec)
      BY <3>1, <3>2
    <3>4. w' \in Passes /\ w'.pc = "finRollback" /\ w'.plan = seen.spec /\ w'.todo = T /\ w'.svc = seen
      BY <2>1, <3>1, <3>2, <3>3
    <3>. QED  BY <3>1, <3>3, <3>4
  <2>4. CASE GetBare
    BY <2>1, <2>4 DEF GetBare
  <2>5. CASE GetRefused
    <3>1. <<"Gate", 0>> \in Refusals
      BY DEF Refusals
    <3>. QED  BY <2>1, <2>5, <3>1 DEF GetRefused, Getting
  <2>6. CASE GetReuse
    <3>1. seen.st.alloc \in SUBSET Nodes
      BY <2>1 DEF Objects, Statuses
    <3>. QED  BY <2>1, <2>6, <3>1 DEF GetReuse, Getting
  <2>7. CASE GetAllocate
    BY <2>1, <2>7 DEF GetAllocate, Getting
  <2>. QED  BY <1>4, <2>3, <2>4, <2>5, <2>6, <2>7 DEF Get
<1>. QED  BY <1>2, <1>3, <1>4

\* The claim that Allocate works on is one of the service's.
LEMMA ThisClaimTyped ==
    ASSUME TInv, Allocating
    PROVE  ThisClaim \in AllClaims
<1>1. CASE w.pc = "allocId"
  BY <1>1 DEF ThisClaim, AllClaims
<1>2. CASE w.pc = "allocPrefix" /\ w.todo # {}
  <2>1. w.svc.spec \in AllSpecs /\ w.todo \subseteq Attached(w.svc.spec)
    BY <1>2 DEF TInv, PassOK
  <2>2. Min(w.todo) \in Attached(w.svc.spec) /\ Min(w.todo) \in Nodes
    BY <1>2, <2>1, SpecParts, MinIn, FabricPlanAssumption
  <2>3. w.svc.spec.port[Min(w.todo)] \in Ports
    BY <2>1, <2>2, SpecParts
  <2>. QED  BY <1>2, <2>2, <2>3 DEF ThisClaim, PrefixClaim, AllClaims
<1>. QED  BY <1>1, <1>2 DEF Allocating

\* The finalizer, the claims and their release.
LEMMA IdentifyTyped ==
    ASSUME TInv, Identify
    PROVE  TInv'
<1>. USE DEF Counted, Smooth, Mishap, Return
<1>0. /\ w \in Passes /\ obj \in Objects /\ timer \in BOOLEAN
      /\ claims \subseteq AllClaims
      /\ w.pc # "idle" => w.svc.spec \in AllSpecs /\ Attached(w.svc.spec) \in SUBSET Nodes
  BY SpecParts DEF TInv, ApiType, SiteType, PassOK
<1>r. <<"PoolExhausted", 0>> \in Refusals
  BY DEF Refusals
<1>1. CASE AddFinalizer
  <2>1. PICK o : o = [obj EXCEPT !.fin = TRUE]
    OBVIOUS
  <2>2. /\ o \in Objects /\ o.here = obj.here /\ o.spec = obj.spec /\ o.gen = obj.gen
        /\ o.deleting = obj.deleting
    BY <1>0, <2>1 DEF Objects
  <2>3. Store(o, "self") /\ timer' \in BOOLEAN /\ w' = Idle
    BY <1>0, <1>1, <2>1 DEF AddFinalizer
  <2>4. ApiType'
    BY <2>2, <2>3, StoreTyped DEF TInv, ApiType
  <2>5. SiteType'
    BY <1>1 DEF AddFinalizer, TInv, SiteType, site
  <2>. QED  BY <2>3, <2>4, <2>5, IdleOK DEF TInv
<1>2. CASE AddFinalizerFails
  <2>1. Aside /\ w' = Idle
    BY <1>0, <1>2 DEF AddFinalizerFails, ApiFails, Aside
  <2>. QED  BY <2>1, AsideTyped, IdleOK
<1>3. CASE ClaimOK
  <2>1. Aside
    BY <1>0, <1>3, ThisClaimTyped DEF ClaimOK, Aside
  <2>2. PassOK(w')
    BY <1>0, <1>3 DEF ClaimOK, Allocating, TInv, PassOK, Passes, Steps, Planned, Updating, Applying,
                      RollingBack, Verifying
  <2>. QED  BY <2>1, <2>2, AsideTyped
<1>4. CASE ClaimFails
  <2>1. Aside /\ w' = Idle
    BY <1>0, <1>4, ThisClaimTyped DEF ClaimFails, Aside
  <2>. QED  BY <2>1, AsideTyped, IdleOK
<1>5. CASE ClaimExhausted
  <2>1. Aside
    BY <1>0, <1>5 DEF ClaimExhausted, Aside
  <2>2. PassOK(w')
    BY <1>0, <1>r, <1>5 DEF ClaimExhausted, Allocating, TInv, PassOK, Passes, Steps, Planned, Updating,
                           Applying, RollingBack, Verifying, Releasing
  <2>. QED  BY <2>1, <2>2, AsideTyped
<1>6. CASE ClaimsDone
  <2>1. Aside
    BY <1>0, <1>6 DEF ClaimsDone, Aside
  <2>2. PassOK(w')
    BY <1>0, <1>6 DEF ClaimsDone, TInv, PassOK, Passes, Steps, Planned, Updating, Applying,
                      RollingBack, Verifying
  <2>. QED  BY <2>1, <2>2, AsideTyped
<1>7. CASE ReleaseOK \/ ReleaseFails
  <2>1. Aside
    BY <1>0, <1>7 DEF ReleaseOK, ReleaseFails, Aside
  <2>2. PICK pc \in {"refuse", "finDrop", "finNote"} : w' = [w EXCEPT !.pc = pc]
    BY <1>7 DEF ReleaseOK, ReleaseFails, AfterRelease
  <2>3. w.pc # "idle"
    BY <1>7 DEF ReleaseOK, ReleaseFails, Releasing
  <2>4. PassOK(w')
    BY <1>0, <2>2, <2>3 DEF PassOK, Passes, Steps, Planned, Updating, Applying, RollingBack, Verifying
  <2>. QED  BY <2>1, <2>4, AsideTyped
<1>. QED  BY <1>1, <1>2, <1>3, <1>4, <1>5, <1>6, <1>7 DEF Identify

-----------------------------------------------------------------------------
(* The walks *)

\* Where a walk stands: its plan is a spec, and the next node one of it.
LEMMA WalkAt ==
    ASSUME TInv, w.pc \in Applying \cup RollingBack, w.todo # {}
    PROVE  /\ Target \in AllSpecs
           /\ Min(w.todo) \in Attached(Target) /\ Min(w.todo) \in Nodes
           /\ Min(w.todo) \in w.todo
<1>1. Target \in AllSpecs
  BY DEF TInv, PassOK, Target, Planned, Updating
<1>2. w.todo \subseteq Attached(Target)
  BY DEF TInv, PassOK, Target, TargetOf
<1>3. Attached(Target) \in SUBSET Nodes
  BY <1>1, SpecParts
<1>4. Min(w.todo) \in w.todo
  BY <1>2, <1>3, MinIn, FabricPlanAssumption
<1>. QED  BY <1>1, <1>2, <1>3, <1>4

\* The same for a verification.
LEMMA VerifyAt ==
    ASSUME TInv, w.todo # {}
    PROVE  Min(w.todo) \in w.todo /\ Min(w.todo) \in Nodes
<1>1. w.todo \in SUBSET Nodes
  BY DEF TInv, PassOK, Passes
<1>. QED  BY <1>1, MinIn, FabricPlanAssumption

\* A step of a walk changes one node's items.
DeviceStep ==
    /\ UNCHANGED <<api, timer, claims, site>>
    /\ Counted
    /\ dev' \in [Nodes -> SUBSET Items]

\* So is a step that also writes a device.
LEMMA DeviceStepTyped ==
    ASSUME TInv, DeviceStep, PassOK(w')
    PROVE  TInv'
<1>1. ApiType'
  BY DEF TInv, ApiType, DeviceStep, api
<1>2. SiteType'
  BY CountedTyped DEF TInv, SiteType, DeviceStep, site
<1>. QED  BY <1>1, <1>2 DEF TInv

\* A walk over a plan begins.
LEMMA WalkTyped ==
    ASSUME TInv, w.pc # "idle", NEW s \in AllSpecs, NEW ref \in Refusals, NEW pc \in Planned,
           w.plan \in AllSpecs,
           pc \in Updating => w.svc.st.applied \in AllSpecs,
           pc \in Applying \cup RollingBack =>
               s = IF pc \in {"remove", "undo", "restore"} THEN w.svc.st.applied ELSE w.plan
    PROVE  PassOK(Walk(pc, s)) /\ PassOK([Walk(pc, s) EXCEPT !.ref = ref])
<1>1. Attached(s) \in SUBSET Nodes /\ w \in Passes /\ w.svc.spec \in AllSpecs
  BY SpecParts DEF TInv, PassOK
<1>2. pc \in Steps /\ pc # "allocPrefix"
  BY DEF Steps, Planned, Applying, RollingBack, Verifying
<1>. DEFINE x == Walk(pc, s)
            y == [x EXCEPT !.ref = ref]
<1>3. /\ x \in Passes /\ x.pc = pc /\ x.todo = Attached(s) /\ x.plan = w.plan /\ x.svc = w.svc
      /\ y \in Passes /\ y.pc = pc /\ y.todo = Attached(s) /\ y.plan = w.plan /\ y.svc = w.svc
  BY <1>1, <1>2 DEF Walk, Passes
<1>. HIDE DEF x, y
<1>4. PassOK(x)
  BY <1>1, <1>2, <1>3 DEF PassOK, TargetOf
<1>5. PassOK(y)
  BY <1>1, <1>2, <1>3 DEF PassOK, TargetOf
<1>. QED  BY <1>4, <1>5 DEF x, y

\* The walks over the nodes of a plan.
LEMMA ApplyTypes ==
    ASSUME TInv, ApplyOK \/ ApplyFails \/ ApplyDone
    PROVE  TInv'
<1>. USE DEF Counted, Smooth, Mishap
<1>0. /\ w \in Passes /\ timer \in BOOLEAN /\ claims \subseteq AllClaims
      /\ dev \in [Nodes -> SUBSET Items]
      /\ w.pc \in Applying /\ w.pc # "idle" /\ w.plan \in AllSpecs
      /\ w.pc \in Updating => w.svc.st.applied \in AllSpecs
  BY DEF TInv, ApiType, SiteType, PassOK, ApplyOK, ApplyFails, ApplyDone, Planned, Applying
<1>1. CASE ApplyOK
  <2>1. w.todo # {} /\ w.pc \in Applying
    BY <1>1 DEF ApplyOK
  <2>. DEFINE n == Min(w.todo)
              ops == Ops(Target, n)
  <2>2. n \in Nodes /\ n \in w.todo /\ ops \in Seq(Items)
    BY <2>1, WalkAt, OpsTyped
  <2>3. ApplyOps(dev[n], ops, Len(ops)) \in SUBSET Items
    BY <1>0, <2>2, ApplyTyped
  <2>4. dev' = [dev EXCEPT ![n] = ApplyOps(@, ops, Len(ops))] /\ w' = [w EXCEPT !.todo = @ \ {n}]
    BY <1>1 DEF ApplyOK
  <2>5. UNCHANGED <<api, timer, claims, site, mishaps>>
    BY <1>1 DEF ApplyOK
  <2>. HIDE DEF n, ops
  <2>6. DeviceStep
    BY <1>0, <2>2, <2>3, <2>4, <2>5 DEF DeviceStep
  <2>7. PassOK(w')
    BY <1>0, <2>4 DEF TInv, PassOK, Passes, TargetOf
  <2>. QED  BY <2>6, <2>7, DeviceStepTyped
<1>2. CASE ApplyFails
  <2>1. w.todo # {} /\ w.pc \in Applying
    BY <1>2 DEF ApplyFails
  <2>. DEFINE n == Min(w.todo)
              ops == Ops(Target, n)
  <2>2. n \in Nodes /\ n \in w.todo /\ ops \in Seq(Items)
    BY <2>1, WalkAt, OpsTyped
  <2>3. \A k \in 0..Len(ops) : ApplyOps(dev[n], ops, k) \in SUBSET Items
    BY <1>0, <2>2, ApplyTyped
  <2>4. /\ \/ dev' = dev /\ Counted
           \/ \E k \in 0..Len(ops) : Counted /\ dev' = [dev EXCEPT ![n] = ApplyOps(@, ops, k)]
        /\ UNCHANGED <<api, timer, claims, site>>
    BY <1>2 DEF ApplyFails
  <2>5. DeviceStep
    <3>. HIDE DEF n, ops, Counted
    <3>. QED  BY <1>0, <2>2, <2>3, <2>4 DEF DeviceStep
  <2>6. <<"ApplyFailed", n>> \in Refusals
    BY <2>2 DEF Refusals
  <2>7. PassOK(w')
    <3>1. CASE w.pc = "first"
      <4>1. w' = [Walk("firstRb", w.plan) EXCEPT !.ref = <<"ApplyFailed", n>>]
        BY <1>2, <3>1 DEF ApplyFails
      <4>2. "firstRb" \in Planned \ Updating
        BY DEF Planned, Updating, RollingBack
      <4>. HIDE DEF n
      <4>. QED  BY <1>0, <2>6, <4>1, <4>2, WalkTyped
    <3>2. CASE w.pc = "new"
      <4>1. w' = [Walk("undo", w.svc.st.applied) EXCEPT !.ref = <<"ApplyFailed", n>>]
        BY <1>2, <3>2 DEF ApplyFails
      <4>2. "undo" \in Planned /\ w.svc.st.applied \in AllSpecs
        BY <1>0, <3>2 DEF Planned, Updating, RollingBack
      <4>. HIDE DEF n
      <4>. QED  BY <1>0, <2>6, <4>1, <4>2, WalkTyped
    <3>3. CASE w.pc = "repair"
      <4>1. w' = [Walk("repairRb", w.plan) EXCEPT !.ref = <<"ApplyFailed", n>>]
        BY <1>2, <3>3 DEF ApplyFails
      <4>2. "repairRb" \in Planned \ Updating
        BY DEF Planned, Updating, RollingBack
      <4>. HIDE DEF n
      <4>. QED  BY <1>0, <2>6, <4>1, <4>2, WalkTyped
    <3>4. CASE w.pc = "restore"
      <4>1. w' = [w EXCEPT !.pc = "refuse"]
        BY <1>2, <3>4 DEF ApplyFails
      <4>. QED
        BY <1>0, <4>1 DEF TInv, PassOK, Passes, Steps, Planned, Updating, Applying, RollingBack, Verifying
    <3>. QED  BY <1>0, <3>1, <3>2, <3>3, <3>4 DEF Applying
  <2>. QED  BY <2>5, <2>7, DeviceStepTyped
<1>3. CASE ApplyDone
  <2>1. Aside
    BY <1>0, <1>3 DEF ApplyDone, Aside
  <2>2. PassOK(w')
    <3>1. CASE w.pc # "restore"
      <4>1. PICK pc \in Verifying : w' = Walk(pc, w.plan)
        BY <1>0, <1>3, <3>1 DEF ApplyDone, Applying, Verifying
      <4>2. pc \in Planned /\ pc \notin Updating \cup Applying \cup RollingBack /\ NoRefusal \in Refusals
        BY NoneTyped DEF Planned, Updating, Applying, RollingBack, Verifying
      <4>. QED  BY <1>0, <4>1, <4>2, WalkTyped
    <3>2. CASE w.pc = "restore"
      <4>1. w' = [w EXCEPT !.pc = "refuse"]
        BY <1>3, <3>2 DEF ApplyDone
      <4>. QED
        BY <1>0, <4>1 DEF TInv, PassOK, Passes, Steps, Planned, Updating, Applying, RollingBack, Verifying
    <3>. QED  BY <3>1, <3>2
  <2>. QED  BY <2>1, <2>2, AsideTyped
<1>. QED  BY <1>1, <1>2, <1>3

\* The rollback walks.
LEMMA RollbackTypes ==
    ASSUME TInv, RollbackAnswered \/ RollbackFails \/ RollbackDone
    PROVE  TInv'
<1>. USE DEF Counted, Smooth, Mishap
<1>0. /\ w \in Passes /\ timer \in BOOLEAN /\ claims \subseteq AllClaims
      /\ dev \in [Nodes -> SUBSET Items]
      /\ w.pc \in RollingBack /\ w.pc # "idle" /\ w.plan \in AllSpecs
      /\ w.pc \in Updating => w.svc.st.applied \in AllSpecs
      /\ w.svc.spec \in AllSpecs
  BY DEF TInv, ApiType, SiteType, PassOK, RollbackAnswered, RollbackFails, RollbackDone, Planned,
         RollingBack
<1>. DEFINE n == Min(w.todo)
<1>1. w.todo # {} => n \in Nodes /\ n \in w.todo
  BY <1>0, WalkAt
<1>2. ASSUME NEW k, n \in Nodes
      PROVE  RollbackOps(Target, n, dev[n], k) \in SUBSET Items
  <2>1. RollbackOps(Target, n, dev[n], k) \subseteq dev[n]
    BY RollbackTakes
  <2>. QED  BY <1>0, <1>2, <2>1
<1>3. ASSUME NEW d \in BOOLEAN, w' = [w EXCEPT !.todo = @ \ {n}, !.dirty = d]
      PROVE  PassOK(w')
  BY <1>0, <1>3 DEF TInv, PassOK, Passes, TargetOf
<1>4. CASE RollbackAnswered
  <2>1. /\ UNCHANGED <<api, timer, claims, site>> /\ Counted /\ w.todo # {}
        /\ dev' = dev \/ \E k : dev' = [dev EXCEPT ![n] = RollbackOps(Target, n, @, k)]
        /\ w' = [w EXCEPT !.todo = @ \ {n}]
    BY <1>4 DEF RollbackAnswered
  <2>2. w' = [w EXCEPT !.todo = @ \ {n}, !.dirty = w.dirty] /\ w.dirty \in BOOLEAN
    BY <1>0, <2>1 DEF Passes
  <2>. HIDE DEF n, Counted
  <2>3. DeviceStep
    BY <1>0, <1>1, <1>2, <2>1 DEF DeviceStep
  <2>4. PassOK(w')
    BY <1>3, <2>2
  <2>. QED  BY <2>3, <2>4, DeviceStepTyped
<1>5. CASE RollbackFails
  <2>1. /\ UNCHANGED <<api, timer, claims, site>> /\ Counted /\ w.todo # {}
        /\ \E k : dev' = [dev EXCEPT ![n] = IF n \in broken THEN @ ELSE RollbackOps(Target, n, @, k)]
    BY <1>5 DEF RollbackFails
  <2>2. DeviceStep
    <3>. HIDE DEF n, Counted
    <3>1. PICK k : dev' = [dev EXCEPT ![n] = IF n \in broken THEN @ ELSE RollbackOps(Target, n, @, k)]
      BY <2>1
    <3>2. n \in Nodes /\ RollbackOps(Target, n, dev[n], k) \in SUBSET Items
      BY <1>1, <1>2, <2>1
    <3>. QED  BY <1>0, <2>1, <3>1, <3>2 DEF DeviceStep
  <2>3. PassOK(w')
    <3>1. CASE w.pc = "remove"
      <4>1. w' = [w EXCEPT !.pc = "refuse", !.ref = <<"ApplyFailed", n>>]
        BY <1>5, <3>1 DEF RollbackFails
      <4>2. <<"ApplyFailed", n>> \in Refusals
        BY <1>1, <2>1 DEF Refusals
      <4>. HIDE DEF n
      <4>. QED
        BY <1>0, <4>1, <4>2 DEF PassOK, Passes, Steps, Planned, Updating, Applying, RollingBack, Verifying
    <3>2. CASE w.pc # "remove"
      <4>1. PICK d \in BOOLEAN : w' = [w EXCEPT !.todo = @ \ {n}, !.dirty = d]
        BY <1>0, <1>5, <3>2 DEF RollbackFails, Passes
      <4>. HIDE DEF n
      <4>. QED  BY <1>3, <4>1
    <3>. QED  BY <3>1, <3>2
  <2>. QED  BY <2>2, <2>3, DeviceStepTyped
<1>6. CASE RollbackDone
  <2>1. Aside
    BY <1>0, <1>6 DEF RollbackDone, Aside
  <2>2. PassOK(w')
    <3>1. CASE w.pc = "undo"
      <4>1. w' = Walk("restore", w.svc.st.applied) /\ w.svc.st.applied \in AllSpecs
        BY <1>0, <1>6, <3>1 DEF RollbackDone, Updating
      <4>2. "restore" \in Planned /\ NoRefusal \in Refusals
        BY NoneTyped DEF Planned, Applying
      <4>. QED  BY <1>0, <4>1, <4>2, WalkTyped
    <3>2. CASE w.pc = "remove"
      <4>1. w' = Walk("new", w.plan) /\ w.svc.st.applied \in AllSpecs
        BY <1>0, <1>6, <3>2 DEF RollbackDone, Updating
      <4>2. "new" \in Planned /\ NoRefusal \in Refusals
        BY NoneTyped DEF Planned, Applying
      <4>. QED  BY <1>0, <4>1, <4>2, WalkTyped
    <3>3. CASE w.pc \notin {"undo", "remove"}
      <4>1. PICK pc \in {"firstRelease", "refuse", "finNote", "finRelease"} : w' = [w EXCEPT !.pc = pc]
        BY <1>0, <1>6, <3>3 DEF RollbackDone, RollingBack
      <4>. QED
        BY <1>0, <4>1 DEF PassOK, Passes, Steps, Planned, Updating, Applying, RollingBack, Verifying,
                          Releasing
    <3>. QED  BY <3>1, <3>2, <3>3
  <2>. QED  BY <2>1, <2>2, AsideTyped
<1>. QED  BY <1>4, <1>5, <1>6

\* A verification leaves its result in the pass's copy of status.nodes.
LEMMA NotedOK ==
    ASSUME PassOK(w), w.svc.spec \in AllSpecs, w.plan \in AllSpecs,
           NEW vref \in Refusals, NEW ref \in Refusals,
           NEW pc \in {"path", "refuse", "recordNew", "probe"},
           w' = [w EXCEPT !.pc = pc, !.vref = vref, !.ref = ref, !.svc.st.nodes = TRUE]
    PROVE  PassOK(w')
<1>. DEFINE st == [w.svc.st EXCEPT !.nodes = TRUE]
            svc == [w.svc EXCEPT !.st = st]
<1>1. w \in Passes /\ w.svc \in Objects /\ w.svc.st \in Statuses
  BY DEF PassOK, Passes, Objects
<1>2. st \in Statuses
  BY <1>1 DEF Statuses
<1>3. svc \in Objects /\ svc.spec = w.svc.spec
  BY <1>1, <1>2 DEF Objects
<1>4. w' = [w EXCEPT !.pc = pc, !.vref = vref, !.ref = ref, !.svc = svc]
  BY <1>1 DEF Passes, Objects
<1>5. pc \in Steps /\ pc \notin Updating \cup Applying \cup RollingBack /\ pc # "allocPrefix"
  BY DEF Steps, Updating, Applying, RollingBack
<1>. HIDE DEF svc
<1>6. w' \in Passes /\ w'.pc = pc /\ w'.svc = svc /\ w'.plan = w.plan
  BY <1>1, <1>3, <1>4, <1>5 DEF Passes
<1>. QED  BY <1>3, <1>5, <1>6 DEF PassOK

\* The plan is compared with what is recorded; the checks of its nodes.
LEMMA DecideTypes ==
    ASSUME TInv, PlanFirst \/ PlanUpdate \/ PlanSame \/ VerifyOK \/ VerifyFails \/ VerifyDone
    PROVE  TInv'
<1>. USE DEF Counted, Smooth, Mishap
<1>0. /\ w \in Passes /\ timer \in BOOLEAN /\ claims \subseteq AllClaims
      /\ w.pc \in Verifying \cup {"plan"} /\ w.pc # "idle" /\ w.plan \in AllSpecs
      /\ w.svc.spec \in AllSpecs
      /\ w.svc.st.applied \in AllSpecs \cup {None}
      /\ NoRefusal \in Refusals
  BY NoneTyped DEF TInv, ApiType, SiteType, PassOK, PlanFirst, PlanUpdate, PlanSame, VerifyOK,
                   VerifyFails, VerifyDone, Planned, Verifying, Passes, Objects, Statuses
<1>1. Aside
  BY <1>0 DEF PlanFirst, PlanUpdate, PlanSame, VerifyOK, VerifyFails, VerifyDone, Aside
<1>2. CASE PlanFirst
  <2>1. w' = Walk("first", w.plan)
    BY <1>2 DEF PlanFirst
  <2>2. "first" \in Planned \ Updating
    BY DEF Planned, Updating, Applying
  <2>3. PassOK(w')
    BY <1>0, <2>1, <2>2, WalkTyped
  <2>. QED  BY <1>1, <2>3, AsideTyped
<1>3. CASE PlanUpdate
  <2>1. w.svc.st.applied \in AllSpecs
    BY <1>0, <1>3 DEF PlanUpdate
  <2>2. LostNodes(w.svc.st.applied, w.plan) \subseteq Attached(w.svc.st.applied)
    BY DEF LostNodes
  <2>3. Attached(w.svc.st.applied) \in SUBSET Nodes
    BY <2>1, SpecParts
  <2>4. <<"ApplyFailed", 0>> \in Refusals
    BY DEF Refusals
  <2>5. PassOK(w')
    <3>1. CASE w' = [w EXCEPT !.pc = "remove", !.todo = LostNodes(w.svc.st.applied, w.plan)]
      BY <1>0, <2>1, <2>2, <2>3, <3>1
         DEF PassOK, Passes, Steps, Planned, Updating, Applying, RollingBack, Verifying, TargetOf
    <3>2. CASE w' = [w EXCEPT !.pc = "refuse", !.ref = <<"ApplyFailed", 0>>]
      BY <1>0, <2>4, <3>2 DEF PassOK, Passes, Steps, Planned, Updating, Applying, RollingBack, Verifying
    <3>. QED  BY <1>3, <3>1, <3>2 DEF PlanUpdate
  <2>. QED  BY <1>1, <2>5, AsideTyped
<1>4. CASE PlanSame
  <2>1. w' = [Walk("verify", w.plan) EXCEPT !.same = TRUE]
    BY <1>4 DEF PlanSame
  <2>2. Attached(w.plan) \in SUBSET Nodes
    BY <1>0, SpecParts
  <2>3. PassOK(w')
    BY <1>0, <2>1, <2>2 DEF Walk, PassOK, Passes, Steps, Planned, Updating, Applying, RollingBack, Verifying
  <2>. QED  BY <1>1, <2>3, AsideTyped
<1>5. CASE VerifyOK
  <2>1. PassOK(w')
    BY <1>0, <1>5 DEF VerifyOK, PassOK, Passes, Planned, Updating, Applying, RollingBack, Verifying
  <2>. QED  BY <1>1, <2>1, AsideTyped
<1>6. CASE VerifyFails
  <2>1. PICK ref \in {<<"LocatorMissing", Min(w.todo)>>, <<"CheckFailed", Min(w.todo)>>} :
             w' = [w EXCEPT !.pc = IF w.pc = "verify" THEN "path" ELSE "refuse",
                            !.vref = ref, !.ref = ref, !.svc.st.nodes = TRUE]
    BY <1>6 DEF VerifyFails
  <2>2. ref \in Refusals
    <3>1. Min(w.todo) \in Nodes
      BY <1>6, VerifyAt DEF VerifyFails
    <3>2. \A n \in Nodes : <<"LocatorMissing", n>> \in Refusals /\ <<"CheckFailed", n>> \in Refusals
      BY DEF Refusals
    <3>. QED  BY <2>1, <3>1, <3>2
  <2>3. PICK pc \in {"path", "refuse"} :
             w' = [w EXCEPT !.pc = pc, !.vref = ref, !.ref = ref, !.svc.st.nodes = TRUE]
    BY <2>1
  <2>4. PassOK(w')
    BY <1>0, <2>2, <2>3, NotedOK DEF TInv
  <2>. QED  BY <1>1, <2>4, AsideTyped
<1>7. CASE VerifyDone
  <2>1. PICK pc \in {"path", "recordNew", "probe"} :
             w' = [w EXCEPT !.pc = pc, !.vref = NoRefusal, !.ref = NoRefusal, !.svc.st.nodes = TRUE]
    BY <1>0, <1>7 DEF VerifyDone, Verifying
  <2>2. PassOK(w')
    BY <1>0, <2>1, NotedOK DEF TInv
  <2>. QED  BY <1>1, <2>2, AsideTyped
<1>. QED  BY <1>2, <1>3, <1>4, <1>5, <1>6, <1>7

-----------------------------------------------------------------------------
(* Path, drift, data path, status *)

\* The conditions and statuses that the controller writes.
LEMMA WrittenTyped ==
    ASSUME PassOK(w)
    PROVE  /\ \A ref \in Refusals, r \in BOOLEAN :
                 [w.svc.st EXCEPT !.cond = Condition(r, ref)] \in Statuses
           /\ \A act \in Spines \cup {None}, p \in BOOLEAN :
                 /\ ReadyOutcome(act, p) \in Statuses
                 /\ ReadyOutcome(act, p).applied = w.svc.spec
<1>1. w.svc.gen \in 0..(MaxGen + 1) /\ w.svc.st \in Statuses /\ w.plan \in AllSpecs \cup {None}
      /\ w.svc.spec \in AllSpecs \cup {None} /\ w.ids \in SUBSET Nodes
  BY DEF PassOK, Passes, Objects
<1>2. <<"Verified", 0>> \in Refusals
  BY DEF Refusals
<1>. QED  BY <1>1, <1>2 DEF Condition, ReadyOutcome, Statuses

\* The path is judged or refused; the probe; requests that fail.
LEMMA JudgeTypes ==
    ASSUME TInv,
           \/ PathUnsteered \/ PathServed \/ PathDown \/ PathUnread \/ DriftUnnoted
           \/ ProbePassed \/ ProbeFailed \/ ProbeUnanswered
           \/ RecordNewFails \/ RecordFails \/ RefuseFails \/ FinalizeDropFails
    PROVE  TInv'
<1>. USE DEF Counted, Smooth, Mishap, ApiFails, Return
<1>0. /\ w \in Passes /\ timer \in BOOLEAN /\ claims \subseteq AllClaims
      /\ w.pc # "idle" /\ w.svc.spec \in AllSpecs /\ w.svc.st \in Statuses /\ w.vref \in Refusals
      /\ w.ref \in Refusals /\ PassOK(w)
      /\ NoRefusal \in Refusals
  BY NoneTyped DEF TInv, ApiType, SiteType, PassOK, Passes, Objects, PathUnsteered, PathServed,
         PathDown, PathUnread, DriftUnnoted, ProbePassed, ProbeFailed, ProbeUnanswered, RecordNewFails,
         RecordFails, RefuseFails, FinalizeDropFails
<1>1. Aside
  BY <1>0 DEF PathUnsteered, PathServed, PathDown, PathUnread, DriftUnnoted, ProbePassed, ProbeFailed,
              ProbeUnanswered, RecordNewFails, RecordFails, RefuseFails, FinalizeDropFails, Aside
<1>2. ASSUME NEW ref \in Refusals, NEW act \in Spines \cup {None}, w' = Judged(ref, act), w.pc = "path"
      PROVE  TInv'
  <2>1. PICK pc \in {"probe", "drift", "refuse"} : w' = [w EXCEPT !.pc = pc, !.ref = ref, !.active = act]
    BY <1>2 DEF Judged
  <2>2. w.plan \in AllSpecs
    BY <1>0, <1>2 DEF PassOK, Planned
  <2>3. PassOK(w')
    BY <1>0, <2>1, <2>2 DEF PassOK, Passes, Steps, Planned, Updating, Applying, RollingBack, Verifying
  <2>. QED  BY <1>1, <2>3, AsideTyped
<1>3. CASE PathUnsteered
  BY <1>0, <1>2, <1>3 DEF PathUnsteered
<1>4. CASE PathServed
  <2>1. PICK p \in Spines, ref \in {NoRefusal, w.vref} : w' = Judged(ref, p)
    BY <1>4 DEF PathServed, PinVia
  <2>. QED  BY <1>0, <1>2, <1>4, <2>1 DEF PathServed
<1>5. CASE PathDown
  <2>1. w.plan \in AllSpecs
    BY <1>0, <1>5 DEF PathDown, PassOK, Planned
  <2>2. Ingress(w.plan) \in Nodes
    BY <2>1, IngressIn, SpecParts
  <2>3. <<"PathDown", Ingress(w.plan)>> \in Refusals
    BY <2>2 DEF Refusals
  <2>4. w' = [w EXCEPT !.pc = "refuse", !.ref = <<"PathDown", Ingress(w.plan)>>]
    BY <1>5 DEF PathDown
  <2>5. PassOK(w')
    BY <1>0, <2>3, <2>4 DEF PassOK, Passes, Steps, Planned, Updating, Applying, RollingBack, Verifying
  <2>. QED  BY <1>1, <2>5, AsideTyped
<1>6. CASE PathUnread \/ ProbeUnanswered \/ RecordFails \/ RefuseFails \/ FinalizeDropFails
  <2>1. w' = Idle
    BY <1>6 DEF PathUnread, ProbeUnanswered, RecordFails, RefuseFails, FinalizeDropFails
  <2>. QED  BY <1>1, <2>1, IdleOK, AsideTyped
<1>7. CASE DriftUnnoted
  <2>. DEFINE st == [w.svc.st EXCEPT !.cond = Condition(FALSE, w.ref)]
              svc == [w.svc EXCEPT !.st = st]
  <2>1. st \in Statuses
    BY <1>0, WrittenTyped
  <2>2. svc \in Objects /\ svc.spec = w.svc.spec
    <3>. HIDE DEF st
    <3>. QED  BY <1>0, <2>1 DEF Passes, Objects
  <2>3. w.plan \in AllSpecs
    BY <1>0, <1>7 DEF DriftUnnoted, PassOK, Planned
  <2>4. PassOK(Walk("repair", w.plan))
    <3>1. "repair" \in Planned \ Updating
      BY DEF Planned, Updating, Applying
    <3>. QED  BY <1>0, <2>3, <3>1, WalkTyped
  <2>5. w' = [Walk("repair", w.plan) EXCEPT !.svc = svc]
    BY <1>0, <1>7 DEF DriftUnnoted, Walk, Passes, Objects
  <2>6. PassOK(w')
    <3>. HIDE DEF svc
    <3>. DEFINE x == Walk("repair", w.plan)
    <3>1. x.pc = "repair"
      BY <1>0 DEF Walk, Passes
    <3>. HIDE DEF x
    <3>. QED
      BY <1>0, <2>2, <2>4, <2>5, <3>1 DEF x, PassOK, Passes, Updating, TargetOf
  <2>. QED  BY <1>1, <2>6, AsideTyped
<1>8. CASE ProbePassed
  <2>1. w.plan \in AllSpecs
    BY <1>0, <1>8 DEF ProbePassed, PassOK, Planned
  <2>2. PassOK(w')
    BY <1>0, <1>8, <2>1 DEF ProbePassed, PassOK, Passes, Steps, Planned, Updating, Applying, RollingBack, Verifying
  <2>. QED  BY <1>1, <2>2, AsideTyped
<1>9. CASE ProbeFailed
  <2>1. <<"DataPathFailed", 0>> \in Refusals
    BY DEF Refusals
  <2>2. PassOK(w')
    BY <1>0, <1>9, <2>1 DEF ProbeFailed, PassOK, Passes, Steps, Planned, Updating, Applying, RollingBack, Verifying
  <2>. QED  BY <1>1, <2>2, AsideTyped
<1>10. CASE RecordNewFails
  <2>. DEFINE st == ReadyOutcome(w.svc.st.active, w.svc.st.probed)
              svc == [w.svc EXCEPT !.st = st]
  <2>1. st \in Statuses
    <3>1. w.svc.st.active \in Spines \cup {None} /\ w.svc.st.probed \in BOOLEAN
      BY <1>0 DEF Statuses
    <3>. QED  BY <1>0, <3>1, WrittenTyped
  <2>2. svc \in Objects /\ svc.spec = w.svc.spec
    <3>. HIDE DEF st
    <3>. QED  BY <1>0, <2>1 DEF Passes, Objects
  <2>3. <<"ApplyFailed", 0>> \in Refusals
    BY DEF Refusals
  <2>4. w' = [w EXCEPT !.pc = "refuse", !.ref = <<"ApplyFailed", 0>>, !.svc = svc]
    <3>. HIDE DEF st
    <3>1. w' = [w EXCEPT !.pc = "refuse", !.ref = <<"ApplyFailed", 0>>, !.svc.st = st]
      BY <1>10 DEF RecordNewFails, st
    <3>. QED  BY <1>0, <3>1 DEF Passes, Objects
  <2>5. PassOK(w')
    <3>. HIDE DEF svc
    <3>. QED
      BY <1>0, <2>2, <2>3, <2>4 DEF PassOK, Passes, Steps, Planned, Updating, Applying, RollingBack, Verifying
  <2>. QED  BY <1>1, <2>5, AsideTyped
<1>. QED  BY <1>3, <1>4, <1>5, <1>6, <1>7, <1>8, <1>9, <1>10

\* A pass goes on with the copy that the answer to a patch refreshed.
LEMMA WalkAgain ==
    ASSUME PassOK(w), w.plan \in AllSpecs,
           NEW pc \in {"repair", "verify"}, NEW svc \in Objects, svc.spec \in AllSpecs
    PROVE  PassOK([Walk(pc, w.plan) EXCEPT !.svc = svc])
<1>1. pc \in Planned \ Updating /\ pc \in Steps
  BY DEF Planned, Updating, Applying, Verifying, Steps
<1>2. w \in Passes /\ Attached(w.plan) \in SUBSET Nodes
  BY SpecParts DEF PassOK
<1>. DEFINE x == [Walk(pc, w.plan) EXCEPT !.svc = svc]
<1>3. /\ x \in Passes /\ x.pc = pc /\ x.svc = svc /\ x.plan = w.plan
      /\ x.todo = Attached(w.plan)
  BY <1>1, <1>2 DEF Walk, Passes
<1>4. TargetOf(x) = w.plan
  BY <1>3 DEF TargetOf
<1>5. PassOK(x)
  <2>. HIDE DEF x
  <2>. QED  BY <1>1, <1>3, <1>4 DEF PassOK
<1>. QED  BY <1>5

\* The steps of a pass that write to the object.
LEMMA WriteTypes ==
    ASSUME TInv, DriftNoted \/ RecordNew \/ Record \/ Refuse \/ FinalizeNote \/ FinalizeDrop
    PROVE  TInv'
<1>. USE DEF Counted, Smooth, Mishap, ApiFails, Return
<1>0. /\ w \in Passes /\ obj \in Objects /\ timer \in BOOLEAN /\ w.pc # "idle"
      /\ w.svc \in Objects /\ w.svc.spec \in AllSpecs /\ w.svc.st \in Statuses
      /\ w.ref \in Refusals /\ PassOK(w)
      /\ obj.here => obj.spec \in AllSpecs
      /\ ~obj.deleting => obj.gen <= MaxGen
  BY DEF TInv, ApiType, PassOK, Passes, Objects, DriftNoted, RecordNew, Record, Refuse, FinalizeNote,
         FinalizeDrop
<1>1. Counted /\ UNCHANGED <<claims, dev, site>> /\ timer' \in BOOLEAN
  BY <1>0 DEF DriftNoted, RecordNew, Record, Refuse, FinalizeNote, FinalizeDrop
<1>2. SiteType'
  BY <1>1, CountedTyped DEF TInv, SiteType, site
<1>3. ASSUME NEW new \in Statuses, Store(Patched(new), "self") PROVE ApiType'
  <2>1. /\ Patched(new) \in Objects /\ Patched(new).spec = obj.spec /\ Patched(new).gen = obj.gen
        /\ Patched(new).here = obj.here /\ Patched(new).deleting = obj.deleting
    BY PatchedTyped
  <2>. QED  BY <1>0, <1>1, <1>3, <2>1, StoreTyped DEF TInv
<1>4. UNCHANGED api => ApiType'
  BY <1>1 DEF TInv, ApiType, api
<1>5. ASSUME NEW new \in Statuses, obj.here
      PROVE  Refreshed(Patched(new)) \in Objects /\ Refreshed(Patched(new)).spec \in AllSpecs
  BY <1>0, <1>5, PatchedTyped, RefreshedTyped
<1>6. \A ref \in Refusals : [w.svc.st EXCEPT !.cond = Condition(FALSE, ref)] \in Statuses
  BY <1>0, WrittenTyped
<1>7. \A act \in Spines \cup {None}, p \in BOOLEAN : ReadyOutcome(act, p) \in Statuses
  BY <1>0, WrittenTyped
<1>8. PassOK(Idle)
  BY IdleOK
<1>9. CASE DriftNoted
  <2>. DEFINE new == [w.svc.st EXCEPT !.cond = Condition(FALSE, w.ref)]
  <2>1. new \in Statuses
    BY <1>0, <1>6
  <2>2. /\ obj.here /\ Store(Patched(new), "self") /\ w.plan \in AllSpecs
        /\ w' = [Walk("repair", w.plan) EXCEPT !.svc = Refreshed(Patched(new))]
    BY <1>0, <1>9 DEF DriftNoted, PassOK, Planned
  <2>. HIDE DEF new
  <2>3. PassOK(w')
    BY <1>0, <1>5, <2>1, <2>2, WalkAgain
  <2>. QED  BY <1>2, <1>3, <2>1, <2>2, <2>3 DEF TInv
<1>10. CASE RecordNew
  <2>. DEFINE new == ReadyOutcome(w.svc.st.active, w.svc.st.probed)
  <2>1. new \in Statuses
    <3>1. w.svc.st.active \in Spines \cup {None} /\ w.svc.st.probed \in BOOLEAN
      BY <1>0 DEF Statuses
    <3>. QED  BY <1>7, <3>1
  <2>2. /\ obj.here /\ Store(Patched(new), "self") /\ w.plan \in AllSpecs
        /\ w' = [Walk("verify", w.plan) EXCEPT !.svc = Refreshed(Patched(new))]
    BY <1>0, <1>10 DEF RecordNew, PassOK, Planned
  <2>. HIDE DEF new
  <2>3. PassOK(w')
    BY <1>0, <1>5, <2>1, <2>2, WalkAgain
  <2>. QED  BY <1>2, <1>3, <2>1, <2>2, <2>3 DEF TInv
<1>11. CASE Record
  <2>1. ReadyOutcome(w.active, w.probed) \in Statuses
    BY <1>0, <1>7 DEF Passes
  <2>2. UNCHANGED api \/ Store(Patched(ReadyOutcome(w.active, w.probed)), "self")
    BY <1>11 DEF Record
  <2>3. w' = Idle
    BY <1>11 DEF Record
  <2>. QED  BY <1>2, <1>3, <1>4, <1>8, <2>1, <2>2, <2>3 DEF TInv
<1>12. CASE Refuse
  <2>1. Store(Patched([w.svc.st EXCEPT !.cond = Condition(FALSE, w.ref)]), "self") /\ w' = Idle
    BY <1>12 DEF Refuse
  <2>. QED  BY <1>0, <1>2, <1>3, <1>6, <1>8, <2>1 DEF TInv
<1>13. CASE FinalizeNote
  <2>1. <<"Finalizing", 0>> \in Refusals
    BY DEF Refusals
  <2>2. /\ \/ UNCHANGED api
           \/ Store(Patched([w.svc.st EXCEPT !.cond = Condition(FALSE, <<"Finalizing", 0>>)]), "self")
        /\ w' = Idle
    BY <1>13 DEF FinalizeNote
  <2>. QED  BY <1>2, <1>3, <1>4, <1>6, <1>8, <2>1, <2>2 DEF TInv
<1>14. CASE FinalizeDrop
  <2>1. Store(Gone, "self") /\ w' = Idle
    BY <1>14 DEF FinalizeDrop
  <2>2. Gone \in Objects /\ ~Gone.here /\ Gone.gen <= MaxGen
    BY NoneTyped, SRv6Assumption DEF Gone
  <2>3. ApiType'
    BY <1>1, <2>1, <2>2, StoreTyped DEF TInv
  <2>. QED  BY <1>2, <1>8, <2>1, <2>3 DEF TInv
<1>. QED  BY <1>9, <1>10, <1>11, <1>12, <1>13, <1>14

\* The operator, the informer, the devices, the nodes, the gates, a crash.
LEMMA SurroundingsType ==
    ASSUME TInv, Surroundings
    PROVE  TInv'
<1>. USE DEF Counted, Smooth, Mishap
<1>0. /\ obj \in Objects /\ timer \in BOOLEAN /\ dev \in [Nodes -> SUBSET Items]
      /\ broken \subseteq Nodes /\ claims \subseteq AllClaims /\ admitted \in BOOLEAN
      /\ obj.here => obj.spec \in AllSpecs
      /\ ~obj.deleting => obj.gen <= MaxGen
      /\ PassOK(w)
  BY DEF TInv, ApiType, SiteType
<1>1. CASE Edit
  <2>1. PICK s \in Specs : Store([obj EXCEPT !.spec = s, !.gen = @ + 1], "other") /\ obj.gen < MaxGen
    BY <1>1 DEF Edit
  <2>. DEFINE o == [obj EXCEPT !.spec = s, !.gen = @ + 1]
  <2>2. s \in AllSpecs /\ obj.gen + 1 \in 0..(MaxGen + 1) /\ obj.gen + 1 <= MaxGen
    BY <1>0, <2>1, SRv6Assumption DEF Objects
  <2>3. o \in Objects /\ o.spec = s /\ o.gen <= MaxGen
    BY <1>0, <2>2 DEF Objects
  <2>4. UNCHANGED <<timer, claims, dev, site, w>> /\ Counted
    BY <1>1 DEF Edit
  <2>. HIDE DEF o
  <2>5. Store(o, "other")
    BY <2>1 DEF o
  <2>6. ApiType'
    BY <1>0, <2>2, <2>3, <2>4, <2>5, StoreTyped DEF TInv
  <2>7. SiteType'
    BY <2>4, CountedTyped DEF TInv, SiteType, site
  <2>. QED  BY <1>0, <2>4, <2>6, <2>7 DEF TInv, PassOK, TargetOf
<1>2. CASE Delete
  <2>1. UNCHANGED <<timer, claims, dev, site, w>> /\ Counted
    BY <1>2 DEF Delete
  <2>2. PICK o : /\ Store(o, "other")
                 /\ o = Gone \/ (obj.here /\ ~obj.deleting
                                 /\ o = [obj EXCEPT !.deleting = TRUE, !.gen = @ + 1])
    BY <1>2 DEF Delete
  <2>3. /\ o \in Objects
        /\ o.here => o.spec \in AllSpecs
        /\ ~o.deleting => o.gen <= MaxGen
    <3>1. CASE o = Gone
      BY <3>1, NoneTyped, SRv6Assumption DEF Gone
    <3>2. CASE obj.here /\ ~obj.deleting /\ o = [obj EXCEPT !.deleting = TRUE, !.gen = @ + 1]
      <4>1. obj.gen + 1 \in 0..(MaxGen + 1)
        BY <1>0, <3>2, SRv6Assumption DEF Objects
      <4>. QED  BY <1>0, <3>2, <4>1 DEF Objects
    <3>. QED  BY <2>2, <3>1, <3>2
  <2>4. ApiType'
    BY <1>0, <2>1, <2>2, <2>3, StoreTyped DEF TInv
  <2>5. SiteType'
    BY <2>1, CountedTyped DEF TInv, SiteType, site
  <2>. QED  BY <1>0, <2>1, <2>4, <2>5 DEF TInv, PassOK, TargetOf
<1>3. CASE Deliver \/ TimerFires \/ Resync
  <2>1. UNCHANGED <<obj, claims, dev, site, w>> /\ Counted
    BY <1>3 DEF Deliver, TimerFires, Resync
  <2>2. queue' = "other" /\ timer' \in BOOLEAN /\ seen' \in {seen, obj}
    BY <1>0, <1>3 DEF Deliver, TimerFires, Resync
  <2>3. ApiType'
    BY <2>1, <2>2 DEF TInv, ApiType
  <2>4. SiteType'
    BY <2>1, CountedTyped DEF TInv, SiteType, site
  <2>. QED  BY <1>0, <2>1, <2>3, <2>4 DEF TInv, PassOK, TargetOf
<1>4. ASSUME UNCHANGED <<api, timer, claims, w>>, Counted,
             dev' \in [Nodes -> SUBSET Items], broken' \subseteq Nodes, admitted' \in BOOLEAN
      PROVE  TInv'
  <2>1. ApiType'
    BY <1>4 DEF TInv, ApiType, api
  <2>2. SiteType'
    BY <1>4, CountedTyped DEF TInv, SiteType
  <2>. QED  BY <1>0, <1>4, <2>1, <2>2 DEF TInv, PassOK, TargetOf
<1>5. CASE DeviceLoses
  <2>1. PICK n \in Nodes, x \in UNION {dev[m] : m \in Nodes} : dev' = [dev EXCEPT ![n] = @ \ {x}]
    BY <1>5 DEF DeviceLoses
  <2>2. dev' \in [Nodes -> SUBSET Items]
    BY <1>0, <2>1
  <2>. QED  BY <1>0, <1>4, <1>5, <2>2 DEF DeviceLoses, site
<1>6. CASE LocatorRestored
  <2>1. PICK n \in Nodes : dev' = [dev EXCEPT ![n] = @ \cup {Locator}]
    BY <1>6 DEF LocatorRestored
  <2>2. Locator \in Items
    BY DEF Items
  <2>3. dev' \in [Nodes -> SUBSET Items]
    BY <1>0, <2>1, <2>2
  <2>. QED  BY <1>0, <1>4, <1>6, <2>3 DEF LocatorRestored, site
<1>7. CASE Failover
  <2>1. PICK n \in Nodes, p \in Spines, x \in UNION {dev[m] : m \in Nodes} :
            x[1] = "pin" /\ dev' = [dev EXCEPT ![n] = (@ \ {x}) \cup {<<"pin", x[2], p>>}]
    BY <1>7 DEF Failover
  <2>2. <<"pin", x[2], p>> \in Items
    <3>1. x \in Items /\ Locator[1] # "pin"
      BY <1>0, <2>1 DEF Locator
    <3>. QED  BY <2>1, <3>1 DEF Items, Locator
  <2>3. dev' \in [Nodes -> SUBSET Items]
    BY <1>0, <2>1, <2>2
  <2>. QED  BY <1>0, <1>4, <1>7, <2>3 DEF Failover, site
<1>8. CASE NodeBreaks \/ NodeHeals \/ GateCloses \/ GateOpens
  <2>1. /\ UNCHANGED <<api, timer, claims, w>> /\ Counted /\ dev' = dev
        /\ broken' \subseteq Nodes /\ admitted' \in BOOLEAN
    BY <1>0, <1>8 DEF NodeBreaks, NodeHeals, GateCloses, GateOpens
  <2>. QED  BY <1>0, <1>4, <2>1
<1>9. CASE Crash
  <2>1. ApiType' /\ SiteType'
    BY <1>9, CountedTyped DEF Crash, TInv, ApiType, SiteType, site
  <2>. QED  BY <1>9, <2>1, IdleOK DEF Crash, TInv
<1>. QED  BY <1>1, <1>2, <1>3, <1>5, <1>6, <1>7, <1>8, <1>9 DEF Surroundings

-----------------------------------------------------------------------------
(* The theorem *)

\* The service has been submitted, nothing has been done for it.
LEMMA InitTyped == Init => TInv
<1>. SUFFICES ASSUME Init PROVE TInv
  OBVIOUS
<1>1. PICK s \in Specs : obj = Created(s)
  BY DEF Init
<1>2. s \in AllSpecs
  BY SRv6Assumption
<1>3. obj \in Objects /\ obj.spec = s /\ obj.gen <= MaxGen
  <2>1. obj \in Objects
    BY <1>1, <1>2, NoneTyped
  <2>2. obj.spec = s /\ obj.gen = 1
    BY <1>1 DEF Created, Gone
  <2>. QED  BY <2>1, <2>2, SRv6Assumption
<1>4. ApiType
  BY <1>2, <1>3 DEF Init, ApiType
<1>5. Locator \in Items
  BY DEF Items
<1>6. SiteType
  BY <1>5, SRv6Assumption DEF Init, SiteType
<1>. QED  BY <1>4, <1>6, IdleOK DEF Init, TInv

\* Every step keeps the types.
LEMMA NextTyped == TInv /\ [Next]_vars => TInv'
<1>. SUFFICES ASSUME TInv, [Next]_vars PROVE TInv'
  OBVIOUS
<1>1. CASE Get
  BY <1>1, GetTyped
<1>2. CASE Identify
  BY <1>2, IdentifyTyped
<1>3. CASE Drive
  BY <1>3, ApplyTypes, RollbackTypes, DecideTypes DEF Drive
<1>4. CASE Conclude
  BY <1>4, JudgeTypes, WriteTypes DEF Conclude
<1>5. CASE Surroundings
  BY <1>5, SurroundingsType
<1>6. CASE UNCHANGED vars
  BY <1>6 DEF vars, site, TInv, ApiType, SiteType, PassOK, TargetOf
<1>. QED  BY <1>1, <1>2, <1>3, <1>4, <1>5, <1>6 DEF Next, Work

\* The invariant of the controller.
LEMMA Typed == Spec => []TInv
BY InitTyped, NextTyped, PTL DEF Spec

\* In every reachable state the object, the pass and the devices are what the
\* code can hold: a walk visits nodes of a plan that exists, an update has a
\* previous plan to remove, the generation stays within the bound.
THEOREM TypeCorrect == Spec => []TypeOK
BY Typed, TInvTypes, PTL

=============================================================================
