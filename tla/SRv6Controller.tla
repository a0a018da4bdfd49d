--------------------------- MODULE SRv6Controller ---------------------------
(***************************************************************************)
(* controllers/srv6service: the reconcile loop of one SRv6Service.         *)
(*                                                                         *)
(* One worker runs Reconcile passes.  A pass works on the copy of the      *)
(* object it read first (refreshed by the answer to each status patch)     *)
(* and makes one request at a time: claims at the identifier authority,    *)
(* ops and checks at the executor, patches at the API server.  Between any *)
(* two requests the operator may edit or delete the service, a device may  *)
(* lose configuration, a node may stop answering, the process may crash.   *)
(*                                                                         *)
(* A pass starts when the object is queued: by a watch event (a change of  *)
(* the object, the pass's own patches included), by RequeueAfter or a      *)
(* rate-limited retry (timer), or by the informer's resync.                *)
(***************************************************************************)
EXTENDS FabricPlan

CONSTANTS
    Specs,       \* specs the operator may submit
    MaxGen,      \* bound: generation up to which the operator edits
    Deletable,   \* TRUE: the operator may delete the service
    StaleGet,    \* TRUE: Get reads an informer cache that trails the server
    Mishaps,     \* what may go wrong (see Mishap)
    MaxMishaps   \* bound: how often

ASSUME SRv6Assumption ==
    /\ Specs \subseteq AllSpecs
    /\ MaxGen \in Nat \ {0}
    /\ Deletable \in BOOLEAN
    /\ StaleGet \in BOOLEAN
    /\ MaxMishaps \in Nat
    /\ 0 \notin Nodes
    /\ None \notin AllSpecs

VARIABLES
    obj,       \* the SRv6Service in the API server
    seen,      \* the informer's copy, which Get returns
    queue,     \* "empty", or what queued the object: "self" (a patch of the
               \* controller) or "other"
    timer,     \* a RequeueAfter or a rate-limited retry is pending
    claims,    \* claims and leases carrying the correlation id
    dev,       \* device configuration per node
    broken,    \* nodes the executor cannot reach: it answers OK=false
    admitted,  \* gates 1-4 pass (site, capability, variant, conflicts)
    w,         \* the worker's pass
    mishaps    \* mishaps so far

vars == <<obj, seen, queue, timer, claims, dev, broken, admitted, w, mishaps>>
api == <<obj, seen, queue>>
site == <<broken, admitted>>

-----------------------------------------------------------------------------
(* Objects *)

\* A Refusal: its reason and the node its message names (0: none).
NoRefusal == <<"", 0>>
Refusals ==
    {"", "Gate", "PoolExhausted", "ApplyFailed", "CheckFailed", "LocatorMissing",
     "PathDown", "DataPathFailed", "Finalizing", "Verified"} \X (Nodes \cup {0})

\* refusalKind.terminal: no requeue.
Terminal(ref) == ref[1] \in {"Gate", "PoolExhausted"}

(***************************************************************************)
(* status: the Ready condition (its observedGeneration is status.          *)
(* observedGeneration too), configHashes and appliedSpec as the spec they  *)
(* stand for, the nodes allocations has a client prefix for ({}: no        *)
(* allocations), activePath, dataPath, and whether nodes[] is filled.      *)
(***************************************************************************)
NoStatus ==
    [cond |-> [ready |-> FALSE, ref |-> NoRefusal, gen |-> 0],
     hashed |-> None, applied |-> None, alloc |-> {}, active |-> None,
     probed |-> FALSE, nodes |-> FALSE]

Statuses ==
    [cond : [ready : BOOLEAN, ref : Refusals, gen : 0..(MaxGen + 1)],
     hashed : AllSpecs \cup {None}, applied : AllSpecs \cup {None},
     alloc : SUBSET Nodes, active : Spines \cup {None},
     probed : BOOLEAN, nodes : BOOLEAN]

Gone ==
    [here |-> FALSE, spec |-> None, gen |-> 0, deleting |-> FALSE,
     fin |-> FALSE, st |-> NoStatus]

Created(s) == [Gone EXCEPT !.here = TRUE, !.spec = s, !.gen = 1]

Objects ==
    [here : BOOLEAN, spec : AllSpecs \cup {None}, gen : 0..(MaxGen + 1),
     deleting : BOOLEAN, fin : BOOLEAN, st : Statuses]

\* The service id claim (or lease), and a client prefix claim per attachment.
IdClaim == <<0, 0>>
PrefixClaim(s, n) == <<n, s.port[n]>>
AllClaims == {IdClaim} \cup (Nodes \X Ports)

(***************************************************************************)
(* The pass: where it stands, its copy of the object, the plan (as its     *)
(* spec), the nodes with identifiers, whether the hashes were unchanged,   *)
(* the nodes the present walk has still to visit, the verify refusal, the  *)
(* refusal to record, the observed path, whether the probe passed, whether *)
(* a rollback was not confirmed.                                           *)
(***************************************************************************)
Applying == {"first", "new", "restore", "repair"}
RollingBack == {"firstRb", "undo", "repairRb", "remove", "finRollback"}
Verifying == {"verify", "verifyNew", "reverify"}
Releasing == {"poolRelease", "firstRelease", "finRelease"}
Steps ==
    Applying \cup RollingBack \cup Verifying \cup Releasing
        \cup {"idle", "addFin", "allocId", "allocPrefix", "plan", "recordNew",
              "path", "drift", "probe", "record", "refuse", "finNote", "finDrop"}

Idle ==
    [pc |-> "idle", svc |-> Gone, plan |-> None, ids |-> {}, same |-> FALSE,
     todo |-> {}, vref |-> NoRefusal, ref |-> NoRefusal, active |-> None,
     probed |-> FALSE, dirty |-> FALSE]

Passes ==
    [pc : Steps, svc : Objects, plan : AllSpecs \cup {None}, ids : SUBSET Nodes,
     same : BOOLEAN, todo : SUBSET Nodes, vref : Refusals, ref : Refusals,
     active : Spines \cup {None}, probed : BOOLEAN, dirty : BOOLEAN]

TypeOK ==
    /\ obj \in Objects
    /\ seen \in Objects
    /\ queue \in {"empty", "self", "other"}
    /\ timer \in BOOLEAN
    /\ claims \subseteq AllClaims
    /\ dev \in [Nodes -> SUBSET Items]
    /\ broken \subseteq Nodes
    /\ admitted \in BOOLEAN
    /\ w \in Passes
    /\ mishaps \in 0..MaxMishaps

Init ==
    /\ \E s \in Specs : obj = Created(s)
    /\ seen = obj
    /\ queue = "other"
    /\ timer = FALSE
    /\ claims = {}
    /\ dev = [n \in Nodes |-> {Locator}]
    /\ broken = {}
    /\ admitted = TRUE
    /\ w = Idle
    /\ mishaps = 0

-----------------------------------------------------------------------------
(* Writes to the object, patches, ends of passes *)

\* Mutant: every patch changes the object (a condition stamped each time).
StoreRestamped(o, by) ==
    /\ obj' = o
    /\ IF StaleGet THEN UNCHANGED <<seen, queue>>
       ELSE /\ seen' = o
            /\ queue' = IF by = "self" /\ queue = "other" THEN queue ELSE by

\* A change of the object queues it, at once or when the informer sees it.
Store(o, by) ==
    /\ obj' = o
    /\ IF StaleGet THEN UNCHANGED <<seen, queue>>
       ELSE /\ seen' = o
            /\ queue' = IF o = obj THEN queue
                        ELSE IF by = "self" /\ queue = "other" THEN queue ELSE by

\* A merge patch carries the fields in which the modified copy differs from
\* the base; the rest keep the server's value.
Patched(new) ==
    [obj EXCEPT !.st =
        [f \in DOMAIN new |-> IF new[f] # w.svc.st[f] THEN new[f] ELSE obj.st[f]]]

\* The answer is decoded into the pass's copy: a field it lacks (an empty
\* preferredSpine, nodes) keeps the copy's value.
Refreshed(o) ==
    [o EXCEPT !.spec.pref = IF @ = None THEN w.svc.spec.pref ELSE @,
              !.st.nodes = @ \/ w.svc.st.nodes]

Mishap(kind) ==
    /\ kind \in Mishaps
    /\ mishaps < MaxMishaps
    /\ mishaps' = mishaps + 1

Smooth == UNCHANGED mishaps

\* A request to the API server fails; the object may also be gone.
ApiFails == (~obj.here /\ Smooth) \/ Mishap("api")

\* Reconcile returns; `again`: with a RequeueAfter or an error.
Return(again) == w' = Idle /\ timer' = (timer \/ again)

\* Mutant: the condition is stamped with the generation to come.
ConditionAhead(ready, ref) == [ready |-> ready, ref |-> ref, gen |-> w.svc.gen + 1]

Condition(ready, ref) == [ready |-> ready, ref |-> ref, gen |-> w.svc.gen]

-----------------------------------------------------------------------------
(* Reconcile: Get, finalizer, gates, identifiers *)

Begin(pc) == [Idle EXCEPT !.pc = pc, !.svc = seen]

Dequeue ==
    /\ w.pc = "idle" /\ queue # "empty"
    /\ queue' = "empty"
    /\ UNCHANGED <<obj, seen, claims, dev, site>>
    /\ Smooth

\* Not found, or already without finalizer: nothing to do.
GetGone ==
    /\ Dequeue
    /\ ~seen.here \/ (seen.deleting /\ ~seen.fin)
    /\ Return(FALSE)

\* finalizeAllocation and BuildPlan: there is a plan to roll back only when
\* allocations are recorded and cover the attachments of the present spec.
GetDeleting ==
    /\ Dequeue
    /\ seen.here /\ seen.deleting /\ seen.fin
    /\ w' = [Begin("finRollback") EXCEPT
                !.plan = seen.spec,
                !.todo = IF seen.st.alloc # {} /\ Renders(seen.spec, seen.st.alloc)
                         THEN Attached(seen.spec) ELSE {}]
    /\ UNCHANGED timer

\* Mutant: the claims are made before the finalizer is on.
GetBareEager ==
    /\ Dequeue
    /\ seen.here /\ ~seen.deleting /\ ~seen.fin
    /\ w' = Begin("allocId")
    /\ UNCHANGED timer

GetBare ==
    /\ Dequeue
    /\ seen.here /\ ~seen.deleting /\ ~seen.fin
    /\ w' = Begin("addFin")
    /\ UNCHANGED timer

Getting == Dequeue /\ seen.here /\ ~seen.deleting /\ seen.fin /\ UNCHANGED timer

\* A gate refuses.
GetRefused ==
    /\ Getting
    /\ ~admitted
    /\ w' = [Begin("refuse") EXCEPT !.ref = <<"Gate", 0>>]

\* reuseAllocation: the recorded identifiers serve every attachment.
GetReuse ==
    /\ Getting
    /\ admitted
    /\ seen.st.alloc # {} /\ Renders(seen.spec, seen.st.alloc)
    /\ w' = [Begin("plan") EXCEPT !.plan = seen.spec, !.ids = seen.st.alloc]

GetAllocate ==
    /\ Getting
    /\ admitted
    /\ seen.st.alloc = {} \/ ~Renders(seen.spec, seen.st.alloc)
    /\ w' = Begin("allocId")

\* ensureFinalizer: the patch's own event brings the next pass.
AddFinalizer ==
    /\ w.pc = "addFin"
    /\ obj.here
    /\ Store([obj EXCEPT !.fin = TRUE], "self")
    /\ Return(FALSE)
    /\ UNCHANGED <<claims, dev, site>> /\ Smooth

AddFinalizerFails ==
    /\ w.pc = "addFin"
    /\ ApiFails
    /\ Return(TRUE)
    /\ UNCHANGED <<api, claims, dev, site>>

\* The claim Allocate works on: the service id first, then a client prefix
\* per attachment in node order.
ThisClaim ==
    IF w.pc = "allocId" THEN IdClaim ELSE PrefixClaim(w.svc.spec, Min(w.todo))

Allocating == w.pc = "allocId" \/ (w.pc = "allocPrefix" /\ w.todo # {})

ClaimOK ==
    /\ Allocating
    /\ claims' = claims \cup {ThisClaim}
    /\ w' = IF w.pc = "allocId"
            THEN [w EXCEPT !.pc = "allocPrefix", !.todo = Attached(w.svc.spec)]
            ELSE [w EXCEPT !.todo = @ \ {Min(@)}]
    /\ UNCHANGED <<api, timer, dev, site>> /\ Smooth

\* A transient error: requeue.  The claim may have been made.
ClaimFails ==
    /\ Allocating
    /\ Mishap("claim")
    /\ claims' \in {claims, claims \cup {ThisClaim}}
    /\ Return(TRUE)
    /\ UNCHANGED <<api, dev, site>>

\* The service id range is exhausted: exhausted() releases, then refuses.  A
\* client prefix pool is exhausted: transientOrRefusal only refuses.
ClaimExhausted ==
    /\ Allocating
    /\ ThisClaim \notin claims
    /\ Mishap("pool")
    /\ w' = [w EXCEPT !.pc = IF w.pc = "allocId" THEN "poolRelease" ELSE "refuse",
                      !.ref = <<"PoolExhausted", 0>>]
    /\ UNCHANGED <<api, timer, claims, dev, site>>

ClaimsDone ==
    /\ w.pc = "allocPrefix" /\ w.todo = {}
    /\ w' = [w EXCEPT !.pc = "plan", !.plan = w.svc.spec, !.ids = Attached(w.svc.spec)]
    /\ UNCHANGED <<api, timer, claims, dev, site>> /\ Smooth

\* Mutant: releasing nothing counts as a failure.
AfterReleaseOfNothing(ok) ==
    IF w.pc # "finRelease" THEN "refuse"
    ELSE IF ok /\ claims # {} THEN "finDrop" ELSE "finNote"

\* ReleaseByCorrelationID.  A failure leaves some of the claims; only the
\* finalizer cares.
AfterRelease(ok) ==
    IF w.pc # "finRelease" THEN "refuse" ELSE IF ok THEN "finDrop" ELSE "finNote"

ReleaseOK ==
    /\ w.pc \in Releasing
    /\ claims' = {}
    /\ w' = [w EXCEPT !.pc = AfterRelease(TRUE)]
    /\ UNCHANGED <<api, timer, dev, site>> /\ Smooth

ReleaseFails ==
    /\ w.pc \in Releasing
    /\ Mishap("release")
    /\ claims' \in SUBSET claims
    /\ w' = [w EXCEPT !.pc = AfterRelease(FALSE)]
    /\ UNCHANGED <<api, timer, dev, site>>

-----------------------------------------------------------------------------
(* Reconcile: plan, and the walks over its nodes *)

\* The plan a walk applies or rolls back: the applied one for the removal,
\* the undoing and the restoring of an update, else the fresh one.
Target == IF w.pc \in {"remove", "undo", "restore"} THEN w.svc.st.applied ELSE w.plan

\* The next step, with the nodes of s to visit.
Walk(pc, s) == [w EXCEPT !.pc = pc, !.todo = Attached(s)]

\* The hashes differ and nothing is applied: first application.
PlanFirst ==
    /\ w.pc = "plan"
    /\ ~HashesEqual(w.svc.st.hashed, w.plan)
    /\ w.svc.st.applied = None
    /\ w' = Walk("first", w.plan)
    /\ UNCHANGED <<api, timer, claims, dev, site>> /\ Smooth

\* applyUpdate: the previous plan has to render with the identifiers of the
\* present attachments; the nodes that lost items are rolled back first.
PlanUpdate ==
    /\ w.pc = "plan"
    /\ ~HashesEqual(w.svc.st.hashed, w.plan)
    /\ w.svc.st.applied # None
    /\ w' = IF Renders(w.svc.st.applied, w.ids \cap Attached(w.plan))
            THEN [w EXCEPT !.pc = "remove", !.todo = LostNodes(w.svc.st.applied, w.plan)]
            ELSE [w EXCEPT !.pc = "refuse", !.ref = <<"ApplyFailed", 0>>]
    /\ UNCHANGED <<api, timer, claims, dev, site>> /\ Smooth

PlanSame ==
    /\ w.pc = "plan"
    /\ HashesEqual(w.svc.st.hashed, w.plan)
    /\ w' = [Walk("verify", w.plan) EXCEPT !.same = TRUE]
    /\ UNCHANGED <<api, timer, claims, dev, site>> /\ Smooth

\* applyPlan, one node.
ApplyOK ==
    /\ w.pc \in Applying /\ w.todo # {}
    /\ LET n == Min(w.todo) ops == Ops(Target, n) IN
        /\ n \notin broken
        /\ dev' = [dev EXCEPT ![n] = ApplyOps(@, ops, Len(ops))]
        /\ w' = [w EXCEPT !.todo = @ \ {n}]
    /\ UNCHANGED <<api, timer, claims, site>> /\ Smooth

\* The first failing node ends the walk.  The executor stopped at a failing
\* op (OK=false), or the answer never came and any prefix of the ops ran.
ApplyFails ==
    /\ w.pc \in Applying /\ w.todo # {}
    /\ LET n == Min(w.todo) ops == Ops(Target, n) IN
        /\ \/ n \in broken /\ dev' = dev /\ Smooth
           \/ /\ n \notin broken
              /\ \E k \in 0..Len(ops) :
                  /\ (k < Len(ops) /\ Mishap("reject")) \/ Mishap("error")
                  /\ dev' = [dev EXCEPT ![n] = ApplyOps(@, ops, k)]
        /\ w' = CASE w.pc = "first" -> [Walk("firstRb", w.plan) EXCEPT !.ref = <<"ApplyFailed", n>>]
                  [] w.pc = "new" -> [Walk("undo", w.svc.st.applied) EXCEPT !.ref = <<"ApplyFailed", n>>]
                  [] w.pc = "repair" -> [Walk("repairRb", w.plan) EXCEPT !.ref = <<"ApplyFailed", n>>]
                  [] w.pc = "restore" -> [w EXCEPT !.pc = "refuse"]
    /\ UNCHANGED <<api, timer, claims, site>>

ApplyDone ==
    /\ w.pc \in Applying /\ w.todo = {}
    /\ w' = CASE w.pc = "first" -> Walk("verify", w.plan)
              [] w.pc = "new" -> Walk("verifyNew", w.plan)
              [] w.pc = "repair" -> Walk("reverify", w.plan)
              [] w.pc = "restore" -> [w EXCEPT !.pc = "refuse"]
    /\ UNCHANGED <<api, timer, claims, dev, site>> /\ Smooth

\* A node's rollback was answered.  Every caller goes on whatever res.OK
\* says: rollbackPlan only logs it, the removal of an update and the
\* finalizer do not look.  (The finalizer takes a permanent HTTP refusal for
\* an answer too: with k = 0, nothing was touched.)
RollbackAnswered ==
    /\ w.pc \in RollingBack /\ w.todo # {}
    /\ LET n == Min(w.todo) reach == RollbackReach(Target, n, dev[n]) IN
        /\ \/ n \in broken /\ dev' = dev /\ Smooth
           \/ /\ n \notin broken
              /\ \E k \in 0..reach :
                  /\ (k = reach /\ Smooth) \/ (k < reach /\ Mishap("reject"))
                  /\ dev' = [dev EXCEPT ![n] = RollbackOps(Target, n, @, k)]
        /\ w' = [w EXCEPT !.todo = @ \ {n}]
    /\ UNCHANGED <<api, timer, claims, site>>

\* No answer: the removal refuses, the finalizer keeps the node as dirty,
\* rollbackPlan goes on.
RollbackFails ==
    /\ w.pc \in RollingBack /\ w.todo # {}
    /\ Mishap("error")
    /\ LET n == Min(w.todo) IN
        /\ \E k \in 0..RollbackReach(Target, n, dev[n]) :
            dev' = [dev EXCEPT ![n] = IF n \in broken THEN @ ELSE RollbackOps(Target, n, @, k)]
        /\ w' = IF w.pc = "remove"
                THEN [w EXCEPT !.pc = "refuse", !.ref = <<"ApplyFailed", n>>]
                ELSE [w EXCEPT !.todo = @ \ {n}, !.dirty = @ \/ w.pc = "finRollback"]
    /\ UNCHANGED <<api, timer, claims, site>>

\* Mutant: a failed update releases the claims like a failed first apply.
RollbackDoneReleases ==
    /\ w.pc \in RollingBack /\ w.todo = {}
    /\ w' = CASE w.pc \in {"firstRb", "undo"} -> [w EXCEPT !.pc = "firstRelease"]
              [] w.pc = "repairRb" -> [w EXCEPT !.pc = "refuse"]
              [] w.pc = "remove" -> Walk("new", w.plan)
              [] w.pc = "finRollback" -> [w EXCEPT !.pc = IF w.dirty THEN "finNote" ELSE "finRelease"]
    /\ UNCHANGED <<api, timer, claims, dev, site>> /\ Smooth

RollbackDone ==
    /\ w.pc \in RollingBack /\ w.todo = {}
    /\ w' = CASE w.pc = "firstRb" -> [w EXCEPT !.pc = "firstRelease"]
              [] w.pc = "undo" -> Walk("restore", w.svc.st.applied)
              [] w.pc = "repairRb" -> [w EXCEPT !.pc = "refuse"]
              [] w.pc = "remove" -> Walk("new", w.plan)
              [] w.pc = "finRollback" -> [w EXCEPT !.pc = IF w.dirty THEN "finNote" ELSE "finRelease"]
    /\ UNCHANGED <<api, timer, claims, dev, site>> /\ Smooth

\* Mutant: only the locator is probed.
NodeProbed(n) == n \notin broken /\ Locator \in dev[n]

\* verifyNode: the locator probe, then the checks.
NodeVerified(n) ==
    n \notin broken /\ Locator \in dev[n] /\ ChecksPass(w.plan, n, dev[n])

VerifyOK ==
    /\ w.pc \in Verifying /\ w.todo # {}
    /\ NodeVerified(Min(w.todo))
    /\ w' = [w EXCEPT !.todo = @ \ {Min(@)}]
    /\ UNCHANGED <<api, timer, claims, dev, site>> /\ Smooth

\* The first refusal ends verifyPlan.  A failed request counts as a check.
VerifyFails ==
    /\ w.pc \in Verifying /\ w.todo # {}
    /\ LET n == Min(w.todo) IN
        \E ref \in {<<"LocatorMissing", n>>, <<"CheckFailed", n>>} :
            /\ \/ /\ ~NodeVerified(n) /\ Smooth
                  /\ (ref[1] = "LocatorMissing") <=> (n \in broken \/ Locator \notin dev[n])
               \/ ref[1] = "CheckFailed" /\ Mishap("error")
            /\ w' = [w EXCEPT !.pc = IF w.pc = "verify" THEN "path" ELSE "refuse",
                              !.vref = ref, !.ref = ref, !.svc.st.nodes = TRUE]
    /\ UNCHANGED <<api, timer, claims, dev, site>>

VerifyDone ==
    /\ w.pc \in Verifying /\ w.todo = {}
    /\ w' = [w EXCEPT !.pc = CASE @ = "verify" -> "path"
                               [] @ = "verifyNew" -> "recordNew"
                               [] @ = "reverify" -> "probe",
                      !.vref = NoRefusal, !.ref = NoRefusal, !.svc.st.nodes = TRUE]
    /\ UNCHANGED <<api, timer, claims, dev, site>> /\ Smooth

-----------------------------------------------------------------------------
(* Reconcile: path, drift, data path, status *)

\* Mutant: drift is reported, not repaired.
JudgedUnrepaired(ref, act) ==
    [w EXCEPT !.pc = IF ref = NoRefusal THEN "probe" ELSE "refuse",
              !.ref = ref, !.active = act]

\* After the path stage: no refusal goes on to Ready; a failed check on an
\* unchanged plan is drift; the rest is refused.
Judged(ref, act) ==
    [w EXCEPT !.pc = IF ref = NoRefusal THEN "probe"
                     ELSE IF w.same /\ ref[1] = "CheckFailed" THEN "drift" ELSE "refuse",
              !.ref = ref, !.active = act]

PathUnsteered ==
    /\ w.pc = "path"
    /\ w.svc.spec.pref = None
    /\ w' = Judged(w.vref, None)
    /\ UNCHANGED <<api, timer, claims, dev, site>> /\ Smooth

\* The spines the pin on the ingress leaf points at.
PinVia(s) ==
    IF Ingress(s) \in broken THEN {}
    ELSE {p \in Spines : <<"pin", Peer(s, Ingress(s)), p>> \in dev[Ingress(s)]}

\* A failed check while the pin rides another spine is the failover state.
PathServed ==
    /\ w.pc = "path"
    /\ w.svc.spec.pref # None
    /\ \E p \in PinVia(w.plan) :
        w' = Judged(IF w.vref[1] = "CheckFailed" /\ p # w.svc.spec.pref
                    THEN NoRefusal ELSE w.vref, p)
    /\ UNCHANGED <<api, timer, claims, dev, site>> /\ Smooth

PathDown ==
    /\ w.pc = "path"
    /\ w.svc.spec.pref # None
    /\ PinVia(w.plan) = {}
    /\ w' = [w EXCEPT !.pc = "refuse", !.ref = <<"PathDown", Ingress(w.plan)>>]
    /\ UNCHANGED <<api, timer, claims, dev, site>> /\ Smooth

PathUnread ==
    /\ w.pc = "path"
    /\ w.svc.spec.pref # None
    /\ Mishap("error")
    /\ Return(TRUE)
    /\ UNCHANGED <<api, claims, dev, site>>

\* patchDriftObserved (best effort), then the ops once more.
DriftNoted ==
    /\ w.pc = "drift"
    /\ obj.here
    /\ LET o == Patched([w.svc.st EXCEPT !.cond = Condition(FALSE, w.ref)]) IN
        /\ Store(o, "self")
        /\ w' = [Walk("repair", w.plan) EXCEPT !.svc = Refreshed(o)]
    /\ UNCHANGED <<timer, claims, dev, site>> /\ Smooth

DriftUnnoted ==
    /\ w.pc = "drift"
    /\ ApiFails
    /\ w' = [Walk("repair", w.plan) EXCEPT !.svc.st.cond = Condition(FALSE, w.ref)]
    /\ UNCHANGED <<api, timer, claims, dev, site>>

\* The probe client of one attachment reaches the other's.
DataPathUp ==
    \A n \in Attached(w.plan) :
        /\ n \notin broken
        /\ {x \in ToSet(Ops(w.plan, n)) : x[1] # "pin"} \subseteq dev[n]

ProbePassed ==
    /\ w.pc = "probe"
    /\ w.svc.st.probed \/ DataPathUp
    /\ w' = [w EXCEPT !.pc = "record", !.probed = TRUE]
    /\ UNCHANGED <<api, timer, claims, dev, site>> /\ Smooth

ProbeFailed ==
    /\ w.pc = "probe" /\ ~w.svc.st.probed
    /\ (~DataPathUp /\ Smooth) \/ Mishap("probe")
    /\ w' = [w EXCEPT !.pc = "refuse", !.ref = <<"DataPathFailed", 0>>]
    /\ UNCHANGED <<api, timer, claims, dev, site>>

ProbeUnanswered ==
    /\ w.pc = "probe" /\ ~w.svc.st.probed
    /\ Mishap("error")
    /\ Return(TRUE)
    /\ UNCHANGED <<api, claims, dev, site>>

\* setReadyOutcome: hashes of the plan, but spec and generation of the copy.
ReadyOutcome(act, probed) ==
    [w.svc.st EXCEPT !.cond = Condition(TRUE, <<"Verified", 0>>),
                     !.hashed = w.plan, !.applied = w.svc.spec,
                     !.active = act, !.alloc = w.ids, !.probed = probed]

\* The update is verified: record it, then run the remaining stages.
RecordNew ==
    /\ w.pc = "recordNew"
    /\ obj.here
    /\ LET o == Patched(ReadyOutcome(w.svc.st.active, w.svc.st.probed)) IN
        /\ Store(o, "self")
        /\ w' = [Walk("verify", w.plan) EXCEPT !.svc = Refreshed(o)]
    /\ UNCHANGED <<timer, claims, dev, site>> /\ Smooth

RecordNewFails ==
    /\ w.pc = "recordNew"
    /\ ApiFails
    /\ w' = [w EXCEPT !.pc = "refuse", !.ref = <<"ApplyFailed", 0>>,
                      !.svc.st = ReadyOutcome(w.svc.st.active, w.svc.st.probed)]
    /\ UNCHANGED <<api, timer, claims, dev, site>>

\* Nothing to write: no patch.  Otherwise one patch.  Resync in five minutes.
Record ==
    /\ w.pc = "record"
    /\ LET new == ReadyOutcome(w.active, w.probed) IN
        IF new = w.svc.st THEN UNCHANGED api ELSE obj.here /\ Store(Patched(new), "self")
    /\ Return(TRUE)
    /\ UNCHANGED <<claims, dev, site>> /\ Smooth

RecordFails ==
    /\ w.pc = "record"
    /\ ReadyOutcome(w.active, w.probed) # w.svc.st
    /\ ApiFails
    /\ Return(TRUE)
    /\ UNCHANGED <<api, claims, dev, site>>

\* refuse: the condition is patched; a terminal refusal is not requeued.
Refuse ==
    /\ w.pc = "refuse"
    /\ obj.here
    /\ Store(Patched([w.svc.st EXCEPT !.cond = Condition(FALSE, w.ref)]), "self")
    /\ Return(~Terminal(w.ref))
    /\ UNCHANGED <<claims, dev, site>> /\ Smooth

RefuseFails ==
    /\ w.pc = "refuse"
    /\ ApiFails
    /\ Return(TRUE)
    /\ UNCHANGED <<api, claims, dev, site>>

-----------------------------------------------------------------------------
(* finalizeDelete after the rollback walk and the release *)

\* setAndEmitFinalizing (best effort), requeue.
FinalizeNote ==
    /\ w.pc = "finNote"
    /\ \/ /\ obj.here
          /\ Store(Patched([w.svc.st EXCEPT !.cond = Condition(FALSE, <<"Finalizing", 0>>)]), "self")
          /\ Smooth
       \/ ApiFails /\ UNCHANGED api
    /\ Return(TRUE)
    /\ UNCHANGED <<claims, dev, site>>

\* The last finalizer goes, and the object with it.
FinalizeDrop ==
    /\ w.pc = "finDrop"
    /\ obj.here
    /\ Store(Gone, "self")
    /\ Return(FALSE)
    /\ UNCHANGED <<claims, dev, site>> /\ Smooth

\* NotFound counts as done; any other error is returned.
FinalizeDropFails ==
    /\ w.pc = "finDrop"
    /\ (~obj.here /\ Smooth /\ Return(FALSE)) \/ (Mishap("api") /\ Return(TRUE))
    /\ UNCHANGED <<api, claims, dev, site>>

-----------------------------------------------------------------------------
(* The surroundings *)

Edit ==
    /\ obj.here /\ ~obj.deleting /\ obj.gen < MaxGen
    /\ \E s \in Specs \ {obj.spec} :
        Store([obj EXCEPT !.spec = s, !.gen = @ + 1], "other")
    /\ UNCHANGED <<timer, claims, dev, site, w>> /\ Smooth

Delete ==
    /\ Deletable
    /\ obj.here /\ ~obj.deleting
    /\ Store(IF obj.fin THEN [obj EXCEPT !.deleting = TRUE, !.gen = @ + 1] ELSE Gone, "other")
    /\ UNCHANGED <<timer, claims, dev, site, w>> /\ Smooth

Deliver ==
    /\ StaleGet /\ seen # obj
    /\ seen' = obj
    /\ queue' = "other"
    /\ UNCHANGED <<obj, timer, claims, dev, site, w>> /\ Smooth

TimerFires ==
    /\ timer
    /\ timer' = FALSE
    /\ queue' = "other"
    /\ UNCHANGED <<obj, seen, claims, dev, site, w>> /\ Smooth

\* The informer's periodic resync.
Resync ==
    /\ seen.here /\ w.pc = "idle" /\ queue = "empty"
    /\ queue' = "other"
    /\ UNCHANGED <<obj, seen, timer, claims, dev, site, w>> /\ Smooth

\* A device loses an item: "drift" any but the pin and the locator, which
\* are "pinloss" and "locator".
LossKind(x) == CASE x[1] = "pin" -> "pinloss" [] x[1] = "locator" -> "locator" [] OTHER -> "drift"

DeviceLoses ==
    /\ \E n \in Nodes : \E x \in dev[n] :
        /\ Mishap(LossKind(x))
        /\ dev' = [dev EXCEPT ![n] = @ \ {x}]
    /\ UNCHANGED <<api, timer, claims, site, w>>

\* Bootstrap writes a locator again.
LocatorRestored ==
    /\ \E n \in Nodes :
        /\ Locator \notin dev[n]
        /\ dev' = [dev EXCEPT ![n] = @ \cup {Locator}]
    /\ UNCHANGED <<api, timer, claims, site, w>> /\ Smooth

\* The operator's failure action moves the pin to another spine.
Failover ==
    /\ Mishap("failover")
    /\ \E n \in Nodes, p \in Spines : \E x \in dev[n] :
        /\ x[1] = "pin" /\ x[3] # p
        /\ dev' = [dev EXCEPT ![n] = (@ \ {x}) \cup {<<"pin", x[2], p>>}]
    /\ UNCHANGED <<api, timer, claims, site, w>>

NodeBreaks ==
    /\ Mishap("break")
    /\ \E n \in Nodes \ broken : broken' = broken \cup {n}
    /\ UNCHANGED <<api, timer, claims, dev, admitted, w>>

NodeHeals ==
    /\ \E n \in broken : broken' = broken \ {n}
    /\ UNCHANGED <<api, timer, claims, dev, admitted, w>> /\ Smooth

GateCloses ==
    /\ admitted /\ Mishap("gate")
    /\ admitted' = FALSE
    /\ UNCHANGED <<api, timer, claims, dev, broken, w>>

GateOpens ==
    /\ ~admitted
    /\ admitted' = TRUE
    /\ UNCHANGED <<api, timer, claims, dev, broken, w>> /\ Smooth

\* The process restarts: the pass and the timers are lost, the new informer
\* lists the object and queues it.
Crash ==
    /\ Mishap("crash")
    /\ w' = Idle
    /\ timer' = FALSE
    /\ seen' = obj
    /\ queue' = "other"
    /\ UNCHANGED <<obj, claims, dev, site>>

-----------------------------------------------------------------------------
Get == GetGone \/ GetDeleting \/ GetBare \/ GetRefused \/ GetReuse \/ GetAllocate

Identify ==
    \/ AddFinalizer \/ AddFinalizerFails
    \/ ClaimOK \/ ClaimFails \/ ClaimExhausted \/ ClaimsDone
    \/ ReleaseOK \/ ReleaseFails

Drive ==
    \/ PlanFirst \/ PlanUpdate \/ PlanSame
    \/ ApplyOK \/ ApplyFails \/ ApplyDone
    \/ RollbackAnswered \/ RollbackFails \/ RollbackDone
    \/ VerifyOK \/ VerifyFails \/ VerifyDone

Conclude ==
    \/ PathUnsteered \/ PathServed \/ PathDown \/ PathUnread
    \/ DriftNoted \/ DriftUnnoted
    \/ ProbePassed \/ ProbeFailed \/ ProbeUnanswered
    \/ RecordNew \/ RecordNewFails \/ Record \/ RecordFails
    \/ Refuse \/ RefuseFails
    \/ FinalizeNote \/ FinalizeDrop \/ FinalizeDropFails

Work == Get \/ Identify \/ Drive \/ Conclude

Surroundings ==
    \/ Edit \/ Delete \/ Deliver \/ TimerFires \/ Resync
    \/ DeviceLoses \/ LocatorRestored \/ Failover
    \/ NodeBreaks \/ NodeHeals \/ GateCloses \/ GateOpens \/ Crash

Next == Work \/ Surroundings

Spec == Init /\ [][Next]_vars

\* The worker runs while there is work, the informer delivers, timers fire
\* and the informer resyncs.  Nothing is assumed of the operator, the
\* devices or the gates.
Fairness ==
    /\ WF_vars(Work)
    /\ WF_vars(Deliver)
    /\ WF_vars(TimerFires)
    /\ WF_vars(Resync)

FairSpec == Spec /\ Fairness

(***************************************************************************)
(* Two premises on the steps.  A pass finds its predecessors' patches in   *)
(* the informer's cache: nothing enforces it, Get trails the server        *)
(* (controller.go), it only says when a pass is early.  And no device      *)
(* changes by itself from the first check of a pass until what it found is *)
(* recorded: a loss in that window is for the next pass to see.            *)
(***************************************************************************)
OwnPatchesSeen == Get => seen.st = obj.st

Found == Verifying \cup {"recordNew", "path", "probe", "record"}
HoldsStill == w.pc \in Found => dev' = dev

-----------------------------------------------------------------------------
(* Properties *)

\* What the service has on node n.
Ours(n) == dev[n] \ {Locator}

\* Node n carries exactly the items plan s asks for.
Exactly(s, n) == Ours(n) = IF n \in Attached(s) THEN ToSet(Ops(s, n)) ELSE {}

\* "The finalizer goes on BEFORE any claim" (controller.go) and comes off
\* after the release: whatever is interrupted or deleted when, a claim always
\* has an object with the finalizer that will release it.
ClaimsGuarded == claims # {} => obj.here /\ obj.fin

\* The identifiers status.allocations reports are held at the authority as
\* long as the service is not being deleted ("allocations lists every
\* identifier the controller claimed for this service, each traceable to a
\* claim", srv6service_types.go): no failure path of a later pass releases the
\* claims of a service that is recorded as applied.  A pass on old status
\* does, so it takes OwnPatchesSeen.
RecordedIdsHeld ==
    obj.st.alloc # {} /\ ~obj.deleting =>
        /\ IdClaim \in claims
        /\ \A n \in obj.st.alloc : \E p \in Ports : <<n, p>> \in claims

\* Whenever Ready turns True, the first-activation probe has passed and, unless
\* the record says that the path rides another spine than the preferred one
\* (the failover state, path.go), both nodes carry every item of the plan whose
\* hashes are recorded ("Ready=True is set ONLY after every per-node check
\* passed on device-observed state AND the first-activation data-path probe
\* passed", ready.go).
ReadyOnDevice ==
    [][~obj.st.cond.ready /\ obj'.st.cond.ready =>
          /\ obj'.st.probed
          /\ obj'.st.active \in {None, obj'.st.applied.pref} =>
                \A n \in Attached(obj'.st.hashed) : ChecksPass(obj'.st.hashed, n, dev[n])]_vars

\* Only the check of the pin may fail when Ready turns True, as it does by
\* design while the pin rides another spine ("the preferred-pin checks fail BY
\* DESIGN", path.go).  It does not hold: any failed check is excused then
\* (path.go:188).
ReadyButThePin ==
    [][~obj.st.cond.ready /\ obj'.st.cond.ready =>
          \A n \in Attached(obj'.st.hashed) :
              \A x \in ToSet(Ops(obj'.st.hashed, n)) : x[1] = "pin" \/ x \in dev[n]]_vars

\* A Ready service has nothing on the devices but its plan: an update removed
\* what the previous plan had more ("the change is driven HERE ... drive the
\* removal", update.go).  So for one edit; a second one during the pass
\* leaves a mixed record, see AppliedIsHashed, and the diff misses some items.
ReadyExact ==
    [][obj'.st.cond.ready /\ obj'.st # obj.st =>
          \A n \in Nodes : Exactly(obj'.st.hashed, n)]_vars

\* appliedSpec is the spec the recorded hashes were rendered from
\* ("appliedSpec is the spec the currently applied plan was rendered from",
\* srv6service_types.go): the next update diffs against it.  It does not hold:
\* the patch in the middle of an update brings an edited spec into the copy,
\* which is recorded with the hashes of the plan before it (update.go:156,
\* controller.go:279).
AppliedIsHashed == obj.st.applied = obj.st.hashed

\* The finalizer releases only when no node carries anything of the service
\* ("release the claims only when every node is clean", finalizer.go):
\* another service may get the same id and VRF name.  It does not hold: a
\* rollback the node rejected counts as done, and a service never Ready is
\* deleted without one (finalizer.go:69-86).
ReleasedOnlyWhenClean ==
    [][w.pc = "finRelease" /\ claims' # claims => \A n \in Nodes : Ours(n) = {}]_vars

\* Nothing stands in the way of the service any more.
Healthy ==
    /\ obj.here /\ ~obj.deleting
    /\ admitted /\ broken = {}
    /\ \A n \in Nodes : Locator \in dev[n]

\* Ready at the present generation, with its configuration in place.
Settled ==
    /\ obj.st.cond.ready /\ obj.st.cond.gen = obj.gen
    /\ \A n \in Attached(obj.spec) : ChecksPass(obj.spec, n, dev[n])

\* The pin of a steered service is gone and the status names the node: "a
\* repair here would re-create the preferred pin the operator's failure
\* action removed" (path.go).
PinReportedLost ==
    /\ obj.spec.pref # None
    /\ \A x \in dev[Ingress(obj.spec)] : x[1] # "pin"
    /\ obj.st.cond = [ready |-> FALSE, ref |-> <<"PathDown", Ingress(obj.spec)>>, gen |-> obj.gen]

\* Once the surroundings stay healthy the service becomes Ready for its
\* present spec and stays so, whatever failed before ("a drifted node is
\* re-applied (idempotent ops) so Ready returns True", ready.go); only a lost
\* pin is reported instead.
EventuallyReady == <>[]Healthy => <>[]Settled \/ <>[]PinReportedLost

\* A deleted service goes away and leaves no claim, provided the nodes can be
\* reached in the end ("release the claims only when every node is clean, then
\* remove the finalizer", finalizer.go), whatever step of the finalizer was
\* interrupted and repeated.
DeletionCompletes ==
    <>[](broken = {}) => (obj.deleting ~> (~obj.here /\ claims = {}))

\* The controller stops triggering itself: from some time on passes come from
\* timers and resyncs only ("T396: no requeue storm", types.go).  Drift that
\* cannot be repaired breaks it: the conditions of its detection and of the
\* failed repair alternate, and every change queues the object at once.
NoRequeueStorm == <>[](queue # "self")
=============================================================================
