---------------------------- MODULE DeployProofs ----------------------------
(*************************************************************************)
(* Proofs about DeployTransaction, for any number of transactions,       *)
(* objects, faults and condition changes: TypeOK, FailureAccountsForAll, *)
(* AclSecondRefused and ReportsAreWhole.                                 *)
(*                                                                       *)
(* The argument.  None of the properties is inductive: an object in the  *)
(* cluster, a write still on its way and the phase of the transaction that *)
(* sent it have to be related at every point of the transaction (Good).  *)
(* Transactions share one cluster and one set of late writes, so the     *)
(* invariant of each must also survive the steps of the others.  It does, *)
(* because a foreign step can only take away from what a transaction wrote: *)
(* overwrite it, delete it or mark it as terminating (Spared).  A step is *)
(* then a new record for its own transaction and Spared for all others   *)
(* (MovedKeeps).                                                         *)
(*************************************************************************)
EXTENDS DeployTransaction, TLAPS, WellFoundedInduction, FiniteSetTheorems

\* Among subsets of the bundle's objects there is a smallest: the finite
\* counterpart of the sort in deterministic_apply_order.
LEMMA SmallestSubset ==
    ASSUME NEW F, F \subseteq SUBSET Objects, F # {}
    PROVE  \E T \in F : \A U \in F : ~(U \subseteq T /\ U # T)
<1>1. F \subseteq FiniteSubsetsOf(Objects)
  <2>1. IsFiniteSet(Objects)
    BY FS_Interval, DeployAssumption DEF Objects
  <2>. QED  BY <2>1, FS_Subset DEF FiniteSubsetsOf
<1>2. PICK T \in F : \A U \in F : ~(<<U, T>> \in StrictSubsetOrdering(Objects))
  BY <1>1, FS_StrictSubsetOrderingWellFounded, WFMin
<1>. QED  BY <1>2 DEF StrictSubsetOrdering

\* The next object of a loop of apply_all or rollback_by_selector is one of those left.
LEMMA FirstIn ==
    ASSUME NEW S, S \subseteq Objects, S # {}
    PROVE  First(S) \in S
<1>. DEFINE Below(n) == {m \in S : m <= n}
<1>1. Objects \subseteq Nat
  BY DeployAssumption DEF Objects
<1>2. PICK n \in S : \A m \in S : ~(Below(m) \subseteq Below(n) /\ Below(m) # Below(n))
  <2>. DEFINE F == {Below(m) : m \in S}
  <2>1. PICK T \in F : \A U \in F : ~(U \subseteq T /\ U # T)
    <3>1. F \subseteq SUBSET Objects /\ F # {}
      OBVIOUS
    <3>. HIDE DEF F
    <3>. QED  BY <3>1, SmallestSubset
  <2>2. PICK n \in S : T = Below(n)
    BY <2>1
  <2>3. \A m \in S : Below(m) \in F
    OBVIOUS
  <2>. HIDE DEF F, Below
  <2>. QED  BY <2>1, <2>2, <2>3
<1>3. \A m \in S : n <= m
  <2>. SUFFICES ASSUME NEW m \in S, ~(n <= m) PROVE FALSE
    OBVIOUS
  <2>1. m < n /\ n <= n /\ \A q \in S : q <= m => q <= n
    BY <1>1
  <2>2. Below(m) \subseteq Below(n) /\ n \in Below(n) /\ n \notin Below(m)
    BY <1>1, <2>1
  <2>. QED  BY <1>2, <2>2
<1>. QED  BY <1>3 DEF First

\* The service that _preflight_acl_binding records for a key binds it.
LEMMA HolderIn ==
    ASSUME NEW k, Holders(k) # {}
    PROVE  Holder(k) \in Holders(k)
<1>. DEFINE S == Holders(k)
            Above(n) == {m \in S : m >= n}
<1>1. S \subseteq Objects /\ Objects \subseteq Nat
  BY DeployAssumption DEF Holders, Live, Objects
<1>. HIDE DEF S
<1>2. PICK n \in S : \A m \in S : ~(Above(m) \subseteq Above(n) /\ Above(m) # Above(n))
  <2>. DEFINE F == {Above(m) : m \in S}
  <2>1. PICK T \in F : \A U \in F : ~(U \subseteq T /\ U # T)
    <3>1. F \subseteq SUBSET Objects /\ F # {}
      BY <1>1 DEF S
    <3>. HIDE DEF F
    <3>. QED  BY <3>1, SmallestSubset
  <2>2. PICK n \in S : T = Above(n)
    BY <2>1
  <2>3. \A m \in S : Above(m) \in F
    OBVIOUS
  <2>. HIDE DEF F, Above
  <2>. QED  BY <2>1, <2>2, <2>3
<1>3. \A m \in S : m <= n
  <2>. SUFFICES ASSUME NEW m \in S, ~(m <= n) PROVE FALSE
    OBVIOUS
  <2>1. m > n /\ n >= n /\ \A q \in S : q >= m => q >= n
    BY <1>1
  <2>2. Above(m) \subseteq Above(n) /\ n \in Above(n) /\ n \notin Above(m)
    BY <1>1, <2>1
  <2>. QED  BY <1>2, <2>2
<1>. QED  BY <1>3 DEF Holder, S

-----------------------------------------------------------------------------
\* The objects of cluster C that t wrote last.
Mine(t, C) == {o \in Objects : C[o] # None /\ C[o].by = t}

\* Before the first write (submit.py:658-711): also a failure that names a
\* phase before apply.
Early(x) == x.pc \in {"new", "answered", "preflight", "dry-run"} \/ (x.pc = "failed" /\ x.phase # "apply")

\* Two services on one port and stage of one node.
Beside(o, p) == Binds[o] \cap Binds[p] # {}

\* What holds between transaction t in state x, the cluster C, the writes
\* F on their way and the audit event a of t.
Good(t, x, C, F, a) ==
    /\ x.pc \notin {"new", "answered"} => x.req \in Requests
    /\ x.pc \in {"new", "preflight"} => x.seen = {}
    /\ Early(x) => Mine(t, C) = {} /\ x.submitted = {} /\ x.rolled_back = {}
    /\ x.pc = "apply" => x.submitted \cup x.todo = x.req.bundle /\ Mine(t, C) \subseteq x.submitted
    /\ x.pc \in {"list", "delete"} => x.phase = "apply"
    /\ x.pc = "list" => Mine(t, C) \subseteq x.submitted \cup {x.resource}
    /\ x.pc = "delete" => \A o \in Mine(t, C) : C[o].going \/ o \in x.todo \cup x.survivors \cup {x.resource}
    /\ x.pc = "failed" => \A o \in Mine(t, C) : C[o].going \/ o \in x.survivors \cup {x.resource}
    /\ x.pc \in {"watch", "submitted"} => x.submitted = x.req.bundle
    /\ x.pc = "watch" => \A o \in x.req.bundle : o \in x.todo \/ x.outcome[o] # None
    /\ x.pc = "submitted" => \A o \in x.req.bundle : x.outcome[o] # None
    /\ \A o \in Objects : <<o, t>> \in F =>
          /\ x.pc \in {"list", "delete", "failed", "lost"} /\ o \in x.req.bundle
          /\ x.pc # "lost" => x.phase = "apply" /\ o = x.resource
    /\ a = "submit" => x.pc \in {"watch", "submitted", "lost"}
    /\ a = "refuse" => x.pc = "failed"
    /\ \A o \in Mine(t, C) : C[o].corr = x.req.corr /\ C[o].seen = x.seen /\ o \in x.req.bundle
    /\ x.pc \notin {"new", "answered"} =>
          \A o \in x.req.bundle \cap Networks, p \in x.seen : o # p /\ Beside(o, p) => o \in x.seen

\* The inductive invariant.
DInv == TypeOK /\ \A t \in Txns : Good(t, txn[t], cluster, flying, audit[t])

-----------------------------------------------------------------------------
\* What another step does to what u wrote: at most it is overwritten or
\* deleted.
Spared(u) ==
    /\ \A o \in Mine(u, cluster') :
          /\ o \in Mine(u, cluster)
          /\ cluster'[o].corr = cluster[o].corr /\ cluster'[o].seen = cluster[o].seen
          /\ cluster[o].going => cluster'[o].going
    /\ \A o \in Objects : <<o, u>> \in flying' => <<o, u>> \in flying

\* A step of another transaction, of the API server or of a controller.
LEMMA GoodSpared ==
    ASSUME NEW u \in Txns, Good(u, txn[u], cluster, flying, audit[u]), Spared(u),
           txn'[u] = txn[u], audit'[u] = audit[u]
    PROVE  Good(u, txn'[u], cluster', flying', audit'[u])
BY DEF Good, Spared, Early

\* The step of a transaction: what is left to show of each.
Moved(t, x) == txn' = [txn EXCEPT ![t] = x] /\ x \in Txn

\* A step of t keeps the invariant when it makes a good record of t and
\* spares the rest.
LEMMA MovedKeeps ==
    ASSUME DInv, NEW t \in Txns, NEW x, Moved(t, x),
           Good(t, x, cluster', flying', audit'[t]),
           \A u \in Txns \ {t} : Spared(u) /\ audit'[u] = audit[u],
           cluster' \in [Objects -> Object \cup {None}], flying' \subseteq Objects \X Txns,
           audit' \in [Txns -> {"submit", "refuse", None}],
           faults' \in 0..MaxFaults /\ reports' \in 0..MaxReports
    PROVE  DInv'
<1>1. /\ txn' \in [Txns -> Txn] /\ txn'[t] = x
      /\ \A u \in Txns \ {t} : txn'[u] = txn[u]
  BY DEF Moved, DInv, TypeOK
<1>2. TypeOK'
  BY <1>1 DEF TypeOK
<1>3. ASSUME NEW u \in Txns
      PROVE  Good(u, txn'[u], cluster', flying', audit'[u])
  BY <1>1, <1>3, GoodSpared DEF DInv
<1>. QED  BY <1>2, <1>3 DEF DInv

\* Nothing happens to the cluster.
LEMMA Untouched ==
    ASSUME NEW u \in Txns, UNCHANGED <<cluster, flying>>
    PROVE  Spared(u)
BY DEF Spared, Mine

LEMMA Counted ==
    ASSUME TypeOK, Smooth \/ Fault
    PROVE  faults' \in 0..MaxFaults /\ reports' \in 0..MaxReports
BY DeployAssumption DEF TypeOK, Smooth, Fault, counters

\* A write of t.
LEMMA WrittenKeeps ==
    ASSUME DInv, NEW t \in Txns, NEW o \in Objects, txn[t].pc \notin {"new", "answered"},
           cluster' = [cluster EXCEPT ![o] = Written(o, t)]
    PROVE  /\ cluster' \in [Objects -> Object \cup {None}]
           /\ Mine(t, cluster') \subseteq Mine(t, cluster) \cup {o}
           /\ \A p \in Objects \ {o} : cluster'[p] = cluster[p]
           /\ cluster'[o].corr = txn[t].req.corr /\ cluster'[o].seen = txn[t].seen
           /\ \A u \in Txns \ {t} : \A p \in Mine(u, cluster') :
                 p \in Mine(u, cluster) /\ cluster'[p] = cluster[p]
<1>1. /\ cluster \in [Objects -> Object \cup {None}] /\ txn[t] \in Txn
      /\ txn[t].req \in Requests
  BY DEF DInv, TypeOK, Good
<1>2. txn[t].req.corr \in Corrs /\ txn[t].seen \in SUBSET Objects
  BY <1>1, DeployAssumption DEF Txn
<1>3. o \in Live => cluster[o].cond \in Conditions /\ cluster[o].going \in BOOLEAN
  BY <1>1 DEF Live, Object
<1>4. /\ Written(o, t) \in Object /\ Written(o, t).by = t
      /\ Written(o, t).corr = txn[t].req.corr /\ Written(o, t).seen = txn[t].seen
  BY <1>2, <1>3 DEF Written, Object, NoConditions, Conditions, Corr
<1>. HIDE DEF Written
<1>5. cluster'[o] = Written(o, t) /\ \A p \in Objects \ {o} : cluster'[p] = cluster[p]
  BY <1>1
<1>. QED  BY <1>1, <1>4, <1>5 DEF Mine

\* A delete.
LEMMA RemovedKeeps ==
    ASSUME DInv, NEW o \in Objects, cluster' = Removed(o), UNCHANGED flying
    PROVE  /\ cluster' \in [Objects -> Object \cup {None}]
           /\ \A u \in Txns : Spared(u)
           /\ \A p \in Objects \ {o} : cluster'[p] = cluster[p]
           /\ cluster'[o] # None => cluster'[o].going
<1>1. cluster \in [Objects -> Object \cup {None}]
  BY DEF DInv, TypeOK
<1>2. CASE o \in Live /\ o \in Finalized
  <2>1. cluster[o] \in Object /\ cluster' = [cluster EXCEPT ![o].going = TRUE]
    BY <1>1, <1>2 DEF Live, Removed
  <2>2. /\ cluster'[o] = [cluster[o] EXCEPT !.going = TRUE]
        /\ \A p \in Objects \ {o} : cluster'[p] = cluster[p]
    BY <1>1, <2>1
  <2>3. /\ cluster'[o] \in Object /\ cluster'[o].going /\ cluster'[o].by = cluster[o].by
        /\ cluster'[o].corr = cluster[o].corr /\ cluster'[o].seen = cluster[o].seen
    BY <2>1, <2>2 DEF Object
  <2>4. cluster' \in [Objects -> Object \cup {None}]
    BY <1>1, <2>1, <2>2, <2>3
  <2>5. ASSUME NEW u \in Txns
        PROVE  Spared(u)
    BY <1>2, <2>2, <2>3 DEF Spared, Mine, Live
  <2>. QED  BY <2>2, <2>3, <2>4, <2>5
<1>3. CASE ~(o \in Live /\ o \in Finalized)
  <2>1. cluster' = [cluster EXCEPT ![o] = None]
    BY <1>3 DEF Removed
  <2>2. cluster'[o] = None /\ \A p \in Objects \ {o} : cluster'[p] = cluster[p]
    BY <1>1, <2>1
  <2>3. ASSUME NEW u \in Txns
        PROVE  Spared(u)
    BY <2>2 DEF Spared, Mine
  <2>. QED  BY <1>1, <2>1, <2>2, <2>3
<1>. QED  BY <1>2, <1>3

-----------------------------------------------------------------------------
\* A step that only moves the transaction on: no call, or one that changes
\* nothing (reads, dry runs, polls).
LEMMA Quiet ==
    ASSUME DInv, NEW t \in Txns, NEW x, Moved(t, x),
           UNCHANGED <<cluster, flying, audit>>, Smooth \/ Fault,
           Good(t, x, cluster, flying, audit[t])
    PROVE  DInv'
<1>1. \A u \in Txns : Spared(u)
  BY Untouched
<1>2. TypeOK
  BY DEF DInv
<1>3. faults' \in 0..MaxFaults /\ reports' \in 0..MaxReports
  BY <1>2, Counted
<1>. QED  BY <1>1, <1>2, <1>3, MovedKeeps DEF TypeOK

\* deploy: the envelope is read, the manifests are rendered and sorted.
LEMMA StartsKeeps ==
    ASSUME DInv, NEW t \in Txns, NEW r \in Requests, Starts(t, r)
    PROVE  DInv'
<1>. DEFINE x == [txn[t] EXCEPT !.pc = "preflight", !.req = r]
<1>1. txn \in [Txns -> Txn] /\ txn[t] \in Txn /\ txn[t].pc = "new"
  BY DEF DInv, TypeOK, Starts
<1>2. Moved(t, x)
  <2>1. x \in Txn
    BY <1>1 DEF Txn, Phases
  <2>2. txn' = [txn EXCEPT ![t] = x]
    BY <1>1 DEF Starts
  <2>. QED  BY <2>1, <2>2 DEF Moved
<1>3. /\ x.pc = "preflight" /\ x.req = r /\ x.seen = txn[t].seen
      /\ x.submitted = txn[t].submitted /\ x.rolled_back = txn[t].rolled_back
  BY <1>1 DEF Txn
<1>. HIDE DEF x
<1>4. Good(t, x, cluster, flying, audit[t])
  BY <1>1, <1>3 DEF DInv, Good, Early
<1>. QED  BY <1>2, <1>4, Quiet DEF Starts

\* The status and removal requests of _parse_action.
LEMMA ToolServedKeeps ==
    ASSUME DInv, NEW t \in Txns, ToolServed(t)
    PROVE  DInv'
<1>. DEFINE x == [txn[t] EXCEPT !.pc = "answered"]
<1>1. txn \in [Txns -> Txn] /\ txn[t] \in Txn /\ txn[t].pc = "new"
  BY DEF DInv, TypeOK, ToolServed
<1>2. Moved(t, x)
  <2>1. x \in Txn
    BY <1>1 DEF Txn, Phases
  <2>2. txn' = [txn EXCEPT ![t] = x]
    BY <1>1 DEF ToolServed
  <2>. QED  BY <2>1, <2>2 DEF Moved
<1>3. x.pc = "answered" /\ x.submitted = txn[t].submitted /\ x.rolled_back = txn[t].rolled_back
  BY <1>1 DEF Txn
<1>. HIDE DEF x
<1>4. Good(t, x, cluster, flying, audit[t])
  BY <1>1, <1>3 DEF DInv, Good, Early
<1>. QED  BY <1>2, <1>4, Quiet DEF ToolServed

\* A failure before the dry run.
LEMMA RefusesKeeps ==
    ASSUME DInv, NEW t \in Txns, NEW phase \in Named \ {"apply"}, Refuses(t, phase)
    PROVE  DInv'
<1>. DEFINE x == [txn[t] EXCEPT !.pc = "failed", !.phase = phase]
<1>1. txn \in [Txns -> Txn] /\ txn[t] \in Txn /\ txn[t].pc \in {"preflight", "dry-run"}
  BY DEF DInv, TypeOK, Refuses
<1>2. Moved(t, x)
  <2>1. x \in Txn
    BY <1>1 DEF Txn, Phases
  <2>2. txn' = [txn EXCEPT ![t] = x]
    BY <1>1 DEF Refuses
  <2>. QED  BY <2>1, <2>2 DEF Moved
<1>3. /\ x.pc = "failed" /\ x.phase = phase /\ x.req = txn[t].req /\ x.seen = txn[t].seen
      /\ x.submitted = txn[t].submitted /\ x.rolled_back = txn[t].rolled_back
  BY <1>1 DEF Txn
<1>. HIDE DEF x
<1>4. Good(t, x, cluster, flying, audit[t])
  BY <1>1, <1>3 DEF DInv, Good, Early
<1>. QED  BY <1>2, <1>4, Quiet DEF Refuses

\* A pre-flight that passes has seen no other holder of a binding.
LEMMA PreflightSees ==
    ASSUME NEW bundle, ~Refused(bundle), NEW o \in bundle \cap Networks,
           NEW p \in Live \cap Networks, Beside(o, p)
    PROVE  o \in Live \cap Networks
<1>. PICK b \in Binds[o] \cap Binds[p] : TRUE
  BY DEF Beside
<1>1. Key(b) \in Keys(o) /\ Key(b) \in Keys(p)
  BY DEF Keys
<1>2. Holders(Key(b)) # {}
  BY <1>1 DEF Holders
<1>3. Holder(Key(b)) = o
  BY <1>1, <1>2 DEF Refused
<1>. QED  BY <1>2, <1>3, HolderIn DEF Holders

\* _preflight_acl_binding lets the bundle through.
LEMMA PreflightPassesKeeps ==
    ASSUME DInv, NEW t \in Txns, PreflightPasses(t)
    PROVE  DInv'
<1>. DEFINE x == [txn[t] EXCEPT !.pc = "dry-run", !.seen = Live \cap Networks]
<1>1. txn \in [Txns -> Txn] /\ txn[t] \in Txn /\ txn[t].pc = "preflight"
  BY DEF DInv, TypeOK, PreflightPasses
<1>2. Moved(t, x)
  <2>1. x \in Txn
    BY <1>1 DEF Txn, Phases, Live
  <2>2. txn' = [txn EXCEPT ![t] = x]
    BY <1>1 DEF PreflightPasses
  <2>. QED  BY <2>1, <2>2 DEF Moved
<1>3. /\ x.pc = "dry-run" /\ x.req = txn[t].req /\ x.seen = Live \cap Networks
      /\ x.submitted = txn[t].submitted /\ x.rolled_back = txn[t].rolled_back
  BY <1>1 DEF Txn
<1>. HIDE DEF x
<1>4. \A o \in x.req.bundle \cap Networks, p \in x.seen : o # p /\ Beside(o, p) => o \in x.seen
  BY <1>3, PreflightSees DEF PreflightPasses, Bundle
<1>5. Good(t, x, cluster, flying, audit[t])
  BY <1>1, <1>3, <1>4 DEF DInv, Good, Early
<1>. QED  BY <1>2, <1>5, Quiet DEF PreflightPasses

\* dry_run_all succeeds.
LEMMA DryRunPassesKeeps ==
    ASSUME DInv, NEW t \in Txns, DryRunPasses(t)
    PROVE  DInv'
<1>. DEFINE x == [txn[t] EXCEPT !.pc = "apply", !.todo = Bundle(t)]
<1>1. /\ txn \in [Txns -> Txn] /\ txn[t] \in Txn /\ txn[t].pc = "dry-run"
      /\ txn[t].req \in Requests
  BY DEF DInv, TypeOK, DryRunPasses, Good
<1>2. Moved(t, x)
  <2>1. x \in Txn
    BY <1>1, DeployAssumption DEF Txn, Phases, Bundle
  <2>2. txn' = [txn EXCEPT ![t] = x]
    BY <1>1 DEF DryRunPasses
  <2>. QED  BY <2>1, <2>2 DEF Moved
<1>3. /\ x.pc = "apply" /\ x.req = txn[t].req /\ x.seen = txn[t].seen
      /\ x.submitted = txn[t].submitted /\ x.todo = txn[t].req.bundle
  BY <1>1 DEF Txn, Bundle
<1>. HIDE DEF x
<1>4. Good(t, x, cluster, flying, audit[t])
  BY <1>1, <1>3 DEF DInv, Good, Early
<1>. QED  BY <1>2, <1>4, Quiet DEF DryRunPasses

\* A step that writes the audit event and leaves the cluster alone.
LEMMA Recorded ==
    ASSUME DInv, NEW t \in Txns, NEW x, Moved(t, x), NEW kind \in {"submit", "refuse"},
           UNCHANGED <<cluster, flying>>, Records(t, kind), Smooth \/ Fault,
           Good(t, x, cluster, flying, kind)
    PROVE  DInv'
<1>1. \A u \in Txns : Spared(u)
  BY Untouched
<1>2. TypeOK
  BY DEF DInv
<1>3. faults' \in 0..MaxFaults /\ reports' \in 0..MaxReports
  BY <1>2, Counted
<1>4. /\ audit' \in [Txns -> {"submit", "refuse", None}] /\ audit'[t] = kind
      /\ \A u \in Txns \ {t} : audit'[u] = audit[u]
  BY <1>2 DEF TypeOK, Records
<1>. QED  BY <1>1, <1>2, <1>3, <1>4, MovedKeeps DEF TypeOK

\* dry_run_all raises.
LEMMA DryRunFailsKeeps ==
    ASSUME DInv, NEW t \in Txns, DryRunFails(t)
    PROVE  DInv'
<1>1. /\ txn \in [Txns -> Txn] /\ txn[t] \in Txn /\ txn[t].pc = "dry-run"
      /\ txn[t].req \in Requests
  BY DEF DInv, TypeOK, DryRunFails, Good
<1>. PICK o \in Bundle(t) : txn' = [txn EXCEPT ![t].pc = "failed", ![t].phase = "dry-run",
                                               ![t].resource = o]
  BY DEF DryRunFails
<1>. DEFINE x == [txn[t] EXCEPT !.pc = "failed", !.phase = "dry-run", !.resource = o]
<1>2. Moved(t, x)
  <2>1. x \in Txn
    BY <1>1, DeployAssumption DEF Txn, Phases, Named, Bundle
  <2>2. txn' = [txn EXCEPT ![t] = x]
    BY <1>1
  <2>. QED  BY <2>1, <2>2 DEF Moved
<1>3. /\ x.pc = "failed" /\ x.phase = "dry-run" /\ x.req = txn[t].req /\ x.seen = txn[t].seen
      /\ x.submitted = txn[t].submitted /\ x.rolled_back = txn[t].rolled_back
  BY <1>1 DEF Txn
<1>. HIDE DEF x
<1>4. Good(t, x, cluster, flying, "refuse")
  BY <1>1, <1>3 DEF DInv, Good, Early
<1>. QED  BY <1>2, <1>4, Recorded DEF DryRunFails

\* apply_all: one object with an answer.
LEMMA AppliesKeeps ==
    ASSUME DInv, NEW t \in Txns, Applies(t)
    PROVE  DInv'
<1>. DEFINE o == First(txn[t].todo)
            x == [txn[t] EXCEPT !.todo = @ \ {o}, !.submitted = @ \cup {o}]
<1>1. /\ txn \in [Txns -> Txn] /\ txn[t] \in Txn /\ txn[t].pc = "apply"
      /\ txn[t].req \in Requests /\ txn[t].todo \subseteq Objects /\ txn[t].todo # {}
  BY DEF DInv, TypeOK, Applies, Good, Txn
<1>2. o \in txn[t].todo /\ o \in Objects
  BY <1>1, FirstIn
<1>3. txn' = [txn EXCEPT ![t] = x] /\ cluster' = [cluster EXCEPT ![o] = Written(o, t)]
  BY <1>1 DEF Applies
<1>. HIDE DEF o
<1>4. Moved(t, x)
  <2>1. x \in Txn
    BY <1>1, <1>2 DEF Txn
  <2>. QED  BY <1>3, <2>1 DEF Moved
<1>5. /\ x.pc = "apply" /\ x.req = txn[t].req /\ x.seen = txn[t].seen
      /\ x.submitted = txn[t].submitted \cup {o} /\ x.todo = txn[t].todo \ {o}
  BY <1>1 DEF Txn
<1>. HIDE DEF x
<1>6. UNCHANGED <<flying, audit>>
  BY DEF Applies
<1>7. /\ cluster' \in [Objects -> Object \cup {None}]
      /\ Mine(t, cluster') \subseteq Mine(t, cluster) \cup {o}
      /\ \A p \in Objects \ {o} : cluster'[p] = cluster[p]
      /\ cluster'[o].corr = txn[t].req.corr /\ cluster'[o].seen = txn[t].seen
      /\ \A u \in Txns \ {t} : \A p \in Mine(u, cluster') :
            p \in Mine(u, cluster) /\ cluster'[p] = cluster[p]
  BY <1>1, <1>2, <1>3, WrittenKeeps
<1>8. Good(t, x, cluster', flying', audit'[t])
  <2>1. \A p \in Mine(t, cluster') :
           cluster'[p].corr = x.req.corr /\ cluster'[p].seen = x.seen /\ p \in x.req.bundle
    BY <1>1, <1>2, <1>5, <1>7 DEF DInv, Good, Mine
  <2>. QED  BY <1>1, <1>2, <1>5, <1>6, <1>7, <2>1 DEF DInv, Good, Early
<1>9. \A u \in Txns \ {t} : Spared(u)
  BY <1>6, <1>7 DEF Spared
<1>10. TypeOK /\ faults' \in 0..MaxFaults /\ reports' \in 0..MaxReports
  BY Counted DEF DInv, Applies
<1>. QED  BY <1>4, <1>6, <1>7, <1>8, <1>9, <1>10, MovedKeeps DEF TypeOK

\* apply_all: the call that starts the rollback, its write done, undone or
\* still on its way.
LEMMA ApplyFailsKeeps ==
    ASSUME DInv, NEW t \in Txns, ApplyFails(t)
    PROVE  DInv'
<1>. DEFINE o == First(txn[t].todo)
            x == [txn[t] EXCEPT !.pc = "list", !.phase = "apply", !.resource = o]
<1>1. /\ txn \in [Txns -> Txn] /\ txn[t] \in Txn /\ txn[t].pc = "apply"
      /\ txn[t].req \in Requests /\ txn[t].todo \subseteq Objects /\ txn[t].todo # {}
  BY DEF DInv, TypeOK, ApplyFails, Good, Txn
<1>2. o \in txn[t].todo /\ o \in Objects
  BY <1>1, FirstIn
<1>3. /\ txn' = [txn EXCEPT ![t] = x] /\ UNCHANGED audit
      /\ \/ UNCHANGED <<cluster, flying>>
         \/ cluster' = [cluster EXCEPT ![o] = Written(o, t)] /\ UNCHANGED flying
         \/ flying' = flying \cup {<<o, t>>} /\ UNCHANGED cluster
  BY <1>1 DEF ApplyFails
<1>. HIDE DEF o
<1>4. Moved(t, x)
  <2>1. x \in Txn
    BY <1>1, <1>2 DEF Txn, Phases, Named
  <2>. QED  BY <1>3, <2>1 DEF Moved
<1>5. /\ x.pc = "list" /\ x.req = txn[t].req /\ x.seen = txn[t].seen /\ x.phase = "apply"
      /\ x.submitted = txn[t].submitted /\ x.resource = o
  BY <1>1 DEF Txn
<1>. HIDE DEF x
<1>6. /\ cluster' \in [Objects -> Object \cup {None}] /\ flying' \subseteq Objects \X Txns
      /\ Mine(t, cluster') \subseteq Mine(t, cluster) \cup {o}
      /\ \A p \in Mine(t, cluster') :
            cluster'[p].corr = txn[t].req.corr /\ cluster'[p].seen = txn[t].seen /\ p \in txn[t].req.bundle
      /\ \A u \in Txns \ {t} : Spared(u)
      /\ \A p \in Objects : <<p, t>> \in flying' => p = o
  <2>1. /\ Mine(t, cluster) \subseteq txn[t].req.bundle /\ o \in txn[t].req.bundle
        /\ \A p \in Mine(t, cluster) :
              cluster[p].corr = txn[t].req.corr /\ cluster[p].seen = txn[t].seen
        /\ \A p \in Objects : <<p, t>> \notin flying
    BY <1>1, <1>2 DEF DInv, Good
  <2>2. cluster \in [Objects -> Object \cup {None}] /\ flying \subseteq Objects \X Txns
    BY DEF DInv, TypeOK
  <2>3. CASE UNCHANGED <<cluster, flying>>
    BY <2>1, <2>2, <2>3, Untouched
  <2>4. CASE cluster' = [cluster EXCEPT ![o] = Written(o, t)] /\ UNCHANGED flying
    <3>1. /\ cluster' \in [Objects -> Object \cup {None}]
          /\ Mine(t, cluster') \subseteq Mine(t, cluster) \cup {o}
          /\ \A p \in Objects \ {o} : cluster'[p] = cluster[p]
          /\ cluster'[o].corr = txn[t].req.corr /\ cluster'[o].seen = txn[t].seen
          /\ \A u \in Txns \ {t} : \A p \in Mine(u, cluster') :
                p \in Mine(u, cluster) /\ cluster'[p] = cluster[p]
      BY <1>1, <1>2, <2>4, WrittenKeeps
    <3>2. \A p \in Mine(t, cluster') :
             cluster'[p].corr = txn[t].req.corr /\ cluster'[p].seen = txn[t].seen /\ p \in txn[t].req.bundle
      BY <2>1, <3>1 DEF Mine
    <3>. QED  BY <2>1, <2>2, <2>4, <3>1, <3>2 DEF Spared
  <2>5. CASE flying' = flying \cup {<<o, t>>} /\ UNCHANGED cluster
    BY <1>2, <2>1, <2>2, <2>5 DEF Spared, Mine
  <2>. QED  BY <1>3, <2>3, <2>4, <2>5
<1>7. Good(t, x, cluster', flying', audit'[t])
  BY <1>1, <1>2, <1>3, <1>5, <1>6 DEF DInv, Good, Early
<1>8. TypeOK /\ faults' \in 0..MaxFaults /\ reports' \in 0..MaxReports
  BY Counted DEF DInv, ApplyFails
<1>. QED  BY <1>3, <1>4, <1>6, <1>7, <1>8, MovedKeeps DEF TypeOK

\* The submit event of a bundle that is applied.
LEMMA AllAppliedKeeps ==
    ASSUME DInv, NEW t \in Txns, AllApplied(t)
    PROVE  DInv'
<1>. DEFINE x == [txn[t] EXCEPT !.pc = "watch", !.todo = txn[t].submitted]
<1>1. /\ txn \in [Txns -> Txn] /\ txn[t] \in Txn /\ txn[t].pc = "apply" /\ txn[t].todo = {}
  BY DEF DInv, TypeOK, AllApplied
<1>2. Moved(t, x)
  <2>1. x \in Txn
    BY <1>1 DEF Txn, Phases
  <2>2. txn' = [txn EXCEPT ![t] = x]
    BY <1>1 DEF AllApplied
  <2>. QED  BY <2>1, <2>2 DEF Moved
<1>3. /\ x.pc = "watch" /\ x.req = txn[t].req /\ x.seen = txn[t].seen
      /\ x.submitted = txn[t].submitted /\ x.todo = txn[t].submitted
  BY <1>1 DEF Txn
<1>. HIDE DEF x
<1>4. /\ txn[t].submitted = txn[t].req.bundle /\ txn[t].req \in Requests
      /\ \A o \in Objects : <<o, t>> \notin flying
  BY <1>1 DEF DInv, Good
<1>5. Good(t, x, cluster, flying, "submit")
  BY <1>1, <1>3, <1>4 DEF DInv, Good, Early
<1>. QED  BY <1>2, <1>5, Recorded DEF AllApplied

-----------------------------------------------------------------------------
\* rollback_by_selector lists by label, so it finds all t wrote.
LEMMA RollbackListsKeeps ==
    ASSUME DInv, NEW t \in Txns, RollbackLists(t)
    PROVE  DInv'
<1>. DEFINE T == {o \in Live : cluster[o].corr = Corr(t)}
            x == [txn[t] EXCEPT !.pc = "delete", !.todo = T]
<1>1. txn \in [Txns -> Txn] /\ txn[t] \in Txn /\ txn[t].pc = "list"
  BY DEF DInv, TypeOK, RollbackLists
<1>2. Mine(t, cluster) \subseteq T
  BY <1>1 DEF DInv, Good, Mine, Live, Corr
<1>3. T \subseteq Objects
  BY DEF Live
<1>4. txn' = [txn EXCEPT ![t] = x]
  BY <1>1 DEF RollbackLists
<1>. HIDE DEF T
<1>5. Moved(t, x)
  <2>1. x \in Txn
    BY <1>1, <1>3 DEF Txn, Phases
  <2>. QED  BY <1>4, <2>1 DEF Moved
<1>6. /\ x.pc = "delete" /\ x.req = txn[t].req /\ x.seen = txn[t].seen /\ x.phase = txn[t].phase
      /\ x.resource = txn[t].resource /\ x.todo = T
  BY <1>1 DEF Txn
<1>. HIDE DEF x
<1>7. Good(t, x, cluster, flying, audit[t])
  BY <1>1, <1>2, <1>6 DEF DInv, Good, Early
<1>. QED  BY <1>5, <1>7, Quiet DEF RollbackLists

\* The list fails: what was applied is reported to survive.
LEMMA RollbackListFailsKeeps ==
    ASSUME DInv, NEW t \in Txns, RollbackListFails(t)
    PROVE  DInv'
<1>. DEFINE x == [txn[t] EXCEPT !.pc = "failed", !.survivors = txn[t].submitted]
<1>1. txn \in [Txns -> Txn] /\ txn[t] \in Txn /\ txn[t].pc = "list"
  BY DEF DInv, TypeOK, RollbackListFails
<1>2. Moved(t, x)
  <2>1. x \in Txn
    BY <1>1 DEF Txn, Phases
  <2>2. txn' = [txn EXCEPT ![t] = x]
    BY <1>1 DEF RollbackListFails
  <2>. QED  BY <2>1, <2>2 DEF Moved
<1>3. /\ x.pc = "failed" /\ x.req = txn[t].req /\ x.seen = txn[t].seen /\ x.phase = txn[t].phase
      /\ x.resource = txn[t].resource /\ x.survivors = txn[t].submitted
  BY <1>1 DEF Txn
<1>. HIDE DEF x
<1>4. Good(t, x, cluster, flying, "refuse")
  BY <1>1, <1>3 DEF DInv, Good, Early
<1>. QED  BY <1>2, <1>4, Recorded DEF RollbackListFails

\* The rollback is through its list.
LEMMA RolledBackKeeps ==
    ASSUME DInv, NEW t \in Txns, RolledBack(t)
    PROVE  DInv'
<1>. DEFINE x == [txn[t] EXCEPT !.pc = "failed"]
<1>1. txn \in [Txns -> Txn] /\ txn[t] \in Txn /\ txn[t].pc = "delete" /\ txn[t].todo = {}
  BY DEF DInv, TypeOK, RolledBack
<1>2. Moved(t, x)
  <2>1. x \in Txn
    BY <1>1 DEF Txn, Phases
  <2>2. txn' = [txn EXCEPT ![t] = x]
    BY <1>1 DEF RolledBack
  <2>. QED  BY <2>1, <2>2 DEF Moved
<1>3. /\ x.pc = "failed" /\ x.req = txn[t].req /\ x.seen = txn[t].seen /\ x.phase = txn[t].phase
      /\ x.resource = txn[t].resource /\ x.survivors = txn[t].survivors
  BY <1>1 DEF Txn
<1>. HIDE DEF x
<1>4. Good(t, x, cluster, flying, "refuse")
  BY <1>1, <1>3 DEF DInv, Good, Early
<1>. QED  BY <1>2, <1>4, Recorded DEF RolledBack

\* A delete by t of the next object of its list, which it handles or names
\* as a survivor.
LEMMA DeletesKeep ==
    ASSUME DInv, NEW t \in Txns, txn[t].pc = "delete", NEW o \in Objects, NEW x, Moved(t, x),
           UNCHANGED <<flying, audit>>, Smooth \/ Fault,
           x.pc = "delete" /\ x.req = txn[t].req /\ x.seen = txn[t].seen,
           x.phase = txn[t].phase /\ x.resource = txn[t].resource /\ x.todo = txn[t].todo \ {o},
           \/ cluster' = Removed(o) /\ x.survivors = txn[t].survivors
           \/ (cluster' = Removed(o) \/ UNCHANGED cluster) /\ x.survivors = txn[t].survivors \cup {o}
    PROVE  DInv'
<1>1. TypeOK /\ faults' \in 0..MaxFaults /\ reports' \in 0..MaxReports
  BY Counted DEF DInv
<1>2. /\ cluster' \in [Objects -> Object \cup {None}]
      /\ \A u \in Txns : Spared(u)
      /\ \A p \in Objects \ {o} : cluster'[p] = cluster[p]
  BY <1>1, RemovedKeeps, Untouched DEF TypeOK
<1>3. \A p \in Mine(t, cluster') : cluster'[p].going \/ p \in x.todo \cup x.survivors \cup {x.resource}
  <2>. TAKE p \in Mine(t, cluster')
  <2>1. p \in Mine(t, cluster) /\ (cluster[p].going => cluster'[p].going)
    BY <1>2 DEF Spared
  <2>2. cluster[p].going \/ p \in txn[t].todo \cup txn[t].survivors \cup {txn[t].resource}
    BY <2>1 DEF DInv, Good
  <2>3. CASE p = o
    <3>1. CASE o \in x.survivors
      BY <2>3, <3>1
    <3>2. CASE cluster' = Removed(o)
      BY <2>3, <3>2, RemovedKeeps DEF Mine
    <3>. QED  BY <3>1, <3>2
  <2>4. CASE p # o
    BY <2>1, <2>2, <2>4
  <2>. QED  BY <2>3, <2>4
<1>4. Good(t, x, cluster', flying', audit'[t])
  BY <1>2, <1>3 DEF DInv, Good, Early, Spared
<1>. QED  BY <1>1, <1>2, <1>4, MovedKeeps DEF TypeOK

\* A DELETE with an answer.
LEMMA DeletesKeeps ==
    ASSUME DInv, NEW t \in Txns, Deletes(t)
    PROVE  DInv'
<1>. DEFINE o == First(txn[t].todo)
            x == [txn[t] EXCEPT !.todo = @ \ {o}, !.rolled_back = @ \cup {o}]
<1>1. /\ txn \in [Txns -> Txn] /\ txn[t] \in Txn /\ txn[t].pc = "delete"
      /\ txn[t].todo \subseteq Objects /\ txn[t].todo # {}
  BY DEF DInv, TypeOK, Deletes, Txn
<1>2. o \in Objects
  BY <1>1, FirstIn
<1>3. txn' = [txn EXCEPT ![t] = x] /\ cluster' = Removed(o) /\ UNCHANGED <<flying, audit>>
  BY <1>1 DEF Deletes
<1>. HIDE DEF o
<1>4. Moved(t, x)
  <2>1. x \in Txn
    BY <1>1, <1>2 DEF Txn
  <2>. QED  BY <1>3, <2>1 DEF Moved
<1>5. /\ x.pc = "delete" /\ x.req = txn[t].req /\ x.seen = txn[t].seen
      /\ x.phase = txn[t].phase /\ x.resource = txn[t].resource /\ x.todo = txn[t].todo \ {o}
      /\ x.survivors = txn[t].survivors
  BY <1>1 DEF Txn
<1>. HIDE DEF x
<1>. QED  BY <1>1, <1>2, <1>3, <1>4, <1>5, DeletesKeep DEF Deletes

\* A DELETE without one: the object is a survivor.
LEMMA DeleteFailsKeeps ==
    ASSUME DInv, NEW t \in Txns, DeleteFails(t)
    PROVE  DInv'
<1>. DEFINE o == First(txn[t].todo)
            x == [txn[t] EXCEPT !.todo = @ \ {o}, !.survivors = @ \cup {o}]
<1>1. /\ txn \in [Txns -> Txn] /\ txn[t] \in Txn /\ txn[t].pc = "delete"
      /\ txn[t].todo \subseteq Objects /\ txn[t].todo # {}
  BY DEF DInv, TypeOK, DeleteFails, Txn
<1>2. o \in Objects
  BY <1>1, FirstIn
<1>3. /\ txn' = [txn EXCEPT ![t] = x] /\ (cluster' = Removed(o) \/ UNCHANGED cluster)
      /\ UNCHANGED <<flying, audit>>
  BY <1>1 DEF DeleteFails
<1>. HIDE DEF o
<1>4. Moved(t, x)
  <2>1. x \in Txn
    BY <1>1, <1>2 DEF Txn
  <2>. QED  BY <1>3, <2>1 DEF Moved
<1>5. /\ x.pc = "delete" /\ x.req = txn[t].req /\ x.seen = txn[t].seen
      /\ x.phase = txn[t].phase /\ x.resource = txn[t].resource /\ x.todo = txn[t].todo \ {o}
      /\ x.survivors = txn[t].survivors \cup {o}
  BY <1>1 DEF Txn
<1>. HIDE DEF x
<1>. QED  BY <1>1, <1>2, <1>3, <1>4, <1>5, DeletesKeep DEF DeleteFails

-----------------------------------------------------------------------------
\* One read of watch_convergence.
LEMMA PollsKeeps ==
    ASSUME DInv, NEW t \in Txns, Polls(t)
    PROVE  DInv'
<1>1. txn \in [Txns -> Txn] /\ txn[t] \in Txn /\ txn[t].pc = "watch"
  BY DEF DInv, TypeOK, Polls
<1>. PICK o \in txn[t].todo :
        /\ Observed(o) # "pending"
        /\ txn' = [txn EXCEPT ![t].todo = @ \ {o}, ![t].outcome[o] = Observed(o)]
  BY DEF Polls
<1>. DEFINE out == [txn[t].outcome EXCEPT ![o] = Observed(o)]
            x == [txn[t] EXCEPT !.todo = @ \ {o}, !.outcome = out]
<1>2. Observed(o) \in {"failed", "ready"}
  BY DEF Observed
<1>3. /\ txn[t].outcome \in [Objects -> Outcomes \cup {None}] /\ o \in Objects
      /\ txn' = [txn EXCEPT ![t] = x]
  BY <1>1 DEF Txn
<1>4. /\ out \in [Objects -> Outcomes \cup {None}] /\ out[o] # None
      /\ \A p \in Objects \ {o} : out[p] = txn[t].outcome[p]
  BY <1>2, <1>3, DeployAssumption DEF Outcomes
<1>. HIDE DEF out
<1>5. Moved(t, x)
  <2>1. x \in Txn
    BY <1>1, <1>4 DEF Txn
  <2>. QED  BY <1>3, <2>1 DEF Moved
<1>6. /\ x.pc = "watch" /\ x.req = txn[t].req /\ x.seen = txn[t].seen
      /\ x.submitted = txn[t].submitted /\ x.todo = txn[t].todo \ {o} /\ x.outcome = out
  BY <1>1 DEF Txn
<1>7. txn[t].submitted \subseteq Objects /\ txn[t].submitted = txn[t].req.bundle
  BY <1>1 DEF DInv, Good, Txn
<1>. HIDE DEF x
<1>8. \A p \in x.req.bundle : p \in x.todo \/ x.outcome[p] # None
  <2>. TAKE p \in x.req.bundle
  <2>1. p \in txn[t].todo \/ txn[t].outcome[p] # None
    BY <1>1, <1>6 DEF DInv, Good
  <2>. QED  BY <1>4, <1>6, <1>7, <2>1
<1>9. Good(t, x, cluster, flying, audit[t])
  BY <1>1, <1>6, <1>8 DEF DInv, Good, Early
<1>. QED  BY <1>5, <1>9, Quiet DEF Polls

\* The watch is over; what it did not observe is a timeout.
LEMMA WatchEndsKeeps ==
    ASSUME DInv, NEW t \in Txns, WatchEnds(t)
    PROVE  DInv'
<1>. DEFINE out == [o \in Objects |-> IF o \in txn[t].todo THEN "timeout" ELSE txn[t].outcome[o]]
            x == [txn[t] EXCEPT !.pc = "submitted", !.outcome = out]
<1>1. txn \in [Txns -> Txn] /\ txn[t] \in Txn /\ txn[t].pc = "watch"
  BY DEF DInv, TypeOK, WatchEnds
<1>2. txn' = [txn EXCEPT ![t] = x]
  BY <1>1 DEF WatchEnds
<1>3. /\ out \in [Objects -> Outcomes \cup {None}]
      /\ \A o \in Objects : o \in txn[t].todo \/ txn[t].outcome[o] # None => out[o] # None
  BY <1>1, DeployAssumption DEF Outcomes, Txn
<1>. HIDE DEF out
<1>4. Moved(t, x)
  <2>1. x \in Txn
    BY <1>1, <1>3 DEF Txn, Phases
  <2>. QED  BY <1>2, <2>1 DEF Moved
<1>5. /\ x.pc = "submitted" /\ x.req = txn[t].req /\ x.seen = txn[t].seen
      /\ x.submitted = txn[t].submitted /\ x.outcome = out
  BY <1>1 DEF Txn
<1>6. txn[t].submitted \subseteq Objects /\ txn[t].submitted = txn[t].req.bundle
  BY <1>1 DEF DInv, Good, Txn
<1>. HIDE DEF x
<1>7. \A o \in x.req.bundle : x.outcome[o] # None
  BY <1>1, <1>3, <1>5, <1>6 DEF DInv, Good
<1>8. Good(t, x, cluster, flying, audit[t])
  BY <1>1, <1>5, <1>7 DEF DInv, Good, Early
<1>. QED  BY <1>4, <1>8, Quiet DEF WatchEnds

-----------------------------------------------------------------------------
\* A write given up on is carried out: its transaction has failed on that
\* very object or was killed.
LEMMA LandsKeeps ==
    ASSUME DInv, NEW t \in Txns, NEW o \in Objects, Lands(o, t)
    PROVE  DInv'
<1>. DEFINE x == txn[t]
<1>1. /\ x \in Txn /\ txn \in [Txns -> Txn] /\ txn' = txn /\ UNCHANGED audit
      /\ <<o, t>> \in flying /\ flying' = flying \ {<<o, t>>}
      /\ cluster' = [cluster EXCEPT ![o] = Written(o, t)]
  BY DEF DInv, TypeOK, Lands
<1>2. Moved(t, x)
  BY <1>1 DEF Moved
<1>3. /\ x.pc \in {"list", "delete", "failed", "lost"} /\ o \in x.req.bundle
      /\ x.pc # "lost" => x.phase = "apply" /\ o = x.resource
  BY <1>1 DEF DInv, Good
<1>. HIDE DEF x
<1>4. /\ cluster' \in [Objects -> Object \cup {None}]
      /\ Mine(t, cluster') \subseteq Mine(t, cluster) \cup {o}
      /\ \A p \in Objects \ {o} : cluster'[p] = cluster[p]
      /\ cluster'[o].corr = x.req.corr /\ cluster'[o].seen = x.seen
      /\ \A u \in Txns \ {t} : \A p \in Mine(u, cluster') :
            p \in Mine(u, cluster) /\ cluster'[p] = cluster[p]
  BY <1>1, <1>3, WrittenKeeps DEF x
<1>5. Good(t, x, cluster, flying, audit[t])
  BY DEF DInv, x
<1>6. Good(t, x, cluster', flying', audit'[t])
  <2>1. \A p \in Mine(t, cluster') :
           cluster'[p].corr = x.req.corr /\ cluster'[p].seen = x.seen /\ p \in x.req.bundle
    BY <1>3, <1>4, <1>5 DEF Good, Mine
  <2>2. \A p \in Mine(t, cluster') : p = o \/ (p \in Mine(t, cluster) /\ cluster'[p] = cluster[p])
    BY <1>4 DEF Mine
  <2>. QED  BY <1>1, <1>3, <1>4, <1>5, <2>1, <2>2 DEF Good, Early
<1>7. \A u \in Txns \ {t} : Spared(u) /\ audit'[u] = audit[u]
  BY <1>1, <1>4 DEF Spared
<1>8. TypeOK /\ faults' \in 0..MaxFaults /\ reports' \in 0..MaxReports
  BY Counted DEF DInv, Lands
<1>. QED  BY <1>1, <1>2, <1>4, <1>6, <1>7, <1>8, MovedKeeps DEF TypeOK

\* A step that is no transaction's own.
LEMMA AsideKeeps ==
    ASSUME DInv, UNCHANGED <<txn, audit>>, TypeOK', \A u \in Txns : Spared(u)
    PROVE  DInv'
<1>1. ASSUME NEW u \in Txns
      PROVE  Good(u, txn'[u], cluster', flying', audit'[u])
  BY <1>1, GoodSpared DEF DInv
<1>. QED  BY <1>1 DEF DInv

\* A controller sets the Ready condition.
LEMMA ControllerReportsKeeps ==
    ASSUME DInv, NEW o \in Objects, NEW c \in Conditions, ControllerReports(o, c)
    PROVE  DInv'
<1>1. /\ cluster \in [Objects -> Object \cup {None}] /\ cluster[o] # None
      /\ cluster' = [cluster EXCEPT ![o].cond = c] /\ UNCHANGED <<flying, txn, audit, faults>>
  BY DEF DInv, TypeOK, ControllerReports, Live
<1>2. /\ cluster'[o] = [cluster[o] EXCEPT !.cond = c]
      /\ \A p \in Objects \ {o} : cluster'[p] = cluster[p]
  BY <1>1
<1>3. /\ cluster'[o] \in Object /\ cluster'[o].by = cluster[o].by
      /\ cluster'[o].corr = cluster[o].corr /\ cluster'[o].seen = cluster[o].seen
      /\ cluster'[o].going = cluster[o].going
  BY <1>1, <1>2 DEF Object
<1>4. TypeOK'
  <2>1. reports' \in 0..MaxReports
    BY DeployAssumption DEF DInv, TypeOK, ControllerReports
  <2>2. cluster' \in [Objects -> Object \cup {None}]
    BY <1>1, <1>2, <1>3
  <2>. QED  BY <1>1, <2>1, <2>2 DEF DInv, TypeOK
<1>5. \A u \in Txns : Spared(u)
  BY <1>1, <1>2, <1>3 DEF Spared, Mine
<1>. QED  BY <1>1, <1>4, <1>5, AsideKeeps

\* A controller removes its finalizer from a terminating object.
LEMMA ControllerFinalizesKeeps ==
    ASSUME DInv, NEW o \in Objects, ControllerFinalizes(o)
    PROVE  DInv'
<1>1. /\ cluster \in [Objects -> Object \cup {None}]
      /\ cluster' = [cluster EXCEPT ![o] = None] /\ UNCHANGED <<flying, txn, audit, counters>>
  BY DEF DInv, TypeOK, ControllerFinalizes, Smooth
<1>2. cluster'[o] = None /\ \A p \in Objects \ {o} : cluster'[p] = cluster[p]
  BY <1>1
<1>3. TypeOK'
  BY <1>1 DEF DInv, TypeOK, counters
<1>4. \A u \in Txns : Spared(u)
  BY <1>1, <1>2 DEF Spared, Mine
<1>. QED  BY <1>1, <1>3, <1>4, AsideKeeps

\* The pod is killed: open transactions are lost, without a report.
LEMMA WorkerKilledKeeps ==
    ASSUME DInv, WorkerKilled
    PROVE  DInv'
<1>. DEFINE Closed == {"new", "submitted", "failed", "lost", "answered"}
<1>1. /\ txn \in [Txns -> Txn] /\ UNCHANGED <<cluster, audit>>
      /\ txn' = [t \in Txns |-> IF txn[t].pc \in Closed
                                  THEN txn[t] ELSE [txn[t] EXCEPT !.pc = "lost"]]
  BY DEF DInv, TypeOK, WorkerKilled
<1>2. ASSUME NEW u \in Txns, txn[u].pc \notin Closed
      PROVE  /\ txn'[u] \in Txn /\ txn'[u].pc = "lost" /\ txn'[u].req = txn[u].req
             /\ txn'[u].seen = txn[u].seen
  BY <1>1, <1>2 DEF Txn, Phases
<1>3. ASSUME NEW u \in Txns, txn[u].pc \in Closed
      PROVE  txn'[u] = txn[u]
  BY <1>1, <1>3
<1>4. /\ flying' \subseteq Objects \X Txns
      /\ \A u \in Txns, o \in Objects : <<o, u>> \in flying' \ flying =>
            txn[u].pc = "apply" /\ o \in txn[u].req.bundle
  <2>1. CASE UNCHANGED flying
    BY <2>1 DEF DInv, TypeOK
  <2>2. CASE ~UNCHANGED flying
    <3>. PICK t \in Txns : /\ txn[t].pc = "apply" /\ txn[t].todo # {}
                           /\ flying' = flying \cup {<<First(txn[t].todo), t>>}
      BY <2>2 DEF WorkerKilled
    <3>1. txn[t].todo \subseteq Objects
      BY <1>1 DEF Txn
    <3>2. First(txn[t].todo) \in txn[t].todo
      BY <3>1, FirstIn
    <3>3. txn[t].todo \subseteq txn[t].req.bundle
      BY DEF DInv, Good
    <3>. HIDE DEF First
    <3>. QED  BY <3>1, <3>2, <3>3 DEF DInv, TypeOK
  <2>. QED  BY <2>1, <2>2
<1>5. TypeOK'
  <2>1. txn' \in [Txns -> Txn]
    BY <1>1, <1>2, <1>3
  <2>2. faults' \in 0..MaxFaults /\ reports' \in 0..MaxReports
    BY Counted DEF DInv, WorkerKilled
  <2>. QED  BY <1>1, <1>4, <2>1, <2>2 DEF DInv, TypeOK
<1>6. ASSUME NEW u \in Txns
      PROVE  Good(u, txn'[u], cluster', flying', audit'[u])
  <2>1. Good(u, txn[u], cluster, flying, audit[u])
    BY DEF DInv
  <2>2. CASE txn[u].pc \in Closed
    <3>1. \A o \in Objects : <<o, u>> \in flying' => <<o, u>> \in flying
      BY <1>4, <2>2
    <3>2. Spared(u)
      BY <1>1, <3>1 DEF Spared, Mine
    <3>. QED  BY <1>1, <1>3, <2>1, <2>2, <3>2, GoodSpared
  <2>3. CASE txn[u].pc \notin Closed
    <3>1. /\ txn'[u].pc = "lost" /\ txn'[u].req = txn[u].req /\ txn'[u].seen = txn[u].seen
          /\ txn[u].pc \notin Closed
      BY <1>2, <2>3
    <3>2. \A o \in Objects : <<o, u>> \in flying' => o \in txn[u].req.bundle
      BY <1>4, <2>1 DEF Good
    <3>. QED  BY <1>1, <2>1, <3>1, <3>2 DEF Good, Early
  <2>. QED  BY <2>2, <2>3
<1>. QED  BY <1>5, <1>6 DEF DInv

-----------------------------------------------------------------------------
\* An empty namespace.
LEMMA InitDInv == Init => DInv
<1>. SUFFICES ASSUME Init PROVE DInv
  OBVIOUS
<1>1. Fresh \in Txn
  BY DEF Fresh, Txn, Phases
<1>2. TypeOK
  BY <1>1, DeployAssumption DEF Init, TypeOK
<1>3. ASSUME NEW t \in Txns
      PROVE  Good(t, txn[t], cluster, flying, audit[t])
  <2>1. /\ txn[t].pc = "new" /\ txn[t].seen = {} /\ txn[t].submitted = {}
        /\ txn[t].rolled_back = {} /\ flying = {} /\ audit[t] = None
    BY DEF Init, Fresh
  <2>2. Mine(t, cluster) = {}
    BY DEF Init, Mine
  <2>3. None # "submit" /\ None # "refuse"
    BY DeployAssumption
  <2>. QED  BY <2>1, <2>2, <2>3 DEF Good
<1>. QED  BY <1>2, <1>3 DEF DInv

\* One case per action.
LEMMA NextDInv == DInv /\ [Next]_vars => DInv'
<1>. SUFFICES ASSUME DInv, [Next]_vars PROVE DInv'
  OBVIOUS
<1>1. ASSUME NEW t \in Txns, ToolServed(t) \/ \E r \in Requests : Starts(t, r)
      PROVE  DInv'
  BY <1>1, ToolServedKeeps, StartsKeeps
<1>2. ASSUME NEW t \in Txns, Opening(t)
      PROVE  DInv'
  <2>1. CASE PreflightPasses(t)
    BY <2>1, PreflightPassesKeeps
  <2>2. CASE DryRunPasses(t) \/ DryRunFails(t)
    BY <2>2, DryRunPassesKeeps, DryRunFailsKeeps
  <2>3. CASE \E phase \in Named \ {"apply"} : Refuses(t, phase)
    BY <2>3, RefusesKeeps
  <2>. QED  BY <1>2, <2>1, <2>2, <2>3
         DEF Opening, RequestRefused, NotTranslated, ManifestsRefused, Unidentified,
             PreflightUnread, PreflightRefuses, Named
<1>3. ASSUME NEW t \in Txns, Applying(t)
      PROVE  DInv'
  BY <1>3, AppliesKeeps, ApplyFailsKeeps, AllAppliedKeeps DEF Applying
<1>4. ASSUME NEW t \in Txns, RollingBack(t)
      PROVE  DInv'
  BY <1>4, RollbackListsKeeps, RollbackListFailsKeeps, DeletesKeeps, DeleteFailsKeeps,
     RolledBackKeeps DEF RollingBack
<1>5. ASSUME NEW t \in Txns, Watching(t)
      PROVE  DInv'
  BY <1>5, PollsKeeps, WatchEndsKeeps DEF Watching
<1>6. CASE Environment
  <2>1. ASSUME NEW o \in Objects, ControllerFinalizes(o) \/ \E t \in Txns : Lands(o, t)
        PROVE  DInv'
    BY <2>1, ControllerFinalizesKeeps, LandsKeeps
  <2>2. ASSUME NEW o \in Objects, NEW c \in Reported, ControllerReports(o, c)
        PROVE  DInv'
    BY <2>2, ControllerReportsKeeps, DeployAssumption
  <2>. QED  BY <1>6, <2>1, <2>2, WorkerKilledKeeps DEF Environment
<1>7. CASE UNCHANGED vars
  <2>1. TypeOK'
    BY <1>7 DEF DInv, TypeOK, vars, counters
  <2>. QED  BY <1>7, <2>1, Untouched, AsideKeeps DEF vars
<1>. QED  BY <1>1, <1>2, <1>3, <1>4, <1>5, <1>6, <1>7 DEF Next, Step

\* The invariant holds of every reachable state.
LEMMA Invariance == Spec => []DInv
BY InitDInv, NextDInv, PTL DEF Spec

-----------------------------------------------------------------------------
\* Every state is of its type.
THEOREM TypeCorrect == Spec => []TypeOK
<1>1. DInv => TypeOK
  BY DEF DInv
<1>. QED  BY <1>1, Invariance, PTL

\* A failed transaction names what it leaves behind (submit.py:563-636),
\* with any number of transactions, lost answers and late writes.
THEOREM FailuresAccounted == Spec => []FailureAccountsForAll
<1>1. DInv => FailureAccountsForAll
  <2>. SUFFICES ASSUME DInv, NEW t \in Txns, txn[t].pc = "failed",
                       NEW o \in Live, cluster[o].by = t, ~cluster[o].going
                PROVE  o \in txn[t].survivors \cup {txn[t].resource}
    BY DEF FailureAccountsForAll
  <2>. QED  BY DEF DInv, Good, Mine, Live
<1>. QED  BY <1>1, Invariance, PTL

\* No service is admitted beside one that its pre-flight listed on the same
\* port and stage (submit.py:449-540).
THEOREM SecondRefused == Spec => []AclSecondRefused
<1>1. DInv => AclSecondRefused
  <2>. SUFFICES ASSUME DInv, NEW o \in Live \cap Networks, NEW p \in Live \cap Networks,
                       o # p, Binds[o] \cap Binds[p] # {}, p \in cluster[o].seen
                PROVE  o \in cluster[o].seen
    BY DEF AclSecondRefused
  <2>. DEFINE t == cluster[o].by
  <2>1. o \in Objects /\ cluster[o] \in Object
    BY DEF Live, DInv, TypeOK
  <2>2. t \in Txns /\ o \in Mine(t, cluster)
    BY <2>1 DEF Object, Mine, Live
  <2>. HIDE DEF t
  <2>3. txn[t].pc \notin {"new", "answered"}
    BY <2>2 DEF DInv, Good, Early
  <2>4. cluster[o].seen = txn[t].seen /\ o \in txn[t].req.bundle
    BY <2>2 DEF DInv, Good
  <2>. QED  BY <2>2, <2>3, <2>4 DEF DInv, Good, Beside
<1>. QED  BY <1>1, Invariance, PTL

\* A report of success covers the whole bundle, one of an early failure a
\* cluster left alone, and the audit event agrees (submit.py:658-770).
THEOREM ReportsWhole == Spec => []ReportsAreWhole
<1>1. DInv => ReportsAreWhole
  <2>. SUFFICES ASSUME DInv, NEW t \in Txns
                PROVE  /\ txn[t].pc = "submitted" =>
                             /\ txn[t].submitted = Bundle(t)
                             /\ \A o \in Bundle(t) : txn[t].outcome[o] # None
                       /\ txn[t].pc = "failed" /\ txn[t].phase # "apply" =>
                             txn[t].rolled_back = {} /\ \A o \in Live : cluster[o].by # t
                       /\ audit[t] = "submit" => txn[t].pc \in {"watch", "submitted", "lost"}
                       /\ audit[t] = "refuse" => txn[t].pc = "failed"
    BY DEF ReportsAreWhole
  <2>1. Good(t, txn[t], cluster, flying, audit[t])
    BY DEF DInv
  <2>2. Mine(t, cluster) = {} => \A o \in Live : cluster[o].by # t
    BY DEF Mine, Live
  <2>. QED  BY <2>1, <2>2 DEF Good, Early, Bundle
<1>. QED  BY <1>1, Invariance, PTL

=============================================================================
