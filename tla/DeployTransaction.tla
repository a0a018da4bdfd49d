------------------------- MODULE DeployTransaction -------------------------
(***************************************************************************)
(* The deployer worker (agents/provisioning/deployer): the transaction     *)
(* that turns an approved intent into Network and SRv6Service objects, the *)
(* watch that follows them, and the status answer.                         *)
(*                                                                         *)
(* A transaction runs in a thread of its own (asyncio.to_thread), so       *)
(* several run at a time; the same request may run twice, because the      *)
(* supervisor sends it again when its call times out.  The cluster is      *)
(* shared with the controllers, which set the Ready condition and hold     *)
(* finalizers.  A write that the API server did not answer may still be    *)
(* carried out later.                                                      *)
(*                                                                         *)
(* An object is a number; their order is the order of namespace, kind and  *)
(* name (deterministic_apply_order), Network before SRv6Service.  A spec   *)
(* is its attachments and the stages of its access lists.                  *)
(* One transaction is used once.                                           *)
(***************************************************************************)
EXTENDS Integers

CONSTANTS
    Txns,       \* transactions
    LastObject, \* the objects the translator may render are 1..LastObject
    Networks,   \* those of kind Network; the others are SRv6Services
    Attachments, Stages, \* of object o: its <<node, port>>, the stages of its access lists
    Corrs,      \* correlation ids, one per conversation thread
    Requests,   \* envelopes, as [corr, bundle] with the objects rendered from the intent
    Finalized,  \* objects whose controller holds a finalizer
    MaxFaults,  \* bound on failing calls and kills
    Reported,   \* the conditions that controllers may report
    MaxReports, \* bound on the condition changes of the controllers
    None

\* In the order of namespace, kind and name.
Objects == 1..LastObject

\* What the status of an object says.  ready: its Ready condition ("none": there
\* is none, or it is unknown).  failed: a Failed or Error condition that is True,
\* listed before the Ready condition ("first") or after it ("last"), or none of
\* them but a status.phase of failure.
Conditions == [ready : {"none", "false", "true"}, failed : {"no", "first", "last", "phase"}]

ASSUME DeployAssumption ==
    /\ LastObject \in Nat /\ Networks \subseteq Objects /\ Finalized \subseteq Objects
    /\ \A o \in Networks, p \in Objects \ Networks : o < p
    /\ Reported \subseteq Conditions
    /\ Requests \subseteq [corr : Corrs, bundle : (SUBSET Objects) \ {{}}]
    /\ MaxFaults \in Nat /\ MaxReports \in Nat
    /\ None \notin Objects /\ None \notin Corrs /\ None \notin Requests
    /\ None \notin {"submit", "refuse", "ready", "failed", "timeout"}

VARIABLES
    cluster,   \* the objects in the intent namespace
    flying,    \* writes without an answer that the API server may still carry out
    txn,       \* the transactions
    audit,     \* the audit event each wrote
    faults, reports   \* counters

counters == <<faults, reports>>
vars == <<cluster, flying, txn, audit, counters>>

\* by and seen are history: the transaction that wrote the object last and
\* the Networks its pre-flight listed.
Object == [corr : Corrs, by : Txns, seen : SUBSET Objects, cond : Conditions, going : BOOLEAN]
Outcomes == {"ready", "failed", "timeout"}
Phases == {"new", "preflight", "dry-run", "apply", "list", "delete", "watch",
           "submitted", "failed", "lost", "answered"}
\* The phase a failure report names.
Named == {"request-validation", "translation", "manifest-validation", "cluster-identity",
          "pre-flight", "dry-run", "apply"}
Txn == [pc : Phases, req : Requests \cup {None}, seen : SUBSET Objects,
        todo : SUBSET Objects,      \* objects the present loop has yet to handle
        submitted : SUBSET Objects, \* applied, with an answer
        phase : Named \cup {None}, resource : Objects \cup {None},
        rolled_back : SUBSET Objects, survivors : SUBSET Objects,
        outcome : [Objects -> Outcomes \cup {None}]]

TypeOK ==
    /\ cluster \in [Objects -> Object \cup {None}]
    /\ flying \subseteq Objects \X Txns
    /\ txn \in [Txns -> Txn]
    /\ audit \in [Txns -> {"submit", "refuse", None}]
    /\ faults \in 0..MaxFaults /\ reports \in 0..MaxReports

Fresh == [pc |-> "new", req |-> None, seen |-> {}, todo |-> {}, submitted |-> {},
          phase |-> None, resource |-> None, rolled_back |-> {}, survivors |-> {},
          outcome |-> [o \in Objects |-> None]]

Init ==
    /\ cluster = [o \in Objects |-> None] /\ flying = {}
    /\ txn = [t \in Txns |-> Fresh] /\ audit = [t \in Txns |-> None] /\ faults = 0 /\ reports = 0

Live == {o \in Objects : cluster[o] # None}
First(S) == CHOOSE o \in S : \A p \in S : o <= p
Fault == faults < MaxFaults /\ faults' = faults + 1 /\ UNCHANGED reports
Smooth == UNCHANGED counters
Bundle(t) == txn[t].req.bundle
Corr(t) == txn[t].req.corr

-----------------------------------------------------------------------------
(* Before the first write *)

\* parse_deployment_envelope found a submission; the schema accepts its
\* intent, the translator's manifests are checked, stamped with the
\* correlation id and sorted.
Starts(t, r) ==
    /\ txn[t].pc = "new"
    /\ txn' = [txn EXCEPT ![t].pc = "preflight", ![t].req = r]
    /\ UNCHANGED <<cluster, flying, audit>> /\ Smooth

\* _parse_action: any other text is a question for a status, a removal, or
\* unknown.  The status answer only reads; remove_service is a
\* stub that deletes nothing.
ToolServed(t) ==
    /\ txn[t].pc = "new"
    /\ txn' = [txn EXCEPT ![t].pc = "answered"]
    /\ UNCHANGED <<cluster, flying, audit>> /\ Smooth

\* No condition of any kind yet.
NoConditions == [ready |-> "none", failed |-> "no"]

\* A failure before the dry run: named, without effect and not audited.
Refuses(t, phase) ==
    /\ txn[t].pc \in {"preflight", "dry-run"}
    /\ txn' = [txn EXCEPT ![t].pc = "failed", ![t].phase = phase]
    /\ UNCHANGED <<cluster, flying, audit>> /\ Smooth

\* A malformed envelope, context or intent.
RequestRefused(t) == txn[t].pc = "preflight" /\ Refuses(t, "request-validation")
\* submit_service raises, or answers without manifests.
NotTranslated(t) == txn[t].pc = "preflight" /\ Refuses(t, "translation")
\* A kind, name or duplicate the worker does not apply, or an empty bundle.
ManifestsRefused(t) == txn[t].pc = "preflight" /\ Refuses(t, "manifest-validation")
\* No service-account token to build a client with: one is built for the
\* pre-flight, and another one after it.
Unidentified(t) == Refuses(t, "cluster-identity")
\* The list of Networks fails.
PreflightUnread(t) == txn[t].pc = "preflight" /\ Refuses(t, "pre-flight")

\* Every access list of a service is bound at its stage on all its attachments.
Binds == [o \in Objects |-> {<<a[1], a[2], s>> : a \in Attachments[o], s \in Stages[o]}]
\* The key of a binding is port and stage, without the node.
Key(b) == <<b[2], b[3]>>
Keys(o) == {Key(b) : b \in Binds[o]}
\* The service recorded for a key: the last one in the list, which the API
\* server sorts by name.
Holders(k) == {o \in Live \cap Networks : k \in Keys(o)}
Holder(k) == CHOOSE o \in Holders(k) : \A p \in Holders(k) : p <= o

\* Mutant: only the bundle itself is looked at.
RefusedInBundle(bundle) ==
    \E o \in bundle \cap Networks : \E k \in Keys(o) :
        \E p \in bundle \cap Networks : p < o /\ k \in Keys(p)

\* _preflight_acl_binding: a key held by another service, or taken by an
\* earlier manifest of the bundle.
Refused(bundle) ==
    \E o \in bundle \cap Networks : \E k \in Keys(o) :
        \/ Holders(k) # {} /\ Holder(k) # o
        \/ \E p \in bundle \cap Networks : p < o /\ k \in Keys(p)

PreflightPasses(t) ==
    /\ txn[t].pc = "preflight" /\ ~Refused(Bundle(t))
    /\ txn' = [txn EXCEPT ![t].pc = "dry-run", ![t].seen = Live \cap Networks]
    /\ UNCHANGED <<cluster, flying, audit>> /\ Smooth

PreflightRefuses(t) ==
    txn[t].pc = "preflight" /\ Refused(Bundle(t)) /\ Refuses(t, "pre-flight")

\* _audit: the event is recorded and then offered to the API server, whose
\* refusal is only logged; whatever happens, the transaction goes on.
Records(t, kind) == audit' = [audit EXCEPT ![t] = kind]

\* dry_run_all: every object, before any is applied.
DryRunPasses(t) ==
    /\ txn[t].pc = "dry-run"
    /\ txn' = [txn EXCEPT ![t].pc = "apply", ![t].todo = Bundle(t)]
    /\ UNCHANGED <<cluster, flying, audit>> /\ Smooth

DryRunFails(t) ==
    /\ txn[t].pc = "dry-run" /\ Fault
    /\ \E o \in Bundle(t) : txn' = [txn EXCEPT ![t].pc = "failed", ![t].phase = "dry-run",
                                               ![t].resource = o]
    /\ Records(t, "refuse")
    /\ UNCHANGED <<cluster, flying>>

-----------------------------------------------------------------------------
(* apply_all *)

\* A server-side apply: it creates the object or, on one that is there,
\* takes over its labels and leaves its status and its deletion alone.
Written(o, t) ==
    [corr |-> Corr(t), by |-> t, seen |-> txn[t].seen,
     cond |-> IF o \in Live THEN cluster[o].cond ELSE NoConditions,
     going |-> o \in Live /\ cluster[o].going]

Applies(t) ==
    /\ txn[t].pc = "apply" /\ txn[t].todo # {}
    /\ LET o == First(txn[t].todo)
       IN /\ cluster' = [cluster EXCEPT ![o] = Written(o, t)]
          /\ txn' = [txn EXCEPT ![t].todo = @ \ {o}, ![t].submitted = @ \cup {o}]
    /\ UNCHANGED <<flying, audit>> /\ Smooth

\* The call fails: refused, carried out though the answer is lost, or still
\* on its way.
ApplyFails(t) ==
    /\ txn[t].pc = "apply" /\ txn[t].todo # {} /\ Fault
    /\ LET o == First(txn[t].todo)
       IN /\ \/ UNCHANGED <<cluster, flying>>
             \/ cluster' = [cluster EXCEPT ![o] = Written(o, t)] /\ UNCHANGED flying
             \/ flying' = flying \cup {<<o, t>>} /\ UNCHANGED cluster
          /\ txn' = [txn EXCEPT ![t].pc = "list", ![t].phase = "apply", ![t].resource = o]
    /\ UNCHANGED audit

\* Mutant: success after the first object.
AllAppliedEarly(t) ==
    /\ txn[t].pc = "apply" /\ txn[t].submitted # {}
    /\ Records(t, "submit")
    /\ txn' = [txn EXCEPT ![t].pc = "watch", ![t].todo = txn[t].submitted]
    /\ UNCHANGED <<cluster, flying>> /\ Smooth

\* The submit audit event; the report is authoritative from here on.
AllApplied(t) ==
    /\ txn[t].pc = "apply" /\ txn[t].todo = {}
    /\ Records(t, "submit")
    /\ txn' = [txn EXCEPT ![t].pc = "watch", ![t].todo = txn[t].submitted]
    /\ UNCHANGED <<cluster, flying>> /\ Smooth

-----------------------------------------------------------------------------
(* rollback_by_selector *)

\* Both kinds are listed by the label, whoever wrote the objects.
RollbackLists(t) ==
    /\ txn[t].pc = "list"
    /\ txn' = [txn EXCEPT ![t].pc = "delete", ![t].todo = {o \in Live : cluster[o].corr = Corr(t)}]
    /\ UNCHANGED <<cluster, flying, audit>> /\ Smooth

\* "rollback also failed": everything applied is a survivor.
RollbackListFails(t) ==
    /\ txn[t].pc = "list" /\ Fault
    /\ txn' = [txn EXCEPT ![t].pc = "failed", ![t].survivors = txn[t].submitted]
    /\ Records(t, "refuse")
    /\ UNCHANGED <<cluster, flying>>

\* A DELETE by name; with a finalizer the object stays and terminates.
Removed(o) ==
    IF o \in Live /\ o \in Finalized
      THEN [cluster EXCEPT ![o].going = TRUE]
      ELSE [cluster EXCEPT ![o] = None]

\* 404 counts as deleted.
Deletes(t) ==
    /\ txn[t].pc = "delete" /\ txn[t].todo # {}
    /\ LET o == First(txn[t].todo)
       IN /\ cluster' = Removed(o)
          /\ txn' = [txn EXCEPT ![t].todo = @ \ {o}, ![t].rolled_back = @ \cup {o}]
    /\ UNCHANGED <<flying, audit>> /\ Smooth

\* Mutant: what could not be deleted is forgotten.
DeleteFailsSilently(t) ==
    /\ txn[t].pc = "delete" /\ txn[t].todo # {} /\ Fault
    /\ LET o == First(txn[t].todo)
       IN /\ cluster' = Removed(o) \/ UNCHANGED cluster
          /\ txn' = [txn EXCEPT ![t].todo = @ \ {o}]
    /\ UNCHANGED <<flying, audit>>

\* Refused, or carried out and the answer lost.
DeleteFails(t) ==
    /\ txn[t].pc = "delete" /\ txn[t].todo # {} /\ Fault
    /\ LET o == First(txn[t].todo)
       IN /\ cluster' = Removed(o) \/ UNCHANGED cluster
          /\ txn' = [txn EXCEPT ![t].todo = @ \ {o}, ![t].survivors = @ \cup {o}]
    /\ UNCHANGED <<flying, audit>>

RolledBack(t) ==
    /\ txn[t].pc = "delete" /\ txn[t].todo = {}
    /\ txn' = [txn EXCEPT ![t].pc = "failed"]
    /\ Records(t, "refuse")
    /\ UNCHANGED <<cluster, flying>> /\ Smooth

-----------------------------------------------------------------------------
(* watch_convergence and the status answer *)

\* _observe: the conditions in their order, Ready=True or a terminal failure
\* ends the reading; then a Ready=False seen on the way, then status.phase.
\* Degraded is not looked at; a deleted object that still has a finalizer is
\* there to be read.
SeenReady(c) == c.ready = "true" /\ c.failed # "first"
SeenFailed(c) == ~SeenReady(c) /\ (c.ready = "false" \/ c.failed # "no")
Observed(o) ==
    CASE o \notin Live \/ SeenFailed(cluster[o].cond) -> "failed"
      [] o \in Live /\ SeenReady(cluster[o].cond) -> "ready"
      [] OTHER -> "pending"

\* One read of the poll; a failed or pending read changes nothing.
Polls(t) ==
    /\ txn[t].pc = "watch"
    /\ \E o \in txn[t].todo :
          /\ Observed(o) # "pending"
          /\ txn' = [txn EXCEPT ![t].todo = @ \ {o}, ![t].outcome[o] = Observed(o)]
    /\ UNCHANGED <<cluster, flying, audit>> /\ Smooth

\* Mutant: an object that was not observed keeps the word pending.
WatchEndsPending(t) ==
    /\ txn[t].pc = "watch"
    /\ txn' = [txn EXCEPT ![t].pc = "submitted",
                          ![t].outcome = [o \in Objects |-> IF o \in txn[t].todo THEN "pending"
                                                            ELSE txn[t].outcome[o]]]
    /\ UNCHANGED <<cluster, flying, audit>> /\ Smooth

\* Mutant: no deadline.
WatchEndsObserved(t) ==
    /\ txn[t].pc = "watch" /\ txn[t].todo = {}
    /\ txn' = [txn EXCEPT ![t].pc = "submitted"]
    /\ UNCHANGED <<cluster, flying, audit>> /\ Smooth

\* Everything is observed, or the deadline has passed.
WatchEnds(t) ==
    /\ txn[t].pc = "watch"
    /\ txn' = [txn EXCEPT ![t].pc = "submitted",
                          ![t].outcome = [o \in Objects |-> IF o \in txn[t].todo THEN "timeout"
                                                            ELSE txn[t].outcome[o]]]
    /\ UNCHANGED <<cluster, flying, audit>> /\ Smooth

-----------------------------------------------------------------------------
(* The rest of the cluster *)

\* A write given up on is carried out.
Lands(o, t) ==
    /\ <<o, t>> \in flying
    /\ flying' = flying \ {<<o, t>>}
    /\ cluster' = [cluster EXCEPT ![o] = Written(o, t)]
    /\ UNCHANGED <<txn, audit>> /\ Smooth

ControllerReports(o, c) ==
    /\ o \in Live /\ ~cluster[o].going /\ cluster[o].cond # c
    /\ reports < MaxReports /\ reports' = reports + 1
    /\ cluster' = [cluster EXCEPT ![o].cond = c]
    /\ UNCHANGED <<flying, txn, audit, faults>>

ControllerFinalizes(o) ==
    /\ o \in Live /\ cluster[o].going
    /\ cluster' = [cluster EXCEPT ![o] = None]
    /\ UNCHANGED <<flying, txn, audit>> /\ Smooth

\* The pod is killed mid-transaction (agent.py: exit 137): every open
\* transaction ends without a report, a write on its way may land.
WorkerKilled ==
    /\ Fault
    /\ \E t \in Txns : txn[t].pc \notin {"new", "submitted", "failed", "lost", "answered"}
    /\ txn' = [t \in Txns |-> IF txn[t].pc \in {"new", "submitted", "failed", "lost", "answered"}
                                THEN txn[t] ELSE [txn[t] EXCEPT !.pc = "lost"]]
    /\ \/ UNCHANGED flying
       \/ \E t \in Txns :
             /\ txn[t].pc = "apply" /\ txn[t].todo # {}
             /\ flying' = flying \cup {<<First(txn[t].todo), t>>}
    /\ UNCHANGED <<cluster, audit>>

-----------------------------------------------------------------------------
Opening(t) ==
    \/ RequestRefused(t) \/ NotTranslated(t) \/ ManifestsRefused(t) \/ Unidentified(t)
    \/ PreflightUnread(t) \/ PreflightPasses(t) \/ PreflightRefuses(t)
    \/ DryRunPasses(t) \/ DryRunFails(t)
Applying(t) == Applies(t) \/ ApplyFails(t) \/ AllApplied(t)
RollingBack(t) ==
    \/ RollbackLists(t) \/ RollbackListFails(t) \/ Deletes(t) \/ DeleteFails(t) \/ RolledBack(t)
Watching(t) == Polls(t) \/ WatchEnds(t)
Step(t) == Opening(t) \/ Applying(t) \/ RollingBack(t) \/ Watching(t)
Environment ==
    \/ \E o \in Objects : ControllerFinalizes(o) \/ \E t \in Txns : Lands(o, t)
    \/ \E o \in Objects, c \in Reported : ControllerReports(o, c)
    \/ WorkerKilled

Next ==
    \/ \E t \in Txns : ToolServed(t) \/ Step(t) \/ \E r \in Requests : Starts(t, r)
    \/ Environment

Spec == Init /\ [][Next]_vars

\* A running transaction goes on: its calls have a timeout of 20 s and its
\* watch a deadline.  Nothing is assumed of the controllers.
FairSpec == Spec /\ \A t \in Txns : WF_vars(Step(t))

-----------------------------------------------------------------------------
(* Properties *)

\* What a failed transaction leaves behind is named in its report: every
\* object it wrote that is still there and not being deleted is a survivor
\* or the resource it failed on, also when the write landed after the
\* rollback (docs/INTENT_TIER_DEPLOYMENT_TRANSACTION.md, "Failure behavior";
\* submit.py:578-636).
FailureAccountsForAll ==
    \A t \in Txns : txn[t].pc = "failed" =>
        \A o \in Live : cluster[o].by = t =>
            cluster[o].going \/ o \in txn[t].survivors \cup {txn[t].resource}

\* A binding is never let in beside one its pre-flight could see: of two
\* services on one port and stage, neither was listed when the other was
\* admitted anew (submit.py:449-540, FR-018).
AclSecondRefused ==
    \A o, p \in Live \cap Networks :
        o # p /\ Binds[o] \cap Binds[p] # {} =>
            (p \in cluster[o].seen => o \in cluster[o].seen)

\* A report of success is for the whole bundle, each object applied before
\* it and each with an outcome; one of a failure before the apply is of a
\* cluster left alone; the audit trail agrees with the report
\* (submit.py:658-770, agent.py:16-21).
ReportsAreWhole ==
    \A t \in Txns :
        /\ txn[t].pc = "submitted" =>
              /\ txn[t].submitted = Bundle(t)
              /\ \A o \in Bundle(t) : txn[t].outcome[o] # None
        /\ txn[t].pc = "failed" /\ txn[t].phase # "apply" =>
              txn[t].rolled_back = {} /\ \A o \in Live : cluster[o].by # t
        /\ audit[t] = "submit" => txn[t].pc \in {"watch", "submitted", "lost"}
        /\ audit[t] = "refuse" => txn[t].pc = "failed"

\* A transaction that runs comes to an end with a report, or the worker is
\* killed (submit.py:290, watch.py:124-171).
TransactionEnds ==
    \A t \in Txns : txn[t].pc # "new" ~> txn[t].pc \in {"submitted", "failed", "lost", "answered"}

\* "Condition types whose True value is terminal, whatever Ready says"
\* (watch.py:35): the watch records no object ready that has a Failed or Error
\* condition that is True.  It does not hold: the watch returns at the first
\* Ready=True, before a failure listed after it (watch.py:84-86).
TerminalIsFailed ==
    [][\A t \in Txns, o \in Objects :
          txn'[t].outcome[o] = "ready" /\ txn[t].outcome[o] # "ready"
              => cluster[o].cond.failed \notin {"first", "last"}]_vars

\* "Refuse binding a second ACL to the same port/stage across services"
\* (submit.py:450, FR-018): no two services of the cluster bind a list to one
\* port and stage.  It does not hold: two transactions may list before either
\* applies (submit.py:711-713).
NoSecondBinding ==
    \A o, p \in Live \cap Networks : o # p => Binds[o] \cap Binds[p] = {}

\* submit.py:5, "a partial apply is rolled back by the correlation-id label
\* shared by every object in the transaction": the rollback of one request
\* leaves alone what was reported submitted for another.
RollbackSparesSubmitted ==
    [][\A t, u \in Txns : \A o \in txn'[t].rolled_back \ txn[t].rolled_back :
          txn[u].pc = "submitted" /\ o \in Bundle(u) => o \in Bundle(t)]_vars

=============================================================================
