# TLA+ models of agentic-netops

agentic-netops turns a request in plain language into network services on a
SONiC leaf/spine fabric. Python agents interpret the request, ask for two
confirmations, claim identifiers and submit Kubernetes objects. Go controllers
reconcile those objects: they claim identifiers from an authority (kuid),
render a plan per node, drive it onto the devices through an HTTP executor,
verify it on device-observed state, and record the outcome in the object's
status. This directory holds TLA+ modules for the parts where order, failure
and concurrency decide correctness, the TLC runs that check them and the
TLAPS proofs about them. `PROJECT.json` relates every definition to the lines
of the source it stands for.

## Inventory

| part | state it keeps | operations | what is hard |
|---|---|---|---|
| `pkg/kuid` Lease fallback (`lease.go`, `release.go`) | Leases in `kuid-system`, one per value, annotated with a correlation id | `AllocateLeaseID` (List, then Create and Get per value), `releaseFallbackLeases` (List, then Delete by name) | calls interleave between requests; answers are lost; reads come from an informer cache |
| `pkg/kuid` served claims (`claim.go`, `wait.go`, `reserve.go`) | claim objects labelled with the correlation id | create, poll until ready, reserve a VLAN, release by label | slow or unavailable authority; the timeout that triggers the fallback races a late answer |
| `controllers/srv6service` | the SRv6Service object (spec, finalizer, status with conditions, hashes, appliedSpec, allocations) | `Reconcile`: finalizer, four gates, claims, plan, first apply / update / nothing, verify, path, drift repair, probe, record; `finalizeDelete` | long passes over several remote systems; every request may fail; edits, deletions, drift and crashes in between; the pass works on a copy that its own patches refresh |
| `pkg/fabricplan/srv6.go` | none (pure) | ops, checks and rollback per node | the rollback has to invert what was applied, also when only part was |
| `cmd/fabric-executor`, `pkg/executorclient` | device configuration (CONFIG_DB, kernel routes, probe clients) | `POST /apply`, `POST /verify` | an op list stops at the first failure; OK=false differs from a transport error |
| `controllers/sonicprovider` | Network objects and their conditions | apply + verify per node, rollback on delete | partial failure, deletion with a node down |
| supervisor (`agents/supervisors/provisioning`) | a checkpointed thread: interpretation, allocation, two decisions, iteration count, correlation id | six graph nodes; confirm, decline, status and removal requests, retries, bounded exit | the operator answers at any time, in any order; a worker may act after its call was given up; several streams may work on one thread |
| mapper agent (`agents/provisioning/mapper`) | none (pure) | interpretation of a request by patterns: construct, endpoints, tags, filter, SRv6 profile; the fields to ask for | rules of several places have to agree on one request; a clarification has to come to an end |
| allocator agent (`agents/provisioning/allocator`) | claims and Leases, a memo of answers per process | one claim after the other with the Lease fallback, assembly and validation of the intent, `release_by_correlation` (no caller) | a call is repeated while it runs; two processes race for the lowest free value; a failure leaves claims |
| deployer agent (`agents/provisioning/deployer`) | submitted objects labelled with the correlation id | pre-flight, dry run, apply all, roll back by label, watch convergence, status; removal is a stub | one apply of several fails; a write given up on lands later; the rollback may leave survivors; transactions interleave |
| schemas, audit, worker servers | events and spans, a registration flag | validation, records of decisions and outcomes, registration with the transport | records beside the effects; a session that is lost |
| translators, migration, gNMI device tool, UI, lab scripts | little or none | conversion | not concurrent; see "What is not modelled" |

Interactions: the supervisor sends its three workers one call at a time and
waits; a call times out and is sent again. The agents and the controllers share
only API objects (the SRv6Service or Network, claims, Leases). A controller calls the authority and
the executor synchronously, one request at a time, in one worker
(`SetupWithManager` leaves MaxConcurrentReconciles at 1). A pass starts when
the object is queued: by a watch event, the controller's own patches included,
by `RequeueAfter`, by the retry of an error, or by the informer's resync.

What makes the parts correct, in a line each: an identifier has one owner and
is freed only by it (`pkg/kuid`); claims exist only under the finalizer, what
is recorded is held, Ready means what the devices do (`controllers/srv6service`);
nothing reaches the cluster that was not confirmed twice, and every turn ends
(supervisor); what is asked is asked once and no claim is taken that the words
exclude (mapper); what is answered is held and nobody else's (allocator); a
report agrees with the cluster (deployer).

## Modules

| module | what it models |
|---|---|
| `IdAuthority` | what the authority promises: an id has one owner, a service works only with an id it owns, an id is freed only when its owner no longer works with it |
| `LeasePool` | `AllocateLeaseID` and `releaseFallbackLeases`, one action per request |
| `LeasePoolProofs` | theorems about `LeasePool` |
| `FabricPlan` | the SRv6 renderer, and what the executor makes of op lists, rollbacks and checks on a node (operators only) |
| `SRv6Controller` | `Reconcile` and `finalizeDelete` of one service; EXTENDS `FabricPlan` |
| `SRv6Proofs`, `SRv6TypeProofs`, `SRv6StatusProofs` | theorems about `SRv6Controller`; each EXTENDS the one before |
| `ProvisioningGraph` | the supervisor: one thread, its streams, the calls to the workers |
| `GraphProofs` | theorems about `ProvisioningGraph` |
| `ServiceIntent` | mapper, capability gate and intent validation as operators on abstract requests |
| `Allocation` | the allocator's calls on several processes; EXTENDS `ServiceIntent` |
| `AllocationProofs` | theorems about `Allocation` |
| `DeployTransaction` | the deployer's transactions on one cluster |
| `DeployProofs` | theorems about `DeployTransaction` |
| `MCLeasePool`, `MCSRv6`, `MCGraph`, `MCAllocation`, `MCDeploy` | instances for TLC |

How they meet: `ProvisioningGraph` treats a worker's call as one step with the
kinds of answer it can give; `Allocation` and `DeployTransaction` are the
insides of two of these calls, each with the repetitions the supervisor's
retries cause. `Allocation` evaluates `ServiceIntent` on the same request from
its words to the claims. The Ready conditions that `DeployTransaction` lets a
controller set are the status of `SRv6Controller`. `LeasePool` implements
`IdAuthority`, whose promise `SRv6Controller` relies on.

### LeasePool

`leases` is the API server's state (value to correlation id), `cache` and
`events` the informer behind it, `pc`, `used`, `value`, `todo` the local state
of each correlation id's call, `grant` the id each service works with.
`CachedReads` chooses what List and Get read: `cmd/srv6-controller/main.go`
passes the manager's client, which reads the informer cache. `ReadsOwnWrites`
is what such a cache has to give: a List or Get shows its caller its own leases
as they are, and may show everyone else's as they were. `Workers` bounds
the calls in progress. A Create or Delete may fail with or without effect
(`CreateError`, `ReleaseError`), a Get may fail (`GetOther`: the code goes on
to the next value), the process may restart and forget an id no status
recorded (`Restart`). A correlation id's caller releases only after it stopped
using the id (`finalizeDelete` and the failed first apply do so), hence
`ReleaseList` clears `grant`.

### FabricPlan

A node's configuration is a set of items (VRF row, attachment rows of a port,
routes toward a peer via a spine, the pin of a steered service, the probe
client's addressing, the bootstrap locator). The three shell ops of a route
(decap, steering, /48 pin) are one item, since they are rolled back by one op
and no property tells them apart. Rollback keeps the order and the stopping
rule of the code: route deletes ignore their failures, the JSON-patch removes
of the attachment rows and of /VRF fail on an absent path and end the list.

### SRv6Controller

`w` is the worker's pass: its step, its copy of the object (`svc`), the plan
(named by its spec), the identifiers, and the nodes still to visit in the
present walk. Every request to the API server, the authority or the executor
is an action of its own, with an action for each way it can fail:

* `Get*` is the first read and the choice it leads to (gone, deleting, no
  finalizer, refused by a gate, identifiers reused or to be claimed);
* `AddFinalizer`, `Claim*`, `Release*` are the claims;
* `Plan*` compares hashes; `Apply*`, `Rollback*`, `Verify*` walk the nodes, the
  step name saying which walk it is (`first`, `firstRb`, `remove`, `new`,
  `undo`, `restore`, `repair`, `repairRb`, `finRollback`, `verify`,
  `verifyNew`, `reverify`);
* `Path*`, `Drift*`, `Probe*`, `Record*`, `Refuse*`, `Finalize*` are the stages
  after verification and the finalizer.

A status patch is a merge patch of the fields in which the modified copy
differs from the base (`Patched`), and its answer is decoded into the copy
(`Refreshed`), as controller-runtime's client does; both matter to what a pass
records. A patch that changes nothing causes no event (`Store`).

The surroundings act between any two requests: the operator edits or deletes,
a device loses an item or its locator, the failure action moves the pin, a
node stops answering or answers again, gates close and open, the informer
trails (`StaleGet`), the process crashes. `Mishaps` selects which of these and
which request failures a run has, `MaxMishaps` bounds their number.

Two premises say how much of this a property bears. `OwnPatchesSeen`: a Get
finds the status that the controller patched last; the spec and everything else
may be old. `HoldsStill`: no device changes by itself between the first check of
a pass and the record of what the checks found, since a loss in that window is
for the next pass to see. They are action constraints of the run `srv6_window`
and premises of the theorems.

Abstractions: one service; the four gates are one condition (`admitted`); the
served claim and the Lease of the service id are one claim; the VLAN of
mac-vrf services is left out (the renderer refuses those variants); a hash
stands for the op list it digests; site facts (ports, locators, spine links)
are fixed, as the process reads them once.

### ProvisioningGraph

`cp` is the checkpoint of a thread. A stream (`stream[s]`, one POST to the
prompt endpoint) loads it, runs node after node on its own copy `st`, and saves
the copy when a node returns (`Goto`, `Ends`); nothing in the code serialises
streams, so with two of them the copies diverge. The worker calls of a stream
are `call` and `attempt`; a call that is given up moves to `late`, where the
worker may still serve it (`ServedLate`). `down` are the workers that cannot be
reached. A read of the checkpoint may fail (`TurnStarts`): the turn then goes
on over the old state with a correlation id of its own. `claims` and `objects`
are what the workers did, `decided` the decisions recorded with an audit event.

An action is a node's way to a return: `SupervisorRefuses`, `StatusRouted`,
`RemoveAsked`, `Confirmed`, `Declined`, `AskedAgain`, `ProvisioningStarts`,
`ClassifiedOther`, `ModelUnavailable` are those of `_supervisor_node`, in the
order of its tests; `Mapper*`, `Allocator*`, `Allocates`, `Tool*`, `Submit*`,
`TransactionFailed` those of the worker nodes; `Reflects` and `GeneralInfo` the
last two. `Retries` and `GivesUp` are the loop of `tools.py`, `DeadlinePasses`
and `Aborts` the deadline of the whole turn and a stream cut off.

A text is the record of the patterns it matches, since everything is decided by
them; `means`, what the operator had in mind, is there for a property only.

### ServiceIntent and Allocation

An `Ask` is what the mapper's patterns find in a request. `Interpretation`,
`Missing`, `Unsupported` and `Verdict` are the mapper's deterministic mapping,
with the order of the detectors and their quirks kept (a word of a construct,
and whether the SRv6 patterns know it too: they lack the e-line group of
mac-vrf words); `GuardRefusal` is the
supervisor's SRv6 capability gate, `Profile` the list of claims, `Normalized`
and `Causes` the intent and all its validation causes. VLAN numbers keep their
boundaries (0, 4000, 4094) because three places draw the line differently.

`Allocation` serves such requests: `inbox` are the calls sent, `proc[p]` the
process's call (its list of claims, the values it found used, the round of its
Lease scan, of which there are four), `memo[p]` the answers it remembers, `held` claims and Leases in
the cluster, `issued` the intents answered with the life of the process that
answered, `spoiled` the requests one of whose calls failed or waited for a claim
in vain. A process serves
one call at a time (the client is synchronous on the event loop); two processes
are a rollout. Every request to the API is an action of its own with its
failures; a crash loses memo and call, never what is held. The answer of a
served claim is one step with the wait for it; a wait that ends at its timeout
leaves a claim without a value (0) in the cluster, and the Lease fallback takes
over or, where `LeaseFallback` is off, the call raises (`FallsBack`). Not modelled: the digits of a prefix (one per attachment),
`release_by_correlation`, which nothing calls.

### DeployTransaction

`cluster` is the intent namespace: for each object its correlation label, its
conditions in their order (a Ready that is true or false, a terminal failure
that is true), whether it is terminating, and as history the transaction that
wrote it last and what that transaction's pre-flight listed. `flying` are the
writes without an answer that the API server may still carry out (`Lands`).
`txn[t]` is a transaction: its step, the objects the present loop has yet to
handle, and the fields of its report; `audit[t]` its audit event. The actions
follow `run_deployment_transaction`: `Starts`, the refusals before the first
write, `Preflight*`, `DryRun*`, `Applies`/`ApplyFails`/`AllApplied`,
`RollbackLists`, `Deletes`, `DeleteFails`, `RolledBack`, `Polls`, `WatchEnds`.
The controllers report conditions (`MaxReports` of those in `Reported`) and
remove finalizers; a kill of the worker
loses every open transaction. A network binds access lists at the product of
its attachments and stages (`Keys`), and what the watch reads of an object
follows the order of its conditions (`Observed`). Each API call is a step; the
two lists of a rollback (one per kind) are one. The status answer only reads
and is left out.

## Runs

Bounds, LeasePool and SRv6: two nodes, two ports, two spines are what one
service needs for a peer, a moved attachment and an alternate path; one or two
mishaps reach every stage with every failure. Two lease values for three
callers make exhaustion, collisions and the re-allocation of a released value
frequent.

Bounds, `graph_thread`: five turns are a request, two answers and two texts
that get in between; two interpretations are what a restated request and the
one before it need; three attempts are the code's own number; two faults are a
worker that fails and a call that is served late, or one of them and a
checkpoint that cannot be read. One stream: of two streams the declined
interpretation of one may be submitted by the other (see "Stated, and false";
`Approvals` is proved for any number of streams). The eight texts each take
another way through the supervisor node.

Bounds, `allocation`: the requests are all that differ in one respect from a
good request of some construct, and some that differ in two, so every rule is
met at its edge; pairs
contend for the last number of a range; the first request is sent twice. One
fault is a failed request, which starts the Lease fallback, or a crash. Ranges
of one or two values make exhaustion and collisions the normal case, one index
is broken from the start: its claims fail, or are made and never get a value.

Bounds, `deploy_bundle`: two transactions, the one with an object with and one
without a finalizer, the other with an access list on a port of the first. Two
faults are a failed apply and a failed rollback; one report of a controller is
enough to turn an object ready or failed while it is watched.

CHECK_DEADLOCK is off wherever the system ends by itself: a deleted service, a
settled one, a conversation without further texts, transactions that have
reported, requests that are answered. It is on in the LeasePool runs.

| run | expects | shows |
|---|---|---|
| `lease_own` | pass | three parallel callers, two values, one fault, a cache that shows a call its own leases and lags about the others': grants are backed by leases, distinct, one per correlation id; a release deletes its own; `IdAuthority` is implemented (350 000 states) |
| `lease_cached` | pass | one worker and every read from the cache, as the manager is wired, one fault or restart: a release never deletes another service's lease (1.2 million states) |
| `srv6_window` | pass | plain and steered specs, edits, deletion, drift, lost pins, failovers, failed requests and crashes, two in all, under `OwnPatchesSeen` and `HoldsStill`: `ClaimsGuarded`, `RecordedIdsHeld`, `ReadyOnDevice` (430 000 states) |
| `srv6_update` | pass | one edit among five plain and steered specs at any moment of a pass: `ReadyExact`, `NoRequeueStorm` |
| `srv6_live` | pass | `EventuallyReady`, for services with and without a pin, under drift, lost pins and locators, rejected applies, broken nodes, gates, crashes and an edit: Ready for good, or the lost pin reported for good (430 000 states) |
| `srv6_gone` | pass | `ClaimsGuarded` and `DeletionCompletes` with stale reads and one mishap of any kind, a node that stays down for a while included, plain and steered; edits with deletion are in `srv6_window` |
| `srv6_mixed` | violation | two edits and nothing else: a spec is recorded as applied that was never rendered |
| `graph_thread` | pass | nothing is submitted without both confirmations or after a decline, a removal only in the turn that confirms one; every turn ends that is not at an await without a bound |
| `graph_detour` | violation | a status question between the two confirmations: the second one submits nothing |
| `deploy_bundle` | pass | what a failure leaves behind is named, no access list is admitted beside one that was listed, reports are whole and agree with the audit, every transaction ends |
| `deploy_rollback` | violation | a rollback deletes what another request of the thread was reported to have submitted |
| `allocation` | pass | a request that names SRv6 takes no VXLAN identifier, answers are held and exclusive, repetitions agree, nothing is left over without a failure, what can be wrong so late is known, clarifications end, every call returns (300 000 states) |

Premises of a run are named where they matter: `GrantBacked` and
`DistinctGrants` need that a call reads its own writes, `RecordedIdsHeld` that
the controller does, `ReadyOnDevice` that devices hold still from check to
record, `ReadyExact` one edit at a time and no failure but a closed gate,
`NoRequeueStorm` reachable nodes or no drift. What happens without them is
listed under "Findings" and "Stated, and false".

Fairness. `SRv6Controller`: the worker runs while there is work, the informer delivers,
timers fire, the informer resyncs (controller-runtime does all four). Nothing
is assumed of operators, devices, gates or healing: `EventuallyReady` and
`DeletionCompletes` have the health they need as premises.
`ProvisioningGraph`: a stream goes on where the code bounds what it waits for
(`asyncio.wait_for` in `tools.py` around a worker's call). Two awaits have no
bound, the model call (`graph.py:1318`) and the creation of the transport and
the client (`tools.py:113-129`); a stream that is at one of them (`Awaits`) need
not go on, and `TurnEnds` says that this is the only way not to end. `Allocation`: a call goes on, its requests
having a timeout of 10 s and the wait for a claim one of 20 s
(`kuid.py:193, 261`). `DeployTransaction`: a transaction goes on, its calls
having a timeout of 20 s and the watch a deadline; nothing is assumed of the
controllers.

## Findings

Three are kept as runs; `PROJECT.json` quotes the lines they contradict.

1. **An applied spec that was never rendered** (`srv6_mixed`). The patch in an
   update refreshes the copy whose spec and generation are recorded at the end
   of the pass (`update.go:156`).
2. **A confirmation that submits nothing** (`graph_detour`). `tool_action`
   stays in the checkpoint after a status question and the deployer node looks
   at it first (`graph.py:1412, 2058`).
3. **A rollback beyond its transaction** (`deploy_rollback`). The label it
   selects by is the thread's (`submit.py:574`).

### Stated, and false

The modules also state what docs and comments promise and the code does not
keep. TLC violates each of these with the change named here to a configuration
of the project; they are to become properties of its run when the code is
repaired.

| property | configuration | what happens |
|---|---|---|
| `GrantBacked`, `DistinctGrants` | `lease_cached` | the own-lease short cut of `AllocateLeaseID` trusts a cached List: after a release the cache has not seen, the next call returns a value that another service may create, and both work with it (`lease.go:62` against `lease.go:42-46`; `cmd/srv6-controller/main.go:111`) |
| `RecordedIdsHeld` | `srv6_window` without `OwnPatchesSeen` | a pass on a copy that misses the controller's last patch takes the first-application path, whose failure releases the recorded identifiers (`controller.go:58, 165`; `srv6service_types.go:167`) |
| `ReleasedOnlyWhenClean` | `srv6_window` | a rollback answered OK=false counts as clean, and a service that was never Ready is deleted without one (`finalizer.go:69-86` against `finalizer.go:7`) |
| `ReadyButThePin` | `srv6_window` with `MaxMishaps = 3` | every failed check of every node is excused while the pin rides the alternate spine (`path.go:188` against `ready.go:3`) |
| `NoRequeueStorm` | `srv6_live` | drift that cannot be repaired alternates two conditions; each patch queues the object at once (`controller.go:230` against `types.go:19`) |
| `ActsOnConfirmation` | `graph_detour` with `Texts <- MCAnswers` | any text with one of seven words in it confirms, "cancel the deployment" too, and these are looked for before the words of a decline (`graph.py:504, 1476, 1523` against `docs/BUSINESS_ADOPTION.md:24`) |
| `DeclinedIsFinal` | `graph_detour` with two streams and `Texts <- MCDecisions` | each stream goes on with its copy of the checkpoint: what one declines the other submits (`main.py:117-146` against `graph.py:1578`) |
| `DeclineReleases` | `graph_detour` with `Texts <- MCDecisions` | `claimed_ids`, over which `graph.py:1553` loops, is never filled, and `release_by_correlation` (`kuid.py:362`) has no caller; the answer says that claims were released (`graph.py:1580`) |
| `Traceable` | `graph_detour` with `Mishaps = {"unread"}`, `MaxFaults = 1`, `MaxCorr = 2` | a read of the checkpoint that raises is taken for a new thread (`main.py:143` against `main.py:129`) |
| `FreshPerRequest` | `graph_detour` with `MaxCorr = 2` | `graph.py:586-592` says that each request gets a correlation id of its own and that the thread's labels nothing on the cluster; the thread's is reused (`main.py:134-146`) |
| `NeverHangs` | `graph_detour` with `SPECIFICATION FairSpec` | the iteration bound and the deadline are tested between nodes, two awaits inside of one have no bound (`graph.py:1318`, `tools.py:113-129` against `main.py:128`) |
| `NoSecondBinding` | `deploy_bundle` | the pre-flight lists once, before the dry run and the apply, and transactions run side by side (`submit.py:711-713` against `submit.py:450`) |
| `TerminalIsFailed` | `deploy_rollback` with `Reported <- MCReports` | the watch returns at the first Ready=True, before a Failed condition listed after it (`watch.py:84-86` against `watch.py:35`); no controller of the repository sets such a condition |
| `L2VNIUnique` | `allocation` with `Scenes <- MCBridges` | the Lease scan looks at Leases only and draws from the range of the served index (`kuid.py:525` against `docs/OPERATIONS.md:60`) |
| `L2VNIUnique` | `allocation` with `Scenes <- MCBridgeAndRouter`, `Served <- MCServedNone`, `MaxFaults = 0` | two processes give one VNI to an L2 and an L3 service: the names of the Leases, which decide a race, differ (`kuid.py:415`) |

### Further disagreements

Each is a behaviour of the models, or was met while writing them, and is not
kept as a run.

Controller and identifier authority:

* Deletion of a service that never got Ready skips the rollback: allocations
  are recorded only with Ready, and the claims are released with configuration
  on the devices (`finalizer.go:76`).
* A steered service whose pin was removed by the controller's own rollback of a
  failed repair stays PathDown: the path stage comes before the drift repair
  (`controller.go:210`). `EventuallyReady` counts it as reported.
* `finalizer.go:77` renders the present spec: after an edit that was not
  applied, the deletion misses the ports of the applied plan.
* The rollback of a partly applied plan stops at the first row that was never
  added, leaving the VRF row (`apply.go:5-6`: "no device state of this service
  is left half-applied").
* A failed update restores the previous plan but leaves rows of the new one on
  ports the previous did not have (`update.go:21-22`).
* A failover after the path stage is undone by a repair in progress
  (`path.go:15-18`).
* `status.nodes` is assigned before each patch base is copied and never
  reaches the server (`controller.go:183`).
* An attachment moved to another node is refused for ever: the applied spec is
  rendered with the new identifiers (`update.go:96`).
* An exhausted client prefix pool keeps the service id claim
  (`allocate.go:157` against `allocate.go:11-13`).
* A gate that closes after the service was applied refuses terminally while
  claims and configuration stay, although `isTerminalRefused`
  (`conflict.go:79-83`) takes such a service to hold nothing.
* With cached reads `AllocateLeaseID` reports exhaustion while values are free
  (`errors.go:23`), and that is terminal.
* The rollback removes the whole /VRF table (`srv6.go:397`), rows of other
  services included.
* `verify.go:9` calls LocatorMissing terminal; `types.go:48-55` retries it.

Supervisor and mapper:

* Nothing resets `iteration_count`: a thread that has reached its bound with no
  question open stops at once on every later text, a new request included, while
  the answer says "Please rephrase and resend" (`graph.py:1290-1302, 1355`).
* "no defaults are substituted for service-defining fields" (`graph.py:424`):
  the allocator invents 10.0.0.0/24 for an ip-vrf without a prefix
  (`_build_intent`).
* "segment routing over ipv6" holds "routing", an alias of ip-vrf, so a
  request in these words is never asked for its construct
  (`mapper/agent.py:216-237`). The supervisor's patterns for SRv6 are narrower
  than the mapper's: other spellings pass the test for an unreadable capability
  (refusal R4, `graph.py:1729`) and are refused, if at all, after the mapping.
* The SRv6 questions that `graph.py:1811-1832` prepares do not reach the
  stream, whose answer is built from the missing fields anew (`main.py:205`).
* The operator's prefixes per endpoint are overwritten by the gateways that
  were claimed (`allocator/agent.py:233-243` against `mapper/agent.py:254`).
* A filter is dropped on an SRv6 request, and one without a readable rule on
  any (`tests/unit/test_suggested_prompts_map.py:88`: "A filter clause is never
  dropped on the way to the proposal").
* A VLAN above 4094 raises inside the mapper, after the endpoints were asked
  for when there were none; one of the reserved band
  4001-4094 is refused only after everything is claimed. A duplicate endpoint
  is accepted. An ACL request without a stage fails the schema where it should
  be asked about.
* The SRv6 gate compares an endpoint as written with a list in lower case
  (`graph.py:1931`), and its test for a port already taken always finds it free
  (`graph.py:1953`). The intent compares a spine letter by letter where the
  gate folds its spelling (`normalized_intent.py:230`, `capability.py:220`).

Allocator, deployer and servers:

* A failed call, a late refusal, a lost answer and a crash leave claims and
  Leases that nothing releases, and another process, or the same one after a
  restart, allocates a repeated call anew (`kuid.py:464`, `agent.py:378, 486`).
* Two services of one thread on one
  attachment share the client prefix; claim names are cut at 63 characters
  (`kuid.py:75`).
* The Lease scan reports exhaustion on what its list and its conflicts said,
  although values may have become free since.
* The key of an access-list binding leaves out the node, so a service on
  another node refuses one; pre-flight refusals are not audited
  (`submit.py:449`).
* A killed worker leaves half a bundle and no report.
* The watch takes Ready=True beside Degraded=True for ready while the status
  answer says Failed; Ready=False ends the watch as failed although the
  controllers retry (`watch.py:101`).
* A confirmed removal deletes nothing (`deployer_tools.py:287-301`).
* The name of an audit Event is a per-process count that starts again
  (`audit.py:372`).
* `REGISTRATION_OK` is set once and never cleared, although `server.py:156`
  says that an outage of the transport "degrades /v1/health readiness".

## Proofs

`tlapm` proves, for every value of the constants:

* `LeasePoolProofs!TypeCorrect`: `Spec => []TypeOK`, both read modes.
* `LeasePoolProofs!GrantsBacked` (`GrantBacked`), `GrantsDistinct`
  (`DistinctGrants`) and `LeasesSingle` (`OneLeasePerCorrID`), for any reads,
  cached ones included, in which a call sees its own leases as they are
  (`ReadsOwnWrites`); what it sees of the others may be arbitrarily old, since a
  Create decides. Reads from the API server have the property, and a cache has
  it once the call's own last writes have arrived. As the manager is wired
  nothing waits for that, and the first two are false ("Stated, and false"). Neither of the first and last is
  inductive: the invariant adds that a correlation
  id that scans holds no lease (`ScanHoldsNothing`: its List found none and
  nobody else creates for it) and that what a release still has to delete is
  free or its own (`DeletesOwn`), which is what keeps a Delete by name from
  hitting a value that was re-allocated.
* `LeasePoolProofs!ReleasesOwn` (`OnlyHolderReleases`), with fresh reads, or with
  cached reads and one worker, which is how the manager runs the controllers
  (`MaxConcurrentReconciles` is left at its default of 1). With cached reads the
  cache and its pending events together are the leases of the API server, one
  event at most per value (`Trails`): a value that a call may still create has none
  pending (`ScansTrue`), and what a release still has to delete is free or its own,
  by the server and by the cache (`DeletesTrue`). With two workers and cached reads TLC finds a release that
  deletes a value re-allocated since.
* `LeasePoolProofs!Refinement`: `ImplementsIdAuthority` under the same premise,
  by the mapping owner = leases, grant = grant.
* `SRv6Proofs!Guarded`: `Spec => []ClaimsGuarded`, stale reads included. The
  invariant `GuardInv` says that the finalizer is on in every state of the
  object between its addition and its end and cannot come back (`Phases`), and
  that a pass knows which side it is on: a serving pass works on an object
  that holds the finalizer, a finalizing one on an object being deleted, and
  at `finDrop` no claim is left (`PassKnows`). A stale Get is harmless because
  the phases of an object never go back.
* `SRv6TypeProofs!TypeCorrect`: `Spec => []TypeOK` for every set of nodes,
  ports, spines and specs. An absent spec or plan is `None`, of which nothing
  can be read, so the invariant (`TInv`) says at every point of a pass which of
  the spec, the plan and the previous plan are there and that a walk is at a
  node of the plan it applies or rolls back (`PassOK`).
* `SRv6StatusProofs!IdsRecordedAreHeld` (`RecordedIdsHeld`), as long as each Get
  has the controller's own patches (`OwnPatchesSeen`). The pass is the only
  writer of the part of the status that later passes decide on, so its copy
  agrees with the server there whatever the operator edits meanwhile
  (`CopyInv`); what is recorded was claimed before, and a pass that has
  something recorded is never on the path that releases (`IdInv`). A Get that
  misses a patch takes the path of a first application again, whose failure
  releases ("Stated, and false").
* `SRv6StatusProofs!ReadyMeansOnDevice` (`ReadyOnDevice`), for steered services,
  drift, lost pins and failovers too, if moreover devices stand still from the
  checks of a pass to its record (`HoldsStill`). Nothing between a verification
  and the record it leads to writes a device, and a pass with a failed check
  reaches Ready only where the path was observed on another spine and is
  reported so. Both premises are of a window the code cannot close: a device
  read a moment ago may have changed.
* `GraphProofs!TypeCorrect`, `Approvals` (`SubmittedWasApproved`), `Removals`
  (`RemovalConfirmed`), `Readiness` (`SubmissionReady`), for any number of
  streams on one thread. Their copies of the state differ, so the invariant
  relates no copy to another: each is `Sound` by itself against the decisions,
  which only grow; a stream is where its copy lets it be (`Placed`), and a
  call, awaited or given up, is backed by decisions already recorded
  (`Backed`).
* `GraphProofs!Declines` (`DeclinedIsFinal`), for a
  thread whose streams do not overlap (`OneStream`), with any number of turns,
  restarts, unread checkpoints and calls served late. Its copy then is the
  checkpoint (`Synced`), so an open question is one that was not decided
  (`Once`). With two streams it is false: one confirms what the other declines
  ("Stated, and false").
* `AllocationProofs!TypeCorrect`, `SRv6TakesPrefixes` (`SRv6Honoured`),
  `AnswersAreHeld` (`IssuedIsHeld`), `RepeatsAgree` (`RepeatIsIdentical`) and
  `NothingLeft` (`NothingLeftOver`), for any requests, processes and ranges.
  The claims of a call are known before it starts (`Fits`), a number once taken
  belongs to one request for good (`Owned`), what a call has gathered, remembers
  or has answered is of that kind (`Kept`), and what a living process answered
  it remembers (`Remembered`).
* `AllocationProofs!LateRefusalsKnown` (`LateCausesKnown`), for every request
  that can be asked, not only those of the run. A call is only sent for what the
  mapper and the supervisor let through, and gathers in the order of its profile
  numbers none of which is 0 (`LateInv`). The rest is about the two schemas: by
  construct, the kinds a profile claims (`ProfileKinds`) are those the
  validation asks for, a bridge domain has one vlan (`NormalizedIs`), and what
  the mapper did not ask about leaves no other cause (`CausesKnown`).
* `AllocationProofs!ClarificationsEnd` (`ClarificationEnds`), for any nodes, ports,
  vlans, requests and whatever the site supports. The one premise is that there
  is something to answer with (`CanAnswer`: two nodes, a port, a usable vlan).
  That a vlan above 4094 without endpoints is asked for the endpoints and then
  fails in the mapper (`EndpointIntent`) is an end the property names. An answer
  leaves the construct and the legality of a request as they are (`Served6`,
  `Served0`), so all that can be asked after it is the vlan, when the endpoints
  that named it were replaced; and an unclear construct becomes the variant that
  was chosen (`UnclearEnds`).
* `DeployProofs!TypeCorrect`, `FailuresAccounted` (`FailureAccountsForAll`),
  `SecondRefused` (`AclSecondRefused`) and `ReportsWhole` (`ReportsAreWhole`),
  for any number of transactions. `Good` relates a transaction's step, what it
  wrote, its writes on the way and its audit event, at every point of it; the
  steps of others keep it because they can only take away from what a
  transaction wrote (`Spared`). That a late write lands on an object the
  failed transaction has named is part of it.

Assumptions: `LeasePoolAssumption`, `FabricPlanAssumption`, `SRv6Assumption`,
`GraphAssumption`, `IntentAssumption`, `AllocationAssumption`,
`DeployAssumption`: the types of the constants, that ranges are not empty and
the set of nodes is finite, that `None` is none of the values it stands beside.
TLC evaluates them in the runs. The premises of the theorems above
(`ReadsOwnWrites`, `~CachedReads` or one worker, `OwnPatchesSeen`, `HoldsStill`,
`OneStream`, `CanAnswer`) are in their statements. What the first five leave
out is a finding, a line of "Stated, and false" or said beside the theorem.

Only model-checked: everything under fairness (`NoRequeueStorm` of
`SRv6Controller` too) and `ReadyExact`. What stays of an update on the devices was
tried for a proof and left to TLC: with a second edit or any failure other
than a closed gate it is false, so a theorem would be about the one run of
events that `srv6_update` already goes through.

## What is not modelled

* The Network reconciler and renderer (`sonicprovider`, `fabricplan/plan.go`):
  the largest part left. Its first steps would be a wider `FabricPlan` and the
  deletion with a node down.
* Two SRv6 services on one fabric: the conflict gate, the shared /VRF table,
  identifiers that pass from one to the other (composing `SRv6Controller` with
  `IdAuthority`); the executor's concurrent requests.
* Status, capability and inventory answers that only format; the reading of a
  worker's text when its data part is missing; the registration of workers and
  their health endpoints; the sinks and Events of the audit trail.
* Prompting of the language model (the classifier's answer is any of its
  kinds), redaction and formatting, the UI, lab and deployment scripts,
  metrics, recorded experiments; the intent and migration translators and the
  gNMI device server, which are pure conversions.

Out of the prover's reach and left to TLC: liveness under fairness, ENABLED,
and what recursive definitions compute.
