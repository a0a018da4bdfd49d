----------------------------- MODULE Allocation -----------------------------
(***************************************************************************)
(* The allocator worker (agents/provisioning/allocator): from a confirmed  *)
(* interpretation to an intent with identifiers of the cluster.            *)
(*                                                                         *)
(* A call claims one identifier after the other: at the served KUID API,   *)
(* and for the numbers, when that API fails, by a Lease whose name holds   *)
(* the value.  A call runs on the event loop of its process from end to    *)
(* end, so a process serves one at a time; a rollout runs two processes    *)
(* side by side, and their requests to the API interleave.  The supervisor *)
(* may send a call again while the first one is still running.             *)
(*                                                                         *)
(* An operator's request r is asks[r], of the thread CorrOf[r]; its        *)
(* service_id is r.  Nothing in the tier releases a claim.                 *)
(***************************************************************************)
EXTENDS ServiceIntent

CONSTANTS
    Requests,   \* the operator's requests
    Scenes,     \* what the requests may ask together, functions on Requests
    CorrOf,     \* CorrOf[r]: the correlation id of its thread
    Procs,      \* allocator processes
    Last,       \* Last[k]: KUID_*_MAX of a kind, its range is 1..Last[k]
    Served,     \* Served[x]: the range 1..Served[x] of a KUID index, 0 when it is broken
    MaxSends,   \* MaxSends[r]: bound on the times its call is sent
    LeaseFallback,  \* KUID_ALLOCATION_FALLBACK is "lease"
    MaxFaults,  \* bound on failing requests and crashes
    None

Kinds == {"vlan", "l2vni", "l3vni", "rt"}
\* Both VNIs are drawn from the index evpn-vni.
Index(kind) == IF kind \in {"l2vni", "l3vni"} THEN "evpn-vni" ELSE kind

\* An identifier: its kind, for a client prefix the attachment, who gave it and the value.
What == [kind : Kinds, at : {<<>>}] \cup [kind : {"client"}, at : Nodes \X Ports]
IdType == [what : What, from : {"kuid", "lease"}, value : Nat]

ASSUME AllocationAssumption ==
    /\ Scenes \subseteq [Requests -> AskType]
    /\ Last \in [Kinds -> Nat \ {0}]
    /\ Served \in [{"vlan", "evpn-vni", "rt"} -> Nat]
    /\ LeaseFallback \in BOOLEAN
    /\ MaxSends \in [Requests -> Nat] /\ MaxFaults \in Nat
    /\ None \notin Requests

VARIABLES
    asks,     \* what each request asks
    sends,    \* times its call was sent
    inbox,    \* calls that were sent and not taken up
    proc,     \* the processes
    memo,     \* _memo of each: memo[p][r] holds the answer to r, if there is one
    held,     \* claims and leases in the cluster
    issued,   \* intents answered, as [req, ids, by, life]
    spoiled,  \* requests one of whose calls failed, or waited for a claim in vain
    faults

vars == <<asks, sends, inbox, proc, memo, held, issued, spoiled, faults>>

Held == [id : IdType, corr : {CorrOf[r] : r \in Requests}, req : Requests]
Phases == {"idle", "claim", "list", "create", "carve"}
Intent(r) == Interpretation(asks[r])
Proc == [pc : Phases, req : Requests \cup {None},
         interp : {Intent(r) : r \in Requests} \cup {None},
         todo : Seq(What), ids : Seq(IdType),
         used : SUBSET Nat, from : Nat \ {0}, round : 0..4, life : Nat]

TypeOK ==
    /\ asks \in [Requests -> AskType]
    /\ \A r \in Requests : sends[r] \in 0..MaxSends[r] /\ inbox[r] \in 0..sends[r]
    /\ proc \in [Procs -> Proc]
    /\ memo \in [Procs -> [Requests -> SUBSET SUBSET IdType]]
    /\ held \subseteq Held
    /\ issued \subseteq [req : Requests, ids : SUBSET IdType, by : Procs, life : Nat]
    /\ spoiled \subseteq Requests
    /\ faults \in 0..MaxFaults

Idle(life) ==
    [pc |-> "idle", req |-> None, interp |-> None, todo |-> <<>>, ids |-> <<>>, used |-> {},
     from |-> 1, round |-> 0, life |-> life]

Init ==
    /\ asks \in Scenes
    /\ sends = [r \in Requests |-> 0] /\ inbox = [r \in Requests |-> 0]
    /\ proc = [p \in Procs |-> Idle(0)]
    /\ memo = [p \in Procs |-> [r \in Requests |-> {}]]
    /\ held = {} /\ issued = {} /\ spoiled = {} /\ faults = 0

Fault == faults < MaxFaults /\ faults' = faults + 1
Smooth == UNCHANGED faults

-----------------------------------------------------------------------------
(* The supervisor's side *)

\* call_allocator_agent, at first and again after a timeout, for what the
\* operator was shown and has confirmed.
Sends(r) ==
    /\ sends[r] < MaxSends[r] /\ Proposed(asks[r])
    /\ sends' = [sends EXCEPT ![r] = @ + 1] /\ inbox' = [inbox EXCEPT ![r] = @ + 1]
    /\ UNCHANGED <<asks, proc, memo, held, issued, spoiled>> /\ Smooth

-----------------------------------------------------------------------------
(* A call *)

Req(p) == proc[p].req
\* What is claimed next.
Want(p) == proc[p].todo[Len(proc[p].ids) + 1]
Claiming(p) == proc[p].pc = "claim" /\ Len(proc[p].ids) < Len(proc[p].todo)

\* The call raises: the operator gets a failure, what it claimed stays.
CallRaises(p) ==
    /\ proc' = [proc EXCEPT ![p] = Idle(@.life)]
    /\ spoiled' = spoiled \cup {Req(p)}
    /\ UNCHANGED <<asks, sends, inbox, memo, issued>>

Gains(p, id) ==
    proc' = [proc EXCEPT ![p].pc = "claim", ![p].ids = Append(@, id)]

Holding(p, id) == [id |-> id, corr |-> CorrOf[Req(p)], req |-> Req(p)]

\* _alloc_node: a memoised call is answered with the same intent.
Remembers(p, r) ==
    /\ proc[p].pc = "idle" /\ inbox[r] > 0
    /\ inbox' = [inbox EXCEPT ![r] = @ - 1]
    /\ \E ids \in memo[p][r] :
          issued' = issued \cup {[req |-> r, ids |-> ids, by |-> p, life |-> proc[p].life]}
    /\ UNCHANGED <<asks, sends, proc, memo, held, spoiled>> /\ Smooth

Takes(p, r) ==
    /\ proc[p].pc = "idle" /\ inbox[r] > 0 /\ memo[p][r] = {}
    /\ inbox' = [inbox EXCEPT ![r] = @ - 1]
    /\ \E i \in {Intent(r)} :
          IF Contradicts(i) THEN UNCHANGED proc
          ELSE proc' = [proc EXCEPT ![p].pc = "claim", ![p].req = r,
                                    ![p].interp = i, ![p].todo = Profile(i)]
    /\ UNCHANGED <<asks, sends, memo, held, issued, spoiled>> /\ Smooth

\* The served API: any value of the index that no claim has.
Taken(x) == {h.id.value : h \in {g \in held : g.id.from = "kuid" /\ Index(g.id.what.kind) = x}}
FreeServed(p) == 1..Served[Index(Want(p).kind)] \ Taken(Index(Want(p).kind))
ServedId(p, v) == [what |-> Want(p), from |-> "kuid", value |-> v]

ServedClaim(p) ==
    /\ Claiming(p) /\ Want(p).kind # "client"
    /\ \E v \in FreeServed(p) :
          /\ held' = held \cup {Holding(p, ServedId(p, v))}
          /\ Gains(p, ServedId(p, v))
    /\ UNCHANGED <<asks, sends, inbox, memo, issued, spoiled>> /\ Smooth

\* KUIDExhaustionError is no reason to fall back.
ServedExhausted(p) ==
    /\ Claiming(p) /\ Want(p).kind # "client"
    /\ Served[Index(Want(p).kind)] > 0 /\ FreeServed(p) = {}
    /\ CallRaises(p) /\ UNCHANGED held /\ Smooth

\* KUIDAPIError, always from a broken index.  When it is the wait for the
\* claim that timed out the claim is there, with its value or, always of a
\* broken index, with none: 0.
ApiError(p) ==
    /\ Claiming(p) /\ Want(p).kind # "client"
    /\ IF Served[Index(Want(p).kind)] = 0 THEN Smooth ELSE Fault
    /\ \/ UNCHANGED held
       \/ \E v \in FreeServed(p) \cup {0} : held' = held \cup {Holding(p, ServedId(p, v))}

\* The scan of the Leases is next.
ToLeases(p) ==
    /\ proc' = [proc EXCEPT ![p].pc = "list", ![p].round = 0]
    /\ spoiled' = IF held' = held THEN spoiled ELSE spoiled \cup {Req(p)}
    /\ UNCHANGED <<asks, sends, inbox, memo, issued>>

\* _with_lease_fallback: a Lease instead, when the fallback is enabled.
FallsBack(p) == ApiError(p) /\ IF LeaseFallback THEN ToLeases(p) ELSE CallRaises(p)

\* A request without an HTTP answer raises past the fallback.
ClaimLost(p) ==
    /\ Claiming(p) /\ Want(p).kind # "client" /\ Fault
    /\ CallRaises(p)
    /\ \/ UNCHANGED held
       \/ \E v \in FreeServed(p) \cup {0} : held' = held \cup {Holding(p, ServedId(p, v))}

-----------------------------------------------------------------------------
(* _allocate_fallback_lease *)

Leases(x) == {h.id : h \in {g \in held : g.id.from = "lease" /\ Index(g.id.what.kind) = x}}

\* Mutant: no bound on the rounds.
LeasesListedAgain(p) ==
    /\ proc[p].pc = "list"
    /\ proc' = [proc EXCEPT ![p].pc = "create", ![p].round = @ + 1, ![p].from = 1,
                            ![p].used = {id.value : id \in Leases(Index(Want(p).kind))}]
    /\ UNCHANGED <<asks, sends, inbox, memo, held, issued, spoiled>> /\ Smooth

\* Mutant: the rounds are not counted.
LeasesListedUncounted(p) ==
    /\ proc[p].pc = "list" /\ proc[p].round < 4
    /\ proc' = [proc EXCEPT ![p].pc = "create", ![p].from = 1,
                            ![p].used = {id.value : id \in Leases(Index(Want(p).kind))}]
    /\ UNCHANGED <<asks, sends, inbox, memo, held, issued, spoiled>> /\ Smooth

\* The leases of the index; four rounds.
LeasesListed(p) ==
    /\ proc[p].pc = "list" /\ proc[p].round < 4
    /\ proc' = [proc EXCEPT ![p].pc = "create", ![p].round = @ + 1, ![p].from = 1,
                            ![p].used = {id.value : id \in Leases(Index(Want(p).kind))}]
    /\ UNCHANGED <<asks, sends, inbox, memo, held, issued, spoiled>> /\ Smooth

Unused(p) == {v \in proc[p].from..Last[Want(p).kind] : v \notin proc[p].used}
Lowest(p, v) == \A w \in Unused(p) : v <= w
LeaseId(p, v) == [what |-> Want(p), from |-> "lease", value |-> v]
\* The name of a Lease holds kind, index and value.
NameTaken(id) == \E h \in held : h.id = id

\* Mutant: 409 counts as created.
LeaseCreatedAnyway(p) ==
    /\ proc[p].pc = "create"
    /\ \E v \in Unused(p) :
          /\ Lowest(p, v)
          /\ held' = held \cup {Holding(p, LeaseId(p, v))}
          /\ Gains(p, LeaseId(p, v))
    /\ UNCHANGED <<asks, sends, inbox, memo, issued, spoiled>> /\ Smooth

LeaseCreated(p) ==
    /\ proc[p].pc = "create"
    /\ \E v \in Unused(p) :
          /\ Lowest(p, v) /\ ~NameTaken(LeaseId(p, v))
          /\ held' = held \cup {Holding(p, LeaseId(p, v))}
          /\ Gains(p, LeaseId(p, v))
    /\ UNCHANGED <<asks, sends, inbox, memo, issued, spoiled>> /\ Smooth

\* 409: the next value.
LeaseExists(p) ==
    /\ proc[p].pc = "create"
    /\ \E v \in Unused(p) :
          /\ Lowest(p, v) /\ NameTaken(LeaseId(p, v))
          /\ proc' = [proc EXCEPT ![p].used = @ \cup {v}, ![p].from = v + 1]
    /\ UNCHANGED <<asks, sends, inbox, memo, held, issued, spoiled>> /\ Smooth

RoundOver(p) ==
    /\ proc[p].pc = "create" /\ Unused(p) = {}
    /\ proc' = [proc EXCEPT ![p].pc = "list"]
    /\ UNCHANGED <<asks, sends, inbox, memo, held, issued, spoiled>> /\ Smooth

LeasesExhausted(p) ==
    /\ proc[p].pc = "list" /\ proc[p].round = 4
    /\ CallRaises(p) /\ UNCHANGED held /\ Smooth

\* Any other answer or none, the Lease made or not.
LeaseLost(p) ==
    /\ proc[p].pc \in {"list", "create"} /\ Fault
    /\ CallRaises(p)
    /\ \/ UNCHANGED held
       \/ /\ proc[p].pc = "create"
          /\ \E v \in Unused(p) :
                /\ Lowest(p, v) /\ ~NameTaken(LeaseId(p, v))
                /\ held' = held \cup {Holding(p, LeaseId(p, v))}

-----------------------------------------------------------------------------
(* allocate_client_prefix *)

\* The claim's name holds the correlation id and the attachment, so a claim
\* that is there is the thread's own, of this request or an earlier one.
PrefixId(p) == [what |-> Want(p), from |-> "kuid", value |-> 0]
PrefixHeld(p) == \E h \in held : h.id = PrefixId(p) /\ h.corr = CorrOf[Req(p)]

PrefixRead(p) ==
    /\ Claiming(p) /\ Want(p).kind = "client"
    /\ IF PrefixHeld(p) THEN Gains(p, PrefixId(p))
                        ELSE proc' = [proc EXCEPT ![p].pc = "carve"]
    /\ UNCHANGED <<asks, sends, inbox, memo, held, issued, spoiled>> /\ Smooth

PrefixCarved(p) ==
    /\ proc[p].pc = "carve" /\ ~PrefixHeld(p)
    /\ held' = held \cup {Holding(p, PrefixId(p))}
    /\ Gains(p, PrefixId(p))
    /\ UNCHANGED <<asks, sends, inbox, memo, issued, spoiled>> /\ Smooth

\* The other process made it in between: 409, a collision.
PrefixRaced(p) ==
    /\ proc[p].pc = "carve" /\ PrefixHeld(p)
    /\ CallRaises(p) /\ UNCHANGED held /\ Smooth

\* The read, the claim or the wait for it fails; there is no Lease for these.
PrefixLost(p) ==
    /\ proc[p].pc = "carve" \/ (Claiming(p) /\ Want(p).kind = "client")
    /\ Fault /\ CallRaises(p)
    /\ \/ UNCHANGED held
       \/ proc[p].pc = "carve" /\ ~PrefixHeld(p) /\ held' = held \cup {Holding(p, PrefixId(p))}

-----------------------------------------------------------------------------
(* The end of a call *)

AllClaimed(p) == proc[p].pc = "claim" /\ Len(proc[p].ids) = Len(proc[p].todo)

\* What the intent built of them is refused for.
CausesOf(p) ==
    UNION {Causes(intent, Last["l3vni"]) :
        intent \in {Normalized(proc[p].interp, {proc[p].ids[n] : n \in DOMAIN proc[p].ids})}}

\* What the intent carries; the vlan an operator named wins over a claimed one.
Carried(p) ==
    {id \in {proc[p].ids[n] : n \in DOMAIN proc[p].ids} :
        id.what.kind = "vlan" => NamedTags(proc[p].interp) = {}}

LateRefusal(p) ==
    /\ AllClaimed(p) /\ CausesOf(p) # {}
    /\ CallRaises(p) /\ UNCHANGED held /\ Smooth

\* Mutant: the intent is not memoised.
IssuesUnremembered(p) ==
    /\ AllClaimed(p) /\ CausesOf(p) = {}
    /\ issued' = issued \cup {[req |-> Req(p), ids |-> Carried(p), by |-> p, life |-> proc[p].life]}
    /\ proc' = [proc EXCEPT ![p] = Idle(@.life)]
    /\ UNCHANGED <<asks, sends, inbox, memo, held, spoiled>> /\ Smooth

Issues(p) ==
    /\ AllClaimed(p) /\ CausesOf(p) = {}
    /\ memo' = [memo EXCEPT ![p][Req(p)] = {Carried(p)}]
    /\ issued' = issued \cup {[req |-> Req(p), ids |-> Carried(p), by |-> p, life |-> proc[p].life]}
    /\ proc' = [proc EXCEPT ![p] = Idle(@.life)]
    /\ UNCHANGED <<asks, sends, inbox, held, spoiled>> /\ Smooth

\* The process dies: memo and call are gone, the claims are not.
Crashes(p) ==
    /\ Fault
    /\ proc' = [proc EXCEPT ![p] = Idle(@.life + 1)]
    /\ memo' = [memo EXCEPT ![p] = [r \in Requests |-> {}]]
    /\ spoiled' = IF Req(p) = None THEN spoiled ELSE spoiled \cup {Req(p)}
    /\ UNCHANGED <<asks, sends, inbox, held, issued>>

-----------------------------------------------------------------------------
Numbers(p) == ServedClaim(p) \/ ServedExhausted(p) \/ FallsBack(p) \/ ClaimLost(p)
Leasing(p) ==
    \/ LeasesListed(p) \/ LeaseCreated(p) \/ LeaseExists(p) \/ RoundOver(p)
    \/ LeasesExhausted(p) \/ LeaseLost(p)
Prefixes(p) == PrefixRead(p) \/ PrefixCarved(p) \/ PrefixRaced(p) \/ PrefixLost(p)
Ending(p) == LateRefusal(p) \/ Issues(p)
Works(p) == Numbers(p) \/ Leasing(p) \/ Prefixes(p) \/ Ending(p)

Next ==
    \/ \E r \in Requests : Sends(r) \/ \E p \in Procs : Remembers(p, r) \/ Takes(p, r)
    \/ \E p \in Procs : Works(p) \/ Crashes(p)

Spec == Init /\ [][Next]_vars

\* A call goes on until it returns: every request has a timeout of 10 s and
\* the wait for a claim one of 20 s.
FairSpec == Spec /\ \A p \in Procs : WF_vars(Works(p))

-----------------------------------------------------------------------------
(* Properties *)

\* SC-008: a request that names SRv6 ends without one VXLAN identifier,
\* whatever legacy construct is named beside it, also through the fallback
\* (mapper/agent.py:121-138, allocator/agent.py:179-256).
SRv6Honoured ==
    \A h \in held : NamesSRv6(asks[h.req]) => h.id.what.kind = "client"

\* Every identifier of an answer is held under the thread's correlation id,
\* and no other request is answered with it (allocator/agent.py:472-476,
\* kuid.py:463-475).  The prefixes of a thread's own attachments are shared;
\* L2VNIUnique is about the numbers of distinct authorities and kinds.
IssuedIsHeld ==
    \A i \in issued : \A id \in i.ids :
        /\ \E h \in held : h.id = id /\ h.corr = CorrOf[i.req]
        /\ id.what.kind # "client" => \A j \in issued : j.req # i.req => id \notin j.ids

\* The number of a claim and the number of a Lease are two identifiers to the
\* allocator, and so are those of two kinds.  A mac-vrf is to have a unique
\* L2VNI (docs/OPERATIONS.md:60): no other request's VNI has its number.  It
\* does not hold: the scan of the Leases looks at no claim, and Leases of two
\* kinds have different names (kuid.py:415, 525).
L2VNIUnique ==
    \A i, j \in issued : \A id \in i.ids, other \in j.ids :
        id.what.kind = "l2vni" /\ Index(other.what.kind) = "evpn-vni" /\ i.req # j.req
            => id.value # other.value

\* T226: while a process lives it answers a repeated call with the same
\* identifiers, although the first answer may never have been read.
RepeatIsIdentical ==
    \A i, j \in issued : i.req = j.req /\ i.by = j.by /\ i.life = j.life => i.ids = j.ids

\* A request none of whose calls failed or waited for a claim in vain leaves
\* nothing but what its answers and the calls in progress use; one the mapper
\* did not accept, nothing (SC-003, interpretation.py:152-153).
NothingLeftOver ==
    \A h \in held : h.req \notin spoiled =>
        \/ \E i \in issued : i.req = h.req /\ h.id \in i.ids
        \/ \E p \in Procs : Req(p) = h.req /\ \E n \in DOMAIN proc[p].ids : proc[p].ids[n] = h.id

\* An intent is validated as a whole only when everything is claimed.  What
\* can be found wrong so late, and leaves claims behind, is a vlan of the
\* reserved band, the rules of a filter, an L3VNI the fabric cannot render
\* and a spine in another spelling; all else the mapper and the supervisor
\* have asked about or refused (allocator/agent.py:258-380,
\* normalized_intent.py:182-489).
LateCausesKnown ==
    \A p \in Procs : AllClaimed(p) => CausesOf(p) \subseteq {"vlan reserved", "rules", "l3vni", "V7"}

\* Every call returns, at a full range and beside another process too
\* (kuid.py:449-480).
CallReturns == \A p \in Procs : proc[p].pc # "idle" ~> proc[p].pc = "idle"

\* The operator restates the request with every value that was asked for, v
\* being the variant chosen.
Ends == {c \in [1..2 -> Clauses] : c[1].node # c[2].node /\ c[1].tag = 0 /\ c[2].tag = 0}
Restated(a, v) ==
    LET m == Missing(a)
        given(tokens, value, old) == IF m \cap tokens # {} THEN value ELSE old
    IN [a EXCEPT !.tenant = TRUE,
          !.words = @ \cup When(m \cap {"srv6_construct", "srv6_signalling"} # {},
                               IF v = <<"mac-vrf", "evpn">> THEN "bridged" ELSE "routed"),
          !.clauses = given({"endpoints", "srv6_other_endpoint"}, CHOOSE c \in Ends : TRUE, @),
          !.prefix = given({"srv6_prefix"}, "whole", @),
          !.tag = given({"srv6_vlan"}, CHOOSE n \in Tags : n \in 1..4000, @),
          !.filter = given({"acl.stage"}, "whole", @),
          !.gateway = given({"anycast_gateway"}, "address", @),
          !.via = given({"srv6_preferred_spine"}, "known", @)]

\* FR-010: a clarification comes to an end.  Whoever restates the request as
\* asked is asked at most once more, and of other fields; a construct that
\* was offered is not refused afterwards (mapper/agent.py:273-407,
\* graph.py:363-402; the loop of graph.py:395-397).  The one other end: a vlan
\* above 4094 written in front of no endpoint is not looked at while the
\* endpoints are asked for, and fails the request that names them.
ClarificationEnds ==
    \A r \in Requests : Verdict(asks[r]) = "clarify" =>
        LET a == asks[r]
            options == UNION {Options(field) : field \in Missing(a)}
        IN \A v \in IF options = {} THEN {<<>>} ELSE options :
              LET b == Restated(a, v)
                  c == Restated(b, v)
              IN \/ /\ a.tag > 4094 /\ Missing(a) \cap {"endpoints", "srv6_other_endpoint"} # {}
                    /\ Verdict(b) = "error"
                 \/ /\ Missing(b) \cap Missing(a) = {}
                    /\ Verdict(c) = "complete"
                    /\ options # {} => "R2" \notin GuardRefusal(Interpretation(c))

=============================================================================
