----------------------------- MODULE LeasePool -----------------------------
(***************************************************************************)
(* pkg/kuid's Lease fallback: AllocateLeaseID and releaseFallbackLeases.   *)
(*                                                                         *)
(* A service id is held by a coordination.k8s.io Lease whose NAME embeds   *)
(* the value, so that the API server's uniqueness of names makes Create    *)
(* the allocation step.  A call is a sequence of API requests (List, then  *)
(* Create and Get per value; List, then Delete per lease), and calls made  *)
(* for different correlation ids interleave between requests.  A request   *)
(* may fail, and the answer to one that took effect may be lost.           *)
(*                                                                         *)
(* Reads either go to the API server or, as cmd/srv6-controller wires the  *)
(* manager client, to an informer cache that trails it (CachedReads).      *)
(***************************************************************************)
EXTENDS Naturals, Sequences, FiniteSets

CONSTANTS
    CorrIDs,      \* correlation ids: one caller each
    Last,         \* the range is 1..Last (leaseIDFirst..leaseIDLast)
    Free,         \* no lease carries this value's name
    Workers,      \* calls that may be in progress at the same time
    CachedReads,  \* TRUE: List and Get read the informer cache
    MaxLag,       \* bound: watch events not yet applied to the cache
    MaxFaults     \* bound: failed requests, lost answers and crashes

ASSUME LeasePoolAssumption ==
    /\ Last \in Nat \ {0}
    /\ Free \notin CorrIDs
    /\ Workers \in Nat \ {0}
    /\ CachedReads \in BOOLEAN
    /\ MaxLag \in Nat
    /\ MaxFaults \in Nat

VARIABLES
    leases,   \* API server: value -> correlation id annotated on its lease
    cache,    \* the informer's copy of leases
    events,   \* watch events <<value, holder>> in order, not yet in cache
    pc,       \* where each correlation id's call stands
    used,     \* AllocateLeaseID's used map, built once from its List
    value,    \* AllocateLeaseID's loop variable
    todo,     \* releaseFallbackLeases: listed leases not yet deleted
    grant,    \* the id each service works with (0: none)
    faults    \* faults so far

vars == <<leases, cache, events, pc, used, value, todo, grant, faults>>

Values == 1..Last
Holders == CorrIDs \cup {Free}

TypeOK ==
    /\ leases \in [Values -> Holders]
    /\ cache \in [Values -> Holders]
    /\ events \in Seq(Values \X Holders)
    /\ pc \in [CorrIDs -> {"idle", "scan", "get", "delete"}]
    /\ used \in [CorrIDs -> SUBSET Values]
    /\ value \in [CorrIDs -> 1..(Last + 1)]
    /\ todo \in [CorrIDs -> SUBSET Values]
    /\ grant \in [CorrIDs -> Values \cup {0}]
    /\ faults \in 0..MaxFaults
    /\ \A c \in CorrIDs : pc[c] = "get" => value[c] \in Values

Init ==
    /\ leases = [v \in Values |-> Free]
    /\ cache = [v \in Values |-> Free]
    /\ events = <<>>
    /\ pc = [c \in CorrIDs |-> "idle"]
    /\ used = [c \in CorrIDs |-> {}]
    /\ value = [c \in CorrIDs |-> 1]
    /\ todo = [c \in CorrIDs |-> {}]
    /\ grant = [c \in CorrIDs |-> 0]
    /\ faults = 0

-----------------------------------------------------------------------------
(* The API server and the informer *)

\* What List and Get return.
View == IF CachedReads THEN cache ELSE leases

\* A write takes effect at once on the server and later in the cache.
Write(v, h) ==
    /\ leases' = [leases EXCEPT ![v] = h]
    /\ cache' = cache
    /\ IF CachedReads
       THEN Len(events) < MaxLag /\ events' = Append(events, <<v, h>>)
       ELSE events' = events

NoWrite == UNCHANGED <<leases, cache, events>>

\* The informer applies the oldest pending watch event.
Deliver ==
    /\ events # <<>>
    /\ cache' = [cache EXCEPT ![Head(events)[1]] = Head(events)[2]]
    /\ events' = Tail(events)
    /\ UNCHANGED <<leases, pc, used, value, todo, grant, faults>>

\* A worker is free to start a call.
WorkerFree == Cardinality({d \in CorrIDs : pc[d] # "idle"}) < Workers

Fault == faults < MaxFaults /\ faults' = faults + 1
NoFault == faults' = faults

-----------------------------------------------------------------------------
(* AllocateLeaseID *)

\* The call returns v.
Return(c, v) ==
    /\ grant' = [grant EXCEPT ![c] = v]
    /\ pc' = [pc EXCEPT ![c] = "idle"]
    /\ UNCHANGED <<used, value, todo>>

\* The call returns an error: nothing is granted.
Fail(c) ==
    /\ pc' = [pc EXCEPT ![c] = "idle"]
    /\ UNCHANGED <<used, value, todo, grant>>

\* Listing a lease of this correlation id ends the call with its value.
ListOwn(c) ==
    /\ pc[c] = "idle" /\ grant[c] = 0 /\ WorkerFree
    /\ \E v \in Values : View[v] = c /\ Return(c, v)
    /\ NoWrite /\ NoFault

\* Mutant: the List does not look for this correlation id's own lease.
ListOthersBlind(c) ==
    /\ pc[c] = "idle" /\ grant[c] = 0 /\ WorkerFree
    /\ used' = [used EXCEPT ![c] = {v \in Values : View[v] # Free}]
    /\ value' = [value EXCEPT ![c] = 1]
    /\ pc' = [pc EXCEPT ![c] = "scan"]
    /\ UNCHANGED <<todo, grant>>
    /\ NoWrite /\ NoFault

\* Otherwise the listed values are the used set and the scan starts at 1.
ListOthers(c) ==
    /\ pc[c] = "idle" /\ grant[c] = 0 /\ WorkerFree
    /\ \A v \in Values : View[v] # c
    /\ used' = [used EXCEPT ![c] = {v \in Values : View[v] # Free}]
    /\ value' = [value EXCEPT ![c] = 1]
    /\ pc' = [pc EXCEPT ![c] = "scan"]
    /\ UNCHANGED <<todo, grant>>
    /\ NoWrite /\ NoFault

\* The value the loop tries next: the smallest one left that is not used.
Next1(c, v) ==
    /\ v \in value[c]..Last
    /\ v \notin used[c]
    /\ \A w \in value[c]..(v - 1) : w \in used[c]

\* The loop has run through the range.
ScanOver(c) == \A v \in value[c]..Last : v \in used[c]

\* Create succeeds: the value is allocated.
CreateOK(c) ==
    /\ pc[c] = "scan"
    /\ \E v \in Values :
        /\ Next1(c, v)
        /\ leases[v] = Free
        /\ Write(v, c)
        /\ Return(c, v)
    /\ NoFault

\* Create answers AlreadyExists: the holder has to be read.
CreateExists(c) ==
    /\ pc[c] = "scan"
    /\ \E v \in Values :
        /\ Next1(c, v)
        /\ leases[v] # Free
        /\ value' = [value EXCEPT ![c] = v]
    /\ pc' = [pc EXCEPT ![c] = "get"]
    /\ UNCHANGED <<used, todo, grant>>
    /\ NoWrite /\ NoFault

\* Create fails; the lease may nevertheless have been created (a lost answer).
CreateError(c) ==
    /\ pc[c] = "scan"
    /\ \E v \in Values :
        /\ Next1(c, v)
        /\ \/ NoWrite
           \/ leases[v] = Free /\ Write(v, c)
    /\ Fail(c) /\ Fault

\* Mutant: AlreadyExists is taken for success without comparing the holder.
GetAny(c) ==
    /\ pc[c] = "get"
    /\ Return(c, value[c])
    /\ NoWrite /\ NoFault

\* The existing lease turns out to be this correlation id's own.
GetOwn(c) ==
    /\ pc[c] = "get"
    /\ View[value[c]] = c
    /\ Return(c, value[c])
    /\ NoWrite /\ NoFault

\* Mutant: the loop variable is advanced twice.
GetSkip(c) ==
    /\ pc[c] = "get"
    /\ View[value[c]] # c /\ NoFault
    /\ value' = [value EXCEPT ![c] = @ + 2]
    /\ pc' = [pc EXCEPT ![c] = "scan"]
    /\ UNCHANGED <<used, todo, grant>>
    /\ NoWrite

\* It is another's, is gone, or cannot be read: on to the next value.
GetOther(c) ==
    /\ pc[c] = "get"
    /\ \/ View[value[c]] # c /\ NoFault
       \/ Fault
    /\ value' = [value EXCEPT ![c] = @ + 1]
    /\ pc' = [pc EXCEPT ![c] = "scan"]
    /\ UNCHANGED <<used, todo, grant>>
    /\ NoWrite

\* No value is left: ExhaustionError.
Exhausted(c) ==
    /\ pc[c] = "scan"
    /\ ScanOver(c)
    /\ Fail(c)
    /\ NoWrite /\ NoFault

-----------------------------------------------------------------------------
(* releaseFallbackLeases *)

\* Mutant: the List is not filtered by the correlation id annotation.
ReleaseListAll(c) ==
    /\ pc[c] = "idle" /\ WorkerFree
    /\ todo' = [todo EXCEPT ![c] = {v \in Values : View[v] # Free}]
    /\ grant' = [grant EXCEPT ![c] = 0]
    /\ pc' = [pc EXCEPT ![c] = "delete"]
    /\ UNCHANGED <<used, value>>
    /\ NoWrite /\ NoFault

\* The caller has stopped using its id (the device is rolled back) and lists
\* the leases annotated with the correlation id.
ReleaseList(c) ==
    /\ pc[c] = "idle" /\ WorkerFree
    /\ todo' = [todo EXCEPT ![c] = {v \in Values : View[v] = c}]
    /\ grant' = [grant EXCEPT ![c] = 0]
    /\ pc' = [pc EXCEPT ![c] = "delete"]
    /\ UNCHANGED <<used, value>>
    /\ NoWrite /\ NoFault

\* Delete goes by name; NotFound counts as deleted.
ReleaseDelete(c) ==
    /\ pc[c] = "delete"
    /\ \E v \in todo[c] :
        /\ IF leases[v] = Free THEN NoWrite ELSE Write(v, Free)
        /\ todo' = [todo EXCEPT ![c] = @ \ {v}]
    /\ UNCHANGED <<pc, used, value, grant>>
    /\ NoFault

\* A failed Delete (which may have taken effect) abandons the rest.
ReleaseError(c) ==
    /\ pc[c] = "delete"
    /\ \E v \in todo[c] :
        \/ NoWrite
        \/ leases[v] # Free /\ Write(v, Free)
    /\ Fail(c) /\ Fault

ReleaseDone(c) ==
    /\ pc[c] = "delete" /\ todo[c] = {}
    /\ Fail(c)
    /\ NoWrite /\ NoFault

-----------------------------------------------------------------------------
\* The process restarts: every call is cut off, ids that no status recorded
\* are forgotten, and the new informer starts from a fresh list.
Restart ==
    /\ pc' = [c \in CorrIDs |-> "idle"]
    /\ \E lost \in SUBSET CorrIDs :
        grant' = [c \in CorrIDs |-> IF c \in lost THEN 0 ELSE grant[c]]
    /\ cache' = IF CachedReads THEN leases ELSE cache
    /\ events' = <<>>
    /\ Fault
    /\ UNCHANGED <<leases, used, value, todo>>

AllocStep(c) ==
    \/ ListOwn(c) \/ ListOthers(c)
    \/ CreateOK(c) \/ CreateExists(c) \/ CreateError(c)
    \/ GetOwn(c) \/ GetOther(c) \/ Exhausted(c)

ReleaseStep(c) ==
    ReleaseList(c) \/ ReleaseDelete(c) \/ ReleaseError(c) \/ ReleaseDone(c)

Next ==
    \/ \E c \in CorrIDs : AllocStep(c) \/ ReleaseStep(c)
    \/ Deliver
    \/ Restart

Spec == Init /\ [][Next]_vars

\* A List or a Get of c's call.
Reads(c) == ListOwn(c) \/ ListOthers(c) \/ GetOwn(c) \/ GetOther(c) \/ ReleaseList(c)

\* What a call reads shows its own leases as they are, and may show everyone
\* else's as they were.  Reads from the API server do; reads from the cache do
\* when the call's own last writes have arrived in it.
ReadsOwnWrites ==
    \A c \in CorrIDs : Reads(c) => \A v \in Values : View[v] = c <=> leases[v] = c

-----------------------------------------------------------------------------
(* Properties *)

\* AllocateLeaseID's promise: the id a service works with is held by a lease
\* annotated with its correlation id ("Creation success means allocation",
\* lease.go), whatever calls, failures and restarts came between.  It needs
\* reads that show the caller its own leases: with the informer cache behind,
\* a List still shows the lease that its own release deleted.
GrantBacked ==
    \A c \in CorrIDs : grant[c] # 0 => leases[grant[c]] = c

\* No two services ever work with the same id (Vrf<id> is keyed by it).
DistinctGrants ==
    \A c, d \in CorrIDs : c # d /\ grant[c] # 0 => grant[c] # grant[d]

\* A correlation id never holds two leases, lost answers and restarts
\* included: the own-lease short cut of the List makes a retry a no-op.
OneLeasePerCorrID ==
    \A v, w \in Values : leases[v] # Free /\ leases[v] = leases[w] => v = w

\* releaseFallbackLeases frees a lease only for the correlation id it is
\* annotated with, although Delete goes by name alone: a holder changes only
\* to Free, and only while that holder's own release is deleting.
OnlyHolderReleases ==
    [][\A v \in Values : leases[v] # Free /\ leases'[v] # leases[v]
          => leases'[v] = Free /\ pc[leases[v]] = "delete"]_vars

Authority == INSTANCE IdAuthority WITH owner <- leases

\* With reads that show a caller its own leases, the requests of
\* AllocateLeaseID and releaseFallbackLeases together behave as the atomic
\* authority: every interleaving, lost answer and restart maps to its steps.
ImplementsIdAuthority == Authority!Spec
=============================================================================
