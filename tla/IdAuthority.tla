---------------------------- MODULE IdAuthority ----------------------------
(***************************************************************************)
(* What pkg/kuid promises its callers, stripped of requests and retries:   *)
(* an id has at most one owner, a service works only with an id it owns,   *)
(* owns at most one, and an id is freed only once its owner no longer      *)
(* works with it.                                                          *)
(***************************************************************************)
EXTENDS Naturals

CONSTANTS CorrIDs, Values, Free

VARIABLES owner, grant

authority == <<owner, grant>>

Init ==
    /\ owner = [v \in Values |-> Free]
    /\ grant = [c \in CorrIDs |-> 0]

\* The service learns the id it owns, owning it from this step on if need be.
Acquire(c, v) ==
    /\ grant[c] = 0
    /\ owner[v] \in {Free, c}
    /\ \A w \in Values : owner[w] = c => w = v
    /\ owner' = [owner EXCEPT ![v] = c]
    /\ grant' = [grant EXCEPT ![c] = v]

\* The id is owned but the service was never told.
Reserve(c, v) ==
    /\ owner[v] = Free
    /\ \A w \in Values : owner[w] # c
    /\ owner' = [owner EXCEPT ![v] = c]
    /\ grant' = grant

\* Services stop working with their ids.
Forget(S) ==
    /\ grant' = [c \in CorrIDs |-> IF c \in S THEN 0 ELSE grant[c]]
    /\ owner' = owner

\* An id nobody works with is freed.
Relinquish(v) ==
    /\ owner[v] # Free
    /\ grant[owner[v]] # v
    /\ owner' = [owner EXCEPT ![v] = Free]
    /\ grant' = grant

Next ==
    \/ \E c \in CorrIDs, v \in Values : Acquire(c, v) \/ Reserve(c, v)
    \/ \E S \in SUBSET CorrIDs : Forget(S)
    \/ \E v \in Values : Relinquish(v)

Spec == Init /\ [][Next]_authority
=============================================================================
