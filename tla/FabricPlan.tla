----------------------------- MODULE FabricPlan -----------------------------
(***************************************************************************)
(* pkg/fabricplan's SRv6 renderer (ForSRv6Service) and what the executor   *)
(* makes of its output on a node.                                          *)
(*                                                                         *)
(* A node's configuration is a set of items <<kind, key, value>>:          *)
(*   vrf     the VRF row of the service                                    *)
(*   port    the attachment rows of a port (vrf_name and gateway address)  *)
(*   route   the decap, steering and /48 locator routes toward a peer, via *)
(*           a spine; one shell op rolls them back together                *)
(*   pin     the preferred-spine pin of a steered service, ingress only    *)
(*   client  the probe client's addressing behind a port                   *)
(*   locator the bootstrap locator of the node; no op of a plan writes it  *)
(* An op is `replace` on its (kind, key).  Ops run in order and the first  *)
(* one that fails ends the request (cmd/fabric-executor handleApply).      *)
(***************************************************************************)
EXTENDS Naturals, Sequences, FiniteSets, FiniteSetsExt, SequencesExt

CONSTANTS
    Nodes,       \* leaves, numbered in name order
    Ports,       \* logical ports
    Spines,      \* spines
    FirstSpine,  \* the spine whose name sorts first
    None         \* absent

ASSUME FabricPlanAssumption ==
    /\ Nodes \subseteq Nat /\ IsFiniteSet(Nodes)
    /\ FirstSpine \in Spines
    /\ None \notin Spines

(***************************************************************************)
(* A spec: the port of each of its two attachment nodes, and the preferred *)
(* spine (None: not steered).                                              *)
(***************************************************************************)
Pairs == {S \in SUBSET Nodes : Cardinality(S) = 2}
AllSpecs ==
    UNION {[port : [S -> Ports], pref : Spines \cup {None}] : S \in Pairs}

Locator == <<"locator", 0, 0>>

Items ==
    {<<"vrf", 0, 0>>, Locator}
        \cup ({"port", "client"} \X Ports \X {0})
        \cup ({"route", "pin"} \X Nodes \X Spines)

Attached(s) == DOMAIN s.port
Ingress(s) == Min(Attached(s))
Peer(s, n) == CHOOSE m \in Attached(s) : m # n
PinSpine(s) == IF s.pref = None THEN FirstSpine ELSE s.pref
Pinned(s, n) == s.pref # None /\ n = Ingress(s)

\* BuildPlan fails unless every attachment node has a client prefix and a SID
\* among the identifiers it is given.
Renders(s, ids) == Attached(s) \subseteq ids

\* NodePlan.Ops of node n.
Ops(s, n) ==
    <<<<"vrf", 0, 0>>, <<"port", s.port[n], 0>>, <<"route", Peer(s, n), PinSpine(s)>>>>
        \o (IF Pinned(s, n) THEN <<<<"pin", Peer(s, n), s.pref>>>> ELSE <<>>)
        \o <<<<"client", s.port[n], 0>>>>

\* NodePlan.Checks of node n: every item it asked for is observed, with its
\* value.
ChecksPass(s, n, conf) == ToSet(Ops(s, n)) \subseteq conf

\* handleApply: the first k ops of the list have run.
ApplyOps(conf, ops, k) ==
    LET done == {ops[i] : i \in 1..k} IN
    {x \in conf : \A y \in done : x[1] # y[1] \/ x[2] # y[2]} \cup done

(***************************************************************************)
(* NodePlan.Rollback: 1 route deletes (each ignores its own failure),      *)
(* 2 remove the attachment rows, 3 remove /VRF, 4 flush the port, 5 flush  *)
(* the client.  Ops 2 and 3 are JSON-patch removes, which fail on an       *)
(* absent path.                                                            *)
(***************************************************************************)
RollbackLen == 5

RollbackReach(s, n, conf) ==
    IF <<"port", s.port[n], 0>> \notin conf THEN 1
    ELSE IF <<"vrf", 0, 0>> \notin conf THEN 2
    ELSE RollbackLen

RollbackOps(s, n, conf, k) ==
    {x \in conf :
        /\ ~(k >= 1 /\ x[1] = "route" /\ x[2] = Peer(s, n))
        /\ ~(k >= 1 /\ x[1] = "pin" /\ x[2] = Peer(s, n) /\ Pinned(s, n))
        /\ ~(k >= 2 /\ x[1] = "port" /\ x[2] = s.port[n])
        /\ ~(k >= 3 /\ x[1] = "vrf")
        /\ ~(k >= 5 /\ x[1] = "client" /\ x[2] = s.port[n])}

\* Mutant: only the nodes the next plan no longer has are compared.
LostNodesLeft(prev, next) == Attached(prev) \ Attached(next)

\* diffPlans: the nodes on which the previous plan has an op the next lacks.
LostNodes(prev, next) ==
    {n \in Attached(prev) :
        \/ n \notin Attached(next)
        \/ ~(ToSet(Ops(prev, n)) \subseteq ToSet(Ops(next, n)))}

\* hashesEqual: the stored hashes cover the fresh plan's nodes and agree.
\* A hash stands for the op list it digests.
HashesEqual(stored, fresh) ==
    /\ stored # None
    /\ \A n \in Attached(fresh) :
        n \in Attached(stored) /\ Ops(stored, n) = Ops(fresh, n)
=============================================================================
