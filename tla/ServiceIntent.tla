--------------------------- MODULE ServiceIntent ---------------------------
(***************************************************************************)
(* What the mapper makes of an operator's request, and what the allocator  *)
(* has to claim for it: the pure part of agents/provisioning/mapper and    *)
(* allocator and of the two schemas between them.                          *)
(*                                                                         *)
(* A request is not a text here but what the patterns of mapper/agent.py   *)
(* find in it, an Ask; the interpretation and the intent keep the fields   *)
(* on which anything is decided.  VLAN numbers keep their boundaries: 0    *)
(* stands for none, 4000 is the last usable and 4094 the last legal one.   *)
(***************************************************************************)
EXTENDS Integers, Sequences, FiniteSets

CONSTANTS
    Nodes, Ports,   \* what an endpoint clause may name, as numbers in their order
    Tags,           \* VLAN numbers an operator may write, 0 for none
    Site            \* what the tier knows of the fabric, see SiteType

\* The capability ConfigMap, whether it can be read and its two lists (a
\* variant is a construct and its signalling); the environment: names of
\* nodes and ports, whether it lists the spines.
Variants == {<<"ip-vrf", "vpn">>, <<"ip-vrf", "evpn">>, <<"mac-vrf", "evpn">>}
SiteType == [available : BOOLEAN, supported : SUBSET Variants, verifiable : SUBSET (Nodes \X Ports),
             nodes : SUBSET Nodes, ports : SUBSET Ports, spines : BOOLEAN]

ASSUME IntentAssumption ==
    Nodes \subseteq Nat /\ Ports \subseteq Nat /\ Tags \subseteq Nat /\ Site \in SiteType

\* Words that name a construct.  "mac-vrf" stands for itself and l2vpn, "ip-vrf"
\* for vrf, l3vpn and routing, "acl" for access-list.  On an SRv6 request only
\* "bridged", extending a vlan with it, and "routed" count; on another only "e-line",
\* which stands for vpls, vpws and bridge domain too, and "filter".
Words == {"mac-vrf", "bridged", "e-line", "evpn", "ip-vrf", "routed", "acl", "filter", "vlan"}
Clauses == [node : Nodes, port : Ports, tag : Tags]

\* srv6: not named, named by its acronym, spelled as segment routing, or
\* spelled so with other white space.  prefix: no CIDR, only one that does
\* not parse, one that does.
\* filter: no permit or deny clause; a stage and a rule; such a rule with a
\* port of no protocol; a rule without a stage; no rule.
\* gateway: an anycast gateway with or without its address.  A spine is one
\* the site does not have, one it has in another spelling, or one it has;
\* via: "via <spine> preferred"; prefer: what follows "prefer", no spine at
\* all, a spine without a name, a spine.  tag: a vlan in front of the endpoints.
Spines == {"unknown", "folded", "known"}
AskType == [srv6 : {"no", "srv6", "spelled", "loose"}, vxlan : BOOLEAN, words : SUBSET Words,
            tag : Tags, tenant : BOOLEAN, clauses : {c \in Seq(Clauses) : Len(c) <= 2},
            prefix : {"none", "ill", "whole"},
            filter : {"none", "whole", "ill", "rule", "word"},
            gateway : {"none", "named", "address"}, feature : BOOLEAN,
            via : {"none"} \cup Spines, prefer : {"none", "other", "unnamed"} \cup Spines,
            alternate : {"none"} \cup Spines]

NamesSRv6(a) == a.srv6 # "no"

\* _parse_preferred_spine: via before prefer; "unnamed" asks for the name.
Spine(a) == IF a.via # "none" THEN a.via ELSE IF a.prefer = "other" THEN "none" ELSE a.prefer
\* _parse_prefixes passes over what does not parse.
Prefixed(a) == a.prefix = "whole"

-----------------------------------------------------------------------------
(* _parse_endpoints *)

\* The first vlan of the text; the one of an endpoint's own clause wins.
TextTag(a) ==
    LET tagged == {i \in DOMAIN a.clauses : a.clauses[i].tag # 0}
    IN IF a.tag # 0 THEN a.tag
       ELSE IF tagged = {} THEN 0
       ELSE a.clauses[CHOOSE i \in tagged : \A j \in tagged : i <= j].tag

Endpoints(a) ==
    [i \in DOMAIN a.clauses |->
        [a.clauses[i] EXCEPT !.tag = IF @ = 0 THEN TextTag(a) ELSE @]]

\* EndpointIntent: a vlan above 4094 raises inside the mapper.
IllegalTag(a) == \E i \in DOMAIN a.clauses : Endpoints(a)[i].tag > 4094

OneNode(eps) == \A i, j \in DOMAIN eps : eps[i].node = eps[j].node

-----------------------------------------------------------------------------
(* The construct *)

\* _detect_service_type: the order of _SERVICE_PATTERNS.
ServiceType(a) ==
    LET bridge == {"mac-vrf", "e-line", "evpn"}
        filter == {"acl", "filter"}
    IN CASE a.words \cap bridge # {} -> "mac-vrf"
         [] a.words \cap bridge = {} /\ "ip-vrf" \in a.words -> "ip-vrf"
         [] a.words \cap (bridge \cup {"ip-vrf"}) = {} /\ a.words \cap filter # {} -> "acl"
         [] a.words \cap (bridge \cup filter \cup {"ip-vrf"}) = {}
               /\ ("vlan" \in a.words \/ TextTag(a) # 0) -> "vlan"
         [] OTHER -> "none"

\* _detect_srv6_construct.  "segment routing" holds the word "routing", one
\* of the aliases of an ip-vrf.
RoutedAlias(a) == a.words \cap {"ip-vrf", "routed"} # {} \/ a.srv6 \in {"spelled", "loose"}

\* Mutant: of "bridged" and "routed" only the construct names count.
SRv6ConstructNamed(a) ==
    CASE "acl" \in a.words -> "refused"
      [] "acl" \notin a.words /\ "mac-vrf" \in a.words -> "mac-vrf"
      [] a.words \cap {"acl", "mac-vrf"} = {} /\ ("ip-vrf" \in a.words \/ a.srv6 \in {"spelled", "loose"}) -> "ip-vrf"
      [] a.words \cap {"acl", "mac-vrf", "ip-vrf"} = {} /\ a.srv6 = "srv6" /\ TextTag(a) # 0 -> "refused"
      [] OTHER -> "none"

\* "mac-vrf" comes before "ip-vrf"; a vlan without either is R5.
SRv6Construct(a) ==
    CASE "acl" \in a.words -> "refused"
      [] "acl" \notin a.words /\ a.words \cap {"mac-vrf", "bridged"} # {} -> "mac-vrf"
      [] a.words \cap {"acl", "mac-vrf", "bridged"} = {} /\ RoutedAlias(a) -> "ip-vrf"
      [] a.words \cap {"acl", "mac-vrf", "bridged"} = {} /\ ~RoutedAlias(a)
            /\ TextTag(a) # 0 -> "refused"
      [] OTHER -> "none"

\* The construct of the interpretation; "vlan" is also the placeholder of
\* one that is not going anywhere.
Construct(a) ==
    LET c == IF NamesSRv6(a) THEN SRv6Construct(a) ELSE ServiceType(a)
    IN IF c \in {"none", "refused"} \/ (NamesSRv6(a) /\ a.vxlan) THEN "vlan" ELSE c

-----------------------------------------------------------------------------
(* What is refused, what is missing *)

When(condition, token) == IF condition THEN {token} ELSE {}

\* R3 and R5 of an SRv6 request; R6, the construct and the gateway of another.
Unsupported(a) ==
    When(a.feature, "feature") \cup
    IF NamesSRv6(a)
      THEN When(a.vxlan, "srv6TransportConflict")
             \cup When(~a.vxlan /\ SRv6Construct(a) = "refused", "srv6UnsupportedConstruct")
      ELSE When(Spine(a) # "none", "tePolicy")
             \cup When(ServiceType(a) = "none", "constructs")
             \cup When(a.gateway # "none" /\ ServiceType(a) # "mac-vrf", "anycastGateway")

\* Mutant: two attachments of one node will do.
SRv6MissingOneNode(a) ==
    LET c == SRv6Construct(a)
    IN When(~a.tenant, "tenant") \cup
       IF c = "none"
         THEN {IF "evpn" \in a.words THEN "srv6_signalling" ELSE "srv6_construct"}
         ELSE When(Len(a.clauses) < 2, "srv6_other_endpoint")
                \cup When(c = "ip-vrf" /\ ~Prefixed(a), "srv6_prefix")
                \cup When(c = "mac-vrf" /\ TextTag(a) = 0, "srv6_vlan")
                \cup When(Spine(a) = "unnamed", "srv6_preferred_spine")

\* srv6_mapping, C1 to C7: nothing is asked of a construct that is unclear.
SRv6Missing(a) ==
    LET c == SRv6Construct(a)
    IN When(~a.tenant, "tenant") \cup
       IF c = "none"
         THEN {IF "evpn" \in a.words THEN "srv6_signalling" ELSE "srv6_construct"}
         ELSE When(Len(a.clauses) < 2 \/ OneNode(a.clauses), "srv6_other_endpoint")
                \cup When(c = "ip-vrf" /\ ~Prefixed(a), "srv6_prefix")
                \cup When(c = "mac-vrf" /\ TextTag(a) = 0, "srv6_vlan")
                \cup When(Spine(a) = "unnamed", "srv6_preferred_spine")

\* _parse_acl, on an acl or beside another construct that has a filter word.
FilterFound(a) == a.filter \in {"whole", "ill"}
OtherMissing(a) ==
    LET c == Construct(a)
    IN When(~a.tenant, "tenant")
         \cup When(Len(a.clauses) < (IF c = "mac-vrf" THEN 2 ELSE 1), "endpoints")
         \cup When(a.filter = "rule", "acl.stage")
         \cup When(a.gateway = "named" /\ c = "mac-vrf", "anycast_gateway")

Missing(a) == IF NamesSRv6(a) THEN SRv6Missing(a) ELSE OtherMissing(a)

\* The mapper raises, or its payload fails the schema: an illegal vlan in a
\* clause that is read at all, or an acl without its filter.
Raises(a) ==
    \/ IllegalTag(a) /\ (NamesSRv6(a) => ~a.vxlan /\ SRv6Construct(a) \in {"mac-vrf", "ip-vrf"})
    \/ ~NamesSRv6(a) /\ Construct(a) = "acl" /\ ~FilterFound(a)

\* _map_node: one of a failure, a rejection, a clarification and an
\* interpretation; a rejection asks for nothing.
Verdict(a) ==
    CASE Raises(a) -> "error"
      [] ~Raises(a) /\ Unsupported(a) # {} -> "reject"
      [] ~Raises(a) /\ Unsupported(a) = {} /\ Missing(a) # {} -> "clarify"
      [] OTHER -> "complete"

\* The payload.  Filter and gateway are looked for only without SRv6.
Interpretation(a) ==
    [type |-> Construct(a),
     srv6 |-> NamesSRv6(a),
     endpoints |-> Endpoints(a),
     prefix |-> Prefixed(a) /\ Construct(a) = "ip-vrf",
     acl |-> IF ~NamesSRv6(a) /\ FilterFound(a) THEN a.filter ELSE "none",
     gateway |-> ~NamesSRv6(a) /\ Construct(a) = "mac-vrf" /\ a.gateway = "address",
     signalling |-> IF Construct(a) = "mac-vrf" \/ "evpn" \in a.words THEN "evpn" ELSE "vpn",
     spine |-> IF NamesSRv6(a) THEN Spine(a) ELSE "none",
     alternate |-> IF NamesSRv6(a) THEN a.alternate ELSE "none"]

-----------------------------------------------------------------------------
(* The supervisor's checks on an SRv6 interpretation *)

\* read_capability: whatever goes wrong with the read, nothing is supported.
Supported == IF Site.available THEN Site.supported ELSE {}
Verifiable == IF Site.available THEN Site.verifiable ELSE {}
\* An empty list of names validates nothing.
Knows(names, want) == names = {} \/ want \in names
Variant(i) == <<i.type, i.signalling>>

\* _srv6_guard_refusal: R2, R7 and R9, all before a claim.  R8, a port that
\* another service holds, has no reader yet and never refuses.
GuardRefusal(i) ==
    LET eps == {i.endpoints[n] : n \in DOMAIN i.endpoints}
    IN When(Variant(i) \notin Supported, "R2")
         \cup When(Site.spines /\ "unknown" \in {i.spine, i.alternate}, "R7")
         \cup When(\E e \in eps : ~Knows(Site.nodes, e.node) \/ ~Knows(Site.ports, e.port), "R7")
         \cup When(\E e \in eps : <<e.node, e.port>> \notin Verifiable, "R9")

\* R4, before the mapper is asked.  names_srv6 allows one space or hyphen
\* where the mapper's own pattern allows any white space.
Unavailable(a) == a.srv6 \in {"srv6", "spelled"} /\ ~Site.available

\* srv6_clarification_question: the variants offered for a missing construct.
Options(field) ==
    CASE field = "srv6_construct" -> {<<"ip-vrf", "vpn">>, <<"mac-vrf", "evpn">>} \cap Supported
      [] field = "srv6_signalling" -> {<<"ip-vrf", "evpn">>, <<"mac-vrf", "evpn">>} \cap Supported
      [] OTHER -> {}

\* What the supervisor puts before the operator for the first confirmation.
Proposed(a) ==
    /\ ~Unavailable(a) /\ Verdict(a) = "complete"
    /\ NamesSRv6(a) => GuardRefusal(Interpretation(a)) = {}

-----------------------------------------------------------------------------
(* The allocator's side of an interpretation *)

NamedTags(i) == {i.endpoints[n].tag : n \in DOMAIN i.endpoints} \ {0}

\* _l2_endpoints and _srv6_endpoints: one bridge domain, one vlan.
Contradicts(i) == i.type \in {"vlan", "mac-vrf"} /\ Cardinality(NamedTags(i)) > 1

Id(kind) == [kind |-> kind, at |-> <<>>]
Client(e) == [kind |-> "client", at |-> <<e.node, e.port>>]

\* _deterministic_endpoints, of two endpoints on distinct nodes.
Ordered(eps) == IF Len(eps) = 2 /\ eps[2].node < eps[1].node THEN <<eps[2], eps[1]>> ELSE eps

\* Mutant: the transport counts for an ip-vrf only.
ProfileOfType(i) ==
    LET vlan == IF NamedTags(i) = {} THEN <<Id("vlan")>> ELSE <<>>
    IN CASE i.srv6 /\ i.type = "ip-vrf" ->
              [n \in DOMAIN i.endpoints |-> Client(Ordered(i.endpoints)[n])]
         [] ~i.srv6 /\ i.type = "ip-vrf" -> <<Id("l3vni"), Id("rt")>>
         [] i.type = "mac-vrf" ->
              vlan \o <<Id("l2vni"), Id("rt")>> \o (IF i.gateway THEN <<Id("l3vni")>> ELSE <<>>)
         [] i.type = "vlan" -> vlan
         [] OTHER -> <<>>

\* Mutant: a vlan is claimed although the operator named one.
ProfileWithVlan(i) ==
    CASE i.srv6 /\ i.type = "ip-vrf" ->
              [n \in DOMAIN i.endpoints |-> Client(Ordered(i.endpoints)[n])]
      [] ~i.srv6 /\ i.type = "ip-vrf" -> <<Id("l3vni"), Id("rt")>>
      [] ~i.srv6 /\ i.type = "mac-vrf" ->
              <<Id("vlan"), Id("l2vni"), Id("rt")>> \o (IF i.gateway THEN <<Id("l3vni")>> ELSE <<>>)
      [] ~i.srv6 /\ i.type = "vlan" -> <<Id("vlan")>>
      [] OTHER -> <<>>

\* _build_intent and _srv6_intent: the claims, in the order they are made.
Profile(i) ==
    LET vlan == IF NamedTags(i) = {} THEN <<Id("vlan")>> ELSE <<>>
    IN CASE i.srv6 /\ i.type = "ip-vrf" ->
              [n \in DOMAIN i.endpoints |-> Client(Ordered(i.endpoints)[n])]
         [] ~i.srv6 /\ i.type = "ip-vrf" -> <<Id("l3vni"), Id("rt")>>
         [] ~i.srv6 /\ i.type = "mac-vrf" ->
              vlan \o <<Id("l2vni"), Id("rt")>> \o (IF i.gateway THEN <<Id("l3vni")>> ELSE <<>>)
         [] ~i.srv6 /\ i.type = "vlan" -> vlan
         [] OTHER -> <<>>

-----------------------------------------------------------------------------
(* The intent, and its validation after the claims *)

Value(ids, kind) ==
    IF \E id \in ids : id.what.kind = kind
      THEN (CHOOSE id \in ids : id.what.kind = kind).value ELSE 0

\* _build_intent, given the identifiers claimed; 0 is an identifier the
\* intent does not carry.  An ip-vrf without a prefix gets one.
Normalized(i, ids) ==
    LET bridge == IF NamedTags(i) # {} THEN CHOOSE v \in NamedTags(i) : TRUE ELSE Value(ids, "vlan")
    IN [type |-> i.type, srv6 |-> i.srv6,
        endpoints |-> [n \in DOMAIN i.endpoints |->
            [node |-> Ordered(i.endpoints)[n].node,
             tag |-> IF i.type \in {"vlan", "mac-vrf"} THEN bridge ELSE 0]],
        l2vni |-> Value(ids, "l2vni"), l3vni |-> Value(ids, "l3vni"), rdRt |-> Value(ids, "rt"),
        prefix |-> i.type = "ip-vrf", gateway |-> i.gateway, acl |-> i.acl,
        signalling |-> i.signalling, spine |-> i.spine]

\* V2, V3, V4, V6 and V7; V7 compares the spine letter by letter.
SRv6Causes(n) ==
    When(n.type \notin {"ip-vrf", "mac-vrf"}, "V2")
      \cup When(n.l2vni # 0 \/ n.l3vni # 0 \/ n.rdRt # 0, "V3")
      \cup When(n.type = "mac-vrf" /\ n.signalling = "vpn", "V4")
      \cup When(Len(n.endpoints) # 2 \/ n.endpoints[1].node = n.endpoints[2].node, "V6")
      \cup When(Site.spines /\ n.spine \in {"unknown", "folded"}, "V7")

\* One bridge domain: a vlan on every endpoint, the same, a usable one.
BridgeCauses(n) ==
    LET tags == {n.endpoints[e].tag : e \in DOMAIN n.endpoints}
    IN When(0 \in tags, "vlan missing")
         \cup When(Cardinality(tags) > 1, "two vlans")
         \cup When(\E v \in tags : v > 4000, "vlan reserved")

VlanCauses(n) ==
    BridgeCauses(n)
      \cup When(~n.srv6 /\ (n.l2vni # 0 \/ n.l3vni # 0 \/ n.rdRt # 0 \/ n.gateway), "wrong construct")

\* last is the largest L3VNI the fabric can render.
MacVrfCauses(n, last) ==
    IF n.srv6 THEN {}
    ELSE BridgeCauses(n)
           \cup When(n.l2vni = 0 \/ n.rdRt = 0, "identifier missing")
           \cup When(Len(n.endpoints) < (IF n.gateway THEN 1 ELSE 2), "endpoints")
           \cup When(n.gateway /\ n.l3vni \notin 1..last, "l3vni")
           \cup When(~n.gateway /\ n.l3vni # 0, "wrong construct")

IpVrfCauses(n, last) ==
    IF n.srv6 THEN {}
    ELSE When(n.l3vni = 0 \/ n.rdRt = 0, "identifier missing")
           \cup When(n.l3vni \notin 1..last, "l3vni")
           \cup When(~n.prefix, "prefix")
           \cup When(n.l2vni # 0 \/ n.gateway, "wrong construct")

\* Only here are the rules of a filter looked at.
AclCauses(n) ==
    When(~n.srv6 /\ (n.l2vni # 0 \/ n.l3vni # 0 \/ n.rdRt # 0 \/ n.gateway), "wrong construct")
      \cup When(n.acl = "ill", "rules")

\* validate_all_or_nothing.
Causes(n, last) ==
    When(Len(n.endpoints) = 0, "endpoints")
      \cup (IF n.srv6 THEN SRv6Causes(n) ELSE {})
      \cup CASE n.type = "vlan" -> VlanCauses(n)
             [] n.type = "mac-vrf" -> MacVrfCauses(n, last)
             [] n.type = "ip-vrf" -> IpVrfCauses(n, last)
             [] OTHER -> AclCauses(n)
=============================================================================
