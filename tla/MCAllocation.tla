---------------------------- MODULE MCAllocation ----------------------------
(* Requests for Allocation: r1 asks anything that differs from a good request  *)
(* of some construct in one respect; or r1 and r2, of the same thread, contend  *)
(* for the same numbers or prefixes.                                           *)
EXTENDS Allocation

Left == [node |-> 2, port |-> 1, tag |-> 0]
Right == [node |-> 1, port |-> 1, tag |-> 0]
\* A node the site does not have.
Far == [node |-> 3, port |-> 1, tag |-> 0]
MCSite == [available |-> TRUE, supported |-> {<<"ip-vrf", "vpn">>, <<"mac-vrf", "evpn">>},
           verifiable |-> {<<1, 1>>, <<2, 1>>, <<3, 1>>}, nodes |-> {1, 2}, ports |-> {}, spines |-> TRUE]
Plain == [srv6 |-> "no", vxlan |-> FALSE, words |-> {"mac-vrf"}, tag |-> 0, tenant |-> TRUE,
          clauses |-> <<Left, Right>>, prefix |-> "none", filter |-> "none",
          gateway |-> "none", feature |-> FALSE, via |-> "none", prefer |-> "none", alternate |-> "none"]
Good == {
    Plain,
    [Plain EXCEPT !.gateway = "address"],
    [Plain EXCEPT !.words = {"ip-vrf"}, !.prefix = "whole"],
    [Plain EXCEPT !.words = {"vlan"}, !.clauses = <<Left>>],
    [Plain EXCEPT !.words = {"acl"}, !.filter = "whole"],
    [Plain EXCEPT !.srv6 = "srv6", !.words = {"ip-vrf"}, !.prefix = "whole"],
    [Plain EXCEPT !.srv6 = "spelled", !.words = {}, !.prefix = "whole"],
    [Plain EXCEPT !.srv6 = "srv6", !.words = {"bridged"}, !.tag = 100]}

Changed(a) == {a} \cup
    {[a EXCEPT !.srv6 = x] : x \in {"no", "srv6", "spelled", "loose"}} \cup
    {[a EXCEPT !.words = @ \cup {x}] : x \in Words} \cup
    {[a EXCEPT !.words = {x}] : x \in {"e-line", "filter"}} \cup
    {[a EXCEPT !.tag = x] : x \in Tags} \cup
    \* An illegal vlan in front of too few endpoints.
    {[a EXCEPT !.tag = 5000, !.clauses = x] : x \in {<<>>, <<Left>>}} \cup
    {[a EXCEPT !.filter = x] : x \in {"whole", "ill", "rule", "word"}} \cup
    {[a EXCEPT !.gateway = x] : x \in {"named", "address"}} \cup
    {[a EXCEPT !.prefer = x] : x \in {"other", "unnamed"} \cup Spines} \cup
    {[a EXCEPT !.clauses = x] : x \in {<<>>, <<Left>>, <<Left, Left>>, <<Left, Far>>,
                                       <<[Left EXCEPT !.tag = 100], [Right EXCEPT !.tag = 4050]>>}} \cup
    {[a EXCEPT !.vxlan = TRUE], [a EXCEPT !.tenant = FALSE],
     [a EXCEPT !.prefix = "none"], [a EXCEPT !.prefix = "ill"], [a EXCEPT !.prefix = "whole"], [a EXCEPT !.feature = TRUE],
     [a EXCEPT !.alternate = "unknown"], [a EXCEPT !.via = "known", !.prefer = "unknown"],
     \* "EVPN over SRv6", "srv6 for tenant ..."
     [a EXCEPT !.srv6 = "srv6", !.words = {"evpn"}], [a EXCEPT !.srv6 = "srv6", !.words = {}]}

MCTags == {0, 100, 4050, 5000}
Near == UNION {Changed(a) : a \in Good}
MCRequests == {"r1", "r2"}
\* r2, which makes r1 contend or is refused.
Refused == [Plain EXCEPT !.feature = TRUE]
MCScenes ==
    {[r \in MCRequests |-> IF r = "r1" THEN a ELSE Refused] : a \in Near} \cup
    {[r \in MCRequests |-> [Plain EXCEPT !.srv6 = "srv6", !.words = {"ip-vrf"}, !.prefix = "whole"]],
     [r \in MCRequests |-> [Plain EXCEPT !.words = {"ip-vrf"}, !.prefix = "whole"]],
     [r \in MCRequests |-> IF r = "r1" THEN [Plain EXCEPT !.words = {"vlan"}] ELSE Plain]}
MCMaxSends == [r \in MCRequests |-> IF r = "r1" THEN 2 ELSE 1]
MCCorrOf == [r \in MCRequests |-> "a"]
MCLast == [k \in Kinds |-> IF k = "l3vni" THEN 1 ELSE 2]
MCServed == [x \in {"vlan", "evpn-vni", "rt"} |-> IF x = "evpn-vni" THEN 2 ELSE IF x = "vlan" THEN 1 ELSE 0]
\* Two mac-vrfs beside a served index that fails once; a mac-vrf and an ip-vrf
\* on the pinned server, which rejects the index.
Bridged == [Plain EXCEPT !.tag = 100]
MCBridges == {[r \in MCRequests |-> Bridged]}
MCBridgeAndRouter ==
    {[r \in MCRequests |-> IF r = "r1" THEN Bridged ELSE [Plain EXCEPT !.words = {"ip-vrf"}, !.prefix = "whole"]]}
MCServedNone == [x \in {"vlan", "evpn-vni", "rt"} |-> IF x = "vlan" THEN 2 ELSE 0]
MCSends1 == [r \in MCRequests |-> 1]
=============================================================================
