------------------------------- MODULE MCSRv6 -------------------------------
EXTENDS SRv6Controller

CONSTANTS s1, s2

Between(a, pa, b, pb, pref) ==
    [port |-> [n \in {a, b} |-> IF n = a THEN pa ELSE pb], pref |-> pref]

MCNodes == {1, 2}
MCPorts == {1, 2}
MCSpines == {s1, s2}

Plain == Between(1, 1, 2, 1, None)
OtherPort == Between(1, 2, 2, 1, None)
PeerPort == Between(1, 1, 2, 2, None)
Steered == Between(1, 1, 2, 1, s2)
SteeredFirst == Between(1, 1, 2, 1, s1)

MCPorts2 == {Plain, OtherPort}
MCAll == {Plain, OtherPort, PeerPort, Steered, SteeredFirst}
MCPlainSteered == {Plain, Steered}
MCPortSteered == {OtherPort, Steered}
=============================================================================
