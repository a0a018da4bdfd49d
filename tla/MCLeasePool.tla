---------------------------- MODULE MCLeasePool ----------------------------
EXTENDS LeasePool, TLC

CONSTANTS a, b, c

MCCorrIDs == {a, b, c}
MCSymmetry == Permutations(MCCorrIDs)

\* Cached reads that show a call its own leases and may lag about the others'.
MCOwnSpec == Init /\ [][Next /\ ReadsOwnWrites]_vars
=============================================================================
