------------------------------ MODULE MCDeploy ------------------------------
(* Three services for DeployTransaction: 1 and 3 are of thread "a", 2 is of    *)
(* thread "b" and binds an access list to the port of 1.  3 is an SRv6Service, *)
(* applied after the Networks.                                                 *)
EXTENDS DeployTransaction

MCNetworks == {1, 2}
MCAttachments == [o \in 1..3 |->
                    CASE o = 1 -> {<<"leaf01", "et1">>}
                      [] o = 2 -> {<<"leaf01", "et1">>, <<"leaf02", "et2">>}
                      [] OTHER -> {<<"leaf02", "et3">>}]
MCStages == [o \in 1..3 |-> IF o \in MCNetworks THEN {"ingress"} ELSE {}]
MCCorrs == {"a", "b"}
MCRequests == {[corr |-> "a", bundle |-> {1, 3}], [corr |-> "b", bundle |-> {2}]}
\* The later submission of the thread of an SRv6 service alone.
MCThread == {[corr |-> "a", bundle |-> {1}], [corr |-> "a", bundle |-> {3}]}

\* Ready, set or cleared, as the controllers of the repository report it.
MCOwnReports == [ready : {"false", "true"}, failed : {"no"}]
\* Terminal failures beside it, or without it.
MCReports == MCOwnReports \cup [ready : {"none", "true"}, failed : {"first", "last"}]
             \cup [ready : {"none"}, failed : {"phase"}]
=============================================================================
