------------------------------ MODULE MCGraph ------------------------------
(* Texts for ProvisioningGraph: one for each way through the supervisor node. *)
EXTENDS ProvisioningGraph

Plain == [two |-> FALSE, status |-> FALSE, prov |-> FALSE, sid |-> FALSE, remove |-> FALSE,
          yes |-> FALSE, no |-> FALSE, device |-> FALSE, feature |-> FALSE, info |-> FALSE, means |-> "other"]

MCTexts == {
    \* "create a mac-vrf on vlan 160 ..."
    [Plain EXCEPT !.prov = TRUE, !.means = "request"],
    \* "confirm"
    [Plain EXCEPT !.yes = TRUE, !.means = "confirm"],
    \* "cancel"
    [Plain EXCEPT !.no = TRUE, !.means = "decline"],
    \* "what is the status of the deployment?" holds the word "deploy"
    [Plain EXCEPT !.status = TRUE, !.yes = TRUE, !.info = TRUE, !.means = "question"],
    \* "remove service <id>"
    [Plain EXCEPT !.remove = TRUE, !.means = "request"],
    \* "status of service <id>"
    [Plain EXCEPT !.sid = TRUE, !.means = "question"],
    \* "ssh to the leaf and create a vlan"
    [Plain EXCEPT !.prov = TRUE, !.device = TRUE, !.means = "other"],
    \* "what can you do?"
    [Plain EXCEPT !.info = TRUE, !.means = "question"]}

\* A request, and "cancel the deployment", which holds a word of each list.
MCAnswers == {
    [Plain EXCEPT !.prov = TRUE, !.means = "request"],
    [Plain EXCEPT !.yes = TRUE, !.no = TRUE, !.means = "decline"]}

\* A request, "confirm" and "decline".
MCDecisions == {
    [Plain EXCEPT !.prov = TRUE, !.means = "request"],
    [Plain EXCEPT !.yes = TRUE, !.means = "confirm"],
    [Plain EXCEPT !.no = TRUE, !.means = "decline"]}

\* A request, "confirm", and a question for the status of another service.
MCDetour == {
    [Plain EXCEPT !.prov = TRUE, !.means = "request"],
    [Plain EXCEPT !.yes = TRUE, !.means = "confirm"],
    [Plain EXCEPT !.sid = TRUE, !.means = "question"]}
=============================================================================
