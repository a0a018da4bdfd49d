------------------------- MODULE ProvisioningGraph -------------------------
(***************************************************************************)
(* The supervisor of the intent tier (agents/supervisors/provisioning):    *)
(* one conversation thread, the six nodes of its graph and the calls they  *)
(* make to the mapper, allocator and deployer workers.                     *)
(*                                                                         *)
(* A stream is one POST /agent/prompt/stream: it loads the thread's        *)
(* checkpoint, runs node after node on its own copy of the state, and      *)
(* saves that copy when a node returns.  Several streams of one thread may *)
(* run at a time; nothing in the code serialises them.                     *)
(*                                                                         *)
(* A text of the operator is the record of the patterns it matches.  An    *)
(* interpretation is a number, new for every one the mapper returns, so    *)
(* that a decision can be traced to what was decided.                      *)
(*                                                                         *)
(* awaiting_confirmation and pending_action are set and cleared together   *)
(* by every return of every node: pending stands for both.  claimed_ids is *)
(* never filled by any node and is left out.  What the workers do inside   *)
(* is in DeployTransaction and Allocation; here only the effect and the    *)
(* kinds of answer of a call appear.                                       *)
(***************************************************************************)
EXTENDS Integers, FiniteSets

CONSTANTS
    Streams,        \* names of the requests that may run at one time
    Texts,          \* the texts an operator sends, see TextType
    MaxTurns,       \* bound on the number of texts sent
    MaxInterp,      \* bound on the number of interpretations
    MaxCorr,        \* bound on the correlation ids minted
    MAX_ITERATIONS, \* graph.py: 3
    Attempts,       \* WORKER_CALL_RETRIES + 1
    Mishaps,        \* which faults a run has
    MaxFaults,      \* bound on their number
    None

Workers == {"mapper", "allocator", "deployer"}
Interps == 1..MaxInterp
Corrs == 1..MaxCorr
Questions == {"confirm_1", "confirm_2", "confirm_remove"}
Nodes == {"supervisor", "mapper", "allocator", "deployer", "reflection", "general_info"}

\* What the detectors of graph.py say of a text: two constructs, a question
\* for the outcome of the deployment, a service request, "status of <id>",
\* "remove <id>", a word of CONFIRM_WORDS, one of DECLINE_WORDS, a direct
\* action on a device, an unsupported feature, the form of a question.  means is
\* the operator's own intention; the code does not see it.
TextType == [two : BOOLEAN, status : BOOLEAN, prov : BOOLEAN, sid : BOOLEAN, remove : BOOLEAN,
             yes : BOOLEAN, no : BOOLEAN, device : BOOLEAN, feature : BOOLEAN, info : BOOLEAN,
             means : {"request", "confirm", "decline", "question", "other"}]
\* DIRECT_DEVICE_PATTERNS, UNSUPPORTED_FEATURE_PATTERNS: refused before the
\* classifier is asked.
Unsafe(m) == m.device \/ m.feature

ASSUME GraphAssumption ==
    /\ MaxTurns \in Nat /\ MaxInterp \in Nat /\ MaxCorr \in Nat \ {0}
    /\ MAX_ITERATIONS \in Nat /\ Attempts \in Nat \ {0} /\ MaxFaults \in Nat
    /\ Texts \subseteq TextType
    /\ None \notin Interps /\ None \notin Corrs
    /\ None \notin Questions /\ None \notin {"clarify", "status", "remove", "confirm", "decline"}

VARIABLES
    cp,        \* the checkpoint of the thread
    stream,    \* the streams: node, copy of the state, call in progress
    late,      \* calls given up by the supervisor that the worker may still serve
    down,      \* workers that cannot be reached
    claims,    \* identifiers held, as <<correlation id, interpretation>>
    objects,   \* submitted objects, likewise (every object carries the label)
    decided,   \* decisions recorded with an audit event: <<question, decision, interpretation>>
    turns, interps, corrs, faults   \* counters

world == <<late, down, claims, objects>>
counters == <<turns, interps, corrs, faults>>
vars == <<cp, stream, world, decided, counters>>

Statuses == {"RECEIVED_REQUEST", "MAPPED", "ALLOCATED", "APPROVED", "PROVISIONING", "COMPLETED", "FAILED"}
GraphState == [status : Statuses, iteration : Nat,
               pending : Questions \cup {"clarify", None},
               mapped : Interps \cup {None}, allocated : Interps \cup {None},
               confirmation_2 : {"confirm", "decline", None},
               tool : {"status", "remove", None}, tool_corr : Corrs \cup {None},
               submitted : Corrs \cup {None}, corr : Corrs \cup {None}]
Jobs == [kind : {"map", "allocate", "submit", "status", "remove"},
         corr : Corrs \cup {None}, id : Interps \cup {None}, agreed : Questions \cup {None}]
Stream == [pc : Nodes \cup {"idle"}, msg : Texts \cup {None}, st : GraphState,
           call : Jobs \cup {None}, attempt : 0..Attempts, linked : BOOLEAN, expired : BOOLEAN,
           agreed : Questions \cup {None}]

TypeOK ==
    /\ cp \in GraphState
    /\ stream \in [Streams -> Stream]
    /\ late \subseteq Jobs /\ down \subseteq Workers
    /\ claims \subseteq Corrs \X Interps /\ objects \subseteq Corrs \X Interps
    /\ decided \subseteq Questions \X {"confirm", "decline"} \X (Interps \cup {None})
    /\ turns \in 0..MaxTurns /\ interps \in 0..MaxInterp
    /\ corrs \in 0..MaxCorr /\ faults \in 0..MaxFaults

NewState == [status |-> "RECEIVED_REQUEST", iteration |-> 0, pending |-> None,
             mapped |-> None, allocated |-> None, confirmation_2 |-> None,
             tool |-> None, tool_corr |-> None, submitted |-> None, corr |-> None]
Rest(st) == [pc |-> "idle", msg |-> None, st |-> st, call |-> None, attempt |-> 0,
             linked |-> FALSE, expired |-> FALSE, agreed |-> None]

Init ==
    /\ cp = NewState /\ stream = [s \in Streams |-> Rest(NewState)]
    /\ late = {} /\ down = {} /\ claims = {} /\ objects = {} /\ decided = {}
    /\ turns = 0 /\ interps = 0 /\ corrs = 0 /\ faults = 0

Mishap(k) == k \in Mishaps /\ faults < MaxFaults /\ faults' = faults + 1
Smooth == UNCHANGED faults

-----------------------------------------------------------------------------
(* Moves of a stream *)

\* A node returns: its writes are applied to the copy, the copy is saved and
\* the edge to the next node taken.
Goto(s, node, st) ==
    /\ stream' = [stream EXCEPT ![s].pc = node, ![s].st = st, ![s].call = None, ![s].attempt = 0,
                                ![s].linked = FALSE]
    /\ cp' = st

\* The edge to END: the stream's last chunk is written and it closes.
Ends(s, st) ==
    /\ stream' = [stream EXCEPT ![s] = Rest(NewState)]
    /\ cp' = st

\* _refuse, _reject_out_of_contract and _bounded_exit write the same fields.
Failed(st) == [st EXCEPT !.status = "FAILED", !.pending = None]

\* Mutant: the request for a tool survives.
StartKeepingTool(st) ==
    [st EXCEPT !.status = "RECEIVED_REQUEST", !.pending = None, !.mapped = None,
               !.allocated = None, !.confirmation_2 = None, !.tool_corr = None, !.submitted = None]

\* _start_provisioning: a clean transaction on a new or reused thread.
StartProvisioning(st) ==
    [st EXCEPT !.status = "RECEIVED_REQUEST", !.pending = None, !.mapped = None,
               !.allocated = None, !.confirmation_2 = None, !.tool = None,
               !.tool_corr = None, !.submitted = None]

At(s, node) == stream[s].pc = node /\ stream[s].call = None
Quiet == UNCHANGED <<world, decided, interps, turns, corrs>>

\* The turn's copy of the checkpoint: status and deadline are seeded anew,
\* everything else is carried over.
Seeds(s, m, id) ==
    LET st == [cp EXCEPT !.status = "RECEIVED_REQUEST", !.corr = id]
    IN /\ stream' = [stream EXCEPT ![s] = [Rest(st) EXCEPT !.pc = "supervisor", !.msg = m]]
       /\ cp' = st

\* handle_stream_prompt: the correlation id is the checkpoint's; a new thread
\* gets a new one, and so does one whose checkpoint could not be read.
TurnStarts(s, m) ==
    /\ stream[s].pc = "idle" /\ turns < MaxTurns
    /\ \/ /\ cp.corr # None /\ Seeds(s, m, cp.corr)
          /\ UNCHANGED corrs /\ Smooth
       \/ /\ corrs < MaxCorr /\ Seeds(s, m, corrs + 1)
          /\ corrs' = corrs + 1
          /\ (cp.corr = None /\ Smooth) \/ (cp.corr # None /\ Mishap("unread"))
    /\ turns' = turns + 1
    /\ UNCHANGED <<world, decided, interps>>

-----------------------------------------------------------------------------
(* The supervisor node: one action per return, guards in the code's order. *)

Bounded(s) ==
    \/ stream[s].expired
    \/ stream[s].st.pending = None /\ stream[s].st.iteration >= MAX_ITERATIONS
OwnStatus(s) == stream[s].msg.status /\ ~stream[s].msg.prov /\ stream[s].st.submitted # None
ToolText(s) == OwnStatus(s) \/ stream[s].msg.sid \/ stream[s].msg.remove
\* The text is read as an answer or as a request only below these returns.
Considered(s) == At(s, "supervisor") /\ ~Bounded(s) /\ ~stream[s].msg.two /\ ~ToolText(s)
Answering(s) == Considered(s) /\ stream[s].st.pending \in Questions
Requesting(s) == Considered(s) /\ stream[s].st.pending \notin Questions

SupervisorRefuses(s) ==
    /\ At(s, "supervisor")
    /\ \/ Bounded(s) \/ stream[s].msg.two
       \/ Requesting(s) /\ stream[s].st.pending # "clarify" /\ Unsafe(stream[s].msg)
    /\ Ends(s, Failed(stream[s].st))
    /\ Quiet /\ Smooth

\* A question for a status: of this thread's submission, selected by its
\* correlation id, or of a service id, which selects nothing.
StatusRouted(s) ==
    /\ At(s, "supervisor") /\ ~Bounded(s) /\ ~stream[s].msg.two
    /\ OwnStatus(s) \/ stream[s].msg.sid
    /\ Goto(s, "deployer",
            [stream[s].st EXCEPT !.tool = "status",
                 !.tool_corr = IF OwnStatus(s) THEN stream[s].st.submitted ELSE None])
    /\ Quiet /\ Smooth

RemoveAsked(s) ==
    /\ At(s, "supervisor") /\ ~Bounded(s) /\ ~stream[s].msg.two
    /\ stream[s].msg.remove /\ ~OwnStatus(s) /\ ~stream[s].msg.sid
    /\ Ends(s, [stream[s].st EXCEPT !.tool = "remove", !.tool_corr = None, !.pending = "confirm_remove"])
    /\ Quiet /\ Smooth

\* What a decision is about.
Subject(st) ==
    CASE st.pending = "confirm_1" -> st.mapped
      [] st.pending = "confirm_2" -> st.allocated
      [] OTHER -> None

Decides(s, decision) ==
    decided' = decided \cup {<<stream[s].st.pending, decision, Subject(stream[s].st)>>}

\* Mutant: the second confirmation leaves the status alone.
ConfirmedQuietly(s) ==
    /\ Answering(s) /\ stream[s].msg.yes
    /\ Decides(s, "confirm")
    /\ LET st == [stream[s].st EXCEPT !.pending = None]
           q == stream[s].st.pending
           next == IF q = "confirm_2" THEN [st EXCEPT !.confirmation_2 = "confirm"] ELSE st
       IN /\ cp' = next
          /\ stream' = [stream EXCEPT ![s].pc = IF q = "confirm_1" THEN "allocator" ELSE "deployer",
                                      ![s].st = next, ![s].agreed = q]
    /\ UNCHANGED <<world, interps, turns, corrs>> /\ Smooth

\* A confirmation word, whatever else the text says.
Confirmed(s) ==
    /\ Answering(s) /\ stream[s].msg.yes
    /\ Decides(s, "confirm")
    /\ LET st == [stream[s].st EXCEPT !.pending = None]
           q == stream[s].st.pending
           next == IF q = "confirm_2"
                     THEN [st EXCEPT !.confirmation_2 = "confirm", !.status = "APPROVED"]
                     ELSE st
       IN /\ cp' = next
          /\ stream' = [stream EXCEPT ![s].pc = IF q = "confirm_1" THEN "allocator" ELSE "deployer",
                                      ![s].st = next, ![s].agreed = q]
    /\ UNCHANGED <<world, interps, turns, corrs>> /\ Smooth

\* Mutant: the question stays open.
DeclinedOpen(s) ==
    /\ Answering(s) /\ ~stream[s].msg.yes /\ stream[s].msg.no
    /\ Decides(s, "decline")
    /\ Ends(s, [stream[s].st EXCEPT !.status = "FAILED"])
    /\ UNCHANGED <<world, interps, turns, corrs>> /\ Smooth

\* FR-007: the decision is recorded; nothing is asked of the allocator.
Declined(s) ==
    /\ Answering(s) /\ ~stream[s].msg.yes /\ stream[s].msg.no
    /\ Decides(s, "decline")
    /\ Ends(s, IF stream[s].st.pending = "confirm_2"
                 THEN [Failed(stream[s].st) EXCEPT !.confirmation_2 = "decline"]
                 ELSE Failed(stream[s].st))
    /\ UNCHANGED <<world, interps, turns, corrs>> /\ Smooth

AskedAgain(s) ==
    /\ Answering(s) /\ ~stream[s].msg.yes /\ ~stream[s].msg.no
    /\ Ends(s, stream[s].st)
    /\ Quiet /\ Smooth

\* A request on its way to the classifier: a restatement after a
\* clarification goes there directly, any other text past the detectors.
Unclassified(s) ==
    /\ Requesting(s)
    /\ stream[s].st.pending = "clarify" \/ ~Unsafe(stream[s].msg)

\* A mixed request and status text starts without the classifier.
Mixed(s) == stream[s].msg.prov /\ stream[s].msg.status /\ stream[s].st.pending # "clarify"

ProvisioningStarts(s) ==
    /\ Unclassified(s)
    /\ Goto(s, "mapper", StartProvisioning(stream[s].st))
    /\ Quiet /\ Smooth

ClassifiedOther(s) ==
    /\ Unclassified(s) /\ ~Mixed(s)
    /\ \/ Goto(s, "general_info", [stream[s].st EXCEPT !.pending = None])
       \/ Ends(s, Failed(stream[s].st))
    /\ Quiet /\ Smooth

\* The model does not answer: fallback_classification, or a failure.
ModelUnavailable(s) ==
    /\ Unclassified(s) /\ ~Mixed(s) /\ Mishap("model")
    /\ LET m == stream[s].msg
           st == [stream[s].st EXCEPT !.pending = None]
       IN \/ m.info /\ Goto(s, "general_info", st)
          \/ ~m.info /\ m.prov /\ Goto(s, "mapper", StartProvisioning(st))
          \/ ~m.info /\ ~m.prov /\ Ends(s, Failed(st))
    /\ Quiet

-----------------------------------------------------------------------------
(* Worker calls (tools.py _send): bounded attempts.  Each makes a transport *)
(* and a client first, which nothing bounds; the message has a timeout.     *)

WorkerOf(job) ==
    CASE job.kind = "map" -> "mapper"
      [] job.kind = "allocate" -> "allocator"
      [] OTHER -> "deployer"

Job(s, kind, corr, id) == [kind |-> kind, corr |-> corr, id |-> id, agreed |-> stream[s].agreed]

Calls(s, job) ==
    /\ stream' = [stream EXCEPT ![s].call = job, ![s].attempt = 1]
    /\ UNCHANGED cp /\ Quiet /\ Smooth

MapperCalls(s) == At(s, "mapper") /\ Calls(s, Job(s, "map", None, None))

\* R4: a request that names SRv6 on a profile without the capability.
MapperRefuses(s) ==
    /\ At(s, "mapper") /\ Ends(s, Failed(stream[s].st))
    /\ Quiet /\ Smooth

AllocatorCalls(s) ==
    /\ At(s, "allocator") /\ stream[s].st.mapped # None
    /\ Calls(s, Job(s, "allocate", stream[s].st.corr, stream[s].st.mapped))

\* The tools path bypasses the preconditions of a submission.
ToolCalls(s) ==
    /\ At(s, "deployer") /\ stream[s].st.tool # None
    /\ Calls(s, Job(s, stream[s].st.tool, stream[s].st.tool_corr, None))

Preconditions(st) ==
    st.status = "APPROVED" /\ st.confirmation_2 = "confirm" /\ st.allocated # None

SubmitCalls(s) ==
    /\ At(s, "deployer") /\ stream[s].st.tool = None
    /\ Preconditions(stream[s].st)
    /\ Calls(s, Job(s, "submit", stream[s].st.corr, stream[s].st.allocated))

\* create_client returns: the message is sent.
Connects(s) ==
    /\ stream[s].call # None /\ ~stream[s].linked
    /\ stream' = [stream EXCEPT ![s].linked = TRUE]
    /\ UNCHANGED cp /\ Quiet /\ Smooth

\* An attempt cannot connect or times out.  A worker that is up may have the
\* message, once it was sent, and serve it later.
Abandons(s) ==
    \/ WorkerOf(stream[s].call) \in down /\ UNCHANGED late /\ Smooth
    \/ /\ WorkerOf(stream[s].call) \notin down /\ Mishap("slow")
       /\ late' = IF stream[s].linked /\ stream[s].call.kind \in {"allocate", "submit"}
                    THEN late \cup {stream[s].call} ELSE late

\* Mutant: no bound on the attempts.
RetriesForever(s) ==
    /\ stream[s].call # None
    /\ Abandons(s)
    /\ stream' = [stream EXCEPT ![s].attempt = @ + 1, ![s].linked = FALSE]
    /\ UNCHANGED <<cp, down, claims, objects, decided, interps, turns, corrs>>

Retries(s) ==
    /\ stream[s].call # None /\ stream[s].attempt < Attempts
    /\ Abandons(s)
    /\ stream' = [stream EXCEPT ![s].attempt = @ + 1, ![s].linked = FALSE]
    /\ UNCHANGED <<cp, down, claims, objects, decided, interps, turns, corrs>>

\* WorkerUnavailableError, after the last attempt or at once when the failure
\* is not one of the transport: the node writes a message and nothing else.
\* The mapper's and allocator's edges look at the status, not at next_node, so
\* the graph goes on to reflection; the deployer's ends.
GivesUp(s) ==
    /\ stream[s].call # None
    /\ stream[s].attempt = Attempts \/ WorkerOf(stream[s].call) \notin down
    /\ Abandons(s)
    /\ IF stream[s].pc = "deployer" THEN Ends(s, stream[s].st)
                                    ELSE Goto(s, "reflection", stream[s].st)
    /\ UNCHANGED <<down, claims, objects, decided, interps, turns, corrs>>

-----------------------------------------------------------------------------
(* Answers *)

Answer(s, kind) ==
    /\ stream[s].call # None /\ stream[s].call.kind = kind
    /\ stream[s].linked /\ WorkerOf(stream[s].call) \notin down

\* An answer that fails validation, names unsupported properties, or is
\* refused by the SRv6 checks.
MapperRejected(s) ==
    /\ Answer(s, "map") /\ Ends(s, Failed(stream[s].st))
    /\ Quiet /\ Smooth

\* Missing fields: the incomplete interpretation is no interpretation.
MapperClarifies(s) ==
    /\ Answer(s, "map")
    /\ Goto(s, "reflection", [stream[s].st EXCEPT !.status = "MAPPED", !.pending = "clarify"])
    /\ Quiet /\ Smooth

MapperMaps(s) ==
    /\ Answer(s, "map") /\ interps < MaxInterp
    /\ interps' = interps + 1
    /\ Goto(s, "reflection", [stream[s].st EXCEPT !.status = "MAPPED", !.mapped = interps + 1,
                                                  !.pending = "confirm_1"])
    /\ UNCHANGED <<world, decided, turns, corrs>> /\ Smooth

Claim(job) == claims' = claims \cup {<<job.corr, job.id>>}

\* Mutant: the second question is not asked.
AllocatesOnward(s) ==
    /\ Answer(s, "allocate") /\ Claim(stream[s].call)
    /\ Goto(s, "deployer", [stream[s].st EXCEPT !.status = "APPROVED", !.confirmation_2 = "confirm",
                                                !.allocated = stream[s].call.id])
    /\ UNCHANGED <<late, down, objects, decided, interps, turns, corrs>> /\ Smooth

Allocates(s) ==
    /\ Answer(s, "allocate") /\ Claim(stream[s].call)
    /\ Goto(s, "reflection", [stream[s].st EXCEPT !.status = "ALLOCATED", !.pending = "confirm_2",
                                                  !.allocated = stream[s].call.id])
    /\ UNCHANGED <<late, down, objects, decided, interps, turns, corrs>> /\ Smooth

\* The allocator refuses or answers out of contract; it may have claimed.
AllocatorRejected(s) ==
    /\ Answer(s, "allocate")
    /\ Claim(stream[s].call) \/ UNCHANGED claims
    /\ Ends(s, Failed(stream[s].st))
    /\ UNCHANGED <<late, down, objects, decided, interps, turns, corrs>> /\ Smooth

Submit(job) == objects' = objects \cup {<<job.corr, job.id>>}
\* A failed transaction: before any apply, or rolled back by label, whatever
\* of it could be deleted.
RollsBack(job) ==
    \E gone \in SUBSET {<<job.corr, id>> : id \in Interps} :
        objects' = (objects \cup {<<job.corr, job.id>>}) \ gone

\* The submission report, with the convergence the deployer observed.
Submitted(s) ==
    /\ Answer(s, "submit") /\ Submit(stream[s].call)
    /\ \E status \in {"COMPLETED", "PROVISIONING", "FAILED"} :
          Ends(s, [stream[s].st EXCEPT !.status = status, !.submitted = stream[s].st.corr])
    /\ UNCHANGED <<late, down, claims, decided, interps, turns, corrs>> /\ Smooth

\* A named failure, or a report out of contract of whatever was done.
TransactionFailed(s) ==
    /\ Answer(s, "submit") /\ RollsBack(stream[s].call)
    /\ Ends(s, Failed(stream[s].st))
    /\ UNCHANGED <<late, down, claims, decided, interps, turns, corrs>> /\ Smooth

\* _STATUS_PHASE_TO_WORKFLOW of Deployed, Converging, Failed and NotFound.
StatusAnswered == {"COMPLETED", "PROVISIONING", "FAILED"}

\* Unknown leaves the status alone.  Without a correlation id the deployer
\* answers Unknown.
ToolAnswered(s) ==
    /\ Answer(s, "status") \/ Answer(s, "remove")
    /\ \/ Ends(s, stream[s].st)
       \/ /\ stream[s].call.kind = "status" /\ stream[s].call.corr # None
          /\ \E status \in StatusAnswered : Ends(s, [stream[s].st EXCEPT !.status = status])
       \/ Ends(s, Failed(stream[s].st))
    /\ Quiet /\ Smooth

\* The worker serves a call nobody waits for any more.
ServedLate(job) ==
    /\ late' = late \ {job}
    /\ \/ job.kind = "allocate" /\ (Claim(job) \/ UNCHANGED claims) /\ UNCHANGED objects
       \/ job.kind = "submit" /\ RollsBack(job) /\ UNCHANGED claims
    /\ UNCHANGED <<cp, stream, down, decided, interps, turns, corrs>> /\ Smooth

-----------------------------------------------------------------------------
(* The other nodes *)

GeneralInfo(s) ==
    /\ At(s, "general_info")
    /\ Ends(s, IF stream[s].st.status = "RECEIVED_REQUEST"
                 THEN [stream[s].st EXCEPT !.status = "COMPLETED"] ELSE stream[s].st)
    /\ Quiet /\ Smooth

\* Mutant: a round through the graph is not counted.
ReflectsUncounted(s) ==
    /\ At(s, "reflection")
    /\ LET st == stream[s].st
           over == stream[s].expired \/ st.iteration >= MAX_ITERATIONS
           done == st.pending # None \/ st.status \in {"FAILED", "COMPLETED"}
       IN \/ done /\ Ends(s, st)
          \/ ~done /\ over /\ Ends(s, Failed(st))
          \/ ~done /\ ~over /\ Goto(s, "supervisor", st)
    /\ Quiet /\ Smooth

Reflects(s) ==
    /\ At(s, "reflection")
    /\ LET st == stream[s].st
           over == stream[s].expired \/ st.iteration >= MAX_ITERATIONS
           done == st.pending # None \/ st.status \in {"FAILED", "COMPLETED"}
       IN \/ done /\ Ends(s, st)
          \/ ~done /\ over /\ Ends(s, Failed(st))
          \/ ~done /\ ~over /\ Goto(s, "supervisor", [st EXCEPT !.iteration = @ + 1])
    /\ Quiet /\ Smooth

-----------------------------------------------------------------------------
(* Faults *)

\* The process dies, the client disconnects, or a node raises (an error
\* envelope from a worker does): the writes of the node are lost, a call on
\* its way may still be served.
Aborts(s) ==
    /\ stream[s].pc # "idle" /\ Mishap("crash")
    /\ stream' = [stream EXCEPT ![s] = Rest(NewState)]
    /\ \/ UNCHANGED late
       \/ /\ stream[s].call # None /\ stream[s].call.kind \in {"allocate", "submit"}
          /\ late' = late \cup {stream[s].call}
    /\ UNCHANGED <<cp, down, claims, objects, decided, interps, turns, corrs>>

DeadlinePasses(s) ==
    /\ stream[s].pc # "idle" /\ ~stream[s].expired /\ Mishap("deadline")
    /\ stream' = [stream EXCEPT ![s].expired = TRUE]
    /\ UNCHANGED cp /\ Quiet

WorkerFails(w) ==
    /\ w \notin down /\ Mishap("outage") /\ down' = down \cup {w}
    /\ UNCHANGED <<cp, stream, late, claims, objects, decided, interps, turns, corrs>>

WorkerReturns(w) ==
    /\ w \in down /\ down' = down \ {w}
    /\ UNCHANGED <<cp, stream, late, claims, objects, decided, interps, turns, corrs>> /\ Smooth

-----------------------------------------------------------------------------
Supervises(s) ==
    \/ SupervisorRefuses(s) \/ StatusRouted(s) \/ RemoveAsked(s) \/ Confirmed(s)
    \/ Declined(s) \/ AskedAgain(s) \/ ProvisioningStarts(s) \/ ClassifiedOther(s)
WorkerStage(s) ==
    \/ MapperCalls(s) \/ MapperRefuses(s) \/ AllocatorCalls(s) \/ ToolCalls(s) \/ SubmitCalls(s)
    \/ MapperRejected(s) \/ MapperClarifies(s) \/ MapperMaps(s)
    \/ Allocates(s) \/ AllocatorRejected(s)
    \/ Submitted(s) \/ TransactionFailed(s) \/ ToolAnswered(s)
Waits(s) == Retries(s) \/ GivesUp(s)
Runs(s) == Supervises(s) \/ WorkerStage(s) \/ Connects(s) \/ GeneralInfo(s) \/ Reflects(s)
Faulty(s) == ModelUnavailable(s) \/ Aborts(s) \/ DeadlinePasses(s)

Next ==
    \/ \E s \in Streams : Runs(s) \/ Waits(s) \/ Faulty(s) \/ \E m \in Texts : TurnStarts(s, m)
    \/ \E job \in late : ServedLate(job)
    \/ \E w \in Workers : WorkerFails(w) \/ WorkerReturns(w)

Spec == Init /\ [][Next]_vars

\* The classifier or create_client is awaited: neither has a bound here, the
\* deadline is looked at between nodes only.
Awaits(s) ==
    \/ Unclassified(s) /\ ~Mixed(s)
    \/ stream[s].call # None /\ ~stream[s].linked

\* A stream goes on as long as it can: a node runs, a call is answered or its
\* wait_for ends.  Nothing is assumed of what has no bound, of the operator,
\* of outages or of work nobody waits for.
FairSpec == Spec /\ \A s \in Streams : WF_vars(~Awaits(s) /\ (Runs(s) \/ Waits(s)))

-----------------------------------------------------------------------------
(* Properties *)

\* Nothing is submitted, and no submission is on its way, but an intent the
\* operator has confirmed twice: its interpretation and its allocation
\* (graph.py:2157-2188, call_deployer_agent).
Approved(id) == {<<"confirm_1", "confirm", id>>, <<"confirm_2", "confirm", id>>} \subseteq decided
SubmittedWasApproved ==
    /\ \A o \in objects : Approved(o[2])
    /\ \A job \in late : job.kind = "submit" => Approved(job.id)
    /\ \A s \in Streams : stream[s].call # None /\ stream[s].call.kind = "submit"
                              => Approved(stream[s].call.id)

\* What the operator declined is not submitted by a later turn, however the
\* thread goes on (graph.py:1555-1590, "nothing will be submitted").
DeclinedIsFinal ==
    \A o \in objects : \A q \in Questions : <<q, "decline", o[2]>> \notin decided

\* A removal is asked of the deployer in the turn that confirms a removal and
\* in no other, although the request for it stays in the state
\* (graph.py:1443, 2056).
RemovalConfirmed ==
    \A s \in Streams : stream[s].call # None /\ stream[s].call.kind = "remove"
                           => stream[s].call.agreed = "confirm_remove"

\* main.py:129, "the correlation id must be STABLE across the thread":
\* everything a thread claims or submits carries the id of its checkpoint, the
\* selector that finds it again.  It does not hold: a checkpoint that cannot be
\* read is taken for a new thread (main.py:143-145).
Traceable ==
    \A e \in claims \cup objects \cup {<<job.corr, job.id>> : job \in late} : e[1] = cp.corr

\* graph.py:586, "the HTTP surface mints a fresh correlation id per request".
\* It does not hold: the one of the checkpoint is reused (main.py:134-146).
FreshPerRequest == [][turns' = turns + 1 => corrs' = corrs + 1]_vars

\* The deployer node is never reached for a submission with its preconditions
\* unmet: the refusals of graph.py:2157-2196 are a second line of defence and
\* the model has no action for them.
SubmissionReady ==
    \A s \in Streams : At(s, "deployer") /\ stream[s].st.tool = None
                           => Preconditions(stream[s].st)

\* A turn ends unless the classifier or create_client never returns: workers
\* that fail, stay silent and return, retries and rounds through the graph
\* have their bounds (graph.py:1284-1302, 2501-2530, tools.py:111-155).
TurnEnds ==
    \A s \in Streams : []<>~Awaits(s) => (stream[s].pc # "idle" ~> stream[s].pc = "idle")

\* main.py:128, "Never hangs: the graph is bounded".  It does not hold:
\* graph.py:1318 and tools.py:113-129 await without a timeout, inside a node.
NeverHangs == \A s \in Streams : stream[s].pc # "idle" ~> stream[s].pc = "idle"

\* graph.py:1580, "Any claimed identifiers were released": what was declined
\* after its allocation holds no claim.  It does not hold: graph.py:1555 goes
\* through claimed_ids, which no node fills; the allocator is not asked.
DeclineReleases ==
    \A id \in Interps : <<"confirm_2", "decline", id>> \in decided
                           => \A c \in claims : c[2] # id

\* docs/BUSINESS_ADOPTION.md:24, "it acts only after operator confirmation":
\* a confirmation is recorded only of a text the operator meant as one.  It
\* does not hold: any text that contains one of the words confirms
\* (graph.py:504, 1476, 1523).
ActsOnConfirmation ==
    [][\A d \in decided' \ decided : d[2] = "confirm" =>
          \E s \in Streams : stream[s].msg # None /\ stream[s].msg.means = "confirm"]_vars

\* main.py:256, "Reply 'confirm' to submit it to the cluster": the turn that
\* gives the second confirmation asks the deployer for nothing else
\* (graph.py:1412-1417 sets tool_action, only 1329 clears it, 2058 looks at it first).
ConfirmationSubmits ==
    \A s \in Streams : stream[s].agreed = "confirm_2" /\ stream[s].call # None
                           => stream[s].call.kind = "submit"

=============================================================================
