---------------------------- MODULE GraphProofs ----------------------------
(***************************************************************************)
(* Proofs about ProvisioningGraph, for any number of streams, texts, turns *)
(* and faults: TypeOK, SubmittedWasApproved, RemovalConfirmed and          *)
(* SubmissionReady; and, for a thread whose streams do not overlap,        *)
(* DeclinedIsFinal.                                                        *)
(*                                                                         *)
(* The argument.  Streams of one thread run on copies of the state that    *)
(* may differ, so nothing can be said of the checkpoint and a copy         *)
(* together.  What holds is said of each copy by itself (Sound): what it   *)
(* holds as allocated was confirmed as an interpretation, and what it      *)
(* holds as approved was confirmed as an allocation.  Decisions are never  *)
(* taken back, so a copy stays sound while other streams run.  A node adds *)
(* what it was reached for (Placed), a call what it is for (Backed), and a *)
(* call keeps that when nobody waits for it any more.                      *)
(*                                                                         *)
(* With one stream at a time a copy is the checkpoint (Synced), and the    *)
(* checkpoint can be related to the decisions: an open question was not    *)
(* decided before (Once).                                                  *)
(***************************************************************************)
EXTENDS ProvisioningGraph, TLAPS

\* d: the decisions; a copy of the state.
Sound(st, d) ==
    /\ st \in GraphState
    /\ st.allocated # None => <<"confirm_1", "confirm", st.allocated>> \in d
    /\ Preconditions(st) => <<"confirm_2", "confirm", st.allocated>> \in d
    /\ st.pending \in {"confirm_1", "confirm_2"} => st.tool # "remove"
    /\ st.pending = "confirm_1" => st.mapped # None
    /\ st.pending = "confirm_2" => st.allocated # None
    /\ st.pending = "confirm_remove" => st.tool # None

\* A call that is on its way, whoever waits for it.
Backed(job, d) ==
    /\ job \in Jobs
    /\ job.kind \in {"allocate", "submit"} =>
          /\ job.corr \in Corrs /\ job.id \in Interps
          /\ <<"confirm_1", "confirm", job.id>> \in d
    /\ job.kind = "submit" => <<"confirm_2", "confirm", job.id>> \in d
    /\ job.kind = "remove" => job.agreed = "confirm_remove"

\* The node a stream is at.
Placed(x, d) ==
    /\ x.pc # "idle" => x.st.corr \in Corrs
    /\ x.pc = "mapper" => x.st.tool = None
    /\ x.pc = "allocator" =>
          /\ x.st.tool # "remove" /\ x.st.mapped # None
          /\ <<"confirm_1", "confirm", x.st.mapped>> \in d
    /\ x.pc = "deployer" =>
          /\ x.st.tool = "remove" => x.agreed = "confirm_remove"
          /\ x.st.tool = None => Preconditions(x.st)
    /\ x.call # None =>
          /\ Backed(x.call, d)
          /\ x.pc = WorkerOf(x.call)
          /\ x.call.kind = "allocate" => x.call.id = x.st.mapped

Local(x, d) == x \in Stream /\ Sound(x.st, d) /\ Placed(x, d)

Counted ==
    /\ turns \in 0..MaxTurns /\ interps \in 0..MaxInterp
    /\ corrs \in 0..MaxCorr /\ faults \in 0..MaxFaults
    /\ down \subseteq Workers
    /\ claims \subseteq Corrs \X Interps /\ objects \subseteq Corrs \X Interps
    /\ decided \subseteq Questions \X {"confirm", "decline"} \X (Interps \cup {None})

Copies ==
    /\ Sound(cp, decided)
    /\ DOMAIN stream = Streams /\ stream = [s \in Streams |-> stream[s]]
    /\ \A s \in Streams : Local(stream[s], decided)

World ==
    /\ \A job \in late : Backed(job, decided)
    /\ \A o \in objects : Approved(o[2])

GInv == Counted /\ Copies /\ World

-----------------------------------------------------------------------------
(* Decisions only accumulate. *)

\* What holds of a copy holds as more is decided.
LEMMA SoundGrows ==
    ASSUME NEW st, NEW d, NEW e, d \subseteq e, Sound(st, d)
    PROVE  Sound(st, e)
BY DEF Sound

\* What holds of a call likewise.
LEMMA BackedGrows ==
    ASSUME NEW job, NEW d, NEW e, d \subseteq e, Backed(job, d)
    PROVE  Backed(job, e)
BY DEF Backed

\* And of a stream.
LEMMA LocalGrows ==
    ASSUME NEW x, NEW d, NEW e, d \subseteq e, Local(x, d)
    PROVE  Local(x, e)
<1>1. Sound(x.st, e)
  BY SoundGrows DEF Local
<1>2. x.call # None => Backed(x.call, e)
  BY BackedGrows DEF Local, Placed
<1>3. Placed(x, e)
  BY <1>2 DEF Local, Placed
<1>. QED  BY <1>1, <1>3 DEF Local

-----------------------------------------------------------------------------
(* Moves of a stream *)

\* One stream moves to x and the checkpoint to st; the others stay.
LEMMA MoveKeeps ==
    ASSUME Copies, NEW s \in Streams, NEW x, NEW st,
           stream' = [stream EXCEPT ![s] = x], cp' = st,
           decided \subseteq decided', Local(x, decided'), Sound(st, decided')
    PROVE  Copies'
<1>1. DOMAIN stream' = Streams /\ stream' = [t \in Streams |-> stream'[t]]
  BY DEF Copies
<1>2. ASSUME NEW t \in Streams
      PROVE  Local(stream'[t], decided')
  <2>1. CASE t = s
    BY <2>1 DEF Copies
  <2>2. CASE t # s
    BY <2>2, LocalGrows DEF Copies
  <2>. QED  BY <2>1, <2>2
<1>. QED  BY <1>1, <1>2 DEF Copies

\* Nothing new is on its way or submitted.
LEMMA WorldKeeps ==
    ASSUME World, decided \subseteq decided', late' \subseteq late, objects' \subseteq objects
    PROVE  World'
BY BackedGrows DEF World, Approved

\* Where a stream is after Goto and after Ends.
Moved(s, node, st) ==
    [stream[s] EXCEPT !.pc = node, !.st = st, !.call = None, !.attempt = 0, !.linked = FALSE]

\* A node returns to another node.
LEMMA GotoKeeps ==
    ASSUME Copies, NEW s \in Streams, NEW node \in Nodes, NEW st, Goto(s, node, st),
           decided \subseteq decided', Sound(st, decided'),
           Placed(Moved(s, node, st), decided')
    PROVE  Copies'
<1>1. stream[s] \in Stream /\ st \in GraphState
  BY DEF Copies, Local, Sound
<1>2. stream' = [stream EXCEPT ![s] = Moved(s, node, st)] /\ cp' = st
  BY <1>1 DEF Goto, Moved, Copies, Stream
<1>3. Moved(s, node, st) \in Stream /\ Moved(s, node, st).st = st
  <2>1. 0 \in 0..Attempts
    BY GraphAssumption
  <2>. QED  BY <1>1, <2>1 DEF Moved, Stream
<1>4. Local(Moved(s, node, st), decided')
  BY <1>3 DEF Local
<1>. QED  BY <1>2, <1>4, MoveKeeps

\* A closed stream is in order.
LEMMA RestLocal ==
    ASSUME NEW d
    PROVE  Sound(NewState, d) /\ Local(Rest(NewState), d)
<1>1. NewState \in GraphState
  BY DEF NewState, GraphState, Statuses
<1>2. Sound(NewState, d)
  BY <1>1, GraphAssumption DEF Sound, NewState, Preconditions, Questions
<1>3. Rest(NewState) \in Stream
  BY <1>1, GraphAssumption DEF Rest, Stream
<1>4. Placed(Rest(NewState), d)
  BY DEF Placed, Rest
<1>5. Rest(NewState).st = NewState
  BY DEF Rest
<1>. QED  BY <1>2, <1>3, <1>4, <1>5 DEF Local

\* A node ends the turn.
LEMMA EndsKeeps ==
    ASSUME Copies, NEW s \in Streams, NEW st, Ends(s, st),
           decided \subseteq decided', Sound(st, decided')
    PROVE  Copies'
BY RestLocal, MoveKeeps DEF Ends

\* A failure clears what could be answered.
LEMMA FailedSound ==
    ASSUME NEW st, NEW d, Sound(st, d)
    PROVE  Sound(Failed(st), d)
<1>1. Failed(st) \in GraphState
  BY DEF Sound, Failed, GraphState, Statuses
<1>2. /\ Failed(st).status = "FAILED" /\ Failed(st).pending = None
      /\ Failed(st).allocated = st.allocated /\ Failed(st).tool = st.tool
  BY DEF Sound, Failed, GraphState
<1>. QED  BY <1>1, <1>2, GraphAssumption DEF Sound, Preconditions, Questions

-----------------------------------------------------------------------------
(* What the steps have in common *)

\* What is known of the stream that moves.
LEMMA Here ==
    ASSUME Copies, NEW s \in Streams
    PROVE  /\ stream[s] \in Stream /\ stream[s].st \in GraphState
           /\ Sound(stream[s].st, decided) /\ Placed(stream[s], decided)
BY DEF Copies, Local, Sound

\* The count of faults stays within its bound.
LEMMA FaultsCounted ==
    ASSUME Counted, Smooth \/ \E k : Mishap(k)
    PROVE  faults' \in 0..MaxFaults
BY GraphAssumption DEF Counted, Smooth, Mishap

\* A step that only moves a stream.
LEMMA QuietKeeps ==
    ASSUME GInv, Quiet, Copies', Smooth \/ \E k : Mishap(k)
    PROVE  GInv'
<1>1. Counted'
  BY FaultsCounted DEF GInv, Quiet, Counted, world
<1>2. World'
  BY WorldKeeps DEF GInv, Quiet, world
<1>. QED  BY <1>1, <1>2 DEF GInv

\* An edit that leaves mapped, allocated and tool alone, approves nothing
\* and asks no new question of the operator.
LEMMA EditSound ==
    ASSUME NEW st, NEW n, NEW d, Sound(st, d), n \in GraphState,
           n.allocated = st.allocated, n.mapped = st.mapped, n.tool = st.tool,
           Preconditions(n) => Preconditions(st),
           n.pending \in {st.pending, None, "clarify"}
    PROVE  Sound(n, d)
BY GraphAssumption DEF Sound, Questions

\* Another status than APPROVED, the question kept or put away.
LEMMA StatusSound ==
    ASSUME NEW st, NEW d, Sound(st, d), NEW status \in Statuses \ {"APPROVED"},
           NEW pending \in {st.pending, None, "clarify"}
    PROVE  /\ Sound([st EXCEPT !.status = status, !.pending = pending], d)
           /\ Sound([st EXCEPT !.status = status], d)
<1>0. st \in GraphState
  BY DEF Sound
<1>1. [st EXCEPT !.status = status, !.pending = pending] \in GraphState
  BY <1>0 DEF GraphState
<1>2. [st EXCEPT !.status = status] \in GraphState
  BY <1>0 DEF GraphState
<1>3. Sound([st EXCEPT !.status = status, !.pending = pending], d)
  <2>. DEFINE n == [st EXCEPT !.status = status, !.pending = pending]
  <2>1. /\ n.allocated = st.allocated /\ n.mapped = st.mapped /\ n.tool = st.tool
        /\ n.pending = pending /\ n.status = status
    BY <1>0 DEF GraphState
  <2>2. ~Preconditions(n)
    BY <2>1 DEF Preconditions
  <2>. HIDE DEF n
  <2>. QED  BY <1>1, <2>1, <2>2, EditSound DEF n
<1>4. Sound([st EXCEPT !.status = status], d)
  BY <1>0, <1>2, EditSound DEF GraphState, Preconditions
<1>. QED  BY <1>3, <1>4

\* The question put away.
LEMMA ClearedSound ==
    ASSUME NEW st, NEW d, Sound(st, d)
    PROVE  Sound([st EXCEPT !.pending = None], d) /\ [st EXCEPT !.pending = None].corr = st.corr
<1>1. st \in GraphState /\ [st EXCEPT !.pending = None] \in GraphState
  BY DEF Sound, GraphState
<1>. QED  BY <1>1, EditSound DEF GraphState, Preconditions

\* A clean transaction: nothing is held and no tool is asked for.
LEMMA StartSound ==
    ASSUME NEW st, NEW d, Sound(st, d)
    PROVE  /\ Sound(StartProvisioning(st), d)
           /\ StartProvisioning(st).tool = None /\ StartProvisioning(st).corr = st.corr
<1>1. /\ StartProvisioning(st) \in GraphState
      /\ StartProvisioning(st).tool = None /\ StartProvisioning(st).corr = st.corr
      /\ StartProvisioning(st).allocated = None /\ StartProvisioning(st).pending = None
  BY DEF Sound, StartProvisioning, GraphState, Statuses
<1>. QED  BY <1>1, GraphAssumption DEF Sound, Preconditions, Questions

\* The fields of a stream after a move that Placed looks at.
LEMMA MovedFields ==
    ASSUME NEW s, NEW node, NEW st, stream[s] \in Stream
    PROVE  /\ Moved(s, node, st).pc = node /\ Moved(s, node, st).st = st
           /\ Moved(s, node, st).call = None
           /\ Moved(s, node, st).agreed = stream[s].agreed
BY DEF Moved, Stream

\* Three of the nodes ask nothing of the stream that reaches them.
LEMMA PlacedAnywhere ==
    ASSUME Copies, NEW s \in Streams, stream[s].pc # "idle",
           NEW st, NEW d, st.corr = stream[s].st.corr,
           NEW node \in {"supervisor", "reflection", "general_info"}
    PROVE  Placed(Moved(s, node, st), d)
<1>. DEFINE x == Moved(s, node, st)
<1>1. x.pc = node /\ x.st = st /\ x.call = None
  BY Here, MovedFields
<1>2. st.corr \in Corrs
  BY Here DEF Placed
<1>3. node \notin {"idle", "mapper", "allocator", "deployer"}
  OBVIOUS
<1>. HIDE DEF x
<1>. QED  BY <1>1, <1>2, <1>3 DEF Placed, x

-----------------------------------------------------------------------------
(* The supervisor node *)

\* A turn starts from the checkpoint, with its correlation id or a new one.
LEMMA TurnStartsKeeps ==
    ASSUME GInv, NEW s \in Streams, NEW m \in Texts, TurnStarts(s, m)
    PROVE  GInv'
<1>1. PICK id \in Corrs : Seeds(s, m, id)
  <2>1. cp.corr # None => cp.corr \in Corrs
    BY DEF GInv, Copies, Sound, GraphState
  <2>2. corrs < MaxCorr => corrs + 1 \in Corrs
    BY GraphAssumption DEF GInv, Counted, Corrs
  <2>. QED  BY <2>1, <2>2 DEF TurnStarts
<1>. DEFINE st == [cp EXCEPT !.status = "RECEIVED_REQUEST", !.corr = id]
            x == [Rest(st) EXCEPT !.pc = "supervisor", !.msg = m]
<1>2. st \in GraphState /\ st.corr = id
  BY <1>1 DEF GInv, Copies, Sound, GraphState, Statuses
<1>3. Sound(st, decided)
  BY <1>2, EditSound DEF GInv, Copies, Sound, GraphState, Preconditions
<1>4. x \in Stream /\ x.st = st /\ x.pc = "supervisor" /\ x.msg = m /\ x.call = None
  <2>1. 0 \in 0..Attempts
    BY GraphAssumption
  <2>. QED  BY <1>2, <2>1 DEF Rest, Stream, Nodes
<1>5. Local(x, decided)
  BY <1>1, <1>2, <1>3, <1>4 DEF Local, Placed
<1>6. Copies'
  BY <1>1, <1>3, <1>5, MoveKeeps DEF TurnStarts, Seeds, GInv
<1>7. Counted'
  BY FaultsCounted, GraphAssumption DEF TurnStarts, GInv, Counted, world
<1>8. World'
  BY WorldKeeps DEF TurnStarts, GInv, world
<1>. QED  BY <1>6, <1>7, <1>8 DEF GInv

\* A turn that ends in the supervisor node without a decision.
LEMMA SupervisorEndsKeeps ==
    ASSUME GInv, NEW s \in Streams,
           SupervisorRefuses(s) \/ RemoveAsked(s) \/ AskedAgain(s)
    PROVE  GInv'
<1>. DEFINE st == stream[s].st
<1>1. Sound(st, decided) /\ st \in GraphState
  BY Here DEF GInv
<1>2. CASE SupervisorRefuses(s)
  BY <1>1, <1>2, FailedSound, EndsKeeps, QuietKeeps DEF SupervisorRefuses, Quiet, GInv
<1>3. CASE RemoveAsked(s)
  <2>. DEFINE n == [st EXCEPT !.tool = "remove", !.tool_corr = None, !.pending = "confirm_remove"]
  <2>1. /\ n \in GraphState
        /\ n.tool = "remove" /\ n.pending = "confirm_remove" /\ n.allocated = st.allocated
        /\ Preconditions(n) = Preconditions(st)
    BY <1>1 DEF GraphState, Questions, Preconditions
  <2>2. Sound(n, decided)
    BY <1>1, <2>1, GraphAssumption DEF Sound
  <2>. QED  BY <1>3, <2>2, EndsKeeps, QuietKeeps DEF RemoveAsked, Quiet, GInv
<1>4. CASE AskedAgain(s)
  BY <1>1, <1>4, EndsKeeps, QuietKeeps DEF AskedAgain, Quiet, GInv
<1>. QED  BY <1>2, <1>3, <1>4

\* A status question goes to the deployer as a tool call, whatever is pending.
LEMMA StatusRoutedKeeps ==
    ASSUME GInv, NEW s \in Streams, StatusRouted(s)
    PROVE  GInv'
<1>. DEFINE st == stream[s].st
            n == [st EXCEPT !.tool = "status",
                     !.tool_corr = IF OwnStatus(s) THEN st.submitted ELSE None]
<1>1. Sound(st, decided) /\ st \in GraphState /\ stream[s] \in Stream
  BY Here DEF GInv
<1>2. /\ n \in GraphState
      /\ n.tool = "status" /\ n.pending = st.pending /\ n.allocated = st.allocated
      /\ n.mapped = st.mapped /\ n.corr = st.corr
      /\ Preconditions(n) = Preconditions(st)
  BY <1>1 DEF GraphState, Preconditions
<1>3. Sound(n, decided)
  BY <1>1, <1>2, GraphAssumption DEF Sound
<1>4. Placed(Moved(s, "deployer", n), decided)
  <2>. DEFINE x == Moved(s, "deployer", n)
  <2>1. x.pc = "deployer" /\ x.st = n /\ x.call = None
    BY <1>1, MovedFields
  <2>2. st.corr \in Corrs
    BY Here DEF StatusRouted, At, Placed, GInv
  <2>. HIDE DEF x, n
  <2>. QED  BY <1>2, <2>1, <2>2, GraphAssumption DEF Placed, x
<1>5. Copies'
  BY <1>3, <1>4, GotoKeeps DEF StatusRouted, Quiet, Nodes, GInv
<1>. QED  BY <1>5, QuietKeeps DEF StatusRouted

\* A decision is recorded with what it is about.
LEMMA DecisionCounted ==
    ASSUME GInv, NEW s \in Streams, Answering(s), NEW decision \in {"confirm", "decline"},
           Decides(s, decision), Quiet \/ UNCHANGED <<world, interps, turns, corrs>>, Smooth
    PROVE  decided \subseteq decided' /\ Counted' /\ World'
<1>1. Subject(stream[s].st) \in Interps \cup {None} /\ stream[s].st.pending \in Questions
  BY Here DEF Answering, Subject, GInv, GraphState
<1>2. decided \subseteq decided'
      /\ decided' \subseteq Questions \X {"confirm", "decline"} \X (Interps \cup {None})
  BY <1>1 DEF Decides, GInv, Counted
<1>3. Counted'
  BY <1>2, FaultsCounted DEF GInv, Counted, world, Quiet
<1>. QED  BY <1>2, <1>3, WorldKeeps DEF GInv, world, Quiet

\* Of the three questions each leads where its answer is needed.
LEMMA ConfirmedKeeps ==
    ASSUME GInv, NEW s \in Streams, Confirmed(s)
    PROVE  GInv'
<1>. DEFINE st == stream[s].st
            q == st.pending
            st0 == [st EXCEPT !.pending = None]
            next == IF q = "confirm_2"
                      THEN [st0 EXCEPT !.confirmation_2 = "confirm", !.status = "APPROVED"]
                      ELSE st0
            node == IF q = "confirm_1" THEN "allocator" ELSE "deployer"
            x == [stream[s] EXCEPT !.pc = node, !.st = next, !.agreed = q]
<1>1. /\ decided \subseteq decided' /\ Counted' /\ World'
      /\ <<q, "confirm", Subject(st)>> \in decided'
  BY DecisionCounted DEF Confirmed, Decides
<1>2. /\ stream[s] \in Stream /\ st \in GraphState /\ Sound(st, decided)
      /\ st.corr \in Corrs /\ stream[s].call = None /\ q \in Questions
  BY Here DEF Confirmed, Answering, Considered, At, Placed, GInv
<1>3. /\ next \in GraphState
      /\ next.pending = None /\ next.tool = st.tool /\ next.mapped = st.mapped
      /\ next.allocated = st.allocated /\ next.corr = st.corr
      /\ q = "confirm_2" => next.confirmation_2 = "confirm" /\ next.status = "APPROVED"
      /\ q # "confirm_2" => Preconditions(next) = Preconditions(st)
  <2>1. CASE q = "confirm_2"
    BY <1>2, <2>1 DEF GraphState, Statuses
  <2>2. CASE q # "confirm_2"
    BY <1>2, <2>2 DEF GraphState, Preconditions
  <2>. QED  BY <2>1, <2>2
<1>4. x \in Stream /\ x.pc = node /\ x.st = next /\ x.agreed = q /\ x.call = None
  BY <1>2, <1>3 DEF Stream, Nodes
<1>5. stream' = [stream EXCEPT ![s] = x] /\ cp' = next
  BY <1>2 DEF Confirmed, Stream, GInv, Copies
<1>. HIDE DEF x, next
<1>6. /\ q = "confirm_1" => <<"confirm_1", "confirm", st.mapped>> \in decided'
      /\ q = "confirm_2" => <<"confirm_2", "confirm", st.allocated>> \in decided'
  BY <1>1 DEF Subject
<1>7. Sound(next, decided')
  BY <1>1, <1>2, <1>3, <1>6, GraphAssumption DEF Sound, Questions
<1>8. Placed(x, decided')
  BY <1>2, <1>3, <1>4, <1>6, GraphAssumption DEF Sound, Questions, Placed, Preconditions
<1>9. Copies'
  BY <1>1, <1>4, <1>5, <1>7, <1>8, MoveKeeps DEF Local, GInv
<1>. QED  BY <1>1, <1>9 DEF GInv

\* A decline ends the turn and approves nothing.
LEMMA DeclinedKeeps ==
    ASSUME GInv, NEW s \in Streams, Declined(s)
    PROVE  GInv'
<1>. DEFINE st == stream[s].st
            n == [Failed(st) EXCEPT !.confirmation_2 = "decline"]
<1>1. decided \subseteq decided' /\ Counted' /\ World'
  BY DecisionCounted DEF Declined
<1>2. Sound(st, decided')
  BY <1>1, Here, SoundGrows DEF GInv
<1>3. Sound(Failed(st), decided')
  BY <1>2, FailedSound
<1>4. /\ n \in GraphState /\ n.allocated = Failed(st).allocated
      /\ n.mapped = Failed(st).mapped /\ n.tool = Failed(st).tool
      /\ n.pending = Failed(st).pending /\ ~Preconditions(n)
  BY <1>3 DEF Sound, GraphState, Preconditions
<1>5. Sound(n, decided')
  <2>. HIDE DEF n
  <2>. QED  BY <1>3, <1>4, EditSound
<1>6. Copies'
  BY <1>1, <1>3, <1>5, EndsKeeps DEF Declined, GInv
<1>. QED  BY <1>1, <1>6 DEF GInv

\* A request starts a transaction, is answered or refused, by the model or without it.
LEMMA ClassifiedKeeps ==
    ASSUME GInv, NEW s \in Streams,
           ProvisioningStarts(s) \/ ClassifiedOther(s) \/ ModelUnavailable(s)
    PROVE  GInv'
<1>. DEFINE st == stream[s].st
            n == [st EXCEPT !.pending = None]
<1>1. /\ stream[s] \in Stream /\ Sound(st, decided) /\ st \in GraphState
      /\ st.corr \in Corrs /\ stream[s].pc = "supervisor"
  BY Here DEF ProvisioningStarts, ClassifiedOther, ModelUnavailable, Unclassified,
              Requesting, Considered, At, Placed, GInv
<1>2. Sound(n, decided) /\ n.corr = st.corr /\ Sound(Failed(st), decided) /\ Sound(Failed(n), decided)
  BY <1>1, ClearedSound, FailedSound
<1>3. ASSUME NEW m \in {st, n}
      PROVE  Sound(StartProvisioning(m), decided)
             /\ Placed(Moved(s, "mapper", StartProvisioning(m)), decided)
  <2>. DEFINE y == StartProvisioning(m)
              x == Moved(s, "mapper", y)
  <2>0. Sound(m, decided) /\ m.corr \in Corrs
    BY <1>1, <1>2
  <2>1. Sound(y, decided) /\ y.tool = None /\ y.corr \in Corrs
    BY <2>0, StartSound
  <2>2. x.pc = "mapper" /\ x.st = y /\ x.call = None
    BY <1>1, MovedFields
  <2>. HIDE DEF x, y
  <2>3. Placed(x, decided)
    BY <2>1, <2>2 DEF Placed
  <2>. QED  BY <2>1, <2>3 DEF x, y
<1>4. Placed(Moved(s, "general_info", n), decided)
  BY <1>1, <1>2, PlacedAnywhere DEF GInv
<1>5. Copies' /\ Quiet /\ (Smooth \/ \E k : Mishap(k))
  <2>. HIDE DEF n
  <2>1. CASE ProvisioningStarts(s)
    BY <2>1, <1>1, <1>3, GotoKeeps DEF ProvisioningStarts, Quiet, Nodes, GInv
  <2>2. CASE ClassifiedOther(s)
    BY <2>2, <1>2, <1>4, GotoKeeps, EndsKeeps DEF ClassifiedOther, Quiet, Nodes, GInv, n
  <2>3. CASE ModelUnavailable(s)
    BY <2>3, <1>2, <1>3, <1>4, GotoKeeps, EndsKeeps DEF ModelUnavailable, Quiet, Nodes, GInv, n
  <2>. QED  BY <2>1, <2>2, <2>3
<1>. QED  BY <1>5, QuietKeeps

-----------------------------------------------------------------------------
(* Worker calls *)

\* A call that its node was reached for.
LEMMA CallsKeeps ==
    ASSUME GInv, NEW s \in Streams, NEW job, Calls(s, job),
           Backed(job, decided), stream[s].pc = WorkerOf(job),
           job.kind = "allocate" => job.id = stream[s].st.mapped
    PROVE  GInv'
<1>. DEFINE x == [stream[s] EXCEPT !.call = job, !.attempt = 1]
<1>1. stream[s] \in Stream /\ Sound(stream[s].st, decided) /\ Placed(stream[s], decided)
  BY Here DEF GInv
<1>2. /\ x \in Stream /\ x.pc = stream[s].pc /\ x.st = stream[s].st
      /\ x.agreed = stream[s].agreed /\ x.call = job
  <2>1. 1 \in 0..Attempts
    BY GraphAssumption
  <2>. QED  BY <1>1, <2>1 DEF Stream, Backed
<1>3. stream' = [stream EXCEPT ![s] = x] /\ cp' = cp /\ decided' = decided
  BY <1>1 DEF Calls, Stream, GInv, Copies, Quiet
<1>. HIDE DEF x
<1>4. Placed(x, decided)
  BY <1>1, <1>2 DEF Placed
<1>5. Copies'
  BY <1>1, <1>2, <1>3, <1>4, MoveKeeps DEF Local, GInv, Copies
<1>. QED  BY <1>5, QuietKeeps DEF Calls

\* The message of a call is sent.
LEMMA ConnectsKeeps ==
    ASSUME GInv, NEW s \in Streams, Connects(s)
    PROVE  GInv'
<1>. DEFINE x == [stream[s] EXCEPT !.linked = TRUE]
<1>1. /\ stream[s] \in Stream /\ Sound(stream[s].st, decided) /\ Placed(stream[s], decided)
      /\ Sound(cp, decided)
  BY Here DEF GInv, Copies
<1>2. /\ x \in Stream /\ x.pc = stream[s].pc /\ x.st = stream[s].st
      /\ x.agreed = stream[s].agreed /\ x.call = stream[s].call
  BY <1>1 DEF Stream
<1>3. stream' = [stream EXCEPT ![s] = x] /\ cp' = cp /\ decided' = decided
  BY <1>1 DEF Connects, Quiet, Stream, GInv, Copies
<1>. HIDE DEF x
<1>4. Placed(x, decided)
  BY <1>1, <1>2 DEF Placed
<1>5. Copies'
  BY <1>1, <1>2, <1>3, <1>4, MoveKeeps DEF Local, GInv
<1>. QED  BY <1>5, QuietKeeps DEF Connects

\* Each node calls its worker for what it has.
LEMMA NodeCallsKeeps ==
    ASSUME GInv, NEW s \in Streams,
           MapperCalls(s) \/ AllocatorCalls(s) \/ ToolCalls(s) \/ SubmitCalls(s)
    PROVE  GInv'
<1>. DEFINE st == stream[s].st
<1>1. /\ stream[s] \in Stream /\ st \in GraphState
      /\ Sound(st, decided) /\ Placed(stream[s], decided)
  BY Here DEF GInv
<1>2. CASE MapperCalls(s)
  <2>. DEFINE job == Job(s, "map", None, None)
  <2>1. job \in Jobs /\ job.kind = "map"
    BY <1>1 DEF Job, Jobs, Stream
  <2>. HIDE DEF job
  <2>2. Backed(job, decided) /\ WorkerOf(job) = "mapper"
    BY <2>1 DEF Backed, WorkerOf
  <2>. QED  BY <1>2, <2>1, <2>2, CallsKeeps DEF MapperCalls, At, job
<1>3. CASE AllocatorCalls(s)
  <2>. DEFINE job == Job(s, "allocate", st.corr, st.mapped)
  <2>1. /\ job \in Jobs /\ job.kind = "allocate" /\ job.corr = st.corr /\ job.id = st.mapped
    BY <1>1 DEF Job, Jobs, Stream, GraphState
  <2>. HIDE DEF job
  <2>2. Backed(job, decided) /\ WorkerOf(job) = "allocator"
    BY <1>1, <1>3, <2>1 DEF Backed, WorkerOf, AllocatorCalls, At, Placed, GraphState
  <2>. QED  BY <1>3, <2>1, <2>2, CallsKeeps DEF AllocatorCalls, At, job
<1>4. CASE ToolCalls(s)
  <2>. DEFINE job == Job(s, st.tool, st.tool_corr, None)
  <2>1. /\ job \in Jobs /\ job.kind = st.tool /\ job.agreed = stream[s].agreed
        /\ st.tool \in {"status", "remove"}
    BY <1>1, <1>4 DEF ToolCalls, Job, Jobs, Stream, GraphState
  <2>. HIDE DEF job
  <2>2. Backed(job, decided) /\ WorkerOf(job) = "deployer"
    BY <1>1, <1>4, <2>1 DEF Backed, WorkerOf, ToolCalls, At, Placed
  <2>. QED  BY <1>4, <2>1, <2>2, CallsKeeps DEF ToolCalls, At, job
<1>5. CASE SubmitCalls(s)
  <2>. DEFINE job == Job(s, "submit", st.corr, st.allocated)
  <2>1. /\ job \in Jobs /\ job.kind = "submit" /\ job.corr = st.corr /\ job.id = st.allocated
    BY <1>1 DEF Job, Jobs, Stream, GraphState
  <2>. HIDE DEF job
  <2>2. Backed(job, decided) /\ WorkerOf(job) = "deployer"
    BY <1>1, <1>5, <2>1 DEF Backed, WorkerOf, SubmitCalls, At, Placed, GraphState, Sound, Preconditions
  <2>. QED  BY <1>5, <2>1, <2>2, CallsKeeps DEF SubmitCalls, At, job
<1>. QED  BY <1>2, <1>3, <1>4, <1>5

\* What the supervisor gives up keeps what it was sent with.
LEMMA AbandonsKeeps ==
    ASSUME GInv, NEW s \in Streams, stream[s].call # None,
           late' \subseteq late \cup {stream[s].call},
           UNCHANGED <<objects, decided>>
    PROVE  World'
<1>1. Backed(stream[s].call, decided)
  BY Here DEF Placed, GInv
<1>. QED  BY <1>1 DEF World, GInv, Approved

\* Another attempt, or the node gives up.
LEMMA WaitsKeeps ==
    ASSUME GInv, NEW s \in Streams, Retries(s) \/ GivesUp(s)
    PROVE  GInv'
<1>1. /\ stream[s] \in Stream /\ Sound(stream[s].st, decided) /\ Placed(stream[s], decided)
      /\ stream[s].call # None /\ stream[s].call \in Jobs
  BY Here DEF GInv, Retries, GivesUp, Placed, Backed
<1>2. World'
  BY AbandonsKeeps DEF Retries, GivesUp, Abandons
<1>3. Counted'
  BY FaultsCounted DEF Retries, GivesUp, Abandons, GInv, Counted
<1>4. CASE Retries(s)
  <2>. DEFINE x == [stream[s] EXCEPT !.attempt = @ + 1, !.linked = FALSE]
  <2>1. /\ x \in Stream /\ x.pc = stream[s].pc /\ x.st = stream[s].st
        /\ x.agreed = stream[s].agreed /\ x.call = stream[s].call
    <3>1. stream[s].attempt + 1 \in 0..Attempts
      BY <1>1, <1>4, GraphAssumption DEF Stream, Retries
    <3>. QED  BY <1>1, <3>1 DEF Stream
  <2>2. stream' = [stream EXCEPT ![s] = x] /\ cp' = cp /\ decided' = decided
    BY <1>1, <1>4 DEF Retries, Stream, GInv, Copies
  <2>. HIDE DEF x
  <2>3. Placed(x, decided)
    BY <1>1, <2>1 DEF Placed
  <2>4. Copies'
    BY <1>1, <2>1, <2>2, <2>3, MoveKeeps DEF Local, GInv, Copies
  <2>. QED  BY <1>2, <1>3, <2>4 DEF GInv
<1>5. CASE GivesUp(s)
  <2>1. stream[s].pc # "idle"
    BY <1>1 DEF Placed, WorkerOf
  <2>2. Placed(Moved(s, "reflection", stream[s].st), decided)
    BY <2>1, PlacedAnywhere DEF GInv
  <2>3. Copies'
    BY <1>1, <1>5, <2>2, EndsKeeps, GotoKeeps DEF GivesUp, GInv, Nodes
  <2>. QED  BY <1>2, <1>3, <2>3 DEF GInv
<1>. QED  BY <1>4, <1>5

-----------------------------------------------------------------------------
(* Answers *)

\* What is known of an answered call.
LEMMA AnswerHere ==
    ASSUME GInv, NEW s \in Streams, NEW kind, Answer(s, kind)
    PROVE  /\ stream[s] \in Stream /\ stream[s].st \in GraphState
           /\ Sound(stream[s].st, decided) /\ Placed(stream[s], decided)
           /\ Backed(stream[s].call, decided) /\ stream[s].call.kind = kind
           /\ stream[s].pc = WorkerOf(stream[s].call) /\ stream[s].pc # "idle"
           /\ stream[s].st.corr \in Corrs
BY Here DEF GInv, Answer, Placed, WorkerOf

\* The answers that change nothing but the state of the thread.
LEMMA MapperAnswersKeep ==
    ASSUME GInv, NEW s \in Streams, MapperRejected(s) \/ MapperClarifies(s) \/ MapperRefuses(s)
    PROVE  GInv'
<1>. DEFINE st == stream[s].st
            n == [st EXCEPT !.status = "MAPPED", !.pending = "clarify"]
<1>1. CASE MapperRejected(s) \/ MapperRefuses(s)
  BY <1>1, Here, FailedSound, EndsKeeps, QuietKeeps DEF MapperRejected, MapperRefuses, Quiet, GInv
<1>2. CASE MapperClarifies(s)
  <2>1. Sound(n, decided) /\ n.corr = st.corr
    BY <1>2, AnswerHere, StatusSound DEF MapperClarifies, Statuses, GraphState
  <2>2. Placed(Moved(s, "reflection", n), decided)
    BY <1>2, <2>1, AnswerHere, PlacedAnywhere DEF MapperClarifies, GInv
  <2>3. Copies'
    BY <1>2, <2>1, <2>2, GotoKeeps DEF MapperClarifies, Quiet, Nodes, GInv
  <2>. QED  BY <1>2, <2>3, QuietKeeps DEF MapperClarifies
<1>. QED  BY <1>1, <1>2

\* An interpretation is put before the operator; the mapper's node is only
\* reached without a tool.
LEMMA MapperMapsKeeps ==
    ASSUME GInv, NEW s \in Streams, MapperMaps(s)
    PROVE  GInv'
<1>. DEFINE st == stream[s].st
            n == [st EXCEPT !.status = "MAPPED", !.mapped = interps + 1, !.pending = "confirm_1"]
<1>1. /\ stream[s] \in Stream /\ st \in GraphState
      /\ Sound(st, decided) /\ st.tool = None /\ stream[s].pc # "idle"
  BY AnswerHere DEF MapperMaps, Placed, WorkerOf
<1>2. interps + 1 \in Interps /\ Counted'
  BY GraphAssumption, FaultsCounted DEF MapperMaps, GInv, Counted, Interps, world
<1>3. /\ n \in GraphState /\ n.pending = "confirm_1" /\ n.mapped = interps + 1
      /\ n.tool = None /\ n.allocated = st.allocated /\ n.corr = st.corr /\ ~Preconditions(n)
  BY <1>1, <1>2 DEF GraphState, Statuses, Questions, Preconditions
<1>4. Sound(n, decided)
  <2>. HIDE DEF n
  <2>. QED  BY <1>1, <1>2, <1>3, GraphAssumption DEF Sound
<1>5. Placed(Moved(s, "reflection", n), decided)
  BY <1>1, <1>3, PlacedAnywhere DEF GInv
<1>6. Copies'
  BY <1>4, <1>5, GotoKeeps DEF MapperMaps, GInv, Nodes
<1>7. World'
  BY WorldKeeps DEF MapperMaps, GInv, world
<1>. QED  BY <1>2, <1>6, <1>7 DEF GInv

\* What a call claims carries its correlation id and interpretation.
LEMMA ClaimCounted ==
    ASSUME Counted, NEW job, job.corr \in Corrs, job.id \in Interps, Claim(job) \/ UNCHANGED claims
    PROVE  claims' \subseteq Corrs \X Interps
BY DEF Counted, Claim

\* The allocation is put before the operator.
LEMMA AllocatorAnswersKeep ==
    ASSUME GInv, NEW s \in Streams, Allocates(s) \/ AllocatorRejected(s)
    PROVE  GInv'
<1>. DEFINE st == stream[s].st
            job == stream[s].call
            n == [st EXCEPT !.status = "ALLOCATED", !.pending = "confirm_2", !.allocated = job.id]
<1>1. /\ stream[s] \in Stream /\ st \in GraphState /\ Sound(st, decided)
      /\ st.tool # "remove" /\ stream[s].pc # "idle"
      /\ job.corr \in Corrs /\ job.id \in Interps
      /\ <<"confirm_1", "confirm", job.id>> \in decided
  BY AnswerHere DEF Allocates, AllocatorRejected, Placed, WorkerOf, Backed
<1>2. Counted'
  <2>1. claims' \subseteq Corrs \X Interps
    BY <1>1, ClaimCounted DEF GInv, Allocates, AllocatorRejected
  <2>. QED  BY <2>1, FaultsCounted DEF Allocates, AllocatorRejected, GInv, Counted
<1>3. World'
  BY WorldKeeps DEF Allocates, AllocatorRejected, GInv
<1>4. CASE Allocates(s)
  <2>1. /\ n \in GraphState /\ n.pending = "confirm_2" /\ n.allocated = job.id
        /\ n.tool = st.tool /\ n.corr = st.corr /\ ~Preconditions(n)
    BY <1>1 DEF GraphState, Statuses, Questions, Preconditions
  <2>2. Sound(n, decided)
    <3>. HIDE DEF n
    <3>. QED  BY <1>1, <2>1, GraphAssumption DEF Sound
  <2>3. Placed(Moved(s, "reflection", n), decided)
    BY <1>1, <2>1, PlacedAnywhere DEF GInv
  <2>4. Copies'
    BY <1>4, <2>2, <2>3, GotoKeeps DEF Allocates, GInv, Nodes
  <2>. QED  BY <1>2, <1>3, <2>4 DEF GInv
<1>5. CASE AllocatorRejected(s)
  <2>1. Copies'
    BY <1>1, <1>5, FailedSound, EndsKeeps DEF AllocatorRejected, GInv
  <2>. QED  BY <1>2, <1>3, <2>1 DEF GInv
<1>. QED  BY <1>4, <1>5

\* A submission, or its failure, touches objects of what was approved only.
LEMMA ServedSubmission ==
    ASSUME GInv, NEW job, Backed(job, decided), job.kind = "submit",
           Submit(job) \/ RollsBack(job), decided' = decided, late' \subseteq late
    PROVE  World' /\ objects' \subseteq Corrs \X Interps
<1>1. job.corr \in Corrs /\ job.id \in Interps /\ Approved(job.id)
  BY DEF Backed, Approved
<1>2. objects' \subseteq objects \cup {<<job.corr, job.id>>}
  BY DEF Submit, RollsBack
<1>3. objects' \subseteq Corrs \X Interps
  BY <1>1, <1>2 DEF GInv, Counted
<1>4. \A o \in objects' : Approved(o[2])
  BY <1>1, <1>2 DEF GInv, World
<1>. QED  BY <1>3, <1>4 DEF World, GInv, Approved

\* The deployer answers a submission or a tool call.
LEMMA DeployerAnswersKeep ==
    ASSUME GInv, NEW s \in Streams, Submitted(s) \/ TransactionFailed(s) \/ ToolAnswered(s)
    PROVE  GInv'
<1>. DEFINE st == stream[s].st
<1>1. Sound(st, decided) /\ st \in GraphState /\ st.corr \in Corrs
  BY AnswerHere DEF Submitted, TransactionFailed, ToolAnswered
<1>2. ASSUME NEW status \in {"COMPLETED", "PROVISIONING", "FAILED"}
      PROVE  /\ Sound([st EXCEPT !.status = status], decided)
             /\ Sound([st EXCEPT !.status = status, !.submitted = st.corr], decided)
  <2>. DEFINE n == [st EXCEPT !.status = status, !.submitted = st.corr]
  <2>1. /\ n \in GraphState /\ n.allocated = st.allocated /\ n.mapped = st.mapped
        /\ n.tool = st.tool /\ n.pending = st.pending /\ ~Preconditions(n)
    BY <1>1 DEF GraphState, Statuses, Preconditions
  <2>2. Sound(n, decided)
    <3>. HIDE DEF n
    <3>. QED  BY <1>1, <2>1, EditSound
  <2>. QED  BY <1>1, <2>2, StatusSound DEF Statuses
<1>3. CASE Submitted(s) \/ TransactionFailed(s)
  <2>1. World' /\ objects' \subseteq Corrs \X Interps
    BY <1>3, AnswerHere, ServedSubmission DEF Submitted, TransactionFailed
  <2>2. Counted'
    BY <1>3, <2>1, FaultsCounted DEF Submitted, TransactionFailed, GInv, Counted
  <2>3. Copies'
    BY <1>1, <1>2, <1>3, FailedSound, EndsKeeps DEF Submitted, TransactionFailed, GInv
  <2>. QED  BY <2>1, <2>2, <2>3 DEF GInv
<1>4. CASE ToolAnswered(s)
  <2>1. Copies'
    BY <1>1, <1>2, <1>4, FailedSound, EndsKeeps DEF ToolAnswered, StatusAnswered, GInv, Quiet
  <2>. QED  BY <1>4, <2>1, QuietKeeps DEF ToolAnswered
<1>. QED  BY <1>3, <1>4

\* A call nobody waits for is served as it was sent.
LEMMA ServedLateKeeps ==
    ASSUME GInv, NEW job \in late, ServedLate(job)
    PROVE  GInv'
<1>1. Backed(job, decided)
  BY DEF GInv, World
<1>2. Copies'
  BY DEF GInv, Copies, ServedLate
<1>3. World' /\ objects' \subseteq Corrs \X Interps
  <2>1. CASE job.kind = "submit"
    BY <1>1, <2>1, ServedSubmission DEF ServedLate
  <2>2. CASE job.kind # "submit"
    BY <2>2, WorldKeeps DEF ServedLate, GInv, Counted
  <2>. QED  BY <2>1, <2>2
<1>4. claims' \subseteq Corrs \X Interps
  BY <1>1, ClaimCounted DEF ServedLate, Backed, GInv
<1>5. Counted'
  BY <1>3, <1>4, FaultsCounted DEF ServedLate, GInv, Counted
<1>. QED  BY <1>2, <1>3, <1>5 DEF GInv

-----------------------------------------------------------------------------
(* The other nodes, and the faults *)

\* An answer from the model, and the round back to the supervisor.
LEMMA OtherNodesKeep ==
    ASSUME GInv, NEW s \in Streams, GeneralInfo(s) \/ Reflects(s)
    PROVE  GInv'
<1>. DEFINE st == stream[s].st
            n == [st EXCEPT !.iteration = @ + 1]
<1>1. stream[s] \in Stream /\ Sound(st, decided) /\ st \in GraphState /\ stream[s].pc # "idle"
  BY Here DEF GInv, GeneralInfo, Reflects, At
<1>2. Sound([st EXCEPT !.status = "COMPLETED"], decided)
  BY <1>1, StatusSound DEF Statuses
<1>3. Sound(n, decided) /\ n.corr = st.corr
  <2>1. /\ n \in GraphState /\ n.allocated = st.allocated /\ n.mapped = st.mapped
        /\ n.tool = st.tool /\ n.pending = st.pending /\ n.corr = st.corr
        /\ Preconditions(n) = Preconditions(st)
    BY <1>1 DEF GraphState, Preconditions
  <2>. HIDE DEF n
  <2>. QED  BY <1>1, <2>1, EditSound
<1>4. Placed(Moved(s, "supervisor", n), decided)
  BY <1>1, <1>3, PlacedAnywhere DEF GInv
<1>5. CASE GeneralInfo(s)
  BY <1>1, <1>2, <1>5, EndsKeeps, QuietKeeps DEF GeneralInfo, Quiet, GInv
<1>6. CASE Reflects(s)
  <2>. HIDE DEF n
  <2>1. Copies'
    BY <1>1, <1>3, <1>4, <1>6, FailedSound, EndsKeeps, GotoKeeps DEF Reflects, Quiet, Nodes, GInv, n
  <2>. QED  BY <1>6, <2>1, QuietKeeps DEF Reflects
<1>. QED  BY <1>5, <1>6

\* A stream that dies leaves the checkpoint; its call may still be served.
LEMMA AbortsKeeps ==
    ASSUME GInv, NEW s \in Streams, Aborts(s)
    PROVE  GInv'
<1>1. Sound(cp, decided)
  BY DEF GInv, Copies
<1>2. Copies'
  BY <1>1, RestLocal, MoveKeeps DEF Aborts, GInv
<1>3. World'
  <2>1. CASE stream[s].call # None
    BY <2>1, AbandonsKeeps DEF Aborts
  <2>2. CASE stream[s].call = None
    BY <2>2, WorldKeeps DEF Aborts, GInv
  <2>. QED  BY <2>1, <2>2
<1>4. Counted'
  BY FaultsCounted DEF Aborts, GInv, Counted
<1>. QED  BY <1>2, <1>3, <1>4 DEF GInv

\* The deadline of a stream.
LEMMA DeadlineKeeps ==
    ASSUME GInv, NEW s \in Streams, DeadlinePasses(s)
    PROVE  GInv'
<1>. DEFINE x == [stream[s] EXCEPT !.expired = TRUE]
<1>1. /\ stream[s] \in Stream /\ Sound(stream[s].st, decided) /\ Placed(stream[s], decided)
      /\ Sound(cp, decided)
  BY Here DEF GInv, Copies
<1>2. /\ x \in Stream /\ x.pc = stream[s].pc /\ x.st = stream[s].st
      /\ x.agreed = stream[s].agreed /\ x.call = stream[s].call
  BY <1>1 DEF Stream
<1>3. stream' = [stream EXCEPT ![s] = x] /\ cp' = cp /\ decided' = decided
  BY <1>1 DEF DeadlinePasses, Quiet, Stream, GInv, Copies
<1>. HIDE DEF x
<1>4. Placed(x, decided)
  BY <1>1, <1>2 DEF Placed
<1>5. Copies'
  BY <1>1, <1>2, <1>3, <1>4, MoveKeeps DEF Local, GInv
<1>. QED  BY <1>5, QuietKeeps DEF DeadlinePasses

\* A worker goes down or comes back.
LEMMA OutageKeeps ==
    ASSUME GInv, NEW w \in Workers, WorkerFails(w) \/ WorkerReturns(w)
    PROVE  GInv'
<1>1. Copies'
  BY DEF WorkerFails, WorkerReturns, GInv, Copies
<1>2. World'
  BY WorldKeeps DEF WorkerFails, WorkerReturns, GInv
<1>3. Counted'
  BY FaultsCounted DEF WorkerFails, WorkerReturns, GInv, Counted
<1>. QED  BY <1>1, <1>2, <1>3 DEF GInv

-----------------------------------------------------------------------------
(* The invariant *)

\* A new thread.
LEMMA InitGInv == Init => GInv
<1>. SUFFICES ASSUME Init PROVE GInv
  OBVIOUS
<1>1. Copies
  BY RestLocal DEF Init, Copies
<1>2. World
  BY DEF Init, World
<1>3. Counted
  BY GraphAssumption DEF Init, Counted
<1>. QED  BY <1>1, <1>2, <1>3 DEF GInv

\* One case for each action.
LEMMA NextGInv == GInv /\ [Next]_vars => GInv'
<1>. SUFFICES ASSUME GInv, [Next]_vars PROVE GInv'
  OBVIOUS
<1>1. CASE UNCHANGED vars
  BY <1>1 DEF vars, world, counters, GInv, Counted, Copies, World, Approved
<1>2. ASSUME NEW s \in Streams, Supervises(s)
      PROVE  GInv'
  BY <1>2, SupervisorEndsKeeps, StatusRoutedKeeps, ConfirmedKeeps, DeclinedKeeps, ClassifiedKeeps
     DEF Supervises
<1>3. ASSUME NEW s \in Streams, WorkerStage(s)
      PROVE  GInv'
  BY <1>3, NodeCallsKeeps, MapperAnswersKeep, MapperMapsKeeps, AllocatorAnswersKeep,
     DeployerAnswersKeep DEF WorkerStage
<1>4. ASSUME NEW s \in Streams,
             Connects(s) \/ GeneralInfo(s) \/ Reflects(s) \/ Waits(s) \/ Faulty(s)
      PROVE  GInv'
  BY <1>4, ConnectsKeeps, OtherNodesKeep, WaitsKeeps, ClassifiedKeeps, AbortsKeeps, DeadlineKeeps
     DEF Waits, Faulty
<1>5. ASSUME NEW s \in Streams, NEW m \in Texts, TurnStarts(s, m)
      PROVE  GInv'
  BY <1>5, TurnStartsKeeps
<1>6. ASSUME NEW job \in late, ServedLate(job)
      PROVE  GInv'
  BY <1>6, ServedLateKeeps
<1>7. ASSUME NEW w \in Workers, WorkerFails(w) \/ WorkerReturns(w)
      PROVE  GInv'
  BY <1>7, OutageKeeps
<1>. QED  BY <1>1, <1>2, <1>3, <1>4, <1>5, <1>6, <1>7 DEF Next, Runs

\* GInv is an invariant.
LEMMA Invariance == Spec => []GInv
BY InitGInv, NextGInv, PTL DEF Spec

-----------------------------------------------------------------------------
(* The theorems *)

\* TypeOK, for any number of streams and any bounds (graph.py:405-470,
\* ProvisioningState).
THEOREM TypeCorrect == Spec => []TypeOK
<1>1. GInv => TypeOK
  <2>. SUFFICES ASSUME GInv PROVE TypeOK
    OBVIOUS
  <2>1. cp \in GraphState
    BY DEF GInv, Copies, Sound
  <2>2. stream \in [Streams -> Stream]
    BY DEF GInv, Copies, Local
  <2>3. late \subseteq Jobs
    BY DEF GInv, World, Backed
  <2>. QED  BY <2>1, <2>2, <2>3 DEF GInv, Counted, TypeOK
<1>. QED  BY <1>1, Invariance, PTL

\* SubmittedWasApproved, for any number of streams of a thread, whatever they
\* are asked, whichever calls time out and are served late: what is submitted
\* was confirmed twice (graph.py:2157-2188).
THEOREM Approvals == Spec => []SubmittedWasApproved
<1>1. GInv => SubmittedWasApproved
  <2>. SUFFICES ASSUME GInv PROVE SubmittedWasApproved
    OBVIOUS
  <2>1. \A s \in Streams : stream[s].call # None => Backed(stream[s].call, decided)
    BY DEF GInv, Copies, Local, Placed
  <2>. QED  BY <2>1 DEF SubmittedWasApproved, Approved, Backed, GInv, World
<1>. QED  BY <1>1, Invariance, PTL

\* RemovalConfirmed: the request for a removal stays in the state, but a
\* removal is only called by the turn that confirms it (graph.py:1443, 2056).
THEOREM Removals == Spec => []RemovalConfirmed
<1>1. GInv => RemovalConfirmed
  BY DEF GInv, Copies, Local, Placed, Backed, RemovalConfirmed
<1>. QED  BY <1>1, Invariance, PTL

\* SubmissionReady: the deployer's refusals of a submission without its
\* preconditions (graph.py:2157-2196) are never reached.
THEOREM Readiness == Spec => []SubmissionReady
<1>1. GInv => SubmissionReady
  BY DEF GInv, Copies, Local, Placed, SubmissionReady, At
<1>. QED  BY <1>1, Invariance, PTL

-----------------------------------------------------------------------------
(* One stream of a thread at a time                                        *)
(*                                                                         *)
(* A copy is then the checkpoint, so what holds of the checkpoint may be   *)
(* related to what was decided before: an open question has not been       *)
(* answered.                                                               *)

OneStream == \A s, t \in Streams : s = t

Synced == \A s \in Streams : stream[s].pc # "idle" => stream[s].st = cp

Undecided(q, id) == \A d \in {"confirm", "decline"} : <<q, d, id>> \notin decided

\* Interpretations are numbered as they come, each question is decided once
\* of each, and what is open or on its way to a question was not decided.
Once ==
    /\ \A e \in decided : e[3] = None => e[1] = "confirm_remove"
    /\ \A e \in decided : e[1] = "confirm_remove" => e[3] = None
    /\ \A e \in decided : e[3] # None => e[3] <= interps
    /\ \A q \in Questions : \A id \in Interps :
          ~({<<q, "confirm", id>>, <<q, "decline", id>>} \subseteq decided)
    /\ cp.mapped # None => cp.mapped <= interps
    /\ cp.pending = "confirm_1" =>
          Undecided("confirm_1", cp.mapped) /\ Undecided("confirm_2", cp.mapped)
    /\ cp.pending = "confirm_2" => Undecided("confirm_2", cp.allocated)
    /\ \A s \in Streams : stream[s].pc = "allocator" => Undecided("confirm_2", stream[s].st.mapped)

OInv == GInv /\ Synced /\ Once

\* A state that may follow the checkpoint without a decision: a question in
\* it was open before, or is about a new interpretation or allocation.
Following(s, st) ==
    /\ st.mapped \in {cp.mapped, None} \/ (st.mapped = interps + 1 /\ interps' = interps + 1)
    /\ st.pending = "confirm_1" =>
          (cp.pending = "confirm_1" /\ st.mapped = cp.mapped) \/ st.mapped = interps + 1
    /\ st.pending = "confirm_2" =>
          \/ cp.pending = "confirm_2" /\ st.allocated = cp.allocated
          \/ stream[s].pc = "allocator" /\ st.allocated = stream[s].st.mapped

\* Where the stream stands after such a step.
Stands(s) ==
    /\ stream'[s].pc # "idle" => stream'[s].st = cp'
    /\ stream'[s].pc = "allocator" =>
          stream[s].pc = "allocator" /\ stream'[s].st.mapped = stream[s].st.mapped

Leaving == interps' \in {interps, interps + 1} /\ decided' = decided

\* A step without a decision keeps the invariant.
LEMMA FollowingKeeps ==
    ASSUME OneStream, OInv, GInv', NEW s \in Streams, Following(s, cp'), Stands(s), Leaving
    PROVE  OInv'
<1>1. Synced'
  BY DEF OneStream, Stands, Synced
<1>2. Once'
  <2>1. interps \in Nat /\ decided' = decided /\ interps' >= interps
    BY GraphAssumption DEF OInv, GInv, Counted, Leaving
  <2>2. \A q \in {"confirm_1", "confirm_2"} : Undecided(q, interps + 1)
    <3>1. \A d \in {"confirm", "decline"} : \A q \in {"confirm_1", "confirm_2"} :
             <<q, d, interps + 1>> \in decided => interps + 1 <= interps
      BY DEF OInv, Once
    <3>. QED  BY <2>1, <3>1 DEF Undecided
  <2>3. \A e \in decided : e[3] # None => e[3] \in Nat
    BY GraphAssumption DEF OInv, GInv, Counted, Interps
  <2>4. \A e \in decided' : e[3] # None => e[3] <= interps'
    <3>. SUFFICES ASSUME NEW e \in decided, e[3] # None PROVE e[3] <= interps'
      BY <2>1
    <3>1. e[3] <= interps /\ e[3] \in Nat
      BY <2>3 DEF OInv, Once
    <3>2. interps' \in Nat
      BY <2>1 DEF Leaving
    <3>. QED  BY <2>1, <3>1, <3>2
  <2>5. cp'.pending = "confirm_1" =>
           Undecided("confirm_1", cp'.mapped) /\ Undecided("confirm_2", cp'.mapped)
    BY <2>2 DEF Following, OInv, Once
  <2>6. cp'.pending = "confirm_2" => Undecided("confirm_2", cp'.allocated)
    BY DEF Following, OInv, Once
  <2>7. \A t \in Streams : stream'[t].pc = "allocator" => Undecided("confirm_2", stream'[t].st.mapped)
    BY DEF Stands, OneStream, OInv, Once
  <2>8. cp'.mapped # None => cp'.mapped <= interps'
    <3>1. cp.mapped # None => cp.mapped <= interps /\ cp.mapped \in Nat
      BY DEF OInv, Once, GInv, Copies, Sound, GraphState, Interps
    <3>. QED  BY <2>1, <3>1 DEF Following, Leaving
  <2>. QED  BY <2>1, <2>4, <2>5, <2>6, <2>7, <2>8 DEF Once, OInv, Undecided
<1>. QED  BY <1>1, <1>2 DEF OInv

\* Where Goto and Ends leave a stream.
LEMMA StandsAfter ==
    ASSUME GInv, NEW s \in Streams, NEW st,
           \/ Ends(s, st)
           \/ \E node \in Nodes \ {"allocator"} : Goto(s, node, st)
    PROVE  Stands(s) /\ cp' = st
<1>0. stream[s] \in Stream /\ s \in DOMAIN stream
  BY Here DEF GInv, Copies
<1>1. CASE Ends(s, st)
  <2>1. stream'[s] = Rest(NewState)
    BY <1>0, <1>1 DEF Ends
  <2>. QED  BY <1>1, <2>1 DEF Stands, Rest, Ends
<1>2. CASE \E node \in Nodes \ {"allocator"} : Goto(s, node, st)
  <2>1. PICK node \in Nodes \ {"allocator"} : Goto(s, node, st)
    BY <1>2
  <2>2. stream'[s].pc = node /\ stream'[s].st = st /\ stream'[s].call = None
    BY <1>0, <2>1 DEF Goto, Stream
  <2>. QED  BY <2>1, <2>2 DEF Stands, Goto
<1>. QED  BY <1>1, <1>2

\* The copy of the stream that moves is the checkpoint.
LEMMA CopyIsCheckpoint ==
    ASSUME OInv, NEW s \in Streams, stream[s].pc # "idle"
    PROVE  /\ stream[s].st = cp /\ cp \in GraphState /\ cp.corr \in Corrs
           /\ stream[s] \in Stream /\ s \in DOMAIN stream
           /\ Sound(cp, decided) /\ Placed(stream[s], decided)
BY Here DEF OInv, GInv, Synced, Placed, Copies

\* A step that puts the question away, keeps it or asks to clarify, and keeps
\* what it is about.
LEMMA FollowingEdit ==
    ASSUME OInv, NEW s \in Streams, NEW st, st.mapped \in {cp.mapped, None},
           \/ st.pending \notin {"confirm_1", "confirm_2"}
           \/ st.pending = cp.pending /\ st.mapped = cp.mapped /\ st.allocated = cp.allocated
    PROVE  Following(s, st)
BY DEF Following

\* The returns of the supervisor node without a decision, general_info and
\* reflection.
LEMMA SupervisorFollows ==
    ASSUME OInv, NEW s \in Streams,
           \/ SupervisorRefuses(s) \/ StatusRouted(s) \/ RemoveAsked(s) \/ AskedAgain(s)
           \/ ProvisioningStarts(s) \/ ClassifiedOther(s) \/ ModelUnavailable(s)
           \/ GeneralInfo(s) \/ Reflects(s)
    PROVE  Following(s, cp') /\ Stands(s) /\ Leaving
<1>0. stream[s].pc # "idle"
  BY DEF SupervisorRefuses, StatusRouted, RemoveAsked, AskedAgain, ProvisioningStarts,
         ClassifiedOther, ModelUnavailable, GeneralInfo, Reflects, Unclassified, Requesting,
         Answering, Considered, At
<1>1. stream[s].st = cp /\ cp \in GraphState /\ GInv
  BY <1>0, CopyIsCheckpoint DEF OInv
<1>2. Leaving
  BY DEF SupervisorRefuses, StatusRouted, RemoveAsked, AskedAgain, ProvisioningStarts,
         ClassifiedOther, ModelUnavailable, GeneralInfo, Reflects, Quiet, world, Leaving
<1>a. ASSUME NEW st, Ends(s, st) \/ \E node \in Nodes \ {"allocator"} : Goto(s, node, st),
             st.mapped \in {cp.mapped, None},
             \/ st.pending \notin {"confirm_1", "confirm_2"}
             \/ st.pending = cp.pending /\ st.mapped = cp.mapped /\ st.allocated = cp.allocated
      PROVE  Following(s, cp') /\ Stands(s) /\ Leaving
  <2>1. Following(s, st)
    BY <1>a, FollowingEdit
  <2>2. Stands(s) /\ cp' = st
    BY <1>1, <1>a, StandsAfter
  <2>. QED  BY <1>2, <2>1, <2>2
<1>. DEFINE cleared == [cp EXCEPT !.pending = None]
<1>b. /\ Failed(cp).pending = None
      /\ cleared.pending = None
      /\ Failed(cleared).pending = None
      /\ \A st \in {cp, cleared} :
            /\ StartProvisioning(st).pending = None
            /\ StartProvisioning(st).mapped = None
      /\ Failed(cp).mapped = cp.mapped /\ cleared.mapped = cp.mapped /\ Failed(cleared).mapped = cp.mapped
  BY <1>1 DEF Failed, GraphState, StartProvisioning
<1>c. None \notin {"confirm_1", "confirm_2"}
  BY GraphAssumption DEF Questions
<1>. HIDE DEF cleared
<1>3. CASE SupervisorRefuses(s)
  BY <1>3, <1>1, <1>a, <1>b, <1>c DEF SupervisorRefuses
<1>4. CASE StatusRouted(s)
  <2>1. PICK corr : Goto(s, "deployer", [cp EXCEPT !.tool = "status", !.tool_corr = corr])
    BY <1>1, <1>4 DEF StatusRouted
  <2>. DEFINE n == [cp EXCEPT !.tool = "status", !.tool_corr = corr]
  <2>2. n.pending = cp.pending /\ n.mapped = cp.mapped /\ n.allocated = cp.allocated
    BY <1>1 DEF GraphState
  <2>. HIDE DEF n
  <2>. QED  BY <1>a, <2>1, <2>2 DEF Nodes, n
<1>5. CASE RemoveAsked(s)
  <2>. DEFINE n == [cp EXCEPT !.tool = "remove", !.tool_corr = None, !.pending = "confirm_remove"]
  <2>1. n.pending = "confirm_remove" /\ n.mapped = cp.mapped
    BY <1>1 DEF GraphState
  <2>2. Ends(s, n)
    BY <1>1, <1>5 DEF RemoveAsked
  <2>. HIDE DEF n
  <2>. QED  BY <1>a, <2>1, <2>2
<1>6. CASE AskedAgain(s)
  BY <1>6, <1>1, <1>a DEF AskedAgain
<1>7. CASE ProvisioningStarts(s)
  BY <1>7, <1>1, <1>a, <1>b, <1>c DEF ProvisioningStarts, Nodes
<1>8. CASE ClassifiedOther(s)
  BY <1>8, <1>1, <1>a, <1>b, <1>c DEF ClassifiedOther, Nodes, cleared
<1>9. CASE ModelUnavailable(s)
  BY <1>9, <1>1, <1>a, <1>b, <1>c DEF ModelUnavailable, Nodes, cleared
<1>10. CASE GeneralInfo(s)
  <2>. DEFINE n == [cp EXCEPT !.status = "COMPLETED"]
  <2>1. n.pending = cp.pending /\ n.mapped = cp.mapped /\ n.allocated = cp.allocated
    BY <1>1 DEF GraphState
  <2>2. Ends(s, n) \/ Ends(s, cp)
    BY <1>1, <1>10 DEF GeneralInfo
  <2>. HIDE DEF n
  <2>. QED  BY <1>a, <2>1, <2>2
<1>11. CASE Reflects(s)
  <2>. DEFINE n == [cp EXCEPT !.iteration = @ + 1]
  <2>1. n.pending = cp.pending /\ n.mapped = cp.mapped /\ n.allocated = cp.allocated
    BY <1>1 DEF GraphState
  <2>2. Ends(s, cp) \/ Ends(s, Failed(cp)) \/ Goto(s, "supervisor", n)
    BY <1>1, <1>11 DEF Reflects
  <2>. HIDE DEF n
  <2>. QED  BY <1>a, <1>b, <1>c, <2>1, <2>2 DEF Nodes
<1>. QED  BY <1>3, <1>4, <1>5, <1>6, <1>7, <1>8, <1>9, <1>10, <1>11

\* A node calls its worker.
LEMMA CallsFollow ==
    ASSUME OInv, NEW s \in Streams,
           MapperCalls(s) \/ AllocatorCalls(s) \/ ToolCalls(s) \/ SubmitCalls(s)
    PROVE  Following(s, cp') /\ Stands(s) /\ Leaving
<1>1. PICK job : Calls(s, job) /\ stream[s].pc # "idle"
  BY DEF MapperCalls, AllocatorCalls, ToolCalls, SubmitCalls, At
<1>2. stream[s].st = cp /\ stream[s] \in Stream /\ s \in DOMAIN stream
  BY <1>1, CopyIsCheckpoint
<1>3. /\ stream'[s].pc = stream[s].pc /\ stream'[s].st = stream[s].st /\ stream'[s].call = job
      /\ cp' = cp
  BY <1>1, <1>2 DEF Calls, Stream
<1>4. Stands(s)
  BY <1>1, <1>2, <1>3 DEF Stands
<1>5. Following(s, cp')
  BY <1>3, FollowingEdit
<1>6. Leaving
  BY <1>1 DEF Leaving, Calls, Quiet, world
<1>. QED  BY <1>4, <1>5, <1>6

\* A message sent, another attempt, the end of the attempts, a stream that
\* dies, a deadline.
LEMMA WaitsFollow ==
    ASSUME OInv, NEW s \in Streams,
           Connects(s) \/ Retries(s) \/ GivesUp(s) \/ Aborts(s) \/ DeadlinePasses(s)
    PROVE  Following(s, cp') /\ Stands(s) /\ Leaving
<1>0. stream[s].pc # "idle"
  BY Here DEF Connects, Retries, GivesUp, Aborts, DeadlinePasses, OInv, GInv, Placed, WorkerOf
<1>1. stream[s].st = cp /\ stream[s] \in Stream /\ s \in DOMAIN stream
  BY <1>0, CopyIsCheckpoint
<1>2. Leaving
  BY DEF Connects, Retries, GivesUp, Aborts, DeadlinePasses, Quiet, Leaving
<1>3. Following(s, cp)
  BY FollowingEdit
<1>4. CASE Connects(s) \/ Retries(s) \/ DeadlinePasses(s)
  <2>1. stream'[s].pc = stream[s].pc /\ stream'[s].st = stream[s].st /\ cp' = cp
    BY <1>1, <1>4 DEF Connects, Retries, DeadlinePasses, Stream
  <2>. QED  BY <1>1, <1>2, <1>3, <2>1 DEF Stands
<1>5. CASE Aborts(s)
  <2>1. stream'[s] = Rest(NewState) /\ cp' = cp
    BY <1>1, <1>5 DEF Aborts
  <2>2. stream'[s].pc = "idle"
    BY <2>1 DEF Rest
  <2>. QED  BY <1>2, <1>3, <2>1, <2>2 DEF Stands
<1>6. CASE GivesUp(s)
  <2>1. Stands(s) /\ cp' = cp
    BY <1>1, <1>6, StandsAfter DEF GivesUp, OInv, Nodes
  <2>. QED  BY <1>2, <1>3, <2>1
<1>. QED  BY <1>4, <1>5, <1>6

\* The answers to a call.
LEMMA AnswersFollow ==
    ASSUME OInv, NEW s \in Streams,
           \/ MapperRefuses(s) \/ MapperRejected(s) \/ MapperClarifies(s) \/ MapperMaps(s)
           \/ Allocates(s) \/ AllocatorRejected(s)
           \/ Submitted(s) \/ TransactionFailed(s) \/ ToolAnswered(s)
    PROVE  Following(s, cp') /\ Stands(s) /\ Leaving
<1>0. stream[s].pc # "idle"
  BY AnswerHere DEF MapperRefuses, MapperRejected, MapperClarifies, MapperMaps, Allocates,
     AllocatorRejected, Submitted, TransactionFailed, ToolAnswered, At, OInv
<1>1. stream[s].st = cp /\ cp \in GraphState /\ GInv /\ Placed(stream[s], decided)
  BY <1>0, CopyIsCheckpoint DEF OInv
<1>2. Leaving
  BY DEF MapperRefuses, MapperRejected, MapperClarifies, MapperMaps, Allocates, AllocatorRejected,
         Submitted, TransactionFailed, ToolAnswered, Quiet, Leaving
<1>a. ASSUME NEW st, Ends(s, st) \/ \E node \in Nodes \ {"allocator"} : Goto(s, node, st),
             Following(s, st)
      PROVE  Following(s, cp') /\ Stands(s) /\ Leaving
  BY <1>1, <1>2, <1>a, StandsAfter
<1>b. /\ Failed(cp).pending = None /\ Failed(cp).mapped = cp.mapped
      /\ None \notin {"confirm_1", "confirm_2"}
  BY <1>1, GraphAssumption DEF Failed, GraphState, Questions
<1>c. Following(s, Failed(cp)) /\ Following(s, cp)
  BY <1>b, FollowingEdit
<1>3. CASE MapperRefuses(s) \/ MapperRejected(s) \/ AllocatorRejected(s) \/ TransactionFailed(s)
  BY <1>1, <1>3, <1>a, <1>c DEF MapperRefuses, MapperRejected, AllocatorRejected, TransactionFailed
<1>4. CASE MapperClarifies(s)
  <2>. DEFINE n == [cp EXCEPT !.status = "MAPPED", !.pending = "clarify"]
  <2>1. Goto(s, "reflection", n)
    BY <1>1, <1>4 DEF MapperClarifies
  <2>2. n.pending = "clarify" /\ n.mapped = cp.mapped
    BY <1>1 DEF GraphState
  <2>. HIDE DEF n
  <2>3. Following(s, n)
    BY <2>2, FollowingEdit
  <2>. QED  BY <1>a, <2>1, <2>3 DEF Nodes
<1>5. CASE MapperMaps(s)
  <2>. DEFINE n == [cp EXCEPT !.status = "MAPPED", !.mapped = interps + 1, !.pending = "confirm_1"]
  <2>1. Goto(s, "reflection", n)
    BY <1>1, <1>5 DEF MapperMaps
  <2>2. n.pending = "confirm_1" /\ n.mapped = interps + 1 /\ interps' = interps + 1
    BY <1>1, <1>5 DEF GraphState, MapperMaps
  <2>. HIDE DEF n
  <2>3. Following(s, n)
    <3>1. "confirm_1" # "confirm_2"
      OBVIOUS
    <3>. QED  BY <2>2, <3>1 DEF Following
  <2>. QED  BY <1>a, <2>1, <2>3 DEF Nodes
<1>6. CASE Allocates(s)
  <2>. DEFINE n == [cp EXCEPT !.status = "ALLOCATED", !.pending = "confirm_2",
                              !.allocated = stream[s].call.id]
  <2>1. Goto(s, "reflection", n)
    BY <1>1, <1>6 DEF Allocates
  <2>2. /\ n.pending = "confirm_2" /\ n.allocated = stream[s].call.id
        /\ n.mapped = cp.mapped
    BY <1>1 DEF GraphState
  <2>. HIDE DEF n
  <2>3. stream[s].pc = "allocator" /\ stream[s].call.id = stream[s].st.mapped
    BY <1>1, <1>6 DEF Allocates, Answer, Placed, WorkerOf
  <2>4. Following(s, n)
    BY <2>2, <2>3 DEF Following
  <2>. QED  BY <1>a, <2>1, <2>4 DEF Nodes
<1>7. CASE Submitted(s)
  <2>1. PICK status : Ends(s, [cp EXCEPT !.status = status, !.submitted = cp.corr])
    BY <1>1, <1>7 DEF Submitted
  <2>. DEFINE n == [cp EXCEPT !.status = status, !.submitted = cp.corr]
  <2>2. n.pending = cp.pending /\ n.mapped = cp.mapped /\ n.allocated = cp.allocated
    BY <1>1 DEF GraphState
  <2>. HIDE DEF n
  <2>3. Following(s, n)
    BY <2>2, FollowingEdit
  <2>. QED  BY <1>a, <2>1, <2>3 DEF n
<1>8. CASE ToolAnswered(s)
  <2>1. ASSUME NEW status, Ends(s, [cp EXCEPT !.status = status])
        PROVE  Following(s, cp') /\ Stands(s) /\ Leaving
    <3>. DEFINE n == [cp EXCEPT !.status = status]
    <3>1. n.pending = cp.pending /\ n.mapped = cp.mapped /\ n.allocated = cp.allocated
      BY <1>1 DEF GraphState
    <3>2. Following(s, n)
      <4>. HIDE DEF n
      <4>. QED  BY <3>1, FollowingEdit
    <3>3. Ends(s, n)
      BY <2>1
    <3>. HIDE DEF n
    <3>. QED  BY <1>a, <3>2, <3>3
  <2>. QED  BY <1>1, <1>8, <1>a, <1>c, <2>1 DEF ToolAnswered
<1>. QED  BY <1>3, <1>4, <1>5, <1>6, <1>7, <1>8

-----------------------------------------------------------------------------
(* Turns and decisions *)

\* A turn takes over what the checkpoint asks and holds.
LEMMA TurnStartsOnce ==
    ASSUME OneStream, OInv, GInv', NEW s \in Streams, NEW m \in Texts, TurnStarts(s, m)
    PROVE  OInv'
<1>1. PICK id : Seeds(s, m, id)
  BY DEF TurnStarts
<1>. DEFINE st == [cp EXCEPT !.status = "RECEIVED_REQUEST", !.corr = id]
<1>2. cp \in GraphState /\ s \in DOMAIN stream
  BY DEF OInv, GInv, Copies, Sound
<1>3. /\ cp' = st /\ decided' = decided /\ interps' = interps
      /\ stream' = [stream EXCEPT ![s] = [Rest(st) EXCEPT !.pc = "supervisor", !.msg = m]]
  BY <1>1 DEF TurnStarts, Seeds
<1>4. st.pending = cp.pending /\ st.mapped = cp.mapped /\ st.allocated = cp.allocated
  BY <1>2 DEF GraphState
<1>5. stream'[s].pc = "supervisor" /\ stream'[s].st = st
  BY <1>2, <1>3 DEF Rest
<1>. HIDE DEF st
<1>6. Synced'
  BY <1>3, <1>5 DEF OneStream, Synced
<1>7. Once'
  BY <1>3, <1>4, <1>5 DEF Once, OneStream, OInv, Undecided
<1>. QED  BY <1>6, <1>7 DEF OInv

\* A decision answers the open question, which was not answered before, and
\* puts it away; only a confirmed interpretation goes on to the allocator.
LEMMA DecidesOnce ==
    ASSUME OneStream, OInv, GInv', NEW s \in Streams, Answering(s),
           NEW decision \in {"confirm", "decline"}, Decides(s, decision),
           UNCHANGED <<world, interps, turns, corrs>>,
           cp'.pending = None, cp'.mapped = cp.mapped,
           stream'[s].pc # "idle" => stream'[s].st = cp',
           stream'[s].pc = "allocator" => cp.pending = "confirm_1"
    PROVE  OInv'
<1>0. stream[s].st = cp /\ cp \in GraphState /\ Sound(cp, decided) /\ cp.pending \in Questions
  BY CopyIsCheckpoint DEF Answering, Considered, At
<1>. DEFINE q == cp.pending
            id == Subject(cp)
<1>1. decided' = decided \cup {<<q, decision, id>>}
  BY <1>0 DEF Decides
<1>2. /\ q = "confirm_1" => id = cp.mapped /\ id # None
      /\ q = "confirm_2" => id = cp.allocated /\ id # None
      /\ q = "confirm_remove" => id = None
      /\ q \in {"confirm_1", "confirm_2", "confirm_remove"}
  BY <1>0 DEF Subject, Sound, Questions
<1>3. q # "confirm_remove" => Undecided(q, id)
  BY <1>2 DEF OInv, Once
<1>4. Synced'
  BY DEF OneStream, Synced
<1>5. Once'
  <2>1. None \notin {"confirm_1", "confirm_2"}
    BY GraphAssumption DEF Questions
  <2>2. id # None => id <= interps
    <3>1. q = "confirm_2" => <<"confirm_1", "confirm", id>> \in decided
      BY <1>0, <1>2 DEF Sound
    <3>. QED  BY <1>2, <3>1 DEF OInv, Once
  <2>. HIDE DEF q, id
  <2>3. q = "confirm_1" => \A d \in {"confirm", "decline"} : <<"confirm_2", d, cp.mapped>> \notin decided
    BY DEF OInv, Once, q, Undecided
  <2>4. \A e \in decided' : /\ e[3] = None => e[1] = "confirm_remove"
                            /\ e[1] = "confirm_remove" => e[3] = None
                            /\ e[3] # None => e[3] <= interps
    BY <1>1, <1>2, <2>2 DEF OInv, Once
  <2>5. \A p \in Questions : \A i \in Interps :
           ~({<<p, "confirm", i>>, <<p, "decline", i>>} \subseteq decided')
    <3>. SUFFICES ASSUME NEW p \in Questions, NEW i \in Interps,
                         <<p, "confirm", i>> \in decided', <<p, "decline", i>> \in decided'
                  PROVE  FALSE
      OBVIOUS
    <3>1. CASE p = q /\ i = id
      <4>1. i # None
        BY GraphAssumption
      <4>2. Undecided(q, id)
        BY <1>2, <1>3, <3>1, <4>1
      <4>. QED  BY <1>1, <3>1, <4>2 DEF Undecided
    <3>2. CASE ~(p = q /\ i = id)
      BY <1>1, <3>2 DEF OInv, Once
    <3>. QED  BY <3>1, <3>2
  <2>6. stream'[s].pc = "allocator" => Undecided("confirm_2", cp.mapped)'
    <3>1. ASSUME stream'[s].pc = "allocator", NEW d \in {"confirm", "decline"}
          PROVE  <<"confirm_2", d, cp.mapped>> \notin decided'
      <4>1. q = "confirm_1"
        BY <3>1 DEF q
      <4>2. <<"confirm_2", d, cp.mapped>> \in decided => FALSE
        BY <4>1, <2>3 DEF Undecided
      <4>. QED  BY <1>1, <4>1, <4>2
    <3>. QED  BY <3>1 DEF Undecided
  <2>7. stream'[s].pc = "allocator" => stream'[s].st = cp' /\ cp'.mapped = cp.mapped
    OBVIOUS
  <2>8. \A t \in Streams : stream'[t].pc = "allocator" => Undecided("confirm_2", stream[t].st.mapped)'
    BY <2>6, <2>7 DEF OneStream, Undecided
  <2>9. cp'.mapped # None => cp'.mapped <= interps'
    BY DEF OInv, Once
  <2>10. cp'.pending = None /\ interps' = interps
    OBVIOUS
  <2>. QED  BY <2>1, <2>4, <2>5, <2>8, <2>9, <2>10 DEF Once, OInv
<1>. QED  BY <1>4, <1>5 DEF OInv

\* The answers "confirm" and "decline".
LEMMA AnswersDecide ==
    ASSUME OneStream, OInv, GInv', NEW s \in Streams, Confirmed(s) \/ Declined(s)
    PROVE  OInv'
<1>0. /\ stream[s].st = cp /\ cp \in GraphState /\ stream[s] \in Stream /\ s \in DOMAIN stream
      /\ stream[s].call = None /\ Answering(s)
  BY CopyIsCheckpoint DEF Confirmed, Declined, Answering, Considered, At
<1>1. CASE Confirmed(s)
  <2>. DEFINE st0 == [cp EXCEPT !.pending = None]
              next == IF cp.pending = "confirm_2"
                        THEN [st0 EXCEPT !.confirmation_2 = "confirm", !.status = "APPROVED"]
                        ELSE st0
              node == IF cp.pending = "confirm_1" THEN "allocator" ELSE "deployer"
  <2>1. /\ cp' = next
        /\ stream' = [stream EXCEPT ![s].pc = node, ![s].st = next, ![s].agreed = cp.pending]
    BY <1>0, <1>1 DEF Confirmed
  <2>2. next.pending = None /\ next.mapped = cp.mapped
    BY <1>0 DEF GraphState
  <2>. HIDE DEF next
  <2>3. stream'[s].pc = node /\ stream'[s].st = next /\ stream'[s].call = None
    BY <1>0, <2>1 DEF Stream
  <2>4. node = "allocator" => cp.pending = "confirm_1"
    OBVIOUS
  <2>. HIDE DEF node
  <2>. QED  BY <1>0, <1>1, <2>1, <2>2, <2>3, <2>4, DecidesOnce DEF Confirmed
<1>2. CASE Declined(s)
  <2>. DEFINE n == [Failed(cp) EXCEPT !.confirmation_2 = "decline"]
  <2>1. cp' \in {n, Failed(cp)} /\ stream'[s] = Rest(NewState)
    BY <1>0, <1>2 DEF Declined, Ends
  <2>2. cp'.pending = None /\ cp'.mapped = cp.mapped
    BY <1>0, <2>1 DEF GraphState, Failed
  <2>3. stream'[s].pc = "idle" /\ stream'[s].call = None
    BY <2>1 DEF Rest
  <2>. QED  BY <1>0, <1>2, <2>2, <2>3, DecidesOnce DEF Declined
<1>. QED  BY <1>1, <1>2

\* A call nobody waits for any more, and the outages, move no stream.
LEMMA OthersOnce ==
    ASSUME OneStream, OInv, GInv',
           \/ \E job \in late : ServedLate(job)
           \/ \E w \in Workers : WorkerFails(w) \/ WorkerReturns(w)
           \/ UNCHANGED vars
    PROVE  OInv'
<1>1. UNCHANGED <<cp, stream, decided, interps>>
  BY DEF ServedLate, WorkerFails, WorkerReturns, vars, counters
<1>2. Synced' /\ Once'
  BY <1>1 DEF OInv, Synced, Once, Undecided
<1>. QED  BY <1>2 DEF OInv

\* A new thread.
LEMMA InitOnce == Init => OInv
<1>. SUFFICES ASSUME Init PROVE OInv
  OBVIOUS
<1>1. Synced
  BY DEF Init, Rest, Synced
<1>2. Once
  BY GraphAssumption DEF Init, NewState, Rest, Once, Questions
<1>. QED  BY <1>1, <1>2, InitGInv DEF OInv

\* Every step keeps it.
LEMMA NextOnce == OneStream /\ OInv /\ [Next]_vars => OInv'
<1>. SUFFICES ASSUME OneStream, OInv, [Next]_vars PROVE OInv'
  OBVIOUS
<1>0. GInv'
  BY NextGInv DEF OInv
<1>1. ASSUME NEW s \in Streams, Runs(s) \/ Waits(s) \/ Faulty(s), ~Confirmed(s), ~Declined(s)
      PROVE  OInv'
  <2>1. Following(s, cp') /\ Stands(s) /\ Leaving
    BY <1>1, SupervisorFollows, CallsFollow, WaitsFollow, AnswersFollow
       DEF Runs, Waits, Faulty, Supervises, WorkerStage
  <2>. QED  BY <1>0, <2>1, FollowingKeeps
<1>2. ASSUME NEW s \in Streams, Confirmed(s) \/ Declined(s)
      PROVE  OInv'
  BY <1>0, <1>2, AnswersDecide
<1>3. ASSUME NEW s \in Streams, NEW m \in Texts, TurnStarts(s, m)
      PROVE  OInv'
  BY <1>0, <1>3, TurnStartsOnce
<1>4. CASE \/ \E job \in late : ServedLate(job)
           \/ \E w \in Workers : WorkerFails(w) \/ WorkerReturns(w)
           \/ UNCHANGED vars
  BY <1>0, <1>4, OthersOnce
<1>. QED  BY <1>1, <1>2, <1>3, <1>4 DEF Next

\* OInv is an invariant of a thread with one stream at a time.
LEMMA OnceInvariance == OneStream => (Spec => []OInv)
<1>. SUFFICES ASSUME OneStream PROVE Spec => []OInv
  OBVIOUS
<1>1. OInv /\ [Next]_vars => OInv'
  BY NextOnce
<1>. QED  BY InitOnce, <1>1, PTL DEF Spec

\* DeclinedIsFinal, for any number of turns, texts and faults of a thread
\* whose requests do not overlap: what the operator declined is not submitted
\* later, not even by a call that was given up and is served late
\* (graph.py:1555-1590).
THEOREM Declines == OneStream => (Spec => []DeclinedIsFinal)
<1>. SUFFICES ASSUME OneStream PROVE Spec => []DeclinedIsFinal
  OBVIOUS
<1>1. OInv => DeclinedIsFinal
  <2>. SUFFICES ASSUME OInv, NEW o \in objects, NEW q \in Questions,
                       <<q, "decline", o[2]>> \in decided
                PROVE  FALSE
    BY DEF DeclinedIsFinal
  <2>1. Approved(o[2]) /\ o[2] \in Interps /\ o[2] # None
    BY GraphAssumption DEF OInv, GInv, World, Counted
  <2>2. q # "confirm_remove"
    BY <2>1 DEF OInv, Once
  <2>. QED  BY <2>1, <2>2 DEF OInv, Once, Approved, Questions
<1>. QED  BY <1>1, OnceInvariance, PTL

=============================================================================
