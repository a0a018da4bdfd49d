-------------------------- MODULE AllocationProofs --------------------------
(***************************************************************************)
(* Proofs about Allocation, for any number of requests, processes, ranges  *)
(* and faults: TypeOK, SRv6Honoured, IssuedIsHeld, RepeatIsIdentical,      *)
(* NothingLeftOver and LateCausesKnown; and, with something to answer      *)
(* with, ClarificationEnds.                                                *)
(*                                                                         *)
(* The argument.  A call works through the claims of its interpretation    *)
(* (Profile), so what may be claimed for a request is known before it is   *)
(* sent (Fits).  A number is only ever taken when no claim or Lease holds  *)
(* it, so it belongs to one request for good (Owned); whatever a call has  *)
(* gathered, remembers or has answered is of that kind (Kept).  What is    *)
(* answered is what is remembered until the process dies (Remembered).     *)
(* A call is only sent for what the mapper and the supervisor let through, *)
(* and gathers one number after the other in the order of its profile,     *)
(* none of them 0 (LateInv); the rest is what ServiceIntent makes of that. *)
(* A clarification is about one request alone: an answer leaves the kind   *)
(* of the request as it is (Served6, Served0) and, of what was not asked   *)
(* for, can only take the vlan away, with the endpoints it replaces.       *)
(***************************************************************************)
EXTENDS Allocation, TLAPS, SequenceTheorems, FiniteSetTheorems

\* What may be claimed for a: no vlan beside one the operator named, and
\* client prefixes only on a request that names SRv6.
Fits(a) ==
    {w \in What : /\ w.kind = "vlan" => NamedTags(Interpretation(a)) = {}
                  /\ NamesSRv6(a) => w.kind = "client"}

\* An identifier that request r may use, of what A asks and H holds.
Kept(id, r, A, H) ==
    /\ id \in IdType /\ id.what \in Fits(A[r])
    /\ \E h \in H : /\ h.id = id /\ h.corr = CorrOf[r]
                    /\ id.what.kind # "client" => h.req = r /\ id.value # 0

\* A number is held for one request.
Owned ==
    \A g, h \in held :
        g.id = h.id /\ g.id.what.kind # "client" /\ g.id.value # 0 => g.req = h.req

\* A call at work.
Working(x, A, H) ==
    /\ x.req \in Requests
    /\ x.interp = Interpretation(A[x.req]) /\ x.todo = Profile(x.interp)
    /\ x.pc \in {"list", "create", "carve"} => Len(x.ids) < Len(x.todo)
    /\ x.pc = "carve" => x.todo[Len(x.ids) + 1].kind = "client"
    /\ x.pc \in {"list", "create"} => x.todo[Len(x.ids) + 1].kind # "client"
    /\ \A n \in DOMAIN x.ids : Kept(x.ids[n], x.req, A, H)

Calls ==
    \A p \in Procs :
        /\ proc[p].pc = "idle" => proc[p].req = None /\ proc[p].ids = <<>>
        /\ proc[p].pc # "idle" => Working(proc[p], asks, held) /\ memo[p][proc[p].req] = {}

Answers ==
    /\ \A i \in issued : \A id \in i.ids : Kept(id, i.req, asks, held)
    /\ \A p \in Procs, r \in Requests : \A ids \in memo[p][r] : \A id \in ids : Kept(id, r, asks, held)

Remembered ==
    /\ \A i \in issued :
          /\ i.life <= proc[i.by].life
          /\ i.life = proc[i.by].life => memo[i.by][i.req] = {i.ids}
    /\ \A p \in Procs, r \in Requests : \A a, b \in memo[p][r] : a = b

Typed ==
    /\ TypeOK
    /\ sends \in [Requests -> Nat] /\ inbox \in [Requests -> Nat]
    /\ \A h \in held : h.id.what \in Fits(asks[h.req])

AInv == Typed /\ Owned /\ Calls /\ Answers /\ Remembered /\ NothingLeftOver

-----------------------------------------------------------------------------
(* Profile *)

\* The endpoints of an interpretation are sequences of clauses, whatever
\* their tag, and stay so in order.
LEMMA OrderedClients ==
    ASSUME NEW a \in AskType
    PROVE  LET eps == Interpretation(a).endpoints
           IN [n \in DOMAIN eps |-> Client(Ordered(eps)[n])] \in Seq([kind : {"client"}, at : Nodes \X Ports])
<1>. DEFINE eps == Endpoints(a)
            C == [kind : {"client"}, at : Nodes \X Ports]
<1>1. a.clauses \in Seq(Clauses)
  BY DEF AskType
<1>2. Len(a.clauses) \in Nat /\ DOMAIN a.clauses = 1..Len(a.clauses)
  BY <1>1, LenProperties
<1>3. ASSUME NEW n \in DOMAIN eps
      PROVE  eps[n].node \in Nodes /\ eps[n].port \in Ports
  <2>1. a.clauses[n] \in Clauses /\ n \in DOMAIN a.clauses
    BY <1>1, <1>2, ElementOfSeq DEF Endpoints
  <2>. QED  BY <2>1 DEF Endpoints, Clauses
<1>4. DOMAIN eps = 1..Len(a.clauses) /\ Len(eps) = Len(a.clauses)
  BY <1>2 DEF Endpoints
<1>. HIDE DEF eps
<1>5. ASSUME NEW n \in DOMAIN eps
      PROVE  Client(Ordered(eps)[n]) \in C
  <2>1. CASE Len(eps) = 2 /\ eps[2].node < eps[1].node
    <3>1. n \in {1, 2} /\ 1 \in DOMAIN eps /\ 2 \in DOMAIN eps
      BY <1>2, <1>4, <2>1
    <3>. QED  BY <1>3, <2>1, <3>1 DEF Ordered, Client
  <2>2. CASE ~(Len(eps) = 2 /\ eps[2].node < eps[1].node)
    BY <1>3, <2>2 DEF Ordered, Client
  <2>. QED  BY <2>1, <2>2
<1>6. [n \in DOMAIN eps |-> Client(Ordered(eps)[n])] \in Seq(C)
  BY <1>2, <1>4, <1>5, IsASeq
<1>. QED  BY <1>6 DEF Interpretation, eps

\* Whatever is asked, the claims fit it.
LEMMA ProfileFits ==
    ASSUME NEW a \in AskType
    PROVE  Profile(Interpretation(a)) \in Seq(Fits(a))
<1>. DEFINE i == Interpretation(a)
            S == Fits(a)
            vlan == IF NamedTags(i) = {} THEN <<Id("vlan")>> ELSE <<>>
<1>1. i.srv6 = NamesSRv6(a)
  BY DEF Interpretation
<1>2. CASE NamesSRv6(a) /\ i.type = "ip-vrf"
  <2>1. Profile(i) = [n \in DOMAIN i.endpoints |-> Client(Ordered(i.endpoints)[n])]
    BY <1>1, <1>2 DEF Profile
  <2>2. [kind : {"client"}, at : Nodes \X Ports] \subseteq S
    BY DEF Fits, What
  <2>. QED  BY <2>1, <2>2, OrderedClients, SeqMonotonic
<1>3. CASE NamesSRv6(a) /\ i.type # "ip-vrf"
  <2>1. Profile(i) = <<>>
    BY <1>1, <1>3 DEF Profile
  <2>. QED  BY <2>1
<1>4. CASE ~NamesSRv6(a)
  <2>0. ~i.srv6
    BY <1>4 DEF Interpretation
  <2>1. \A k \in Kinds \ {"vlan"} : Id(k) \in S
    BY <1>4 DEF Id, Fits, What, Kinds
  <2>2. vlan \in Seq(S)
    <3>1. NamedTags(i) = {} => Id("vlan") \in S
      BY <1>4 DEF Id, Fits, What, Kinds
    <3>. HIDE DEF S
    <3>. QED  BY <3>1
  <2>. HIDE DEF S, vlan, i
  <2>3. /\ <<Id("l3vni"), Id("rt")>> \in Seq(S) /\ <<Id("l2vni"), Id("rt")>> \in Seq(S)
        /\ (IF i.gateway THEN <<Id("l3vni")>> ELSE <<>>) \in Seq(S)
    BY <2>1 DEF Kinds
  <2>4. vlan \o <<Id("l2vni"), Id("rt")>> \o (IF i.gateway THEN <<Id("l3vni")>> ELSE <<>>) \in Seq(S)
    BY <2>2, <2>3, ConcatProperties
  <2>. SUFFICES Profile(i) \in Seq(S)
    BY DEF S, i
  <2>5. CASE i.type = "ip-vrf"
    BY <2>0, <2>3, <2>5 DEF Profile
  <2>6. CASE i.type = "mac-vrf"
    BY <2>0, <2>4, <2>6 DEF Profile, vlan
  <2>7. CASE i.type = "vlan"
    BY <2>0, <2>2, <2>7 DEF Profile, vlan
  <2>8. CASE i.type \notin {"ip-vrf", "mac-vrf", "vlan"}
    <3>1. Profile(i) = <<>>
      BY <2>8 DEF Profile
    <3>. QED  BY <3>1
  <2>. QED  BY <2>5, <2>6, <2>7, <2>8
<1>. QED  BY <1>2, <1>3, <1>4

-----------------------------------------------------------------------------
(* What a step has in common with the others *)

\* What may be used stays so while nothing is given back.
LEMMA KeptGrows ==
    ASSUME NEW id, NEW r, NEW A, NEW H, NEW G, H \subseteq G, Kept(id, r, A, H)
    PROVE  Kept(id, r, A, G)
BY DEF Kept

\* And a call with it.
LEMMA WorkingGrows ==
    ASSUME NEW x, NEW A, NEW H, NEW G, H \subseteq G, Working(x, A, H)
    PROVE  Working(x, A, G)
BY KeptGrows DEF Working

\* What is known of a process at work.
LEMMA AtWork ==
    ASSUME AInv, NEW p \in Procs, proc[p].pc # "idle"
    PROVE  /\ proc[p] \in Proc /\ Working(proc[p], asks, held) /\ Req(p) \in Requests
           /\ memo[p][Req(p)] = {} /\ asks[Req(p)] \in AskType
           /\ Len(proc[p].ids) \in Nat /\ DOMAIN proc[p].ids = 1..Len(proc[p].ids)
BY LenProperties DEF AInv, Calls, Typed, TypeOK, Working, Req, Proc

\* The next claim of a call fits its request.
LEMMA WantFits ==
    ASSUME AInv, NEW p \in Procs, proc[p].pc # "idle", Len(proc[p].ids) < Len(proc[p].todo)
    PROVE  Want(p) \in Fits(asks[Req(p)]) /\ Want(p) \in What
<1>1. proc[p].todo \in Seq(Fits(asks[Req(p)]))
  BY AtWork, ProfileFits DEF Working, Req
<1>2. Len(proc[p].ids) + 1 \in 1..Len(proc[p].todo)
  BY <1>1, AtWork, LenProperties
<1>3. Want(p) \in Fits(asks[Req(p)])
  BY <1>1, <1>2, ElementOfSeq DEF Want
<1>. QED  BY <1>3 DEF Fits

\* The set of processes' records does not change with a step.
LEMMA ProcFixed ==
    ASSUME UNCHANGED asks
    PROVE  Proc' = Proc
BY DEF Proc, Intent

\* What a step adds to what is held, if anything, is held for its request.
Grows(p, id) ==
    \/ held' = held
    \/ /\ id \in IdType /\ id.what \in Fits(asks[Req(p)])
       /\ id.what.kind # "client" /\ id.value # 0 => \A h \in held : h.id # id
       /\ held' = held \cup {Holding(p, id)}

\* Then the owners stay what they were.
LEMMA GrowsKeeps ==
    ASSUME AInv, NEW p \in Procs, proc[p].pc # "idle", NEW id, Grows(p, id), UNCHANGED asks
    PROVE  /\ held \subseteq held' /\ held' \subseteq Held /\ Owned'
           /\ \A h \in held' : h.id.what \in Fits(asks[h.req])
           /\ \A h \in held' \ held : h.id = id /\ h.req = Req(p)
           /\ issued' = issued /\ memo' = memo => Answers'
<1>1. Req(p) \in Requests /\ held \subseteq Held
  BY AtWork DEF AInv, Typed, TypeOK
<1>2. held \subseteq held' /\ held' \subseteq Held
  BY <1>1 DEF Grows, Holding, Held
<1>3. Owned'
  BY DEF Grows, Holding, Owned, AInv
<1>4. \A h \in held' : h.id.what \in Fits(asks[h.req])
  BY DEF Grows, Holding, AInv, Typed
<1>5. \A h \in held' \ held : h.id = id /\ h.req = Req(p)
  BY DEF Grows, Holding
<1>6. ASSUME issued' = issued, memo' = memo
      PROVE  Answers'
  BY <1>2, <1>6, KeptGrows DEF AInv, Answers
<1>. QED  BY <1>2, <1>3, <1>4, <1>5, <1>6

\* Process p moves on to x, within its call or out of it.
Moves(p, x) ==
    /\ proc' = [proc EXCEPT ![p] = x]
    /\ x \in Proc /\ x.life = proc[p].life
    /\ IF x.pc = "idle" THEN x.req = None /\ x.ids = <<>> ELSE x.req = Req(p)
    /\ UNCHANGED <<asks, sends, inbox, memo, issued>>
    /\ spoiled \subseteq spoiled' /\ spoiled' \subseteq Requests
    /\ faults' \in 0..MaxFaults

\* A step of a call that spoils its request or keeps what it has gathered.
LEMMA MovesKeeps ==
    ASSUME AInv, NEW p \in Procs, proc[p].pc # "idle", NEW x, Moves(p, x),
           NEW id, Grows(p, id),
           x.pc # "idle" => Working(x, asks, held'),
           \/ Req(p) \in spoiled'
           \/ /\ held' # held => \E n \in DOMAIN x.ids : x.ids[n] = id
              /\ x.pc # "idle"
              /\ \A n \in DOMAIN proc[p].ids : \E m \in DOMAIN x.ids : x.ids[m] = proc[p].ids[n]
    PROVE  AInv'
<1>1. /\ held \subseteq held' /\ held' \subseteq Held /\ Owned' /\ Answers'
      /\ \A h \in held' : h.id.what \in Fits(asks[h.req])
      /\ \A h \in held' \ held : h.id = id /\ h.req = Req(p)
  BY GrowsKeeps DEF Moves
<1>2. proc \in [Procs -> Proc] /\ proc'[p] = x /\ \A q \in Procs \ {p} : proc'[q] = proc[q]
  BY DEF Moves, AInv, Typed, TypeOK
<1>3. Typed'
  <2>1. proc' \in [Procs -> Proc']
    BY <1>2, ProcFixed DEF Moves
  <2>. QED  BY <1>1, <2>1 DEF Moves, AInv, Typed, TypeOK, Held
<1>4. Calls'
  <2>1. ASSUME NEW q \in Procs
        PROVE  /\ proc'[q].pc = "idle" => proc'[q].req = None /\ proc'[q].ids = <<>>
               /\ proc'[q].pc # "idle" => Working(proc'[q], asks, held') /\ memo[q][proc'[q].req] = {}
    <3>1. CASE q = p
      BY <1>2, <3>1, AtWork DEF Moves, Req
    <3>2. CASE q # p
      BY <1>1, <1>2, <3>2, WorkingGrows DEF AInv, Calls
    <3>. QED  BY <3>1, <3>2
  <2>. QED  BY <2>1 DEF Calls, Moves
<1>5. Remembered'
  BY <1>2 DEF Moves, AInv, Remembered, Typed, TypeOK
<1>6. NothingLeftOver'
  <2>. SUFFICES ASSUME NEW h \in held', h.req \notin spoiled'
                PROVE  \/ \E i \in issued : i.req = h.req /\ h.id \in i.ids
                       \/ \E q \in Procs : proc'[q].req = h.req
                             /\ \E n \in DOMAIN proc'[q].ids : proc'[q].ids[n] = h.id
    BY DEF NothingLeftOver, Moves, Req
  <2>1. CASE h \in held
    <3>1. CASE \E i \in issued : i.req = h.req /\ h.id \in i.ids
      BY <3>1
    <3>2. ASSUME NEW q \in Procs, Req(q) = h.req,
                 NEW n \in DOMAIN proc[q].ids, proc[q].ids[n] = h.id
          PROVE  \E t \in Procs : proc'[t].req = h.req
                    /\ \E m \in DOMAIN proc'[t].ids : proc'[t].ids[m] = h.id
      <4>1. CASE q = p
        BY <1>2, <3>2, <4>1 DEF Moves, Req
      <4>2. CASE q # p
        BY <1>2, <3>2, <4>2 DEF Req
      <4>. QED  BY <4>1, <4>2
    <3>. QED  BY <2>1, <3>1, <3>2 DEF AInv, NothingLeftOver, Moves
  <2>2. CASE h \notin held
    <3>1. h.id = id /\ h.req = Req(p) /\ held' # held
      BY <1>1, <2>2
    <3>. QED  BY <1>2, <3>1 DEF Moves
  <2>. QED  BY <2>1, <2>2
<1>. QED  BY <1>1, <1>3, <1>4, <1>5, <1>6 DEF AInv

\* The faults of a step.
LEMMA FaultsCounted ==
    ASSUME Typed, Smooth \/ Fault
    PROVE  faults' \in 0..MaxFaults
BY AllocationAssumption DEF Typed, TypeOK, Smooth, Fault

\* A process without a call.
LEMMA IdleTyped ==
    ASSUME NEW life \in Nat
    PROVE  /\ Idle(life) \in Proc /\ Idle(life).pc = "idle" /\ Idle(life).req = None
           /\ Idle(life).ids = <<>> /\ Idle(life).life = life
BY DEF Idle, Proc, Phases

\* The call raises: its request is spoiled, whatever it holds.
LEMMA RaisesKeeps ==
    ASSUME AInv, NEW p \in Procs, proc[p].pc # "idle", CallRaises(p),
           NEW id, Grows(p, id), Smooth \/ Fault
    PROVE  AInv'
<1>. DEFINE x == Idle(proc[p].life)
<1>1. proc[p].life \in Nat /\ proc[p] \in Proc /\ Req(p) \in Requests
  BY AtWork DEF Proc
<1>2. x \in Proc /\ x.pc = "idle" /\ x.req = None /\ x.ids = <<>> /\ x.life = proc[p].life
  BY <1>1, IdleTyped
<1>3. proc' = [proc EXCEPT ![p] = x]
  BY DEF CallRaises
<1>. HIDE DEF x
<1>4. Moves(p, x)
  BY <1>1, <1>2, <1>3, FaultsCounted DEF CallRaises, Moves, AInv, Typed, TypeOK
<1>5. Req(p) \in spoiled'
  BY DEF CallRaises
<1>. QED  BY <1>2, <1>4, <1>5, MovesKeeps

\* What is appended to a sequence, and what was there.
LEMMA Appended ==
    ASSUME NEW S, NEW ids \in Seq(S), NEW id \in S
    PROVE  /\ Append(ids, id) \in Seq(S)
           /\ DOMAIN Append(ids, id) = 1..(Len(ids) + 1) /\ DOMAIN ids = 1..Len(ids)
           /\ Len(ids) \in Nat
           /\ Append(ids, id)[Len(ids) + 1] = id
           /\ \A n \in DOMAIN ids : Append(ids, id)[n] = ids[n]
<1>1. Append(ids, id) \in Seq(S) /\ Len(Append(ids, id)) = Len(ids) + 1 /\ Len(ids) \in Nat
  BY AppendProperties, LenProperties
<1>. QED  BY <1>1, LenProperties, AppendProperties

\* The call gets what it wants.
LEMMA GainsKeeps ==
    ASSUME AInv, NEW p \in Procs, proc[p].pc # "idle",
           Len(proc[p].ids) < Len(proc[p].todo),
           NEW id, Gains(p, id), Grows(p, id), Kept(id, Req(p), asks, held'),
           UNCHANGED <<asks, sends, inbox, memo, issued, spoiled>>, Smooth
    PROVE  AInv'
<1>. DEFINE ids == proc[p].ids
            x == [proc[p] EXCEPT !.pc = "claim", !.ids = Append(@, id)]
<1>1. /\ proc[p] \in Proc /\ Working(proc[p], asks, held) /\ Req(p) = proc[p].req
      /\ ids \in Seq(IdType) /\ id \in IdType /\ Req(p) # None
  BY AtWork, AllocationAssumption DEF Req, Proc, Kept
<1>2. /\ Append(ids, id) \in Seq(IdType)
      /\ DOMAIN Append(ids, id) = 1..(Len(ids) + 1) /\ DOMAIN ids = 1..Len(ids)
      /\ Len(ids) \in Nat
      /\ Append(ids, id)[Len(ids) + 1] = id
      /\ \A n \in DOMAIN ids : Append(ids, id)[n] = ids[n]
  BY <1>1, Appended
<1>3. /\ x \in Proc /\ x.pc = "claim" /\ x.req = proc[p].req /\ x.interp = proc[p].interp
      /\ x.todo = proc[p].todo /\ x.life = proc[p].life /\ x.ids = Append(ids, id)
  BY <1>1, <1>2 DEF Proc, Phases
<1>4. proc' = [proc EXCEPT ![p] = x]
  BY <1>1 DEF Gains, AInv, Typed, TypeOK, Proc
<1>. HIDE DEF x
<1>5. Moves(p, x)
  BY <1>1, <1>3, <1>4, FaultsCounted DEF Moves, AInv, Typed, TypeOK
<1>6. held \subseteq held'
  BY DEF Grows
<1>7. \A n \in DOMAIN x.ids : Kept(x.ids[n], x.req, asks, held')
  <2>. SUFFICES ASSUME NEW n \in DOMAIN x.ids PROVE Kept(x.ids[n], x.req, asks, held')
    OBVIOUS
  <2>1. CASE n = Len(ids) + 1
    BY <1>1, <1>2, <1>3, <2>1
  <2>2. CASE n # Len(ids) + 1
    <3>1. n \in DOMAIN ids /\ x.ids[n] = ids[n]
      BY <1>2, <1>3, <2>2
    <3>. QED  BY <1>1, <1>3, <1>6, <3>1, KeptGrows DEF Working
  <2>. QED  BY <2>1, <2>2
<1>8. Working(x, asks, held')
  BY <1>1, <1>3, <1>7 DEF Working
<1>9. /\ \E n \in DOMAIN x.ids : x.ids[n] = id
      /\ \A n \in DOMAIN ids : \E m \in DOMAIN x.ids : x.ids[m] = ids[n]
  <2>1. Len(ids) + 1 \in DOMAIN x.ids /\ x.ids[Len(ids) + 1] = id
    BY <1>2, <1>3
  <2>2. \A n \in DOMAIN ids : n \in DOMAIN x.ids /\ x.ids[n] = ids[n]
    BY <1>2, <1>3
  <2>. QED  BY <2>1, <2>2
<1>. QED  BY <1>3, <1>5, <1>8, <1>9, MovesKeeps

\* A record of p that differs from the old one in what only the fallback uses.
Turns(p, x) ==
    /\ x \in Proc /\ x.pc # "idle" /\ x.req = proc[p].req /\ x.interp = proc[p].interp
    /\ x.todo = proc[p].todo /\ x.ids = proc[p].ids /\ x.life = proc[p].life
    /\ x.pc \in {"list", "create", "carve"} => Len(x.ids) < Len(x.todo)
    /\ x.pc = "carve" => x.todo[Len(x.ids) + 1].kind = "client"
    /\ x.pc \in {"list", "create"} => x.todo[Len(x.ids) + 1].kind # "client"

\* The call goes on without having gained anything.
LEMMA TurnsKeeps ==
    ASSUME AInv, NEW p \in Procs, proc[p].pc # "idle", NEW x, Turns(p, x),
           proc' = [proc EXCEPT ![p] = x],
           NEW id, Grows(p, id), held' # held => Req(p) \in spoiled',
           spoiled' \in {spoiled, spoiled \cup {Req(p)}},
           UNCHANGED <<asks, sends, inbox, memo, issued>>, Smooth \/ Fault
    PROVE  AInv'
<1>1. /\ proc[p] \in Proc /\ Working(proc[p], asks, held) /\ Req(p) = proc[p].req
      /\ Req(p) \in Requests
  BY AtWork DEF Req
<1>2. Moves(p, x)
  BY <1>1, FaultsCounted DEF Moves, Turns, AInv, Typed, TypeOK
<1>3. held \subseteq held'
  BY DEF Grows
<1>4. Working(x, asks, held')
  BY <1>1, <1>3, WorkingGrows DEF Working, Turns
<1>5. /\ Req(p) \in spoiled' \/ held' = held
      /\ \A n \in DOMAIN proc[p].ids : \E m \in DOMAIN x.ids : x.ids[m] = proc[p].ids[n]
  BY DEF Turns
<1>. QED  BY <1>2, <1>4, <1>5, MovesKeeps DEF Turns

-----------------------------------------------------------------------------
(* The steps of a call *)

\* A process is at work where it claims.
LEMMA Wanting ==
    ASSUME AInv, NEW p \in Procs, Claiming(p) \/ proc[p].pc \in {"list", "create", "carve"}
    PROVE  /\ proc[p].pc # "idle" /\ Len(proc[p].ids) < Len(proc[p].todo)
           /\ Want(p) \in Fits(asks[Req(p)]) /\ Want(p) \in What
           /\ proc[p].pc = "carve" => Want(p).kind = "client"
           /\ proc[p].pc \in {"list", "create"} => Want(p).kind # "client"
<1>1. proc[p].pc # "idle"
  BY DEF Claiming
<1>2. Len(proc[p].ids) < Len(proc[p].todo)
  BY <1>1, AtWork DEF Claiming, Working
<1>. QED  BY <1>1, <1>2, AtWork, WantFits DEF Working, Want

\* A number of the served API that is free is held by nobody.
LEMMA ServedFresh ==
    ASSUME AInv, NEW p \in Procs, Claiming(p), Want(p).kind # "client", NEW v \in FreeServed(p)
    PROVE  /\ ServedId(p, v) \in IdType /\ ServedId(p, v).what = Want(p) /\ ServedId(p, v).value # 0
           /\ \A h \in held : h.id # ServedId(p, v)
<1>1. Want(p) \in What
  BY Wanting
<1>2. Want(p).kind \in Kinds
  BY <1>1 DEF What
<1>3. Served[Index(Want(p).kind)] \in Nat
  BY <1>2, AllocationAssumption DEF Kinds, Index
<1>4. v \in Nat /\ v # 0 /\ v \notin Taken(Index(Want(p).kind))
  BY <1>3 DEF FreeServed
<1>5. ServedId(p, v) \in IdType
  BY <1>1, <1>4 DEF ServedId, IdType
<1>6. /\ ServedId(p, v).what = Want(p) /\ ServedId(p, v).from = "kuid"
      /\ ServedId(p, v).value = v
  BY DEF ServedId
<1>7. \A h \in held : h.id # ServedId(p, v)
  BY <1>4, <1>6 DEF Taken
<1>. QED  BY <1>4, <1>5, <1>6, <1>7

\* What is held for a call may be used by it.
LEMMA HoldingKept ==
    ASSUME AInv, NEW p \in Procs, proc[p].pc # "idle", NEW id \in IdType,
           id.what \in Fits(asks[Req(p)]), held' = held \cup {Holding(p, id)},
           id.what.kind # "client" => id.value # 0
    PROVE  Kept(id, Req(p), asks, held')
<1>1. /\ Holding(p, id) \in held' /\ Holding(p, id).id = id
      /\ Holding(p, id).corr = CorrOf[Req(p)] /\ Holding(p, id).req = Req(p)
  BY DEF Holding
<1>. QED  BY <1>1 DEF Kept

\* The served API: a claim, a full index, a failure, the way to the Lease.
LEMMA NumbersKeep ==
    ASSUME AInv, NEW p \in Procs, Numbers(p)
    PROVE  AInv'
<1>1. /\ Claiming(p) /\ Want(p).kind # "client" /\ proc[p].pc # "idle"
      /\ Len(proc[p].ids) < Len(proc[p].todo) /\ Want(p) \in Fits(asks[Req(p)])
  BY Wanting DEF Numbers, ServedClaim, ServedExhausted, ApiError, FallsBack, ToLeases, ClaimLost
<1>2. ASSUME NEW v \in FreeServed(p), held' = held \cup {Holding(p, ServedId(p, v))}
      PROVE  Grows(p, ServedId(p, v)) /\ Kept(ServedId(p, v), Req(p), asks, held')
  BY <1>1, <1>2, ServedFresh, HoldingKept DEF Grows
<1>3. held' = held => \A id : Grows(p, id)
  BY DEF Grows
<1>8. ASSUME held' = held \cup {Holding(p, ServedId(p, 0))}
      PROVE  Grows(p, ServedId(p, 0))
  <2>1. ServedId(p, 0) \in IdType /\ ServedId(p, 0).what = Want(p) /\ ServedId(p, 0).value = 0
    BY <1>1 DEF ServedId, IdType, Fits
  <2>. QED  BY <1>1, <1>8, <2>1 DEF Grows
<1>9. ASSUME \/ held' = held
             \/ \E v \in FreeServed(p) \cup {0} : held' = held \cup {Holding(p, ServedId(p, v))}
      PROVE  \E id : Grows(p, id)
  BY <1>2, <1>3, <1>8, <1>9
<1>4. CASE ServedClaim(p)
  <2>. PICK v \in FreeServed(p) :
          held' = held \cup {Holding(p, ServedId(p, v))} /\ Gains(p, ServedId(p, v))
    BY <1>4 DEF ServedClaim
  <2>. QED  BY <1>1, <1>2, <1>4, GainsKeeps DEF ServedClaim
<1>5. CASE ServedExhausted(p)
  BY <1>1, <1>3, <1>5, RaisesKeeps DEF ServedExhausted
<1>6. CASE ClaimLost(p)
  <2>1. \E id : Grows(p, id)
    BY <1>6, <1>9 DEF ClaimLost
  <2>. QED  BY <1>1, <1>6, <2>1, RaisesKeeps DEF ClaimLost
<1>7. CASE FallsBack(p) /\ LeaseFallback
  <2>. DEFINE x == [proc[p] EXCEPT !.pc = "list", !.round = 0]
  <2>1. proc[p] \in Proc
    BY <1>1, AtWork
  <2>2. Turns(p, x)
    <3>1. /\ x \in Proc /\ x.pc = "list" /\ x.req = proc[p].req /\ x.interp = proc[p].interp
          /\ x.todo = proc[p].todo /\ x.ids = proc[p].ids /\ x.life = proc[p].life
      <4>1. 0 \in 0..4 /\ "list" \in Phases
        BY DEF Phases
      <4>. QED  BY <2>1, <4>1 DEF Proc
    <3>. HIDE DEF x
    <3>. QED  BY <1>1, <3>1 DEF Turns, Want
  <2>3. proc' = [proc EXCEPT ![p] = x]
    BY <1>7, <2>1 DEF FallsBack, ToLeases, AInv, Typed, TypeOK, Proc
  <2>4. \E id : Grows(p, id)
    BY <1>7, <1>9 DEF FallsBack, ToLeases, ApiError
  <2>5. held' # held => Req(p) \in spoiled'
    BY <1>7 DEF FallsBack, ToLeases
  <2>6. Smooth \/ Fault
    BY <1>7 DEF FallsBack, ToLeases, ApiError
  <2>. HIDE DEF x
  <2>. QED  BY <1>1, <1>7, <2>2, <2>3, <2>4, <2>5, <2>6, TurnsKeeps DEF FallsBack, ToLeases
<1>10. CASE FallsBack(p) /\ ~LeaseFallback
  <2>1. (\E id : Grows(p, id)) /\ (Smooth \/ Fault) /\ CallRaises(p)
    BY <1>9, <1>10 DEF FallsBack, ApiError
  <2>. QED  BY <1>1, <2>1, RaisesKeeps
<1>. QED  BY <1>4, <1>5, <1>6, <1>7, <1>10 DEF Numbers

\* A record of p at another phase of the claim it was at.
LEMMA PhaseTurns ==
    ASSUME AInv, NEW p \in Procs, Claiming(p) \/ proc[p].pc \in {"list", "create"},
           NEW x \in Proc, x.pc \in {"list", "create", "carve"},
           x.pc = "carve" => Want(p).kind = "client",
           x.pc \in {"list", "create"} => Want(p).kind # "client",
           x.req = proc[p].req, x.interp = proc[p].interp, x.todo = proc[p].todo,
           x.ids = proc[p].ids, x.life = proc[p].life
    PROVE  Turns(p, x)
BY Wanting DEF Turns, Want

\* The Leases of an index; a round over them.
LEMMA RoundsKeep ==
    ASSUME AInv, NEW p \in Procs, LeasesListed(p) \/ RoundOver(p) \/ LeaseExists(p)
    PROVE  AInv'
<1>1. /\ proc[p].pc \in {"list", "create"} /\ proc[p] \in Proc
      /\ Want(p).kind # "client" /\ Want(p) \in What
  BY Wanting, AtWork DEF LeasesListed, RoundOver, LeaseExists
<1>2. UNCHANGED <<asks, sends, inbox, memo, held, issued, spoiled>> /\ Smooth
  BY DEF LeasesListed, RoundOver, LeaseExists
<1>3. ASSUME NEW x, Turns(p, x), proc' = [proc EXCEPT ![p] = x]
      PROVE  AInv'
  <2>1. \A id : Grows(p, id)
    BY <1>2 DEF Grows
  <2>. QED  BY <1>1, <1>2, <1>3, <2>1, TurnsKeeps
<1>4. proc = [q \in Procs |-> proc[q]]
  BY DEF AInv, Typed, TypeOK
<1>5. CASE LeasesListed(p)
  <2>. DEFINE used == {id.value : id \in Leases(Index(Want(p).kind))}
              x == [proc[p] EXCEPT !.pc = "create", !.round = @ + 1, !.from = 1, !.used = used]
  <2>1. used \in SUBSET Nat
    BY DEF Leases, AInv, Typed, TypeOK, Held, IdType
  <2>2. /\ x \in Proc /\ x.pc = "create" /\ x.req = proc[p].req /\ x.interp = proc[p].interp
        /\ x.todo = proc[p].todo /\ x.ids = proc[p].ids /\ x.life = proc[p].life
    <3>1. proc[p].round + 1 \in 0..4 /\ 1 \in Nat \ {0} /\ "create" \in Phases
      BY <1>1, <1>5 DEF Proc, Phases, LeasesListed
    <3>. HIDE DEF used
    <3>. QED  BY <1>1, <2>1, <3>1 DEF Proc
  <2>3. proc' = [proc EXCEPT ![p] = x]
    BY <1>1, <1>4, <1>5 DEF LeasesListed, Proc
  <2>. HIDE DEF x
  <2>. QED  BY <1>1, <1>3, <2>2, <2>3, PhaseTurns
<1>6. CASE RoundOver(p)
  <2>. DEFINE x == [proc[p] EXCEPT !.pc = "list"]
  <2>1. /\ x \in Proc /\ x.pc = "list" /\ x.req = proc[p].req /\ x.interp = proc[p].interp
        /\ x.todo = proc[p].todo /\ x.ids = proc[p].ids /\ x.life = proc[p].life
    BY <1>1 DEF Proc, Phases
  <2>2. proc' = [proc EXCEPT ![p] = x]
    BY <1>1, <1>4, <1>6 DEF RoundOver, Proc
  <2>. HIDE DEF x
  <2>. QED  BY <1>1, <1>3, <2>1, <2>2, PhaseTurns
<1>7. CASE LeaseExists(p)
  <2>. PICK v \in Unused(p) : proc' = [proc EXCEPT ![p].used = @ \cup {v}, ![p].from = v + 1]
    BY <1>7 DEF LeaseExists
  <2>. DEFINE x == [proc[p] EXCEPT !.used = @ \cup {v}, !.from = v + 1]
  <2>1. v \in Nat
    BY <1>1, AllocationAssumption DEF Unused, Proc, What, Kinds
  <2>2. /\ x \in Proc /\ x.pc = proc[p].pc /\ x.req = proc[p].req /\ x.interp = proc[p].interp
        /\ x.todo = proc[p].todo /\ x.ids = proc[p].ids /\ x.life = proc[p].life
    <3>1. v + 1 \in Nat \ {0} /\ proc[p].used \cup {v} \in SUBSET Nat
      BY <1>1, <2>1 DEF Proc
    <3>. QED  BY <1>1, <3>1 DEF Proc
  <2>3. proc' = [proc EXCEPT ![p] = x]
    BY <1>1, <1>4 DEF Proc
  <2>. HIDE DEF x
  <2>. QED  BY <1>1, <1>3, <2>2, <2>3, PhaseTurns
<1>. QED  BY <1>5, <1>6, <1>7

\* A Lease whose name is free is held by nobody.
LEMMA LeaseFresh ==
    ASSUME AInv, NEW p \in Procs, proc[p].pc = "create", NEW v \in Unused(p),
           ~NameTaken(LeaseId(p, v)), held' = held \cup {Holding(p, LeaseId(p, v))}
    PROVE  /\ Grows(p, LeaseId(p, v))
           /\ Kept(LeaseId(p, v), Req(p), asks, held')
<1>1. /\ Want(p) \in What /\ Want(p).kind # "client" /\ Want(p) \in Fits(asks[Req(p)])
      /\ proc[p] \in Proc
  BY Wanting, AtWork
<1>2. v \in Nat /\ v # 0
  BY <1>1, AllocationAssumption DEF Unused, Proc, What, Kinds
<1>3. LeaseId(p, v) \in IdType /\ LeaseId(p, v).what = Want(p) /\ LeaseId(p, v).value # 0
  BY <1>1, <1>2 DEF LeaseId, IdType
<1>. QED  BY <1>1, <1>3, HoldingKept DEF NameTaken, Grows

\* The end of the fallback: a Lease, no value left, a failure.
LEMMA LeasesKeep ==
    ASSUME AInv, NEW p \in Procs, LeaseCreated(p) \/ LeasesExhausted(p) \/ LeaseLost(p)
    PROVE  AInv'
<1>1. /\ proc[p].pc # "idle" /\ Len(proc[p].ids) < Len(proc[p].todo)
  BY Wanting DEF LeaseCreated, LeasesExhausted, LeaseLost
<1>2. held' = held => \A id : Grows(p, id)
  BY DEF Grows
<1>3. CASE LeaseCreated(p)
  <2>. PICK v \in Unused(p) :
          /\ ~NameTaken(LeaseId(p, v)) /\ held' = held \cup {Holding(p, LeaseId(p, v))}
          /\ Gains(p, LeaseId(p, v))
    BY <1>3 DEF LeaseCreated
  <2>1. Grows(p, LeaseId(p, v)) /\ Kept(LeaseId(p, v), Req(p), asks, held')
    BY <1>3, LeaseFresh DEF LeaseCreated
  <2>. QED  BY <1>1, <1>3, <2>1, GainsKeeps DEF LeaseCreated
<1>4. CASE LeasesExhausted(p)
  BY <1>1, <1>2, <1>4, RaisesKeeps DEF LeasesExhausted
<1>5. CASE LeaseLost(p)
  <2>1. \E id : Grows(p, id)
    BY <1>2, <1>5, LeaseFresh DEF LeaseLost
  <2>. QED  BY <1>1, <1>5, <2>1, RaisesKeeps DEF LeaseLost
<1>. QED  BY <1>3, <1>4, <1>5

\* A client prefix: its claim is made, found, or both processes' at once.
LEMMA PrefixesKeep ==
    ASSUME AInv, NEW p \in Procs, Prefixes(p)
    PROVE  AInv'
<1>. DEFINE id == PrefixId(p)
<1>1. /\ Claiming(p) \/ proc[p].pc = "carve"
      /\ proc[p].pc # "idle" /\ Len(proc[p].ids) < Len(proc[p].todo) /\ proc[p] \in Proc
      /\ Want(p) \in Fits(asks[Req(p)]) /\ Want(p) \in What /\ Want(p).kind = "client"
  BY Wanting, AtWork DEF Prefixes, PrefixRead, PrefixCarved, PrefixRaced, PrefixLost
<1>2. id \in IdType /\ id.what = Want(p)
  BY <1>1 DEF PrefixId, IdType
<1>3. held' = held \/ held' = held \cup {Holding(p, id)} => Grows(p, id)
  BY <1>1, <1>2 DEF Grows
<1>4. proc = [q \in Procs |-> proc[q]]
  BY DEF AInv, Typed, TypeOK
<1>. HIDE DEF id
<1>5. CASE PrefixRead(p) /\ PrefixHeld(p)
  <2>1. Kept(id, Req(p), asks, held')
    BY <1>1, <1>2, <1>5 DEF PrefixRead, PrefixHeld, Kept, id
  <2>. QED  BY <1>1, <1>3, <1>5, <2>1, GainsKeeps DEF PrefixRead, id
<1>6. CASE PrefixRead(p) /\ ~PrefixHeld(p)
  <2>. DEFINE x == [proc[p] EXCEPT !.pc = "carve"]
  <2>1. /\ x \in Proc /\ x.pc = "carve" /\ x.req = proc[p].req /\ x.interp = proc[p].interp
        /\ x.todo = proc[p].todo /\ x.ids = proc[p].ids /\ x.life = proc[p].life
    BY <1>1 DEF Proc, Phases
  <2>2. proc' = [proc EXCEPT ![p] = x]
    BY <1>1, <1>4, <1>6 DEF PrefixRead, Proc
  <2>. HIDE DEF x
  <2>3. Turns(p, x)
    BY <1>1, <1>6, <2>1, PhaseTurns DEF PrefixRead
  <2>. QED  BY <1>1, <1>3, <1>6, <2>2, <2>3, TurnsKeeps DEF PrefixRead
<1>7. CASE PrefixCarved(p)
  <2>1. Kept(id, Req(p), asks, held')
    BY <1>1, <1>2, <1>7, HoldingKept DEF PrefixCarved, id
  <2>. QED  BY <1>1, <1>3, <1>7, <2>1, GainsKeeps DEF PrefixCarved, id
<1>8. CASE PrefixRaced(p)
  BY <1>1, <1>3, <1>8, RaisesKeeps DEF PrefixRaced
<1>9. CASE PrefixLost(p)
  BY <1>1, <1>3, <1>9, RaisesKeeps DEF PrefixLost, id
<1>. QED  BY <1>5, <1>6, <1>7, <1>8, <1>9 DEF Prefixes

-----------------------------------------------------------------------------
(* The beginning and the end of a call *)

\* The supervisor sends a call.
LEMMA SendsKeeps ==
    ASSUME AInv, NEW r \in Requests, Sends(r)
    PROVE  AInv'
<1>1. Typed'
  <2>1. Proc' = Proc
    BY ProcFixed DEF Sends
  <2>2. /\ sends' \in [Requests -> Nat] /\ inbox' \in [Requests -> Nat]
        /\ \A q \in Requests : sends'[q] \in 0..MaxSends[q] /\ inbox'[q] \in 0..sends'[q]
    <3>1. MaxSends[r] \in Nat
      BY AllocationAssumption
    <3>2. /\ sends \in [Requests -> Nat] /\ inbox \in [Requests -> Nat]
          /\ sends[r] < MaxSends[r]
          /\ \A q \in Requests : sends[q] \in 0..MaxSends[q] /\ inbox[q] \in 0..sends[q]
      BY DEF Sends, AInv, Typed, TypeOK
    <3>3. /\ sends' = [sends EXCEPT ![r] = @ + 1] /\ inbox' = [inbox EXCEPT ![r] = @ + 1]
      BY DEF Sends
    <3>4. sends'[r] \in 0..MaxSends[r] /\ inbox'[r] \in 0..sends'[r]
      BY <3>1, <3>2, <3>3
    <3>. QED  BY <3>2, <3>3, <3>4
  <2>. QED  BY <2>1, <2>2 DEF Sends, Smooth, AInv, Typed, TypeOK, Held
<1>2. Owned' /\ Calls' /\ Answers'
  BY DEF Sends, AInv, Owned, Calls, Answers
<1>3. Remembered' /\ NothingLeftOver'
  BY DEF Sends, AInv, Remembered, NothingLeftOver, Req
<1>. QED  BY <1>1, <1>2, <1>3 DEF AInv

\* A call leaves the inbox.
LEMMA TakenUp ==
    ASSUME Typed, NEW r \in Requests, inbox[r] > 0, inbox' = [inbox EXCEPT ![r] = @ - 1],
           UNCHANGED sends
    PROVE  /\ inbox' \in [Requests -> Nat]
           /\ \A q \in Requests : inbox'[q] \in 0..sends[q]
BY DEF Typed, TypeOK

\* A call answered from memory.
LEMMA RemembersKeeps ==
    ASSUME AInv, NEW p \in Procs, NEW r \in Requests, Remembers(p, r)
    PROVE  AInv'
<1>. PICK ids \in memo[p][r] :
        issued' = issued \cup {[req |-> r, ids |-> ids, by |-> p, life |-> proc[p].life]}
  BY DEF Remembers
<1>1. UNCHANGED <<asks, sends, proc, memo, held, spoiled, faults>>
  BY DEF Remembers, Smooth
<1>2. ids \in SUBSET IdType /\ proc[p].life \in Nat
  BY DEF AInv, Typed, TypeOK, Proc
<1>3. Typed'
  <2>1. Proc' = Proc
    BY <1>1, ProcFixed
  <2>2. issued' \subseteq [req : Requests, ids : SUBSET IdType, by : Procs, life : Nat]
    BY <1>2 DEF AInv, Typed, TypeOK
  <2>. QED  BY <1>1, <2>1, <2>2, TakenUp DEF Remembers, AInv, Typed, TypeOK, Held
<1>4. Owned' /\ Calls'
  BY <1>1 DEF AInv, Owned, Calls
<1>5. Answers'
  BY <1>1 DEF AInv, Answers
<1>6. Remembered'
  <2>1. memo[p][r] = {ids}
    BY DEF AInv, Remembered
  <2>. QED  BY <1>1, <1>2, <2>1 DEF AInv, Remembered
<1>7. NothingLeftOver'
  BY <1>1 DEF AInv, NothingLeftOver, Req
<1>. QED  BY <1>3, <1>4, <1>5, <1>6, <1>7 DEF AInv

\* A call that is new to the process: refused at once, or begun.
LEMMA TakesKeeps ==
    ASSUME AInv, NEW p \in Procs, NEW r \in Requests, Takes(p, r)
    PROVE  AInv'
<1>. DEFINE i == Intent(r)
            x == [proc[p] EXCEPT !.pc = "claim", !.req = r, !.interp = i, !.todo = Profile(i)]
<1>1. /\ UNCHANGED <<asks, sends, memo, held, issued, spoiled, faults>>
      /\ proc[p] \in Proc /\ proc[p].pc = "idle" /\ proc[p].ids = <<>> /\ proc[p].req = None
      /\ proc \in [Procs -> Proc] /\ memo[p][r] = {} /\ asks[r] \in AskType
  BY DEF Takes, Smooth, AInv, Calls, Typed, TypeOK
<1>2. Profile(i) \in Seq(What)
  <2>1. Fits(asks[r]) \subseteq What
    BY DEF Fits
  <2>. QED  BY <1>1, <2>1, ProfileFits, SeqMonotonic DEF Intent
<1>3. i \in {Intent(q) : q \in Requests}
  OBVIOUS
<1>. HIDE DEF i
<1>4. /\ x \in Proc /\ x.pc = "claim" /\ x.req = r /\ x.interp = i /\ x.todo = Profile(i)
      /\ x.ids = <<>> /\ x.life = proc[p].life
  <2>1. "claim" \in Phases
    BY DEF Phases
  <2>. QED  BY <1>1, <1>2, <1>3, <2>1 DEF Proc
<1>5. proc' \in {proc, [proc EXCEPT ![p] = x]}
  BY <1>1 DEF Takes, Proc, i
<1>. HIDE DEF x
<1>6. Working(x, asks, held)
  BY <1>4 DEF Working, Intent, i
<1>7. Typed'
  <2>1. Proc' = Proc
    BY <1>1, ProcFixed
  <2>2. proc' \in [Procs -> Proc]
    BY <1>1, <1>4, <1>5
  <2>. QED  BY <1>1, <2>1, <2>2, TakenUp DEF Takes, AInv, Typed, TypeOK, Held
<1>8. Calls'
  BY <1>1, <1>4, <1>5, <1>6 DEF AInv, Calls
<1>9. Owned' /\ Answers'
  BY <1>1 DEF AInv, Owned, Answers
<1>10. Remembered'
  <2>1. \A q \in Procs : proc'[q].life = proc[q].life
    BY <1>1, <1>4, <1>5
  <2>2. \A k \in issued : k.by \in Procs
    BY DEF AInv, Typed, TypeOK
  <2>. QED  BY <1>1, <2>1, <2>2 DEF AInv, Remembered
<1>11. NothingLeftOver'
  <2>1. \A q \in Procs : \A n \in DOMAIN proc[q].ids : q # p
    BY <1>1
  <2>2. \A q \in Procs \ {p} : proc'[q] = proc[q]
    BY <1>1, <1>5
  <2>. QED  BY <1>1, <2>1, <2>2 DEF AInv, NothingLeftOver, Req
<1>. QED  BY <1>7, <1>8, <1>9, <1>10, <1>11 DEF AInv

\* Everything a call has gathered is carried by its intent.
LEMMA AllCarried ==
    ASSUME AInv, NEW p \in Procs, proc[p].pc # "idle"
    PROVE  /\ Carried(p) = {proc[p].ids[n] : n \in DOMAIN proc[p].ids}
           /\ \A id \in Carried(p) : Kept(id, Req(p), asks, held)
           /\ Carried(p) \in SUBSET IdType
<1>1. \A n \in DOMAIN proc[p].ids : Kept(proc[p].ids[n], Req(p), asks, held)
  BY AtWork DEF Working, Req
<1>2. proc[p].interp = Interpretation(asks[Req(p)])
  BY AtWork DEF Working, Req
<1>3. Carried(p) = {proc[p].ids[n] : n \in DOMAIN proc[p].ids}
  BY <1>1, <1>2 DEF Carried, Kept, Fits
<1>. QED  BY <1>1, <1>3 DEF Kept

\* The intent is answered and remembered.
LEMMA IssuesKeeps ==
    ASSUME AInv, NEW p \in Procs, Issues(p)
    PROVE  AInv'
<1>. DEFINE r == Req(p)
            new == [req |-> r, ids |-> Carried(p), by |-> p, life |-> proc[p].life]
            x == Idle(proc[p].life)
<1>1. /\ UNCHANGED <<asks, sends, inbox, held, spoiled, faults>>
      /\ proc[p].pc # "idle" /\ proc \in [Procs -> Proc]
      /\ memo \in [Procs -> [Requests -> SUBSET SUBSET IdType]]
  BY DEF Issues, Smooth, AllClaimed, AInv, Typed, TypeOK
<1>2. /\ r \in Requests /\ memo[p][r] = {} /\ proc[p].life \in Nat
      /\ Carried(p) = {proc[p].ids[n] : n \in DOMAIN proc[p].ids}
      /\ \A id \in Carried(p) : Kept(id, r, asks, held)
      /\ Carried(p) \in SUBSET IdType
  BY <1>1, AtWork, AllCarried DEF Proc
<1>3. /\ memo' = [memo EXCEPT ![p][r] = {Carried(p)}] /\ issued' = issued \cup {new}
      /\ proc' = [proc EXCEPT ![p] = x]
  BY DEF Issues
<1>4. /\ x \in Proc /\ x.pc = "idle" /\ x.req = None /\ x.ids = <<>> /\ x.life = proc[p].life
  BY <1>2, IdleTyped
<1>5. /\ memo'[p][r] = {Carried(p)}
      /\ \A q \in Procs \ {p} : memo'[q] = memo[q]
      /\ \A t \in Requests \ {r} : memo'[p][t] = memo[p][t]
      /\ memo' \in [Procs -> [Requests -> SUBSET SUBSET IdType]]
  BY <1>1, <1>2, <1>3
<1>6. /\ proc'[p] = x /\ \A q \in Procs \ {p} : proc'[q] = proc[q]
      /\ proc' \in [Procs -> Proc] /\ \A q \in Procs : proc'[q].life = proc[q].life
  BY <1>1, <1>3, <1>4
<1>7. new.req = r /\ new.ids = Carried(p) /\ new.by = p /\ new.life = proc[p].life
  OBVIOUS
<1>8. new \in [req : Requests, ids : SUBSET IdType, by : Procs, life : Nat]
  BY <1>2
<1>. HIDE DEF x, new, r
<1>9. Typed'
  <2>1. Proc' = Proc
    BY <1>1, ProcFixed
  <2>. QED  BY <1>1, <1>3, <1>5, <1>6, <1>8, <2>1 DEF AInv, Typed, TypeOK, Held
<1>10. Owned'
  BY <1>1 DEF AInv, Owned
<1>11. Calls'
  <2>. SUFFICES ASSUME NEW q \in Procs
                PROVE  /\ proc'[q].pc = "idle" => proc'[q].req = None /\ proc'[q].ids = <<>>
                       /\ proc'[q].pc # "idle" => Working(proc'[q], asks, held) /\ memo'[q][proc'[q].req] = {}
    BY <1>1 DEF Calls
  <2>1. CASE q = p
    BY <1>4, <1>6, <2>1
  <2>2. CASE q # p
    <3>1. /\ proc[q].pc = "idle" => proc[q].req = None /\ proc[q].ids = <<>>
          /\ proc[q].pc # "idle" => Working(proc[q], asks, held) /\ memo[q][proc[q].req] = {}
      BY DEF AInv, Calls
    <3>2. proc'[q] = proc[q] /\ memo'[q] = memo[q]
      BY <1>5, <1>6, <2>2
    <3>. QED  BY <3>1, <3>2
  <2>. QED  BY <2>1, <2>2
<1>12. Answers'
  <2>1. \A k \in issued' : \A id \in k.ids : Kept(id, k.req, asks, held)
    BY <1>2, <1>3, <1>7 DEF AInv, Answers
  <2>2. \A q \in Procs, t \in Requests : \A ids \in memo'[q][t] : \A id \in ids : Kept(id, t, asks, held)
    BY <1>2, <1>5 DEF AInv, Answers
  <2>. QED  BY <1>1, <2>1, <2>2 DEF Answers
<1>13. Remembered'
  <2>1. \A k \in issued : k.by \in Procs /\ k.req \in Requests
    BY DEF AInv, Typed, TypeOK
  <2>2. ASSUME NEW k \in issued'
        PROVE  k.life <= proc'[k.by].life
               /\ (k.life = proc'[k.by].life => memo'[k.by][k.req] = {k.ids})
    <3>1. CASE k \in issued /\ (k.by # p \/ k.req # r)
      <4>1. k.by \in Procs /\ k.req \in Requests
        BY <2>1, <3>1
      <4>2. memo'[k.by][k.req] = memo[k.by][k.req]
        BY <1>5, <3>1, <4>1
      <4>3. proc'[k.by].life = proc[k.by].life
        BY <1>6, <4>1
      <4>. QED  BY <3>1, <4>2, <4>3 DEF AInv, Remembered
    <3>2. CASE k \in issued /\ k.by = p /\ k.req = r
      BY <1>2, <1>6, <2>1, <3>2 DEF AInv, Remembered
    <3>3. CASE k = new
      <4>1. k.life = proc[p].life /\ proc'[k.by].life = proc[p].life
        BY <1>6, <1>7, <3>3
      <4>2. memo'[k.by][k.req] = {k.ids}
        BY <1>5, <1>7, <3>3
      <4>. QED  BY <1>2, <4>1, <4>2
    <3>. QED  BY <1>3, <2>2, <3>1, <3>2, <3>3
  <2>3. \A q \in Procs, t \in Requests : \A a, b \in memo'[q][t] : a = b
    BY <1>5 DEF AInv, Remembered
  <2>. QED  BY <2>2, <2>3 DEF Remembered
<1>14. NothingLeftOver'
  <2>. SUFFICES ASSUME NEW h \in held, h.req \notin spoiled
                PROVE  \/ \E k \in issued' : k.req = h.req /\ h.id \in k.ids
                       \/ \E q \in Procs : proc'[q].req = h.req
                             /\ \E n \in DOMAIN proc'[q].ids : proc'[q].ids[n] = h.id
    BY <1>1 DEF NothingLeftOver, Req
  <2>1. CASE \E k \in issued : k.req = h.req /\ h.id \in k.ids
    BY <1>3, <2>1
  <2>2. ASSUME NEW q \in Procs, Req(q) = h.req,
               NEW n \in DOMAIN proc[q].ids, proc[q].ids[n] = h.id
        PROVE  \/ \E k \in issued' : k.req = h.req /\ h.id \in k.ids
               \/ \E t \in Procs : proc'[t].req = h.req
                     /\ \E m \in DOMAIN proc'[t].ids : proc'[t].ids[m] = h.id
    <3>1. CASE q = p
      <4>1. new.req = h.req /\ h.id \in new.ids /\ new \in issued'
        BY <1>2, <1>3, <1>7, <2>2, <3>1 DEF r
      <4>. QED  BY <4>1
    <3>2. CASE q # p
      BY <1>6, <2>2, <3>2 DEF Req
    <3>. QED  BY <3>1, <3>2
  <2>. QED  BY <2>1, <2>2 DEF AInv, NothingLeftOver
<1>. QED  BY <1>9, <1>10, <1>11, <1>12, <1>13, <1>14 DEF AInv

\* A process dies and forgets.
LEMMA CrashesKeeps ==
    ASSUME AInv, NEW p \in Procs, Crashes(p)
    PROVE  AInv'
<1>. DEFINE x == Idle(proc[p].life + 1)
<1>1. /\ UNCHANGED <<asks, sends, inbox, held, issued>> /\ spoiled \subseteq spoiled'
      /\ proc \in [Procs -> Proc] /\ proc[p].life \in Nat
      /\ memo \in [Procs -> [Requests -> SUBSET SUBSET IdType]]
      /\ faults' \in 0..MaxFaults
  BY FaultsCounted DEF Crashes, AInv, Typed, TypeOK, Proc
<1>2. x \in Proc /\ x.pc = "idle" /\ x.req = None /\ x.ids = <<>> /\ x.life = proc[p].life + 1
  BY <1>1, IdleTyped
<1>3. proc' = [proc EXCEPT ![p] = x] /\ memo' = [memo EXCEPT ![p] = [r \in Requests |-> {}]]
  BY DEF Crashes
<1>4. /\ proc'[p] = x /\ \A q \in Procs \ {p} : proc'[q] = proc[q]
      /\ proc' \in [Procs -> Proc]
      /\ \A r \in Requests : memo'[p][r] = {}
      /\ \A q \in Procs \ {p} : memo'[q] = memo[q]
      /\ memo' \in [Procs -> [Requests -> SUBSET SUBSET IdType]]
  BY <1>1, <1>2, <1>3
<1>. HIDE DEF x
<1>5. Req(p) \in Requests \cup {None} /\ spoiled' \subseteq Requests
      /\ (Req(p) \in Requests => Req(p) \in spoiled')
  BY AllocationAssumption DEF Crashes, AInv, Typed, TypeOK, Proc, Req
<1>6. Typed'
  <2>1. Proc' = Proc
    BY <1>1, ProcFixed
  <2>. QED  BY <1>1, <1>4, <1>5, <2>1 DEF AInv, Typed, TypeOK, Held
<1>7. Owned' /\ Answers'
  <2>1. Owned'
    BY <1>1 DEF AInv, Owned
  <2>2. \A q \in Procs, r \in Requests : memo'[q][r] \subseteq memo[q][r]
    BY <1>4
  <2>3. Answers'
    BY <1>1, <2>2 DEF AInv, Answers
  <2>. QED  BY <2>1, <2>3
<1>8. Calls'
  <2>. SUFFICES ASSUME NEW q \in Procs
                PROVE  /\ proc'[q].pc = "idle" => proc'[q].req = None /\ proc'[q].ids = <<>>
                       /\ proc'[q].pc # "idle" => Working(proc'[q], asks, held) /\ memo'[q][proc'[q].req] = {}
    BY <1>1 DEF Calls
  <2>1. CASE q = p
    BY <1>2, <1>4, <2>1
  <2>2. CASE q # p
    BY <1>4, <2>2 DEF AInv, Calls
  <2>. QED  BY <2>1, <2>2
<1>9. Remembered'
  <2>1. \A k \in issued : k.by \in Procs /\ k.life \in Nat
    BY DEF AInv, Typed, TypeOK
  <2>2. ASSUME NEW k \in issued
        PROVE  k.life <= proc'[k.by].life
               /\ (k.life = proc'[k.by].life => memo'[k.by][k.req] = {k.ids})
    <3>1. CASE k.by = p
      BY <1>1, <1>2, <1>4, <2>1, <3>1 DEF AInv, Remembered
    <3>2. CASE k.by # p
      BY <1>4, <2>1, <3>2 DEF AInv, Remembered
    <3>. QED  BY <3>1, <3>2
  <2>3. \A q \in Procs, r \in Requests : \A a, b \in memo'[q][r] : a = b
    BY <1>4 DEF AInv, Remembered
  <2>. QED  BY <1>1, <2>2, <2>3 DEF Remembered
<1>10. NothingLeftOver'
  <2>1. \A h \in held : h.req \in Requests
    BY DEF AInv, Typed, TypeOK, Held
  <2>2. \A h \in held, q \in Procs : h.req \notin spoiled' /\ Req(q) = h.req => q # p
    BY <1>5, <2>1
  <2>. SUFFICES ASSUME NEW h \in held, h.req \notin spoiled'
                PROVE  \/ \E k \in issued : k.req = h.req /\ h.id \in k.ids
                       \/ \E q \in Procs : proc'[q].req = h.req
                             /\ \E n \in DOMAIN proc'[q].ids : proc'[q].ids[n] = h.id
    BY <1>1 DEF NothingLeftOver, Req
  <2>3. \/ \E k \in issued : k.req = h.req /\ h.id \in k.ids
        \/ \E q \in Procs : Req(q) = h.req /\ \E n \in DOMAIN proc[q].ids : proc[q].ids[n] = h.id
    BY <1>1 DEF AInv, NothingLeftOver
  <2>. QED  BY <1>4, <2>2, <2>3 DEF Req
<1>. QED  BY <1>6, <1>7, <1>8, <1>9, <1>10 DEF AInv

\* The intent is refused as a whole.
LEMMA LateRefusalKeeps ==
    ASSUME AInv, NEW p \in Procs, LateRefusal(p)
    PROVE  AInv'
<1>1. \A id : Grows(p, id)
  BY DEF LateRefusal, Grows
<1>2. proc[p].pc # "idle"
  BY DEF LateRefusal, AllClaimed
<1>. QED  BY <1>1, <1>2, RaisesKeeps DEF LateRefusal

-----------------------------------------------------------------------------
(* The invariant *)

\* Nothing is sent, held or answered.
LEMMA InitAInv == Init => AInv
<1>. SUFFICES ASSUME Init PROVE AInv
  OBVIOUS
<1>1. Idle(0) \in Proc /\ Idle(0).pc = "idle" /\ Idle(0).req = None /\ Idle(0).ids = <<>>
  BY IdleTyped
<1>2. /\ asks \in [Requests -> AskType] /\ proc \in [Procs -> Proc]
      /\ \A p \in Procs : proc[p] = Idle(0)
      /\ memo \in [Procs -> [Requests -> SUBSET SUBSET IdType]]
      /\ held = {} /\ issued = {}
  BY <1>1, AllocationAssumption DEF Init
<1>3. Typed
  <2>1. \A r \in Requests : MaxSends[r] \in Nat
    BY AllocationAssumption
  <2>. QED  BY <1>2, <2>1, AllocationAssumption DEF Init, Typed, TypeOK
<1>4. Calls
  BY <1>1, <1>2 DEF Calls
<1>5. Owned /\ NothingLeftOver
  BY <1>2 DEF Owned, NothingLeftOver
<1>6. Answers /\ Remembered
  BY <1>2 DEF Init, Answers, Remembered
<1>. QED  BY <1>3, <1>4, <1>5, <1>6 DEF AInv

\* One case for each action.
LEMMA NextAInv == AInv /\ [Next]_vars => AInv'
<1>. SUFFICES ASSUME AInv, [Next]_vars PROVE AInv'
  OBVIOUS
<1>1. CASE UNCHANGED vars
  <2>1. Proc' = Proc
    BY <1>1, ProcFixed DEF vars
  <2>2. Typed'
    BY <1>1, <2>1 DEF vars, AInv, Typed, TypeOK, Held
  <2>3. Owned' /\ Calls' /\ Answers'
    BY <1>1 DEF vars, AInv, Owned, Calls, Answers
  <2>4. Remembered' /\ NothingLeftOver'
    BY <1>1 DEF vars, AInv, Remembered, NothingLeftOver, Req
  <2>. QED  BY <2>2, <2>3, <2>4 DEF AInv
<1>2. ASSUME NEW r \in Requests, Sends(r)
      PROVE  AInv'
  BY <1>2, SendsKeeps
<1>3. ASSUME NEW r \in Requests, NEW p \in Procs, Remembers(p, r) \/ Takes(p, r)
      PROVE  AInv'
  BY <1>3, RemembersKeeps, TakesKeeps
<1>4. ASSUME NEW p \in Procs, Works(p)
      PROVE  AInv'
  BY <1>4, NumbersKeep, RoundsKeep, LeasesKeep, PrefixesKeep, LateRefusalKeeps, IssuesKeeps
     DEF Works, Leasing, Ending
<1>5. ASSUME NEW p \in Procs, Crashes(p)
      PROVE  AInv'
  BY <1>5, CrashesKeeps
<1>. QED  BY <1>1, <1>2, <1>3, <1>4, <1>5 DEF Next

\* AInv is an invariant.
LEMMA Invariance == Spec => []AInv
BY InitAInv, NextAInv, PTL DEF Spec

-----------------------------------------------------------------------------
(* The theorems *)

\* TypeOK, for any number of requests and processes.
THEOREM TypeCorrect == Spec => []TypeOK
<1>1. AInv => TypeOK
  BY DEF AInv, Typed
<1>. QED  BY <1>1, Invariance, PTL

\* SRv6Honoured (SC-008): no VXLAN identifier is ever taken for a request
\* that names SRv6, whatever else it says (mapper/agent.py:121-138,
\* allocator/agent.py:179-256).
THEOREM SRv6TakesPrefixes == Spec => []SRv6Honoured
<1>1. AInv => SRv6Honoured
  BY DEF AInv, Typed, Fits, SRv6Honoured
<1>. QED  BY <1>1, Invariance, PTL

\* IssuedIsHeld: what is answered is held, and a number of it is nobody
\* else's, with any number of processes racing for it (kuid.py:463-475).
THEOREM AnswersAreHeld == Spec => []IssuedIsHeld
<1>1. AInv => IssuedIsHeld
  <2>. SUFFICES ASSUME AInv, NEW i \in issued, NEW id \in i.ids
                PROVE  /\ \E h \in held : h.id = id /\ h.corr = CorrOf[i.req]
                       /\ id.what.kind # "client" =>
                             \A j \in issued : j.req # i.req => id \notin j.ids
    BY DEF IssuedIsHeld
  <2>1. Kept(id, i.req, asks, held)
    BY DEF AInv, Answers
  <2>2. ASSUME id.what.kind # "client", NEW j \in issued, id \in j.ids
        PROVE  j.req = i.req
    <3>1. Kept(id, j.req, asks, held)
      BY <2>2 DEF AInv, Answers
    <3>. QED  BY <2>1, <2>2, <3>1 DEF AInv, Owned, Kept
  <2>. QED  BY <2>1, <2>2 DEF Kept
<1>. QED  BY <1>1, Invariance, PTL

\* What a step answers is an answer of the process as it lives now.
LEMMA AnswersOfTheLiving ==
    ASSUME AInv, [Next]_vars
    PROVE  \A k \in issued' \ issued : k.life = proc'[k.by].life
<1>1. CASE UNCHANGED vars
  BY <1>1 DEF vars
<1>2. ASSUME NEW r \in Requests, Sends(r) \/ \E p \in Procs : Takes(p, r)
      PROVE  issued' = issued
  BY <1>2 DEF Sends, Takes
<1>3. ASSUME NEW r \in Requests, NEW p \in Procs, Remembers(p, r), NEW k \in issued' \ issued
      PROVE  k.life = proc'[k.by].life
  BY <1>3 DEF Remembers
<1>4. ASSUME NEW p \in Procs, Issues(p), NEW k \in issued' \ issued
      PROVE  k.life = proc'[k.by].life
  <2>1. k.by = p /\ k.life = proc[p].life
    BY <1>4 DEF Issues
  <2>2. proc'[p] = Idle(proc[p].life) /\ proc[p].life \in Nat
    BY <1>4 DEF Issues, AInv, Typed, TypeOK, Proc
  <2>. QED  BY <2>1, <2>2, IdleTyped
<1>5. ASSUME NEW p \in Procs, (Works(p) /\ ~Issues(p)) \/ Crashes(p)
      PROVE  issued' = issued
  BY <1>5 DEF Works, Numbers, ServedClaim, ServedExhausted, FallsBack, ToLeases, ClaimLost,
     Leasing, LeasesListed, LeaseCreated, LeaseExists, RoundOver, LeasesExhausted, LeaseLost,
     Prefixes, PrefixRead, PrefixCarved, PrefixRaced, PrefixLost,
     Ending, LateRefusal, CallRaises, Crashes
<1>. QED  BY <1>1, <1>2, <1>3, <1>4, <1>5 DEF Next, Works, Ending

\* RepeatIsIdentical (T226): a living process answers a repeated call with
\* what it answered before (allocator/agent.py:472-476).  What an earlier
\* life answered can no longer change: it is no longer in the memory.
THEOREM RepeatsAgree == Spec => []RepeatIsIdentical
<1>1. Init => RepeatIsIdentical
  BY DEF Init, RepeatIsIdentical
<1>2. AInv /\ AInv' /\ RepeatIsIdentical /\ [Next]_vars => RepeatIsIdentical'
  <2>. SUFFICES ASSUME AInv, AInv', RepeatIsIdentical, [Next]_vars,
                       NEW i \in issued', NEW j \in issued',
                       i.req = j.req, i.by = j.by, i.life = j.life
                PROVE  i.ids = j.ids
    BY DEF RepeatIsIdentical
  <2>1. CASE i \in issued /\ j \in issued
    BY <2>1 DEF RepeatIsIdentical
  <2>2. CASE i \notin issued \/ j \notin issued
    <3>1. i.life = proc'[i.by].life /\ j.life = proc'[j.by].life
      BY <2>2, AnswersOfTheLiving
    <3>2. memo'[i.by][i.req] = {i.ids} /\ memo'[j.by][j.req] = {j.ids}
      BY <3>1 DEF AInv, Remembered
    <3>. QED  BY <3>2
  <2>. QED  BY <2>1, <2>2
<1>. QED  BY <1>1, <1>2, Invariance, PTL DEF Spec

\* NothingLeftOver (SC-003): a request none of whose calls failed leaves
\* nothing behind that its answer does not use.
THEOREM NothingLeft == Spec => []NothingLeftOver
<1>1. AInv => NothingLeftOver
  BY DEF AInv
<1>. QED  BY <1>1, Invariance, PTL

-----------------------------------------------------------------------------
(* What is found wrong after the claims *)

\* A call works on what the mapper and the supervisor let through, and has
\* claimed, in their order, identifiers of its profile; no number is 0.
Gathers(x, A) ==
    x.pc # "idle" =>
        /\ Proposed(A[x.req])
        /\ \A n \in DOMAIN x.ids :
              x.ids[n].what = x.todo[n] /\ (x.ids[n].what.kind # "client" => x.ids[n].value >= 1)
        /\ x.pc = "create" => x.from >= 1

LateInv ==
    /\ \A r \in Requests : inbox[r] > 0 => Proposed(asks[r])
    /\ \A p \in Procs : Gathers(proc[p], asks)

\* The kinds of the claims of a profile.
KindsOf(todo) == {todo[n].kind : n \in DOMAIN todo}

\* Those of short profiles.
LEMMA KindsOfShort ==
    /\ KindsOf(<<>>) = {}
    /\ \A k : KindsOf(<<Id(k)>>) = {k}
    /\ \A j, k : KindsOf(<<Id(j), Id(k)>>) = {j, k}
<1>1. KindsOf(<<>>) = {}
  BY DEF KindsOf
<1>2. ASSUME NEW k
      PROVE  KindsOf(<<Id(k)>>) = {k}
  BY DEF KindsOf, Id
<1>3. ASSUME NEW j, NEW k
      PROVE  KindsOf(<<Id(j), Id(k)>>) = {j, k}
  <2>1. DOMAIN <<Id(j), Id(k)>> = {1, 2}
    OBVIOUS
  <2>. QED  BY <2>1 DEF KindsOf, Id
<1>. QED  BY <1>1, <1>2, <1>3

\* Those of one profile after another.
LEMMA KindsOfBoth ==
    ASSUME NEW S, NEW s \in Seq(S), NEW t \in Seq(S)
    PROVE  KindsOf(s \o t) = KindsOf(s) \cup KindsOf(t)
<1>1. /\ DOMAIN (s \o t) = 1..(Len(s) + Len(t)) /\ DOMAIN s = 1..Len(s) /\ DOMAIN t = 1..Len(t)
      /\ Len(s) \in Nat /\ Len(t) \in Nat
      /\ \A n \in 1..(Len(s) + Len(t)) :
            (s \o t)[n] = IF n <= Len(s) THEN s[n] ELSE t[n - Len(s)]
  BY ConcatProperties, LenProperties
<1>2. ASSUME NEW n \in DOMAIN s
      PROVE  n \in DOMAIN (s \o t) /\ (s \o t)[n] = s[n]
  BY <1>1
<1>3. ASSUME NEW n \in DOMAIN t
      PROVE  n + Len(s) \in DOMAIN (s \o t) /\ (s \o t)[n + Len(s)] = t[n]
  BY <1>1
<1>4. ASSUME NEW n \in DOMAIN (s \o t)
      PROVE  \/ n \in DOMAIN s /\ (s \o t)[n] = s[n]
             \/ n - Len(s) \in DOMAIN t /\ (s \o t)[n] = t[n - Len(s)]
  BY <1>1
<1>5. KindsOf(s) \cup KindsOf(t) \subseteq KindsOf(s \o t)
  BY <1>2, <1>3 DEF KindsOf
<1>6. KindsOf(s \o t) \subseteq KindsOf(s) \cup KindsOf(t)
  BY <1>4 DEF KindsOf
<1>. QED  BY <1>5, <1>6

\* The kinds that an interpretation calls for.
LEMMA ProfileKinds ==
    ASSUME NEW a \in AskType
    PROVE  LET i == Interpretation(a)
               K == KindsOf(Profile(i))
               vlan == IF NamedTags(i) = {} THEN {"vlan"} ELSE {}
           IN /\ NamesSRv6(a) => K \subseteq {"client"}
              /\ ~NamesSRv6(a) /\ i.type = "ip-vrf" => K = {"l3vni", "rt"}
              /\ ~NamesSRv6(a) /\ i.type = "mac-vrf" =>
                    K = vlan \cup {"l2vni", "rt"} \cup (IF i.gateway THEN {"l3vni"} ELSE {})
              /\ ~NamesSRv6(a) /\ i.type = "vlan" => K = vlan
              /\ ~NamesSRv6(a) /\ i.type \notin {"ip-vrf", "mac-vrf", "vlan"} => K = {}
<1>. DEFINE i == Interpretation(a)
            v == IF NamedTags(i) = {} THEN <<Id("vlan")>> ELSE <<>>
            g == IF i.gateway THEN <<Id("l3vni")>> ELSE <<>>
            W == {Id("vlan"), Id("l2vni"), Id("rt"), Id("l3vni")}
<1>1. i.srv6 = NamesSRv6(a)
  BY DEF Interpretation
<1>2. KindsOf(v) = IF NamedTags(i) = {} THEN {"vlan"} ELSE {}
  BY KindsOfShort
<1>3. KindsOf(g) = IF i.gateway THEN {"l3vni"} ELSE {}
  BY KindsOfShort
<1>4. KindsOf(<<Id("l2vni"), Id("rt")>>) = {"l2vni", "rt"} /\ KindsOf(<<Id("l3vni"), Id("rt")>>) = {"l3vni", "rt"}
  BY KindsOfShort
<1>5. CASE NamesSRv6(a)
  <2>1. CASE i.type = "ip-vrf"
    <3>1. Profile(i) = [n \in DOMAIN i.endpoints |-> Client(Ordered(i.endpoints)[n])]
      BY <1>1, <1>5, <2>1 DEF Profile
    <3>2. \A n \in DOMAIN i.endpoints : Client(Ordered(i.endpoints)[n]).kind = "client"
      BY DEF Client
    <3>3. KindsOf(Profile(i)) \subseteq {"client"}
      BY <3>1, <3>2 DEF KindsOf
    <3>. QED  BY <1>5, <3>3
  <2>2. CASE i.type # "ip-vrf"
    <3>1. Profile(i) = <<>>
      BY <1>1, <1>5, <2>2 DEF Profile
    <3>. QED  BY <1>5, <3>1, KindsOfShort
  <2>. QED  BY <2>1, <2>2
<1>6. CASE ~NamesSRv6(a)
  <2>1. /\ i.type = "ip-vrf" => Profile(i) = <<Id("l3vni"), Id("rt")>>
        /\ i.type = "mac-vrf" => Profile(i) = v \o <<Id("l2vni"), Id("rt")>> \o g
        /\ i.type = "vlan" => Profile(i) = v
        /\ i.type \notin {"ip-vrf", "mac-vrf", "vlan"} => Profile(i) = <<>>
    BY <1>1, <1>6 DEF Profile
  <2>. DEFINE m == <<Id("l2vni"), Id("rt")>>
  <2>2. v \in Seq(W) /\ m \in Seq(W) /\ g \in Seq(W)
    <3>. DEFINE x == Id("vlan")  y == Id("l2vni")  z == Id("rt")  u == Id("l3vni")
    <3>. HIDE DEF x, y, z, u
    <3>1. <<x>> \in Seq({x, y, z, u}) /\ <<y, z>> \in Seq({x, y, z, u}) /\ <<u>> \in Seq({x, y, z, u})
          /\ <<>> \in Seq({x, y, z, u})
      OBVIOUS
    <3>. QED  BY <3>1 DEF x, y, z, u
  <2>3. KindsOf(m) = {"l2vni", "rt"}
    BY <1>4
  <2>. HIDE DEF v, g, m, W, i
  <2>4. v \o m \in Seq(W)
    BY <2>2, ConcatProperties
  <2>5. KindsOf(v \o m) = KindsOf(v) \cup KindsOf(m)
    BY <2>2, KindsOfBoth
  <2>6. KindsOf((v \o m) \o g) = KindsOf(v \o m) \cup KindsOf(g)
    BY <2>2, <2>4, KindsOfBoth
  <2>. QED  BY <1>2, <1>3, <1>4, <1>6, <2>1, <2>3, <2>5, <2>6, KindsOfShort DEF i, m
<1>. QED  BY <1>5, <1>6

\* A call that has claimed its profile: a value for each kind of it, none
\* for the others.
LEMMA ValueOf ==
    ASSUME NEW todo \in Seq(What), NEW ids \in Seq(IdType), Len(ids) = Len(todo),
           \A n \in DOMAIN ids :
              ids[n].what = todo[n] /\ (ids[n].what.kind # "client" => ids[n].value >= 1),
           NEW k \in Kinds
    PROVE  LET V == Value({ids[n] : n \in DOMAIN ids}, k)
           IN IF k \in KindsOf(todo) THEN V # 0 ELSE V = 0
<1>. DEFINE S == {ids[n] : n \in DOMAIN ids}
<1>1. DOMAIN ids = DOMAIN todo
  BY LenProperties
<1>2. k # "client"
  BY DEF Kinds
<1>3. CASE k \in KindsOf(todo)
  <2>1. \E id \in S : id.what.kind = k
    BY <1>1, <1>3 DEF KindsOf
  <2>2. PICK id \in S : id = CHOOSE j \in S : j.what.kind = k
    BY <2>1
  <2>3. id.what.kind = k
    BY <2>1, <2>2
  <2>4. id \in IdType
    BY ElementOfSeq
  <2>5. id.value # 0
    <3>1. id.value \in Nat /\ id.value >= 1
      BY <1>2, <2>3, <2>4 DEF IdType
    <3>. QED  BY <3>1
  <2>. QED  BY <1>3, <2>1, <2>2, <2>5 DEF Value
<1>4. CASE k \notin KindsOf(todo)
  <2>1. ~ \E id \in S : id.what.kind = k
    BY <1>1, <1>4 DEF KindsOf
  <2>. QED  BY <1>4, <2>1 DEF Value
<1>. QED  BY <1>3, <1>4

\* What is put before the operator names a construct with the endpoints it
\* needs; with SRv6 they are on two nodes.
LEMMA ProposedAsks ==
    ASSUME NEW a \in AskType, Proposed(a)
    PROVE  /\ Len(a.clauses) >= 1
           /\ NamesSRv6(a) => /\ Construct(a) \in {"ip-vrf", "mac-vrf"}
                              /\ Len(a.clauses) = 2 /\ a.clauses[1].node # a.clauses[2].node
           /\ ~NamesSRv6(a) => /\ Construct(a) \in {"ip-vrf", "mac-vrf", "acl", "vlan"}
                               /\ Construct(a) = "mac-vrf" => Len(a.clauses) = 2
<1>. DEFINE k == Len(a.clauses)
<1>1. Unsupported(a) = {} /\ Missing(a) = {}
  BY DEF Proposed, Verdict
<1>2. a.clauses \in Seq(Clauses) /\ Len(a.clauses) <= 2 /\ Len(a.clauses) \in Nat
      /\ DOMAIN a.clauses = 1..Len(a.clauses)
  BY LenProperties DEF AskType
<1>3. k \in Nat /\ k <= 2
  BY <1>2
<1>. HIDE DEF k
<1>4. CASE NamesSRv6(a)
  <2>1. ~a.vxlan /\ SRv6Construct(a) # "refused"
    BY <1>1, <1>4 DEF Unsupported, When
  <2>2. SRv6Construct(a) # "none" /\ ~(k < 2 \/ OneNode(a.clauses))
    BY <1>1, <1>4 DEF Missing, SRv6Missing, When, k
  <2>3. SRv6Construct(a) \in {"refused", "none", "ip-vrf", "mac-vrf"}
    BY DEF SRv6Construct
  <2>4. Construct(a) \in {"ip-vrf", "mac-vrf"}
    BY <1>4, <2>1, <2>2, <2>3 DEF Construct
  <2>5. k = 2 /\ a.clauses[1].node # a.clauses[2].node
    <3>1. k = 2
      BY <1>3, <2>2
    <3>2. DOMAIN a.clauses = {1, 2}
      BY <1>2, <3>1 DEF k
    <3>. QED  BY <2>2, <3>1, <3>2 DEF OneNode
  <2>. QED  BY <1>2, <1>4, <2>4, <2>5 DEF k
<1>5. CASE ~NamesSRv6(a)
  <2>1. ServiceType(a) # "none"
    BY <1>1, <1>5 DEF Unsupported, When
  <2>2. ServiceType(a) \in {"none", "ip-vrf", "mac-vrf", "acl", "vlan"}
    BY DEF ServiceType
  <2>3. Construct(a) \in {"ip-vrf", "mac-vrf", "acl", "vlan"}
    BY <1>5, <2>1, <2>2 DEF Construct
  <2>4. ~(k < (IF Construct(a) = "mac-vrf" THEN 2 ELSE 1))
    BY <1>1, <1>5 DEF Missing, OtherMissing, When, k
  <2>5. k >= 1 /\ (Construct(a) = "mac-vrf" => k = 2)
    BY <1>3, <2>4
  <2>. QED  BY <1>5, <2>3, <2>5 DEF k
<1>. QED  BY <1>4, <1>5

\* The vlan of the one bridge domain of i.
Bridge(i, S) == IF NamedTags(i) # {} THEN CHOOSE v \in NamedTags(i) : TRUE ELSE Value(S, "vlan")

\* The intent of what was put before the operator: its fields.
LEMMA NormalizedIs ==
    ASSUME NEW a \in AskType, Proposed(a), NEW S
    PROVE  LET i == Interpretation(a)
               n == Normalized(i, S)
           IN /\ n.type = Construct(a) /\ n.srv6 = NamesSRv6(a) /\ n.gateway = i.gateway
              /\ n.l2vni = Value(S, "l2vni") /\ n.l3vni = Value(S, "l3vni") /\ n.rdRt = Value(S, "rt")
              /\ n.prefix = (Construct(a) = "ip-vrf")
              /\ Construct(a) = "mac-vrf" => n.signalling = "evpn"
              /\ i.gateway => Construct(a) = "mac-vrf"
              /\ DOMAIN n.endpoints = 1..Len(a.clauses) /\ Len(n.endpoints) = Len(a.clauses)
              /\ Construct(a) \in {"vlan", "mac-vrf"} =>
                    \A e \in DOMAIN n.endpoints : n.endpoints[e].tag = Bridge(i, S)
              /\ IF NamedTags(i) = {} THEN Bridge(i, S) = Value(S, "vlan") ELSE Bridge(i, S) # 0
              /\ NamesSRv6(a) => n.endpoints[1].node # n.endpoints[2].node
<1>. DEFINE i == Interpretation(a)
            n == Normalized(i, S)
            b == Bridge(i, S)
            eps == Endpoints(a)
            node == [e \in DOMAIN eps |-> Ordered(eps)[e].node]
<1>1. /\ i.type = Construct(a) /\ i.srv6 = NamesSRv6(a) /\ i.endpoints = eps
      /\ Construct(a) = "mac-vrf" => i.signalling = "evpn"
      /\ i.gateway => Construct(a) = "mac-vrf"
  BY DEF Interpretation
<1>2. a.clauses \in Seq(Clauses) /\ DOMAIN eps = 1..Len(a.clauses) /\ Len(a.clauses) \in Nat
  BY LenProperties DEF AskType, Endpoints
<1>. HIDE DEF i, eps
<1>3. /\ n.type = i.type /\ n.srv6 = i.srv6 /\ n.gateway = i.gateway
      /\ n.l2vni = Value(S, "l2vni") /\ n.l3vni = Value(S, "l3vni") /\ n.rdRt = Value(S, "rt")
      /\ n.prefix = (i.type = "ip-vrf") /\ n.signalling = i.signalling
      /\ n.endpoints = [e \in DOMAIN eps |->
            [node |-> Ordered(eps)[e].node, tag |-> IF i.type \in {"vlan", "mac-vrf"} THEN b ELSE 0]]
  BY <1>1 DEF Normalized, Bridge
<1>. HIDE DEF n
<1>4. DOMAIN n.endpoints = 1..Len(a.clauses) /\ Len(n.endpoints) = Len(a.clauses)
  BY <1>2, <1>3
<1>5. IF NamedTags(i) = {} THEN b = Value(S, "vlan") ELSE b # 0
  <2>1. NamedTags(i) # {} => b \in NamedTags(i)
    BY DEF Bridge
  <2>2. NamedTags(i) = {} => b = Value(S, "vlan")
    BY DEF Bridge
  <2>3. 0 \notin NamedTags(i)
    BY DEF NamedTags
  <2>. QED  BY <2>1, <2>2, <2>3
<1>6. ASSUME NamesSRv6(a)
      PROVE  n.endpoints[1].node # n.endpoints[2].node
  <2>1. Len(a.clauses) = 2 /\ a.clauses[1].node # a.clauses[2].node
    BY <1>6, ProposedAsks
  <2>2. DOMAIN a.clauses = {1, 2} /\ DOMAIN eps = {1, 2} /\ a.clauses[1] \in Clauses /\ a.clauses[2] \in Clauses
    BY <1>2, <2>1, LenProperties, ElementOfSeq
  <2>3. eps[1].node # eps[2].node
    BY <2>1, <2>2 DEF eps, Endpoints, Clauses
  <2>4. Ordered(eps)[1].node # Ordered(eps)[2].node
    BY <2>3 DEF Ordered
  <2>. QED  BY <1>3, <2>2, <2>4
<1>. QED  BY <1>1, <1>3, <1>4, <1>5, <1>6 DEF i, n

\* What it can be refused for when its profile is claimed.
LEMMA CausesKnown ==
    ASSUME NEW a \in AskType, Proposed(a), NEW ids \in Seq(IdType),
           Len(ids) = Len(Profile(Interpretation(a))),
           \A n \in DOMAIN ids :
              /\ ids[n].what = Profile(Interpretation(a))[n]
              /\ ids[n].what.kind # "client" => ids[n].value >= 1,
           NEW last
    PROVE  Causes(Normalized(Interpretation(a), {ids[n] : n \in DOMAIN ids}), last)
              \subseteq {"vlan reserved", "rules", "l3vni", "V7"}
<1>. DEFINE i == Interpretation(a)
            S == {ids[n] : n \in DOMAIN ids}
            K == KindsOf(Profile(i))
            n == Normalized(i, S)
            tags == {n.endpoints[e].tag : e \in DOMAIN n.endpoints}
            Late == {"vlan reserved", "rules", "l3vni", "V7"}
<1>1. Profile(i) \in Seq(What)
  BY ProfileFits, SeqMonotonic DEF Fits
<1>2. \A k \in Kinds : IF k \in K THEN Value(S, k) # 0 ELSE Value(S, k) = 0
  BY <1>1, ValueOf
<1>3. i.type = Construct(a)
  BY DEF Interpretation
<1>. HIDE DEF i, S, n, K
<1>4. /\ NamesSRv6(a) => K \subseteq {"client"}
      /\ ~NamesSRv6(a) /\ i.type = "ip-vrf" => K = {"l3vni", "rt"}
      /\ ~NamesSRv6(a) /\ i.type = "mac-vrf" =>
            K = (IF NamedTags(i) = {} THEN {"vlan"} ELSE {}) \cup {"l2vni", "rt"}
                   \cup (IF i.gateway THEN {"l3vni"} ELSE {})
      /\ ~NamesSRv6(a) /\ i.type = "vlan" => K = IF NamedTags(i) = {} THEN {"vlan"} ELSE {}
      /\ ~NamesSRv6(a) /\ i.type \notin {"ip-vrf", "mac-vrf", "vlan"} => K = {}
  BY ProfileKinds DEF i, K
<1>5. /\ n.type = Construct(a) /\ n.srv6 = NamesSRv6(a) /\ n.gateway = i.gateway
      /\ n.l2vni = Value(S, "l2vni") /\ n.l3vni = Value(S, "l3vni") /\ n.rdRt = Value(S, "rt")
      /\ n.prefix = (Construct(a) = "ip-vrf")
      /\ Construct(a) = "mac-vrf" => n.signalling = "evpn"
      /\ i.gateway => Construct(a) = "mac-vrf"
      /\ DOMAIN n.endpoints = 1..Len(a.clauses) /\ Len(n.endpoints) = Len(a.clauses)
      /\ NamesSRv6(a) => n.endpoints[1].node # n.endpoints[2].node
  BY NormalizedIs DEF i, n
<1>6. /\ Construct(a) \in {"vlan", "mac-vrf"} =>
            \A e \in DOMAIN n.endpoints : n.endpoints[e].tag = Bridge(i, S)
      /\ IF NamedTags(i) = {} THEN Bridge(i, S) = Value(S, "vlan") ELSE Bridge(i, S) # 0
  BY NormalizedIs DEF i, n
<1>7. {"vlan", "l2vni", "l3vni", "rt"} = Kinds
  BY DEF Kinds
<1>8. Len(a.clauses) >= 1 /\ Len(a.clauses) \in Nat
  BY ProposedAsks, LenProperties DEF AskType
<1>9. When(Len(n.endpoints) = 0, "endpoints") = {}
  BY <1>5, <1>8 DEF When
<1>10. CASE NamesSRv6(a)
  <2>1. /\ Construct(a) \in {"ip-vrf", "mac-vrf"} /\ Len(a.clauses) = 2
    BY <1>10, ProposedAsks
  <2>2. n.l2vni = 0 /\ n.l3vni = 0 /\ n.rdRt = 0
    BY <1>2, <1>4, <1>5, <1>7, <1>10
  <2>3. SRv6Causes(n) \subseteq Late
    BY <1>5, <1>10, <2>1, <2>2 DEF SRv6Causes, When
  <2>4. IpVrfCauses(n, last) = {} /\ MacVrfCauses(n, last) = {}
    BY <1>5, <1>10 DEF IpVrfCauses, MacVrfCauses
  <2>. QED  BY <1>5, <1>9, <1>10, <2>1, <2>3, <2>4 DEF Causes, i, n, S
<1>11. CASE ~NamesSRv6(a)
  <2>1. Construct(a) \in {"ip-vrf", "mac-vrf", "acl", "vlan"}
        /\ (Construct(a) = "mac-vrf" => Len(a.clauses) = 2)
    BY <1>11, ProposedAsks
  <2>2. Causes(n, last) = CASE n.type = "vlan" -> VlanCauses(n)
                            [] n.type = "mac-vrf" -> MacVrfCauses(n, last)
                            [] n.type = "ip-vrf" -> IpVrfCauses(n, last)
                            [] OTHER -> AclCauses(n)
    BY <1>5, <1>9, <1>11 DEF Causes
  <2>3. ASSUME Construct(a) \in {"vlan", "mac-vrf"}
        PROVE  BridgeCauses(n) \subseteq Late
    <3>. DEFINE b == Bridge(i, S)
    <3>1. b # 0
      BY <1>2, <1>3, <1>4, <1>6, <1>7, <1>11, <2>3
    <3>2. tags \subseteq {b}
      BY <1>6, <2>3
    <3>3. Cardinality({b}) = 1 /\ IsFiniteSet({b})
      BY FS_Singleton
    <3>4. Cardinality(tags) <= 1 /\ Cardinality(tags) \in Nat
      BY <3>2, <3>3, FS_Subset, FS_CardinalityType
    <3>5. 0 \notin tags
      BY <3>1, <3>2
    <3>6. ~(Cardinality(tags) > 1)
      BY <3>4
    <3>. DEFINE P == \E v \in tags : v > 4000
    <3>7. BridgeCauses(n) = When(0 \in tags, "vlan missing") \cup When(Cardinality(tags) > 1, "two vlans")
                               \cup When(P, "vlan reserved")
      BY DEF BridgeCauses
    <3>. HIDE DEF tags, P
    <3>8. When(0 \in tags, "vlan missing") = {} /\ When(Cardinality(tags) > 1, "two vlans") = {}
      BY <3>5, <3>6 DEF When
    <3>9. When(P, "vlan reserved") \subseteq Late
      BY DEF When
    <3>. QED  BY <3>7, <3>8, <3>9
  <2>4. CASE Construct(a) = "vlan"
    <3>1. n.l2vni = 0 /\ n.l3vni = 0 /\ n.rdRt = 0 /\ ~n.gateway
      BY <1>2, <1>3, <1>4, <1>5, <1>7, <1>11, <2>4
    <3>2. VlanCauses(n) \subseteq Late
      BY <2>3, <2>4, <3>1 DEF VlanCauses, When
    <3>. QED  BY <1>5, <2>2, <2>4, <3>2 DEF i, n, S
  <2>5. CASE Construct(a) = "mac-vrf"
    <3>1. n.l2vni # 0 /\ n.rdRt # 0 /\ (~n.gateway => n.l3vni = 0)
      BY <1>2, <1>3, <1>4, <1>5, <1>7, <1>11, <2>5
    <3>2. ~(Len(n.endpoints) < (IF n.gateway THEN 1 ELSE 2))
      <4>1. Len(n.endpoints) = 2
        BY <1>5, <2>1, <2>5
      <4>. QED  BY <4>1
    <3>3. MacVrfCauses(n, last) \subseteq Late
      BY <1>5, <1>11, <2>3, <2>5, <3>1, <3>2 DEF MacVrfCauses, When
    <3>. QED  BY <1>5, <2>2, <2>5, <3>3 DEF i, n, S
  <2>6. CASE Construct(a) = "ip-vrf"
    <3>1. n.l3vni # 0 /\ n.rdRt # 0 /\ n.l2vni = 0 /\ ~n.gateway /\ n.prefix
      BY <1>2, <1>3, <1>4, <1>5, <1>7, <1>11, <2>6
    <3>2. IpVrfCauses(n, last) \subseteq Late
      BY <1>5, <1>11, <3>1 DEF IpVrfCauses, When
    <3>. QED  BY <1>5, <2>2, <2>6, <3>2 DEF i, n, S
  <2>7. CASE Construct(a) = "acl"
    <3>1. n.l2vni = 0 /\ n.l3vni = 0 /\ n.rdRt = 0 /\ ~n.gateway
      BY <1>2, <1>3, <1>4, <1>5, <1>7, <1>11, <2>7
    <3>2. AclCauses(n) \subseteq Late
      BY <3>1 DEF AclCauses, When
    <3>. QED  BY <1>5, <2>2, <2>7, <3>2 DEF i, n, S
  <2>. QED  BY <2>1, <2>4, <2>5, <2>6, <2>7
<1>. QED  BY <1>10, <1>11

\* A process without a call, or a call that has only turned to another
\* phase, gathers nothing.
LEMMA GathersStays ==
    ASSUME NEW x, NEW y, NEW A, Gathers(x, A),
           y.pc # "idle" => /\ x.pc # "idle" /\ y.req = x.req /\ y.ids = x.ids /\ y.todo = x.todo
                            /\ y.pc = "create" => y.from >= 1
    PROVE  Gathers(y, A)
BY DEF Gathers

\* One process moves.
LEMMA OneGathers ==
    ASSUME AInv, LateInv, NEW p \in Procs, NEW x, proc' = [proc EXCEPT ![p] = x], Gathers(x, asks),
           UNCHANGED asks, \A r \in Requests : inbox'[r] > 0 => inbox[r] > 0
    PROVE  LateInv'
<1>1. proc'[p] = x /\ \A q \in Procs \ {p} : proc'[q] = proc[q]
  BY DEF AInv, Typed, TypeOK
<1>2. ASSUME NEW q \in Procs
      PROVE  Gathers(proc'[q], asks)
  <2>1. CASE q = p
    BY <1>1, <2>1
  <2>2. CASE q # p
    <3>1. proc'[q] = proc[q] /\ Gathers(proc[q], asks)
      BY <1>1, <2>2 DEF LateInv
    <3>. QED  BY <3>1
  <2>. QED  BY <2>1, <2>2
<1>3. \A r \in Requests : inbox'[r] > 0 => Proposed(asks[r])
  BY DEF LateInv
<1>. HIDE DEF Gathers, Proposed
<1>. QED  BY <1>2, <1>3 DEF LateInv

\* The call raises.
LEMMA RaisesGathers ==
    ASSUME AInv, LateInv, NEW p \in Procs, CallRaises(p)
    PROVE  LateInv'
<1>. DEFINE x == Idle(proc[p].life)
<1>1. x.pc = "idle" /\ proc' = [proc EXCEPT ![p] = x] /\ UNCHANGED <<asks, inbox>>
  BY DEF CallRaises, Idle
<1>. HIDE DEF x
<1>2. Gathers(x, asks)
  BY <1>1 DEF Gathers
<1>. QED  BY <1>1, <1>2, OneGathers

\* The call gains an identifier of the kind it wants.
LEMMA GainsGathers ==
    ASSUME AInv, LateInv, NEW p \in Procs, Claiming(p) \/ proc[p].pc \in {"create", "carve"},
           NEW id \in IdType, id.what = Want(p), id.what.kind # "client" => id.value >= 1,
           Gains(p, id), UNCHANGED <<asks, inbox>>
    PROVE  LateInv'
<1>. DEFINE ids == proc[p].ids
            x == [proc[p] EXCEPT !.pc = "claim", !.ids = Append(@, id)]
<1>1. proc[p] \in Proc /\ ids \in Seq(IdType) /\ proc[p].pc # "idle"
  BY Wanting, AtWork DEF Proc
<1>2. /\ DOMAIN Append(ids, id) = 1..(Len(ids) + 1) /\ DOMAIN ids = 1..Len(ids)
      /\ Len(ids) \in Nat /\ Append(ids, id)[Len(ids) + 1] = id
      /\ \A n \in DOMAIN ids : Append(ids, id)[n] = ids[n]
  BY <1>1, Appended
<1>3. /\ x.pc = "claim" /\ x.req = proc[p].req /\ x.todo = proc[p].todo /\ x.ids = Append(ids, id)
  BY <1>1 DEF Proc
<1>4. proc' = [proc EXCEPT ![p] = x]
  BY <1>1 DEF Gains, AInv, Typed, TypeOK, Proc
<1>. HIDE DEF x
<1>5. /\ Proposed(asks[x.req])
      /\ \A n \in DOMAIN ids :
            ids[n].what = x.todo[n] /\ (ids[n].what.kind # "client" => ids[n].value >= 1)
  BY <1>1, <1>3 DEF LateInv, Gathers
<1>6. ASSUME NEW n \in DOMAIN x.ids
      PROVE  x.ids[n].what = x.todo[n] /\ (x.ids[n].what.kind # "client" => x.ids[n].value >= 1)
  <2>1. CASE n = Len(ids) + 1
    BY <1>2, <1>3, <2>1 DEF Want
  <2>2. CASE n # Len(ids) + 1
    <3>1. n \in DOMAIN ids /\ x.ids[n] = ids[n]
      BY <1>2, <1>3, <2>2
    <3>. QED  BY <1>5, <3>1
  <2>. QED  BY <2>1, <2>2
<1>7. Gathers(x, asks)
  BY <1>3, <1>5, <1>6 DEF Gathers
<1>. QED  BY <1>4, <1>7, OneGathers

\* The claims of numbers.
LEMMA NumbersGather ==
    ASSUME AInv, LateInv, NEW p \in Procs, Numbers(p)
    PROVE  LateInv'
<1>1. /\ Claiming(p) /\ Want(p).kind # "client" /\ proc[p].pc # "idle" /\ Want(p) \in What
      /\ proc[p] \in Proc
  BY Wanting, AtWork DEF Numbers, ServedClaim, ServedExhausted, ApiError, FallsBack, ToLeases, ClaimLost
<1>2. CASE ServedClaim(p)
  <2>. PICK v \in FreeServed(p) : Gains(p, ServedId(p, v))
    BY <1>2 DEF ServedClaim
  <2>1. ServedId(p, v) \in IdType /\ ServedId(p, v).what = Want(p)
    BY <1>1, ServedFresh
  <2>2. ServedId(p, v).value >= 1
    <3>1. Served[Index(Want(p).kind)] \in Nat
      BY <1>1, AllocationAssumption DEF What, Kinds, Index
    <3>. QED  BY <3>1 DEF FreeServed, ServedId
  <2>3. UNCHANGED <<asks, inbox>>
    BY <1>2 DEF ServedClaim
  <2>. QED  BY <1>1, <2>1, <2>2, <2>3, GainsGathers
<1>3. CASE ServedExhausted(p) \/ (FallsBack(p) /\ ~LeaseFallback) \/ ClaimLost(p)
  BY <1>3, RaisesGathers DEF ServedExhausted, FallsBack, ClaimLost
<1>4. CASE FallsBack(p) /\ LeaseFallback
  <2>. DEFINE x == [proc[p] EXCEPT !.pc = "list", !.round = 0]
  <2>1. proc' = [proc EXCEPT ![p] = x] /\ UNCHANGED <<asks, inbox>>
    BY <1>1, <1>4 DEF FallsBack, ToLeases, AInv, Typed, TypeOK, Proc
  <2>2. x.pc = "list" /\ x.req = proc[p].req /\ x.todo = proc[p].todo /\ x.ids = proc[p].ids
    BY <1>1 DEF Proc
  <2>. HIDE DEF x
  <2>3. Gathers(proc[p], asks)
    BY DEF LateInv
  <2>4. Gathers(x, asks)
    BY <1>1, <2>2, <2>3, GathersStays
  <2>. QED  BY <2>1, <2>4, OneGathers
<1>. QED  BY <1>1, <1>2, <1>3, <1>4 DEF Numbers

\* The Leases.
LEMMA LeasingGathers ==
    ASSUME AInv, LateInv, NEW p \in Procs, Leasing(p)
    PROVE  LateInv'
<1>1. /\ proc[p].pc \in {"list", "create"} /\ proc[p].pc # "idle" /\ Want(p) \in What
      /\ Want(p).kind # "client" /\ proc[p] \in Proc /\ proc = [q \in Procs |-> proc[q]]
  <2>1. proc[p].pc \in {"list", "create"}
    BY DEF Leasing, LeasesListed, LeaseCreated, LeaseExists, RoundOver, LeasesExhausted, LeaseLost
  <2>. QED  BY <2>1, Wanting, AtWork DEF AInv, Typed, TypeOK
<1>2. Gathers(proc[p], asks)
  BY DEF LateInv
<1>3. Last[Want(p).kind] \in Nat
  BY <1>1, AllocationAssumption DEF What, Kinds
<1>4. ASSUME NEW v \in Unused(p), proc[p].pc = "create"
      PROVE  v \in Nat /\ v >= 1
  <2>1. proc[p].from \in Nat /\ proc[p].from >= 1
    BY <1>1, <1>2, <1>4 DEF Gathers, Proc
  <2>. QED  BY <1>3, <2>1 DEF Unused
<1>5. CASE LeasesListed(p)
  <2>. DEFINE used == {id.value : id \in Leases(Index(Want(p).kind))}
              x == [proc[p] EXCEPT !.pc = "create", !.round = @ + 1, !.from = 1, !.used = used]
  <2>1. proc' = [proc EXCEPT ![p] = x] /\ UNCHANGED <<asks, inbox>>
    BY <1>1, <1>5 DEF LeasesListed, Proc
  <2>2. x.pc = "create" /\ x.req = proc[p].req /\ x.todo = proc[p].todo /\ x.ids = proc[p].ids /\ x.from = 1
    BY <1>1 DEF Proc
  <2>. HIDE DEF x
  <2>3. Gathers(x, asks)
    BY <1>1, <1>2, <2>2, GathersStays
  <2>. QED  BY <2>1, <2>3, OneGathers
<1>6. CASE RoundOver(p)
  <2>. DEFINE x == [proc[p] EXCEPT !.pc = "list"]
  <2>1. proc' = [proc EXCEPT ![p] = x] /\ UNCHANGED <<asks, inbox>>
    BY <1>1, <1>6 DEF RoundOver, Proc
  <2>2. x.pc = "list" /\ x.req = proc[p].req /\ x.todo = proc[p].todo /\ x.ids = proc[p].ids
    BY <1>1 DEF Proc
  <2>. HIDE DEF x
  <2>3. Gathers(x, asks)
    BY <1>1, <1>2, <2>2, GathersStays
  <2>. QED  BY <2>1, <2>3, OneGathers
<1>7. CASE LeaseExists(p)
  <2>. PICK v \in Unused(p) : proc' = [proc EXCEPT ![p].used = @ \cup {v}, ![p].from = v + 1]
    BY <1>7 DEF LeaseExists
  <2>. DEFINE x == [proc[p] EXCEPT !.used = @ \cup {v}, !.from = v + 1]
  <2>1. proc' = [proc EXCEPT ![p] = x] /\ UNCHANGED <<asks, inbox>>
    BY <1>1, <1>7 DEF LeaseExists, Proc
  <2>2. x.pc = proc[p].pc /\ x.req = proc[p].req /\ x.todo = proc[p].todo /\ x.ids = proc[p].ids /\ x.from = v + 1
    BY <1>1 DEF Proc
  <2>. HIDE DEF x
  <2>3. v + 1 >= 1
    BY <1>4, <1>7 DEF LeaseExists
  <2>4. Gathers(x, asks)
    BY <1>1, <1>2, <2>2, <2>3, GathersStays
  <2>. QED  BY <2>1, <2>4, OneGathers
<1>8. CASE LeaseCreated(p)
  <2>. PICK v \in Unused(p) : Gains(p, LeaseId(p, v))
    BY <1>8 DEF LeaseCreated
  <2>1. proc[p].pc = "create" /\ UNCHANGED <<asks, inbox>> /\ v \in Nat /\ v >= 1
    BY <1>4, <1>8 DEF LeaseCreated
  <2>2. LeaseId(p, v) \in IdType /\ LeaseId(p, v).what = Want(p) /\ LeaseId(p, v).value >= 1
    BY <1>1, <2>1 DEF LeaseId, IdType
  <2>. QED  BY <2>1, <2>2, GainsGathers
<1>9. CASE LeasesExhausted(p) \/ LeaseLost(p)
  BY <1>9, RaisesGathers DEF LeasesExhausted, LeaseLost
<1>. QED  BY <1>5, <1>6, <1>7, <1>8, <1>9 DEF Leasing

\* The client prefixes.
LEMMA PrefixesGather ==
    ASSUME AInv, LateInv, NEW p \in Procs, Prefixes(p)
    PROVE  LateInv'
<1>1. /\ Claiming(p) \/ proc[p].pc = "carve"
      /\ proc[p].pc # "idle" /\ Want(p) \in What /\ Want(p).kind = "client"
      /\ proc[p] \in Proc /\ proc = [q \in Procs |-> proc[q]]
  <2>1. (Claiming(p) /\ Want(p).kind = "client") \/ proc[p].pc = "carve"
    BY DEF Prefixes, PrefixRead, PrefixCarved, PrefixRaced, PrefixLost
  <2>. QED  BY <2>1, Wanting, AtWork DEF AInv, Typed, TypeOK
<1>2. PrefixId(p) \in IdType /\ PrefixId(p).what = Want(p)
  BY <1>1 DEF PrefixId, IdType
<1>3. ASSUME Gains(p, PrefixId(p)), UNCHANGED <<asks, inbox>>
      PROVE  LateInv'
  BY <1>1, <1>2, <1>3, GainsGathers
<1>4. CASE PrefixRead(p) /\ PrefixHeld(p)
  BY <1>3, <1>4 DEF PrefixRead
<1>5. CASE PrefixRead(p) /\ ~PrefixHeld(p)
  <2>. DEFINE x == [proc[p] EXCEPT !.pc = "carve"]
  <2>1. proc' = [proc EXCEPT ![p] = x] /\ UNCHANGED <<asks, inbox>>
    BY <1>1, <1>5 DEF PrefixRead, Proc
  <2>2. x.pc = "carve" /\ x.req = proc[p].req /\ x.todo = proc[p].todo /\ x.ids = proc[p].ids
    BY <1>1 DEF Proc
  <2>. HIDE DEF x
  <2>3. Gathers(proc[p], asks)
    BY DEF LateInv
  <2>4. Gathers(x, asks)
    BY <1>1, <2>2, <2>3, GathersStays
  <2>. QED  BY <2>1, <2>4, OneGathers
<1>6. CASE PrefixCarved(p)
  BY <1>3, <1>6 DEF PrefixCarved
<1>7. CASE PrefixRaced(p) \/ PrefixLost(p)
  BY <1>7, RaisesGathers DEF PrefixRaced, PrefixLost
<1>. QED  BY <1>4, <1>5, <1>6, <1>7 DEF Prefixes

\* The supervisor sends only what the operator was shown.
LEMMA SendsGathers ==
    ASSUME AInv, LateInv, NEW r \in Requests, Sends(r)
    PROVE  LateInv'
<1>1. UNCHANGED <<asks, proc>> /\ Proposed(asks[r])
      /\ \A q \in Requests : inbox'[q] > 0 => inbox[q] > 0 \/ q = r
  BY DEF Sends, AInv, Typed
<1>. QED  BY <1>1 DEF LateInv

\* A call is answered from the memo or taken up.
LEMMA TakesGathers ==
    ASSUME AInv, LateInv, NEW p \in Procs, NEW r \in Requests, Remembers(p, r) \/ Takes(p, r)
    PROVE  LateInv'
<1>1. proc[p] \in Proc /\ proc = [q \in Procs |-> proc[q]] /\ inbox \in [Requests -> Nat]
  BY DEF AInv, Typed, TypeOK
<1>2. CASE Remembers(p, r)
  <2>1. UNCHANGED <<asks, proc>> /\ \A q \in Requests : inbox'[q] > 0 => inbox[q] > 0
    BY <1>1, <1>2 DEF Remembers
  <2>. QED  BY <2>1 DEF LateInv
<1>3. CASE Takes(p, r)
  <2>. DEFINE i == Intent(r)
              x == [proc[p] EXCEPT !.pc = "claim", !.req = r, !.interp = i, !.todo = Profile(i)]
  <2>1. /\ proc[p].pc = "idle" /\ inbox[r] > 0 /\ UNCHANGED asks
        /\ \A q \in Requests : inbox'[q] > 0 => inbox[q] > 0
    BY <1>1, <1>3 DEF Takes
  <2>2. CASE UNCHANGED proc
    BY <2>1, <2>2 DEF LateInv
  <2>3. CASE proc' = [proc EXCEPT ![p] = x]
    <3>1. x.pc = "claim" /\ x.req = r /\ x.ids = proc[p].ids /\ proc[p].ids = <<>>
      BY <1>1, <2>1 DEF Proc, AInv, Calls
    <3>. HIDE DEF x
    <3>2. Gathers(x, asks)
      BY <2>1, <3>1 DEF Gathers, LateInv
    <3>. QED  BY <2>1, <2>3, <3>2, OneGathers
  <2>4. UNCHANGED proc \/ proc' = [proc EXCEPT ![p] = x]
    BY <1>1, <1>3 DEF Takes, Proc
  <2>. QED  BY <2>2, <2>3, <2>4
<1>. QED  BY <1>2, <1>3

\* A call is refused or answered, or lost with its process.
LEMMA EndsGather ==
    ASSUME AInv, LateInv, NEW p \in Procs, Ending(p) \/ Crashes(p)
    PROVE  LateInv'
<1>1. ASSUME NEW life, proc' = [proc EXCEPT ![p] = Idle(life)], UNCHANGED <<asks, inbox>>
      PROVE  LateInv'
  <2>1. Idle(life).pc = "idle"
    BY DEF Idle
  <2>2. Gathers(Idle(life), asks)
    BY <2>1 DEF Gathers
  <2>. QED  BY <1>1, <2>2, OneGathers
<1>2. CASE LateRefusal(p)
  BY <1>2, RaisesGathers DEF LateRefusal
<1>3. CASE Issues(p)
  BY <1>1, <1>3 DEF Issues
<1>4. CASE Crashes(p)
  BY <1>1, <1>4 DEF Crashes
<1>. QED  BY <1>2, <1>3, <1>4 DEF Ending

\* LateInv is an invariant, beside AInv.
LEMMA LateInvariance == Spec => []LateInv
<1>1. Init => LateInv
  BY DEF Init, LateInv, Gathers, Idle
<1>2. AInv /\ LateInv /\ [Next]_vars => LateInv'
  <2>. SUFFICES ASSUME AInv, LateInv, [Next]_vars PROVE LateInv'
    OBVIOUS
  <2>1. CASE UNCHANGED vars
    BY <2>1 DEF vars, LateInv
  <2>2. CASE Next
    <3>1. ASSUME NEW r \in Requests, Sends(r)
          PROVE  LateInv'
      BY <3>1, SendsGathers
    <3>2. ASSUME NEW r \in Requests, NEW p \in Procs, Remembers(p, r) \/ Takes(p, r)
          PROVE  LateInv'
      BY <3>2, TakesGathers
    <3>3. ASSUME NEW p \in Procs, Works(p) \/ Crashes(p)
          PROVE  LateInv'
      BY <3>3, NumbersGather, LeasingGathers, PrefixesGather, EndsGather DEF Works
    <3>. QED  BY <2>2, <3>1, <3>2, <3>3 DEF Next
  <2>. QED  BY <2>1, <2>2
<1>. QED  BY <1>1, <1>2, Invariance, PTL DEF Spec

\* LateCausesKnown: whatever is asked, what can still be refused after the
\* claims is one of four things (allocator/agent.py:258-380,
\* normalized_intent.py:182-489).
THEOREM LateRefusalsKnown == Spec => []LateCausesKnown
<1>1. AInv /\ LateInv => LateCausesKnown
  <2>. SUFFICES ASSUME AInv, LateInv, NEW p \in Procs, AllClaimed(p)
                PROVE  CausesOf(p) \subseteq {"vlan reserved", "rules", "l3vni", "V7"}
    BY DEF LateCausesKnown
  <2>. DEFINE a == asks[Req(p)]
              ids == proc[p].ids
  <2>1. /\ proc[p].pc # "idle" /\ Len(ids) = Len(proc[p].todo)
    BY DEF AllClaimed
  <2>2. /\ a \in AskType /\ ids \in Seq(IdType) /\ proc[p].interp = Interpretation(a)
        /\ proc[p].todo = Profile(Interpretation(a))
    BY <2>1, AtWork DEF Working, Req, Proc
  <2>3. /\ Proposed(a)
        /\ \A n \in DOMAIN ids :
              ids[n].what = proc[p].todo[n] /\ (ids[n].what.kind # "client" => ids[n].value >= 1)
    BY <2>1 DEF LateInv, Gathers, Req
  <2>4. Causes(Normalized(proc[p].interp, {ids[n] : n \in DOMAIN ids}), Last["l3vni"])
           \subseteq {"vlan reserved", "rules", "l3vni", "V7"}
    BY <2>1, <2>2, <2>3, CausesKnown
  <2>. QED  BY <2>4 DEF CausesOf
<1>. QED  BY <1>1, Invariance, LateInvariance, PTL

-----------------------------------------------------------------------------
(* Clarifications *)

\* There is an answer to every question: two nodes, a port and a usable vlan
\* to name, and an endpoint may go without a vlan.
CanAnswer ==
    /\ \E n, m \in Nodes : n # m
    /\ Ports # {} /\ 0 \in Tags
    /\ \E t \in Tags : t \in 1..4000

\* The two endpoints and the vlan of the answer.
End == CHOOSE c \in Ends : TRUE
Usable == CHOOSE n \in Tags : n \in 1..4000

LEMMA EndIs ==
    ASSUME CanAnswer
    PROVE  /\ End \in Seq(Clauses) /\ Len(End) = 2 /\ DOMAIN End = {1, 2}
           /\ End[1].node # End[2].node /\ End[1].tag = 0 /\ End[2].tag = 0
<1>1. PICK n \in Nodes, m \in Nodes : n # m
  BY DEF CanAnswer
<1>2. PICK p \in Ports : TRUE
  BY DEF CanAnswer
<1>. DEFINE c == [i \in 1..2 |-> [node |-> IF i = 1 THEN n ELSE m, port |-> p, tag |-> 0]]
<1>3. c \in [1..2 -> Clauses] /\ c[1].node = n /\ c[2].node = m /\ c[1].tag = 0 /\ c[2].tag = 0
  BY DEF CanAnswer, Clauses
<1>4. c \in Ends
  <2>. HIDE DEF c
  <2>. QED  BY <1>1, <1>3 DEF Ends
<1>. HIDE DEF c
<1>5. End \in Ends
  BY <1>4 DEF End
<1>6. End \in [1..2 -> Clauses] /\ End[1].node # End[2].node /\ End[1].tag = 0 /\ End[2].tag = 0
  BY <1>5 DEF Ends
<1>. HIDE DEF End
<1>7. End \in Seq(Clauses) /\ Len(End) = 2 /\ DOMAIN End = {1, 2}
  <2>1. End \in Seq(Clauses)
    BY <1>6, SeqDef
  <2>2. DOMAIN End = 1..2 /\ DOMAIN End = 1..Len(End) /\ Len(End) \in Nat
    BY <1>6, <2>1, LenProperties
  <2>. QED  BY <2>1, <2>2
<1>. QED  BY <1>6, <1>7

LEMMA UsableIs ==
    ASSUME CanAnswer
    PROVE  Usable \in Tags /\ Usable \in Nat /\ Usable # 0 /\ Usable <= 4000
<1>. DEFINE R == 1..4000
<1>1. \E t \in Tags : t \in R
  BY DEF CanAnswer
<1>. HIDE DEF R
<1>2. Usable = CHOOSE n \in Tags : n \in R
  BY DEF Usable, R
<1>. HIDE DEF Usable
<1>3. Usable \in Tags /\ Usable \in R
  BY <1>1, <1>2
<1>. QED  BY <1>3 DEF R

\* The endpoints of a request.
LEMMA ClausesOf ==
    ASSUME NEW a \in AskType
    PROVE  /\ Len(a.clauses) \in Nat /\ Len(a.clauses) <= 2
           /\ DOMAIN a.clauses = 1..Len(a.clauses) /\ DOMAIN a.clauses \subseteq {1, 2}
           /\ \A i \in DOMAIN a.clauses : a.clauses[i] \in Clauses /\ a.clauses[i].tag \in Nat
           /\ a.tag \in Nat
<1>1. a.clauses \in Seq(Clauses) /\ Len(a.clauses) <= 2 /\ a.tag \in Tags
  BY DEF AskType
<1>2. Len(a.clauses) \in Nat /\ DOMAIN a.clauses = 1..Len(a.clauses)
  BY <1>1, LenProperties
<1>3. \A i \in DOMAIN a.clauses : a.clauses[i] \in Clauses
  BY <1>1, <1>2, ElementOfSeq
<1>4. \A i \in DOMAIN a.clauses : a.clauses[i].tag \in Nat
  BY <1>3, IntentAssumption DEF Clauses
<1>5. DOMAIN a.clauses \subseteq {1, 2}
  BY <1>1, <1>2
<1>. QED  BY <1>1, <1>2, <1>3, <1>4, <1>5, IntentAssumption

\* The first vlan of the text is the one in front of the endpoints, or an
\* endpoint's.
LEMMA TextTagIs ==
    ASSUME NEW a \in AskType
    PROVE  /\ TextTag(a) = 0 <=> a.tag = 0 /\ \A i \in DOMAIN a.clauses : a.clauses[i].tag = 0
           /\ a.tag # 0 => TextTag(a) = a.tag
           /\ a.tag = 0 /\ TextTag(a) # 0 =>
                \E i \in DOMAIN a.clauses : a.clauses[i].tag # 0 /\ TextTag(a) = a.clauses[i].tag
<1>. DEFINE T == {i \in DOMAIN a.clauses : a.clauses[i].tag # 0}
            i == CHOOSE i \in T : \A j \in T : i <= j
<1>1. T # {} => i \in T
  <2>1. T \subseteq {1, 2}
    BY ClausesOf
  <2>. HIDE DEF T
  <2>2. T # {} => \E k \in T : \A j \in T : k <= j
    <3>1. CASE 1 \in T
      <4>1. \A j \in T : 1 <= j
        BY <2>1
      <4>. QED  BY <3>1, <4>1
    <3>2. CASE 1 \notin T
      <4>1. \A j \in T : j = 2
        BY <2>1, <3>2
      <4>. QED  BY <4>1
    <3>. QED  BY <3>1, <3>2
  <2>. QED  BY <2>2
<1>2. TextTag(a) = IF a.tag # 0 THEN a.tag ELSE IF T = {} THEN 0 ELSE a.clauses[i].tag
  BY DEF TextTag
<1>3. i \in T => i \in DOMAIN a.clauses /\ a.clauses[i].tag # 0
  OBVIOUS
<1>4. T = {} <=> \A k \in DOMAIN a.clauses : a.clauses[k].tag = 0
  OBVIOUS
<1>. HIDE DEF T, i
<1>. QED  BY <1>1, <1>2, <1>3, <1>4

\* A vlan is illegal where an endpoint has it.
LEMMA IllegalTagIs ==
    ASSUME NEW a \in AskType
    PROVE  IllegalTag(a) <=>
             \E i \in DOMAIN a.clauses :
                 (IF a.clauses[i].tag = 0 THEN TextTag(a) ELSE a.clauses[i].tag) > 4094
<1>1. \A i \in DOMAIN a.clauses :
        Endpoints(a)[i].tag = IF a.clauses[i].tag = 0 THEN TextTag(a) ELSE a.clauses[i].tag
  BY ClausesOf DEF Endpoints, Clauses
<1>. QED  BY <1>1 DEF IllegalTag

\* The restated request, field by field.
LEMMA RestatedIs ==
    ASSUME NEW a \in AskType, NEW v, CanAnswer
    PROVE  LET b == Restated(a, v)
               m == Missing(a)
           IN /\ b \in AskType
              /\ b.srv6 = a.srv6 /\ b.vxlan = a.vxlan /\ b.feature = a.feature /\ b.tenant
              /\ b.prefer = a.prefer /\ b.alternate = a.alternate
              /\ b.words = a.words \cup When(m \cap {"srv6_construct", "srv6_signalling"} # {},
                                             IF v = <<"mac-vrf", "evpn">> THEN "bridged" ELSE "routed")
              /\ b.clauses = IF m \cap {"endpoints", "srv6_other_endpoint"} # {} THEN End ELSE a.clauses
              /\ b.prefix = IF "srv6_prefix" \in m THEN "whole" ELSE a.prefix
              /\ b.tag = IF "srv6_vlan" \in m THEN Usable ELSE a.tag
              /\ b.filter = IF "acl.stage" \in m THEN "whole" ELSE a.filter
              /\ b.gateway = IF "anycast_gateway" \in m THEN "address" ELSE a.gateway
              /\ b.via = IF "srv6_preferred_spine" \in m THEN "known" ELSE a.via
<1>0. End \in Seq(Clauses) /\ Len(End) <= 2
  <2>1. End \in Seq(Clauses) /\ Len(End) = 2
    BY EndIs
  <2>. QED  BY <2>1
<1>. DEFINE b == Restated(a, v)
            m == Missing(a)
            W == When(m \cap {"srv6_construct", "srv6_signalling"} # {},
                      IF v = <<"mac-vrf", "evpn">> THEN "bridged" ELSE "routed")
            C == IF m \cap {"endpoints", "srv6_other_endpoint"} # {} THEN End ELSE a.clauses
            P == IF m \cap {"srv6_prefix"} # {} THEN "whole" ELSE a.prefix
            T == IF m \cap {"srv6_vlan"} # {} THEN Usable ELSE a.tag
            F == IF m \cap {"acl.stage"} # {} THEN "whole" ELSE a.filter
            G == IF m \cap {"anycast_gateway"} # {} THEN "address" ELSE a.gateway
            V == IF m \cap {"srv6_preferred_spine"} # {} THEN "known" ELSE a.via
<1>1. b = [a EXCEPT !.tenant = TRUE, !.words = a.words \cup W, !.clauses = C, !.prefix = P,
                    !.tag = T, !.filter = F, !.gateway = G, !.via = V]
  BY DEF Restated, End, Usable
<1>2. a.words \in SUBSET Words /\ a.clauses \in {c \in Seq(Clauses) : Len(c) <= 2}
      /\ a.tag \in Tags /\ a.prefix \in {"none", "ill", "whole"}
      /\ a.filter \in {"none", "whole", "ill", "rule", "word"}
      /\ a.gateway \in {"none", "named", "address"} /\ a.via \in {"none"} \cup Spines
  BY DEF AskType
<1>3. W \subseteq Words
  BY DEF When, Words
<1>4. C \in {c \in Seq(Clauses) : Len(c) <= 2}
  <2>. HIDE DEF m
  <2>. QED  BY <1>0, <1>2
<1>5. /\ P \in {"none", "ill", "whole"} /\ T \in Tags /\ F \in {"none", "whole", "ill", "rule", "word"}
      /\ G \in {"none", "named", "address"} /\ V \in {"none"} \cup Spines
  BY <1>2, UsableIs DEF Spines
<1>6. a.words \cup W \in SUBSET Words
  BY <1>2, <1>3
<1>7. "srv6_prefix" \in m <=> m \cap {"srv6_prefix"} # {}
  OBVIOUS
<1>8. "srv6_vlan" \in m <=> m \cap {"srv6_vlan"} # {}
  OBVIOUS
<1>9. "acl.stage" \in m <=> m \cap {"acl.stage"} # {}
  OBVIOUS
<1>10. "anycast_gateway" \in m <=> m \cap {"anycast_gateway"} # {}
  OBVIOUS
<1>11. "srv6_preferred_spine" \in m <=> m \cap {"srv6_preferred_spine"} # {}
  OBVIOUS
<1>. HIDE DEF b, m, W, C, P, T, F, G, V
<1>12. b \in AskType
  BY <1>1, <1>4, <1>5, <1>6 DEF AskType
<1>13. /\ b.srv6 = a.srv6 /\ b.vxlan = a.vxlan /\ b.feature = a.feature /\ b.tenant
       /\ b.prefer = a.prefer /\ b.alternate = a.alternate /\ b.words = a.words \cup W
       /\ b.clauses = C /\ b.prefix = P /\ b.tag = T /\ b.filter = F /\ b.gateway = G /\ b.via = V
  BY <1>1 DEF AskType
<1>. QED  BY <1>7, <1>8, <1>9, <1>10, <1>11, <1>12, <1>13 DEF b, m, W, C, P, T, F, G, V

\* What an SRv6 request is asked for.
LEMMA SRv6MissingIs ==
    ASSUME NEW a, NamesSRv6(a)
    PROVE  LET m == Missing(a)
               c == SRv6Construct(a)
           IN /\ m \subseteq {"tenant", "srv6_construct", "srv6_signalling", "srv6_other_endpoint",
                              "srv6_prefix", "srv6_vlan", "srv6_preferred_spine"}
              /\ "tenant" \in m <=> ~a.tenant
              /\ "srv6_construct" \in m <=> c = "none" /\ "evpn" \notin a.words
              /\ "srv6_signalling" \in m <=> c = "none" /\ "evpn" \in a.words
              /\ "srv6_other_endpoint" \in m <=> c # "none" /\ (Len(a.clauses) < 2 \/ OneNode(a.clauses))
              /\ "srv6_prefix" \in m <=> c = "ip-vrf" /\ ~Prefixed(a)
              /\ "srv6_vlan" \in m <=> c = "mac-vrf" /\ TextTag(a) = 0
              /\ "srv6_preferred_spine" \in m <=> c # "none" /\ Spine(a) = "unnamed"
<1>. DEFINE c == SRv6Construct(a)
            short == Len(a.clauses) < 2 \/ OneNode(a.clauses)
<1>1. Missing(a) = When(~a.tenant, "tenant") \cup
       IF c = "none"
         THEN {IF "evpn" \in a.words THEN "srv6_signalling" ELSE "srv6_construct"}
         ELSE When(short, "srv6_other_endpoint")
                \cup When(c = "ip-vrf" /\ ~Prefixed(a), "srv6_prefix")
                \cup When(c = "mac-vrf" /\ TextTag(a) = 0, "srv6_vlan")
                \cup When(Spine(a) = "unnamed", "srv6_preferred_spine")
  BY DEF Missing, SRv6Missing
<1>2. short <=> Len(a.clauses) < 2 \/ OneNode(a.clauses)
  OBVIOUS
<1>. HIDE DEF c, short
<1>3. CASE c = "none"
  BY <1>1, <1>2, <1>3 DEF When, c
<1>4. CASE c # "none"
  BY <1>1, <1>2, <1>4 DEF When, c
<1>. QED  BY <1>3, <1>4

\* What another one is asked for.
LEMMA OtherMissingIs ==
    ASSUME NEW a, ~NamesSRv6(a)
    PROVE  LET m == Missing(a)
           IN /\ m \subseteq {"tenant", "endpoints", "acl.stage", "anycast_gateway"}
              /\ "tenant" \in m <=> ~a.tenant
              /\ "endpoints" \in m <=> Len(a.clauses) < (IF Construct(a) = "mac-vrf" THEN 2 ELSE 1)
              /\ "acl.stage" \in m <=> a.filter = "rule"
              /\ "anycast_gateway" \in m <=> a.gateway = "named" /\ Construct(a) = "mac-vrf"
<1>. DEFINE short == Len(a.clauses) < (IF Construct(a) = "mac-vrf" THEN 2 ELSE 1)
<1>1. Missing(a) = When(~a.tenant, "tenant") \cup When(short, "endpoints")
                     \cup When(a.filter = "rule", "acl.stage")
                     \cup When(a.gateway = "named" /\ Construct(a) = "mac-vrf", "anycast_gateway")
  BY DEF Missing, OtherMissing
<1>2. short <=> Len(a.clauses) < (IF Construct(a) = "mac-vrf" THEN 2 ELSE 1)
  OBVIOUS
<1>. HIDE DEF short
<1>. QED  BY <1>1, <1>2 DEF When

\* The construct of an SRv6 request: of its words alone, once it is one.
LEMMA SRv6ConstructIs ==
    ASSUME NEW a, NEW b
    PROVE  /\ SRv6Construct(a) \in {"refused", "mac-vrf", "ip-vrf", "none"}
           /\ SRv6Construct(a) \in {"mac-vrf", "ip-vrf"} /\ b.words = a.words /\ b.srv6 = a.srv6
                => SRv6Construct(b) = SRv6Construct(a)
           /\ SRv6Construct(a) = "none" => TextTag(a) = 0 /\ "acl" \notin a.words
<1>1. RoutedAlias(a) <=> a.words \cap {"ip-vrf", "routed"} # {} \/ a.srv6 \in {"spelled", "loose"}
  BY DEF RoutedAlias
<1>2. RoutedAlias(b) <=> b.words \cap {"ip-vrf", "routed"} # {} \/ b.srv6 \in {"spelled", "loose"}
  BY DEF RoutedAlias
<1>3. SRv6Construct(a) \in {"refused", "mac-vrf", "ip-vrf", "none"}
  BY DEF SRv6Construct
<1>4. ASSUME SRv6Construct(a) \in {"mac-vrf", "ip-vrf"}, b.words = a.words, b.srv6 = a.srv6
      PROVE  SRv6Construct(b) = SRv6Construct(a)
  BY <1>1, <1>2, <1>4 DEF SRv6Construct
<1>5. ASSUME SRv6Construct(a) = "none"
      PROVE  TextTag(a) = 0 /\ "acl" \notin a.words
  BY <1>5 DEF SRv6Construct
<1>. QED  BY <1>3, <1>4, <1>5

\* An SRv6 request of a construct that is served and of legal vlans.
Served6(a) ==
    /\ a \in AskType /\ NamesSRv6(a) /\ ~a.vxlan /\ ~a.feature
    /\ SRv6Construct(a) \in {"mac-vrf", "ip-vrf"} /\ ~IllegalTag(a)

\* The vlans of the endpoints stay legal, when the one in front of them is
\* wherever the endpoints were asked for.
LEMMA LegalStays ==
    ASSUME CanAnswer, NEW a \in AskType, NEW b \in AskType, ~IllegalTag(a),
           b.clauses = a.clauses \/ (b.clauses = End /\ a.tag <= 4094),
           b.tag = a.tag \/ (b.tag = Usable /\ TextTag(a) = 0)
    PROVE  ~IllegalTag(b)
<1>1. End[1].tag = 0 /\ End[2].tag = 0 /\ DOMAIN End = {1, 2}
      /\ Usable \in Nat /\ Usable <= 4000 /\ Usable # 0
  BY EndIs, UsableIs
<1>2. a.tag \in Nat /\ b.tag \in Nat
  BY ClausesOf
<1>3. CASE b.clauses = End /\ a.tag <= 4094
  <2>1. \A i \in DOMAIN b.clauses : b.clauses[i].tag = 0
    BY <1>1, <1>3
  <2>2. TextTag(b) = b.tag
    BY <2>1, TextTagIs
  <2>. QED  BY <1>1, <1>2, <1>3, <2>1, <2>2, IllegalTagIs
<1>4. CASE b.clauses = a.clauses /\ b.tag = a.tag
  <2>1. TextTag(b) = TextTag(a)
    BY <1>4 DEF TextTag
  <2>. QED  BY <1>4, <2>1, IllegalTagIs
<1>5. CASE b.clauses = a.clauses /\ b.tag = Usable /\ TextTag(a) = 0
  <2>1. \A i \in DOMAIN b.clauses : b.clauses[i].tag = 0
    BY <1>5, TextTagIs
  <2>2. TextTag(b) = Usable
    BY <1>1, <1>5, TextTagIs
  <2>. QED  BY <1>1, <2>1, <2>2, IllegalTagIs
<1>. QED  BY <1>3, <1>4, <1>5

\* The other endpoints take it on.
LEMMA IllegalComes ==
    ASSUME CanAnswer, NEW b \in AskType, b.clauses = End, b.tag > 4094
    PROVE  IllegalTag(b)
<1>1. End[1].tag = 0 /\ 1 \in DOMAIN End
  BY EndIs
<1>2. b.tag \in Nat
  BY ClausesOf
<1>3. TextTag(b) = b.tag
  BY <1>2, TextTagIs
<1>. QED  BY <1>1, <1>3, IllegalTagIs

\* One answer leaves at most the vlan to ask for, when the endpoints that
\* named it were replaced.
LEMMA SRv6Answered ==
    ASSUME CanAnswer, NEW a, Served6(a), NEW v,
           "srv6_other_endpoint" \in Missing(a) => a.tag <= 4094
    PROVE  LET b == Restated(a, v)
           IN /\ Served6(b) /\ SRv6Construct(b) = SRv6Construct(a) /\ b.words = a.words
              /\ Missing(b) \subseteq {"srv6_vlan"}
              /\ Missing(b) \cap Missing(a) = {}
              /\ "srv6_vlan" \in Missing(b) => "srv6_other_endpoint" \in Missing(a)
<1>. DEFINE b == Restated(a, v)
            m == Missing(a)
            c == SRv6Construct(a)
<1>1. /\ a \in AskType /\ NamesSRv6(a) /\ ~a.vxlan /\ ~a.feature
      /\ c \in {"mac-vrf", "ip-vrf"} /\ ~IllegalTag(a)
  BY DEF Served6
<1>2. /\ b \in AskType
      /\ b.srv6 = a.srv6 /\ b.vxlan = a.vxlan /\ b.feature = a.feature /\ b.tenant
      /\ b.prefer = a.prefer
      /\ b.words = a.words \cup When(m \cap {"srv6_construct", "srv6_signalling"} # {},
                                     IF v = <<"mac-vrf", "evpn">> THEN "bridged" ELSE "routed")
      /\ b.clauses = IF m \cap {"endpoints", "srv6_other_endpoint"} # {} THEN End ELSE a.clauses
      /\ b.prefix = IF "srv6_prefix" \in m THEN "whole" ELSE a.prefix
      /\ b.tag = IF "srv6_vlan" \in m THEN Usable ELSE a.tag
      /\ b.via = IF "srv6_preferred_spine" \in m THEN "known" ELSE a.via
  BY <1>1, RestatedIs
<1>. HIDE DEF b
<1>3. /\ m \subseteq {"tenant", "srv6_construct", "srv6_signalling", "srv6_other_endpoint",
                      "srv6_prefix", "srv6_vlan", "srv6_preferred_spine"}
      /\ "srv6_construct" \notin m /\ "srv6_signalling" \notin m
      /\ "srv6_other_endpoint" \in m <=> Len(a.clauses) < 2 \/ OneNode(a.clauses)
      /\ "srv6_prefix" \in m <=> c = "ip-vrf" /\ ~Prefixed(a)
      /\ "srv6_vlan" \in m <=> c = "mac-vrf" /\ TextTag(a) = 0
      /\ "srv6_preferred_spine" \in m <=> Spine(a) = "unnamed"
  BY <1>1, SRv6MissingIs
<1>. HIDE DEF m, c
<1>4. b.words = a.words
  BY <1>2, <1>3 DEF When
<1>5. NamesSRv6(b) /\ SRv6Construct(b) = c
  BY <1>1, <1>2, <1>4, SRv6ConstructIs DEF NamesSRv6, c
<1>6. b.clauses = IF "srv6_other_endpoint" \in m THEN End ELSE a.clauses
  <2>1. m \cap {"endpoints", "srv6_other_endpoint"} # {} <=> "srv6_other_endpoint" \in m
    BY <1>3
  <2>. QED  BY <1>2, <2>1
<1>7. ~IllegalTag(b)
  <2>1. "srv6_other_endpoint" \in m => a.tag <= 4094
    BY DEF m
  <2>. QED  BY <1>1, <1>2, <1>3, <1>6, <2>1, LegalStays
<1>8. Served6(b)
  BY <1>1, <1>2, <1>5, <1>7 DEF Served6
<1>9. /\ Missing(b) \subseteq {"tenant", "srv6_construct", "srv6_signalling", "srv6_other_endpoint",
                               "srv6_prefix", "srv6_vlan", "srv6_preferred_spine"}
      /\ "tenant" \in Missing(b) <=> ~b.tenant
      /\ "srv6_construct" \notin Missing(b) /\ "srv6_signalling" \notin Missing(b)
      /\ "srv6_other_endpoint" \in Missing(b) <=> Len(b.clauses) < 2 \/ OneNode(b.clauses)
      /\ "srv6_prefix" \in Missing(b) <=> c = "ip-vrf" /\ ~Prefixed(b)
      /\ "srv6_vlan" \in Missing(b) <=> c = "mac-vrf" /\ TextTag(b) = 0
      /\ "srv6_preferred_spine" \in Missing(b) <=> Spine(b) = "unnamed"
  BY <1>1, <1>5, SRv6MissingIs
<1>10. "srv6_other_endpoint" \notin Missing(b)
  <2>1. Len(End) = 2 /\ ~OneNode(End)
    BY EndIs DEF OneNode
  <2>. QED  BY <1>3, <1>6, <1>9, <2>1
<1>11. "srv6_prefix" \notin Missing(b)
  BY <1>2, <1>3, <1>9 DEF Prefixed
<1>12. "srv6_preferred_spine" \notin Missing(b)
  BY <1>2, <1>3, <1>9 DEF Spine
<1>13. "srv6_vlan" \in Missing(b) => "srv6_other_endpoint" \in m /\ "srv6_vlan" \notin m
  <2>1. SUFFICES ASSUME c = "mac-vrf", TextTag(b) = 0
                 PROVE  "srv6_other_endpoint" \in m /\ "srv6_vlan" \notin m
    BY <1>9
  <2>2. b.tag = 0
    BY <1>2, <2>1, TextTagIs
  <2>3. "srv6_vlan" \notin m
    BY <1>2, <2>2, UsableIs
  <2>4. TextTag(a) # 0 /\ a.tag = 0
    BY <1>2, <1>3, <2>1, <2>2, <2>3
  <2>5. b.clauses # a.clauses
    BY <1>1, <1>2, <2>1, <2>4, TextTagIs
  <2>. QED  BY <1>6, <2>3, <2>5
<1>14. Missing(b) \subseteq {"srv6_vlan"}
  BY <1>2, <1>9, <1>10, <1>11, <1>12
<1>. QED  BY <1>4, <1>5, <1>8, <1>13, <1>14 DEF b, m, c

\* Nothing missing: the mapper is done with it.
LEMMA SRv6Done ==
    ASSUME NEW a, Served6(a), Missing(a) = {}
    PROVE  Verdict(a) = "complete" /\ Construct(a) = SRv6Construct(a)
<1>1. NamesSRv6(a) /\ ~a.vxlan /\ ~a.feature /\ SRv6Construct(a) \in {"mac-vrf", "ip-vrf"} /\ ~IllegalTag(a)
  BY DEF Served6
<1>2. Unsupported(a) = {}
  BY <1>1 DEF Unsupported, When
<1>3. ~Raises(a)
  BY <1>1 DEF Raises
<1>4. Construct(a) = SRv6Construct(a)
  BY <1>1 DEF Construct
<1>. QED  BY <1>2, <1>3, <1>4 DEF Verdict

\* What ClarificationEnds says of an answer v to request a: it fails, or it
\* leads to an interpretation.
Offered(a) == UNION {Options(field) : field \in Missing(a)}
Fails(a, v) ==
    /\ a.tag > 4094 /\ Missing(a) \cap {"endpoints", "srv6_other_endpoint"} # {}
    /\ Verdict(Restated(a, v)) = "error"
Ended(a, v) ==
    LET b == Restated(a, v)
        c == Restated(b, v)
    IN /\ Missing(b) \cap Missing(a) = {}
       /\ Verdict(c) = "complete"
       /\ Offered(a) # {} => "R2" \notin GuardRefusal(Interpretation(c))

\* An SRv6 request whose construct was clear and whose endpoints were not,
\* with an illegal vlan in front of them.
LEMMA ClearFails ==
    ASSUME CanAnswer, NEW a, Served6(a), NEW v,
           "srv6_other_endpoint" \in Missing(a), a.tag > 4094
    PROVE  Fails(a, v)
<1>. DEFINE b == Restated(a, v)
            m == Missing(a)
<1>1. /\ a \in AskType /\ NamesSRv6(a) /\ ~a.vxlan /\ SRv6Construct(a) \in {"mac-vrf", "ip-vrf"}
  BY DEF Served6
<1>2. /\ b \in AskType /\ b.srv6 = a.srv6 /\ b.vxlan = a.vxlan
      /\ b.words = a.words \cup When(m \cap {"srv6_construct", "srv6_signalling"} # {},
                                     IF v = <<"mac-vrf", "evpn">> THEN "bridged" ELSE "routed")
      /\ b.clauses = IF m \cap {"endpoints", "srv6_other_endpoint"} # {} THEN End ELSE a.clauses
      /\ b.tag = IF "srv6_vlan" \in m THEN Usable ELSE a.tag
  <2>1. a \in AskType
    BY <1>1
  <2>. QED  BY <2>1, RestatedIs
<1>. HIDE DEF b
<1>3. /\ "srv6_construct" \notin m /\ "srv6_signalling" \notin m
      /\ "srv6_vlan" \in m => TextTag(a) = 0
  BY <1>1, SRv6MissingIs
<1>4. a.tag # 0 /\ "srv6_vlan" \notin m
  <2>1. a.tag \in Nat /\ a.tag # 0
    BY <1>1, ClausesOf
  <2>. QED  BY <1>1, <1>3, <2>1, TextTagIs
<1>5. m \cap {"endpoints", "srv6_other_endpoint"} # {}
  OBVIOUS
<1>. HIDE DEF m
<1>6. b.words = a.words /\ b.clauses = End /\ b.tag = a.tag
  BY <1>2, <1>3, <1>4, <1>5 DEF When
<1>7. NamesSRv6(b) /\ SRv6Construct(b) = SRv6Construct(a)
  BY <1>1, <1>2, <1>6, SRv6ConstructIs DEF NamesSRv6
<1>8. IllegalTag(b)
  BY <1>2, <1>6, IllegalComes
<1>9. Raises(b)
  BY <1>1, <1>2, <1>7, <1>8 DEF Raises
<1>. QED  BY <1>5, <1>9 DEF Verdict, Fails, b, m

\* An SRv6 request whose construct was clear.
LEMMA ClearEnds ==
    ASSUME CanAnswer, NEW a, Served6(a), NEW v
    PROVE  Offered(a) = {} /\ (Fails(a, v) \/ Ended(a, v))
<1>1. Offered(a) = {}
  <2>1. NamesSRv6(a) /\ SRv6Construct(a) # "none"
    BY DEF Served6
  <2>2. "srv6_construct" \notin Missing(a) /\ "srv6_signalling" \notin Missing(a)
    BY <2>1, SRv6MissingIs
  <2>3. \A field \in Missing(a) : Options(field) = {}
    BY <2>2 DEF Options
  <2>. QED  BY <2>3 DEF Offered
<1>2. a.tag \in Nat
  BY ClausesOf DEF Served6
<1>3. CASE "srv6_other_endpoint" \in Missing(a) /\ a.tag > 4094
  BY <1>1, <1>3, ClearFails
<1>4. CASE "srv6_other_endpoint" \in Missing(a) => a.tag <= 4094
  <2>. DEFINE b == Restated(a, v)
              c == Restated(b, v)
  <2>1. /\ Served6(b) /\ Missing(b) \subseteq {"srv6_vlan"} /\ Missing(b) \cap Missing(a) = {}
    BY <1>4, SRv6Answered
  <2>. HIDE DEF b
  <2>2. /\ Served6(c) /\ Missing(c) \subseteq {"srv6_vlan"}
        /\ "srv6_vlan" \in Missing(c) => "srv6_other_endpoint" \in Missing(b)
    <3>1. "srv6_other_endpoint" \notin Missing(b)
      BY <2>1
    <3>. QED  BY <2>1, <3>1, SRv6Answered
  <2>. HIDE DEF c
  <2>3. Missing(c) = {}
    BY <2>1, <2>2
  <2>4. Verdict(c) = "complete"
    BY <2>2, <2>3, SRv6Done
  <2>. QED  BY <1>1, <2>1, <2>4 DEF Ended, b, c
<1>. QED  BY <1>2, <1>3, <1>4

\* One whose construct was not: it becomes what was chosen.
LEMMA UnclearEnds ==
    ASSUME CanAnswer, NEW a \in AskType, NamesSRv6(a), ~a.vxlan, ~a.feature,
           SRv6Construct(a) = "none", NEW v, Offered(a) # {} => v \in Offered(a)
    PROVE  Ended(a, v)
<1>. DEFINE b == Restated(a, v)
            c == Restated(b, v)
            m == Missing(a)
<1>1. /\ m \subseteq {"tenant", "srv6_construct", "srv6_signalling"}
      /\ "srv6_construct" \in m <=> "evpn" \notin a.words
      /\ "srv6_signalling" \in m <=> "evpn" \in a.words
  BY SRv6MissingIs
<1>2. /\ b \in AskType
      /\ b.srv6 = a.srv6 /\ b.vxlan = a.vxlan /\ b.feature = a.feature /\ b.tenant
      /\ b.words = a.words \cup When(m \cap {"srv6_construct", "srv6_signalling"} # {},
                                     IF v = <<"mac-vrf", "evpn">> THEN "bridged" ELSE "routed")
      /\ b.clauses = IF m \cap {"endpoints", "srv6_other_endpoint"} # {} THEN End ELSE a.clauses
      /\ b.tag = IF "srv6_vlan" \in m THEN Usable ELSE a.tag
  <2>. HIDE DEF c
  <2>. QED  BY RestatedIs
<1>. HIDE DEF b
<1>3. TextTag(a) = 0 /\ "acl" \notin a.words
  BY SRv6ConstructIs
<1>4. v \in Offered(a) => v \in Supported /\ v \in IF "evpn" \in a.words
                          THEN {<<"ip-vrf", "evpn">>, <<"mac-vrf", "evpn">>}
                          ELSE {<<"ip-vrf", "vpn">>, <<"mac-vrf", "evpn">>}
  <2>1. SUFFICES ASSUME NEW field \in m, v \in Options(field)
                 PROVE  v \in Supported /\ v \in IF "evpn" \in a.words
                          THEN {<<"ip-vrf", "evpn">>, <<"mac-vrf", "evpn">>}
                          ELSE {<<"ip-vrf", "vpn">>, <<"mac-vrf", "evpn">>}
    BY DEF Offered
  <2>. HIDE DEF m
  <2>2. CASE field = "tenant"
    BY <2>1, <2>2 DEF Options
  <2>3. CASE field = "srv6_construct"
    BY <1>1, <2>1, <2>3 DEF Options
  <2>4. CASE field = "srv6_signalling"
    BY <1>1, <2>1, <2>4 DEF Options
  <2>. QED  BY <1>1, <2>2, <2>3, <2>4
<1>. HIDE DEF m
<1>6. b.words = a.words \cup {IF v = <<"mac-vrf", "evpn">> THEN "bridged" ELSE "routed"} /\ b.tag = a.tag /\ b.clauses = a.clauses
  <2>1. m \cap {"srv6_construct", "srv6_signalling"} # {}
    BY <1>1
  <2>2. m \cap {"endpoints", "srv6_other_endpoint"} = {} /\ "srv6_vlan" \notin m
    BY <1>1
  <2>. QED  BY <1>2, <2>1, <2>2 DEF When
<1>7. SRv6Construct(b) = (IF v = <<"mac-vrf", "evpn">> THEN "mac-vrf" ELSE "ip-vrf")
  <2>1. a.words \cap {"acl", "mac-vrf", "bridged"} = {}
    BY DEF SRv6Construct
  <2>. QED  BY <1>6, <2>1 DEF SRv6Construct, RoutedAlias
<1>8. a.tag = 0 /\ TextTag(b) = 0 /\ \A i \in DOMAIN b.clauses : b.clauses[i].tag = 0
  BY <1>2, <1>3, <1>6, TextTagIs
<1>9. ~IllegalTag(b)
  BY <1>2, <1>8, IllegalTagIs
<1>10. Served6(b)
  BY <1>2, <1>6, <1>7, <1>8, <1>9 DEF Served6, NamesSRv6
<1>11. Missing(b) \cap m = {}
  <2>1. NamesSRv6(b)
    BY <1>2 DEF NamesSRv6
  <2>2. "tenant" \notin Missing(b) /\ "srv6_construct" \notin Missing(b) /\ "srv6_signalling" \notin Missing(b)
    BY <1>2, <1>7, <2>1, SRv6MissingIs
  <2>. QED  BY <1>1, <2>2
<1>12. /\ Served6(c) /\ SRv6Construct(c) = SRv6Construct(b) /\ c.words = b.words
       /\ Missing(c) \subseteq {"srv6_vlan"} /\ Missing(c) \cap Missing(b) = {}
  <2>1. "srv6_other_endpoint" \in Missing(b) => b.tag <= 4094
    BY <1>6, <1>8
  <2>. QED  BY <1>10, <2>1, SRv6Answered
<1>. HIDE DEF c
<1>13. "srv6_vlan" \notin Missing(c)
  <2>1. NamesSRv6(b) /\ NamesSRv6(c)
    BY <1>10, <1>12 DEF Served6
  <2>2. "srv6_vlan" \in Missing(c) => SRv6Construct(c) = "mac-vrf"
    BY <2>1, SRv6MissingIs
  <2>3. SRv6Construct(b) = "mac-vrf" => "srv6_vlan" \in Missing(b)
    BY <1>8, <2>1, SRv6MissingIs
  <2>. QED  BY <1>12, <2>2, <2>3
<1>14. Verdict(c) = "complete" /\ Construct(c) = SRv6Construct(c)
  BY <1>12, <1>13, SRv6Done
<1>15. ASSUME Offered(a) # {} PROVE "R2" \notin GuardRefusal(Interpretation(c))
  <2>1. v \in Offered(a)
    BY <1>15
  <2>2. Variant(Interpretation(c)) = v
    <3>1. "evpn" \in c.words <=> "evpn" \in a.words
      BY <1>6, <1>12
    <3>2. Variant(Interpretation(c)) =
             <<Construct(c), IF Construct(c) = "mac-vrf" \/ "evpn" \in c.words THEN "evpn" ELSE "vpn">>
      BY DEF Variant, Interpretation
    <3>. QED  BY <1>4, <1>7, <1>12, <1>14, <2>1, <3>1, <3>2
  <2>3. Variant(Interpretation(c)) \in Supported
    BY <1>4, <2>1, <2>2
  <2>. QED  BY <2>3 DEF GuardRefusal, When
<1>. QED  BY <1>11, <1>14, <1>15 DEF Ended, b, c, m

\* The words that name a construct other than a vlan; without them the
\* request is for a vlan or for nothing.
Others == {"mac-vrf", "e-line", "evpn", "ip-vrf", "acl", "filter"}

LEMMA ServiceTypeIs ==
    ASSUME NEW a, NEW b, b.words = a.words
    PROVE  /\ a.words \cap Others = {} =>
                ServiceType(a) = IF "vlan" \in a.words \/ TextTag(a) # 0 THEN "vlan" ELSE "none"
           /\ a.words \cap Others # {} => ServiceType(b) = ServiceType(a)
BY DEF ServiceType, Others

\* A request without SRv6 that the mapper neither refuses nor fails on.
Served0(a) ==
    /\ a \in AskType /\ ~NamesSRv6(a) /\ Unsupported(a) = {} /\ ~Raises(a)
    /\ ~IllegalTag(a)

\* What is in it besides its construct.
LEMMA Served0Is ==
    ASSUME NEW a
    PROVE  Served0(a) <=>
             /\ a \in AskType /\ ~NamesSRv6(a) /\ ~a.feature /\ Spine(a) = "none"
             /\ ServiceType(a) # "none" /\ Construct(a) = ServiceType(a)
             /\ a.gateway # "none" => ServiceType(a) = "mac-vrf"
             /\ ServiceType(a) = "acl" => FilterFound(a)
             /\ ~IllegalTag(a)
<1>1. ServiceType(a) # "refused"
  BY DEF ServiceType
<1>2. ~NamesSRv6(a) /\ ServiceType(a) # "none" => Construct(a) = ServiceType(a)
  BY <1>1 DEF Construct
<1>3. ~NamesSRv6(a) =>
        (Unsupported(a) = {} <=> /\ ~a.feature /\ Spine(a) = "none" /\ ServiceType(a) # "none"
                                 /\ a.gateway # "none" => ServiceType(a) = "mac-vrf")
  BY DEF Unsupported, When
<1>4. ~NamesSRv6(a) /\ ServiceType(a) # "none" /\ ~IllegalTag(a) =>
        (~Raises(a) <=> (ServiceType(a) = "acl" => FilterFound(a)))
  BY <1>2 DEF Raises
<1>. QED  BY <1>2, <1>3, <1>4 DEF Served0

\* One answer is all it takes.
LEMMA OtherAnswered ==
    ASSUME CanAnswer, NEW a, Served0(a), NEW v, "endpoints" \in Missing(a) => a.tag <= 4094
    PROVE  Served0(Restated(a, v)) /\ Missing(Restated(a, v)) = {}
<1>. DEFINE b == Restated(a, v)
            m == Missing(a)
<1>1. /\ a \in AskType /\ ~NamesSRv6(a) /\ ~a.feature /\ Spine(a) = "none"
      /\ ServiceType(a) # "none" /\ Construct(a) = ServiceType(a)
      /\ a.gateway # "none" => ServiceType(a) = "mac-vrf"
      /\ ServiceType(a) = "acl" => FilterFound(a)
      /\ ~IllegalTag(a)
      /\ "endpoints" \in m => a.tag <= 4094
  BY Served0Is
<1>2. /\ b \in AskType
      /\ b.srv6 = a.srv6 /\ b.feature = a.feature /\ b.tenant /\ b.prefer = a.prefer
      /\ b.words = a.words \cup When(m \cap {"srv6_construct", "srv6_signalling"} # {},
                                     IF v = <<"mac-vrf", "evpn">> THEN "bridged" ELSE "routed")
      /\ b.clauses = IF m \cap {"endpoints", "srv6_other_endpoint"} # {} THEN End ELSE a.clauses
      /\ b.tag = IF "srv6_vlan" \in m THEN Usable ELSE a.tag
      /\ b.filter = IF "acl.stage" \in m THEN "whole" ELSE a.filter
      /\ b.gateway = IF "anycast_gateway" \in m THEN "address" ELSE a.gateway
      /\ b.via = IF "srv6_preferred_spine" \in m THEN "known" ELSE a.via
  BY <1>1, RestatedIs
<1>. HIDE DEF b
<1>3. /\ m \subseteq {"tenant", "endpoints", "acl.stage", "anycast_gateway"}
      /\ "endpoints" \in m <=> Len(a.clauses) < (IF Construct(a) = "mac-vrf" THEN 2 ELSE 1)
      /\ "acl.stage" \in m <=> a.filter = "rule"
      /\ "anycast_gateway" \in m <=> a.gateway = "named" /\ Construct(a) = "mac-vrf"
  BY <1>1, OtherMissingIs
<1>. HIDE DEF m
<1>4. /\ b.words = a.words /\ b.tag = a.tag /\ b.via = a.via
      /\ b.clauses = IF "endpoints" \in m THEN End ELSE a.clauses
  <2>1. m \cap {"srv6_construct", "srv6_signalling"} = {} /\ "srv6_vlan" \notin m
        /\ "srv6_preferred_spine" \notin m
    BY <1>3
  <2>2. m \cap {"endpoints", "srv6_other_endpoint"} # {} <=> "endpoints" \in m
    BY <1>3
  <2>3. When(m \cap {"srv6_construct", "srv6_signalling"} # {},
             IF v = <<"mac-vrf", "evpn">> THEN "bridged" ELSE "routed") = {}
    BY <2>1 DEF When
  <2>. QED  BY <1>2, <2>1, <2>2, <2>3
<1>5. ~NamesSRv6(b) /\ Spine(b) = "none"
  BY <1>1, <1>2, <1>4 DEF NamesSRv6, Spine
<1>6. a.words \cap Others = {} => TextTag(b) # 0 \/ "vlan" \in a.words
  <2>1. SUFFICES ASSUME a.words \cap Others = {}, "vlan" \notin a.words
                 PROVE  TextTag(b) # 0
    OBVIOUS
  <2>2. TextTag(a) # 0 /\ ServiceType(a) = "vlan"
    BY <1>1, <2>1, ServiceTypeIs
  <2>3. CASE "endpoints" \in m
    <3>1. DOMAIN a.clauses = {}
      BY <1>1, <1>3, <2>2, <2>3, ClausesOf
    <3>2. a.tag # 0
      BY <1>1, <2>2, <3>1, TextTagIs
    <3>. QED  BY <1>2, <1>4, <3>2, TextTagIs
  <2>4. CASE "endpoints" \notin m
    BY <1>1, <1>2, <1>4, <2>2, <2>4, TextTagIs
  <2>. QED  BY <2>3, <2>4
<1>7. ServiceType(b) = ServiceType(a)
  <2>1. CASE a.words \cap Others = {}
    BY <1>1, <1>4, <1>6, <2>1, ServiceTypeIs
  <2>2. CASE a.words \cap Others # {}
    BY <1>4, <2>2, ServiceTypeIs
  <2>. QED  BY <2>1, <2>2
<1>8. Construct(b) = ServiceType(b)
  <2>1. ServiceType(b) # "refused"
    BY DEF ServiceType
  <2>. QED  BY <1>1, <1>5, <1>7, <2>1 DEF Construct
<1>9. ~IllegalTag(b)
  BY <1>1, <1>2, <1>4, LegalStays
<1>10. ServiceType(b) = "acl" => FilterFound(b)
  BY <1>1, <1>2, <1>7 DEF FilterFound
<1>11. b.gateway # "none" => ServiceType(b) = "mac-vrf"
  BY <1>1, <1>2, <1>3, <1>7
<1>12. Served0(b)
  BY <1>1, <1>2, <1>5, <1>7, <1>8, <1>9, <1>10, <1>11, Served0Is
<1>13. Missing(b) = {}
  <2>1. /\ Missing(b) \subseteq {"tenant", "endpoints", "acl.stage", "anycast_gateway"}
        /\ "tenant" \in Missing(b) <=> ~b.tenant
        /\ "endpoints" \in Missing(b) <=> Len(b.clauses) < (IF Construct(b) = "mac-vrf" THEN 2 ELSE 1)
        /\ "acl.stage" \in Missing(b) <=> b.filter = "rule"
        /\ "anycast_gateway" \in Missing(b) <=> b.gateway = "named" /\ Construct(b) = "mac-vrf"
    BY <1>5, OtherMissingIs
  <2>2. "endpoints" \notin Missing(b)
    <3>1. Len(End) = 2
      BY EndIs
    <3>2. Construct(b) = Construct(a)
      BY <1>1, <1>7, <1>8
    <3>3. CASE "endpoints" \in m
      <4>1. Len(b.clauses) = 2
        BY <1>4, <3>1, <3>3
      <4>2. ~(2 < IF Construct(b) = "mac-vrf" THEN 2 ELSE 1)
        OBVIOUS
      <4>. QED  BY <2>1, <4>1, <4>2
    <3>4. CASE "endpoints" \notin m
      <4>1. b.clauses = a.clauses
        BY <1>4, <3>4
      <4>. QED  BY <1>3, <2>1, <3>2, <3>4, <4>1
    <3>. QED  BY <3>3, <3>4
  <2>3. "acl.stage" \notin Missing(b) /\ "anycast_gateway" \notin Missing(b)
    BY <1>1, <1>2, <1>3, <1>7, <1>8, <2>1
  <2>. QED  BY <1>2, <2>1, <2>2, <2>3
<1>. QED  BY <1>12, <1>13 DEF b

\* With an illegal vlan in front of no endpoint it is the last.
LEMMA OtherFails ==
    ASSUME CanAnswer, NEW a, Served0(a), NEW v, "endpoints" \in Missing(a), a.tag > 4094
    PROVE  Fails(a, v)
<1>. DEFINE b == Restated(a, v)
            m == Missing(a)
<1>1. a \in AskType /\ ~NamesSRv6(a)
  BY DEF Served0
<1>2. /\ b \in AskType /\ b.srv6 = a.srv6
      /\ b.clauses = IF m \cap {"endpoints", "srv6_other_endpoint"} # {} THEN End ELSE a.clauses
      /\ b.tag = IF "srv6_vlan" \in m THEN Usable ELSE a.tag
  BY <1>1, RestatedIs
<1>. HIDE DEF b
<1>3. m \subseteq {"tenant", "endpoints", "acl.stage", "anycast_gateway"}
  BY <1>1, OtherMissingIs
<1>4. m \cap {"endpoints", "srv6_other_endpoint"} # {}
  OBVIOUS
<1>. HIDE DEF m
<1>5. b.clauses = End /\ b.tag = a.tag /\ ~NamesSRv6(b)
  BY <1>1, <1>2, <1>3, <1>4 DEF NamesSRv6
<1>6. Raises(b)
  BY <1>2, <1>5, IllegalComes DEF Raises
<1>. QED  BY <1>4, <1>6 DEF Verdict, Fails, b, m

LEMMA OtherEnds ==
    ASSUME CanAnswer, NEW a, Served0(a), NEW v
    PROVE  Offered(a) = {} /\ (Fails(a, v) \/ Ended(a, v))
<1>1. Offered(a) = {}
  <2>1. Missing(a) \subseteq {"tenant", "endpoints", "acl.stage", "anycast_gateway"}
    BY OtherMissingIs DEF Served0
  <2>2. \A field \in Missing(a) : Options(field) = {}
    BY <2>1 DEF Options
  <2>. QED  BY <2>2 DEF Offered
<1>2. a.tag \in Nat
  BY ClausesOf DEF Served0
<1>3. CASE "endpoints" \in Missing(a) /\ a.tag > 4094
  BY <1>1, <1>3, OtherFails
<1>4. CASE "endpoints" \in Missing(a) => a.tag <= 4094
  <2>. DEFINE b == Restated(a, v)
              c == Restated(b, v)
  <2>1. Served0(b) /\ Missing(b) = {}
    BY <1>4, OtherAnswered
  <2>. HIDE DEF b
  <2>2. Served0(c) /\ Missing(c) = {}
    BY <2>1, OtherAnswered
  <2>. HIDE DEF c
  <2>3. Verdict(c) = "complete"
    BY <2>2 DEF Verdict, Served0
  <2>. QED  BY <1>1, <2>1, <2>3 DEF Ended, b, c
<1>. QED  BY <1>2, <1>3, <1>4

\* Whatever is asked about ends.
LEMMA AskEnds ==
    ASSUME CanAnswer, NEW a \in AskType, Verdict(a) = "clarify",
           NEW v, Offered(a) # {} => v \in Offered(a)
    PROVE  Fails(a, v) \/ Ended(a, v)
<1>1. ~Raises(a) /\ Unsupported(a) = {} /\ Missing(a) # {}
  BY DEF Verdict
<1>2. CASE ~NamesSRv6(a)
  <2>1. ~IllegalTag(a)
    BY <1>1, <1>2 DEF Raises
  <2>2. Served0(a)
    BY <1>1, <1>2, <2>1 DEF Served0
  <2>. QED  BY <2>2, OtherEnds
<1>3. CASE NamesSRv6(a)
  <2>1. ~a.feature /\ ~a.vxlan /\ SRv6Construct(a) # "refused"
    BY <1>1, <1>3 DEF Unsupported, When
  <2>2. CASE SRv6Construct(a) = "none"
    BY <1>3, <2>1, <2>2, UnclearEnds
  <2>3. CASE SRv6Construct(a) \in {"mac-vrf", "ip-vrf"}
    <3>1. ~IllegalTag(a)
      BY <1>1, <2>1, <2>3 DEF Raises
    <3>2. Served6(a)
      BY <1>3, <2>1, <2>3, <3>1 DEF Served6
    <3>. QED  BY <3>2, ClearEnds
  <2>. QED  BY <2>1, <2>2, <2>3, SRv6ConstructIs
<1>. QED  BY <1>2, <1>3

\* FR-010, for any number of nodes, ports, vlans and requests and whatever
\* the site supports, there being something to answer with: a clarification
\* comes to an end, an interpretation or, of a vlan above 4094 in front of
\* missing endpoints, a failure (mapper/agent.py:273-407, graph.py:363-402).
THEOREM ClarificationsEnd ==
    ASSUME CanAnswer
    PROVE  Spec => []ClarificationEnds
<1>. DEFINE Asked == asks \in Scenes
<1>1. Init => Asked
  BY DEF Init
<1>2. Asked /\ [Next]_vars => Asked'
  <2>1. [Next]_vars => UNCHANGED asks
    BY DEF Next, vars, Sends, Remembers, Takes, Works, Numbers, Leasing, Prefixes, Ending, Crashes,
           ServedClaim, ServedExhausted, FallsBack, ToLeases, ClaimLost, LeasesListed, LeaseCreated, LeaseExists,
           RoundOver, LeasesExhausted, LeaseLost, PrefixRead, PrefixCarved, PrefixRaced, PrefixLost,
           LateRefusal, Issues, CallRaises
  <2>. QED  BY <2>1
<1>3. Asked => ClarificationEnds
  <2>. SUFFICES ASSUME Asked PROVE ClarificationEnds
    OBVIOUS
  <2>1. SUFFICES ASSUME NEW r \in Requests, Verdict(asks[r]) = "clarify",
                        NEW v \in IF Offered(asks[r]) = {} THEN {<<>>} ELSE Offered(asks[r])
                 PROVE  Fails(asks[r], v) \/ Ended(asks[r], v)
    BY DEF ClarificationEnds, Fails, Ended, Offered
  <2>2. asks[r] \in AskType
    BY AllocationAssumption
  <2>3. Offered(asks[r]) # {} => v \in Offered(asks[r])
    BY <2>1
  <2>. QED  BY <2>1, <2>2, <2>3, AskEnds
<1>. QED  BY <1>1, <1>2, <1>3, PTL DEF Spec

=============================================================================
