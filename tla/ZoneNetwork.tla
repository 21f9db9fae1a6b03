---------------------------- MODULE ZoneNetwork ----------------------------
(***************************************************************************)
(* The zone-agent network of the Go backend: backend/internal/agent        *)
(* (node.go, network.go) with the two things its agents share, the map of  *)
(* the state manager (state/manager.go) and the audit log of the signage   *)
(* service (intervention/signage.go), and the two things that drive it,    *)
(* the telemetry handler (api/handlers.go) and the shutdown of             *)
(* cmd/server/main.go.                                                     *)
(*                                                                         *)
(* Four kinds of process take steps:                                       *)
(*   - a telemetry request stores each sample of its batch in the state    *)
(*     manager and then offers it to the inbox of the agent that owns the  *)
(*     zone;                                                               *)
(*   - an agent, one goroutine per zone, takes samples from its inbox and  *)
(*     offers from its negotiation channel, one at a time;                 *)
(*   - a talk, the goroutine shedLoad starts for every overflow, carries   *)
(*     one offer to one neighbour, waits for the answer and records what   *)
(*     follows from it in the audit log;                                   *)
(*   - the operating system stops the server.                              *)
(* The order of messages, the facts an agent reads and the answers it      *)
(* gives are kept; the text of messages, severities and clock times are    *)
(* not.                                                                    *)
(***************************************************************************)
EXTENDS Integers, Sequences

CONSTANTS
    Ring,       \* the configured zone ids in topology order
    Strangers,  \* zone ids that telemetry may name and no agent owns
    NoZone,     \* the empty zone id of an absent target
    Handlers,   \* the telemetry requests that may be in progress at a time
    Batches,    \* the batches of samples a request may carry
    InboxCap,   \* capacity of an agent's Inbox channel (64 in network.go)
    NegCap,     \* capacity of its Negotiation channel (8 in network.go)
    MaxPosts    \* bound: telemetry requests in a behaviour

Zones == {Ring[k] : k \in 1..Len(Ring)}
Places == Zones \cup Strangers

Levels == {"UNSET", "LOW", "MODERATE", "HIGH", "CRITICAL"}
Metric == [capacity : Int, occupancy : Int, density : Nat,
           congestion : Levels, offline : BOOLEAN]
Sample == [zone : Places, metric : Metric]

ASSUME RingAssumption ==
    /\ Ring \in Seq(Zones)
    /\ \A j, k \in 1..Len(Ring) : Ring[j] = Ring[k] => j = k
ASSUME StrangersAssumption == Strangers \cap Zones = {} /\ NoZone \notin Places
ASSUME BatchesAssumption == Batches \subseteq Seq(Sample) /\ <<>> \notin Batches
ASSUME CapacityAssumption ==
    /\ InboxCap \in Nat \ {0}
    /\ NegCap \in Nat \ {0}
    /\ MaxPosts \in Nat

VARIABLES
    facts,        \* the state manager's metrics map
    work,         \* per telemetry request: the samples still to be ingested
    stored,       \* per telemetry request: its first sample has been Set
    posts,        \* telemetry requests so far
    rivals,       \* history, per zone: samples that were between Set and Deliver when its fact was Set
    inbox,        \* per zone: the Inbox channel
    negotiation,  \* per zone: the Negotiation channel, of indices into talks
    last,         \* per zone: the sample its agent decides on
    pc,           \* per zone: where its agent stands
    scan,         \* per zone: the state of leastLoadedNeighbor's loop
    answering,    \* per zone: the offer being answered and the verdict
    dropped,      \* per zone: its newest sample was dropped by a full inbox
    talks,        \* every load-shedding goroutine started so far
    log,          \* the audit log of the signage service
    phase         \* of the server process: "up", "draining" or "gone"

ingestVars == <<work, stored, posts, rivals>>
agentVars == <<last, pc, scan, answering>>
channelVars == <<inbox, negotiation, dropped>>
vars == <<facts, ingestVars, agentVars, channelVars, talks, log, phase>>

-----------------------------------------------------------------------------
(* Data. *)

ZeroMetric == [capacity |-> 0, occupancy |-> 0, density |-> 0,
               congestion |-> "UNSET", offline |-> FALSE]
Overflow(m) == m.occupancy - m.capacity
Spare(m) == m.capacity - m.occupancy

congestionRank(level) ==
    CASE level = "LOW"      -> 0
      [] level = "MODERATE" -> 1
      [] level = "HIGH"     -> 2
      [] level = "CRITICAL" -> 3
      [] OTHER              -> 99

\* Ring adjacency of BuildNetwork: the zones before and after, in that order.
RingPrev(k) == IF k = 1 THEN Ring[Len(Ring)] ELSE Ring[k - 1]
RingNext(k) == IF k = Len(Ring) THEN Ring[1] ELSE Ring[k + 1]
Position(z) == CHOOSE k \in 1..Len(Ring) : Ring[k] = z
Neighbors == [z \in Zones |-> <<RingPrev(Position(z)), RingNext(Position(z))>>]
isNeighbor(z, p) == p \in {Neighbors[z][1], Neighbors[z][2]}

\* leastLoadedNeighbor before its first iteration; 1e9 is its bestDensity.
FarDensity == 1000000000
\* Mutant: the search starts at a rank that only a zone below CRITICAL beats.
FreshScan_SkipsCritical(overflow) ==
    [overflow |-> overflow, next |-> 1, best |-> NoZone, rank |-> 3, density |-> 0]
FreshScan(overflow) ==
    [overflow |-> overflow, next |-> 1, best |-> NoZone,
     rank |-> 99, density |-> FarDensity]
NoScan == FreshScan(0)
Beats(m, s) ==
    LET rank == congestionRank(m.congestion)
    IN  rank < s.rank \/ (rank = s.rank /\ m.density < s.density)

\* The zones shuttleDestination may return: of the zones the manager knows,
\* other than z and its neighbours, those with the most spare capacity, if
\* that holds the whole overflow. Map order decides between equals.
shuttleDestination(z, overflow) ==
    LET able == {d \in DOMAIN facts :
                    d # z /\ ~isNeighbor(z, d) /\ Spare(facts[d]) >= overflow}
    IN  {d \in able : \A e \in able : Spare(facts[d]) >= Spare(facts[e])}

Actions == {"SIGNAGE_REROUTE", "DYNAMIC_SHUTTLE", "HOLD_INFLOW", "DISPATCH_STAFF"}

\* An intervention; "about" is the talk its message describes, 0 for none.
Entry(zone, type, target, about) ==
    [zone |-> zone, type |-> type, target |-> target, about |-> about]

NoAnswer == [talk |-> 0, accept |-> FALSE]

Verdicts == {"accepted", "rejected"}
Answers == Verdicts \cup {"timeout", "cancelled"}
NewTalk(from, to, overflow) ==
    [from |-> from, to |-> to, overflow |-> overflow, stage |-> "sending",
     reply |-> "empty", answer |-> "none", action |-> "none", dest |-> NoZone]

-----------------------------------------------------------------------------
(* The initial state: NewManager seeded with the topology, BuildNetwork. *)

Init ==
    /\ facts = [z \in Zones |-> ZeroMetric]
    /\ work = [h \in Handlers |-> <<>>]
    /\ stored = [h \in Handlers |-> FALSE]
    /\ posts = 0
    /\ rivals = [z \in Zones |-> {}]
    /\ inbox = [z \in Zones |-> <<>>]
    /\ negotiation = [z \in Zones |-> <<>>]
    /\ last = [z \in Zones |-> ZeroMetric]
    /\ pc = [z \in Zones |-> "select"]
    /\ scan = [z \in Zones |-> NoScan]
    /\ answering = [z \in Zones |-> NoAnswer]
    /\ dropped = [z \in Zones |-> FALSE]
    /\ talks = <<>>
    /\ log = <<>>
    /\ phase = "up"

-----------------------------------------------------------------------------
(* Telemetry requests: handleTelemetry, one sample at a time. *)

\* A request arrives with a batch that decodes and is not empty.
Post(h, batch) ==
    /\ phase # "gone"
    /\ work[h] = <<>>
    /\ posts < MaxPosts
    /\ posts' = posts + 1
    /\ work' = [work EXCEPT ![h] = batch]
    /\ UNCHANGED <<facts, stored, rivals, agentVars, channelVars, talks, log, phase>>

\* The samples of zone z that requests other than h have Set and not yet delivered.
BetweenSteps(h, z) ==
    {Head(work[g]).metric : g \in {g \in Handlers \ {h} : stored[g] /\ Head(work[g]).zone = z}}

\* state.Set(m): the fact is stored, whether or not the zone is known.
SetFact(h) ==
    /\ phase # "gone"
    /\ work[h] # <<>>
    /\ ~stored[h]
    /\ LET s == Head(work[h])
       IN  /\ facts' = [p \in DOMAIN facts \cup {s.zone} |->
                           IF p = s.zone THEN s.metric ELSE facts[p]]
           /\ rivals' = [z \in Zones |->
                           IF z = s.zone THEN BetweenSteps(h, z) ELSE rivals[z]]
    /\ stored' = [stored EXCEPT ![h] = TRUE]
    /\ UNCHANGED <<work, posts, agentVars, channelVars, talks, log, phase>>

\* The non-blocking send of Deliver finds a free place in the inbox.
\* Mutant: off by one.
InboxHasRoom_OffByOne(z) == Len(inbox[z]) <= InboxCap
InboxHasRoom(z) == Len(inbox[z]) < InboxCap

\* net.Deliver(m): ignored for a zone without an agent, dropped when the
\* agent's inbox is full, queued otherwise. Then the loop moves on.
Deliver(h) ==
    /\ phase # "gone"
    /\ work[h] # <<>>
    /\ stored[h]
    /\ LET s == Head(work[h])
       IN  \/ /\ s.zone \notin Zones
              /\ UNCHANGED <<inbox, dropped>>
           \/ /\ s.zone \in Zones
              /\ ~InboxHasRoom(s.zone)
              /\ dropped' = [dropped EXCEPT ![s.zone] = TRUE]
              /\ UNCHANGED inbox
           \/ /\ s.zone \in Zones
              /\ InboxHasRoom(s.zone)
              /\ inbox' = [inbox EXCEPT ![s.zone] = Append(@, s.metric)]
              /\ dropped' = [dropped EXCEPT ![s.zone] = FALSE]
    /\ work' = [work EXCEPT ![h] = Tail(@)]
    /\ stored' = [stored EXCEPT ![h] = FALSE]
    /\ UNCHANGED <<facts, posts, rivals, agentVars, negotiation, talks, log, phase>>

Ingest(h) == SetFact(h) \/ Deliver(h)

-----------------------------------------------------------------------------
(* Agents: Node.Run and what it calls. *)

\* evaluate: the agent remembers the sample and, for a CRITICAL zone above
\* its capacity, goes on to shed load.
\* Mutant: only samples that demand action are remembered.
evaluate_CriticalOnly(z, m) ==
    IF m.congestion = "CRITICAL" /\ Overflow(m) > 0
    THEN /\ last' = [last EXCEPT ![z] = m]
         /\ pc' = [pc EXCEPT ![z] = "scan"]
         /\ scan' = [scan EXCEPT ![z] = FreshScan(Overflow(m))]
    ELSE UNCHANGED <<last, pc, scan>>
evaluate(z, m) ==
    /\ last' = [last EXCEPT ![z] = m]
    /\ IF m.congestion = "CRITICAL" /\ Overflow(m) > 0
       THEN /\ pc' = [pc EXCEPT ![z] = "scan"]
            /\ scan' = [scan EXCEPT ![z] = FreshScan(Overflow(m))]
       ELSE UNCHANGED <<pc, scan>>

TakeSample(z) ==
    /\ phase # "gone"
    /\ pc[z] = "select"
    /\ inbox[z] # <<>>
    /\ evaluate(z, Head(inbox[z]))
    /\ inbox' = [inbox EXCEPT ![z] = Tail(@)]
    /\ UNCHANGED <<facts, ingestVars, answering, negotiation, dropped, talks, log, phase>>

\* One iteration of leastLoadedNeighbor: each Get is a lock of its own, so
\* facts may change between two of them.
ScanNeighbor(z) ==
    /\ phase # "gone"
    /\ pc[z] = "scan"
    /\ scan[z].next <= Len(Neighbors[z])
    /\ LET id == Neighbors[z][scan[z].next]
           on == [scan[z] EXCEPT !.next = @ + 1]
       IN  scan' = [scan EXCEPT ![z] =
               IF id \in DOMAIN facts /\ Beats(facts[id], scan[z])
               THEN [on EXCEPT !.best = id,
                               !.rank = congestionRank(facts[id].congestion),
                               !.density = facts[id].density]
               ELSE on]
    /\ UNCHANGED <<facts, ingestVars, last, pc, answering, channelVars, talks, log, phase>>

\* The rest of shedLoad: dispatch staff when there was no neighbour to ask,
\* start the goroutine that negotiates with it otherwise.
ShedLoad(z) ==
    /\ phase # "gone"
    /\ pc[z] = "scan"
    /\ scan[z].next > Len(Neighbors[z])
    /\ IF scan[z].best = NoZone
       THEN /\ log' = Append(log, Entry(z, "DISPATCH_STAFF", NoZone, 0))
            /\ UNCHANGED talks
       ELSE /\ talks' = Append(talks, NewTalk(z, scan[z].best, scan[z].overflow))
            /\ UNCHANGED log
    /\ pc' = [pc EXCEPT ![z] = "select"]
    /\ scan' = [scan EXCEPT ![z] = NoScan]
    /\ UNCHANGED <<facts, ingestVars, last, answering, channelVars, phase>>

CanAbsorb(z, offer) ==
    Spare(last[z]) >= offer.overflow /\ last[z].congestion # "CRITICAL"

\* What onNegotiation adds to the audit log.
\* Mutants: the signage is never changed; it is changed for a refusal, too.
SignageChange_Forgotten(z, i, accept) == <<>>
SignageChange_Always(z, i, accept) ==
    <<Entry(z, "SIGNAGE_REROUTE", talks[i].from, i)>>
SignageChange(z, i, accept) ==
    IF accept THEN <<Entry(z, "SIGNAGE_REROUTE", talks[i].from, i)>> ELSE <<>>

\* onNegotiation up to its signage change: the verdict on the first offer.
TakeOffer(z) ==
    /\ phase # "gone"
    /\ pc[z] = "select"
    /\ negotiation[z] # <<>>
    /\ LET i == Head(negotiation[z])
           accept == CanAbsorb(z, talks[i])
       IN  /\ answering' = [answering EXCEPT ![z] = [talk |-> i, accept |-> accept]]
           /\ log' = log \o SignageChange(z, i, accept)
    /\ negotiation' = [negotiation EXCEPT ![z] = Tail(@)]
    /\ pc' = [pc EXCEPT ![z] = "reply"]
    /\ UNCHANGED <<facts, ingestVars, last, scan, inbox, dropped, talks, phase>>

\* The non-blocking send into the one-place reply channel.
\* Mutant: a blocking send into a channel without a place.
PutReply_Unbuffered(i, verdict) ==
    /\ talks[i].stage = "waiting"
    /\ talks' = [talks EXCEPT ![i].reply = verdict]
PutReply(i, verdict) ==
    talks' = IF talks[i].reply = "empty"
             THEN [talks EXCEPT ![i].reply = verdict]
             ELSE talks

\* The end of onNegotiation.
SendReply(z) ==
    /\ phase # "gone"
    /\ pc[z] = "reply"
    /\ PutReply(answering[z].talk,
                IF answering[z].accept THEN "accepted" ELSE "rejected")
    /\ pc' = [pc EXCEPT ![z] = "select"]
    /\ answering' = [answering EXCEPT ![z] = NoAnswer]
    /\ UNCHANGED <<facts, ingestVars, last, scan, channelVars, log, phase>>

\* Run sees ctx.Done; select may take any ready case, so not at once.
\* Mutant: break leaves the select and not the loop.
Stop_Break(z) ==
    /\ phase = "draining"
    /\ pc[z] = "select"
    /\ UNCHANGED vars
Stop(z) ==
    /\ phase = "draining"
    /\ pc[z] = "select"
    /\ pc' = [pc EXCEPT ![z] = "stopped"]
    /\ UNCHANGED <<facts, ingestVars, last, scan, answering, channelVars, talks, log, phase>>

Agent(z) ==
    \/ TakeSample(z) \/ ScanNeighbor(z) \/ ShedLoad(z)
    \/ TakeOffer(z) \/ SendReply(z) \/ Stop(z)

-----------------------------------------------------------------------------
(* Talks: the goroutine of shedLoad, and Network.Negotiate within it.      *)

\* The offer fits into the neighbour's channel, whatever its agent is doing.
SendOffer(i) ==
    /\ phase # "gone"
    /\ talks[i].stage = "sending"
    /\ Len(negotiation[talks[i].to]) < NegCap
    /\ negotiation' = [negotiation EXCEPT ![talks[i].to] = Append(@, i)]
    /\ talks' = [talks EXCEPT ![i].stage = "waiting"]
    /\ UNCHANGED <<facts, ingestVars, agentVars, inbox, dropped, log, phase>>

\* Negotiate returns with this answer.
Return(i, answer) ==
    /\ talks' = [talks EXCEPT ![i].stage = "answered", ![i].answer = answer]
    /\ UNCHANGED <<facts, ingestVars, agentVars, channelVars, log, phase>>

TakeReply(i) ==
    /\ phase # "gone"
    /\ talks[i].stage = "waiting"
    /\ talks[i].reply # "empty"
    /\ Return(i, talks[i].reply)

\* time.After(2 * time.Second), which an answer may race.
\* Mutant: an offer that timed out is sent again.
TimeOut_Resend(i) ==
    /\ phase # "gone"
    /\ talks[i].stage = "waiting"
    /\ talks' = [talks EXCEPT ![i].stage = "sending"]
    /\ UNCHANGED <<facts, ingestVars, agentVars, channelVars, log, phase>>
TimeOut(i) ==
    /\ phase # "gone"
    /\ talks[i].stage = "waiting"
    /\ Return(i, "timeout")

\* ctx.Done in either select.
\* Mutant: the send does not watch the context.
Cancel_WaitOnly(i) ==
    /\ phase = "draining"
    /\ talks[i].stage = "waiting"
    /\ Return(i, "cancelled")
Cancel(i) ==
    /\ phase = "draining"
    /\ talks[i].stage \in {"sending", "waiting"}
    /\ Return(i, "cancelled")

\* What follows from the answer: a reroute when it was accepted, otherwise a
\* shuttle if the manager's snapshot has room for one, otherwise a hold.
\* Mutant: whatever is not a rejection counts as an acceptance.
Consequences_Optimistic(i) ==
    LET t == talks[i]
        dests == shuttleDestination(t.from, t.overflow)
    IN  IF t.answer # "rejected" THEN {<<"SIGNAGE_REROUTE", t.to>>}
        ELSE IF dests # {} THEN {"DYNAMIC_SHUTTLE"} \X dests
        ELSE {<<"HOLD_INFLOW", NoZone>>}
Consequences(i) ==
    LET t == talks[i]
        dests == shuttleDestination(t.from, t.overflow)
    IN  IF t.answer = "accepted" THEN {<<"SIGNAGE_REROUTE", t.to>>}
        ELSE IF dests # {} THEN {"DYNAMIC_SHUTTLE"} \X dests
        ELSE {<<"HOLD_INFLOW", NoZone>>}
Decide(i) ==
    /\ phase # "gone"
    /\ talks[i].stage = "answered"
    /\ \E c \in Consequences(i) :
          talks' = [talks EXCEPT ![i].stage = "decided",
                                 ![i].action = c[1], ![i].dest = c[2]]
    /\ UNCHANGED <<facts, ingestVars, agentVars, channelVars, log, phase>>

\* n.intervene: the consequence enters the audit log, the goroutine ends.
Intervene(i) ==
    /\ phase # "gone"
    /\ talks[i].stage = "decided"
    /\ log' = Append(log, Entry(talks[i].from, talks[i].action, talks[i].dest, i))
    /\ talks' = [talks EXCEPT ![i].stage = "done"]
    /\ UNCHANGED <<facts, ingestVars, agentVars, channelVars, phase>>

TalkStep(i) ==
    \/ SendOffer(i) \/ TakeReply(i) \/ TimeOut(i) \/ Cancel(i)
    \/ Decide(i) \/ Intervene(i)

-----------------------------------------------------------------------------
(* The server process: a signal cancels the context, later main returns.   *)

Shutdown ==
    /\ phase = "up"
    /\ phase' = "draining"
    /\ UNCHANGED <<facts, ingestVars, agentVars, channelVars, talks, log>>

Exit ==
    /\ phase = "draining"
    /\ phase' = "gone"
    /\ UNCHANGED <<facts, ingestVars, agentVars, channelVars, talks, log>>

Next ==
    \/ \E h \in Handlers, b \in Batches : Post(h, b)
    \/ \E h \in Handlers : Ingest(h)
    \/ \E z \in Zones : Agent(z)
    \/ \E i \in DOMAIN talks : TalkStep(i)
    \/ Shutdown
    \/ Exit

Spec == Init /\ [][Next]_vars

\* Every sample is the cause of at most one talk.
MaxTalks == MaxPosts * (CHOOSE n \in {Len(b) : b \in Batches} :
                           \A b \in Batches : Len(b) <= n)

\* The Go scheduler runs every goroutine that can run, and the two-second
\* timer of a waiting talk does fire. Nothing obliges a request to come, a
\* signal to arrive or the process to exit.
Fairness ==
    /\ \A h \in Handlers : WF_vars(Ingest(h))
    /\ \A z \in Zones : WF_vars(Agent(z))
    /\ \A i \in 1..MaxTalks : WF_vars(i \in DOMAIN talks /\ TalkStep(i))

FairSpec == Spec /\ Fairness

-----------------------------------------------------------------------------
(* Properties. *)

Talk == [from : Zones, to : Zones, overflow : Int,
         stage : {"sending", "waiting", "answered", "decided", "done"},
         reply : Verdicts \cup {"empty"}, answer : Answers \cup {"none"},
         action : Actions \cup {"none"}, dest : Places \cup {NoZone}]

Scan == [overflow : Int, next : 1..3, best : Zones \cup {NoZone},
         rank : Nat, density : Nat]
Answer == [talk : Nat, accept : BOOLEAN]
Intervention == [zone : Zones, type : Actions,
                 target : Places \cup {NoZone}, about : Nat]

\* Every variable has the type of the Go value it stands for, and no channel
\* holds more than its capacity.
TypeOK ==
    /\ Zones \subseteq DOMAIN facts /\ DOMAIN facts \subseteq Places
    /\ facts \in [DOMAIN facts -> Metric]
    /\ work \in [Handlers -> Seq(Sample)]
    /\ stored \in [Handlers -> BOOLEAN]
    /\ \A h \in Handlers : stored[h] => work[h] # <<>>
    /\ posts \in 0..MaxPosts
    /\ rivals \in [Zones -> SUBSET Metric]
    /\ inbox \in [Zones -> Seq(Metric)]
    /\ \A z \in Zones : Len(inbox[z]) <= InboxCap
    /\ talks \in Seq(Talk)
    /\ negotiation \in [Zones -> Seq(DOMAIN talks)]
    /\ \A z \in Zones : Len(negotiation[z]) <= NegCap
    /\ last \in [Zones -> Metric]
    /\ pc \in [Zones -> {"select", "scan", "reply", "stopped"}]
    /\ scan \in [Zones -> Scan]
    /\ answering \in [Zones -> Answer]
    /\ \A z \in Zones : pc[z] = "reply" => answering[z].talk \in DOMAIN talks
    /\ dropped \in [Zones -> BOOLEAN]
    /\ log \in Seq(Intervention)
    /\ phase \in {"up", "draining", "gone"}

\* A talk that has been decided has an action to record.
DecidedTalksAct ==
    \A i \in DOMAIN talks :
        talks[i].stage \in {"decided", "done"} => talks[i].action \in Actions

Queued(i) == \E q \in DOMAIN negotiation[talks[i].to] : negotiation[talks[i].to][q] = i
InHand(i) == pc[talks[i].to] = "reply" /\ answering[talks[i].to].talk = i
Replied(i) == talks[i].reply # "empty"

\* No answer is lost and none is given twice (Negotiate's channel send, the
\* buffered Reply channel, onNegotiation's single send). An offer that has
\* not been sent is nowhere; one whose asker waits is in exactly one place:
\* once in the neighbour's channel, in its hands, or answered in the reply
\* channel; and a zone only ever handles offers addressed to it.
OffersAccountedFor ==
    /\ \A i \in DOMAIN talks :
          /\ talks[i].stage = "sending" => ~Queued(i) /\ ~InHand(i) /\ ~Replied(i)
          /\ talks[i].stage = "waiting" => Queued(i) \/ InHand(i) \/ Replied(i)
          /\ ~(Queued(i) /\ InHand(i))
          /\ ~(Replied(i) /\ (Queued(i) \/ InHand(i)))
    /\ \A z \in Zones :
          /\ \A q \in DOMAIN negotiation[z] : talks[negotiation[z][q]].to = z
          /\ \A q, r \in DOMAIN negotiation[z] :
                negotiation[z][q] = negotiation[z][r] => q = r
          /\ pc[z] = "reply" => talks[answering[z].talk].to = z

Absorbs(k, i) == log[k] = Entry(talks[i].to, "SIGNAGE_REROUTE", talks[i].from, i)
Reroutes(k, i) == log[k] = Entry(talks[i].from, "SIGNAGE_REROUTE", talks[i].to, i)

\* People are never sent towards a zone before its own signage shows that it
\* absorbs them: onNegotiation intervenes before it replies, and shedLoad
\* reroutes on an accepted reply only.
SignedBeforeRerouted ==
    \A i \in DOMAIN talks : \A j \in DOMAIN log :
        talks[i].from # talks[i].to /\ Reroutes(j, i)
            => \E k \in 1..(j - 1) : Absorbs(k, i)

ByAsker(i) == {k \in DOMAIN log : log[k].about = i /\ log[k].zone = talks[i].from}
ByAsked(i) == {k \in DOMAIN log : log[k].about = i /\ log[k].zone = talks[i].to}

\* The audit log tells the story of every talk: exactly one consequence of a
\* talk that has ended and none of one that has not, at most one signage
\* change of the zone that was asked, and no such change when the asker was
\* told that its offer had been rejected.
AuditMatchesTalks ==
    \A i \in DOMAIN talks : talks[i].from # talks[i].to =>
        /\ talks[i].stage # "done" => ByAsker(i) = {}
        /\ talks[i].stage = "done" => \E k \in DOMAIN log : ByAsker(i) = {k}
        /\ \A j, k \in ByAsked(i) : j = k
        /\ talks[i].answer = "accepted" => ByAsked(i) # {}
        /\ talks[i].answer = "rejected" => ByAsked(i) = {}

\* The branch of shedLoad that dispatches staff is dead: the manager is
\* seeded with every zone of the topology, so there is always a neighbour
\* to ask, even one that is CRITICAL or has never reported.
NoStaffDispatched == \A k \in DOMAIN log : log[k].type # "DISPATCH_STAFF"

Storing(z) == \E h \in Handlers : stored[h] /\ Head(work[h]).zone = z
Newest(z) == IF inbox[z] = <<>> THEN last[z] ELSE inbox[z][Len(inbox[z])]

\* How far facts and decisions may drift apart (handleTelemetry's Set followed by
\* Deliver): once what is known of a zone has been offered to its agent and the last
\* of it was not dropped, the agent's view, with what its inbox still holds, ends in
\* the fact that the state manager shows. Only requests in progress at the same time
\* can come between: net/http runs them side by side, nothing keeps Set and Deliver
\* together, and the agent may be left with the sample of a request that was between
\* the two when the fact was Set. Never with anything older.
AgentFollowsFacts ==
    \A z \in Zones : ~Storing(z) /\ ~dropped[z] => Newest(z) \in {facts[z]} \cup rivals[z]

\* Asker and asked agree (node.go: agents reach consensus via channels): a
\* zone whose signage absorbs an overflow is not left with an asker that
\* escalates the same overflow elsewhere.
Consensus ==
    \A i \in DOMAIN talks :
        talks[i].from # talks[i].to /\ talks[i].stage = "done" /\ ByAsked(i) # {}
            => talks[i].action = "SIGNAGE_REROUTE"

Started(i) == i \in DOMAIN talks

\* Every talk ends with its consequence in the audit log, also when agents
\* have stopped and channels are full, unless the process exits first.
EveryTalkEnds ==
    \A i \in 1..MaxTalks :
        Started(i) ~> phase = "gone" \/ (Started(i) /\ talks[i].stage = "done")

\* Until shutdown, every offer in a negotiation channel is answered: agents
\* never wait for one another, so no cycle of zones that shed load can block.
EveryOfferAnswered ==
    \A i \in 1..MaxTalks :
        Started(i) /\ talks[i].stage = "waiting"
            ~> phase # "up" \/ (Started(i) /\ Replied(i))

\* Until shutdown, every queued sample is evaluated and every agent returns
\* to its select.
EverySampleEvaluated ==
    \A z \in Zones :
        inbox[z] # <<>> ~> phase # "up" \/ (inbox[z] = <<>> /\ pc[z] = "select")

\* Both: agents keep up with their channels, whatever their neighbours do.
AgentsKeepUp == EveryOfferAnswered /\ EverySampleEvaluated

\* After a signal every agent goroutine stops, unless the process exits first.
EveryAgentStops ==
    phase = "draining" ~> phase = "gone" \/ \A z \in Zones : pc[z] = "stopped"

-----------------------------------------------------------------------------
(* The network implements the contract of LoadShedding: the overflow of a   *)
(* talk is settled when its consequence is in the audit log, and pledged    *)
(* upon when the asked agent has decided on it.                             *)

Outcome(t) == IF t.stage # "done" THEN "open"
              ELSE IF t.action = "SIGNAGE_REROUTE" THEN "rerouted" ELSE "escalated"
shedBar == [i \in 1..MaxTalks |-> IF Started(i) THEN Outcome(talks[i]) ELSE "none"]

Pledged(i) ==
    IF Replied(i) THEN (IF talks[i].reply = "accepted" THEN "absorb" ELSE "refuse")
    ELSE IF InHand(i)
         THEN (IF answering[talks[i].to].accept THEN "absorb" ELSE "refuse")
         ELSE "none"
pledgeBar == [i \in 1..MaxTalks |-> IF Started(i) THEN Pledged(i) ELSE "none"]

Contract == INSTANCE LoadShedding
                WITH Overflows <- 1..MaxTalks, shed <- shedBar,
                     pledge <- pledgeBar, running <- (phase # "gone")

\* Steps of the network are steps of the contract or invisible to it, and
\* under the fairness of the scheduler every overflow is settled.
ImplementsLoadShedding == Contract!FairSpec
=============================================================================
