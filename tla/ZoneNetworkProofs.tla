------------------------- MODULE ZoneNetworkProofs -------------------------
(* Proofs about ZoneNetwork for any ring of zones, any telemetry, any channel
   capacities and any number of requests. *)
EXTENDS ZoneNetwork, SequenceTheorems, TLAPS

-----------------------------------------------------------------------------
(* Facts about the operators of the model. *)

\* Every zone has two neighbours, which are zones of the ring.
LEMMA NeighborsAreZones ==
    \A z \in Zones : /\ Neighbors[z] \in Seq(Zones)
                     /\ Len(Neighbors[z]) = 2
                     /\ Neighbors[z][1] \in Zones
                     /\ Neighbors[z][2] \in Zones
<1> TAKE z \in Zones
<1>1. Len(Ring) \in Nat \ {0}
  BY RingAssumption DEF Zones
<1>2. \A k \in 1..Len(Ring) : Ring[k] \in Zones
  BY DEF Zones
<1>3. Position(z) \in 1..Len(Ring)
  <2>1. \E k \in 1..Len(Ring) : Ring[k] = z
    BY DEF Zones
  <2> QED
    BY <2>1 DEF Position
<1>4. RingPrev(Position(z)) \in Zones
  BY <1>1, <1>2, <1>3 DEF RingPrev
<1>5. RingNext(Position(z)) \in Zones
  BY <1>1, <1>2, <1>3 DEF RingNext
<1> QED
  BY <1>4, <1>5 DEF Neighbors

\* The rank of a congestion level is a natural number.
LEMMA RankIsNat == \A level : congestionRank(level) \in Nat
BY DEF congestionRank

\* What telemetry carries is a zone id and a metric.
LEMMA BatchesAreSamples ==
    \A b \in Batches : b \in Seq(Sample) /\ b # <<>>
BY BatchesAssumption

-----------------------------------------------------------------------------
(* Type correctness. *)

TypeInv == TypeOK /\ DecidedTalksAct

\* The channels, the facts and the agents start out well typed.
LEMMA TypeInvInit == Init => TypeInv
<1> SUFFICES ASSUME Init PROVE TypeInv
  OBVIOUS
<1>1. ZeroMetric \in Metric
  BY DEF ZeroMetric, Metric, Levels
<1>2. NoScan \in Scan
  BY DEF NoScan, FreshScan, FarDensity, Scan
<1>3. talks \in Seq(Talk) /\ DOMAIN talks = {}
  BY DEF Init
<1>4. /\ facts \in [Zones -> Metric] /\ DOMAIN facts = Zones
      /\ last \in [Zones -> Metric]
  BY <1>1 DEF Init
<1>5. /\ inbox \in [Zones -> Seq(Metric)]
      /\ negotiation \in [Zones -> Seq(DOMAIN talks)]
      /\ \A z \in Zones : Len(inbox[z]) <= InboxCap /\ Len(negotiation[z]) <= NegCap
  BY CapacityAssumption DEF Init
<1>6. /\ work \in [Handlers -> Seq(Sample)]
      /\ stored \in [Handlers -> BOOLEAN]
      /\ \A h \in Handlers : stored[h] => work[h] # <<>>
      /\ posts \in 0..MaxPosts
      /\ rivals \in [Zones -> SUBSET Metric]
  BY CapacityAssumption DEF Init
<1>7. /\ pc \in [Zones -> {"select", "scan", "reply", "stopped"}]
      /\ scan \in [Zones -> Scan]
      /\ answering \in [Zones -> Answer]
      /\ \A z \in Zones : pc[z] # "reply"
  BY <1>2 DEF Init, NoAnswer, Answer
<1>8. /\ dropped \in [Zones -> BOOLEAN]
      /\ log \in Seq(Intervention)
      /\ phase \in {"up", "draining", "gone"}
  BY DEF Init
<1> QED
  BY <1>3, <1>4, <1>5, <1>6, <1>7, <1>8 DEF TypeInv, TypeOK, DecidedTalksAct, Places

\* What a telemetry request does keeps the types.
LEMMA TypeInvIngest ==
    ASSUME TypeInv, NEW h \in Handlers, Ingest(h) PROVE TypeInv'
<1> USE DEF TypeInv, TypeOK, DecidedTalksAct
<1>1. CASE SetFact(h)
  <2>1. Head(work[h]) \in Sample
    BY <1>1 DEF SetFact
  <2>2. rivals' \in [Zones -> SUBSET Metric]
    <3>1. ASSUME NEW g \in Handlers, stored[g] PROVE Head(work[g]).metric \in Metric
      <4>1. work[g] \in Seq(Sample) /\ work[g] # <<>>
        BY <3>1
      <4>2. Head(work[g]) \in Sample
        BY <4>1, HeadTailProperties
      <4>3. QED
        BY <4>2 DEF Sample
    <3>2. BetweenSteps(h, Head(work[h]).zone) \in SUBSET Metric
      BY <3>1 DEF BetweenSteps
    <3>3. rivals' = [z \in Zones |-> IF z = Head(work[h]).zone
                                      THEN BetweenSteps(h, Head(work[h]).zone) ELSE rivals[z]]
      BY <1>1 DEF SetFact
    <3>4. QED
      BY <3>2, <3>3
  <2>3. stored' \in [Handlers -> BOOLEAN] /\ \A g \in Handlers : stored'[g] => work'[g] # <<>>
    BY <1>1 DEF SetFact
  <2> QED
    BY <1>1, <2>1, <2>2, <2>3 DEF SetFact, Sample, agentVars, channelVars
<1>2. CASE Deliver(h)
  <2>1. Head(work[h]) \in Sample /\ Tail(work[h]) \in Seq(Sample)
    BY <1>2 DEF Deliver
  <2> DEFINE s == Head(work[h])
  <2>2. /\ inbox' \in [Zones -> Seq(Metric)]
        /\ \A z \in Zones : Len(inbox'[z]) <= InboxCap
        /\ dropped' \in [Zones -> BOOLEAN]
    <3>1. CASE s.zone \in Zones /\ InboxHasRoom(s.zone)
      <4>1. /\ inbox' = [inbox EXCEPT ![s.zone] = Append(@, s.metric)]
            /\ dropped' = [dropped EXCEPT ![s.zone] = FALSE]
        BY <1>2, <3>1 DEF Deliver
      <4>2. s.metric \in Metric /\ Len(inbox[s.zone]) < InboxCap
        BY <2>1, <3>1 DEF Sample, InboxHasRoom
      <4> QED
        BY <3>1, <4>1, <4>2, CapacityAssumption
    <3>2. CASE ~(s.zone \in Zones /\ InboxHasRoom(s.zone))
      <4>1. /\ inbox' = inbox
            /\ \/ dropped' = dropped
               \/ s.zone \in Zones /\ dropped' = [dropped EXCEPT ![s.zone] = TRUE]
        BY <1>2, <3>2 DEF Deliver
      <4> QED
        BY <4>1
    <3> QED
      BY <3>1, <3>2
  <2>3. stored' \in [Handlers -> BOOLEAN] /\ \A g \in Handlers : stored'[g] => work'[g] # <<>>
    BY <1>2 DEF Deliver
  <2> QED
    BY <1>2, <2>1, <2>2, <2>3 DEF Deliver, agentVars
<1> QED
  BY <1>1, <1>2 DEF Ingest

\* A new or changed talk keeps the sequence of talks well typed, and the
\* offers in the negotiation channels remain indices into it.
LEMMA TalksGrow ==
    ASSUME TypeInv, NEW t \in Talk
    PROVE  /\ Append(talks, t) \in Seq(Talk)
           /\ DOMAIN Append(talks, t) = 1..(Len(talks) + 1)
           /\ DOMAIN talks = 1..Len(talks)
           /\ DOMAIN talks \subseteq DOMAIN Append(talks, t)
           /\ \A i \in DOMAIN talks : Append(talks, t)[i] = talks[i]
           /\ Append(talks, t)[Len(talks) + 1] = t
BY DEF TypeInv, TypeOK

\* Talks are records, and are numbered from 1.
LEMMA TalkAt ==
    ASSUME TypeInv PROVE \A i \in DOMAIN talks : talks[i] \in Talk /\ i \in Nat \ {0}
BY DEF TypeInv, TypeOK

\* A reply put into a talk's channel leaves the rest of the talk alone.
LEMMA ReplyUpdates ==
    ASSUME NEW t \in Talk, NEW v \in Verdicts
    PROVE  /\ [t EXCEPT !.reply = v] \in Talk
           /\ [t EXCEPT !.reply = v].stage = t.stage
           /\ [t EXCEPT !.reply = v].action = t.action
BY DEF Talk

\* The search of leastLoadedNeighbor moves on to its next neighbour.
LEMMA ScanAdvances ==
    ASSUME NEW s \in Scan, s.next \in 1..2
    PROVE  [s EXCEPT !.next = @ + 1] \in Scan
BY DEF Scan

\* The audit log with a new intervention is an audit log.
LEMMA LogGrows ==
    ASSUME TypeInv, NEW e \in Intervention PROVE Append(log, e) \in Seq(Intervention)
BY DEF TypeInv, TypeOK

\* Replacing a talk by another keeps the sequence of talks and its length.
LEMMA TalksChange ==
    ASSUME TypeInv, NEW i \in DOMAIN talks, NEW t \in Talk
    PROVE  /\ [talks EXCEPT ![i] = t] \in Seq(Talk)
           /\ DOMAIN [talks EXCEPT ![i] = t] = DOMAIN talks
BY DEF TypeInv, TypeOK

\* Queues of offers remain queues of offers when there are more talks.
LEMMA SeqWidens ==
    ASSUME NEW S, NEW T, S \subseteq T, NEW f, NEW I, f \in [I -> Seq(S)]
    PROVE  f \in [I -> Seq(T)]
OBVIOUS

\* A step that changes nothing keeps the types.
LEMMA TypeInvStutter == ASSUME TypeInv, UNCHANGED vars PROVE TypeInv'
BY DEF TypeInv, TypeOK, DecidedTalksAct, vars, ingestVars, agentVars, channelVars

\* What an agent does keeps the types.
LEMMA TypeInvAgent ==
    ASSUME TypeInv, NEW z \in Zones, Agent(z) PROVE TypeInv'
<1> USE DEF TypeInv, TypeOK, DecidedTalksAct
<1>1. CASE TakeSample(z)
  <2>1. Head(inbox[z]) \in Metric /\ Tail(inbox[z]) \in Seq(Metric)
        /\ Len(Tail(inbox[z])) <= InboxCap
    <3>1. inbox[z] \in Seq(Metric) /\ inbox[z] # <<>> /\ Len(inbox[z]) <= InboxCap
      BY <1>1 DEF TakeSample
    <3> QED
      BY ONLY <3>1, CapacityAssumption
  <2>2. Overflow(Head(inbox[z])) \in Int
    BY ONLY <2>1 DEF Overflow, Metric
  <2>3. FreshScan(Overflow(Head(inbox[z]))) \in Scan
    BY ONLY <2>2 DEF FreshScan, FarDensity, Scan
  <2>4. inbox' \in [Zones -> Seq(Metric)] /\ \A y \in Zones : Len(inbox'[y]) <= InboxCap
    BY <1>1, <2>1 DEF TakeSample
  <2>5. last' \in [Zones -> Metric]
    BY <1>1, <2>1 DEF TakeSample, evaluate
  <2>6. /\ pc' \in [Zones -> {"select", "scan", "reply", "stopped"}]
        /\ \A y \in Zones : pc'[y] = "reply" => pc[y] = "reply"
        /\ scan' \in [Zones -> Scan]
    <3>1. /\ pc \in [Zones -> {"select", "scan", "reply", "stopped"}]
          /\ scan \in [Zones -> Scan]
      OBVIOUS
    <3>2. \/ UNCHANGED <<pc, scan>>
          \/ /\ pc' = [pc EXCEPT ![z] = "scan"]
             /\ scan' = [scan EXCEPT ![z] = FreshScan(Overflow(Head(inbox[z])))]
      BY <1>1 DEF TakeSample, evaluate
    <3> QED
      BY ONLY <2>3, <3>1, <3>2
  <2> QED
    BY <1>1, <2>4, <2>5, <2>6 DEF TakeSample, ingestVars
<1>2. CASE ScanNeighbor(z)
  <2> DEFINE id == Neighbors[z][scan[z].next]
             on == [scan[z] EXCEPT !.next = @ + 1]
  <2>1. id \in Zones /\ scan[z].next \in 1..2
    <3>1. scan[z].next \in 1..3 /\ scan[z].next <= 2
      BY <1>2, NeighborsAreZones DEF ScanNeighbor, Scan
    <3>2. scan[z].next \in 1..2
      BY ONLY <3>1
    <3>3. Neighbors[z][1] \in Zones /\ Neighbors[z][2] \in Zones
      BY NeighborsAreZones
    <3> QED
      BY ONLY <3>2, <3>3
  <2>2. facts[id] \in Metric /\ congestionRank(facts[id].congestion) \in Nat
    BY <2>1, RankIsNat
  <2>3. on \in Scan
    <3>1. scan[z] \in Scan
      OBVIOUS
    <3> QED
      BY <2>1, <3>1, ScanAdvances
  <2>4. [on EXCEPT !.best = id,
                   !.rank = congestionRank(facts[id].congestion),
                   !.density = facts[id].density]
           \in Scan
    BY <2>1, <2>2, <2>3 DEF Metric, Scan
  <2>5. scan' \in [Zones -> Scan]
    BY <1>2, <2>3, <2>4 DEF ScanNeighbor
  <2> QED
    BY <1>2, <2>5 DEF ScanNeighbor, ingestVars, channelVars
<1>3. CASE ShedLoad(z)
  <2>1. /\ pc' \in [Zones -> {"select", "scan", "reply", "stopped"}]
        /\ \A y \in Zones : pc'[y] = "reply" => pc[y] = "reply"
    BY <1>3 DEF ShedLoad
  <2>2. scan' \in [Zones -> Scan]
    BY <1>3 DEF ShedLoad, NoScan, FreshScan, FarDensity, Scan
  <2>3. CASE scan[z].best = NoZone
    <3>1. Entry(z, "DISPATCH_STAFF", NoZone, 0) \in
             Intervention
      BY DEF Entry, Actions, Intervention
    <3>2. log' \in Seq(Intervention)
      BY <1>3, <2>3, <3>1, LogGrows DEF ShedLoad
    <3> QED
      BY <1>3, <2>1, <2>2, <2>3, <3>2 DEF ShedLoad, ingestVars, channelVars
  <2>4. CASE scan[z].best # NoZone
    <3> DEFINE t == NewTalk(z, scan[z].best, scan[z].overflow)
    <3>1. t \in Talk /\ t.stage = "sending"
      BY <2>4 DEF NewTalk, Talk, Scan
    <3>2. talks' = Append(talks, t) /\ log' = log
      BY <1>3, <2>4 DEF ShedLoad
    <3> HIDE DEF t
    <3>3. talks' \in Seq(Talk) /\ DOMAIN talks \subseteq DOMAIN talks'
      BY <3>1, <3>2, TalksGrow
    <3>4. negotiation' \in [Zones -> Seq(DOMAIN talks')]
      BY <1>3, <3>3, SeqWidens DEF ShedLoad, channelVars
    <3>5. DecidedTalksAct'
      BY <3>1, <3>2, TalksGrow
    <3> QED
      BY <1>3, <2>1, <2>2, <3>2, <3>3, <3>4, <3>5 DEF ShedLoad, ingestVars, channelVars
  <2> QED
    BY <2>3, <2>4
<1>4. CASE TakeOffer(z)
  <2> DEFINE i == Head(negotiation[z])
             accept == CanAbsorb(z, talks[i])
  <2>1. i \in DOMAIN talks /\ i \in Nat /\ Tail(negotiation[z]) \in Seq(DOMAIN talks)
        /\ Len(Tail(negotiation[z])) <= NegCap
    BY <1>4, CapacityAssumption DEF TakeOffer
  <2>2. negotiation' \in [Zones -> Seq(DOMAIN talks)]
        /\ \A y \in Zones : Len(negotiation'[y]) <= NegCap
    BY <1>4, <2>1 DEF TakeOffer
  <2>3. Entry(z, "SIGNAGE_REROUTE", talks[i].from, i) \in
           Intervention
    BY <2>1, TalkAt DEF Entry, Actions, Talk, Places, Intervention
  <2>4. log' \in Seq(Intervention)
    BY <1>4, <2>3 DEF TakeOffer, SignageChange
  <2>5. accept \in BOOLEAN
    BY DEF CanAbsorb
  <2>6. answering' = [answering EXCEPT ![z] = [talk |-> i, accept |-> accept]]
        /\ pc' = [pc EXCEPT ![z] = "reply"]
    BY <1>4 DEF TakeOffer
  <2> HIDE DEF accept, i
  <2>7. /\ answering' \in [Zones -> Answer]
        /\ pc' \in [Zones -> {"select", "scan", "reply", "stopped"}]
        /\ \A y \in Zones : pc'[y] = "reply" => answering'[y].talk \in DOMAIN talks
    <3>1. [talk |-> i, accept |-> accept] \in Answer
      BY <2>1, <2>5 DEF Answer
    <3> QED
      BY <2>1, <2>6, <3>1
  <2> QED
    BY <1>4, <2>2, <2>4, <2>7 DEF TakeOffer, ingestVars
<1>5. CASE SendReply(z)
  <2> DEFINE i == answering[z].talk
             verdict == IF answering[z].accept THEN "accepted" ELSE "rejected"
  <2>1. i \in DOMAIN talks
    BY <1>5 DEF SendReply
  <2> DEFINE t == [talks[i] EXCEPT !.reply = verdict]
  <2>2. t \in Talk /\ t.stage = talks[i].stage /\ t.action = talks[i].action
    <3>1. talks[i] \in Talk /\ verdict \in Verdicts
      BY <2>1, TalkAt DEF Verdicts
    <3> QED
      BY ONLY <3>1, ReplyUpdates
  <2>3. talks' = talks \/ talks' = [talks EXCEPT ![i] = t]
    BY <1>5 DEF SendReply, PutReply
  <2> HIDE DEF i, t
  <2>4. talks' \in Seq(Talk) /\ DOMAIN talks' = DOMAIN talks
    <3>1. CASE talks' = talks
      BY <3>1
    <3>2. CASE talks' = [talks EXCEPT ![i] = t]
      BY <2>1, <2>2, <3>2
    <3> QED
      BY <2>3, <3>1, <3>2
  <2>5. DecidedTalksAct'
    BY <2>1, <2>2, <2>3, <2>4
  <2>6. /\ answering' \in [Zones -> Answer]
        /\ pc' \in [Zones -> {"select", "scan", "reply", "stopped"}]
        /\ \A y \in Zones : pc'[y] = "reply" => answering'[y].talk \in DOMAIN talks
    BY <1>5 DEF SendReply, NoAnswer, Answer
  <2> QED
    BY <1>5, <2>4, <2>5, <2>6 DEF SendReply, ingestVars, channelVars
<1>6. CASE Stop(z)
  BY <1>6 DEF Stop, ingestVars, channelVars
<1> QED
  BY <1>1, <1>2, <1>3, <1>4, <1>5, <1>6 DEF Agent

\* A step that replaces one talk, and no queue, by a well typed one whose
\* action is there when it has been decided, keeps the types.
LEMMA TypeInvReplace ==
    ASSUME TypeInv, NEW i \in DOMAIN talks, NEW t \in Talk,
           t.stage \in {"decided", "done"} => t.action \in Actions,
           talks' = [talks EXCEPT ![i] = t],
           UNCHANGED <<facts, ingestVars, agentVars, channelVars, phase>>,
           log' = log \/ \E e \in Intervention : log' = Append(log, e)
    PROVE  TypeInv'
<1>1. talks' \in Seq(Talk) /\ DOMAIN talks' = DOMAIN talks
  BY TalksChange
<1>2. DecidedTalksAct'
  BY <1>1 DEF TypeInv, TypeOK, DecidedTalksAct
<1>3. log' \in Seq(Intervention)
  BY LogGrows DEF TypeInv, TypeOK
<1> QED
  BY <1>1, <1>2, <1>3 DEF TypeInv, TypeOK, ingestVars, agentVars, channelVars

\* What a talk does keeps the types.
LEMMA TypeInvTalk ==
    ASSUME TypeInv, NEW i \in DOMAIN talks, TalkStep(i) PROVE TypeInv'
<1>1. talks[i] \in Talk /\ talks \in Seq(Talk)
  BY TalkAt DEF TypeInv, TypeOK
<1>2. \A a \in Answers : Return(i, a) => TypeInv'
  <2> SUFFICES ASSUME NEW a \in Answers, Return(i, a) PROVE TypeInv'
    OBVIOUS
  <2> DEFINE t == [talks[i] EXCEPT !.stage = "answered", !.answer = a]
  <2>1. t \in Talk /\ t.stage = "answered"
    BY <1>1 DEF Talk, Answers
  <2>2. talks' = [talks EXCEPT ![i] = t]
    BY <1>1 DEF Return
  <2> HIDE DEF t
  <2> QED
    BY <2>1, <2>2, TypeInvReplace DEF Return
<1>3. CASE SendOffer(i)
  <2> DEFINE t == [talks[i] EXCEPT !.stage = "waiting"]
             y == talks[i].to
  <2>1. t \in Talk /\ t.stage = "waiting"
    BY <1>1 DEF Talk
  <2>2. talks' = [talks EXCEPT ![i] = t]
    BY <1>1, <1>3 DEF SendOffer
  <2>3. y \in Zones
    BY <1>1 DEF Talk
  <2>4. /\ negotiation' = [negotiation EXCEPT ![y] = Append(@, i)]
        /\ Len(negotiation[y]) < NegCap
    BY <1>3 DEF SendOffer
  <2> HIDE DEF t, y
  <2>5. talks' \in Seq(Talk) /\ DOMAIN talks' = DOMAIN talks
    BY <2>1, <2>2, TalksChange
  <2>6. /\ negotiation' \in [Zones -> Seq(DOMAIN talks)]
        /\ \A z \in Zones : Len(negotiation'[z]) <= NegCap
    BY <2>3, <2>4, CapacityAssumption DEF TypeInv, TypeOK
  <2>7. DecidedTalksAct'
    BY <2>1, <2>2, <2>5 DEF TypeInv, TypeOK, DecidedTalksAct
  <2> QED
    BY <1>3, <2>5, <2>6, <2>7 DEF SendOffer, TypeInv, TypeOK, ingestVars, agentVars
<1>4. CASE TakeReply(i)
  BY <1>1, <1>2, <1>4 DEF TakeReply, Talk, Answers
<1>5. CASE TimeOut(i)
  BY <1>2, <1>5 DEF TimeOut, Answers
<1>6. CASE Cancel(i)
  BY <1>2, <1>6 DEF Cancel, Answers
<1>7. CASE Decide(i)
  <2>1. PICK c \in Consequences(i) :
            talks' = [talks EXCEPT ![i].stage = "decided",
                                   ![i].action = c[1], ![i].dest = c[2]]
    BY <1>7 DEF Decide
  <2>2. c[1] \in Actions /\ c[2] \in Places \cup {NoZone}
    <3>1. shuttleDestination(talks[i].from, talks[i].overflow) \subseteq Places
      BY DEF shuttleDestination, TypeInv, TypeOK
    <3>2. talks[i].to \in Places
      BY <1>1 DEF Talk, Places
    <3> QED
      BY <3>1, <3>2 DEF Consequences, Actions
  <2> DEFINE t == [talks[i] EXCEPT !.stage = "decided", !.action = c[1], !.dest = c[2]]
  <2>3. t \in Talk /\ t.action \in Actions
    BY <1>1, <2>2 DEF Talk
  <2>4. talks' = [talks EXCEPT ![i] = t]
    BY <1>1, <2>1
  <2> HIDE DEF t
  <2> QED
    BY <1>7, <2>3, <2>4, TypeInvReplace DEF Decide
<1>8. CASE Intervene(i)
  <2> DEFINE t == [talks[i] EXCEPT !.stage = "done"]
             e == Entry(talks[i].from, talks[i].action, talks[i].dest, i)
  <2>1. talks[i].action \in Actions
    BY <1>8 DEF Intervene, TypeInv, DecidedTalksAct
  <2>2. t \in Talk /\ t.action \in Actions
    BY <1>1, <2>1 DEF Talk
  <2>3. e \in Intervention
    BY <1>1, <2>1, TalkAt DEF Entry, Intervention, Talk
  <2>4. talks' = [talks EXCEPT ![i] = t] /\ log' = Append(log, e)
    BY <1>1, <1>8 DEF Intervene
  <2> HIDE DEF t, e
  <2> QED
    BY <1>8, <2>2, <2>3, <2>4, TypeInvReplace DEF Intervene
<1> QED
  BY <1>3, <1>4, <1>5, <1>6, <1>7, <1>8 DEF TalkStep

\* TypeInv is inductive.
LEMMA TypeInvStep == TypeInv /\ [Next]_vars => TypeInv'
<1> SUFFICES ASSUME TypeInv, [Next]_vars PROVE TypeInv'
  OBVIOUS
<1>1. ASSUME NEW h \in Handlers, NEW b \in Batches, Post(h, b) PROVE TypeInv'
  <2>1. b \in Seq(Sample)
    BY BatchesAreSamples
  <2> QED
    BY <1>1, <2>1, CapacityAssumption
       DEF Post, TypeInv, TypeOK, DecidedTalksAct, agentVars, channelVars
<1>2. CASE Shutdown \/ Exit
  BY <1>2 DEF Shutdown, Exit, TypeInv, TypeOK, DecidedTalksAct,
              ingestVars, agentVars, channelVars
<1> QED
  BY <1>1, <1>2, TypeInvIngest, TypeInvAgent, TypeInvTalk, TypeInvStutter DEF Next

\* The types of ZoneNetwork hold in every state, for every ring, batch and
\* capacity; in particular no channel exceeds its capacity.
THEOREM TypeCorrect == Spec => []TypeOK
<1>1. TypeInv => TypeOK
  BY DEF TypeInv
<1> QED
  BY <1>1, TypeInvInit, TypeInvStep, PTL DEF Spec

-----------------------------------------------------------------------------
(* However requests overlap, an agent ends up with the fact or a rival.      *)

\* What may be the newest that the agent of z has seen.
Current(z) == {facts[z]} \cup rivals[z]

\* Between Set and Deliver a sample is the fact, or was when the fact was Set.
StoresItsSample ==
    \A h \in Handlers, z \in Zones :
        stored[h] /\ Head(work[h]).zone = z => Head(work[h]).metric \in Current(z)

FollowInv == TypeInv /\ StoresItsSample /\ AgentFollowsFacts

\* Channels are sequences of metrics, work is of samples.
LEMMA QueueFacts ==
    ASSUME TypeInv
    PROVE  /\ \A z \in Zones : /\ inbox[z] \in Seq(Metric) /\ Len(inbox[z]) \in Nat
                               /\ DOMAIN inbox[z] = 1..Len(inbox[z])
           /\ \A h \in Handlers : work[h] \in Seq(Sample)
           /\ work \in [Handlers -> Seq(Sample)] /\ stored \in [Handlers -> BOOLEAN]
           /\ inbox \in [Zones -> Seq(Metric)] /\ dropped \in [Zones -> BOOLEAN]
           /\ last \in [Zones -> Metric]
  BY LenProperties DEF TypeInv, TypeOK

\* The tail of a queue ends as the queue does.
LEMMA TailEnds ==
    ASSUME NEW S, NEW q \in Seq(S), q # <<>>
    PROVE  /\ Len(q) = 1 => Tail(q) = <<>>
           /\ Len(q) # 1 => Tail(q) # <<>> /\ Tail(q)[Len(Tail(q))] = q[Len(q)]
<1>1. Len(q) \in Nat /\ Len(q) # 0
  BY LenProperties, EmptySeq
<1>2. /\ Tail(q) \in Seq(S) /\ Len(Tail(q)) = Len(q) - 1
      /\ \A k \in 1..(Len(q) - 1) : Tail(q)[k] = q[k + 1]
  BY HeadTailProperties
<1>3. CASE Len(q) = 1
  <2>1. Len(Tail(q)) = 0
    BY <1>2, <1>3
  <2>2. QED
    BY <1>2, <1>3, <2>1, EmptySeq
<1>4. CASE Len(q) # 1
  <2>1. Len(q) - 1 \in 1..(Len(q) - 1) /\ (Len(q) - 1) + 1 = Len(q) /\ Len(q) - 1 # 0
    <3>1. \A n \in Nat : n # 0 /\ n # 1 => n - 1 \in 1..(n - 1) /\ (n - 1) + 1 = n /\ n - 1 # 0
      OBVIOUS
    <3>2. QED
      BY <1>1, <1>4, <3>1
  <2>2. Tail(q)[Len(q) - 1] = q[Len(q)]
    BY <1>2, <2>1
  <2>3. Tail(q) # <<>>
    BY <1>2, <2>1, EmptySeq
  <2>4. QED
    BY <1>2, <1>4, <2>2, <2>3
<1>5. QED
  BY <1>3, <1>4

\* What is appended is what a queue ends in.
LEMMA AppendEnds ==
    ASSUME NEW S, NEW q \in Seq(S), NEW e \in S
    PROVE  Append(q, e) # <<>> /\ Append(q, e)[Len(Append(q, e))] = e
<1>1. /\ Len(q) \in Nat /\ Append(q, e) \in Seq(S)
      /\ Len(Append(q, e)) = Len(q) + 1 /\ Append(q, e)[Len(q) + 1] = e
  BY AppendProperties, LenProperties
<1>2. QED
  BY <1>1, EmptySeq

\* What an agent takes from its inbox it remembers: nothing newer is lost.
LEMMA TakingKeepsNewest ==
    ASSUME TypeInv, NEW z \in Zones, TakeSample(z)
    PROVE  \A y \in Zones : Newest(y)' = Newest(y)
<1>1. /\ inbox[z] \in Seq(Metric) /\ inbox[z] # <<>> /\ Len(inbox[z]) \in Nat \ {0}
      /\ inbox \in [Zones -> Seq(Metric)] /\ last \in [Zones -> Metric]
      /\ inbox' = [inbox EXCEPT ![z] = Tail(inbox[z])] /\ last' = [last EXCEPT ![z] = Head(inbox[z])]
  BY QueueFacts, EmptySeq DEF TakeSample, evaluate
<1>2. /\ inbox'[z] = Tail(inbox[z]) /\ last'[z] = inbox[z][1]
      /\ \A y \in Zones : y # z => inbox'[y] = inbox[y] /\ last'[y] = last[y]
  BY <1>1
<1>3. /\ Len(inbox[z]) = 1 => Tail(inbox[z]) = <<>>
      /\ Len(inbox[z]) # 1 => /\ Tail(inbox[z]) # <<>>
                              /\ Tail(inbox[z])[Len(Tail(inbox[z]))] = inbox[z][Len(inbox[z])]
  BY <1>1, TailEnds
<1>4. Newest(z)' = Newest(z)
  <2>1. Newest(z) = inbox[z][Len(inbox[z])]
    BY <1>1 DEF Newest
  <2>2. CASE Len(inbox[z]) = 1
    BY <1>2, <1>3, <2>1, <2>2 DEF Newest
  <2>3. CASE Len(inbox[z]) # 1
    BY <1>2, <1>3, <2>1, <2>3 DEF Newest
  <2>4. QED
    BY <2>2, <2>3
<1>5. \A y \in Zones : y # z => Newest(y)' = Newest(y)
  BY <1>2 DEF Newest
<1>6. QED
  BY <1>4, <1>5

LEMMA FollowInit == Init => FollowInv
  BY TypeInvInit DEF Init, FollowInv, StoresItsSample, AgentFollowsFacts, Newest, Current

\* Steps that leave facts, requests and what agents have seen alone.
LEMMA FollowQuiet ==
    ASSUME FollowInv, UNCHANGED <<facts, work, stored, rivals, dropped>>,
           \A y \in Zones : Newest(y)' = Newest(y)
    PROVE  StoresItsSample' /\ AgentFollowsFacts'
<1>1. \A y : Storing(y)' <=> Storing(y)
  BY DEF Storing
<1>2. QED
  BY <1>1 DEF FollowInv, StoresItsSample, AgentFollowsFacts, Current

\* A request that arrives is not between Set and Deliver.
LEMMA FollowPost ==
    ASSUME FollowInv, NEW h \in Handlers, NEW b \in Batches, Post(h, b)
    PROVE  StoresItsSample' /\ AgentFollowsFacts'
<1>1. /\ work[h] = <<>> /\ work' = [work EXCEPT ![h] = b]
      /\ UNCHANGED <<facts, stored, rivals, inbox, last, dropped>>
  BY DEF Post, agentVars, channelVars
<1>2. ~stored[h]
  BY <1>1 DEF FollowInv, TypeInv, TypeOK
<1>3. \A g \in Handlers : g # h => work'[g] = work[g]
  BY <1>1, QueueFacts DEF FollowInv
<1>4. StoresItsSample'
  BY <1>1, <1>2, <1>3 DEF FollowInv, StoresItsSample, Current
<1>5. \A y : Storing(y)' <=> Storing(y)
  BY <1>1, <1>2, <1>3 DEF Storing
<1>6. QED
  BY <1>1, <1>4, <1>5 DEF FollowInv, AgentFollowsFacts, Newest

\* Set makes its sample the fact, and those of others that are between the steps
\* its rivals.
LEMMA FollowSet ==
    ASSUME FollowInv, NEW h \in Handlers, SetFact(h)
    PROVE  StoresItsSample' /\ AgentFollowsFacts'
<1> DEFINE s == Head(work[h])
<1>1. /\ work[h] # <<>> /\ ~stored[h]
      /\ facts' = [p \in DOMAIN facts \cup {s.zone} |-> IF p = s.zone THEN s.metric ELSE facts[p]]
      /\ rivals' = [z \in Zones |-> IF z = s.zone THEN BetweenSteps(h, z) ELSE rivals[z]]
      /\ stored' = [stored EXCEPT ![h] = TRUE] /\ UNCHANGED <<work, inbox, last, dropped>>
  BY DEF SetFact, agentVars, channelVars
<1>2. stored'[h] /\ \A g \in Handlers : g # h => stored'[g] = stored[g]
  BY <1>1, QueueFacts, Zenon DEF FollowInv
<1>3. facts'[s.zone] = s.metric /\ \A z \in Zones : z # s.zone => facts'[z] = facts[z]
  BY <1>1 DEF FollowInv, TypeInv, TypeOK
<1>4. ASSUME NEW g \in Handlers, NEW z \in Zones, stored'[g], Head(work'[g]).zone = z
      PROVE  Head(work'[g]).metric \in Current(z)'
  <2>1. CASE g = h
    BY <1>1, <1>3, <1>4, <2>1 DEF Current
  <2>2. CASE g # h /\ z = s.zone
    <3>1. Head(work[g]).metric \in BetweenSteps(h, z)
      BY <1>1, <1>2, <1>4, <2>2 DEF BetweenSteps
    <3>2. QED
      BY <1>1, <1>4, <2>2, <3>1 DEF Current
  <2>3. CASE g # h /\ z # s.zone
    <3>1. Head(work[g]).metric \in Current(z)
      BY <1>1, <1>2, <1>4, <2>3 DEF FollowInv, StoresItsSample
    <3>2. rivals'[z] = rivals[z] /\ facts'[z] = facts[z]
      BY <1>1, <1>3, <2>3
    <3>3. QED
      BY <1>1, <3>1, <3>2 DEF Current
  <2>4. QED
    BY <2>1, <2>2, <2>3
<1>5. ASSUME NEW z \in Zones, ~Storing(z)', ~dropped'[z] PROVE Newest(z)' \in Current(z)'
  <2>1. z # s.zone
    BY <1>1, <1>2, <1>5 DEF Storing
  <2>2. ~Storing(z)
    BY <1>1, <1>2, <1>5 DEF Storing
  <2>3. Newest(z) \in Current(z)
    BY <1>1, <1>5, <2>2 DEF FollowInv, AgentFollowsFacts, Current
  <2>4. rivals'[z] = rivals[z] /\ facts'[z] = facts[z] /\ Newest(z)' = Newest(z)
    BY <1>1, <1>3, <2>1 DEF Newest
  <2>5. QED
    BY <2>3, <2>4 DEF Current
<1>6. QED
  BY <1>4, <1>5 DEF StoresItsSample, AgentFollowsFacts, Current

\* What is delivered is the fact or a rival, so the agent then has one of them.
LEMMA FollowDeliver ==
    ASSUME FollowInv, NEW h \in Handlers, Deliver(h)
    PROVE  StoresItsSample' /\ AgentFollowsFacts'
<1> DEFINE s == Head(work[h])
<1>1. /\ work[h] # <<>> /\ stored[h] /\ stored' = [stored EXCEPT ![h] = FALSE]
      /\ work' = [work EXCEPT ![h] = Tail(work[h])] /\ UNCHANGED <<facts, rivals, last>>
      /\ \/ s.zone \notin Zones /\ UNCHANGED <<inbox, dropped>>
         \/ s.zone \in Zones /\ dropped' = [dropped EXCEPT ![s.zone] = TRUE] /\ UNCHANGED inbox
         \/ /\ s.zone \in Zones
            /\ inbox' = [inbox EXCEPT ![s.zone] = Append(inbox[s.zone], s.metric)]
            /\ dropped' = [dropped EXCEPT ![s.zone] = FALSE]
  BY DEF Deliver, agentVars
<1>2. ~stored'[h] /\ \A g \in Handlers : g # h => stored'[g] = stored[g]
  BY <1>1, QueueFacts, Zenon DEF FollowInv
<1>3. \A g \in Handlers : g # h => work'[g] = work[g]
  BY <1>1, QueueFacts DEF FollowInv
<1>4. StoresItsSample'
  BY <1>1, <1>2, <1>3 DEF FollowInv, StoresItsSample, Current
<1>5. ASSUME NEW z \in Zones, z # s.zone, ~Storing(z)', ~dropped'[z] PROVE Newest(z)' \in Current(z)'
  <2>1. ~Storing(z)
    BY <1>1, <1>2, <1>3, <1>5 DEF Storing
  <2>2. inbox'[z] = inbox[z]
    BY <1>1, <1>5, QueueFacts DEF FollowInv
  <2>3. dropped'[z] = dropped[z]
    <3>1. ASSUME NEW v \in BOOLEAN, dropped' = [dropped EXCEPT ![s.zone] = v] PROVE dropped'[z] = dropped[z]
      BY <1>5, <3>1, QueueFacts, Zenon DEF FollowInv
    <3>2. QED
      BY <1>1, <3>1
  <2>4. Newest(z) \in Current(z)
    BY <1>5, <2>1, <2>3 DEF FollowInv, AgentFollowsFacts, Current
  <2>5. QED
    BY <1>1, <2>2, <2>4 DEF Newest, Current
<1>6. ASSUME NEW z \in Zones, z = s.zone, ~dropped'[z] PROVE Newest(z)' \in Current(z)'
  <2>1. dropped' # [dropped EXCEPT ![z] = TRUE]
    BY <1>6, QueueFacts, Zenon DEF FollowInv
  <2>2. inbox' = [inbox EXCEPT ![z] = Append(inbox[z], s.metric)]
    BY <1>1, <1>6, <2>1
  <2>3. inbox'[z] = Append(inbox[z], s.metric)
    BY <2>2, QueueFacts DEF FollowInv
  <2>4. s \in Sample
    <3>1. work[h] \in Seq(Sample)
      BY QueueFacts DEF FollowInv
    <3>2. QED
      BY <1>1, <3>1, HeadTailProperties
  <2>5. inbox[z] \in Seq(Metric) /\ s.metric \in Metric
    BY <2>4, QueueFacts DEF FollowInv, Sample
  <2>6. inbox'[z] # <<>> /\ inbox'[z][Len(inbox'[z])] = s.metric
    BY <2>3, <2>5, AppendEnds
  <2>7. Newest(z)' = s.metric
    BY <2>6 DEF Newest
  <2>8. s.metric \in Current(z)
    BY <1>1, <1>6 DEF FollowInv, StoresItsSample
  <2>9. QED
    BY <1>1, <2>7, <2>8 DEF Current
<1>7. ASSUME NEW z \in Zones, ~Storing(z)', ~dropped'[z] PROVE Newest(z)' \in Current(z)'
  BY <1>5, <1>6, <1>7
<1>8. QED
  BY <1>4, <1>7 DEF AgentFollowsFacts, Current

\* FollowInv is inductive: nobody but requests and agents touches what it is about.
LEMMA FollowNext ==
    ASSUME FollowInv, [Next]_vars
    PROVE  FollowInv'
<1>1. TypeInv'
  BY TypeInvStep DEF FollowInv
<1>2. ASSUME NEW z \in Zones, TakeSample(z) PROVE StoresItsSample' /\ AgentFollowsFacts'
  <2>1. UNCHANGED <<facts, work, stored, rivals, dropped>>
    BY <1>2 DEF TakeSample, ingestVars
  <2>2. \A y \in Zones : Newest(y)' = Newest(y)
    BY <1>2, TakingKeepsNewest DEF FollowInv
  <2>3. QED
    BY <2>1, <2>2, FollowQuiet
<1>3. ASSUME UNCHANGED <<facts, work, stored, rivals, dropped, inbox, last>>
      PROVE  StoresItsSample' /\ AgentFollowsFacts'
  <2>1. \A y \in Zones : Newest(y)' = Newest(y)
    BY <1>3 DEF Newest
  <2>2. QED
    BY <1>3, <2>1, FollowQuiet
<1>4. ASSUME NEW z \in Zones, ScanNeighbor(z) \/ ShedLoad(z) \/ TakeOffer(z) \/ SendReply(z) \/ Stop(z)
      PROVE  UNCHANGED <<facts, work, stored, rivals, dropped, inbox, last>>
  BY <1>4 DEF ScanNeighbor, ShedLoad, TakeOffer, SendReply, Stop, ingestVars, channelVars
<1>5. ASSUME NEW i \in DOMAIN talks, TalkStep(i) PROVE UNCHANGED <<facts, work, stored, rivals, dropped, inbox, last>>
  BY <1>5 DEF TalkStep, SendOffer, TakeReply, TimeOut, Cancel, Decide, Intervene, Return,
              ingestVars, agentVars, channelVars
<1>6. Shutdown \/ Exit \/ UNCHANGED vars => UNCHANGED <<facts, work, stored, rivals, dropped, inbox, last>>
  BY DEF Shutdown, Exit, vars, ingestVars, agentVars, channelVars
<1>7. ASSUME NEW h \in Handlers, Ingest(h) PROVE StoresItsSample' /\ AgentFollowsFacts'
  BY <1>7, FollowSet, FollowDeliver DEF Ingest
<1>8. ASSUME NEW z \in Zones, Agent(z) PROVE StoresItsSample' /\ AgentFollowsFacts'
  BY <1>2, <1>3, <1>4, <1>8 DEF Agent
<1>9. ASSUME NEW i \in DOMAIN talks, TalkStep(i) PROVE StoresItsSample' /\ AgentFollowsFacts'
  <2>1. UNCHANGED <<facts, work, stored, rivals, dropped, inbox, last>>
    BY <1>5, <1>9
  <2>2. QED
    BY <1>3, <2>1
<1>10. CASE Shutdown \/ Exit \/ UNCHANGED vars
  BY <1>1, <1>3, <1>6, <1>10 DEF FollowInv
<1>11. QED
  BY <1>1, <1>7, <1>8, <1>9, <1>10, FollowPost DEF Next, FollowInv

\* However telemetry requests overlap, the sample an agent decides on, or will when it
\* has drained its inbox, is the fact of the state manager or one whose request was
\* between Set and Deliver when the fact was Set, unless a full inbox has dropped the
\* last that was offered (handleTelemetry's Set and Deliver).
THEOREM AgentFollows == Spec => []AgentFollowsFacts
<1>1. FollowInv => AgentFollowsFacts
  BY DEF FollowInv
<1>2. FollowInv /\ [Next]_vars => FollowInv'
  BY FollowNext
<1>3. QED
  BY <1>1, <1>2, FollowInit, PTL DEF Spec

-----------------------------------------------------------------------------
(* The search of leastLoadedNeighbor always finds a neighbour.              *)

\* Densities are below the bound that the search starts from.
DensitiesBelow == \A b \in Batches : \A k \in DOMAIN b : b[k].metric.density < FarDensity

NearFacts ==
    /\ \A p \in DOMAIN facts : facts[p].density < FarDensity
    /\ \A h \in Handlers : \A k \in DOMAIN work[h] : work[h][k].metric.density < FarDensity

\* A search that has looked at a neighbour has a best one.
SearchFinds ==
    \A z \in Zones : pc[z] = "scan" =>
        \/ scan[z].best \in Zones
        \/ scan[z].next = 1 /\ scan[z].rank = 99 /\ scan[z].density = FarDensity

NoTalkDispatches == \A i \in DOMAIN talks : talks[i].action # "DISPATCH_STAFF"

StaffInv == TypeInv /\ NearFacts /\ SearchFinds /\ NoTalkDispatches /\ NoStaffDispatched

LEMMA RankAtMost99 == \A level : congestionRank(level) \in Nat /\ congestionRank(level) <= 99
  BY DEF congestionRank

LEMMA StaffInit == Init => StaffInv
<1> SUFFICES ASSUME Init PROVE StaffInv
  OBVIOUS
<1>1. NearFacts
  BY DEF Init, NearFacts, ZeroMetric, FarDensity
<1>2. SearchFinds /\ NoTalkDispatches /\ NoStaffDispatched
  BY DEF Init, SearchFinds, NoTalkDispatches, NoStaffDispatched
<1>3. QED
  BY <1>1, <1>2, TypeInvInit DEF StaffInv

LEMMA StaffRequest ==
    ASSUME DensitiesBelow, StaffInv, NEW h \in Handlers, Ingest(h) \/ (\E b \in Batches : Post(h, b))
    PROVE  NearFacts' /\ SearchFinds' /\ NoTalkDispatches' /\ NoStaffDispatched'
<1>1. UNCHANGED <<pc, scan, talks, log>>
  BY DEF Ingest, SetFact, Deliver, Post, agentVars
<1>2. SearchFinds' /\ NoTalkDispatches' /\ NoStaffDispatched'
  BY <1>1 DEF StaffInv, SearchFinds, NoTalkDispatches, NoStaffDispatched
<1>3. work \in [Handlers -> Seq(Sample)]
  BY DEF StaffInv, TypeInv, TypeOK
<1>4. ASSUME NEW b \in Batches, Post(h, b) PROVE NearFacts'
  BY <1>3, <1>4 DEF Post, StaffInv, NearFacts, DensitiesBelow
<1>5. ASSUME SetFact(h) PROVE NearFacts'
  <2>1. 1 \in DOMAIN work[h] /\ Head(work[h]) = work[h][1]
    BY <1>3, <1>5, EmptySeq, LenProperties, HeadTailProperties DEF SetFact
  <2>2. QED
    BY <1>5, <2>1 DEF SetFact, StaffInv, NearFacts
<1>6. ASSUME Deliver(h) PROVE NearFacts'
  <2>1. work' = [work EXCEPT ![h] = Tail(work[h])] /\ work[h] # <<>> /\ facts' = facts
    BY <1>6 DEF Deliver
  <2>2. \A k \in DOMAIN Tail(work[h]) : k + 1 \in DOMAIN work[h] /\ Tail(work[h])[k] = work[h][k + 1]
    <3>1. /\ work[h] \in Seq(Sample) /\ Len(work[h]) \in Nat /\ DOMAIN work[h] = 1..Len(work[h])
          /\ DOMAIN Tail(work[h]) = 1..(Len(work[h]) - 1)
          /\ \A k \in 1..(Len(work[h]) - 1) : Tail(work[h])[k] = work[h][k + 1]
      BY <1>3, <2>1, LenProperties, HeadTailProperties
    <3>2. QED
      BY <3>1
  <2>3. QED
    BY <1>3, <2>1, <2>2 DEF StaffInv, NearFacts
<1>7. QED
  BY <1>2, <1>4, <1>5, <1>6 DEF Ingest

LEMMA StaffAgent ==
    ASSUME StaffInv, NEW z \in Zones, Agent(z)
    PROVE  NearFacts' /\ SearchFinds' /\ NoTalkDispatches' /\ NoStaffDispatched'
<1>1. /\ pc \in [Zones -> {"select", "scan", "reply", "stopped"}] /\ scan \in [Zones -> Scan]
      /\ Zones \subseteq DOMAIN facts /\ facts \in [DOMAIN facts -> Metric]
      /\ talks \in Seq(Talk) /\ log \in Seq(Intervention)
  BY DEF StaffInv, TypeInv, TypeOK
<1>2. NearFacts'
  <2>1. UNCHANGED <<facts, work>>
    BY DEF Agent, TakeSample, ScanNeighbor, ShedLoad, TakeOffer, SendReply, Stop, ingestVars
  <2>2. QED
    BY <2>1 DEF StaffInv, NearFacts
<1>3. CASE TakeSample(z)
  <2>1. UNCHANGED <<talks, log>>
    BY <1>3 DEF TakeSample
  <2>2. \/ UNCHANGED <<pc, scan>>
        \/ /\ pc' = [pc EXCEPT ![z] = "scan"]
           /\ scan' = [scan EXCEPT ![z] = FreshScan(Overflow(Head(inbox[z])))]
    BY <1>3 DEF TakeSample, evaluate
  <2>3. SearchFinds'
    BY <1>1, <2>2 DEF StaffInv, SearchFinds, FreshScan
  <2>4. QED
    BY <1>2, <2>1, <2>3 DEF StaffInv, NoTalkDispatches, NoStaffDispatched
<1>4. CASE ScanNeighbor(z)
  <2> DEFINE id == Neighbors[z][scan[z].next]
             on == [scan[z] EXCEPT !.next = scan[z].next + 1]
             found == [on EXCEPT !.best = id, !.rank = congestionRank(facts[id].congestion),
                                 !.density = facts[id].density]
  <2>1. /\ pc[z] = "scan" /\ UNCHANGED <<pc, talks, log>> /\ scan[z].next <= Len(Neighbors[z])
        /\ scan' = [scan EXCEPT ![z] = IF id \in DOMAIN facts /\ Beats(facts[id], scan[z]) THEN found ELSE on]
    BY <1>4 DEF ScanNeighbor
  <2>2. scan[z] \in Scan /\ scan[z].next \in 1..2
    BY <1>1, <2>1, NeighborsAreZones DEF Scan
  <2>3. id \in Zones
    <3>1. scan[z].next = 1 \/ scan[z].next = 2
      BY <2>2
    <3>2. QED
      BY <3>1, NeighborsAreZones
  <2>4. found.best = id /\ on.best = scan[z].best
    BY <2>2 DEF Scan
  <2>5. scan[z].best \in Zones \/ Beats(facts[id], scan[z])
    <3>1. CASE scan[z].rank = 99 /\ scan[z].density = FarDensity
      <4>1. facts[id].density < FarDensity /\ facts[id] \in Metric
        BY <1>1, <2>3 DEF StaffInv, NearFacts
      <4>2. QED
        BY <3>1, <4>1, RankAtMost99 DEF Beats, Metric
    <3>2. QED
      BY <2>1, <3>1 DEF StaffInv, SearchFinds
  <2>6. scan'[z].best \in Zones
    BY <1>1, <2>1, <2>3, <2>4, <2>5
  <2>7. \A y \in Zones : y # z => scan'[y] = scan[y]
    BY <1>1, <2>1
  <2>8. SearchFinds'
    BY <2>1, <2>6, <2>7 DEF StaffInv, SearchFinds
  <2>9. QED
    BY <1>2, <2>1, <2>8 DEF StaffInv, NoTalkDispatches, NoStaffDispatched
<1>5. CASE ShedLoad(z)
  <2>1. pc[z] = "scan" /\ scan[z].next > 2 /\ pc' = [pc EXCEPT ![z] = "select"]
        /\ scan' = [scan EXCEPT ![z] = NoScan]
    BY <1>5, NeighborsAreZones DEF ShedLoad
  <2>2. scan[z].best \in Zones
    BY <2>1 DEF StaffInv, SearchFinds
  <2>3. scan[z].best # NoZone
    BY <2>2, StrangersAssumption DEF Places
  <2>4. log' = log /\ talks' = Append(talks, NewTalk(z, scan[z].best, scan[z].overflow))
    BY <1>5, <2>3 DEF ShedLoad
  <2>5. NewTalk(z, scan[z].best, scan[z].overflow) \in Talk
    BY <1>1, <2>2 DEF NewTalk, Talk, Scan
  <2>6. \A i \in DOMAIN talks' : (i \in DOMAIN talks /\ talks'[i] = talks[i])
                                 \/ talks'[i] = NewTalk(z, scan[z].best, scan[z].overflow)
    <3> DEFINE t == NewTalk(z, scan[z].best, scan[z].overflow)
    <3> HIDE DEF t
    <3>1. talks' = Append(talks, t) /\ t \in Talk
      BY <2>4, <2>5 DEF t
    <3>2. \A i \in DOMAIN talks' : (i \in DOMAIN talks /\ talks'[i] = talks[i]) \/ talks'[i] = t
      BY <1>1, <3>1, AppendProperties, LenProperties
    <3>3. QED
      BY <3>2 DEF t
  <2>7. NoTalkDispatches'
    BY <2>6 DEF StaffInv, NoTalkDispatches, NewTalk
  <2>8. SearchFinds'
    BY <1>1, <2>1 DEF StaffInv, SearchFinds
  <2>9. QED
    BY <1>2, <2>4, <2>7, <2>8 DEF StaffInv, NoStaffDispatched
<1>6. CASE TakeOffer(z)
  <2>1. pc' = [pc EXCEPT ![z] = "reply"] /\ UNCHANGED <<scan, talks>>
    BY <1>6 DEF TakeOffer
  <2>2. SearchFinds'
    BY <1>1, <2>1 DEF StaffInv, SearchFinds
  <2>3. NoStaffDispatched'
    <3> DEFINE i == Head(negotiation[z])
               e == Entry(z, "SIGNAGE_REROUTE", talks[i].from, i)
    <3>1. log' = log \o <<>> \/ log' = log \o <<e>>
      BY <1>6 DEF TakeOffer, SignageChange
    <3>2. e.type = "SIGNAGE_REROUTE"
      BY DEF Entry
    <3> HIDE DEF e
    <3>3. Len(log) \in Nat /\ DOMAIN log = 1..Len(log)
      BY <1>1, LenProperties
    <3>4. CASE log' = log \o <<>>
      BY <1>1, <3>4, ConcatEmptySeq DEF StaffInv, NoStaffDispatched
    <3>5. CASE log' = log \o <<e>>
      <4>1. \A k \in DOMAIN log' : (k \in DOMAIN log /\ log'[k] = log[k]) \/ log'[k] = e
        BY <1>1, <3>3, <3>5
      <4>2. QED
        BY <3>2, <4>1 DEF StaffInv, NoStaffDispatched
    <3>6. QED
      BY <3>1, <3>4, <3>5
  <2>4. QED
    BY <1>2, <2>1, <2>2, <2>3 DEF StaffInv, NoTalkDispatches
<1>7. CASE SendReply(z)
  <2>1. pc' = [pc EXCEPT ![z] = "select"] /\ UNCHANGED <<scan, log>>
    BY <1>7 DEF SendReply
  <2>2. SearchFinds'
    BY <1>1, <2>1 DEF StaffInv, SearchFinds
  <2>3. NoTalkDispatches'
    <3> DEFINE i == answering[z].talk
               v == IF answering[z].accept THEN "accepted" ELSE "rejected"
    <3>1. CASE talks[i].reply = "empty"
      <4> DEFINE t == [talks[i] EXCEPT !.reply = v]
      <4>1. pc[z] = "reply" /\ talks' = [talks EXCEPT ![i].reply = v]
        BY <1>7, <3>1 DEF SendReply, PutReply
      <4>2. i \in DOMAIN talks
        BY <4>1 DEF StaffInv, TypeInv, TypeOK
      <4>3. talks[i] \in Talk
        BY <4>2, TalkAt DEF StaffInv
      <4>4. talks' = [talks EXCEPT ![i] = t] /\ t.action = talks[i].action
        BY <4>1, <4>2, <4>3 DEF Talk
      <4> HIDE DEF t, i
      <4>5. QED
        BY <4>2, <4>4 DEF StaffInv, NoTalkDispatches
    <3>2. CASE talks[i].reply # "empty"
      BY <1>7, <3>2 DEF SendReply, PutReply, StaffInv, NoTalkDispatches
    <3>3. QED
      BY <3>1, <3>2
  <2>4. QED
    BY <1>2, <2>1, <2>2, <2>3 DEF StaffInv, NoStaffDispatched
<1>8. CASE Stop(z)
  <2>1. pc' = [pc EXCEPT ![z] = "stopped"] /\ UNCHANGED <<scan, talks, log>>
    BY <1>8 DEF Stop
  <2>2. SearchFinds'
    BY <1>1, <2>1 DEF StaffInv, SearchFinds
  <2>3. QED
    BY <1>2, <2>1, <2>2 DEF StaffInv, NoTalkDispatches, NoStaffDispatched
<1>9. QED
  BY <1>3, <1>4, <1>5, <1>6, <1>7, <1>8 DEF Agent

LEMMA StaffTalk ==
    ASSUME StaffInv, NEW i \in DOMAIN talks, TalkStep(i)
    PROVE  NearFacts' /\ SearchFinds' /\ NoTalkDispatches' /\ NoStaffDispatched'
<1>1. talks \in Seq(Talk) /\ talks[i] \in Talk /\ log \in Seq(Intervention)
  BY TalkAt DEF StaffInv, TypeInv, TypeOK
<1>2. UNCHANGED <<facts, work, pc, scan>>
  BY DEF TalkStep, SendOffer, TakeReply, TimeOut, Cancel, Decide, Intervene, Return, ingestVars, agentVars
<1>3. NearFacts' /\ SearchFinds'
  BY <1>2 DEF StaffInv, NearFacts, SearchFinds
<1>4. ASSUME NEW t, talks' = [talks EXCEPT ![i] = t], t.action # "DISPATCH_STAFF" PROVE NoTalkDispatches'
  BY <1>1, <1>4 DEF StaffInv, NoTalkDispatches
<1>5. talks[i].action # "DISPATCH_STAFF"
  BY DEF StaffInv, NoTalkDispatches
<1>6. CASE SendOffer(i) \/ Intervene(i)
  <2>1. PICK s : talks' = [talks EXCEPT ![i].stage = s]
    BY <1>6 DEF SendOffer, Intervene
  <2> DEFINE t == [talks[i] EXCEPT !.stage = s]
  <2>2. talks' = [talks EXCEPT ![i] = t] /\ t.action = talks[i].action
    BY <1>1, <2>1 DEF Talk
  <2> HIDE DEF t
  <2>3. NoTalkDispatches'
    BY <1>4, <1>5, <2>2
  <2>4. NoStaffDispatched'
    <3>1. CASE SendOffer(i)
      BY <3>1 DEF SendOffer, agentVars, StaffInv, NoStaffDispatched
    <3>2. CASE Intervene(i)
      <4> DEFINE e == Entry(talks[i].from, talks[i].action, talks[i].dest, i)
      <4>1. log' = Append(log, e) /\ e.type # "DISPATCH_STAFF"
        BY <1>5, <3>2 DEF Intervene, Entry
      <4> HIDE DEF e
      <4>2. \A k \in DOMAIN log' : (k \in DOMAIN log /\ log'[k] = log[k]) \/ log'[k] = e
        BY <1>1, <4>1, LenProperties
      <4>3. QED
        BY <4>1, <4>2 DEF StaffInv, NoStaffDispatched
    <3>3. QED
      BY <1>6, <3>1, <3>2
  <2>5. QED
    BY <1>3, <2>3, <2>4
<1>7. CASE TakeReply(i) \/ TimeOut(i) \/ Cancel(i)
  <2>1. PICK a : Return(i, a)
    BY <1>7 DEF TakeReply, TimeOut, Cancel
  <2> DEFINE t == [talks[i] EXCEPT !.stage = "answered", !.answer = a]
  <2>2. talks' = [talks EXCEPT ![i] = t] /\ t.action = talks[i].action
    BY <1>1, <2>1 DEF Return, Talk
  <2>3. log' = log
    BY <2>1 DEF Return
  <2> HIDE DEF t
  <2>4. NoTalkDispatches'
    BY <1>4, <1>5, <2>2
  <2>5. QED
    BY <1>3, <2>3, <2>4 DEF StaffInv, NoStaffDispatched
<1>8. CASE Decide(i)
  <2>1. PICK c \in Consequences(i) :
            talks' = [talks EXCEPT ![i].stage = "decided", ![i].action = c[1], ![i].dest = c[2]]
    BY <1>8 DEF Decide
  <2> DEFINE t == [talks[i] EXCEPT !.stage = "decided", !.action = c[1], !.dest = c[2]]
  <2>2. talks' = [talks EXCEPT ![i] = t] /\ t.action = c[1]
    BY <1>1, <2>1 DEF Talk
  <2>3. c[1] # "DISPATCH_STAFF"
    BY DEF Consequences
  <2>4. log' = log
    BY <1>8 DEF Decide
  <2> HIDE DEF t
  <2>5. NoTalkDispatches'
    BY <1>4, <2>2, <2>3
  <2>6. QED
    BY <1>3, <2>4, <2>5 DEF StaffInv, NoStaffDispatched
<1>9. QED
  BY <1>6, <1>7, <1>8 DEF TalkStep

LEMMA StaffNext ==
    ASSUME DensitiesBelow, StaffInv, [Next]_vars
    PROVE  StaffInv'
<1>1. TypeInv'
  BY TypeInvStep DEF StaffInv
<1>2. CASE Shutdown \/ Exit \/ UNCHANGED vars
  <2>1. UNCHANGED <<facts, work, pc, scan, talks, log>>
    BY <1>2 DEF Shutdown, Exit, vars, ingestVars, agentVars, channelVars
  <2>2. QED
    BY <1>1, <2>1 DEF StaffInv, NearFacts, SearchFinds, NoTalkDispatches, NoStaffDispatched
<1>3. CASE Next /\ ~Shutdown /\ ~Exit
  BY <1>1, <1>3, StaffRequest, StaffAgent, StaffTalk DEF Next, StaffInv
<1>4. QED
  BY <1>2, <1>3

\* Staff is never dispatched, in any ring: leastLoadedNeighbor finds a neighbour
\* for every overflow, even where all are CRITICAL or have never reported, as
\* long as densities are below the bound its search starts from.
THEOREM NoStaff ==
    ASSUME DensitiesBelow
    PROVE  Spec => []NoStaffDispatched
<1>1. StaffInv => NoStaffDispatched
  BY DEF StaffInv
<1>2. StaffInv /\ [Next]_vars => StaffInv'
  BY StaffNext
<1>3. QED
  BY <1>1, <1>2, StaffInit, PTL DEF Spec
=============================================================================
