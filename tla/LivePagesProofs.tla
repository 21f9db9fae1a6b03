--------------------------- MODULE LivePagesProofs ---------------------------
(***************************************************************************)
(* Theorems about the service and the pages of LivePages, for every number *)
(* of calls, streams, pages and interventions, every channel capacity and  *)
(* every length of the list on the screen.                                 *)
(*                                                                         *)
(* ServiceInv adds to the types of the service what keeps the entries of   *)
(* the log apart: ids are stamped in the order of the clock, and a call    *)
(* that has yet to record its entry is the only one to have its id.        *)
(*                                                                         *)
(* PagesInv adds what the pages know of the log: Told, that nothing is     *)
(* known that the log does not tell; Copies, how often an id is in a list; *)
(* Subscribed, who is subscribed; CallsTell and Flow, that what the log    *)
(* has is on a page already or on its way there, as the last word on it.   *)
(***************************************************************************)
EXTENDS LivePages, SequenceTheorems, FunctionTheorems, FiniteSetTheorems, WellFoundedInduction, TLAPS

CallTypes == [at : Steps, iv : Interventions \cup {NoIntervention}, to : SUBSET Streams]

\* The clock has passed what is stamped.
Stamped(id) == id \in Ids /\ id <= applied
StampsPast ==
    /\ \A k \in DOMAIN log : Stamped(log[k].id)
    /\ \A c \in Calls : call[c].at # "idle" => call[c].iv \in Interventions /\ Stamped(call[c].iv.id)
    /\ \A c \in Calls : call[c].to # {} => call[c].at \in {"sending", "resending"}

\* No two calls have an id in common, and an unrecorded one is not in the log.
IdsApart ==
    /\ \A c, d \in Calls : call[c].at # "idle" /\ call[d].at # "idle" /\ call[c].iv.id = call[d].iv.id => c = d
    /\ \A c \in Calls : call[c].at = "stamped" => \A k \in DOMAIN log : log[k].id # call[c].iv.id

ServiceInv == ServiceTypeOK /\ StampsPast /\ IdsApart

\* What the service does in a step of the composition.
ServiceStep ==
    \/ \E c \in Calls : Proceed(c) \/ \E alarm \in BOOLEAN : Stamp(c, alarm)
    \/ \E c \in Calls, s \in Streams : Send(c, s)
    \/ \E s \in Streams : Subscribe(s) \/ Unsubscribe(s) \/ Receive(s)
    \/ UNCHANGED serviceVars

LEMMA StepsOfService == [Next]_vars => ServiceStep
<1> SUFFICES ASSUME [Next]_vars PROVE ServiceStep
  OBVIOUS
<1>1. ASSUME NEW c \in Calls, Serve(c) PROVE ServiceStep
  <2>1. (applied + 1 \in AgentAlarms) \in BOOLEAN
    OBVIOUS
  <2>2. Proceed(c) \/ \E alarm \in BOOLEAN : Stamp(c, alarm)
    BY <1>1, <2>1, Zenon DEF Serve
  <2>3. QED
    BY <2>2 DEF ServiceStep
<1>2. ASSUME NEW c \in Calls, NEW p \in Pages, FanOut(c, p) \/ Post(p, c) PROVE ServiceStep
  <2>1. Send(c, p) \/ Stamp(c, TRUE)
    BY <1>2 DEF FanOut, Post
  <2>2. TRUE \in BOOLEAN /\ p \in Streams
    BY DEF Pages
  <2>3. QED
    BY <2>1, <2>2 DEF ServiceStep
<1>3. ASSUME NEW p \in Pages, Page(p) PROVE ServiceStep
  <2>1. Subscribe(p) \/ Unsubscribe(p) \/ Receive(p) \/ UNCHANGED serviceVars
    BY <1>3 DEF Page, Connect, Join, Opened, Frame, Lost, Answer, Arrive, PostDone
  <2>2. QED
    BY <2>1 DEF ServiceStep, Pages
<1>4. CASE UNCHANGED vars
  BY <1>4 DEF vars, ServiceStep
<1>5. QED
  BY <1>1, <1>2, <1>3, <1>4 DEF Next

-----------------------------------------------------------------------------
(* One lemma per kind of step. *)

\* What is known of a call and of the log.
LEMMA CallFacts ==
    ASSUME ServiceInv, NEW c \in Calls
    PROVE  /\ call[c] \in CallTypes /\ call \in [Calls -> CallTypes]
           /\ applied \in Nat /\ log \in Seq(Interventions) /\ DOMAIN log = 1..Len(log) /\ Len(log) \in Nat
           /\ \A k \in DOMAIN log : log[k] \in Interventions
           /\ call[c].at # "idle" => call[c].iv \in Interventions
<1>1. applied \in Nat
  BY ServiceAssumption DEF ServiceInv, ServiceTypeOK
<1>2. log \in Seq(Interventions) /\ DOMAIN log = 1..Len(log) /\ Len(log) \in Nat
  BY LenProperties DEF ServiceInv, ServiceTypeOK
<1>3. \A k \in DOMAIN log : log[k] \in Interventions
  BY <1>2, ElementOfSeq
<1>4. QED
  BY <1>1, <1>2, <1>3 DEF ServiceInv, ServiceTypeOK, StampsPast, CallTypes

LEMMA StampInv ==
    ASSUME ServiceInv, NEW c \in Calls, NEW alarm \in BOOLEAN, Stamp(c, alarm)
    PROVE  ServiceInv'
<1> DEFINE iv == [id |-> applied + 1, alarm |-> alarm, message |-> "plain"]
           new == [at |-> "stamped", to |-> {}, iv |-> iv]
<1>1. /\ call' = [call EXCEPT ![c] = new] /\ applied' = applied + 1 /\ applied < MaxApplied
      /\ UNCHANGED <<log, subs, chan>> /\ call[c].at = "idle"
  BY DEF Stamp, Free
<1>2. applied \in Nat /\ call \in [Calls -> CallTypes] /\ MaxApplied \in Nat
  BY CallFacts, ServiceAssumption
<1>3. applied + 1 \in Ids
  BY <1>1, <1>2 DEF Ids
<1>4. iv \in Interventions
  BY <1>3 DEF Interventions
<1>5. new \in CallTypes
  BY <1>4 DEF CallTypes, Steps
<1>6. /\ call' \in [Calls -> CallTypes] /\ call'[c] = new
      /\ \A d \in Calls : d # c => call'[d] = call[d]
  BY <1>1, <1>2, <1>5
<1>7. applied' \in 0..MaxApplied
  BY <1>1, <1>2
<1>8. ServiceTypeOK'
  BY <1>1, <1>6, <1>7 DEF ServiceInv, ServiceTypeOK, CallTypes
<1>9. StampsPast'
  <2>1. \A id \in Ids : id <= applied => id <= applied'
    BY <1>1, <1>2 DEF Ids
  <2>2. \A k \in DOMAIN log' : log'[k].id \in Ids /\ log'[k].id <= applied'
    BY <1>1, <2>1 DEF ServiceInv, StampsPast, Stamped
  <2>3. ASSUME NEW d \in Calls, call'[d].at # "idle"
        PROVE  call'[d].iv \in Interventions /\ call'[d].iv.id \in Ids /\ call'[d].iv.id <= applied'
    <3>1. CASE d = c
      <4>1. call'[d].iv = iv /\ iv.id = applied + 1
        BY <1>6, <3>1
      <4>2. QED
        BY <1>1, <1>2, <1>3, <1>4, <4>1
    <3>2. CASE d # c
      BY <1>6, <2>1, <2>3, <3>2 DEF ServiceInv, StampsPast, Stamped
    <3>3. QED
      BY <3>1, <3>2
  <2>4. \A d \in Calls : call'[d].to # {} => call'[d].at \in {"sending", "resending"}
    BY <1>6 DEF ServiceInv, StampsPast
  <2>5. QED
    BY <2>2, <2>3, <2>4 DEF StampsPast, Stamped
<1>10. IdsApart'
  <2>1. \A d \in Calls : call[d].at # "idle" => call[d].iv.id # iv.id
    BY <1>2 DEF ServiceInv, StampsPast, Stamped, Ids
  <2>2. \A k \in DOMAIN log : log[k].id # iv.id
    BY <1>2 DEF ServiceInv, StampsPast, Stamped, Ids
  <2>3. QED
    BY <1>1, <1>6, <2>1, <2>2 DEF ServiceInv, IdsApart
<1>11. QED
  BY <1>8, <1>9, <1>10 DEF ServiceInv

\* The call goes on and keeps its id; the log keeps its ids, or gets that of the
\* call when it was stamped.
LEMMA CallMovesInv ==
    ASSUME ServiceInv, NEW c \in Calls, NEW new \in CallTypes,
           call' = [call EXCEPT ![c] = new], call[c].at # "idle",
           new.at \notin {"idle", "stamped"}, new.to # {} => new.at \in {"sending", "resending"}, new.iv \in Interventions, new.iv.id = call[c].iv.id,
           UNCHANGED <<applied, subs>>,
           log' \in Seq(Interventions),
           chan' \in [Streams -> Seq(Interventions)], \A s \in Streams : Len(chan'[s]) <= SubCap,
           \A k \in DOMAIN log' : \/ k \in DOMAIN log /\ log'[k].id = log[k].id
                                  \/ call[c].at = "stamped" /\ log'[k].id = call[c].iv.id
    PROVE  ServiceInv'
<1>1. call \in [Calls -> CallTypes]
  BY CallFacts
<1>2. /\ call' \in [Calls -> CallTypes] /\ call'[c] = new
      /\ \A d \in Calls : d # c => call'[d] = call[d]
  BY <1>1
<1>3. ServiceTypeOK'
  BY <1>2 DEF ServiceInv, ServiceTypeOK, CallTypes
<1>4. \A id : Stamped(id)' <=> Stamped(id)
  BY DEF Stamped
<1>5. StampsPast'
  BY <1>2, <1>4 DEF ServiceInv, StampsPast
<1>6. IdsApart'
  BY <1>2 DEF ServiceInv, IdsApart
<1>7. QED
  BY <1>3, <1>5, <1>6 DEF ServiceInv

LEMMA RecordInv == ASSUME ServiceInv, NEW c \in Calls, Record(c) PROVE ServiceInv'
<1> DEFINE new == [call[c] EXCEPT !.at = "recorded"]
<1>1. /\ call[c].at = "stamped" /\ log' = Append(log, call[c].iv) /\ call' = [call EXCEPT ![c] = new]
      /\ UNCHANGED <<applied, subs, chan>>
  BY CallFacts DEF Record
<1>2. call[c] \in CallTypes /\ call[c].iv \in Interventions
  BY <1>1, CallFacts
<1>3. /\ new \in CallTypes /\ new.at = "recorded" /\ new.iv = call[c].iv /\ new.to = {}
  BY <1>1, <1>2 DEF CallTypes, Steps, ServiceInv, StampsPast
<1>4. log \in Seq(Interventions) /\ Len(log) \in Nat /\ DOMAIN log = 1..Len(log)
  BY CallFacts
<1>5. /\ log' \in Seq(Interventions) /\ DOMAIN log' = 1..(Len(log) + 1)
      /\ \A k \in 1..Len(log) : log'[k] = log[k]
      /\ log'[Len(log) + 1] = call[c].iv
  BY <1>1, <1>2, <1>4, AppendProperties, LenProperties
<1>6. \A k \in DOMAIN log' : \/ k \in DOMAIN log /\ log'[k].id = log[k].id
                             \/ call[c].at = "stamped" /\ log'[k].id = call[c].iv.id
  BY <1>1, <1>4, <1>5
<1>7. chan' \in [Streams -> Seq(Interventions)] /\ \A s \in Streams : Len(chan'[s]) <= SubCap
  BY <1>1 DEF ServiceInv, ServiceTypeOK
<1>8. QED
  BY <1>1, <1>2, <1>3, <1>5, <1>6, <1>7, CallMovesInv

LEMMA RewriteInv == ASSUME ServiceInv, NEW c \in Calls, Rewrite(c) PROVE ServiceInv'
<1> DEFINE new == [call[c] EXCEPT !.at = "rewritten", !.iv.message = "polished"]
<1>1. /\ call[c].at = "sending" /\ call[c].to = {} /\ call' = [call EXCEPT ![c] = new]
      /\ log' = [k \in DOMAIN log |->
                   IF log[k].id = call[c].iv.id THEN [log[k] EXCEPT !.message = "polished"] ELSE log[k]]
      /\ UNCHANGED <<applied, subs, chan>>
  BY CallFacts DEF Rewrite, Polishing
<1>2. call[c] \in CallTypes /\ call[c].iv \in Interventions
  BY <1>1, CallFacts
<1>3. [call[c].iv EXCEPT !.message = "polished"] \in Interventions
  BY <1>2 DEF Interventions
<1>4. /\ new \in CallTypes /\ new.at = "rewritten" /\ new.to = {} /\ new.iv \in Interventions /\ new.iv.id = call[c].iv.id
  BY <1>1, <1>2, <1>3 DEF CallTypes, Steps, Interventions
<1>5. /\ log \in Seq(Interventions) /\ Len(log) \in Nat /\ DOMAIN log = 1..Len(log)
      /\ \A k \in DOMAIN log : log[k] \in Interventions
  BY CallFacts
<1>6. \A k \in DOMAIN log : log'[k] \in Interventions /\ log'[k].id = log[k].id
  BY <1>1, <1>5 DEF Interventions
<1>7. log' \in [1..Len(log) -> Interventions]
  BY <1>1, <1>5, <1>6
<1>8. log' \in Seq(Interventions) /\ DOMAIN log' = DOMAIN log
  BY <1>5, <1>7
<1>9. chan' \in [Streams -> Seq(Interventions)] /\ \A s \in Streams : Len(chan'[s]) <= SubCap
  BY <1>1 DEF ServiceInv, ServiceTypeOK
<1>10. QED
  BY <1>1, <1>2, <1>4, <1>6, <1>8, <1>9, CallMovesInv

LEMMA CopySubsInv == ASSUME ServiceInv, NEW c \in Calls, CopySubs(c) PROVE ServiceInv'
<1> DEFINE new == [call[c] EXCEPT !.to = subs, !.at = IF call[c].at = "recorded" THEN "sending" ELSE "resending"]
<1>1. /\ call[c].at \in {"recorded", "rewritten"} /\ call' = [call EXCEPT ![c] = new]
      /\ UNCHANGED <<applied, log, subs, chan>>
  BY CallFacts DEF CopySubs
<1>2. call[c] \in CallTypes /\ call[c].iv \in Interventions /\ subs \subseteq Streams
  BY <1>1, CallFacts DEF ServiceInv, ServiceTypeOK
<1>3. /\ new \in CallTypes /\ new.at \in {"sending", "resending"} /\ new.iv = call[c].iv
  BY <1>2 DEF CallTypes, Steps
<1>4. /\ log' \in Seq(Interventions) /\ chan' \in [Streams -> Seq(Interventions)]
      /\ \A s \in Streams : Len(chan'[s]) <= SubCap
  BY <1>1 DEF ServiceInv, ServiceTypeOK
<1>5. QED
  BY <1>1, <1>2, <1>3, <1>4, CallMovesInv

LEMMA SendInv == ASSUME ServiceInv, NEW c \in Calls, NEW s \in Streams, Send(c, s) PROVE ServiceInv'
<1> DEFINE new == [call[c] EXCEPT !.to = @ \ {s}]
<1>1. /\ s \in call[c].to /\ call' = [call EXCEPT ![c] = new]
      /\ UNCHANGED <<applied, log, subs>>
      /\ chan' = IF ChanHasRoom(s) THEN [chan EXCEPT ![s] = Append(@, call[c].iv)] ELSE chan
  BY CallFacts DEF Send
<1>2. call[c] \in CallTypes /\ call[c].iv \in Interventions /\ call[c].at \in {"sending", "resending"}
  BY <1>1, CallFacts DEF ServiceInv, StampsPast
<1>3. /\ new \in CallTypes /\ new.at = call[c].at /\ new.iv = call[c].iv
  BY <1>2 DEF CallTypes
<1>4. chan' \in [Streams -> Seq(Interventions)] /\ \A q \in Streams : Len(chan'[q]) <= SubCap
  <2>1. chan \in [Streams -> Seq(Interventions)] /\ \A q \in Streams : Len(chan[q]) <= SubCap
    BY DEF ServiceInv, ServiceTypeOK
  <2>2. CASE ChanHasRoom(s)
    <3>1. chan' = [chan EXCEPT ![s] = Append(chan[s], call[c].iv)]
      BY <1>1, <2>2
    <3>2. /\ Append(chan[s], call[c].iv) \in Seq(Interventions)
          /\ Len(Append(chan[s], call[c].iv)) = Len(chan[s]) + 1 /\ Len(chan[s]) \in Nat
      BY <1>2, <2>1, AppendProperties, LenProperties
    <3>3. Len(chan[s]) + 1 <= SubCap
      BY <2>2, <3>2, ServiceAssumption DEF ChanHasRoom
    <3>4. QED
      BY <2>1, <3>1, <3>2, <3>3
  <2>3. CASE ~ChanHasRoom(s)
    BY <1>1, <2>1, <2>3
  <2>4. QED
    BY <2>2, <2>3
<1>5. log' \in Seq(Interventions)
  BY <1>1 DEF ServiceInv, ServiceTypeOK
<1>6. QED
  BY <1>1, <1>2, <1>3, <1>4, <1>5, CallMovesInv

LEMMA EndInv == ASSUME ServiceInv, NEW c \in Calls, End(c) PROVE ServiceInv'
<1>1. /\ call' = [call EXCEPT ![c] = Idle] /\ UNCHANGED <<applied, log, subs, chan>>
  BY DEF End
<1>2. call \in [Calls -> CallTypes] /\ Idle \in CallTypes
  BY CallFacts DEF CallTypes, Idle, Steps
<1>3. /\ call' \in [Calls -> CallTypes] /\ call'[c] = Idle
      /\ \A d \in Calls : d # c => call'[d] = call[d]
  BY <1>1, <1>2
<1>4. Idle.at = "idle" /\ Idle.to = {}
  BY DEF Idle
<1>5. ServiceTypeOK'
  BY <1>1, <1>3 DEF ServiceInv, ServiceTypeOK, CallTypes
<1>6. \A id : Stamped(id)' <=> Stamped(id)
  BY <1>1 DEF Stamped
<1>7. StampsPast'
  BY <1>1, <1>3, <1>4, <1>6 DEF ServiceInv, StampsPast
<1>8. IdsApart'
  BY <1>1, <1>3, <1>4 DEF ServiceInv, IdsApart
<1>9. QED
  BY <1>5, <1>7, <1>8 DEF ServiceInv

\* Streams come, go and read; calls may have one less to send to.
LEMMA StreamInv ==
    ASSUME ServiceInv, NEW s \in Streams, Subscribe(s) \/ Unsubscribe(s) \/ Receive(s)
    PROVE  ServiceInv'
<1>1. UNCHANGED <<applied, log>> /\ subs' \subseteq Streams
  BY DEF Subscribe, Unsubscribe, Receive, ServiceInv, ServiceTypeOK
<1>2. /\ call' \in [Calls -> CallTypes]
      /\ \A c \in Calls : /\ call'[c].at = call[c].at /\ call'[c].iv = call[c].iv
                          /\ call'[c].to \subseteq call[c].to
  <2>1. call \in [Calls -> CallTypes]
    BY DEF ServiceInv, ServiceTypeOK, CallTypes
  <2>2. CASE Unsubscribe(s)
    <3>1. call' = [c \in Calls |-> [call[c] EXCEPT !.to = @ \ {s}]]
      BY <2>2 DEF Unsubscribe
    <3>2. QED
      BY <2>1, <3>1 DEF CallTypes
  <2>3. CASE Subscribe(s) \/ Receive(s)
    BY <2>1, <2>3 DEF Subscribe, Receive
  <2>4. QED
    BY <2>2, <2>3
<1>3. chan' \in [Streams -> Seq(Interventions)] /\ \A q \in Streams : Len(chan'[q]) <= SubCap
  <2>1. chan \in [Streams -> Seq(Interventions)] /\ \A q \in Streams : Len(chan[q]) <= SubCap
    BY DEF ServiceInv, ServiceTypeOK
  <2>2. CASE Subscribe(s) \/ Unsubscribe(s)
    <3>1. chan' = [chan EXCEPT ![s] = <<>>]
      BY <2>2 DEF Subscribe, Unsubscribe
    <3>2. <<>> \in Seq(Interventions) /\ Len(<<>>) = 0 /\ 0 <= SubCap
      BY ServiceAssumption, EmptySeq
    <3>3. QED
      BY <2>1, <3>1, <3>2
  <2>3. CASE Receive(s)
    <3>1. chan[s] # <<>> /\ chan' = [chan EXCEPT ![s] = Tail(chan[s])]
      BY <2>3 DEF Receive
    <3>2. Tail(chan[s]) \in Seq(Interventions) /\ Len(Tail(chan[s])) = Len(chan[s]) - 1 /\ Len(chan[s]) \in Nat
      BY <2>1, <3>1, HeadTailProperties, LenProperties
    <3>3. Len(Tail(chan[s])) <= SubCap
      BY <2>1, <3>2, ServiceAssumption
    <3>4. QED
      BY <2>1, <3>1, <3>2, <3>3
  <2>4. QED
    BY <2>2, <2>3
<1>4. ServiceTypeOK'
  BY <1>1, <1>2, <1>3 DEF ServiceInv, ServiceTypeOK, CallTypes
<1>5. \A id : Stamped(id)' <=> Stamped(id)
  BY <1>1 DEF Stamped
<1>6. StampsPast'
  BY <1>1, <1>2, <1>5 DEF ServiceInv, StampsPast
<1>7. IdsApart'
  BY <1>1, <1>2 DEF ServiceInv, IdsApart
<1>8. QED
  BY <1>4, <1>6, <1>7 DEF ServiceInv

LEMMA ServiceInvNext == ServiceInv /\ ServiceStep => ServiceInv'
<1> SUFFICES ASSUME ServiceInv, ServiceStep PROVE ServiceInv'
  OBVIOUS
<1>1. ASSUME NEW c \in Calls, Proceed(c) PROVE ServiceInv'
  BY <1>1, RecordInv, CopySubsInv, RewriteInv, EndInv DEF Proceed
<1>2. CASE UNCHANGED serviceVars
  BY <1>2 DEF serviceVars, ServiceInv, ServiceTypeOK, StampsPast, IdsApart, Stamped
<1>3. QED
  BY <1>1, <1>2, StampInv, SendInv, StreamInv DEF ServiceStep

LEMMA ServiceInvInit == Init => ServiceInv
<1> SUFFICES ASSUME Init PROVE ServiceInv
  OBVIOUS
<1>1. /\ applied = 0 /\ log = <<>> /\ call = [c \in Calls |-> Idle] /\ subs = {}
      /\ chan = [s \in Streams |-> <<>>]
  BY DEF Init, ServiceInit
<1>2. <<>> \in Seq(Interventions) /\ Len(<<>>) = 0 /\ DOMAIN <<>> = {}
  BY EmptySeq
<1>3. Idle \in CallTypes /\ Idle.at = "idle" /\ Idle.to = {}
  BY DEF CallTypes, Idle, Steps
<1>4. ServiceTypeOK
  BY <1>1, <1>2, <1>3, ServiceAssumption DEF ServiceTypeOK, CallTypes
<1>5. StampsPast /\ IdsApart
  BY <1>1, <1>2, <1>3 DEF StampsPast, IdsApart
<1>6. QED
  BY <1>4, <1>5 DEF ServiceInv

-----------------------------------------------------------------------------

\* The service stays within its types; in particular no channel holds more
\* than its capacity (fanout's select with a default).
THEOREM ServiceTypeCorrect == Spec => []ServiceTypeOK
<1>1. ServiceInv => ServiceTypeOK
  BY DEF ServiceInv
<1>2. QED
  BY <1>1, ServiceInvInit, ServiceInvNext, StepsOfService, PTL DEF Spec

\* What a step makes of the audit log.
Trail ==
    /\ Len(log') \in {Len(log), Len(log) + 1}
    /\ \A k \in DOMAIN log :
          /\ log'[k].id = log[k].id
          /\ log'[k].alarm = log[k].alarm
          /\ log[k].message = "polished" => log'[k].message = "polished"
    /\ \A k \in DOMAIN log' \ DOMAIN log, j \in DOMAIN log : log'[k].id # log[j].id

LEMMA TrailStep == ServiceInv /\ ServiceStep => Trail
<1> SUFFICES ASSUME ServiceInv, ServiceStep PROVE Trail
  OBVIOUS
<1>1. ASSUME NEW c \in Calls, Record(c) PROVE Trail
  <2>1. call[c].at = "stamped" /\ log' = Append(log, call[c].iv)
    BY <1>1 DEF Record
  <2>2. call[c].iv \in Interventions /\ log \in Seq(Interventions) /\ Len(log) \in Nat /\ DOMAIN log = 1..Len(log)
    BY <2>1, CallFacts
  <2>3. /\ log' \in Seq(Interventions) /\ Len(log') = Len(log) + 1 /\ DOMAIN log' = 1..(Len(log) + 1)
        /\ \A k \in 1..Len(log) : log'[k] = log[k]
        /\ log'[Len(log) + 1] = call[c].iv
    BY <2>1, <2>2, AppendProperties, LenProperties
  <2>4. \A k \in DOMAIN log' \ DOMAIN log : k = Len(log) + 1
    BY <2>2, <2>3
  <2>5. \A j \in DOMAIN log : log[j].id # call[c].iv.id
    BY <2>1 DEF ServiceInv, IdsApart
  <2>6. QED
    BY <2>2, <2>3, <2>4, <2>5 DEF Trail
<1>2. ASSUME NEW c \in Calls, Rewrite(c) PROVE Trail
  <2>1. log' = [k \in DOMAIN log |->
                  IF log[k].id = call[c].iv.id THEN [log[k] EXCEPT !.message = "polished"] ELSE log[k]]
    BY <1>2 DEF Rewrite
  <2>2. /\ log \in Seq(Interventions) /\ Len(log) \in Nat /\ DOMAIN log = 1..Len(log)
        /\ \A k \in DOMAIN log : log[k] \in Interventions
    BY CallFacts
  <2>3. \A k \in DOMAIN log : /\ log'[k] \in Interventions /\ log'[k].id = log[k].id /\ log'[k].alarm = log[k].alarm
                              /\ log[k].message = "polished" => log'[k].message = "polished"
    BY <2>1, <2>2 DEF Interventions
  <2>4. log' \in [1..Len(log) -> Interventions]
    BY <2>1, <2>2, <2>3
  <2>5. Len(log') = Len(log) /\ DOMAIN log' = DOMAIN log
    BY <2>2, <2>4
  <2>6. QED
    BY <2>3, <2>5 DEF Trail
<1>3. CASE log' = log
  BY <1>3 DEF Trail
<1>4. ASSUME NEW c \in Calls, CopySubs(c) \/ End(c) \/ (\E alarm \in BOOLEAN : Stamp(c, alarm)) PROVE log' = log
  BY <1>4 DEF CopySubs, End, Stamp
<1>5. ASSUME NEW c \in Calls, NEW s \in Streams, Send(c, s) PROVE log' = log
  BY <1>5 DEF Send
<1>6. ASSUME NEW s \in Streams, Subscribe(s) \/ Unsubscribe(s) \/ Receive(s) PROVE log' = log
  BY <1>6 DEF Subscribe, Unsubscribe, Receive
<1>7. CASE UNCHANGED serviceVars
  BY <1>7, <1>3 DEF serviceVars
<1>8. QED
  BY <1>1, <1>2, <1>3, <1>4, <1>5, <1>6, <1>7 DEF ServiceStep, Proceed

\* The audit log is append-only, but for messages that get polished, however
\* calls and polish goroutines overlap (Apply and polish).
THEOREM AuditTrailHolds == Spec => AuditTrail
<1>1. ServiceInv /\ [Next]_vars => [Trail]_serviceVars
  BY StepsOfService, TrailStep
<1>2. QED
  BY <1>1, ServiceInvInit, ServiceInvNext, StepsOfService, PTL DEF Spec, AuditTrail, Trail

-----------------------------------------------------------------------------
(* Numbers and orders: the list that a GET is answered with. *)

\* A set of numbers has a least one.
LEMMA Least == ASSUME NEW S \in SUBSET Nat, S # {} PROVE \E x \in S : \A y \in S : x <= y
<1>1. PICK x \in S : \A y \in S : ~(<<y, x>> \in OpToRel(<, Nat))
  BY NatLessThanWellFounded, WFMin
<1>2. \A y \in S : ~(y < x)
  BY <1>1 DEF OpToRel
<1>3. QED
  BY <1>2

\* Entries with ids of their own can be put in order, newest first: each goes where
\* the number of those that are not older says.
LEMMA Sortable ==
    ASSUME NEW n \in Nat, NEW l \in [1..n -> Interventions],
           \A j, k \in 1..n : l[j].id = l[k].id => j = k
    PROVE  \E list \in [1..n -> {l[k] : k \in 1..n}] :
              \A i, j \in 1..n : i < j => list[i].id > list[j].id
<1> DEFINE D == 1..n
           From(k) == {i \in D : l[i].id >= l[k].id}
           rank == [k \in D |-> Cardinality(From(k))]
<1>1. IsFiniteSet(D) /\ Cardinality(D) = n
  BY FS_Interval
<1>2. \A k \in D : l[k].id \in Nat
  BY DEF Interventions, Ids
<1>3. \A k \in D : IsFiniteSet(From(k)) /\ Cardinality(From(k)) \in Nat /\ Cardinality(From(k)) <= n /\ Cardinality(From(k)) # 0
  <2> SUFFICES ASSUME NEW k \in D
               PROVE  IsFiniteSet(From(k)) /\ Cardinality(From(k)) \in Nat /\ Cardinality(From(k)) <= n /\ Cardinality(From(k)) # 0
    OBVIOUS
  <2>1. From(k) \in SUBSET D /\ k \in From(k)
    BY <1>2
  <2>2. IsFiniteSet(From(k)) /\ Cardinality(From(k)) <= n
    BY <1>1, <2>1, FS_Subset
  <2>3. QED
    BY <2>1, <2>2, FS_CardinalityType, FS_EmptySet
<1>4. \A j, k \in D : l[j].id < l[k].id => rank[k] < rank[j]
  <2> SUFFICES ASSUME NEW j \in D, NEW k \in D, l[j].id < l[k].id PROVE rank[k] < rank[j]
    OBVIOUS
  <2>1. From(k) \in SUBSET From(j) /\ j \in From(j) /\ j \notin From(k)
    BY <1>2
  <2>2. /\ Cardinality(From(k)) <= Cardinality(From(j))
        /\ Cardinality(From(j)) = Cardinality(From(k)) => From(j) = From(k)
    BY <1>3, <2>1, FS_Subset
  <2>3. rank[k] = Cardinality(From(k)) /\ rank[j] = Cardinality(From(j))
    OBVIOUS
  <2> HIDE DEF From, rank
  <2>4. From(j) # From(k) /\ Cardinality(From(k)) \in Nat /\ Cardinality(From(j)) \in Nat
    BY <1>3, <2>1
  <2>5. QED
    BY <2>2, <2>3, <2>4
<1>5. rank \in [D -> D]
  BY <1>3
<1>6. \A j, k \in D : rank[j] = rank[k] => j = k
  <2> HIDE DEF rank
  <2>1. \A j, k \in D : l[j].id # l[k].id => l[j].id < l[k].id \/ l[k].id < l[j].id
    BY <1>2
  <2>2. \A j, k \in D : rank[j] \in Nat /\ ~(rank[j] < rank[j])
    BY <1>5
  <2>3. ASSUME NEW j \in D, NEW k \in D, rank[j] = rank[k] PROVE l[j].id = l[k].id
    BY <1>4, <2>1, <2>2, <2>3
  <2>4. QED
    BY <2>3
<1>7. rank \in Surjection(D, D)
  <2> HIDE DEF rank, D
  <2>1. rank \in Injection(D, D)
    BY <1>5, <1>6 DEF Injection, IsInjective
  <2>2. QED
    BY <1>1, <2>1, FS_Injection
<1>8. \A i \in D : \E k \in D : rank[k] = i
  <2> HIDE DEF rank, D
  <2>1. QED
    BY <1>7 DEF Surjection
<1> HIDE DEF rank
<1> DEFINE place(i) == CHOOSE k \in D : rank[k] = i
           list == [i \in D |-> l[place(i)]]
<1>9. \A i \in D : place(i) \in D /\ rank[place(i)] = i
  BY <1>8
<1>10. list \in [D -> {l[k] : k \in D}]
  BY <1>9
<1>11. \A i, j \in D : i < j => list[i].id > list[j].id
  <2> SUFFICES ASSUME NEW i \in D, NEW j \in D, i < j PROVE list[i].id > list[j].id
    OBVIOUS
  <2> HIDE DEF place
  <2>1. list[i] = l[place(i)] /\ list[j] = l[place(j)]
    OBVIOUS
  <2>2. rank[place(i)] < rank[place(j)] /\ place(i) # place(j)
    BY <1>9
  <2>3. ~(l[place(i)].id < l[place(j)].id)
    BY <1>4, <1>9, <2>2
  <2>4. l[place(i)].id # l[place(j)].id
    BY <1>9, <2>2
  <2>5. l[place(i)].id \in Nat /\ l[place(j)].id \in Nat
    BY <1>2, <1>9
  <2>6. QED
    BY <2>1, <2>3, <2>4, <2>5
<1>12. QED
  BY <1>10, <1>11

\* The log has an id once.
LogDistinct == \A j, k \in DOMAIN log : log[j].id = log[k].id => j = k

\* An entry is recorded once, and polishing leaves its id.
LEMMA LogDistinctNext ==
    ASSUME ServiceInv, LogDistinct, Trail, ServiceInv'
    PROVE  LogDistinct'
<1>1. /\ DOMAIN log = 1..Len(log) /\ DOMAIN log' = 1..Len(log') /\ Len(log) \in Nat
      /\ Len(log') \in {Len(log), Len(log) + 1} /\ Len(log') \in Nat
  BY LenProperties DEF ServiceInv, ServiceTypeOK, Trail
<1>2. \A j, k \in DOMAIN log' : j \notin DOMAIN log /\ k \notin DOMAIN log => j = k
  <2>1. \A m, n \in Nat : m \in {n, n + 1} => \A j, k \in (1..m) \ (1..n) : j = k
    OBVIOUS
  <2>2. QED
    BY <1>1, <2>1
<1>3. \A k \in DOMAIN log : log'[k].id = log[k].id
  BY DEF Trail
<1>4. \A j, k \in DOMAIN log' : j \notin DOMAIN log /\ k \in DOMAIN log => log'[j].id # log'[k].id
  BY <1>3 DEF Trail
<1>5. SUFFICES ASSUME NEW j \in DOMAIN log', NEW k \in DOMAIN log', log'[j].id = log'[k].id PROVE j = k
  BY DEF LogDistinct
<1>6. CASE j \in DOMAIN log /\ k \in DOMAIN log
  BY <1>3, <1>5, <1>6 DEF LogDistinct
<1>7. QED
  BY <1>2, <1>4, <1>5, <1>6

\* What a GET of the list is answered with: the entries of the log, each once.
LEMMA ListFacts ==
    ASSUME ServiceInv, LogDistinct
    PROVE  /\ List \in Seq(Interventions)
           /\ \A k \in DOMAIN List : \E j \in DOMAIN log : List[k] = log[j]
           /\ \A k \in DOMAIN log : \E j \in DOMAIN List : List[j] = log[k]
           /\ \A j, k \in DOMAIN List : List[j].id = List[k].id => j = k
<1> DEFINE n == Len(log)  D == 1..n
           Ordered(list) == \A i, j \in D : i < j => list[i].id > list[j].id
<1>1. log \in [D -> Interventions] /\ n \in Nat /\ DOMAIN log = D
  BY LenProperties DEF ServiceInv, ServiceTypeOK
<1>2. \A j, k \in D : log[j].id = log[k].id => j = k
  BY <1>1 DEF LogDistinct
<1>3. \E list \in [D -> {log[k] : k \in D}] : Ordered(list)
  BY <1>1, <1>2, Sortable
<1>4. List = CHOOSE list \in [D -> {log[k] : k \in D}] : Ordered(list)
  BY <1>1 DEF List, Logged, Newer
<1>5. List \in [D -> {log[k] : k \in D}] /\ Ordered(List)
  BY <1>3, <1>4
<1>6. DOMAIN List = D /\ \A k \in D : \E j \in D : List[k] = log[j]
  BY <1>5
<1>7. \A k \in D : List[k] \in Interventions /\ List[k].id \in Nat
  <2>1. \A k \in D : List[k] \in Interventions
    BY <1>1, <1>6
  <2>2. QED
    BY <2>1 DEF Interventions, Ids
<1>8. List \in Seq(Interventions)
  <2>1. List \in [D -> Interventions]
    BY <1>5, <1>6, <1>7
  <2>2. QED
    BY <1>1, <2>1
<1>9. \A j, k \in D : List[j].id = List[k].id => j = k
  <2>1. \A j, k \in D : j # k => j < k \/ k < j
    OBVIOUS
  <2>2. ASSUME NEW j \in D, NEW k \in D, j < k PROVE List[j].id # List[k].id
    <3>1. List[j].id > List[k].id
      BY <1>5, <2>2
    <3>2. List[j].id \in Nat /\ List[k].id \in Nat
      BY <1>7
    <3>3. QED
      BY <3>1, <3>2
  <2>3. QED
    BY <2>1, <2>2
<1>10. \A k \in D : \E j \in D : List[j] = log[k]
  <2>1. PICK at \in [D -> D] : \A j \in D : List[j] = log[at[j]]
    <3> DEFINE source(j) == CHOOSE k \in D : List[j] = log[k]
    <3>1. \A j \in D : source(j) \in D /\ List[j] = log[source(j)]
      BY <1>6
    <3> HIDE DEF source
    <3>2. [j \in D |-> source(j)] \in [D -> D]
      BY <3>1
    <3>3. QED
      BY <3>1, <3>2
  <2>2. IsFiniteSet(D)
    BY <1>1, FS_Interval
  <2>3. \A i, j \in D : at[i] = at[j] => i = j
    BY <1>9, <2>1
  <2> HIDE DEF D
  <2>4. at \in Surjection(D, D)
    <3>1. at \in Injection(D, D)
      BY <2>1, <2>3 DEF Injection, IsInjective
    <3>2. QED
      BY <2>2, <3>1, FS_Injection
  <2>5. QED
    BY <2>1, <2>4 DEF Surjection
<1>11. QED
  BY <1>1, <1>6, <1>8, <1>9, <1>10

-----------------------------------------------------------------------------
(* What OnTop and Merged make of a list. *)

\* What is said of a list: it has an entry, an id once at most, an id twice at most.
Has(list, iv) == \E j \in DOMAIN list : list[j] = iv
Once(list, id) == \A j, k \in DOMAIN list : list[j].id = id /\ list[k].id = id => j = k
Twice(list, id) ==
    \A i, j, k \in DOMAIN list :
        list[i].id = id /\ list[j].id = id /\ list[k].id = id => i = j \/ j = k \/ i = k

\* Putting an entry on top of a list without its id.
LEMMA OnTopFacts ==
    ASSUME NEW list \in Seq(Interventions), NEW iv \in Interventions, NEW top, top = <<iv>> \o list
    PROVE  /\ top \in Seq(Interventions) /\ Has(top, iv)
           /\ \A k \in DOMAIN top : top[k] = iv \/ Has(list, top[k])
           /\ \A j \in DOMAIN list : Has(top, list[j])
           /\ \A id : Once(list, id) => Twice(top, id)
           /\ \A id : Once(list, id) /\ (id # iv.id \/ \A j \in DOMAIN list : list[j].id # id) => Once(top, id)
           /\ \A id : Twice(list, id) /\ id # iv.id => Twice(top, id)
<1>1. /\ Len(list) \in Nat /\ DOMAIN list = 1..Len(list)
      /\ <<iv>> \in Seq(Interventions) /\ Len(<<iv>>) = 1 /\ <<iv>>[1] = iv
  BY LenProperties
<1>2. /\ top \in Seq(Interventions) /\ Len(top) = 1 + Len(list)
      /\ \A i \in 1..(1 + Len(list)) : top[i] = IF i <= 1 THEN <<iv>>[i] ELSE list[i - 1]
  <2>1. /\ <<iv>> \o list \in Seq(Interventions)
        /\ Len(<<iv>> \o list) = Len(<<iv>>) + Len(list)
        /\ \A i \in 1 .. Len(<<iv>>) + Len(list) :
              (<<iv>> \o list)[i] = IF i <= Len(<<iv>>) THEN <<iv>>[i] ELSE list[i - Len(<<iv>>)]
    BY <1>1, ConcatProperties
  <2>2. QED
    BY <1>1, <2>1
<1>3. /\ DOMAIN top = 1..(1 + Len(list)) /\ 1 \in DOMAIN top /\ top[1] = iv
      /\ \A k \in DOMAIN top : k # 1 => k - 1 \in DOMAIN list /\ top[k] = list[k - 1]
      /\ \A j \in DOMAIN list : j + 1 \in DOMAIN top /\ top[j + 1] = list[j]
  <2>1. DOMAIN top = 1..(1 + Len(list))
    BY <1>2, LenProperties
  <2>2. 1 \in DOMAIN top /\ top[1] = iv
    BY <1>1, <1>2, <2>1
  <2>3. ASSUME NEW k \in DOMAIN top, k # 1 PROVE k - 1 \in DOMAIN list /\ top[k] = list[k - 1]
    BY <1>1, <1>2, <2>1, <2>3
  <2>4. ASSUME NEW j \in DOMAIN list PROVE j + 1 \in DOMAIN top /\ top[j + 1] = list[j]
    BY <1>1, <1>2, <2>1
  <2>5. QED
    BY <2>1, <2>2, <2>3, <2>4
<1>4. \A j, k \in DOMAIN top : j # 1 /\ k # 1 /\ j - 1 = k - 1 => j = k
  BY <1>1, <1>3
<1>5. Has(top, iv) /\ (\A k \in DOMAIN top : top[k] = iv \/ Has(list, top[k])) /\ \A j \in DOMAIN list : Has(top, list[j])
  BY <1>3 DEF Has
<1>6. ASSUME NEW id, Once(list, id) PROVE Twice(top, id)
  <2>1. ASSUME NEW j \in DOMAIN top, NEW k \in DOMAIN top, j # 1, k # 1, top[j].id = id, top[k].id = id PROVE j = k
    BY <1>3, <1>4, <1>6, <2>1 DEF Once
  <2>2. ASSUME NEW i \in DOMAIN top, NEW j \in DOMAIN top, NEW k \in DOMAIN top,
               top[i].id = id, top[j].id = id, top[k].id = id
        PROVE  i = j \/ j = k \/ i = k
    <3>1. CASE i # 1 /\ j # 1
      BY <2>1, <2>2, <3>1
    <3>2. CASE (i = 1 /\ k = 1) \/ (j = 1 /\ k = 1) \/ (i = 1 /\ j = 1)
      BY <3>2
    <3>3. CASE k # 1 /\ (i # 1 \/ j # 1)
      BY <2>1, <2>2, <3>3
    <3>4. QED
      BY <3>1, <3>2, <3>3
  <2>3. QED
    BY ONLY <2>2 DEF Twice
<1>7. ASSUME NEW id, Once(list, id), id # iv.id \/ \A j \in DOMAIN list : list[j].id # id PROVE Once(top, id)
  BY <1>3, <1>4, <1>7 DEF Once
<1>8. ASSUME NEW id, Twice(list, id), id # iv.id PROVE Twice(top, id)
  <2>1. ASSUME NEW i \in DOMAIN top, NEW j \in DOMAIN top, NEW k \in DOMAIN top,
               top[i].id = id, top[j].id = id, top[k].id = id
        PROVE  i = j \/ j = k \/ i = k
    <3>1. i # 1 /\ j # 1 /\ k # 1
      BY <1>3, <1>8, <2>1
    <3>2. /\ {i - 1, j - 1, k - 1} \subseteq DOMAIN list
          /\ list[i - 1].id = id /\ list[j - 1].id = id /\ list[k - 1].id = id
      BY <1>3, <2>1, <3>1
    <3>3. i - 1 = j - 1 \/ j - 1 = k - 1 \/ i - 1 = k - 1
      BY <1>8, <3>2 DEF Twice
    <3>4. QED
      BY <1>4, <3>1, <3>3
  <2>2. QED
    BY ONLY <2>1 DEF Twice
<1>9. QED
  BY <1>2, <1>5, <1>6, <1>7, <1>8

\* A frame goes into a list in the place of its id, or on top.
LEMMA MergedFacts ==
    ASSUME NEW list \in Seq(Interventions), NEW iv \in Interventions, NEW merged, merged = Merged(list, iv)
    PROVE  /\ merged \in Seq(Interventions) /\ Has(merged, iv)
           /\ \A k \in DOMAIN merged : merged[k] = iv \/ Has(list, merged[k])
           /\ \A j \in DOMAIN list : list[j].id # iv.id => Has(merged, list[j])
           /\ \A id : Once(list, id) => Once(merged, id)
           /\ \A id : Twice(list, id) => Twice(merged, id)
<1> DEFINE at == {k \in DOMAIN list : list[k].id = iv.id}
<1>1. Len(list) \in Nat /\ DOMAIN list = 1..Len(list) /\ \A k \in DOMAIN list : list[k] \in Interventions
  BY LenProperties, ElementOfSeq
<1>2. CASE at = {}
  <2>1. merged = <<iv>> \o list
    BY <1>2 DEF Merged
  <2>2. \A j \in DOMAIN list : list[j].id # iv.id
    BY <1>2
  <2>3. /\ merged \in Seq(Interventions) /\ Has(merged, iv)
        /\ \A k \in DOMAIN merged : merged[k] = iv \/ Has(list, merged[k])
        /\ \A j \in DOMAIN list : Has(merged, list[j])
    BY <2>1, OnTopFacts
  <2>4. ASSUME NEW id PROVE Once(list, id) => Once(merged, id)
    BY <2>1, <2>2, OnTopFacts
  <2>5. ASSUME NEW id PROVE Twice(list, id) => Twice(merged, id)
    <3>1. CASE id = iv.id
      <4>1. Once(list, id)
        BY <2>2, <3>1 DEF Once
      <4>2. QED
        BY <2>1, <4>1, OnTopFacts
    <3>2. CASE id # iv.id
      BY <2>1, <3>2, OnTopFacts
    <3>3. QED
      BY <3>1, <3>2
  <2>6. QED
    BY <2>3, <2>4, <2>5
<1>3. CASE at # {}
  <2>1. \E k \in at : \A j \in at : k <= j
    <3>1. at \in SUBSET Nat
      BY <1>1
    <3>2. QED
      BY <1>3, <3>1, Least
  <2>2. PICK m \in at : merged = [list EXCEPT ![m] = iv]
    <3>1. merged = [list EXCEPT ![CHOOSE k \in at : \A j \in at : k <= j] = iv]
      BY <1>3 DEF Merged
    <3>2. (CHOOSE k \in at : \A j \in at : k <= j) \in at
      BY <2>1
    <3>3. QED
      BY <3>1, <3>2
  <2>3. /\ m \in DOMAIN list /\ list[m].id = iv.id /\ DOMAIN merged = DOMAIN list /\ merged[m] = iv
        /\ \A k \in DOMAIN list : k # m => merged[k] = list[k]
    BY <1>1, <2>2
  <2>4. merged \in Seq(Interventions)
    <3>1. merged \in [1..Len(list) -> Interventions]
      BY <1>1, <2>2, <2>3
    <3>2. QED
      BY <1>1, <3>1
  <2>5. /\ Has(merged, iv)
        /\ \A k \in DOMAIN merged : merged[k] = iv \/ Has(list, merged[k])
        /\ \A j \in DOMAIN list : list[j].id # iv.id => Has(merged, list[j])
    BY <2>3 DEF Has
  <2>6. \A k \in DOMAIN list : merged[k].id = list[k].id
    BY <2>3
  <2>7. \A id : (Once(list, id) => Once(merged, id)) /\ (Twice(list, id) => Twice(merged, id))
    BY <2>3, <2>6 DEF Once, Twice
  <2>8. QED
    BY <2>4, <2>5, <2>7
<1>4. QED
  BY <1>2, <1>3

-----------------------------------------------------------------------------
(* The types of the pages' state. *)

Gets == [at : {"sent", "answered", "done"}, list : Seq(Interventions), live : BOOLEAN]

\* The types of the pages, and that a page that joins has a GET left.
PageTypes ==
    /\ shown \in [Pages -> Seq(Interventions)]
    /\ link \in [Pages -> {"down", "up", "open"}]
    /\ gets \in [Pages -> Seq(Gets)]
    /\ \A p \in Pages : Len(gets[p]) <= MaxGets /\ (link[p] = "up" => Len(gets[p]) < MaxGets)
    /\ post \in [Pages -> 0..MaxApplied]
    /\ own \in [Pages -> SUBSET Ids]
    /\ sound \in [Pages -> BOOLEAN] /\ lossless \in [Pages -> BOOLEAN]
    /\ undone \in [Pages -> SUBSET Interventions]

\* What is known of one page.
LEMMA PageFacts ==
    ASSUME ServiceInv, PageTypes, NEW p \in Pages
    PROVE  /\ shown[p] \in Seq(Interventions) /\ chan[p] \in Seq(Interventions)
           /\ gets[p] \in Seq(Gets) /\ Len(gets[p]) \in Nat /\ DOMAIN gets[p] = 1..Len(gets[p])
           /\ \A k \in DOMAIN gets[p] : gets[p][k] \in Gets
           /\ chan[p] # <<>> => Head(chan[p]) \in Interventions
<1>1. gets[p] \in Seq(Gets) /\ shown[p] \in Seq(Interventions) /\ chan[p] \in Seq(Interventions)
  BY DEF PageTypes, ServiceInv, ServiceTypeOK, Pages
<1>2. Len(gets[p]) \in Nat /\ DOMAIN gets[p] = 1..Len(gets[p]) /\ \A k \in DOMAIN gets[p] : gets[p][k] \in Gets
  BY <1>1, LenProperties, ElementOfSeq
<1>3. chan[p] # <<>> => Head(chan[p]) \in Interventions
  BY <1>1, HeadTailProperties
<1>4. QED
  BY <1>1, <1>2, <1>3

\* The GETs of a page are rewritten, or there is one more.
LEMMA GetsRewritten ==
    ASSUME ServiceInv, PageTypes, NEW p \in Pages, NEW new,
           new \in [DOMAIN gets[p] -> Gets], gets' = [gets EXCEPT ![p] = new]
    PROVE  /\ gets' \in [Pages -> Seq(Gets)]
           /\ \A q \in Pages : Len(gets'[q]) = Len(gets[q])
<1>1. gets \in [Pages -> Seq(Gets)]
  BY DEF PageTypes
<1>2. new \in [1..Len(gets[p]) -> Gets] /\ Len(gets[p]) \in Nat
  BY PageFacts
<1>3. new \in Seq(Gets) /\ Len(new) = Len(gets[p])
  BY <1>2
<1>4. QED
  BY <1>1, <1>3

\* One step per action of a page.
LEMMA PageTypesNext ==
    ASSUME ServiceInv, LogDistinct, PageTypes, ServiceInv', [Next]_vars
    PROVE  PageTypes'
<1>1. ASSUME NEW c \in Calls, Serve(c) PROVE PageTypes'
  BY <1>1 DEF Serve, pageVars, PageTypes
<1>2. ASSUME NEW c \in Calls, NEW p \in Pages, FanOut(c, p) PROVE PageTypes'
  <2>1. lossless' \in [Pages -> BOOLEAN]
    BY <1>2 DEF FanOut, ChanHasRoom, PageTypes
  <2>2. QED
    BY <1>2, <2>1 DEF FanOut, PageTypes
<1>3. ASSUME NEW c \in Calls, NEW p \in Pages, Post(p, c) PROVE PageTypes'
  <2>1. applied' \in 0..MaxApplied /\ applied' \in Ids
    <3>1. applied' = applied + 1 /\ applied < MaxApplied
      BY <1>3 DEF Post, Stamp
    <3>2. QED
      BY <3>1, ServiceAssumption DEF ServiceInv, ServiceTypeOK, Ids
  <2>2. post' \in [Pages -> 0..MaxApplied] /\ own' \in [Pages -> SUBSET Ids]
    BY <1>3, <2>1 DEF Post, PageTypes
  <2>3. QED
    BY <1>3, <2>2 DEF Post, PageTypes
<1>4. ASSUME NEW p \in Pages, Connect(p) PROVE PageTypes'
  BY <1>4 DEF Connect, PageTypes
<1>5. ASSUME NEW p \in Pages, Join(p) PROVE PageTypes'
  BY <1>5 DEF Join, pageVars, PageTypes
<1>6. ASSUME NEW p \in Pages, Opened(p) PROVE PageTypes'
  <2>1. link[p] = "up" /\ link' = [link EXCEPT ![p] = "open"] /\ gets' = [gets EXCEPT ![p] = Append(gets[p], NewGet)]
    BY <1>6 DEF Opened
  <2>2. NewGet \in Gets
    BY EmptySeq DEF NewGet, Gets
  <2>3. Append(gets[p], NewGet) \in Seq(Gets) /\ Len(Append(gets[p], NewGet)) = Len(gets[p]) + 1
    BY <2>2, PageFacts, AppendProperties
  <2>4. Len(gets[p]) + 1 <= MaxGets
    BY <2>1, PageFacts, PagesAssumption DEF PageTypes
  <2>5. /\ gets' \in [Pages -> Seq(Gets)]
        /\ \A q \in Pages : Len(gets'[q]) <= MaxGets
        /\ \A q \in Pages : q # p => Len(gets'[q]) = Len(gets[q])
    BY <2>1, <2>3, <2>4 DEF PageTypes
  <2>6. link' \in [Pages -> {"down", "up", "open"}] /\ link'[p] # "up" /\ \A q \in Pages : q # p => link'[q] = link[q]
    BY <2>1 DEF PageTypes
  <2>7. QED
    BY <1>6, <2>5, <2>6 DEF Opened, PageTypes
<1>7. ASSUME NEW p \in Pages, Frame(p) PROVE PageTypes'
  <2>1. chan[p] # <<>> /\ Head(chan[p]) \in Interventions
    BY <1>7, PageFacts DEF Frame, Receive
  <2>2. Merged(shown[p], Head(chan[p])) \in Seq(Interventions)
    <3>1. shown[p] \in Seq(Interventions)
      BY PageFacts
    <3>2. QED
      BY <2>1, <3>1, MergedFacts
  <2>3. shown' = [shown EXCEPT ![p] = Merged(shown[p], Head(chan[p]))]
    BY <1>7 DEF Frame
  <2>4. shown' \in [Pages -> Seq(Interventions)]
    BY <2>2, <2>3 DEF PageTypes
  <2>5. undone' \in [Pages -> SUBSET Interventions]
    BY <1>7 DEF Frame, PageTypes
  <2>6. QED
    BY <1>7, <2>4, <2>5 DEF Frame, PageTypes
<1>8. ASSUME NEW p \in Pages, Lost(p) PROVE PageTypes'
  <2>1. PICK new : new = [k \in DOMAIN gets[p] |-> [gets[p][k] EXCEPT !.live = FALSE]]
    OBVIOUS
  <2>2. gets' = [gets EXCEPT ![p] = new]
    BY <1>8, <2>1 DEF Lost
  <2>3. \A k \in DOMAIN gets[p] : gets[p][k] \in Gets
    BY PageFacts
  <2>4. new \in [DOMAIN gets[p] -> Gets]
    BY <2>1, <2>3 DEF Gets
  <2>5. undone' \in [Pages -> SUBSET Interventions]
    BY <1>8 DEF Lost, PageTypes
  <2>6. QED
    BY <1>8, <2>2, <2>4, <2>5, GetsRewritten DEF Lost, PageTypes
<1>9. ASSUME NEW p \in Pages, NEW k \in DOMAIN gets[p], Answer(p, k) PROVE PageTypes'
  <2>1. PICK g : g = [gets[p][k] EXCEPT !.at = "answered", !.list = List, !.live = p \in subs]
    OBVIOUS
  <2>2. gets' = [gets EXCEPT ![p] = [gets[p] EXCEPT ![k] = g]]
    BY <1>9, <2>1 DEF Answer
  <2>3. g \in Gets
    <3>1. gets[p][k] \in Gets /\ List \in Seq(Interventions)
      BY PageFacts, ListFacts
    <3>2. (p \in subs) \in BOOLEAN
      OBVIOUS
    <3>3. QED
      BY <2>1, <3>1, <3>2, Zenon DEF Gets
  <2>4. [gets[p] EXCEPT ![k] = g] \in [DOMAIN gets[p] -> Gets]
    BY <2>3, PageFacts
  <2>5. QED
    BY <1>9, <2>2, <2>4, GetsRewritten DEF Answer, PageTypes
<1>10. ASSUME NEW p \in Pages, NEW k \in DOMAIN gets[p], Arrive(p, k) PROVE PageTypes'
  <2>1. PICK g : g = [gets[p][k] EXCEPT !.at = "done", !.list = <<>>, !.live = FALSE]
    OBVIOUS
  <2>2. gets' = [gets EXCEPT ![p] = [gets[p] EXCEPT ![k] = g]]
    BY <1>10, <2>1 DEF Arrive
  <2>3. g \in Gets /\ gets[p][k].list \in Seq(Interventions) /\ gets[p][k].live \in BOOLEAN
    <3>1. gets[p][k] \in Gets /\ <<>> \in Seq(Interventions)
      BY PageFacts, EmptySeq
    <3>2. QED
      BY <2>1, <3>1 DEF Gets
  <2>4. [gets[p] EXCEPT ![k] = g] \in [DOMAIN gets[p] -> Gets]
    BY <2>3, PageFacts
  <2>5. gets' \in [Pages -> Seq(Gets)] /\ \A q \in Pages : Len(gets'[q]) = Len(gets[q])
    BY <2>2, <2>4, GetsRewritten
  <2>6. shown' \in [Pages -> Seq(Interventions)] /\ sound' \in [Pages -> BOOLEAN]
    BY <1>10, <2>3 DEF Arrive, PageTypes
  <2>7. undone' \in [Pages -> SUBSET Interventions]
    <3>1. undone[p] \in SUBSET Interventions /\ Entries(shown[p]) \in SUBSET Interventions
      BY PageFacts, ElementOfSeq DEF PageTypes, Entries
    <3>2. PICK U : U = (undone[p] \cup Entries(shown[p])) \ Entries(gets[p][k].list)
      OBVIOUS
    <3>3. U \in SUBSET Interventions /\ undone' = [undone EXCEPT ![p] = U]
      BY <1>10, <3>1, <3>2 DEF Arrive
    <3>4. QED
      BY <3>3 DEF PageTypes
  <2>8. QED
    BY <1>10, <2>5, <2>6, <2>7 DEF Arrive, PageTypes
<1>11. ASSUME NEW p \in Pages, PostDone(p) PROVE PageTypes'
  <2>1. PICK iv : iv = Posted(post[p])
    OBVIOUS
  <2>2. iv \in Interventions
    <3>1. post[p] \in Ids
      BY <1>11, ServiceAssumption DEF PostDone, Ids, PageTypes
    <3>2. QED
      BY <2>1, <3>1 DEF Interventions, Posted
  <2>3. <<iv>> \o shown[p] \in Seq(Interventions)
    BY <2>2, PageFacts, OnTopFacts
  <2>4. shown' = [shown EXCEPT ![p] = <<iv>> \o shown[p]] /\ post' = [post EXCEPT ![p] = 0]
    BY <1>11, <2>1 DEF PostDone
  <2>5. shown' \in [Pages -> Seq(Interventions)] /\ post' \in [Pages -> 0..MaxApplied]
    BY <2>3, <2>4, ServiceAssumption DEF PageTypes
  <2>6. undone' \in [Pages -> SUBSET Interventions]
    BY <1>11 DEF PostDone, PageTypes
  <2>7. QED
    BY <1>11, <2>5, <2>6 DEF PostDone, PageTypes
<1>12. CASE UNCHANGED vars
  BY <1>12 DEF vars, pageVars, PageTypes
<1>13. QED
  BY <1>1, <1>2, <1>3, <1>4, <1>5, <1>6, <1>7, <1>8, <1>9, <1>10, <1>11, <1>12 DEF Next, Page

-----------------------------------------------------------------------------
(* What a step makes of a page. *)

\* What a step makes of a page's list, its GETs, its channel and its overrides.
LEMMA ShownEffect ==
    ASSUME PageTypes, [Next]_vars, NEW p \in Pages
    PROVE  \/ shown'[p] = shown[p]
           \/ Frame(p) \/ PostDone(p) \/ \E k \in DOMAIN gets[p] : Arrive(p, k)
<1>1. shown \in [Pages -> Seq(Interventions)]
  BY DEF PageTypes
<1>2. ASSUME NEW c \in Calls, Serve(c) PROVE shown' = shown
  BY <1>2 DEF Serve, pageVars
<1>3. ASSUME NEW c \in Calls, NEW q \in Pages, FanOut(c, q) \/ Post(q, c) PROVE shown' = shown
  BY <1>3 DEF FanOut, Post
<1>4. ASSUME NEW q \in Pages, Page(q)
      PROVE  \/ shown' = shown
             \/ Frame(q) \/ PostDone(q) \/ \E k \in DOMAIN gets[q] : Arrive(q, k)
  BY <1>4 DEF Page, Connect, Join, Opened, Lost, Answer, pageVars
<1>5. ASSUME NEW q \in Pages, Frame(q) \/ PostDone(q) \/ (\E k \in DOMAIN gets[q] : Arrive(q, k)), q # p
      PROVE  shown'[p] = shown[p]
  BY <1>1, <1>5 DEF Frame, PostDone, Arrive
<1>6. CASE UNCHANGED vars
  BY <1>6 DEF vars, pageVars
<1>7. QED
  BY <1>2, <1>3, <1>4, <1>5, <1>6 DEF Next

\* The list of a GET is empty, the log's, or what it was.
LEMMA GetsEffect ==
    ASSUME ServiceInv, PageTypes, [Next]_vars, NEW p \in Pages, NEW k \in DOMAIN gets'[p]
    PROVE  \/ gets'[p][k].list = <<>> \/ gets'[p][k].list = List
           \/ k \in DOMAIN gets[p] /\ gets'[p][k].list = gets[p][k].list
<1>1. gets \in [Pages -> Seq(Gets)]
  BY DEF PageTypes
<1>2. CASE gets' = gets
  BY <1>2
<1>3. ASSUME NEW c \in Calls, Serve(c) PROVE gets' = gets
  BY <1>3 DEF Serve, pageVars
<1>4. ASSUME NEW c \in Calls, NEW q \in Pages, FanOut(c, q) \/ Post(q, c) PROVE gets' = gets
  BY <1>4 DEF FanOut, Post
<1>5. ASSUME NEW q \in Pages, Connect(q) \/ Join(q) \/ Frame(q) \/ PostDone(q) PROVE gets' = gets
  BY <1>5 DEF Connect, Join, Frame, PostDone, pageVars
<1>6. ASSUME NEW q \in Pages, NEW new, gets' = [gets EXCEPT ![q] = new], q # p PROVE gets'[p] = gets[p]
  BY <1>1, <1>6
<1>7. gets[p] \in Seq(Gets) /\ Len(gets[p]) \in Nat /\ DOMAIN gets[p] = 1..Len(gets[p])
      /\ \A j \in DOMAIN gets[p] : gets[p][j] \in Gets
  BY PageFacts
<1>8. CASE Opened(p)
  <2>1. gets'[p] = Append(gets[p], NewGet)
    BY <1>1, <1>8 DEF Opened
  <2>2. NewGet \in Gets /\ NewGet.list = <<>>
    BY EmptySeq DEF NewGet, Gets
  <2>3. /\ \A j \in 1..Len(gets[p]) : gets'[p][j] = gets[p][j]
        /\ gets'[p][Len(gets[p]) + 1] = NewGet
        /\ DOMAIN gets'[p] = 1..(Len(gets[p]) + 1)
    BY <1>7, <2>1, <2>2, AppendProperties, LenProperties
  <2>4. QED
    BY <1>7, <2>2, <2>3
<1>9. CASE Lost(p)
  <2>1. ASSUME NEW g \in Gets PROVE [g EXCEPT !.live = FALSE].list = g.list
    BY DEF Gets
  <2>2. QED
    BY <1>1, <1>7, <1>9, <2>1 DEF Lost
<1>10. ASSUME NEW j \in DOMAIN gets[p], Answer(p, j) \/ Arrive(p, j)
       PROVE  \/ gets'[p][k].list = <<>> \/ gets'[p][k].list = List
              \/ k \in DOMAIN gets[p] /\ gets'[p][k].list = gets[p][k].list
  <2>1. PICK g : gets' = [gets EXCEPT ![p] = [gets[p] EXCEPT ![j] = g]] /\ g.list \in {<<>>, List}
    <3>1. gets[p][j] \in Gets
      BY <1>7
    <3>2. CASE Answer(p, j)
      <4>1. PICK g : g = [gets[p][j] EXCEPT !.at = "answered", !.list = List, !.live = p \in subs]
        OBVIOUS
      <4>2. gets' = [gets EXCEPT ![p] = [gets[p] EXCEPT ![j] = g]]
        BY <3>2, <4>1 DEF Answer
      <4>3. g.list = List
        BY <3>1, <4>1 DEF Gets
      <4>4. QED
        BY <4>2, <4>3
    <3>3. CASE Arrive(p, j)
      <4>1. PICK g : g = [gets[p][j] EXCEPT !.at = "done", !.list = <<>>, !.live = FALSE]
        OBVIOUS
      <4>2. gets' = [gets EXCEPT ![p] = [gets[p] EXCEPT ![j] = g]]
        BY <3>3, <4>1 DEF Arrive
      <4>3. g.list = <<>>
        BY <3>1, <4>1 DEF Gets
      <4>4. QED
        BY <4>2, <4>3
    <3>4. QED
      BY <1>10, <3>2, <3>3
  <2>2. gets'[p] = [gets[p] EXCEPT ![j] = g]
    BY <1>1, <2>1
  <2>3. k \in DOMAIN gets[p] /\ gets'[p][k] = IF k = j THEN g ELSE gets[p][k]
    BY <2>2
  <2>4. QED
    BY <2>1, <2>3
<1>11. ASSUME NEW q \in Pages, Page(q), q # p PROVE gets'[p] = gets[p]
  BY <1>5, <1>6, <1>11 DEF Page, Opened, Lost, Answer, Arrive
<1>12. CASE UNCHANGED vars
  BY <1>12, <1>2 DEF vars, pageVars
<1>13. QED
  BY <1>2, <1>3, <1>4, <1>5, <1>8, <1>9, <1>10, <1>11, <1>12 DEF Next, Page

\* What is queued for a page was queued before, or a call sends it.
LEMMA ChanEffect ==
    ASSUME ServiceInv, ServiceStep, NEW p \in Pages, NEW k \in DOMAIN chan'[p]
    PROVE  \/ Has(chan[p], chan'[p][k])
           \/ \E c \in Calls : call[c].at \in {"sending", "resending"} /\ chan'[p][k] = call[c].iv
<1>1. chan \in [Streams -> Seq(Interventions)] /\ p \in Streams
  BY DEF ServiceInv, ServiceTypeOK, Pages
<1>2. chan[p] \in Seq(Interventions) /\ Len(chan[p]) \in Nat /\ DOMAIN chan[p] = 1..Len(chan[p])
  BY <1>1, LenProperties
<1>3. CASE chan'[p] = chan[p]
  BY <1>3 DEF Has
<1>4. ASSUME NEW c \in Calls, Send(c, p), chan'[p] # chan[p]
      PROVE  \/ Has(chan[p], chan'[p][k])
             \/ call[c].at \in {"sending", "resending"} /\ chan'[p][k] = call[c].iv
  <2>1. chan'[p] = Append(chan[p], call[c].iv) /\ p \in call[c].to
    BY <1>1, <1>4 DEF Send
  <2>2. call[c].at \in {"sending", "resending"} /\ call[c].iv \in Interventions
    BY <2>1, CallFacts DEF ServiceInv, StampsPast
  <2>3. /\ \A j \in 1..Len(chan[p]) : chan'[p][j] = chan[p][j]
        /\ chan'[p][Len(chan[p]) + 1] = call[c].iv
        /\ DOMAIN chan'[p] = 1..(Len(chan[p]) + 1)
    BY <1>2, <2>1, <2>2, AppendProperties, LenProperties
  <2>4. QED
    BY <1>2, <2>2, <2>3 DEF Has
<1>5. ASSUME NEW c \in Calls, NEW s \in Streams, Send(c, s), s # p PROVE chan'[p] = chan[p]
  BY <1>1, <1>5 DEF Send
<1>6. ASSUME NEW s \in Streams, Subscribe(s) \/ Unsubscribe(s) PROVE Has(chan[p], chan'[p][k])
  <2>1. chan'[p] = IF s = p THEN <<>> ELSE chan[p]
    BY <1>1, <1>6 DEF Subscribe, Unsubscribe
  <2>2. s # p
    BY <2>1, EmptySeq
  <2>3. QED
    BY <2>1, <2>2, <1>3 DEF Has
<1>7. ASSUME NEW s \in Streams, Receive(s) PROVE Has(chan[p], chan'[p][k])
  <2>1. CASE s = p
    <3>1. chan[p] # <<>> /\ chan'[p] = Tail(chan[p])
      BY <1>1, <1>7, <2>1 DEF Receive
    <3>2. /\ \A j \in 1..(Len(chan[p]) - 1) : chan'[p][j] = chan[p][j + 1]
          /\ DOMAIN chan'[p] = 1..(Len(chan[p]) - 1)
      BY <1>2, <3>1, HeadTailProperties, LenProperties
    <3>3. k + 1 \in DOMAIN chan[p] /\ chan'[p][k] = chan[p][k + 1]
      BY <1>2, <3>2
    <3>4. QED
      BY <3>3 DEF Has
  <2>2. CASE s # p
    BY <1>1, <1>7, <2>2 DEF Receive, Has
  <2>3. QED
    BY <2>1, <2>2
<1>8. ASSUME NEW c \in Calls, Proceed(c) \/ \E alarm \in BOOLEAN : Stamp(c, alarm) PROVE chan' = chan
  BY <1>8 DEF Proceed, Record, CopySubs, Rewrite, End, Stamp
<1>9. CASE UNCHANGED serviceVars
  BY <1>9, <1>3 DEF serviceVars
<1>10. QED
  BY <1>3, <1>4, <1>5, <1>6, <1>7, <1>8, <1>9 DEF ServiceStep

\* A page gets an override by sending it and ends it with its answer.
LEMMA PostEffect ==
    ASSUME PageTypes, [Next]_vars, NEW p \in Pages
    PROVE  \/ post'[p] = post[p] /\ own'[p] = own[p]
           \/ PostDone(p)
           \/ \E c \in Calls : Post(p, c)
<1>1. post \in [Pages -> 0..MaxApplied] /\ own \in [Pages -> SUBSET Ids]
  BY DEF PageTypes
<1>2. ASSUME NEW c \in Calls, Serve(c) PROVE post' = post /\ own' = own
  BY <1>2 DEF Serve, pageVars
<1>3. ASSUME NEW c \in Calls, NEW q \in Pages, FanOut(c, q) PROVE post' = post /\ own' = own
  BY <1>3 DEF FanOut
<1>4. ASSUME NEW c \in Calls, NEW q \in Pages, Post(q, c), q # p PROVE post'[p] = post[p] /\ own'[p] = own[p]
  BY <1>1, <1>4 DEF Post
<1>5. ASSUME NEW q \in Pages, Page(q) PROVE PostDone(q) \/ (post' = post /\ own' = own)
  BY <1>5 DEF Page, Connect, Join, Opened, Frame, Lost, Answer, Arrive, pageVars
<1>6. ASSUME NEW q \in Pages, PostDone(q), q # p PROVE post'[p] = post[p] /\ own'[p] = own[p]
  BY <1>1, <1>6 DEF PostDone
<1>7. CASE UNCHANGED vars
  BY <1>7 DEF vars, pageVars
<1>8. QED
  BY <1>2, <1>3, <1>4, <1>5, <1>6, <1>7 DEF Next

-----------------------------------------------------------------------------
(* Nothing is known that the log does not tell. *)

\* A list tells of an intervention, and has its message if that has been polished.
Tells(list, iv) ==
    \E j \in DOMAIN list : /\ list[j].id = iv.id /\ list[j].alarm = iv.alarm
                           /\ iv.message = "polished" => list[j].message = "polished"

\* The log tells of everything on a page, in a channel, in an answer or with a
\* call past Record. A page's own override may still be with its call.
Told ==
    /\ \A p \in Pages : \A k \in DOMAIN shown[p] : Tells(log, shown[p][k])
    /\ \A p \in Pages : \A k \in DOMAIN chan[p] : Tells(log, chan[p][k])
    /\ \A p \in Pages : \A k \in DOMAIN gets[p] : \A m \in DOMAIN gets[p][k].list : Tells(log, gets[p][k].list[m])
    /\ \A c \in Calls : call[c].at \notin {"idle", "stamped"} => Tells(log, call[c].iv)
    /\ \A p \in Pages : post[p] # 0 =>
          \/ Tells(log, Posted(post[p]))
          \/ \E c \in Calls : call[c].at = "stamped" /\ call[c].iv = Posted(post[p])

\* What the log tells it goes on telling.
LEMMA StillTold == ASSUME ServiceInv, Trail, ServiceInv' PROVE \A iv : Tells(log, iv) => Tells(log', iv)
<1>1. /\ DOMAIN log = 1..Len(log) /\ DOMAIN log' = 1..Len(log') /\ Len(log) \in Nat /\ Len(log') \in Nat
      /\ Len(log') \in {Len(log), Len(log) + 1}
  BY LenProperties DEF ServiceInv, ServiceTypeOK, Trail
<1>2. DOMAIN log \subseteq DOMAIN log'
  <2>1. \A m, n \in Nat : m \in {n, n + 1} => 1..n \subseteq 1..m
    OBVIOUS
  <2>2. QED
    BY <1>1, <2>1
<1>3. QED
  BY <1>2 DEF Trail, Tells

\* A stamped call stays so until it records.
LEMMA StampedStays ==
    ASSUME ServiceInv, ServiceStep, NEW c \in Calls, call[c].at = "stamped"
    PROVE  call'[c].at \in {"stamped", "recorded"} /\ call'[c].iv = call[c].iv
<1>1. call \in [Calls -> CallTypes] /\ \A d \in Calls : call[d] \in CallTypes
  BY CallFacts
<1>2. call[c].to = {}
  BY DEF ServiceInv, StampsPast
<1>3. ASSUME NEW d \in Calls, Proceed(d) \/ \E alarm \in BOOLEAN : Stamp(d, alarm)
      PROVE  call'[c].at \in {"stamped", "recorded"} /\ call'[c].iv = call[c].iv
  <2>1. CASE d = c
    <3>1. Record(c)
      BY <1>3, <2>1 DEF Proceed, CopySubs, Rewrite, End, Polishing, Stamp, Free
    <3>2. QED
      BY <1>1, <3>1 DEF Record, CallTypes
  <2>2. CASE d # c
    <3>1. call'[c] = call[c]
      BY <1>1, <1>3, <2>2 DEF Proceed, Record, CopySubs, Rewrite, End, Stamp
    <3>2. QED
      BY <3>1
  <2>3. QED
    BY <2>1, <2>2
<1>4. ASSUME NEW d \in Calls, NEW s \in Streams, Send(d, s) PROVE call'[c] = call[c]
  <2>1. d # c
    BY <1>2, <1>4 DEF Send
  <2>2. QED
    BY <1>1, <1>4, <2>1 DEF Send
<1>5. ASSUME NEW s \in Streams, Subscribe(s) \/ Unsubscribe(s) \/ Receive(s)
      PROVE  call'[c].at = call[c].at /\ call'[c].iv = call[c].iv
  <2>1. CASE Unsubscribe(s)
    BY <1>1, <2>1 DEF Unsubscribe, CallTypes
  <2>2. CASE Subscribe(s) \/ Receive(s)
    BY <2>2 DEF Subscribe, Receive
  <2>3. QED
    BY <1>5, <2>1, <2>2
<1>6. CASE UNCHANGED serviceVars
  BY <1>6 DEF serviceVars
<1>7. QED
  BY <1>3, <1>4, <1>5, <1>6 DEF ServiceStep

\* A call has told the log before it tells anybody else.
LEMMA CallsTold ==
    ASSUME ServiceInv, ServiceStep, Trail, ServiceInv', Told, NEW c \in Calls, call'[c].at \notin {"idle", "stamped"}
    PROVE  Tells(log', call'[c].iv)
<1>1. call \in [Calls -> CallTypes] /\ \A d \in Calls : call[d] \in CallTypes
  BY CallFacts
<1>2. CASE call'[c].at = call[c].at /\ call'[c].iv = call[c].iv
  BY <1>2, StillTold DEF Told
<1>3. ASSUME NEW d \in Calls, call' = [call EXCEPT ![d] = call'[d]], d # c PROVE call'[c] = call[c]
  BY <1>1, <1>3
<1>4. CASE Record(c)
  <2>1. call[c].at = "stamped" /\ log' = Append(log, call[c].iv) /\ call'[c].iv = call[c].iv
    BY <1>1, <1>4 DEF Record, CallTypes
  <2>2. log \in Seq(Interventions) /\ Len(log) \in Nat /\ call[c].iv \in Interventions
    BY <2>1, CallFacts
  <2>3. Len(log) + 1 \in DOMAIN log' /\ log'[Len(log) + 1] = call[c].iv
    BY <2>1, <2>2, AppendProperties, LenProperties
  <2>4. QED
    BY <2>1, <2>3 DEF Tells
<1>5. CASE Rewrite(c)
  <2>1. /\ call[c].at = "sending"
        /\ call' = [call EXCEPT ![c].at = "rewritten", ![c].iv.message = "polished"]
        /\ log' = [k \in DOMAIN log |->
                     IF log[k].id = call[c].iv.id THEN [log[k] EXCEPT !.message = "polished"] ELSE log[k]]
    BY <1>5 DEF Rewrite, Polishing
  <2>2. call[c].iv \in Interventions /\ \A k \in DOMAIN log : log[k] \in Interventions
    BY <2>1, CallFacts
  <2>3. call'[c].iv = [call[c].iv EXCEPT !.message = "polished"]
    BY <1>1, <2>1 DEF CallTypes
  <2>4. call'[c].iv.id = call[c].iv.id /\ call'[c].iv.alarm = call[c].iv.alarm
    BY <2>2, <2>3 DEF Interventions
  <2>5. PICK k \in DOMAIN log : log[k].id = call[c].iv.id /\ log[k].alarm = call[c].iv.alarm
    BY <2>1 DEF Told, Tells
  <2>6. k \in DOMAIN log' /\ log'[k] = [log[k] EXCEPT !.message = "polished"]
    BY <2>1, <2>5
  <2>7. log'[k].id = log[k].id /\ log'[k].alarm = log[k].alarm /\ log'[k].message = "polished"
    BY <2>2, <2>6 DEF Interventions
  <2>8. QED
    BY <2>4, <2>5, <2>6, <2>7 DEF Tells
<1>6. ASSUME CopySubs(c) \/ \E s \in Streams : Send(c, s) PROVE call[c].at \notin {"idle", "stamped"} /\ call'[c].iv = call[c].iv
  <2>1. CASE CopySubs(c)
    BY <1>1, <2>1 DEF CopySubs, CallTypes
  <2>2. ASSUME NEW s \in Streams, Send(c, s) PROVE call[c].at \notin {"idle", "stamped"} /\ call'[c].iv = call[c].iv
    BY <1>1, <2>2 DEF Send, CallTypes, ServiceInv, StampsPast
  <2>3. QED
    BY <1>6, <2>1, <2>2
<1>7. ASSUME End(c) \/ \E alarm \in BOOLEAN : Stamp(c, alarm) PROVE FALSE
  <2>1. call'[c].at \in {"idle", "stamped"}
    BY <1>1, <1>7 DEF End, Idle, Stamp
  <2>2. QED
    BY <2>1
<1>8. ASSUME NEW d \in Calls, d # c,
             Proceed(d) \/ (\E alarm \in BOOLEAN : Stamp(d, alarm)) \/ (\E s \in Streams : Send(d, s))
      PROVE  call'[c] = call[c]
  BY <1>1, <1>8 DEF Proceed, Record, CopySubs, Rewrite, End, Stamp, Send
<1>9. ASSUME NEW s \in Streams, Subscribe(s) \/ Unsubscribe(s) \/ Receive(s)
      PROVE  call'[c].at = call[c].at /\ call'[c].iv = call[c].iv
  <2>1. CASE Unsubscribe(s)
    BY <1>1, <2>1 DEF Unsubscribe, CallTypes
  <2>2. CASE Subscribe(s) \/ Receive(s)
    BY <2>2 DEF Subscribe, Receive
  <2>3. QED
    BY <1>9, <2>1, <2>2
<1>10. CASE UNCHANGED serviceVars
  BY <1>10, <1>2 DEF serviceVars
<1>11. ASSUME CopySubs(c) \/ \E s \in Streams : Send(c, s) PROVE Tells(log', call'[c].iv)
  BY <1>6, <1>11, StillTold DEF Told
<1>12. QED
  BY <1>2, <1>4, <1>5, <1>7, <1>8, <1>9, <1>10, <1>11 DEF ServiceStep, Proceed

\* One step per place where an intervention can be.
LEMMA ToldNext ==
    ASSUME ServiceInv, LogDistinct, PageTypes, Told, ServiceInv', [Next]_vars
    PROVE  Told'
<1>1. ServiceStep
  BY StepsOfService
<1>2. Trail
  BY <1>1, TrailStep
<1>3. \A iv : Tells(log, iv) => Tells(log', iv)
  BY <1>2, StillTold
<1>4. \A c \in Calls : call'[c].at \notin {"idle", "stamped"} => Tells(log', call'[c].iv)
  BY <1>1, <1>2, CallsTold
<1>5. ASSUME NEW p \in Pages, NEW k \in DOMAIN chan'[p] PROVE Tells(log', chan'[p][k])
  <2>1. CASE Has(chan[p], chan'[p][k])
    BY <1>3, <2>1 DEF Has, Told
  <2>2. ASSUME NEW c \in Calls, call[c].at \in {"sending", "resending"}, chan'[p][k] = call[c].iv
        PROVE  Tells(log', chan'[p][k])
    BY <1>3, <2>2 DEF Told
  <2>3. QED
    BY <1>1, <2>1, <2>2, ChanEffect
<1>6. ASSUME NEW p \in Pages, NEW k \in DOMAIN gets'[p], NEW m \in DOMAIN gets'[p][k].list
      PROVE  Tells(log', gets'[p][k].list[m])
  <2>1. CASE gets'[p][k].list = <<>>
    BY <1>6, <2>1, EmptySeq
  <2>2. CASE gets'[p][k].list = List
    <3>1. PICK j \in DOMAIN log : gets'[p][k].list[m] = log[j]
      BY <1>6, <2>2, ListFacts
    <3>2. Tells(log, log[j])
      BY DEF Tells
    <3>3. QED
      BY <1>3, <3>1, <3>2
  <2>3. CASE k \in DOMAIN gets[p] /\ gets'[p][k].list = gets[p][k].list
    BY <1>3, <1>6, <2>3 DEF Told
  <2>4. QED
    BY <2>1, <2>2, <2>3, GetsEffect
<1>7. ASSUME NEW p \in Pages, post'[p] # 0
      PROVE  \/ Tells(log', Posted(post'[p]))
             \/ \E c \in Calls : call'[c].at = "stamped" /\ call'[c].iv = Posted(post'[p])
  <2>1. CASE post'[p] = post[p]
    <3>1. CASE Tells(log, Posted(post[p]))
      BY <1>3, <2>1, <3>1
    <3>2. ASSUME NEW c \in Calls, call[c].at = "stamped", call[c].iv = Posted(post[p])
          PROVE  \/ Tells(log', Posted(post'[p]))
                 \/ call'[c].at = "stamped" /\ call'[c].iv = Posted(post'[p])
      <4>1. call'[c].at \in {"stamped", "recorded"} /\ call'[c].iv = call[c].iv
        BY <1>1, <3>2, StampedStays
      <4>2. QED
        BY <1>4, <2>1, <3>2, <4>1
    <3>3. QED
      BY <1>7, <2>1, <3>1, <3>2 DEF Told
  <2>2. CASE PostDone(p)
    BY <1>7, <2>2 DEF PostDone, PageTypes
  <2>3. ASSUME NEW c \in Calls, Post(p, c) PROVE call'[c].at = "stamped" /\ call'[c].iv = Posted(post'[p])
    <3>1. call'[c].at = "stamped" /\ call'[c].iv = Posted(applied')
      BY <2>3, CallFacts DEF Post, Stamp, Posted
    <3>2. post'[p] = applied'
      BY <2>3 DEF Post, PageTypes
    <3>3. QED
      BY <3>1, <3>2
  <2>4. QED
    BY <2>1, <2>2, <2>3, PostEffect
<1>8. ASSUME NEW p \in Pages, NEW k \in DOMAIN shown'[p] PROVE Tells(log', shown'[p][k])
  <2>1. CASE shown'[p] = shown[p]
    BY <1>3, <1>8, <2>1 DEF Told
  <2>2. CASE Frame(p)
    <3>1. chan[p] # <<>> /\ shown'[p] = Merged(shown[p], Head(chan[p]))
      BY <2>2 DEF Frame, Receive, PageTypes
    <3>2. shown[p] \in Seq(Interventions) /\ Head(chan[p]) \in Interventions
      BY <3>1, PageFacts
    <3>3. Tells(log, Head(chan[p]))
      <4>1. 1 \in DOMAIN chan[p] /\ Head(chan[p]) = chan[p][1]
        BY <3>1, PageFacts, HeadTailProperties, LenProperties
      <4>2. QED
        BY <4>1 DEF Told
    <3>4. shown'[p][k] = Head(chan[p]) \/ Has(shown[p], shown'[p][k])
      BY <1>8, <3>1, <3>2, MergedFacts
    <3>5. QED
      BY <1>3, <3>3, <3>4 DEF Has, Told
  <2>3. CASE PostDone(p)
    <3>1. shown'[p] = <<Posted(post[p])>> \o shown[p] /\ post[p] # 0
      BY <2>3 DEF PostDone, Posted, PageTypes
    <3>2. shown[p] \in Seq(Interventions) /\ Posted(post[p]) \in Interventions
      <4>1. post[p] \in Ids
        BY <3>1, ServiceAssumption DEF PageTypes, Ids
      <4>2. QED
        BY <4>1, PageFacts DEF Posted, Interventions
    <3>3. Tells(log, Posted(post[p]))
      <4>1. \A c \in Calls : call[c].iv.id = post[p] => call[c].at # "stamped"
        BY <2>3 DEF PostDone
      <4>2. Posted(post[p]).id = post[p]
        BY DEF Posted
      <4>3. QED
        BY <3>1, <4>1, <4>2 DEF Told
    <3>4. shown'[p][k] = Posted(post[p]) \/ Has(shown[p], shown'[p][k])
      BY <1>8, <3>1, <3>2, OnTopFacts
    <3>5. QED
      BY <1>3, <3>3, <3>4 DEF Has, Told
  <2>4. ASSUME NEW j \in DOMAIN gets[p], Arrive(p, j) PROVE Tells(log', shown'[p][k])
    <3>1. shown'[p] = gets[p][j].list
      BY <2>4 DEF Arrive, PageTypes
    <3>2. QED
      BY <1>3, <1>8, <3>1 DEF Told
  <2>5. QED
    BY <2>1, <2>2, <2>3, <2>4, ShownEffect
<1>9. QED
  BY <1>4, <1>5, <1>6, <1>7, <1>8 DEF Told

-----------------------------------------------------------------------------
(* How often an intervention is in a list. *)

\* An answer has an id once; a screen has it once, or twice if it is the page's own
\* and its POST is done.
Copies ==
    /\ \A p \in Pages : \A k \in DOMAIN gets[p] : \A id \in Ids : Once(gets[p][k].list, id)
    /\ \A p \in Pages : \A id \in Ids : /\ Twice(shown[p], id)
                                        /\ id \notin own[p] \/ post[p] = id => Once(shown[p], id)
    /\ \A p \in Pages : post[p] # 0 => post[p] \in own[p]
    /\ \A p \in Pages : \A id \in own[p] : id <= applied

\* The lists, by what changes them; then the overrides.
LEMMA CopiesNext ==
    ASSUME ServiceInv, LogDistinct, PageTypes, Copies, ServiceInv', [Next]_vars
    PROVE  Copies'
<1>1. ServiceStep
  BY StepsOfService
<1>2. applied \in Nat /\ applied' \in Nat /\ applied <= applied' /\ MaxApplied \in Nat
  <2>1. applied \in Nat /\ applied' \in Nat /\ MaxApplied \in Nat
    BY ServiceAssumption DEF ServiceInv, ServiceTypeOK
  <2>2. applied' \in {applied, applied + 1}
    BY <1>1 DEF ServiceStep, Proceed, Record, CopySubs, Rewrite, End, Stamp, Send, Subscribe, Unsubscribe, Receive, serviceVars
  <2>3. QED
    BY <2>1, <2>2
<1>3. ASSUME NEW p \in Pages, NEW k \in DOMAIN gets'[p], NEW id \in Ids PROVE Once(gets'[p][k].list, id)
  <2>1. CASE gets'[p][k].list = <<>>
    BY <2>1, EmptySeq DEF Once
  <2>2. CASE gets'[p][k].list = List
    BY <2>2, ListFacts DEF Once
  <2>3. CASE k \in DOMAIN gets[p] /\ gets'[p][k].list = gets[p][k].list
    BY <2>3 DEF Copies
  <2>4. QED
    BY <2>1, <2>2, <2>3, GetsEffect
<1>4. \A p \in Pages : \A id \in Ids : (id \notin own[p] \/ post[p] = id) <=> (id \in own[p] => post[p] = id)
  OBVIOUS
\* What the page has done with its overrides.
<1>5. ASSUME NEW p \in Pages
      PROVE  /\ post'[p] # 0 => post'[p] \in own'[p]
             /\ \A id \in own'[p] : id <= applied'
             /\ PostDone(p) \/ \A id \in Ids : (id \in own'[p] => post'[p] = id) => (id \in own[p] => post[p] = id)
  <2>1. CASE post'[p] = post[p] /\ own'[p] = own[p]
    <3>1. \A id \in own[p] : id \in Nat
      BY DEF PageTypes, Ids
    <3>2. QED
      BY <1>2, <2>1, <3>1 DEF Copies
  <2>2. CASE PostDone(p)
    <3>1. post'[p] = 0 /\ own'[p] = own[p]
      BY <2>2 DEF PostDone, PageTypes
    <3>2. \A id \in own[p] : id \in Nat
      BY DEF PageTypes, Ids
    <3>3. QED
      BY <1>2, <2>2, <3>1, <3>2 DEF Copies
  <2>3. ASSUME NEW c \in Calls, Post(p, c)
        PROVE  /\ post'[p] # 0 => post'[p] \in own'[p]
               /\ \A id \in own'[p] : id <= applied'
               /\ \A id \in Ids : (id \in own'[p] => post'[p] = id) => (id \in own[p] => post[p] = id)
    <3>1. post'[p] = applied' /\ own'[p] = own[p] \cup {applied'} /\ applied' = applied + 1
      BY <2>3 DEF Post, Stamp, PageTypes
    <3>2. \A id \in own[p] : id \in Nat /\ id <= applied
      BY DEF PageTypes, Ids, Copies
    <3>3. applied' \notin own[p]
      BY <1>2, <3>1, <3>2
    <3>4. \A id \in own'[p] : id <= applied'
      BY <1>2, <3>1, <3>2
    <3>5. QED
      BY <3>1, <3>3, <3>4
  <2>4. QED
    BY <2>1, <2>2, <2>3, PostEffect
<1>6. ASSUME NEW p \in Pages, NEW id \in Ids
      PROVE  /\ Twice(shown'[p], id)
             /\ (id \in own'[p] => post'[p] = id) => Once(shown'[p], id)
  <2>1. Twice(shown[p], id) /\ ((id \in own[p] => post[p] = id) => Once(shown[p], id))
    BY <1>4 DEF Copies
  <2>2. CASE PostDone(p)
    <3>1. PICK iv : iv = Posted(post[p])
      OBVIOUS
    <3>2. /\ shown'[p] = <<iv>> \o shown[p] /\ post[p] # 0 /\ post'[p] = 0 /\ own'[p] = own[p] /\ iv.id = post[p]
      BY <2>2, <3>1 DEF PostDone, Posted, PageTypes
    <3>3. shown[p] \in Seq(Interventions) /\ iv \in Interventions
      <4>1. post[p] \in Ids
        BY <3>2, ServiceAssumption DEF PageTypes, Ids
      <4>2. QED
        BY <3>1, <4>1, PageFacts DEF Posted, Interventions
    <3>4. id # 0 /\ post[p] \in own[p]
      BY <3>2 DEF Copies, Ids
    <3>5. CASE id = iv.id
      <4>1. Once(shown[p], id) /\ id \in own'[p] /\ post'[p] # id
        BY <2>1, <3>2, <3>4, <3>5
      <4>2. QED
        BY <3>2, <3>3, <4>1, OnTopFacts
    <3>6. CASE id # iv.id
      <4>1. Twice(shown'[p], id) /\ (Once(shown[p], id) => Once(shown'[p], id))
        BY <2>1, <3>2, <3>3, <3>6, OnTopFacts
      <4>2. QED
        BY <2>1, <3>2, <3>4, <4>1
    <3>7. QED
      BY <3>5, <3>6
  <2>3. CASE ~PostDone(p)
    <3>1. (id \in own'[p] => post'[p] = id) => (id \in own[p] => post[p] = id)
      BY <1>5, <2>3
    <3>2. SUFFICES Twice(shown'[p], id) /\ (Once(shown[p], id) => Once(shown'[p], id))
      BY <2>1, <3>1
    <3>3. CASE shown'[p] = shown[p]
      BY <2>1, <3>3
    <3>4. CASE Frame(p)
      <4>1. chan[p] # <<>> /\ shown'[p] = Merged(shown[p], Head(chan[p]))
        BY <3>4 DEF Frame, Receive, PageTypes
      <4>2. shown[p] \in Seq(Interventions) /\ Head(chan[p]) \in Interventions
        BY <4>1, PageFacts
      <4>3. QED
        BY <2>1, <4>1, <4>2, MergedFacts
    <3>5. ASSUME NEW k \in DOMAIN gets[p], Arrive(p, k) PROVE Once(shown'[p], id) /\ Twice(shown'[p], id)
      <4>1. shown'[p] = gets[p][k].list
        BY <3>5 DEF Arrive, PageTypes
      <4>2. Once(shown'[p], id)
        BY <4>1 DEF Copies
      <4>3. QED
        BY <4>2 DEF Once, Twice
    <3>6. QED
      BY <2>3, <3>3, <3>4, <3>5, ShownEffect
  <2>4. QED
    BY <2>2, <2>3
<1>7. QED
  BY <1>3, <1>5, <1>6 DEF Copies

\* A set without three different elements has two at most.
LEMMA NoThree ==
    ASSUME NEW S, IsFiniteSet(S), \A x, y, z \in S : x = y \/ y = z \/ x = z
    PROVE  Cardinality(S) \in Nat /\ Cardinality(S) <= 2
<1>1. CASE S = {}
  BY <1>1, FS_EmptySet
<1>2. CASE S # {}
  <2>1. PICK x \in S : TRUE
    BY <1>2
  <2>2. CASE S = {x}
    BY <2>2, FS_Singleton
  <2>3. CASE S # {x}
    <3>1. PICK y \in S : y # x
      BY <2>1, <2>3
    <3>2. S = {x} \cup {y} /\ y \notin {x}
      BY <2>1, <3>1
    <3>3. IsFiniteSet({x}) /\ Cardinality({x}) = 1
      BY FS_Singleton
    <3>4. Cardinality({x} \cup {y}) = 2
      BY <3>2, <3>3, FS_AddElement
    <3>5. QED
      BY <3>2, <3>4
  <2>4. QED
    BY <2>2, <2>3
<1>3. QED
  BY <1>1, <1>2

\* A set without two different elements has one at most.
LEMMA OnceIsOne == ASSUME NEW S, IsFiniteSet(S), \A x, y \in S : x = y PROVE Cardinality(S) \in Nat /\ Cardinality(S) <= 1
<1>1. CASE S = {}
  BY <1>1, FS_EmptySet
<1>2. CASE S # {}
  <2>1. PICK x \in S : TRUE
    BY <1>2
  <2>2. S = {x}
    BY <2>1
  <2>3. QED
    BY <2>2, FS_Singleton
<1>3. QED
  BY <1>1, <1>2

\* What Copies says in numbers.
LEMMA CopiesCounted == ServiceInv /\ PageTypes /\ Copies => ShownOnce
<1> SUFFICES ASSUME ServiceInv, PageTypes, Copies, NEW p \in Pages, NEW id \in Ids
             PROVE  Cardinality({k \in DOMAIN shown[p] : shown[p][k].id = id}) <= (IF id \in own[p] THEN 2 ELSE 1)
  BY DEF ShownOnce
<1>1. PICK S : S = {k \in DOMAIN shown[p] : shown[p][k].id = id}
  OBVIOUS
<1>2. IsFiniteSet(S)
  <2>1. Len(shown[p]) \in Nat /\ DOMAIN shown[p] = 1..Len(shown[p])
    BY PageFacts, LenProperties
  <2>2. IsFiniteSet(1..Len(shown[p])) /\ S \in SUBSET (1..Len(shown[p]))
    BY <1>1, <2>1, FS_Interval
  <2>3. QED
    BY <2>2, FS_Subset
<1>3. CASE id \in own[p]
  <2>1. \A x, y, z \in S : x = y \/ y = z \/ x = z
    BY <1>1 DEF Copies, Twice
  <2>2. QED
    BY <1>1, <1>2, <1>3, <2>1, NoThree
<1>4. CASE id \notin own[p]
  <2>1. \A x, y \in S : x = y
    BY <1>1, <1>4 DEF Copies, Once
  <2>2. QED
    BY <1>1, <1>2, <1>4, <2>1, OnceIsOne
<1>5. QED
  BY <1>3, <1>4

-----------------------------------------------------------------------------
(* Who is subscribed, and to what. *)

\* A call of Apply will yet send it to p; it is in the channel and nothing after it
\* says otherwise; nothing in the channel says otherwise.
WillSend(calls, subscribed, p, iv) ==
    \E c \in Calls : /\ calls[c].iv = iv
                     /\ p \in calls[c].to \/ (calls[c].at \in {"recorded", "rewritten"} /\ p \in subscribed)
LastWord(frames, iv) ==
    \E i \in DOMAIN frames : /\ frames[i] = iv
                             /\ \A j \in DOMAIN frames : j > i /\ frames[j].id = iv.id => frames[j] = iv
Quiet(frames, iv) == \A i \in DOMAIN frames : frames[i].id = iv.id => frames[i] = iv

OnItsWay(p, iv) == WillSend(call, subs, p, iv) \/ LastWord(chan[p], iv)
\* What is in S, or on its way to p, is the log.
Covers(p, S) == \A k \in DOMAIN log : OnItsWay(p, log[k]) \/ (Quiet(chan[p], log[k]) /\ log[k] \in S)

\* A page without a stream is not subscribed; whom a call sends to, who is sound
\* and whose GET is live is.
Subscribed ==
    /\ \A p \in Pages : link[p] = "down" => p \notin subs
    /\ \A c \in Calls : call[c].to \subseteq subs
    /\ \A p \in Pages : sound[p] => p \in subs
    /\ \A p \in Pages : \A k \in DOMAIN gets[p] : gets[p][k].live => p \in subs

\* A call whose entry is recorded has what the log has.
CallsTell ==
    \A c \in Calls, k \in DOMAIN log :
        call[c].at \notin {"idle", "stamped"} /\ call[c].iv.id = log[k].id => call[c].iv = log[k]

\* What a page shows, or did show until a list took it back.
Seen(p) == Entries(shown[p]) \cup undone[p]

\* As long as nothing is dropped, everything in the log that a subscribed page has
\* not seen is on its way there, and so for the answer of a live GET.
Flow ==
    \A p \in Pages : lossless[p] =>
        /\ p \in subs => Covers(p, Interventions)
        /\ sound[p] => Covers(p, Seen(p))
        /\ \A k \in DOMAIN gets[p] : gets[p][k].live => Covers(p, Entries(gets[p][k].list) \cup Seen(p))

\* The calls' recipients are subscribed.
LEMMA RecipientsSubscribed ==
    ASSUME ServiceInv, ServiceStep, \A c \in Calls : call[c].to \subseteq subs
    PROVE  \A c \in Calls : call'[c].to \subseteq subs'
<1>1. call \in [Calls -> CallTypes] /\ \A d \in Calls : call[d] \in CallTypes
  BY DEF ServiceInv, ServiceTypeOK, CallTypes
<1>2. ASSUME NEW c \in Calls, Proceed(c) \/ \E alarm \in BOOLEAN : Stamp(c, alarm)
      PROVE  subs' = subs /\ \A d \in Calls : call'[d].to \subseteq subs
  <2>1. CASE Record(c) \/ Rewrite(c)
    BY <1>1, <2>1 DEF Record, Rewrite, CallTypes
  <2>2. CASE CopySubs(c)
    BY <1>1, <2>2 DEF CopySubs, CallTypes
  <2>3. CASE End(c) \/ \E alarm \in BOOLEAN : Stamp(c, alarm)
    BY <1>1, <2>3 DEF End, Stamp, Idle
  <2>4. QED
    BY <1>2, <2>1, <2>2, <2>3 DEF Proceed
<1>3. ASSUME NEW c \in Calls, NEW s \in Streams, Send(c, s) PROVE subs' = subs /\ \A d \in Calls : call'[d].to \subseteq subs
  BY <1>1, <1>3 DEF Send, CallTypes
<1>4. ASSUME NEW s \in Streams, Subscribe(s) \/ Receive(s) PROVE call' = call /\ subs \subseteq subs'
  BY <1>4 DEF Subscribe, Receive
<1>5. ASSUME NEW s \in Streams, Unsubscribe(s) PROVE \A d \in Calls : call'[d].to \subseteq subs'
  BY <1>1, <1>5 DEF Unsubscribe, CallTypes
<1>6. CASE UNCHANGED serviceVars
  BY <1>6 DEF serviceVars
<1>7. QED
  BY <1>2, <1>3, <1>4, <1>5, <1>6 DEF ServiceStep

\* How the list of a page comes to be sound.
LEMMA SoundEffect ==
    ASSUME ServiceInv, PageTypes, [Next]_vars, NEW p \in Pages
    PROVE  \/ Lost(p) /\ sound'[p] = FALSE
           \/ sound'[p] = sound[p] /\ (shown'[p] = shown[p] \/ Frame(p) \/ PostDone(p))
           \/ \E k \in DOMAIN gets[p] : Arrive(p, k)
<1>1. sound \in [Pages -> BOOLEAN] /\ shown \in [Pages -> Seq(Interventions)]
  BY DEF PageTypes
<1>2. CASE sound' = sound
  BY <1>2, ShownEffect
<1>3. ASSUME NEW c \in Calls, Serve(c) PROVE sound' = sound
  BY <1>3 DEF Serve, pageVars
<1>4. ASSUME NEW c \in Calls, NEW q \in Pages, FanOut(c, q) \/ Post(q, c) PROVE sound' = sound
  BY <1>4 DEF FanOut, Post
<1>5. ASSUME NEW q \in Pages, Connect(q) \/ Join(q) \/ Opened(q) \/ Frame(q) \/ PostDone(q) PROVE sound' = sound
  BY <1>5 DEF Connect, Join, Opened, Frame, PostDone, pageVars
<1>6. ASSUME NEW q \in Pages, NEW k \in DOMAIN gets[q], Answer(q, k) PROVE sound' = sound
  BY <1>6 DEF Answer
<1>7. ASSUME NEW q \in Pages, Lost(q)
      PROVE  (Lost(p) /\ sound'[p] = FALSE) \/ (sound'[p] = sound[p] /\ shown'[p] = shown[p])
  BY <1>1, <1>7 DEF Lost
<1>8. ASSUME NEW q \in Pages, NEW k \in DOMAIN gets[q], Arrive(q, k), q # p
      PROVE  sound'[p] = sound[p] /\ shown'[p] = shown[p]
  BY <1>1, <1>8 DEF Arrive
<1>9. CASE UNCHANGED vars
  BY <1>9, <1>2 DEF vars, pageVars
<1>10. QED
  BY <1>2, <1>3, <1>4, <1>5, <1>6, <1>7, <1>8, <1>9 DEF Next, Page

\* How a page's GET comes to be live.
LEMMA LiveEffect ==
    ASSUME ServiceInv, PageTypes, [Next]_vars, NEW p \in Pages, NEW k \in DOMAIN gets'[p], gets'[p][k].live
    PROVE  \/ Answer(p, k) /\ p \in subs /\ k \in DOMAIN gets[p] /\ gets'[p][k].list = List
           \/ /\ k \in DOMAIN gets[p] /\ gets[p][k].live /\ gets'[p][k].list = gets[p][k].list
              /\ ~Lost(p)
<1> DEFINE Kept == /\ k \in DOMAIN gets[p] /\ gets[p][k].live /\ gets'[p][k].list = gets[p][k].list
           Goal == \/ Answer(p, k) /\ p \in subs /\ k \in DOMAIN gets[p] /\ gets'[p][k].list = List
                   \/ Kept
<1>1. gets \in [Pages -> Seq(Gets)]
  BY DEF PageTypes
<1>2. ASSUME gets'[p] = gets[p] PROVE Kept
  BY <1>2
<1>3. ASSUME NEW c \in Calls, Serve(c) PROVE gets' = gets
  BY <1>3 DEF Serve, pageVars
<1>4. ASSUME NEW c \in Calls, NEW q \in Pages, FanOut(c, q) \/ Post(q, c) PROVE gets' = gets
  BY <1>4 DEF FanOut, Post
<1>5. ASSUME NEW q \in Pages, Connect(q) \/ Join(q) \/ Frame(q) \/ PostDone(q) PROVE gets' = gets
  BY <1>5 DEF Connect, Join, Frame, PostDone, pageVars
<1>6. ASSUME NEW q \in Pages, NEW new, gets' = [gets EXCEPT ![q] = new], q # p PROVE gets'[p] = gets[p]
  BY <1>1, <1>6
<1>7. gets[p] \in Seq(Gets) /\ Len(gets[p]) \in Nat /\ DOMAIN gets[p] = 1..Len(gets[p])
      /\ \A j \in DOMAIN gets[p] : gets[p][j] \in Gets
  BY PageFacts
<1>8. ASSUME Opened(p) PROVE Kept
  <2>1. gets'[p] = Append(gets[p], NewGet)
    BY <1>1, <1>8 DEF Opened
  <2>2. NewGet \in Gets /\ ~NewGet.live
    BY EmptySeq DEF NewGet, Gets
  <2>3. /\ \A j \in 1..Len(gets[p]) : gets'[p][j] = gets[p][j]
        /\ gets'[p][Len(gets[p]) + 1] = NewGet
        /\ DOMAIN gets'[p] = 1..(Len(gets[p]) + 1)
    BY <1>7, <2>1, <2>2, AppendProperties, LenProperties
  <2>4. QED
    BY <1>7, <2>2, <2>3
\* A break leaves none live.
<1>9. ~Lost(p)
  <2>1. SUFFICES ASSUME Lost(p) PROVE FALSE
    OBVIOUS
  <2>2. gets'[p] = [j \in DOMAIN gets[p] |-> [gets[p][j] EXCEPT !.live = FALSE]]
    BY <1>1, <2>1 DEF Lost
  <2>3. gets[p][k] \in Gets /\ gets'[p][k] = [gets[p][k] EXCEPT !.live = FALSE]
    BY <1>7, <2>2
  <2>4. gets'[p][k].live = FALSE
    BY <2>3 DEF Gets
  <2>5. QED
    BY <2>4
<1>10. ASSUME NEW j \in DOMAIN gets[p], Answer(p, j) PROVE Goal
  <2>1. PICK g : g = [gets[p][j] EXCEPT !.at = "answered", !.list = List, !.live = p \in subs]
    OBVIOUS
  <2>2. gets'[p] = [gets[p] EXCEPT ![j] = g]
    BY <1>1, <1>10, <2>1 DEF Answer
  <2>3. g.list = List /\ g.live = (p \in subs)
    BY <1>7, <2>1 DEF Gets
  <2>4. k \in DOMAIN gets[p] /\ gets'[p][k] = IF k = j THEN g ELSE gets[p][k]
    BY <2>2
  <2>5. CASE k = j
    BY <1>10, <2>3, <2>4, <2>5
  <2>6. CASE k # j
    BY <2>4, <2>6
  <2>7. QED
    BY <2>5, <2>6
<1>11. ASSUME NEW j \in DOMAIN gets[p], Arrive(p, j) PROVE Goal
  <2>1. PICK g : g = [gets[p][j] EXCEPT !.at = "done", !.list = <<>>, !.live = FALSE]
    OBVIOUS
  <2>2. gets'[p] = [gets[p] EXCEPT ![j] = g]
    BY <1>1, <1>11, <2>1 DEF Arrive
  <2>3. g.live = FALSE
    BY <1>7, <2>1 DEF Gets
  <2>4. k \in DOMAIN gets[p] /\ gets'[p][k] = IF k = j THEN g ELSE gets[p][k]
    BY <2>2
  <2>5. k # j
    BY <2>3, <2>4
  <2>6. QED
    BY <2>4, <2>5
<1>12. ASSUME NEW q \in Pages, Page(q), q # p PROVE gets'[p] = gets[p]
  BY <1>5, <1>6, <1>12 DEF Page, Opened, Lost, Answer, Arrive
<1>13. ASSUME UNCHANGED vars PROVE gets' = gets
  BY <1>13 DEF vars, pageVars
<1>14. Goal
  BY <1>2, <1>3, <1>4, <1>5, <1>8, <1>9, <1>10, <1>11, <1>12, <1>13 DEF Next, Page
<1>15. QED
  BY <1>9, <1>14

\* Subscriptions end with the stream alone, and what rests on them ends then.
LEMMA SubscribedNext ==
    ASSUME ServiceInv, PageTypes, Subscribed, [Next]_vars
    PROVE  Subscribed'
<1>1. \A c \in Calls : call'[c].to \subseteq subs'
  BY StepsOfService, RecipientsSubscribed DEF Subscribed
<1>2. ASSUME NEW p \in Pages
      PROVE  /\ p \in subs /\ ~Lost(p) => p \in subs'
             /\ link'[p] = "down" => p \notin subs'
  <2>1. link \in [Pages -> {"down", "up", "open"}] /\ (link[p] = "down" => p \notin subs)
    BY DEF PageTypes, Subscribed
  <2>2. ASSUME NEW c \in Calls, Serve(c) PROVE subs' = subs /\ link' = link
    BY <2>2 DEF Serve, pageVars, Proceed, Record, CopySubs, Rewrite, End, Stamp
  <2>3. ASSUME NEW c \in Calls, NEW q \in Pages, FanOut(c, q) \/ Post(q, c) PROVE subs' = subs /\ link' = link
    BY <2>3 DEF FanOut, Post, Send, Stamp
  <2>4. ASSUME NEW q \in Pages, Connect(q) PROVE subs' = subs /\ (link'[p] = "down" => link[p] = "down")
    BY <2>1, <2>4 DEF Connect, serviceVars
  <2>5. ASSUME NEW q \in Pages, Join(q) PROVE link' = link /\ subs' = subs \cup {q} /\ link[q] # "down"
    BY <2>5 DEF Join, Subscribe, pageVars
  <2>6. ASSUME NEW q \in Pages, Opened(q) \/ Frame(q)
        PROVE  subs' = subs /\ (link'[p] = "down" => link[p] = "down")
    BY <2>1, <2>6 DEF Opened, Frame, Receive, serviceVars
  <2>7. ASSUME NEW q \in Pages, Lost(q)
        PROVE  subs' = subs \ {q} /\ (q # p => link'[p] = link[p])
    BY <2>1, <2>7 DEF Lost, Unsubscribe
  <2>8. ASSUME NEW q \in Pages, PostDone(q) \/ \E k \in DOMAIN gets[q] : Answer(q, k) \/ Arrive(q, k)
        PROVE  subs' = subs /\ link' = link
    BY <2>8 DEF PostDone, Answer, Arrive, serviceVars
  <2>9. CASE UNCHANGED vars
    BY <2>1, <2>9 DEF vars, serviceVars, pageVars
  <2>10. QED
    BY <2>1, <2>2, <2>3, <2>4, <2>5, <2>6, <2>7, <2>8, <2>9 DEF Next, Page
<1>3. ASSUME NEW p \in Pages, sound'[p] PROVE p \in subs'
  <2>1. CASE sound[p] /\ ~Lost(p)
    BY <1>2, <2>1 DEF Subscribed
  <2>2. ASSUME NEW k \in DOMAIN gets[p], Arrive(p, k) PROVE p \in subs'
    <3>1. gets[p][k].live /\ subs' = subs
      BY <1>3, <2>2 DEF Arrive, PageTypes, serviceVars
    <3>2. QED
      BY <3>1 DEF Subscribed
  <2>3. CASE Lost(p)
    <3>1. sound'[p] = FALSE
      BY <2>3 DEF Lost, PageTypes
    <3>2. QED
      BY <1>3, <3>1
  <2>4. QED
    BY <1>3, <2>1, <2>2, <2>3, SoundEffect
<1>4. ASSUME NEW p \in Pages, NEW k \in DOMAIN gets'[p], gets'[p][k].live PROVE p \in subs'
  <2>1. CASE Answer(p, k) /\ p \in subs
    BY <2>1 DEF Answer, serviceVars
  <2>2. CASE k \in DOMAIN gets[p] /\ gets[p][k].live /\ ~Lost(p)
    BY <1>2, <2>2 DEF Subscribed
  <2>3. QED
    BY <1>4, <2>1, <2>2, LiveEffect
<1>5. QED
  BY <1>1, <1>2, <1>3, <1>4 DEF Subscribed

-----------------------------------------------------------------------------
(* What the log has is on a page or on its way there. *)

\* What the service does, as seen by page p between two frames: nobody subscribes,
\* unsubscribes or reads in its place, and nothing for it is dropped.
FlowStep(p) ==
    \/ \E c \in Calls : Proceed(c) \/ \E alarm \in BOOLEAN : Stamp(c, alarm)
    \/ \E c \in Calls, s \in Streams : Send(c, s) /\ (s = p => ChanHasRoom(p))
    \/ \E s \in Streams \ {p} : Subscribe(s) \/ Unsubscribe(s) \/ Receive(s)
    \/ UNCHANGED serviceVars

\* A step that leaves a page subscribed is the page's frame or leaves it alone.
LEMMA FlowOrFrame ==
    ASSUME ServiceInv, PageTypes, Subscribed, [Next]_vars, NEW p \in Pages, p \in subs, ~Lost(p), lossless'[p]
    PROVE  lossless[p] /\ (FlowStep(p) \/ Frame(p))
<1>1. lossless \in [Pages -> BOOLEAN] /\ link[p] # "down" /\ p \in Streams /\ Pages = Streams
  BY DEF PageTypes, Subscribed, Pages
<1>2. ASSUME NEW c \in Calls, Serve(c) PROVE lossless' = lossless /\ FlowStep(p)
  <2>1. (applied + 1 \in AgentAlarms) \in BOOLEAN
    OBVIOUS
  <2>2. Proceed(c) \/ \E alarm \in BOOLEAN : Stamp(c, alarm)
    BY <1>2, <2>1, Zenon DEF Serve
  <2>3. QED
    BY <1>2, <2>2 DEF Serve, pageVars, FlowStep
<1>3. ASSUME NEW c \in Calls, NEW q \in Pages, FanOut(c, q) PROVE lossless[p] /\ FlowStep(p)
  <2>1. Send(c, q) /\ (q = p => lossless[p] /\ ChanHasRoom(p)) /\ (q # p => lossless'[p] = lossless[p])
    BY <1>1, <1>3 DEF FanOut
  <2>2. QED
    BY <1>1, <2>1 DEF FlowStep
<1>4. ASSUME NEW c \in Calls, NEW q \in Pages, Post(q, c) PROVE lossless' = lossless /\ FlowStep(p)
  BY <1>4 DEF Post, FlowStep
<1>5. ASSUME NEW q \in Pages, Connect(q) PROVE lossless'[p] = lossless[p] /\ FlowStep(p)
  BY <1>1, <1>5 DEF Connect, FlowStep
<1>6. ASSUME NEW q \in Pages, Join(q) PROVE lossless' = lossless /\ FlowStep(p)
  <2>1. Subscribe(q) /\ q # p
    BY <1>6 DEF Join, Subscribe
  <2>2. QED
    BY <1>1, <1>6, <2>1 DEF Join, pageVars, FlowStep
<1>7. ASSUME NEW q \in Pages, Frame(q), q # p PROVE lossless' = lossless /\ FlowStep(p)
  BY <1>1, <1>7 DEF Frame, FlowStep
<1>8. ASSUME NEW q \in Pages, Lost(q) PROVE lossless' = lossless /\ FlowStep(p)
  BY <1>1, <1>8 DEF Lost, FlowStep
<1>9. ASSUME NEW q \in Pages, Opened(q) \/ PostDone(q) \/ \E k \in DOMAIN gets[q] : Answer(q, k) \/ Arrive(q, k)
      PROVE  lossless' = lossless /\ FlowStep(p)
  BY <1>9 DEF Opened, PostDone, Answer, Arrive, FlowStep
<1>10. CASE UNCHANGED vars
  BY <1>10 DEF vars, pageVars, FlowStep
<1>11. CASE Frame(p)
  BY <1>11 DEF Frame
<1>12. QED
  BY <1>2, <1>3, <1>4, <1>5, <1>6, <1>7, <1>8, <1>9, <1>10, <1>11 DEF Next, Page

\* The calls keep what they send.
LEMMA CallsTellNext ==
    ASSUME ServiceInv, CallsTell, ServiceStep, ServiceInv'
    PROVE  CallsTell'
<1>1. call \in [Calls -> CallTypes] /\ \A d \in Calls : call[d] \in CallTypes
  BY DEF ServiceInv, ServiceTypeOK, CallTypes
<1>2. /\ log \in Seq(Interventions) /\ Len(log) \in Nat /\ DOMAIN log = 1..Len(log)
      /\ \A k \in DOMAIN log : log[k] \in Interventions
  BY LenProperties, ElementOfSeq DEF ServiceInv, ServiceTypeOK
<1>3. ASSUME log' = log,
             \A d \in Calls : call'[d].at \notin {"idle", "stamped"} =>
                                 call[d].at \notin {"idle", "stamped"} /\ call'[d].iv = call[d].iv
      PROVE  CallsTell'
  BY <1>3 DEF CallsTell
<1>4. ASSUME NEW c \in Calls, Record(c) PROVE CallsTell'
  <2>1. call[c].at = "stamped" /\ log' = Append(log, call[c].iv) /\ call' = [call EXCEPT ![c].at = "recorded"]
    BY <1>4 DEF Record
  <2>2. call[c].iv \in Interventions
    BY <2>1 DEF ServiceInv, StampsPast
  <2>3. /\ DOMAIN log' = 1..(Len(log) + 1) /\ log'[Len(log) + 1] = call[c].iv
        /\ \A k \in DOMAIN log : log'[k] = log[k]
    BY <1>2, <2>1, <2>2, AppendProperties, LenProperties
  <2>4. call'[c].iv = call[c].iv /\ \A d \in Calls : d # c => call'[d] = call[d]
    BY <1>1, <2>1 DEF CallTypes
  <2>5. SUFFICES ASSUME NEW d \in Calls, NEW k \in DOMAIN log', call'[d].at \notin {"idle", "stamped"}, call'[d].iv.id = log'[k].id
                 PROVE  call'[d].iv = log'[k]
    BY DEF CallsTell
  <2>6. CASE d = c /\ k \in DOMAIN log
    BY <2>1, <2>3, <2>4, <2>5, <2>6 DEF ServiceInv, IdsApart
  <2>7. CASE d = c /\ k = Len(log) + 1
    BY <2>3, <2>4, <2>7
  <2>8. CASE d # c /\ k \in DOMAIN log
    BY <2>3, <2>4, <2>5, <2>8 DEF CallsTell
  <2>9. CASE d # c /\ k = Len(log) + 1
    BY <2>1, <2>3, <2>4, <2>5, <2>9 DEF ServiceInv, IdsApart
  <2>10. k \in DOMAIN log \/ k = Len(log) + 1
    BY <1>2, <2>3
  <2>11. QED
    BY <2>6, <2>7, <2>8, <2>9, <2>10
<1>5. ASSUME NEW c \in Calls, Rewrite(c) PROVE CallsTell'
  <2>1. /\ call[c].at = "sending"
        /\ call' = [call EXCEPT ![c].at = "rewritten", ![c].iv.message = "polished"]
        /\ log' = [k \in DOMAIN log |->
                     IF log[k].id = call[c].iv.id THEN [log[k] EXCEPT !.message = "polished"] ELSE log[k]]
    BY <1>5 DEF Rewrite, Polishing
  <2>2. call[c].iv \in Interventions
    BY <2>1 DEF ServiceInv, StampsPast
  <2>3. call'[c].iv = [call[c].iv EXCEPT !.message = "polished"] /\ \A d \in Calls : d # c => call'[d] = call[d]
    BY <1>1, <2>1 DEF CallTypes
  <2>4. call'[c].iv.id = call[c].iv.id
    BY <2>2, <2>3 DEF Interventions
  <2>5. \A k \in DOMAIN log : log'[k].id = log[k].id
    BY <1>2, <2>1 DEF Interventions
  <2>6. SUFFICES ASSUME NEW d \in Calls, NEW k \in DOMAIN log', call'[d].at \notin {"idle", "stamped"}, call'[d].iv.id = log'[k].id
                 PROVE  call'[d].iv = log'[k]
    BY DEF CallsTell
  <2>7. k \in DOMAIN log
    BY <2>1
  <2>8. CASE d = c
    <3>1. log[k].id = call[c].iv.id
      BY <2>4, <2>5, <2>6, <2>7, <2>8
    <3>2. call[c].iv = log[k]
      BY <2>1, <2>7, <3>1 DEF CallsTell
    <3>3. QED
      BY <2>1, <2>3, <2>7, <2>8, <3>1, <3>2
  <2>9. CASE d # c
    <3>1. call'[d] = call[d] /\ log[k].id = call[d].iv.id
      BY <2>3, <2>5, <2>6, <2>7, <2>9
    <3>2. call[d].iv.id # call[c].iv.id
      BY <2>1, <2>6, <2>9, <3>1 DEF ServiceInv, IdsApart
    <3>3. log'[k] = log[k]
      BY <2>1, <2>7, <3>1, <3>2
    <3>4. QED
      BY <2>6, <2>7, <3>1, <3>3 DEF CallsTell
  <2>10. QED
    BY <2>8, <2>9
<1>6. ASSUME NEW c \in Calls, CopySubs(c) PROVE CallsTell'
  <2>1. \A d \in Calls : call'[d].iv = call[d].iv /\ (d # c => call'[d] = call[d])
    BY <1>1, <1>6 DEF CopySubs, CallTypes
  <2>2. log' = log /\ call[c].at \in {"recorded", "rewritten"}
    BY <1>6 DEF CopySubs
  <2>3. QED
    BY <1>3, <2>1, <2>2
<1>7. ASSUME NEW c \in Calls, End(c) \/ \E alarm \in BOOLEAN : Stamp(c, alarm) PROVE CallsTell'
  <2>1. log' = log /\ call'[c].at \in {"idle", "stamped"} /\ \A d \in Calls : d # c => call'[d] = call[d]
    BY <1>1, <1>7 DEF End, Stamp, Idle
  <2>2. QED
    BY <1>3, <2>1
<1>8. ASSUME NEW c \in Calls, NEW s \in Streams, Send(c, s) PROVE CallsTell'
  <2>1. log' = log /\ \A d \in Calls : call'[d].iv = call[d].iv /\ call'[d].at = call[d].at
    BY <1>1, <1>8 DEF Send, CallTypes
  <2>2. QED
    BY <1>3, <2>1
<1>9. ASSUME NEW s \in Streams, Subscribe(s) \/ Unsubscribe(s) \/ Receive(s) PROVE CallsTell'
  <2>1. log' = log
    BY <1>9 DEF Subscribe, Unsubscribe, Receive
  <2>2. \A d \in Calls : call'[d].iv = call[d].iv /\ call'[d].at = call[d].at
    <3>1. CASE Unsubscribe(s)
      BY <1>1, <3>1 DEF Unsubscribe, CallTypes
    <3>2. CASE Subscribe(s) \/ Receive(s)
      BY <3>2 DEF Subscribe, Receive
    <3>3. QED
      BY <1>9, <3>1, <3>2
  <2>3. QED
    BY <1>3, <2>1, <2>2
<1>10. CASE UNCHANGED serviceVars
  BY <1>10 DEF serviceVars, CallsTell
<1>11. QED
  BY <1>4, <1>5, <1>6, <1>7, <1>8, <1>9, <1>10 DEF ServiceStep, Proceed

\* An entry that is new, or has a new message, is on its way to whoever is subscribed.
LEMMA NewsComes ==
    ASSUME ServiceInv, CallsTell, ServiceStep, NEW p \in Streams, p \in subs, NEW k \in DOMAIN log',
           k \notin DOMAIN log \/ log'[k] # log[k]
    PROVE  WillSend(call', subs', p, log'[k])
<1>1. call \in [Calls -> CallTypes]
  BY DEF ServiceInv, ServiceTypeOK, CallTypes
<1>2. /\ log \in Seq(Interventions) /\ Len(log) \in Nat /\ DOMAIN log = 1..Len(log)
      /\ \A j \in DOMAIN log : log[j] \in Interventions
  BY LenProperties, ElementOfSeq DEF ServiceInv, ServiceTypeOK
<1>3. log' # log
  OBVIOUS
<1>4. PICK c \in Calls : Record(c) \/ Rewrite(c)
  BY <1>3 DEF ServiceStep, Proceed, CopySubs, End, Stamp, Send, Subscribe, Unsubscribe, Receive, serviceVars
<1>5. subs' = subs
  BY <1>4 DEF Record, Rewrite
<1>6. CASE Record(c)
  <2>1. call[c].at = "stamped" /\ log' = Append(log, call[c].iv) /\ call' = [call EXCEPT ![c].at = "recorded"]
    BY <1>6 DEF Record
  <2>2. call[c].iv \in Interventions
    BY <2>1 DEF ServiceInv, StampsPast
  <2>3. /\ DOMAIN log' = 1..(Len(log) + 1) /\ log'[Len(log) + 1] = call[c].iv
        /\ \A j \in DOMAIN log : log'[j] = log[j]
    BY <1>2, <2>1, <2>2, AppendProperties, LenProperties
  <2>4. k = Len(log) + 1
    BY <1>2, <2>3
  <2>5. call'[c].iv = log'[k] /\ call'[c].at = "recorded"
    BY <1>1, <2>1, <2>3, <2>4 DEF CallTypes
  <2>6. QED
    BY <1>5, <2>5 DEF WillSend
<1>7. CASE Rewrite(c)
  <2>1. /\ call[c].at = "sending"
        /\ call' = [call EXCEPT ![c].at = "rewritten", ![c].iv.message = "polished"]
        /\ log' = [j \in DOMAIN log |->
                     IF log[j].id = call[c].iv.id THEN [log[j] EXCEPT !.message = "polished"] ELSE log[j]]
    BY <1>7 DEF Rewrite, Polishing
  <2>2. k \in DOMAIN log /\ log[k].id = call[c].iv.id /\ log'[k] = [log[k] EXCEPT !.message = "polished"]
    BY <2>1
  <2>3. call[c].iv = log[k]
    BY <2>1, <2>2 DEF CallsTell
  <2>4. call'[c].iv = [call[c].iv EXCEPT !.message = "polished"] /\ call'[c].at = "rewritten"
    BY <1>1, <2>1 DEF CallTypes
  <2>5. call'[c].iv = log'[k]
    BY <2>2, <2>3, <2>4
  <2>6. QED
    BY <1>5, <2>4, <2>5 DEF WillSend
<1>8. QED
  BY <1>4, <1>6, <1>7

\* What a call will send it does send, and then it is the last word.
LEMMA WillSendKept ==
    ASSUME ServiceInv, NEW p \in Streams, p \in subs, FlowStep(p), NEW iv, WillSend(call, subs, p, iv)
    PROVE  p \in subs' /\ (WillSend(call', subs', p, iv) \/ LastWord(chan'[p], iv))
<1>1. call \in [Calls -> CallTypes] /\ \A d \in Calls : call[d] \in CallTypes
  BY DEF ServiceInv, ServiceTypeOK, CallTypes
<1>2. PICK c \in Calls : /\ call[c].iv = iv
                         /\ p \in call[c].to \/ call[c].at \in {"recorded", "rewritten"}
  BY DEF WillSend
<1>3. p \in call[c].to => call[c].at \in {"sending", "resending"}
  BY DEF ServiceInv, StampsPast
<1>4. ASSUME call'[c] = call[c], p \in subs' PROVE WillSend(call', subs', p, iv)
  BY <1>2, <1>4 DEF WillSend
<1>5. ASSUME NEW d \in Calls, Proceed(d) \/ \E alarm \in BOOLEAN : Stamp(d, alarm)
      PROVE  subs' = subs /\ WillSend(call', subs', p, iv)
  <2>1. subs' = subs /\ (d # c => call'[c] = call[c])
    BY <1>1, <1>5 DEF Proceed, Record, CopySubs, Rewrite, End, Stamp
  <2>2. CASE d # c
    BY <1>4, <2>1, <2>2
  <2>3. CASE d = c
    <3>1. CopySubs(c)
      BY <1>2, <1>3, <1>5, <2>3 DEF Proceed, Record, Rewrite, Polishing, End, Stamp, Free
    <3>2. p \in call'[c].to /\ call'[c].iv = iv
      BY <1>1, <1>2, <3>1 DEF CopySubs, CallTypes
    <3>3. QED
      BY <2>1, <3>2 DEF WillSend
  <2>4. QED
    BY <2>2, <2>3, <2>1
<1>6. ASSUME NEW d \in Calls, NEW s \in Streams, Send(d, s), s = p => ChanHasRoom(p)
      PROVE  subs' = subs /\ (WillSend(call', subs', p, iv) \/ LastWord(chan'[p], iv))
  <2>1. subs' = subs /\ (d # c => call'[c] = call[c])
    BY <1>1, <1>6 DEF Send
  <2>2. CASE d # c
    BY <1>4, <2>1, <2>2
  <2>3. CASE d = c /\ s # p
    <3>1. call'[c].iv = iv /\ call'[c].at = call[c].at /\ call'[c].to = call[c].to \ {s}
      BY <1>1, <1>2, <1>6, <2>3 DEF Send, CallTypes
    <3>2. QED
      BY <1>2, <2>1, <2>3, <3>1 DEF WillSend
  <2>4. CASE d = c /\ s = p
    <3>1. chan'[p] = Append(chan[p], iv) /\ p \in call[c].to
      BY <1>2, <1>6, <2>4 DEF Send, ServiceInv, ServiceTypeOK
    <3>2. chan[p] \in Seq(Interventions) /\ iv \in Interventions
      BY <1>2, <1>3, <3>1 DEF ServiceInv, ServiceTypeOK, StampsPast
    <3>3. Len(chan[p]) \in Nat /\ DOMAIN chan'[p] = 1..(Len(chan[p]) + 1) /\ chan'[p][Len(chan[p]) + 1] = iv
      BY <3>1, <3>2, AppendProperties, LenProperties
    <3>4. LastWord(chan'[p], iv)
      BY <3>3 DEF LastWord
    <3>5. QED
      BY <2>1, <3>4
  <2>5. QED
    BY <2>2, <2>3, <2>4, <2>1
<1>7. ASSUME NEW s \in Streams \ {p}, Subscribe(s) \/ Unsubscribe(s) \/ Receive(s)
      PROVE  p \in subs' /\ WillSend(call', subs', p, iv)
  <2>1. CASE Subscribe(s) \/ Receive(s)
    BY <1>4, <2>1 DEF Subscribe, Receive
  <2>2. CASE Unsubscribe(s)
    <3>1. /\ call'[c].iv = iv /\ call'[c].at = call[c].at /\ call'[c].to = call[c].to \ {s}
          /\ p \in subs'
      BY <1>1, <1>2, <2>2 DEF Unsubscribe, CallTypes
    <3>2. QED
      BY <1>2, <3>1 DEF WillSend
  <2>3. QED
    BY <1>7, <2>1, <2>2
<1>8. CASE UNCHANGED serviceVars
  BY <1>4, <1>8 DEF serviceVars
<1>9. QED
  BY <1>5, <1>6, <1>7, <1>8 DEF FlowStep

\* Between two frames a channel gets longer by what a call sends, or stays.
LEMMA ChanGrows ==
    ASSUME ServiceInv, NEW p \in Streams, p \in subs, FlowStep(p)
    PROVE  /\ p \in subs'
           /\ \/ chan'[p] = chan[p]
              \/ \E c \in Calls : call[c].at \in {"sending", "resending"} /\ chan'[p] = Append(chan[p], call[c].iv)
<1>1. chan \in [Streams -> Seq(Interventions)]
  BY DEF ServiceInv, ServiceTypeOK
<1>2. ASSUME NEW d \in Calls, Proceed(d) \/ \E alarm \in BOOLEAN : Stamp(d, alarm)
      PROVE  subs' = subs /\ chan' = chan
  BY <1>2 DEF Proceed, Record, CopySubs, Rewrite, End, Stamp
<1>3. ASSUME NEW d \in Calls, NEW s \in Streams, Send(d, s)
      PROVE  /\ subs' = subs
             /\ \/ chan'[p] = chan[p]
                \/ call[d].at \in {"sending", "resending"} /\ chan'[p] = Append(chan[p], call[d].iv)
  <2>1. call[d].at \in {"sending", "resending"}
    BY <1>3 DEF Send, ServiceInv, StampsPast
  <2>2. QED
    BY <1>1, <1>3, <2>1 DEF Send
<1>4. ASSUME NEW s \in Streams \ {p}, Subscribe(s) \/ Unsubscribe(s) \/ Receive(s)
      PROVE  p \in subs' /\ chan'[p] = chan[p]
  BY <1>1, <1>4 DEF Subscribe, Unsubscribe, Receive
<1>5. CASE UNCHANGED serviceVars
  BY <1>5 DEF serviceVars
<1>6. QED
  BY <1>2, <1>3, <1>4, <1>5 DEF FlowStep

\* What joins a channel is as the log has it, so words stay last and quiet.
LEMMA WordsKept ==
    ASSUME ServiceInv, CallsTell, NEW p \in Streams, p \in subs, FlowStep(p), NEW k \in DOMAIN log
    PROVE  /\ LastWord(chan[p], log[k]) => LastWord(chan'[p], log[k])
           /\ Quiet(chan[p], log[k]) => Quiet(chan'[p], log[k])
<1>1. CASE chan'[p] = chan[p]
  BY <1>1
<1>2. ASSUME NEW c \in Calls, call[c].at \in {"sending", "resending"}, chan'[p] = Append(chan[p], call[c].iv)
      PROVE  /\ LastWord(chan[p], log[k]) => LastWord(chan'[p], log[k])
             /\ Quiet(chan[p], log[k]) => Quiet(chan'[p], log[k])
  <2>1. chan[p] \in Seq(Interventions) /\ call[c].iv \in Interventions
    BY <1>2 DEF ServiceInv, ServiceTypeOK, StampsPast
  <2>2. /\ Len(chan[p]) \in Nat /\ DOMAIN chan[p] = 1..Len(chan[p]) /\ DOMAIN chan'[p] = 1..(Len(chan[p]) + 1)
        /\ \A i \in 1..Len(chan[p]) : chan'[p][i] = chan[p][i]
        /\ chan'[p][Len(chan[p]) + 1] = call[c].iv
    BY <1>2, <2>1, AppendProperties, LenProperties
  <2>3. call[c].iv.id = log[k].id => call[c].iv = log[k]
    BY <1>2 DEF CallsTell
  <2>4. \A i \in DOMAIN chan'[p] : chan'[p][i] = call[c].iv \/ (i \in DOMAIN chan[p] /\ chan'[p][i] = chan[p][i])
    BY <2>2
  <2>5. ASSUME Quiet(chan[p], log[k]) PROVE Quiet(chan'[p], log[k])
    BY <2>3, <2>4, <2>5 DEF Quiet
  <2>6. ASSUME LastWord(chan[p], log[k]) PROVE LastWord(chan'[p], log[k])
    <3>1. PICK i \in DOMAIN chan[p] : /\ chan[p][i] = log[k]
                                      /\ \A j \in DOMAIN chan[p] : j > i /\ chan[p][j].id = log[k].id => chan[p][j] = log[k]
      BY <2>6 DEF LastWord
    <3>2. i \in DOMAIN chan'[p] /\ chan'[p][i] = log[k]
      BY <2>2, <3>1
    <3>3. ASSUME NEW j \in DOMAIN chan'[p], j > i, chan'[p][j].id = log[k].id PROVE chan'[p][j] = log[k]
      BY <2>3, <2>4, <3>1, <3>3
    <3>4. QED
      BY <3>2, <3>3 DEF LastWord
  <2>7. QED
    BY <2>5, <2>6
<1>3. QED
  BY <1>1, <1>2, ChanGrows

\* What the page takes out of its channel.
LEMMA WordsHeard ==
    ASSUME NEW frames \in Seq(Interventions), frames # <<>>, NEW iv
    PROVE  /\ LastWord(frames, iv) => LastWord(Tail(frames), iv) \/ (Head(frames) = iv /\ Quiet(Tail(frames), iv))
           /\ Quiet(frames, iv) => Quiet(Tail(frames), iv) /\ (Head(frames).id = iv.id => Head(frames) = iv)
<1>1. /\ Len(frames) \in Nat /\ DOMAIN frames = 1..Len(frames) /\ Len(frames) > 0
      /\ Head(frames) = frames[1]
      /\ DOMAIN Tail(frames) = 1..(Len(frames) - 1)
      /\ \A i \in 1..(Len(frames) - 1) : Tail(frames)[i] = frames[i + 1]
  BY HeadTailProperties, LenProperties, EmptySeq
<1>2. 1 \in DOMAIN frames /\ \A i \in DOMAIN Tail(frames) : i + 1 \in DOMAIN frames /\ i + 1 > 1 /\ Tail(frames)[i] = frames[i + 1]
  BY <1>1
<1>3. ASSUME Quiet(frames, iv) PROVE Quiet(Tail(frames), iv) /\ (Head(frames).id = iv.id => Head(frames) = iv)
  BY <1>1, <1>2, <1>3 DEF Quiet
<1>4. ASSUME LastWord(frames, iv) PROVE LastWord(Tail(frames), iv) \/ (Head(frames) = iv /\ Quiet(Tail(frames), iv))
  <2>1. PICK i \in DOMAIN frames : /\ frames[i] = iv
                                   /\ \A j \in DOMAIN frames : j > i /\ frames[j].id = iv.id => frames[j] = iv
    BY <1>4 DEF LastWord
  <2>2. CASE i = 1
    BY <1>1, <1>2, <2>1, <2>2 DEF Quiet
  <2>3. CASE i # 1
    <3>1. i - 1 \in DOMAIN Tail(frames) /\ Tail(frames)[i - 1] = iv
      BY <1>1, <2>1, <2>3
    <3>2. \A j \in DOMAIN Tail(frames) : j > i - 1 => j + 1 > i
      BY <1>1
    <3>3. \A j \in DOMAIN Tail(frames) : j > i - 1 /\ Tail(frames)[j].id = iv.id => Tail(frames)[j] = iv
      BY <1>2, <2>1, <3>2
    <3>4. QED
      BY <3>1, <3>3 DEF LastWord
  <2>4. QED
    BY <2>2, <2>3
<1>5. QED
  BY <1>3, <1>4

\* The service's steps leave a page covered.
LEMMA CoversFlow ==
    ASSUME ServiceInv, CallsTell, ServiceStep, NEW p \in Streams, p \in subs, FlowStep(p),
           NEW S, NEW T, S \subseteq T, Covers(p, S)
    PROVE  \A k \in DOMAIN log' : \/ WillSend(call', subs', p, log'[k]) \/ LastWord(chan'[p], log'[k])
                                  \/ Quiet(chan'[p], log'[k]) /\ log'[k] \in T
<1> SUFFICES ASSUME NEW k \in DOMAIN log'
             PROVE  \/ WillSend(call', subs', p, log'[k]) \/ LastWord(chan'[p], log'[k])
                    \/ Quiet(chan'[p], log'[k]) /\ log'[k] \in T
  OBVIOUS
<1>1. CASE k \notin DOMAIN log \/ log'[k] # log[k]
  BY <1>1, NewsComes
<1>2. CASE k \in DOMAIN log /\ log'[k] = log[k]
  <2>1. WillSend(call, subs, p, log[k]) \/ LastWord(chan[p], log[k]) \/ (Quiet(chan[p], log[k]) /\ log[k] \in S)
    BY <1>2 DEF Covers, OnItsWay
  <2>2. CASE WillSend(call, subs, p, log[k])
    BY <1>2, <2>2, WillSendKept
  <2>3. CASE LastWord(chan[p], log[k]) \/ (Quiet(chan[p], log[k]) /\ log[k] \in S)
    BY <1>2, <2>3, WordsKept
  <2>4. QED
    BY <2>1, <2>2, <2>3
<1>3. QED
  BY <1>1, <1>2

\* A frame moves what it has from the channel to the list.
LEMMA CoversFrame ==
    ASSUME ServiceInv, PageTypes, NEW p \in Pages, Frame(p), NEW S, NEW T, Covers(p, S),
           Head(chan[p]) \in T, \A iv \in S : iv.id # Head(chan[p]).id => iv \in T
    PROVE  \A k \in DOMAIN log' : \/ WillSend(call', subs', p, log'[k]) \/ LastWord(chan'[p], log'[k])
                                  \/ Quiet(chan'[p], log'[k]) /\ log'[k] \in T
<1>1. chan[p] # <<>> /\ chan'[p] = Tail(chan[p]) /\ UNCHANGED <<log, call, subs>> /\ chan[p] \in Seq(Interventions)
  BY PageFacts DEF Frame, Receive, ServiceInv, ServiceTypeOK, Pages
<1> SUFFICES ASSUME NEW k \in DOMAIN log
             PROVE  \/ WillSend(call, subs, p, log[k]) \/ LastWord(Tail(chan[p]), log[k])
                    \/ Quiet(Tail(chan[p]), log[k]) /\ log[k] \in T
  BY <1>1
<1>2. WillSend(call, subs, p, log[k]) \/ LastWord(chan[p], log[k]) \/ (Quiet(chan[p], log[k]) /\ log[k] \in S)
  BY DEF Covers, OnItsWay
<1>3. CASE LastWord(chan[p], log[k])
  BY <1>1, <1>3, WordsHeard
<1>4. CASE Quiet(chan[p], log[k]) /\ log[k] \in S
  BY <1>1, <1>4, WordsHeard
<1>5. QED
  BY <1>2, <1>3, <1>4

\* A page forgets nothing it has seen unless its connection breaks: what a list
\* takes off the page is undone, and a frame takes the place of its own entry alone.
LEMMA SeenEffect ==
    ASSUME ServiceInv, PageTypes, [Next]_vars, NEW p \in Pages, ~Lost(p)
    PROVE  /\ ~Frame(p) => Seen(p) \subseteq Seen(p)'
           /\ Frame(p) => /\ Head(chan[p]) \in Seen(p)'
                          /\ \A iv \in Seen(p) : iv.id # Head(chan[p]).id => iv \in Seen(p)'
<1>1. undone \in [Pages -> SUBSET Interventions] /\ shown \in [Pages -> Seq(Interventions)]
  BY DEF PageTypes
<1>2. CASE undone'[p] = undone[p] /\ shown'[p] = shown[p] /\ ~Frame(p)
  BY <1>2 DEF Seen
<1>3. CASE Frame(p)
  <2>1. /\ shown'[p] = Merged(shown[p], Head(chan[p]))
        /\ undone'[p] = undone[p] \ {Head(chan[p])}
        /\ Head(chan[p]) \in Interventions /\ shown[p] \in Seq(Interventions)
    BY <1>1, <1>3, PageFacts DEF Frame, Receive
  <2>2. /\ Has(shown'[p], Head(chan[p]))
        /\ \A j \in DOMAIN shown[p] : shown[p][j].id # Head(chan[p]).id => Has(shown'[p], shown[p][j])
    BY <2>1, MergedFacts
  <2>3. /\ Head(chan[p]) \in Entries(shown'[p])
        /\ \A iv \in Entries(shown[p]) : iv.id # Head(chan[p]).id => iv \in Entries(shown'[p])
    BY <2>2 DEF Has, Entries
  <2>4. QED
    BY <1>3, <2>1, <2>3 DEF Seen
<1>4. CASE PostDone(p)
  <2>1. /\ shown'[p] = <<Posted(post[p])>> \o shown[p] /\ post[p] # 0
        /\ undone'[p] = undone[p] \ {Posted(post[p])}
    BY <1>1, <1>4 DEF PostDone
  <2>2. post[p] \in Ids
    BY <2>1, ServiceAssumption DEF PageTypes, Ids
  <2>3. shown[p] \in Seq(Interventions) /\ Posted(post[p]) \in Interventions
    BY <2>2, PageFacts DEF Posted, Interventions
  <2>4. /\ Has(shown'[p], Posted(post[p]))
        /\ \A j \in DOMAIN shown[p] : Has(shown'[p], shown[p][j])
    BY <2>1, <2>3, OnTopFacts
  <2>5. Posted(post[p]) \in Entries(shown'[p]) /\ Entries(shown[p]) \subseteq Entries(shown'[p])
    BY <2>4 DEF Has, Entries
  <2>6. Seen(p) \subseteq Seen(p)'
    BY <2>1, <2>5 DEF Seen
  <2>7. QED
    BY <1>3, <2>6
<1>5. ASSUME NEW k \in DOMAIN gets[p], Arrive(p, k) PROVE Seen(p) \subseteq Seen(p)'
  BY <1>1, <1>5 DEF Arrive, Seen
<1>6. \/ undone'[p] = undone[p] /\ shown'[p] = shown[p]
      \/ Frame(p) \/ PostDone(p) \/ \E k \in DOMAIN gets[p] : Arrive(p, k)
  <2>1. ASSUME NEW c \in Calls, Serve(c) PROVE undone' = undone
    BY <2>1 DEF Serve, pageVars
  <2>2. ASSUME NEW c \in Calls, NEW q \in Pages, FanOut(c, q) \/ Post(q, c) PROVE undone' = undone
    BY <2>2 DEF FanOut, Post
  <2>3. ASSUME NEW q \in Pages, Page(q)
        PROVE  \/ undone' = undone
               \/ Frame(q) \/ PostDone(q) \/ Lost(q) \/ \E k \in DOMAIN gets[q] : Arrive(q, k)
    BY <2>3 DEF Page, Connect, Join, Opened, Answer, pageVars
  <2>4. ASSUME NEW q \in Pages, q # p,
               Frame(q) \/ PostDone(q) \/ Lost(q) \/ (\E k \in DOMAIN gets[q] : Arrive(q, k))
        PROVE  undone'[p] = undone[p]
    BY <1>1, <2>4 DEF Frame, PostDone, Lost, Arrive
  <2>5. CASE UNCHANGED vars
    BY <2>5 DEF vars, pageVars
  <2>6. \/ undone'[p] = undone[p]
        \/ Frame(p) \/ PostDone(p) \/ \E k \in DOMAIN gets[p] : Arrive(p, k)
    BY <2>1, <2>2, <2>3, <2>4, <2>5 DEF Next
  <2>7. QED
    BY <2>6, ShownEffect
<1>7. QED
  BY <1>2, <1>3, <1>4, <1>5, <1>6

\* The three conjuncts of Flow, by how the page's list came about.
LEMMA FlowNext ==
    ASSUME ServiceInv, LogDistinct, PageTypes, Subscribed, CallsTell, Flow, ServiceInv', Subscribed', [Next]_vars
    PROVE  Flow'
<1>1. ServiceStep
  BY StepsOfService
<1> SUFFICES ASSUME NEW p \in Pages, lossless'[p]
             PROVE  /\ p \in subs' => Covers(p, Interventions)'
                    /\ sound'[p] => Covers(p, Seen(p))'
                    /\ \A k \in DOMAIN gets'[p] : gets'[p][k].live => Covers(p, Entries(gets[p][k].list) \cup Seen(p))'
  BY DEF Flow
<1> DEFINE CoversNow(T) == \A k \in DOMAIN log' : \/ WillSend(call', subs', p, log'[k]) \/ LastWord(chan'[p], log'[k])
                                                  \/ Quiet(chan'[p], log'[k]) /\ log'[k] \in T
<1>2. p \in Streams /\ chan \in [Streams -> Seq(Interventions)] /\ \A k \in DOMAIN log : log[k] \in Interventions
  BY ElementOfSeq DEF Pages, ServiceInv, ServiceTypeOK
<1>3. p \in subs /\ ~Lost(p) => lossless[p] /\ (FlowStep(p) \/ Frame(p))
  BY FlowOrFrame
<1>4. ASSUME p \in subs, FlowStep(p), NEW S, NEW T, S \subseteq T, Covers(p, S) PROVE CoversNow(T)
  BY <1>1, <1>2, <1>4, CoversFlow
<1>5. ASSUME Frame(p), NEW S, NEW T, Covers(p, S), Head(chan[p]) \in T,
             \A iv \in S : iv.id # Head(chan[p]).id => iv \in T
      PROVE  CoversNow(T)
  BY <1>5, CoversFrame
<1>6. ASSUME p \in subs' PROVE CoversNow(Interventions)
  <2>1. CASE p \in subs
    <3>1. ~Lost(p)
      BY <1>6 DEF Lost, Unsubscribe
    <3>2. Covers(p, Interventions)
      BY <1>3, <2>1, <3>1 DEF Flow
    <3>3. CASE FlowStep(p)
      BY <1>4, <2>1, <3>2, <3>3
    <3>4. CASE Frame(p)
      <4>1. Head(chan[p]) \in Interventions
        BY <3>4, PageFacts DEF Frame, Receive
      <4>2. QED
        BY <1>5, <3>2, <3>4, <4>1
    <3>5. QED
      BY <1>3, <2>1, <3>1, <3>3, <3>4
  <2>2. CASE p \notin subs
    <3>1. Subscribe(p)
      BY <1>1, <1>6, <2>2 DEF ServiceStep, Proceed, Record, CopySubs, Rewrite, End, Stamp, Send, Subscribe, Unsubscribe, Receive, serviceVars
    <3>2. chan'[p] = <<>> /\ log' = log
      BY <1>2, <3>1 DEF Subscribe
    <3>3. \A iv : Quiet(chan'[p], iv)
      BY <3>2, EmptySeq DEF Quiet
    <3>4. QED
      BY <1>2, <3>2, <3>3
  <2>3. QED
    BY <2>1, <2>2
<1>7. ASSUME sound'[p] PROVE CoversNow(Seen(p)')
  <2>1. ~Lost(p)
    BY <1>7 DEF Lost, PageTypes
  <2>2. CASE sound'[p] = sound[p]
    <3>1. p \in subs
      BY <1>7, <2>2 DEF Subscribed
    <3>2. Covers(p, Seen(p))
      BY <1>3, <1>7, <2>1, <2>2, <3>1 DEF Flow
    <3>3. CASE Frame(p)
      BY <1>5, <2>1, <3>2, <3>3, SeenEffect
    <3>4. CASE FlowStep(p) /\ ~Frame(p)
      BY <1>4, <2>1, <3>1, <3>2, <3>4, SeenEffect
    <3>5. QED
      BY <1>3, <2>1, <3>1, <3>3, <3>4
  <2>3. ASSUME NEW k \in DOMAIN gets[p], Arrive(p, k) PROVE CoversNow(Seen(p)')
    <3>1. gets[p][k].live /\ UNCHANGED <<serviceVars, lossless>>
      BY <1>7, <2>3 DEF Arrive, PageTypes
    <3>2. p \in subs /\ FlowStep(p)
      BY <3>1 DEF Subscribed, FlowStep
    <3>3. Covers(p, Entries(gets[p][k].list) \cup Seen(p))
      BY <3>1 DEF Flow
    <3>4. Entries(gets[p][k].list) \cup Seen(p) \subseteq Seen(p)'
      BY <2>3 DEF Arrive, PageTypes, Seen
    <3>5. QED
      BY <1>4, <3>2, <3>3, <3>4
  <2>4. QED
    BY <2>1, <2>2, <2>3, SoundEffect
<1>8. ASSUME NEW k \in DOMAIN gets'[p], gets'[p][k].live
      PROVE  CoversNow(Entries(gets'[p][k].list) \cup Seen(p)')
  <2>1. CASE Answer(p, k) /\ p \in subs /\ k \in DOMAIN gets[p] /\ gets'[p][k].list = List
    <3>1. UNCHANGED <<log, call, subs, chan, lossless>>
      BY <2>1 DEF Answer, serviceVars
    <3>2. Covers(p, Interventions)
      BY <2>1, <3>1 DEF Flow
    <3>3. \A j \in DOMAIN log : log[j] \in Entries(List)
      BY ListFacts DEF Entries
    <3>4. QED
      BY <2>1, <3>1, <3>2, <3>3 DEF Covers, OnItsWay
  <2>2. CASE k \in DOMAIN gets[p] /\ gets[p][k].live /\ gets'[p][k].list = gets[p][k].list /\ ~Lost(p)
    <3>1. p \in subs
      BY <2>2 DEF Subscribed
    <3>2. PICK S : S = Entries(gets[p][k].list) \cup Seen(p)
      OBVIOUS
    <3>3. PICK T : T = Entries(gets'[p][k].list) \cup Seen(p)'
      OBVIOUS
    <3>4. Covers(p, S)
      BY <1>3, <2>2, <3>1, <3>2 DEF Flow
    <3>5. CASE Frame(p)
      <4>1. Head(chan[p]) \in T /\ \A iv \in S : iv.id # Head(chan[p]).id => iv \in T
        BY <2>2, <3>2, <3>3, <3>5, SeenEffect
      <4>2. QED
        BY <1>5, <3>3, <3>4, <3>5, <4>1
    <3>6. CASE FlowStep(p) /\ ~Frame(p)
      <4>1. S \subseteq T
        BY <2>2, <3>2, <3>3, <3>6, SeenEffect
      <4>2. QED
        BY <1>4, <3>1, <3>3, <3>4, <3>6, <4>1
    <3>7. QED
      BY <1>3, <2>2, <3>1, <3>5, <3>6
  <2>3. QED
    BY <1>8, <2>1, <2>2, LiveEffect
<1>9. QED
  BY <1>6, <1>7, <1>8 DEF Covers, OnItsWay

-----------------------------------------------------------------------------
(* The invariant of the pages and what follows from it. *)

\* All of it.
PagesInv ==
    /\ ServiceInv /\ LogDistinct /\ PageTypes
    /\ Told /\ Copies /\ Subscribed /\ CallsTell /\ Flow

\* At the start nothing has happened and each page has sent its first GET.
LEMMA PagesInvInit == Init => PagesInv
<1> SUFFICES ASSUME Init PROVE PagesInv
  OBVIOUS
<1>1. ServiceInv
  BY ServiceInvInit
<1>2. /\ log = <<>> /\ applied = 0 /\ subs = {} /\ call = [c \in Calls |-> Idle] /\ chan = [s \in Streams |-> <<>>]
      /\ shown = [p \in Pages |-> <<>>] /\ link = [p \in Pages |-> "down"] /\ gets = [p \in Pages |-> <<NewGet>>]
      /\ post = [p \in Pages |-> 0] /\ own = [p \in Pages |-> {}]
      /\ sound = [p \in Pages |-> FALSE] /\ lossless = [p \in Pages |-> TRUE] /\ undone = [p \in Pages |-> {}]
  BY DEF Init, ServiceInit
<1>3. <<>> \in Seq(Interventions) /\ DOMAIN <<>> = {}
  BY EmptySeq
<1>4. LogDistinct
  BY <1>2, <1>3 DEF LogDistinct
<1>5. NewGet \in Gets /\ NewGet.list = <<>> /\ NewGet.live = FALSE
  BY <1>3 DEF NewGet, Gets
<1>6. <<NewGet>> \in Seq(Gets) /\ Len(<<NewGet>>) = 1 /\ \A k \in DOMAIN <<NewGet>> : <<NewGet>>[k] = NewGet
  BY <1>5
<1>7. PageTypes
  <2>1. gets \in [Pages -> Seq(Gets)] /\ \A p \in Pages : Len(gets[p]) <= MaxGets
    BY <1>2, <1>6, PagesAssumption
  <2>2. post \in [Pages -> 0..MaxApplied] /\ own \in [Pages -> SUBSET Ids]
    BY <1>2, ServiceAssumption
  <2>3. shown \in [Pages -> Seq(Interventions)] /\ link \in [Pages -> {"down", "up", "open"}]
        /\ \A p \in Pages : link[p] # "up"
    BY <1>2, <1>3
  <2>4. sound \in [Pages -> BOOLEAN] /\ lossless \in [Pages -> BOOLEAN] /\ undone \in [Pages -> SUBSET Interventions]
    BY <1>2
  <2>5. QED
    BY <2>1, <2>2, <2>3, <2>4 DEF PageTypes
<1>8. \A p \in Pages : \A k \in DOMAIN gets[p] : gets[p][k].list = <<>> /\ gets[p][k].live = FALSE
  BY <1>2, <1>5, <1>6
<1>9. \A c \in Calls : call[c].at = "idle" /\ call[c].to = {}
  BY <1>2 DEF Idle
<1>10. Told
  BY <1>2, <1>3, <1>8, <1>9 DEF Told, Pages
<1>11. Copies
  BY <1>2, <1>3, <1>8 DEF Copies, Once, Twice
<1>12. Subscribed
  BY <1>2, <1>8, <1>9 DEF Subscribed
<1>13. CallsTell
  BY <1>2, <1>3 DEF CallsTell
<1>14. Flow
  BY <1>2, <1>3 DEF Flow, Covers
<1>15. QED
  BY <1>1, <1>4, <1>7, <1>10, <1>11, <1>12, <1>13, <1>14 DEF PagesInv

\* The lemma of each part.
LEMMA PagesInvNext == PagesInv /\ [Next]_vars => PagesInv'
<1> SUFFICES ASSUME PagesInv, [Next]_vars PROVE PagesInv'
  OBVIOUS
<1> USE DEF PagesInv
<1>1. ServiceStep
  BY StepsOfService
<1>2. ServiceInv'
  BY <1>1, ServiceInvNext
<1>3. LogDistinct'
  BY <1>1, <1>2, TrailStep, LogDistinctNext
<1>4. PageTypes'
  BY <1>2, PageTypesNext
<1>5. Told'
  BY <1>2, ToldNext
<1>6. Copies'
  BY <1>2, CopiesNext
<1>7. Subscribed'
  BY SubscribedNext
<1>8. CallsTell'
  BY <1>1, <1>2, CallsTellNext
<1>9. Flow'
  BY <1>2, <1>7, FlowNext
<1>10. QED
  BY <1>2, <1>3, <1>4, <1>5, <1>6, <1>7, <1>8, <1>9

\* Of the lines of a list, those that do not fit are as many as "+n older" says, so
\* they have no more ids than that.
LEMMA OlderCounts ==
    ASSUME ServiceInv, PageTypes, NEW p \in Pages, NEW S, \A id \in S : \E k \in DOMAIN shown[p] : shown[p][k].id = id
    PROVE  Cardinality(S \ Visible(p)) <= Older(p)
<1>1. Len(shown[p]) \in Nat /\ DOMAIN shown[p] = 1..Len(shown[p]) /\ MaxLogLines \in Nat
  BY PageFacts, LenProperties, PagesAssumption
<1>2. CASE Len(shown[p]) <= MaxLogLines
  <2>1. Visible(p) = {shown[p][k].id : k \in 1..Len(shown[p])} /\ Older(p) = 0
    BY <1>1, <1>2 DEF Visible, Older
  <2>2. S \ Visible(p) = {}
    BY <1>1, <2>1
  <2>3. Cardinality(S \ Visible(p)) = Cardinality({})
    BY <2>2
  <2>4. QED
    BY <2>1, <2>3, FS_EmptySet
<1>3. CASE Len(shown[p]) > MaxLogLines
  <2>1. PICK n \in Nat : n = Len(shown[p]) - MaxLogLines
    BY <1>1, <1>3
  <2>2. Visible(p) = {shown[p][k].id : k \in 1..MaxLogLines} /\ Older(p) = n
    BY <1>1, <1>3, <2>1 DEF Visible, Older
  <2>3. PICK line : line = [i \in 1..n |-> shown[p][MaxLogLines + i].id]
    OBVIOUS
  <2>4. PICK X : X = {line[i] : i \in 1..n}
    OBVIOUS
  <2>5. S \ Visible(p) \in SUBSET X
    <3>1. SUFFICES ASSUME NEW id \in S, id \notin Visible(p) PROVE id \in X
      OBVIOUS
    <3>2. PICK k \in DOMAIN shown[p] : shown[p][k].id = id
      OBVIOUS
    <3>3. k \notin 1..MaxLogLines
      BY <2>2, <3>1, <3>2
    <3>4. PICK i \in 1..n : k = MaxLogLines + i
      <4>1. k - MaxLogLines \in 1..n
        BY <1>1, <2>1, <3>2, <3>3
      <4>2. k = MaxLogLines + (k - MaxLogLines)
        BY <1>1, <3>2
      <4>3. QED
        BY <4>1, <4>2
    <3>5. QED
      BY <2>3, <2>4, <3>2, <3>4
  <2>6. line \in Surjection(1..n, X)
    BY <2>3, <2>4 DEF Surjection
  <2>7. IsFiniteSet(1..n) /\ Cardinality(1..n) = n
    BY FS_Interval
  <2>8. IsFiniteSet(X) /\ Cardinality(X) <= n /\ Cardinality(X) \in Nat
    BY <2>6, <2>7, FS_Surjection, FS_CardinalityType
  <2>9. Cardinality(S \ Visible(p)) <= Cardinality(X) /\ Cardinality(S \ Visible(p)) \in Nat
    BY <2>5, <2>8, FS_Subset, FS_CardinalityType
  <2>10. QED
    BY <2>2, <2>8, <2>9
<1>4. QED
  BY <1>1, <1>2, <1>3

\* A settled page has nothing on its way, so Flow says that it has seen the log.
LEMMA LogShown == PagesInv => OnlyUndoneIsMissing
<1> SUFFICES ASSUME PagesInv, NEW p \in Pages, sound[p], lossless[p], Settled(p),
                    NEW Kept, Kept = {k \in DOMAIN log : log[k] \notin undone[p]}
             PROVE  /\ \A k \in Kept : log[k] \in Entries(shown[p])
                    /\ {shown[p][j].id : j \in DOMAIN shown[p]} \subseteq {log[k].id : k \in DOMAIN log}
                    /\ Cardinality({log[k].id : k \in Kept} \ Visible(p)) <= Older(p)
                    /\ SystemNormal(p) => \A k \in Kept : ~log[k].alarm
                    /\ ~SystemNormal(p) => \E k \in DOMAIN log :
                          /\ log[k].alarm /\ log[k].id = Broadcast(p).id
                          /\ \/ Broadcast(p).message = log[k].message
                             \/ log[k].id \in own[p] \/ k \notin Kept
  BY DEF OnlyUndoneIsMissing
<1> USE DEF PagesInv
<1>1. /\ shown[p] \in Seq(Interventions) /\ Len(shown[p]) \in Nat /\ DOMAIN shown[p] = 1..Len(shown[p])
      /\ \A j \in DOMAIN shown[p] : shown[p][j] \in Interventions
  BY PageFacts, LenProperties, ElementOfSeq
<1>2. \A k \in Kept : log[k] \in Entries(shown[p])
  <2>1. Covers(p, Seen(p))
    BY DEF Flow
  <2>2. \A iv : ~WillSend(call, subs, p, iv)
    BY DEF Settled, Idle, WillSend
  <2>3. \A iv : ~LastWord(chan[p], iv)
    BY EmptySeq DEF Settled, LastWord
  <2>4. QED
    BY <2>1, <2>2, <2>3 DEF Covers, OnItsWay, Seen
<1>3. \A j \in DOMAIN shown[p] : \E k \in DOMAIN log : log[k].id = shown[p][j].id /\ log[k].alarm = shown[p][j].alarm
  BY DEF Told, Tells
<1>4. Cardinality({log[k].id : k \in Kept} \ Visible(p)) <= Older(p)
  <2>1. \A id \in {log[k].id : k \in Kept} : \E j \in DOMAIN shown[p] : shown[p][j].id = id
    BY <1>2 DEF Entries
  <2>2. QED
    BY <2>1, OlderCounts
<1>5. SystemNormal(p) => \A k \in Kept : ~log[k].alarm
  BY <1>2 DEF SystemNormal, Alarms, Entries
<1>6. ASSUME ~SystemNormal(p)
      PROVE  \E k \in DOMAIN log : /\ log[k].alarm /\ log[k].id = Broadcast(p).id
                                   /\ \/ Broadcast(p).message = log[k].message
                                      \/ log[k].id \in own[p] \/ k \notin Kept
  <2>1. Alarms(p) \in SUBSET Nat /\ Alarms(p) # {}
    BY <1>1, <1>6 DEF SystemNormal, Alarms
  <2>2. \E k \in Alarms(p) : \A j \in Alarms(p) : k <= j
    BY <2>1, Least
  <2>3. PICK m \in Alarms(p) : Broadcast(p) = shown[p][m]
    BY <2>2 DEF Broadcast
  <2>4. m \in DOMAIN shown[p] /\ shown[p][m].alarm
    BY DEF Alarms
  <2>5. PICK k \in DOMAIN log : log[k].id = shown[p][m].id /\ log[k].alarm = shown[p][m].alarm
    BY <1>3, <2>4
  <2>6. CASE log[k].id \in own[p] \/ k \notin Kept
    BY <2>3, <2>4, <2>5, <2>6
\* Otherwise the entry is on the page, and it is there once.
  <2>7. CASE log[k].id \notin own[p] /\ k \in Kept
    <3>1. PICK j \in DOMAIN shown[p] : shown[p][j] = log[k]
      BY <1>2, <2>7 DEF Entries
    <3>2. Once(shown[p], log[k].id)
      BY <1>1, <3>1, <2>7 DEF Copies, Interventions
    <3>3. m = j
      BY <2>4, <2>5, <3>1, <3>2 DEF Once
    <3>4. QED
      BY <2>3, <2>4, <2>5, <3>1, <3>3
  <2>8. QED
    BY <2>6, <2>7
<1>7. {shown[p][j].id : j \in DOMAIN shown[p]} \subseteq {log[k].id : k \in DOMAIN log}
  BY <1>3
<1>8. QED
  BY <1>2, <1>4, <1>5, <1>6, <1>7

\* The pages and the service stay within their types: in particular a page's
\* list holds interventions and nothing else, whichever of fetches, frames and
\* answers fill it.
THEOREM PagesTypesHold == Spec => []TypeOK
<1>1. PagesInv => TypeOK
  <2>1. ASSUME PagesInv PROVE {sound, lossless} \subseteq [Pages -> BOOLEAN]
    BY <2>1 DEF PagesInv, PageTypes
  <2>2. QED
    BY <2>1 DEF PagesInv, ServiceInv, PageTypes, TypeOK, Gets
<1>2. QED
  BY <1>1, PagesInvInit, PagesInvNext, PTL DEF Spec

\* What a page shows has happened: each entry on a screen, whether it came by a
\* fetch, a frame or the answer to a POST, is in the audit log, and no message is on
\* a screen before it is in the log.
THEOREM NothingIsInvented == Spec => []NothingInvented
<1>1. PagesInv => NothingInvented
  BY DEF PagesInv, Told, Tells, NothingInvented
<1>2. QED
  BY <1>1, PagesInvInit, PagesInvNext, PTL DEF Spec

\* A page shows an intervention once, its own override twice at most, however the
\* answers of fetchInterventions, the frames and the answer of applyIntervention
\* overlap.
THEOREM ShownOnceHolds == Spec => []ShownOnce
<1>1. PagesInv => ShownOnce
  BY CopiesCounted DEF PagesInv
<1>2. QED
  BY <1>1, PagesInvInit, PagesInvNext, PTL DEF Spec

\* Once things have settled, a page whose list was made up while its stream was
\* subscribed, and whose stream dropped nothing, shows the audit log with its final
\* messages, save for what it did show and an older answer of fetchInterventions,
\* arriving later, took back; and so for what the sign tells.
THEOREM OnlyUndoneIsMissingHolds == Spec => []OnlyUndoneIsMissing
<1>1. PagesInv => OnlyUndoneIsMissing
  BY LogShown
<1>2. QED
  BY <1>1, PagesInvInit, PagesInvNext, PTL DEF Spec
=============================================================================
