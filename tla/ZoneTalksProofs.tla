-------------------------- MODULE ZoneTalksProofs --------------------------
(***************************************************************************)
(* Theorems about the talks of ZoneNetwork: nobody is rerouted unannounced, *)
(* no offer is lost or answered twice, the audit log tells what happened,   *)
(* and the steps of the network are those of LoadShedding. Types come from  *)
(* ZoneNetworkProofs.                                                       *)
(***************************************************************************)
EXTENDS ZoneNetworkProofs

-----------------------------------------------------------------------------
(* People are rerouted only towards a zone whose signage absorbs them. The  *)
(* invariant follows the evidence along the handshake: an agent that is     *)
(* about to accept has changed its signage, so has the zone behind every    *)
(* accepting reply and answer, and only an accepting answer is followed by  *)
(* a reroute.                                                               *)

Absorbed(i) == \E k \in DOMAIN log : Absorbs(k, i)

Addressed ==
    \A z \in Zones :
        /\ \A q \in DOMAIN negotiation[z] : talks[negotiation[z][q]].to = z
        /\ pc[z] = "reply" => talks[answering[z].talk].to = z

AcceptanceShown ==
    /\ \A z \in Zones :
          pc[z] = "reply" /\ answering[z].accept => Absorbed(answering[z].talk)
    /\ \A i \in DOMAIN talks :
          talks[i].reply = "accepted" \/ talks[i].answer = "accepted" => Absorbed(i)

RerouteAccepted ==
    \A i \in DOMAIN talks :
        /\ talks[i].stage \in {"sending", "waiting", "answered"} => talks[i].action = "none"
        /\ talks[i].action = "SIGNAGE_REROUTE" => talks[i].answer = "accepted"

LogIsAboutTalks == \A k \in DOMAIN log : log[k].about <= Len(talks)

SignageInv ==
    /\ TypeInv
    /\ Addressed
    /\ AcceptanceShown
    /\ RerouteAccepted
    /\ LogIsAboutTalks
    /\ SignedBeforeRerouted

\* An agent that answers no new offer.
AnswersNothingNew ==
    \A z \in Zones : pc'[z] = "reply" => pc[z] = "reply" /\ answering'[z] = answering[z]

\* The offers in channels and in hands are talks that have been started.
LEMMA OffersAreTalks ==
    ASSUME TypeInv
    PROVE  /\ \A y \in Zones : \A q \in DOMAIN negotiation[y] : negotiation[y][q] \in DOMAIN talks
           /\ \A y \in Zones : pc[y] = "reply" => answering[y].talk \in DOMAIN talks
<1>1. negotiation \in [Zones -> Seq(DOMAIN talks)]
  BY DEF TypeInv, TypeOK
<1>2. ASSUME NEW y \in Zones, NEW q \in DOMAIN negotiation[y]
      PROVE  negotiation[y][q] \in DOMAIN talks
  <2>1. negotiation[y] \in Seq(DOMAIN talks)
    BY <1>1
  <2> QED
    BY ONLY <1>2, <2>1
<1>3. \A y \in Zones : pc[y] = "reply" => answering[y].talk \in DOMAIN talks
  BY DEF TypeInv, TypeOK
<1> QED
  BY <1>2, <1>3

\* Steps that touch neither talks nor the log.
LEMMA SignageQuiet ==
    ASSUME SignageInv, TypeInv', UNCHANGED <<talks, log, negotiation>>, AnswersNothingNew
    PROVE  SignageInv'
BY DEF SignageInv, Addressed, AcceptanceShown, RerouteAccepted, LogIsAboutTalks,
       SignedBeforeRerouted, Absorbed, Absorbs, Reroutes, AnswersNothingNew

\* Steps that change one talk and keep what it says about its acceptance.
LEMMA SignageTalk ==
    ASSUME SignageInv, TypeInv', AnswersNothingNew,
           NEW i \in DOMAIN talks, NEW t \in Talk,
           talks' = [talks EXCEPT ![i] = t], UNCHANGED log,
           t.from = talks[i].from, t.to = talks[i].to,
           t.reply = "accepted" \/ t.answer = "accepted" => Absorbed(i),
           t.stage \in {"sending", "waiting", "answered"} => t.action = "none",
           t.action = "SIGNAGE_REROUTE" => t.answer = "accepted",
           \/ UNCHANGED negotiation
           \/ negotiation' = [negotiation EXCEPT ![t.to] = Append(@, i)]
    PROVE  SignageInv'
<1>1. /\ DOMAIN talks' = DOMAIN talks /\ Len(talks') = Len(talks)
      /\ \A j \in DOMAIN talks : /\ talks'[j] = IF j = i THEN t ELSE talks[j]
                                 /\ talks'[j].from = talks[j].from
                                 /\ talks'[j].to = talks[j].to
  BY DEF SignageInv, TypeInv, TypeOK
<1>2. /\ \A j \in DOMAIN talks, k \in DOMAIN log : (Absorbs(k, j)' <=> Absorbs(k, j))
                                                  /\ (Reroutes(k, j)' <=> Reroutes(k, j))
      /\ \A j \in DOMAIN talks : Absorbed(j)' <=> Absorbed(j)
  BY <1>1 DEF Absorbs, Reroutes, Absorbed
<1>3. Addressed'
  <2> SUFFICES ASSUME NEW z \in Zones
               PROVE  /\ \A q \in DOMAIN negotiation'[z] : talks'[negotiation'[z][q]].to = z
                      /\ pc'[z] = "reply" => talks'[answering'[z].talk].to = z
    BY DEF Addressed
  <2>1. pc'[z] = "reply" => talks'[answering'[z].talk].to = z
    BY <1>1 DEF SignageInv, Addressed, AnswersNothingNew, TypeInv, TypeOK
  <2>2. ASSUME NEW q \in DOMAIN negotiation'[z] PROVE talks'[negotiation'[z][q]].to = z
    <3>1. CASE q \in DOMAIN negotiation[z] /\ negotiation'[z][q] = negotiation[z][q]
      <4>1. negotiation[z][q] \in DOMAIN talks
        BY <3>1 DEF SignageInv, TypeInv, TypeOK
      <4> QED
        BY <1>1, <3>1, <4>1 DEF SignageInv, Addressed
    <3>2. CASE ~(q \in DOMAIN negotiation[z] /\ negotiation'[z][q] = negotiation[z][q])
      <4>1. CASE UNCHANGED negotiation
        BY <2>2, <3>2, <4>1
      <4>2. CASE negotiation' = [negotiation EXCEPT ![t.to] = Append(@, i)]
        <5>1. negotiation \in [Zones -> Seq(DOMAIN talks)]
          BY DEF SignageInv, TypeInv, TypeOK
        <5>2. z = t.to
          BY <2>2, <3>2, <4>2, <5>1
        <5>3. negotiation'[z] = Append(negotiation[z], i)
          BY <4>2, <5>1, <5>2
        <5>4. q = Len(negotiation[z]) + 1
          BY <2>2, <3>2, <5>1, <5>3
        <5>5. negotiation'[z][q] = i
          BY <5>1, <5>3, <5>4
        <5> QED
          BY <1>1, <5>2, <5>5
      <4> QED
        BY <4>1, <4>2
    <3> QED
      BY <3>1, <3>2
  <2> QED
    BY <2>1, <2>2
<1>4. AcceptanceShown'
  BY <1>1, <1>2 DEF SignageInv, AcceptanceShown, AnswersNothingNew, TypeInv, TypeOK
<1>5. RerouteAccepted'
  BY <1>1 DEF SignageInv, RerouteAccepted
<1>6. LogIsAboutTalks'
  BY <1>1 DEF SignageInv, LogIsAboutTalks
<1>7. SignedBeforeRerouted'
  BY <1>1, <1>2 DEF SignageInv, SignedBeforeRerouted, Absorbs, Reroutes
<1> QED
  BY <1>3, <1>4, <1>5, <1>6, <1>7 DEF SignageInv

\* What a new entry of the audit log leaves as it was.
LEMMA EntryAppended ==
    ASSUME SignageInv, NEW e \in Intervention, log' = Append(log, e),
           DOMAIN talks \subseteq DOMAIN talks',
           \A i \in DOMAIN talks : talks'[i].from = talks[i].from /\ talks'[i].to = talks[i].to
    PROVE  /\ Len(log) \in Nat /\ DOMAIN log = 1..Len(log)
           /\ DOMAIN log' = 1..(Len(log) + 1) /\ log'[Len(log) + 1] = e
           /\ \A k \in DOMAIN log : log'[k] = log[k]
           /\ \A i \in DOMAIN talks, k \in DOMAIN log :
                 (Absorbs(k, i)' <=> Absorbs(k, i)) /\ (Reroutes(k, i)' <=> Reroutes(k, i))
           /\ \A i \in DOMAIN talks : Absorbed(i) => Absorbed(i)'
<1>1. /\ Len(log) \in Nat /\ DOMAIN log = 1..Len(log)
      /\ DOMAIN log' = 1..(Len(log) + 1) /\ log'[Len(log) + 1] = e
      /\ \A k \in DOMAIN log : log'[k] = log[k]
  BY DEF SignageInv, TypeInv, TypeOK
<1>2. \A i \in DOMAIN talks, k \in DOMAIN log :
         (Absorbs(k, i)' <=> Absorbs(k, i)) /\ (Reroutes(k, i)' <=> Reroutes(k, i))
  BY <1>1 DEF Absorbs, Reroutes
<1> QED
  BY <1>1, <1>2 DEF Absorbed

\* Starting a talk, or dispatching staff when there is no neighbour.
LEMMA SignageShed ==
    ASSUME SignageInv, TypeInv', NEW z \in Zones, ShedLoad(z) PROVE SignageInv'
<1>1. AnswersNothingNew /\ UNCHANGED <<negotiation, answering>>
      /\ \A y \in Zones : pc'[y] = "reply" => pc[y] = "reply"
  BY DEF ShedLoad, AnswersNothingNew, channelVars, SignageInv, TypeInv, TypeOK
<1>2. CASE scan[z].best = NoZone
  <2> DEFINE e == Entry(z, "DISPATCH_STAFF", NoZone, 0)
  <2>1. e \in Intervention /\ e.about = 0 /\ e.type # "SIGNAGE_REROUTE"
    BY DEF Entry, Actions, Intervention
  <2>2. log' = Append(log, e) /\ talks' = talks
    BY <1>2 DEF ShedLoad
  <2> HIDE DEF e
  <2>3. /\ Len(log) \in Nat /\ DOMAIN log = 1..Len(log)
        /\ DOMAIN log' = 1..(Len(log) + 1) /\ log'[Len(log) + 1] = e
        /\ \A k \in DOMAIN log : log'[k] = log[k]
        /\ \A i \in DOMAIN talks, k \in DOMAIN log :
              (Absorbs(k, i)' <=> Absorbs(k, i)) /\ (Reroutes(k, i)' <=> Reroutes(k, i))
        /\ \A i \in DOMAIN talks : Absorbed(i) => Absorbed(i)'
    BY <2>1, <2>2, EntryAppended
  <2>4. Addressed' /\ RerouteAccepted'
    BY <1>1, <2>2 DEF SignageInv, Addressed, RerouteAccepted
  <2>5. AcceptanceShown'
    BY <1>1, <2>2, <2>3 DEF SignageInv, AcceptanceShown, TypeInv, TypeOK
  <2>6. LogIsAboutTalks'
    BY <2>1, <2>2, <2>3 DEF SignageInv, LogIsAboutTalks, TypeInv, TypeOK
  <2>7. SignedBeforeRerouted'
    <3> SUFFICES ASSUME NEW i \in DOMAIN talks, NEW j \in DOMAIN log',
                        talks[i].from # talks[i].to, Reroutes(j, i)'
                 PROVE  \E k \in 1..(j - 1) : Absorbs(k, i)'
      BY <2>2 DEF SignedBeforeRerouted
    <3>1. j \in DOMAIN log
      BY <2>1, <2>3 DEF Reroutes, Entry
    <3> QED
      BY <2>3, <3>1 DEF SignageInv, SignedBeforeRerouted
  <2> QED
    BY <2>4, <2>5, <2>6, <2>7 DEF SignageInv
<1>3. CASE scan[z].best # NoZone
  <2> DEFINE t == NewTalk(z, scan[z].best, scan[z].overflow)
  <2>1. t \in Talk /\ t.reply = "empty" /\ t.answer = "none" /\ t.action = "none"
    BY <1>3 DEF NewTalk, Talk, Scan, SignageInv, TypeInv, TypeOK
  <2>2. talks' = Append(talks, t) /\ log' = log
    BY <1>3 DEF ShedLoad
  <2> HIDE DEF t
  <2>3. /\ DOMAIN talks' = 1..(Len(talks) + 1) /\ DOMAIN talks = 1..Len(talks)
        /\ Len(talks) \in Nat /\ Len(talks') = Len(talks) + 1
        /\ \A i \in DOMAIN talks : talks'[i] = talks[i]
        /\ talks'[Len(talks) + 1] = t
    BY <2>1, <2>2 DEF SignageInv, TypeInv, TypeOK
  <2>4. \A i \in DOMAIN talks :
           /\ \A k \in DOMAIN log : (Absorbs(k, i)' <=> Absorbs(k, i))
                                    /\ (Reroutes(k, i)' <=> Reroutes(k, i))
           /\ Absorbed(i)' <=> Absorbed(i)
    BY <2>2, <2>3 DEF Absorbs, Reroutes, Absorbed
  <2>5. /\ \A y \in Zones : \A q \in DOMAIN negotiation[y] : negotiation[y][q] \in DOMAIN talks
        /\ \A y \in Zones : pc[y] = "reply" => answering[y].talk \in DOMAIN talks
    BY OffersAreTalks DEF SignageInv
  <2>6. Addressed'
    BY <1>1, <2>3, <2>5 DEF SignageInv, Addressed
  <2>7. AcceptanceShown'
    <3>1. \A y \in Zones : pc'[y] = "reply" /\ answering'[y].accept
                              => Absorbed(answering[y].talk)'
      BY <1>1, <2>4, <2>5 DEF SignageInv, AcceptanceShown
    <3>2. \A i \in DOMAIN talks' :
             talks'[i].reply = "accepted" \/ talks'[i].answer = "accepted" => Absorbed(i)'
      BY <2>1, <2>3, <2>4 DEF SignageInv, AcceptanceShown
    <3> QED
      BY <1>1, <3>1, <3>2 DEF AcceptanceShown
  <2>8. RerouteAccepted'
    BY <2>1, <2>3 DEF SignageInv, RerouteAccepted
  <2>9. LogIsAboutTalks'
    <3>1. log \in Seq(Intervention)
      BY DEF SignageInv, TypeInv, TypeOK
    <3>2. \A k \in DOMAIN log : log[k] \in Intervention
      BY <3>1
    <3>3. \A k \in DOMAIN log : log[k].about \in Nat
      BY <3>2 DEF Intervention
    <3> QED
      BY <2>2, <2>3, <3>3 DEF SignageInv, LogIsAboutTalks
  <2>10. SignedBeforeRerouted'
    <3> SUFFICES ASSUME NEW i \in DOMAIN talks', NEW j \in DOMAIN log,
                        talks'[i].from # talks'[i].to, Reroutes(j, i)'
                 PROVE  \E k \in 1..(j - 1) : Absorbs(k, i)'
      BY <2>2 DEF SignedBeforeRerouted
    <3>1. log[j].about = i
      BY <2>2 DEF Reroutes, Entry
    <3>2. i \in DOMAIN talks
      BY <2>3, <3>1 DEF SignageInv, LogIsAboutTalks
    <3>3. PICK k \in 1..(j - 1) : Absorbs(k, i)
      BY <2>3, <2>4, <3>2 DEF SignageInv, SignedBeforeRerouted
    <3>4. k \in DOMAIN log
      BY DEF SignageInv, TypeInv, TypeOK
    <3> QED
      BY <2>4, <3>2, <3>3, <3>4
  <2> QED
    BY <2>6, <2>7, <2>8, <2>9, <2>10 DEF SignageInv
<1> QED
  BY <1>2, <1>3

\* Answering an offer: an acceptance enters the log in the same step.
LEMMA SignageOffer ==
    ASSUME SignageInv, TypeInv', NEW z \in Zones, TakeOffer(z) PROVE SignageInv'
<1>1. PICK i, accept :
          /\ i = Head(negotiation[z]) /\ accept = CanAbsorb(z, talks[i])
          /\ talks' = talks /\ negotiation[z] # <<>>
          /\ negotiation' = [negotiation EXCEPT ![z] = Tail(@)]
          /\ pc' = [pc EXCEPT ![z] = "reply"]
          /\ answering' = [answering EXCEPT ![z] = [talk |-> i, accept |-> accept]]
          /\ log' = log \o SignageChange(z, i, accept)
  BY DEF TakeOffer
<1>2. /\ i \in DOMAIN talks /\ talks[i] \in Talk /\ talks[i].to = z
      /\ i \in 1..Len(talks) /\ Len(talks) \in Nat
  <2>1. negotiation[z] \in Seq(DOMAIN talks) /\ talks \in Seq(Talk)
    BY DEF SignageInv, TypeInv, TypeOK
  <2>2. 1 \in DOMAIN negotiation[z] /\ i = negotiation[z][1]
    BY <1>1, <2>1
  <2> QED
    BY <2>1, <2>2 DEF SignageInv, Addressed
<1>3. accept \in BOOLEAN
  BY <1>1 DEF CanAbsorb
<1>4. /\ \A y \in Zones : \A q \in DOMAIN negotiation'[y] : talks[negotiation'[y][q]].to = y
      /\ \A y \in Zones : pc'[y] = "reply" => talks[answering'[y].talk].to = y
  <2> SUFFICES ASSUME NEW y \in Zones
               PROVE  /\ \A q \in DOMAIN negotiation'[y] : talks[negotiation'[y][q]].to = y
                      /\ pc'[y] = "reply" => talks[answering'[y].talk].to = y
    OBVIOUS
  <2>1. /\ negotiation \in [Zones -> Seq(DOMAIN talks)]
        /\ pc \in [Zones -> {"select", "scan", "reply", "stopped"}]
        /\ answering \in [Zones -> Answer]
    BY DEF SignageInv, TypeInv, TypeOK
  <2>2. pc'[y] = "reply" => talks[answering'[y].talk].to = y
    BY <1>1, <1>2, <2>1 DEF SignageInv, Addressed
  <2>3. CASE y = z
    <3>1. \A q \in DOMAIN negotiation'[z] :
             q + 1 \in DOMAIN negotiation[z] /\ negotiation'[z][q] = negotiation[z][q + 1]
      BY <1>1, <2>1
    <3> QED
      BY <2>2, <2>3, <3>1 DEF SignageInv, Addressed
  <2>4. CASE y # z
    BY <1>1, <2>1, <2>2, <2>4 DEF SignageInv, Addressed
  <2> QED
    BY <2>3, <2>4
<1>5. Addressed'
  BY <1>1, <1>4 DEF Addressed
<1>6. RerouteAccepted'
  BY <1>1 DEF SignageInv, RerouteAccepted
<1>7. \A y \in Zones : pc'[y] = "reply" /\ answering'[y].accept =>
          \/ y = z /\ accept /\ answering'[y].talk = i
          \/ Absorbed(answering'[y].talk) /\ answering'[y].talk \in DOMAIN talks
  <2>1. /\ pc \in [Zones -> {"select", "scan", "reply", "stopped"}]
        /\ answering \in [Zones -> Answer]
        /\ \A y \in Zones : pc[y] = "reply" => answering[y].talk \in DOMAIN talks
    BY DEF SignageInv, TypeInv, TypeOK
  <2> QED
    BY <1>1, <2>1 DEF SignageInv, AcceptanceShown
<1>8. CASE accept
  <2> DEFINE e == Entry(z, "SIGNAGE_REROUTE", talks[i].from, i)
  <2>1. e \in Intervention /\ e = Entry(talks[i].to, "SIGNAGE_REROUTE", talks[i].from, i)
    BY <1>2 DEF Entry, Actions, Intervention, Talk, Places
  <2>2. log' = Append(log, e)
    <3>1. log \in Seq(Intervention)
      BY DEF SignageInv, TypeInv, TypeOK
    <3>2. log' = log \o <<e>>
      BY <1>1, <1>8 DEF SignageChange
    <3> HIDE DEF e
    <3> QED
      BY <2>1, <3>1, <3>2
  <2>3. \A j \in DOMAIN talks : e = Entry(talks[j].from, "SIGNAGE_REROUTE", talks[j].to, j)
           => talks[j].from = talks[j].to
    BY <1>2 DEF Entry
  <2>4. e.about = i
    BY DEF Entry
  <2> HIDE DEF e
  <2>5. /\ Len(log) \in Nat /\ DOMAIN log = 1..Len(log)
        /\ DOMAIN log' = 1..(Len(log) + 1) /\ log'[Len(log) + 1] = e
        /\ \A k \in DOMAIN log : log'[k] = log[k]
        /\ \A j \in DOMAIN talks, k \in DOMAIN log :
              (Absorbs(k, j)' <=> Absorbs(k, j)) /\ (Reroutes(k, j)' <=> Reroutes(k, j))
        /\ \A j \in DOMAIN talks : Absorbed(j) => Absorbed(j)'
    BY <1>1, <2>1, <2>2, EntryAppended
  <2>6. Absorbed(i)'
    <3>1. PICK n \in DOMAIN log' : log'[n] = e
      BY <2>5
    <3>2. Absorbs(n, i)'
      BY <1>1, <2>1, <3>1 DEF Absorbs
    <3> QED
      BY <3>1, <3>2 DEF Absorbed
  <2>7. AcceptanceShown'
    BY <1>1, <1>7, <2>5, <2>6 DEF SignageInv, AcceptanceShown
  <2>8. LogIsAboutTalks'
    BY <1>1, <1>2, <2>4, <2>5 DEF SignageInv, LogIsAboutTalks
  <2>9. SignedBeforeRerouted'
    <3> SUFFICES ASSUME NEW n \in DOMAIN talks, NEW j \in DOMAIN log',
                        talks[n].from # talks[n].to, Reroutes(j, n)'
                 PROVE  \E k \in 1..(j - 1) : Absorbs(k, n)'
      BY <1>1 DEF SignedBeforeRerouted
    <3>1. j \in DOMAIN log
      BY <1>1, <2>3, <2>5 DEF Reroutes
    <3> QED
      BY <2>5, <3>1 DEF SignageInv, SignedBeforeRerouted
  <2> QED
    BY <1>5, <1>6, <2>7, <2>8, <2>9 DEF SignageInv
<1>9. CASE ~accept
  <2>1. log' = log
    BY <1>1, <1>9 DEF SignageChange, SignageInv, TypeInv, TypeOK
  <2>2. \A j \in DOMAIN talks : Absorbed(j)' <=> Absorbed(j)
    BY <1>1, <2>1 DEF Absorbed, Absorbs
  <2>3. AcceptanceShown'
    BY <1>1, <1>7, <1>9, <2>2 DEF SignageInv, AcceptanceShown
  <2>4. LogIsAboutTalks'
    BY <1>1, <2>1 DEF SignageInv, LogIsAboutTalks
  <2>5. \A j \in DOMAIN talks : \A k : (Absorbs(k, j)' <=> Absorbs(k, j))
                                    /\ (Reroutes(k, j)' <=> Reroutes(k, j))
    BY <1>1, <2>1 DEF Absorbs, Reroutes
  <2>6. SignedBeforeRerouted'
    BY <1>1, <2>1, <2>5 DEF SignageInv, SignedBeforeRerouted
  <2> QED
    BY <1>5, <1>6, <2>3, <2>4, <2>6 DEF SignageInv
<1> QED
  BY <1>3, <1>8, <1>9

\* Sending the reply: the reply tells what the agent has already shown.
LEMMA SignageReply ==
    ASSUME SignageInv, TypeInv', NEW z \in Zones, SendReply(z) PROVE SignageInv'
<1> DEFINE i == answering[z].talk
           verdict == IF answering[z].accept THEN "accepted" ELSE "rejected"
           t == [talks[i] EXCEPT !.reply = verdict]
<1>1. /\ pc[z] = "reply" /\ UNCHANGED <<log, negotiation>>
      /\ talks' = talks \/ talks' = [talks EXCEPT ![i] = t]
      /\ AnswersNothingNew
  BY DEF SendReply, PutReply, channelVars, AnswersNothingNew, SignageInv, TypeInv, TypeOK
<1>2. i \in DOMAIN talks /\ talks[i] \in Talk
  BY <1>1 DEF SignageInv, TypeInv, TypeOK
<1>3. /\ t \in Talk /\ t.from = talks[i].from /\ t.to = talks[i].to
      /\ t.answer = talks[i].answer /\ t.action = talks[i].action
      /\ t.stage = talks[i].stage /\ t.reply = verdict
  BY <1>2 DEF Talk, Verdicts
<1>4. t.reply = "accepted" \/ t.answer = "accepted" => Absorbed(i)
  BY <1>1, <1>2, <1>3 DEF SignageInv, AcceptanceShown
<1>5. /\ t.stage \in {"sending", "waiting", "answered"} => t.action = "none"
      /\ t.action = "SIGNAGE_REROUTE" => t.answer = "accepted"
  BY <1>2, <1>3 DEF SignageInv, RerouteAccepted
<1> HIDE DEF i, t
<1>6. CASE talks' = talks
  BY <1>1, <1>6, SignageQuiet
<1>7. CASE talks' = [talks EXCEPT ![i] = t]
  BY <1>1, <1>2, <1>3, <1>4, <1>5, <1>7, SignageTalk
<1> QED
  BY <1>1, <1>6, <1>7

\* Recording the consequence of a talk: a reroute has an absorbing zone.
LEMMA SignageIntervene ==
    ASSUME SignageInv, TypeInv', NEW i \in DOMAIN talks, Intervene(i) PROVE SignageInv'
<1>1. talks[i] \in Talk /\ i \in 1..Len(talks) /\ Len(talks) \in Nat
  BY DEF SignageInv, TypeInv, TypeOK
<1>2. PICK t, e :
          /\ t = [talks[i] EXCEPT !.stage = "done"]
          /\ e = Entry(talks[i].from, talks[i].action, talks[i].dest, i)
          /\ talks' = [talks EXCEPT ![i] = t]
          /\ log' = Append(log, e)
          /\ UNCHANGED <<negotiation, pc, answering>>
  BY <1>1 DEF Intervene, agentVars, channelVars
<1>3. /\ t \in Talk /\ t.from = talks[i].from /\ t.to = talks[i].to
      /\ t.reply = talks[i].reply /\ t.answer = talks[i].answer
      /\ t.action = talks[i].action /\ t.stage = "done"
  BY <1>1, <1>2 DEF Talk
<1>4. e \in Intervention /\ e.about = i /\ e.type = talks[i].action
  <2>1. talks[i].action \in Actions
    BY DEF Intervene, SignageInv, TypeInv, DecidedTalksAct
  <2> QED
    BY <1>1, <1>2, <2>1 DEF Entry, Intervention, Talk
<1>5. /\ DOMAIN talks' = DOMAIN talks /\ Len(talks') = Len(talks)
      /\ \A j \in DOMAIN talks : /\ talks'[j] = IF j = i THEN t ELSE talks[j]
                                 /\ talks'[j].from = talks[j].from
                                 /\ talks'[j].to = talks[j].to
  BY <1>2, <1>3 DEF SignageInv, TypeInv, TypeOK
<1>6. /\ Len(log) \in Nat /\ DOMAIN log = 1..Len(log)
      /\ DOMAIN log' = 1..(Len(log) + 1) /\ log'[Len(log) + 1] = e
      /\ \A k \in DOMAIN log : log'[k] = log[k]
      /\ \A j \in DOMAIN talks, k \in DOMAIN log :
            (Absorbs(k, j)' <=> Absorbs(k, j)) /\ (Reroutes(k, j)' <=> Reroutes(k, j))
      /\ \A j \in DOMAIN talks : Absorbed(j) => Absorbed(j)'
  BY <1>2, <1>4, <1>5, EntryAppended
<1>7. Addressed'
  <2>1. /\ \A y \in Zones : \A q \in DOMAIN negotiation[y] : negotiation[y][q] \in DOMAIN talks
        /\ \A y \in Zones : pc[y] = "reply" => answering[y].talk \in DOMAIN talks
    BY OffersAreTalks DEF SignageInv
  <2> QED
    BY <1>2, <1>5, <2>1 DEF SignageInv, Addressed
<1>8. AcceptanceShown'
  <2>1. \A y \in Zones : pc[y] = "reply" => answering[y].talk \in DOMAIN talks
    BY DEF SignageInv, TypeInv, TypeOK
  <2> QED
    BY <1>2, <1>3, <1>5, <1>6, <2>1 DEF SignageInv, AcceptanceShown
<1>9. RerouteAccepted'
  BY <1>3, <1>5 DEF SignageInv, RerouteAccepted
<1>10. LogIsAboutTalks'
  BY <1>1, <1>4, <1>5, <1>6 DEF SignageInv, LogIsAboutTalks
<1>11. SignedBeforeRerouted'
  <2> SUFFICES ASSUME NEW n \in DOMAIN talks, NEW j \in DOMAIN log',
                      talks[n].from # talks[n].to, Reroutes(j, n)'
               PROVE  \E k \in 1..(j - 1) : Absorbs(k, n)'
    BY <1>5 DEF SignedBeforeRerouted
  <2>1. CASE j \in DOMAIN log
    BY <1>6, <2>1 DEF SignageInv, SignedBeforeRerouted
  <2>2. CASE j = Len(log) + 1
    <3>1. e.about = n /\ e.type = "SIGNAGE_REROUTE"
      BY <1>6, <2>2 DEF Reroutes, Entry
    <3>2. Absorbed(n)
      BY <1>4, <3>1 DEF SignageInv, AcceptanceShown, RerouteAccepted
    <3>3. PICK k \in DOMAIN log : Absorbs(k, n)
      BY <3>2 DEF Absorbed
    <3> QED
      BY <1>6, <2>2, <3>3
  <2> QED
    BY <1>6, <2>1, <2>2
<1> QED
  BY <1>7, <1>8, <1>9, <1>10, <1>11 DEF SignageInv

\* The other steps of a talk: an answer is a reply that was given, and only
\* an accepting one is followed by a reroute.
LEMMA SignageTalkStep ==
    ASSUME SignageInv, TypeInv', NEW i \in DOMAIN talks, TalkStep(i) PROVE SignageInv'
<1>1. talks[i] \in Talk /\ talks \in Seq(Talk)
  BY DEF SignageInv, TypeInv, TypeOK
<1>2. /\ talks[i].reply = "accepted" \/ talks[i].answer = "accepted" => Absorbed(i)
      /\ talks[i].stage \in {"sending", "waiting", "answered"} => talks[i].action = "none"
      /\ talks[i].action = "SIGNAGE_REROUTE" => talks[i].answer = "accepted"
  BY DEF SignageInv, AcceptanceShown, RerouteAccepted
<1>3. ASSUME NEW a \in Answers, Return(i, a), talks[i].stage \in {"sending", "waiting"},
             a = "accepted" => talks[i].reply = "accepted"
      PROVE  SignageInv'
  <2>1. PICK t : t = [talks[i] EXCEPT !.stage = "answered", !.answer = a]
    OBVIOUS
  <2>2. /\ t \in Talk /\ t.from = talks[i].from /\ t.to = talks[i].to
        /\ t.reply = talks[i].reply /\ t.answer = a
        /\ t.action = talks[i].action /\ t.stage = "answered"
    BY <1>1, <2>1 DEF Talk, Answers
  <2>3. talks' = [talks EXCEPT ![i] = t] /\ UNCHANGED <<log, negotiation>>
    BY <1>1, <1>3, <2>1 DEF Return, channelVars
  <2>4. AnswersNothingNew
    BY <1>3 DEF Return, agentVars, AnswersNothingNew
  <2> QED
    BY <1>2, <1>3, <2>2, <2>3, <2>4, SignageTalk
<1>4. CASE SendOffer(i)
  <2>1. PICK t : t = [talks[i] EXCEPT !.stage = "waiting"]
    OBVIOUS
  <2>2. /\ t \in Talk /\ t.from = talks[i].from /\ t.to = talks[i].to
        /\ t.reply = talks[i].reply /\ t.answer = talks[i].answer
        /\ t.action = talks[i].action /\ t.stage = "waiting"
    BY <1>1, <2>1 DEF Talk
  <2>3. /\ talks' = [talks EXCEPT ![i] = t] /\ UNCHANGED log
        /\ negotiation' = [negotiation EXCEPT ![t.to] = Append(@, i)]
    BY <1>1, <1>4, <2>1, <2>2 DEF SendOffer
  <2>4. AnswersNothingNew
    BY <1>4 DEF SendOffer, agentVars, AnswersNothingNew
  <2>5. talks[i].stage = "sending"
    BY <1>4 DEF SendOffer
  <2> QED
    BY <1>2, <2>2, <2>3, <2>4, <2>5, SignageTalk
<1>5. CASE TakeReply(i)
  BY <1>1, <1>3, <1>5 DEF TakeReply, Talk, Answers
<1>6. CASE TimeOut(i)
  BY <1>3, <1>6 DEF TimeOut, Answers
<1>7. CASE Cancel(i)
  BY <1>3, <1>7 DEF Cancel, Answers
<1>8. CASE Decide(i)
  <2>1. PICK c \in Consequences(i) :
            talks' = [talks EXCEPT ![i].stage = "decided",
                                   ![i].action = c[1], ![i].dest = c[2]]
    BY <1>8 DEF Decide
  <2>2. /\ c[1] \in Actions /\ c[2] \in Places \cup {NoZone}
        /\ c[1] = "SIGNAGE_REROUTE" => talks[i].answer = "accepted"
    <3>1. shuttleDestination(talks[i].from, talks[i].overflow) \subseteq Places
      BY DEF shuttleDestination, SignageInv, TypeInv, TypeOK
    <3>2. talks[i].to \in Places
      BY <1>1 DEF Talk, Places
    <3> QED
      BY <3>1, <3>2 DEF Consequences, Actions
  <2>3. PICK t : t = [talks[i] EXCEPT !.stage = "decided", !.action = c[1], !.dest = c[2]]
    OBVIOUS
  <2>4. /\ t \in Talk /\ t.from = talks[i].from /\ t.to = talks[i].to
        /\ t.reply = talks[i].reply /\ t.answer = talks[i].answer
        /\ t.action = c[1] /\ t.stage = "decided"
    BY <1>1, <2>2, <2>3 DEF Talk
  <2>5. talks' = [talks EXCEPT ![i] = t]
    BY <1>1, <2>1, <2>3
  <2>6. UNCHANGED <<log, negotiation>> /\ AnswersNothingNew
    BY <1>8 DEF Decide, agentVars, channelVars, AnswersNothingNew
  <2> QED
    BY <1>2, <2>2, <2>4, <2>5, <2>6, SignageTalk
<1> QED
  BY <1>4, <1>5, <1>6, <1>7, <1>8, SignageIntervene DEF TalkStep

\* Nothing has been negotiated when the server starts.
LEMMA SignageInit == Init => SignageInv
<1> SUFFICES ASSUME Init PROVE SignageInv
  OBVIOUS
<1>1. TypeInv
  BY TypeInvInit
<1>2. /\ DOMAIN talks = {} /\ DOMAIN log = {}
      /\ \A z \in Zones : DOMAIN negotiation[z] = {} /\ pc[z] = "select"
  BY DEF Init
<1> QED
  BY <1>1, <1>2 DEF SignageInv, Addressed, AcceptanceShown, RerouteAccepted,
                    LogIsAboutTalks, SignedBeforeRerouted

\* SignageInv is inductive.
LEMMA SignageStep == SignageInv /\ [Next]_vars => SignageInv'
<1> SUFFICES ASSUME SignageInv, [Next]_vars PROVE SignageInv'
  OBVIOUS
<1>1. TypeInv'
  BY TypeInvStep DEF SignageInv
<1>2. ASSUME NEW h \in Handlers, NEW b \in Batches, Post(h, b) PROVE SignageInv'
  BY <1>1, <1>2, SignageQuiet DEF Post, agentVars, channelVars, AnswersNothingNew
<1>3. ASSUME NEW h \in Handlers, Ingest(h) PROVE SignageInv'
  BY <1>1, <1>3, SignageQuiet
     DEF Ingest, SetFact, Deliver, agentVars, channelVars, AnswersNothingNew
<1>4. ASSUME NEW z \in Zones, Agent(z) PROVE SignageInv'
  <2>1. pc \in [Zones -> {"select", "scan", "reply", "stopped"}]
    BY DEF SignageInv, TypeInv, TypeOK
  <2>2. CASE TakeSample(z) \/ ScanNeighbor(z) \/ Stop(z)
    <3>1. UNCHANGED <<talks, log, negotiation, answering>>
      BY <2>2 DEF TakeSample, ScanNeighbor, Stop, channelVars
    <3>2. \A y \in Zones : pc'[y] = "reply" => pc[y] = "reply"
      BY <2>1, <2>2 DEF TakeSample, evaluate, ScanNeighbor, Stop
    <3> QED
      BY <1>1, <3>1, <3>2, SignageQuiet DEF AnswersNothingNew
  <2> QED
    BY <1>1, <1>4, <2>2, SignageShed, SignageOffer, SignageReply DEF Agent
<1>5. ASSUME NEW i \in DOMAIN talks, TalkStep(i) PROVE SignageInv'
  BY <1>1, <1>5, SignageTalkStep
<1>6. CASE Shutdown \/ Exit \/ UNCHANGED vars
  BY <1>1, <1>6, SignageQuiet
     DEF Shutdown, Exit, vars, agentVars, channelVars, AnswersNothingNew
<1> QED
  BY <1>2, <1>3, <1>4, <1>5, <1>6 DEF Next

\* No reroute is announced before the zone it leads to has changed its own
\* signage, for every ring of zones and whatever telemetry arrives.
THEOREM SignedFirst == Spec => []SignedBeforeRerouted
<1>1. SignageInv => SignedBeforeRerouted
  BY DEF SignageInv
<1> QED
  BY <1>1, SignageInit, SignageStep, PTL DEF Spec

-----------------------------------------------------------------------------
(* No offer is lost and none is answered twice. OffersAccountedFor is       *)
(* inductive beside the types. The same steps tell what becomes of a        *)
(* neighbour's verdict, which the audit log and the refinement need: it is  *)
(* reached when the offer is taken in hand and never changes afterwards.    *)

OffersInv == TypeInv /\ OffersAccountedFor

\* No talk that was there before has its verdict changed by the step.
VerdictsKept == \A i \in DOMAIN talks : Pledged(i)' = Pledged(i)

\* What the types say about talks and the queues of offers.
LEMMA OfferTypes ==
    ASSUME TypeInv
    PROVE  /\ Len(talks) \in Nat /\ DOMAIN talks = 1..Len(talks)
           /\ \A i \in DOMAIN talks : /\ talks[i] \in Talk
                                      /\ talks[i].to \in Zones /\ talks[i].from \in Zones
           /\ \A z \in Zones : /\ negotiation[z] \in Seq(DOMAIN talks)
                               /\ DOMAIN negotiation[z] = 1..Len(negotiation[z])
                               /\ Len(negotiation[z]) \in Nat
           /\ \A z \in Zones : \A q \in DOMAIN negotiation[z] : negotiation[z][q] \in DOMAIN talks
           /\ \A z \in Zones : pc[z] = "reply" => answering[z].talk \in DOMAIN talks
<1>1. /\ Len(talks) \in Nat /\ DOMAIN talks = 1..Len(talks)
      /\ \A i \in DOMAIN talks : talks[i] \in Talk
  BY DEF TypeInv, TypeOK
<1>2. \A i \in DOMAIN talks : talks[i].to \in Zones /\ talks[i].from \in Zones
  BY <1>1 DEF Talk
<1>3. \A z \in Zones : negotiation[z] \in Seq(DOMAIN talks)
  BY DEF TypeInv, TypeOK
<1>4. \A z \in Zones : /\ DOMAIN negotiation[z] = 1..Len(negotiation[z])
                       /\ Len(negotiation[z]) \in Nat
  BY <1>3, LenProperties
<1> QED
  BY <1>1, <1>2, <1>3, <1>4, OffersAreTalks

\* Steps of agents and requests that touch neither talks nor offers.
LEMMA OffersQuiet ==
    ASSUME OffersInv, UNCHANGED <<talks, negotiation, answering>>,
           \A z \in Zones : pc'[z] = "reply" <=> pc[z] = "reply"
    PROVE  OffersAccountedFor' /\ VerdictsKept
<1>1. \A i \in DOMAIN talks : talks[i].to \in Zones
  BY OfferTypes DEF OffersInv
<1>2. \A i \in DOMAIN talks : /\ InHand(i)' <=> InHand(i)
                              /\ Queued(i)' <=> Queued(i)
                              /\ Replied(i)' <=> Replied(i)
  BY <1>1 DEF InHand, Queued, Replied
<1>3. VerdictsKept
  BY <1>2 DEF VerdictsKept, Pledged
<1>4. OffersAccountedFor'
  BY <1>1, <1>2 DEF OffersInv, OffersAccountedFor
<1> QED
  BY <1>3, <1>4

\* Steps that change one talk whose offer has been sent or is given up, and
\* neither its reply nor the queues.
LEMMA OffersTalk ==
    ASSUME OffersInv, NEW i \in DOMAIN talks, NEW t \in Talk,
           talks' = [talks EXCEPT ![i] = t],
           t.to = talks[i].to, t.reply = talks[i].reply,
           t.stage \notin {"sending", "waiting"},
           UNCHANGED <<negotiation, pc, answering>>
    PROVE  OffersAccountedFor' /\ VerdictsKept
<1>1. /\ DOMAIN talks' = DOMAIN talks
      /\ \A j \in DOMAIN talks : /\ talks'[j] = IF j = i THEN t ELSE talks[j]
                                 /\ talks'[j].to = talks[j].to
                                 /\ talks'[j].reply = talks[j].reply
  BY OfferTypes DEF OffersInv
<1>2. \A j \in DOMAIN talks : /\ InHand(j)' <=> InHand(j)
                              /\ Queued(j)' <=> Queued(j)
                              /\ Replied(j)' <=> Replied(j)
  BY <1>1 DEF InHand, Queued, Replied
<1>3. VerdictsKept
  BY <1>1, <1>2 DEF VerdictsKept, Pledged
<1>4. \A z \in Zones : /\ \A q \in DOMAIN negotiation[z] : negotiation[z][q] \in DOMAIN talks
                       /\ pc[z] = "reply" => answering[z].talk \in DOMAIN talks
  BY OfferTypes DEF OffersInv
<1>5. OffersAccountedFor'
  BY <1>1, <1>2, <1>4 DEF OffersInv, OffersAccountedFor
<1> QED
  BY <1>3, <1>5

\* Sending an offer puts it into the neighbour's channel, where it was not.
LEMMA OffersSend ==
    ASSUME OffersInv, NEW i \in DOMAIN talks, SendOffer(i)
    PROVE  OffersAccountedFor' /\ VerdictsKept
<1>1. PICK y, t : y = talks[i].to /\ t = [talks[i] EXCEPT !.stage = "waiting"]
  OBVIOUS
<1>2. /\ talks[i] \in Talk /\ y \in Zones
      /\ negotiation[y] \in Seq(DOMAIN talks) /\ Len(negotiation[y]) \in Nat
      /\ DOMAIN negotiation[y] = 1..Len(negotiation[y])
  BY <1>1, OfferTypes DEF OffersInv
<1>3. t.to = y /\ t.reply = talks[i].reply /\ t.stage = "waiting"
  BY <1>1, <1>2 DEF Talk
<1>4. /\ DOMAIN talks' = DOMAIN talks
      /\ \A j \in DOMAIN talks : /\ talks'[j] = IF j = i THEN t ELSE talks[j]
                                 /\ talks'[j].to = talks[j].to
                                 /\ talks'[j].reply = talks[j].reply
  BY <1>1, <1>3 DEF SendOffer
<1>5. /\ \A z \in Zones \ {y} : negotiation'[z] = negotiation[z]
      /\ negotiation'[y] = Append(negotiation[y], i)
      /\ UNCHANGED <<pc, answering>>
  BY <1>1, <1>2 DEF SendOffer, OffersInv, TypeInv, TypeOK, agentVars
<1>6. /\ DOMAIN negotiation'[y] = 1..(Len(negotiation[y]) + 1)
      /\ negotiation'[y][Len(negotiation[y]) + 1] = i
      /\ \A q \in DOMAIN negotiation[y] : negotiation'[y][q] = negotiation[y][q]
  BY <1>2, <1>5
<1>7. \A j \in DOMAIN talks : /\ InHand(j)' <=> InHand(j)
                              /\ Replied(j)' <=> Replied(j)
                              /\ talks[j].to \in Zones
  BY <1>4, <1>5, OfferTypes DEF InHand, Replied, OffersInv
<1>8. \A j \in DOMAIN talks : Queued(j)' <=> Queued(j) \/ j = i
  <2> SUFFICES ASSUME NEW j \in DOMAIN talks PROVE Queued(j)' <=> Queued(j) \/ j = i
    OBVIOUS
  <2>1. CASE talks[j].to = y
    <3>1. Queued(j)' <=> \E q \in DOMAIN negotiation'[y] : negotiation'[y][q] = j
      BY <1>4, <2>1 DEF Queued
    <3>2. Queued(j) <=> \E q \in DOMAIN negotiation[y] : negotiation[y][q] = j
      BY <2>1 DEF Queued
    <3> QED
      BY ONLY <1>2, <1>6, <3>1, <3>2
  <2>2. CASE talks[j].to # y
    BY <1>1, <1>4, <1>5, <1>7, <2>2 DEF Queued
  <2> QED
    BY <2>1, <2>2
<1>9. VerdictsKept
  BY <1>4, <1>5, <1>7 DEF VerdictsKept, Pledged
<1>10. ~Queued(i) /\ ~InHand(i) /\ ~Replied(i)
  BY DEF SendOffer, OffersInv, OffersAccountedFor
<1>11. ASSUME NEW z \in Zones
       PROVE  /\ \A q \in DOMAIN negotiation'[z] : talks'[negotiation'[z][q]].to = z
              /\ \A q, r \in DOMAIN negotiation'[z] :
                    negotiation'[z][q] = negotiation'[z][r] => q = r
              /\ pc'[z] = "reply" => talks'[answering'[z].talk].to = z
  <2>1. /\ \A q \in DOMAIN negotiation[z] : /\ negotiation[z][q] \in DOMAIN talks
                                            /\ talks[negotiation[z][q]].to = z
        /\ \A q, r \in DOMAIN negotiation[z] : negotiation[z][q] = negotiation[z][r] => q = r
        /\ pc[z] = "reply" => /\ answering[z].talk \in DOMAIN talks
                              /\ talks[answering[z].talk].to = z
    BY OfferTypes DEF OffersInv, OffersAccountedFor
  <2>2. CASE z = y
    <3>1. \A q \in DOMAIN negotiation[y] : negotiation[y][q] # i
      BY <1>1, <1>10 DEF Queued
    <3>2. \A q, r \in DOMAIN negotiation'[y] :
             negotiation'[y][q] = negotiation'[y][r] => q = r
      BY ONLY <1>2, <1>6, <2>1, <2>2, <3>1
    <3>3. \A q \in DOMAIN negotiation'[y] : talks'[negotiation'[y][q]].to = y
      <4>1. \A q \in DOMAIN negotiation'[y] :
               negotiation'[y][q] = i \/ q \in DOMAIN negotiation[y]
        BY ONLY <1>2, <1>6
      <4> QED
        BY <1>1, <1>4, <1>6, <2>1, <2>2, <4>1
    <3> QED
      BY <1>4, <1>5, <2>1, <2>2, <3>2, <3>3
  <2>3. CASE z # y
    BY <1>4, <1>5, <2>1, <2>3
  <2> QED
    BY <2>2, <2>3
<1>12. OffersAccountedFor'
  BY <1>3, <1>4, <1>7, <1>8, <1>10, <1>11 DEF OffersInv, OffersAccountedFor
<1> QED
  BY <1>9, <1>12

\* Taking an offer moves it from the channel into the agent's hands, and
\* that is the moment its verdict is reached.
LEMMA OffersTake ==
    ASSUME OffersInv, NEW z \in Zones, TakeOffer(z),
           NEW i, i = Head(negotiation[z]), NEW accept, accept = CanAbsorb(z, talks[i])
    PROVE  /\ OffersAccountedFor'
           /\ i \in DOMAIN talks /\ talks[i].to = z
           /\ Pledged(i) = "none"
           /\ Pledged(i)' = IF accept THEN "absorb" ELSE "refuse"
           /\ \A j \in DOMAIN talks \ {i} : Pledged(j)' = Pledged(j)
<1>1. /\ i = Head(negotiation[z])
      /\ talks' = talks /\ negotiation[z] # <<>> /\ pc[z] = "select"
      /\ negotiation' = [negotiation EXCEPT ![z] = Tail(@)]
      /\ pc' = [pc EXCEPT ![z] = "reply"]
      /\ answering' = [answering EXCEPT ![z] = [talk |-> i, accept |-> accept]]
  BY DEF TakeOffer
<1>2. PICK n : n = Len(negotiation[z])
  OBVIOUS
<1>3. /\ negotiation[z] \in Seq(DOMAIN talks) /\ n \in Nat /\ n # 0
      /\ DOMAIN negotiation[z] = 1..n
  BY <1>1, <1>2, OfferTypes, EmptySeq DEF OffersInv
<1>4. /\ 1 \in DOMAIN negotiation[z] /\ i = negotiation[z][1] /\ i \in DOMAIN talks
      /\ talks[i].to = z
  <2>1. 1 \in DOMAIN negotiation[z]
    BY <1>3
  <2>2. i = negotiation[z][1]
    BY <1>1, <1>3
  <2>3. i \in DOMAIN talks
    BY <2>1, <2>2, OfferTypes DEF OffersInv
  <2> QED
    BY <2>1, <2>2, <2>3 DEF OffersInv, OffersAccountedFor
<1>5. /\ \A y \in Zones \ {z} : /\ negotiation'[y] = negotiation[y]
                                /\ pc'[y] = pc[y] /\ answering'[y] = answering[y]
      /\ negotiation'[z] = Tail(negotiation[z])
      /\ pc'[z] = "reply" /\ answering'[z].talk = i /\ answering'[z].accept = accept
  BY <1>1 DEF OffersInv, TypeInv, TypeOK
<1>6. /\ DOMAIN negotiation'[z] = 1..(n - 1)
      /\ \A q \in 1..(n - 1) : negotiation'[z][q] = negotiation[z][q + 1]
  <2>1. /\ Tail(negotiation[z]) \in Seq(DOMAIN talks)
        /\ Len(Tail(negotiation[z])) = n - 1
        /\ \A q \in 1..(n - 1) : Tail(negotiation[z])[q] = negotiation[z][q + 1]
    BY <1>1, <1>2, <1>3, HeadTailProperties
  <2> QED
    BY <1>5, <2>1, LenProperties
<1>7. Queued(i) /\ ~InHand(i) /\ ~Replied(i)
  BY <1>4 DEF OffersInv, OffersAccountedFor, Queued
<1>8. \A j \in DOMAIN talks : /\ InHand(j)' <=> InHand(j) \/ j = i
                              /\ Replied(j)' <=> Replied(j)
                              /\ talks[j].to \in Zones
                              /\ talks[j].to = z => ~InHand(j)
  <2>1. \A j \in DOMAIN talks : talks[j].to \in Zones
    BY OfferTypes DEF OffersInv
  <2> QED
    BY <1>1, <1>4, <1>5, <2>1 DEF InHand, Replied
<1>9. \A q, r \in DOMAIN negotiation[z] : negotiation[z][q] = negotiation[z][r] => q = r
  BY DEF OffersInv, OffersAccountedFor
<1>10. \A j \in DOMAIN talks : Queued(j)' <=> Queued(j) /\ j # i
  <2> SUFFICES ASSUME NEW j \in DOMAIN talks PROVE Queued(j)' <=> Queued(j) /\ j # i
    OBVIOUS
  <2>1. CASE talks[j].to = z
    <3>1. Queued(j)' <=> \E q \in 1..(n - 1) : negotiation[z][q + 1] = j
      BY <1>1, <1>6, <2>1 DEF Queued
    <3>2. Queued(j) <=> \E q \in 1..n : negotiation[z][q] = j
      BY <1>3, <2>1 DEF Queued
    <3>3. ASSUME NEW q \in 1..(n - 1), negotiation[z][q + 1] = j PROVE Queued(j) /\ j # i
      <4>1. q + 1 \in 1..n /\ q + 1 # 1
        BY <1>3
      <4> QED
        BY <1>3, <1>4, <1>9, <3>2, <3>3, <4>1
    <3>4. ASSUME NEW q \in 1..n, negotiation[z][q] = j, j # i
          PROVE  \E r \in 1..(n - 1) : negotiation[z][r + 1] = j
      <4>1. q # 1
        BY <1>4, <3>4
      <4>2. q - 1 \in 1..(n - 1) /\ (q - 1) + 1 = q
        BY <1>3, <4>1
      <4> QED
        BY <3>4, <4>2
    <3> QED
      BY <3>1, <3>2, <3>3, <3>4
  <2>2. CASE talks[j].to # z
    BY <1>1, <1>4, <1>5, <1>8, <2>2 DEF Queued
  <2> QED
    BY <2>1, <2>2
<1>11. ASSUME NEW y \in Zones
       PROVE  /\ \A q \in DOMAIN negotiation'[y] : talks'[negotiation'[y][q]].to = y
              /\ \A q, r \in DOMAIN negotiation'[y] :
                    negotiation'[y][q] = negotiation'[y][r] => q = r
              /\ pc'[y] = "reply" => talks'[answering'[y].talk].to = y
  <2>1. CASE y = z
    <3>1. \A q \in 1..(n - 1) : q + 1 \in DOMAIN negotiation[z]
      BY <1>3
    <3>2. \A q \in 1..(n - 1) : talks[negotiation[z][q + 1]].to = z
      BY <3>1 DEF OffersInv, OffersAccountedFor
    <3>3. \A q, r \in 1..(n - 1) : negotiation[z][q + 1] = negotiation[z][r + 1] => q = r
      <4>1. \A q, r \in 1..(n - 1) : q + 1 = r + 1 => q = r
        BY <1>3
      <4> QED
        BY <1>9, <3>1, <4>1
    <3>4. /\ \A q \in DOMAIN negotiation'[z] : talks[negotiation'[z][q]].to = z
          /\ \A q, r \in DOMAIN negotiation'[z] :
                negotiation'[z][q] = negotiation'[z][r] => q = r
      BY ONLY <1>6, <3>2, <3>3
    <3> QED
      BY <1>1, <1>4, <1>5, <2>1, <3>4
  <2>2. CASE y # z
    BY <1>1, <1>5, <2>2 DEF OffersInv, OffersAccountedFor
  <2> QED
    BY <2>1, <2>2
<1>12. OffersAccountedFor'
  BY <1>1, <1>7, <1>8, <1>10, <1>11 DEF OffersInv, OffersAccountedFor
<1>13. /\ Pledged(i) = "none"
       /\ Pledged(i)' = IF accept THEN "absorb" ELSE "refuse"
  BY <1>1, <1>4, <1>5, <1>7, <1>8 DEF Pledged
<1>14. \A j \in DOMAIN talks \ {i} : Pledged(j)' = Pledged(j)
  <2> SUFFICES ASSUME NEW j \in DOMAIN talks \ {i} PROVE Pledged(j)' = Pledged(j)
    OBVIOUS
  <2>1. CASE talks[j].to = z
    BY <1>1, <1>8, <2>1 DEF Pledged
  <2>2. CASE talks[j].to # z
    BY <1>1, <1>5, <1>8, <2>2 DEF Pledged
  <2> QED
    BY <2>1, <2>2
<1> QED
  BY <1>1, <1>4, <1>12, <1>13, <1>14

\* Sending the reply moves the verdict from the agent's hands into the reply
\* channel, which is empty then.
LEMMA OffersReply ==
    ASSUME OffersInv, NEW z \in Zones, SendReply(z)
    PROVE  OffersAccountedFor' /\ VerdictsKept
<1>1. PICK i, verdict : /\ i = answering[z].talk
                        /\ verdict = IF answering[z].accept THEN "accepted" ELSE "rejected"
  OBVIOUS
<1>2. /\ pc[z] = "reply" /\ UNCHANGED negotiation
      /\ pc' = [pc EXCEPT ![z] = "select"]
      /\ answering' = [answering EXCEPT ![z] = NoAnswer]
  BY DEF SendReply, channelVars
<1>3. /\ i \in DOMAIN talks /\ talks[i] \in Talk /\ talks[i].to = z
      /\ \A j \in DOMAIN talks : talks[j].to \in Zones
  BY <1>1, <1>2, OfferTypes DEF OffersInv, OffersAccountedFor
<1>4. InHand(i) /\ ~Queued(i) /\ ~Replied(i) /\ talks[i].stage # "sending"
  BY <1>1, <1>2, <1>3 DEF InHand, OffersInv, OffersAccountedFor
<1>5. PICK t : t = [talks[i] EXCEPT !.reply = verdict]
  OBVIOUS
<1>6. t.to = z /\ t.stage = talks[i].stage /\ t.reply = verdict
  BY <1>3, <1>5 DEF Talk
<1>7. talks' = [talks EXCEPT ![i] = t]
  BY <1>1, <1>3, <1>4, <1>5 DEF SendReply, PutReply, Replied
<1>8. /\ DOMAIN talks' = DOMAIN talks
      /\ \A j \in DOMAIN talks : /\ talks'[j] = IF j = i THEN t ELSE talks[j]
                                 /\ talks'[j].to = talks[j].to
                                 /\ talks'[j].stage = talks[j].stage
  BY <1>3, <1>6, <1>7
<1>9. /\ \A y \in Zones \ {z} : pc'[y] = pc[y] /\ answering'[y] = answering[y]
      /\ pc'[z] = "select"
  BY <1>2 DEF OffersInv, TypeInv, TypeOK
<1>10. \A j \in DOMAIN talks : /\ Queued(j)' <=> Queued(j)
                               /\ Replied(j)' <=> Replied(j) \/ j = i
                               /\ InHand(j)' <=> InHand(j) /\ j # i
  <2>1. verdict # "empty"
    BY <1>1
  <2> QED
    BY <1>1, <1>2, <1>3, <1>6, <1>8, <1>9, <2>1 DEF Queued, Replied, InHand
<1>11. VerdictsKept
  <2>1. Pledged(i) = IF answering[z].accept THEN "absorb" ELSE "refuse"
    BY <1>3, <1>4 DEF Pledged
  <2>2. Pledged(i)' = IF verdict = "accepted" THEN "absorb" ELSE "refuse"
    BY <1>3, <1>6, <1>8, <1>10 DEF Pledged
  <2>3. ASSUME NEW j \in DOMAIN talks, j # i PROVE Pledged(j)' = Pledged(j)
    <3>1. CASE talks[j].to = z
      BY <1>1, <1>8, <1>10, <2>3, <3>1 DEF Pledged, InHand
    <3>2. CASE talks[j].to # z
      BY <1>3, <1>8, <1>9, <1>10, <2>3, <3>2 DEF Pledged
    <3> QED
      BY <3>1, <3>2
  <2> QED
    BY <1>1, <2>1, <2>2, <2>3 DEF VerdictsKept
<1>12. \A y \in Zones :
          /\ \A q \in DOMAIN negotiation[y] : negotiation[y][q] \in DOMAIN talks
          /\ pc[y] = "reply" => answering[y].talk \in DOMAIN talks
  BY OfferTypes DEF OffersInv
<1>13. OffersAccountedFor'
  BY <1>2, <1>4, <1>8, <1>9, <1>10, <1>12 DEF OffersInv, OffersAccountedFor
<1> QED
  BY <1>11, <1>13

\* A talk that starts has its offer still to send, and no zone knows of it.
LEMMA OffersShed ==
    ASSUME OffersInv, NEW z \in Zones, ShedLoad(z)
    PROVE  /\ OffersAccountedFor'
           /\ VerdictsKept
           /\ \A i \in DOMAIN talks' \ DOMAIN talks : Pledged(i)' = "none"
<1>1. /\ UNCHANGED <<negotiation, answering>>
      /\ \A y \in Zones : pc'[y] = "reply" <=> pc[y] = "reply"
  BY DEF ShedLoad, channelVars, OffersInv, TypeInv, TypeOK
<1>2. CASE scan[z].best = NoZone
  BY <1>1, <1>2, OffersQuiet DEF ShedLoad
<1>3. CASE scan[z].best # NoZone
  <2>1. PICK t : t = NewTalk(z, scan[z].best, scan[z].overflow)
    OBVIOUS
  <2>2. /\ t \in Talk /\ t.to \in Zones /\ t.stage = "sending" /\ t.reply = "empty"
    BY <1>3, <2>1 DEF NewTalk, Talk, Scan, OffersInv, TypeInv, TypeOK
  <2>3. talks' = Append(talks, t)
    BY <1>3, <2>1 DEF ShedLoad
  <2>4. PICK n : n = Len(talks) + 1
    OBVIOUS
  <2>5. /\ DOMAIN talks' = DOMAIN talks \cup {n} /\ n \notin DOMAIN talks
        /\ talks'[n] = t
        /\ \A j \in DOMAIN talks : talks'[j] = talks[j]
    BY <2>2, <2>3, <2>4 DEF OffersInv, TypeInv, TypeOK
  <2>6. /\ \A j \in DOMAIN talks : talks[j].to \in Zones
        /\ \A y \in Zones :
              /\ \A q \in DOMAIN negotiation[y] : negotiation[y][q] \in DOMAIN talks
              /\ pc[y] = "reply" => answering[y].talk \in DOMAIN talks
    BY OfferTypes DEF OffersInv
  <2>7. \A j \in DOMAIN talks : /\ Queued(j)' <=> Queued(j)
                                /\ Replied(j)' <=> Replied(j)
                                /\ InHand(j)' <=> InHand(j)
    BY <1>1, <2>5, <2>6 DEF Queued, Replied, InHand
  <2>8. ~Queued(n)' /\ ~Replied(n)' /\ ~InHand(n)'
    BY <1>1, <2>2, <2>5, <2>6 DEF Queued, Replied, InHand
  <2>9. VerdictsKept
    BY <1>1, <2>5, <2>6, <2>7 DEF VerdictsKept, Pledged
  <2>10. Pledged(n)' = "none"
    BY <2>8 DEF Pledged
  <2>11. OffersAccountedFor'
    BY <1>1, <2>2, <2>5, <2>6, <2>7, <2>8 DEF OffersInv, OffersAccountedFor
  <2> QED
    BY <2>5, <2>9, <2>10, <2>11
<1> QED
  BY <1>2, <1>3

\* Every step of a talk keeps its offer accounted for.
LEMMA OffersTalkStep ==
    ASSUME OffersInv, NEW i \in DOMAIN talks, TalkStep(i)
    PROVE  OffersAccountedFor' /\ VerdictsKept
<1>1. talks[i] \in Talk /\ talks \in Seq(Talk)
  BY DEF OffersInv, TypeInv, TypeOK
<1>2. ASSUME NEW a \in Answers, Return(i, a) PROVE OffersAccountedFor' /\ VerdictsKept
  <2>1. PICK t : t = [talks[i] EXCEPT !.stage = "answered", !.answer = a]
    OBVIOUS
  <2>2. /\ t \in Talk /\ t.to = talks[i].to /\ t.reply = talks[i].reply
        /\ t.stage = "answered"
    BY <1>1, <2>1 DEF Talk, Answers
  <2>3. talks' = [talks EXCEPT ![i] = t] /\ UNCHANGED <<negotiation, pc, answering>>
    BY <1>1, <1>2, <2>1 DEF Return, channelVars, agentVars
  <2> QED
    BY <2>2, <2>3, OffersTalk
<1>3. CASE TakeReply(i)
  BY <1>1, <1>2, <1>3 DEF TakeReply, Talk, Answers
<1>4. CASE TimeOut(i)
  BY <1>2, <1>4 DEF TimeOut, Answers
<1>5. CASE Cancel(i)
  BY <1>2, <1>5 DEF Cancel, Answers
<1>6. CASE Decide(i)
  <2>1. PICK c \in Consequences(i) :
            talks' = [talks EXCEPT ![i].stage = "decided",
                                   ![i].action = c[1], ![i].dest = c[2]]
    BY <1>6 DEF Decide
  <2>2. PICK t : t = [talks[i] EXCEPT !.stage = "decided", !.action = c[1], !.dest = c[2]]
    OBVIOUS
  <2>3. c[1] \in Actions /\ c[2] \in Places \cup {NoZone}
    <3>1. shuttleDestination(talks[i].from, talks[i].overflow) \subseteq Places
      BY DEF shuttleDestination, OffersInv, TypeInv, TypeOK
    <3>2. talks[i].to \in Places
      BY <1>1 DEF Talk, Places
    <3> QED
      BY <3>1, <3>2 DEF Consequences, Actions
  <2>4. /\ t \in Talk /\ t.to = talks[i].to /\ t.reply = talks[i].reply
        /\ t.stage = "decided"
    BY <1>1, <2>2, <2>3 DEF Talk
  <2>5. talks' = [talks EXCEPT ![i] = t] /\ UNCHANGED <<negotiation, pc, answering>>
    BY <1>1, <1>6, <2>1, <2>2 DEF Decide, channelVars, agentVars
  <2> QED
    BY <2>4, <2>5, OffersTalk
<1>7. CASE Intervene(i)
  <2>1. PICK t : t = [talks[i] EXCEPT !.stage = "done"]
    OBVIOUS
  <2>2. /\ t \in Talk /\ t.to = talks[i].to /\ t.reply = talks[i].reply
        /\ t.stage = "done"
    BY <1>1, <2>1 DEF Talk
  <2>3. talks' = [talks EXCEPT ![i] = t] /\ UNCHANGED <<negotiation, pc, answering>>
    BY <1>1, <1>7, <2>1 DEF Intervene, channelVars, agentVars
  <2> QED
    BY <2>2, <2>3, OffersTalk
<1> QED
  BY <1>3, <1>4, <1>5, <1>6, <1>7, OffersSend DEF TalkStep

\* A step that leaves talks, offers and the log alone.
LeavesTalksAlone ==
    /\ UNCHANGED <<talks, log, negotiation, answering>>
    /\ \A z \in Zones : pc'[z] = "reply" <=> pc[z] = "reply"

\* The steps of the network, as far as talks are concerned.
LEMMA KindsOfStep ==
    ASSUME TypeInv, [Next]_vars
    PROVE  \/ LeavesTalksAlone /\ (UNCHANGED phase \/ Shutdown \/ Exit)
           \/ \E z \in Zones : ShedLoad(z) \/ TakeOffer(z) \/ SendReply(z)
           \/ \E i \in DOMAIN talks : TalkStep(i)
<1>1. ASSUME NEW h \in Handlers, NEW b \in Batches, Post(h, b)
      PROVE  LeavesTalksAlone /\ UNCHANGED phase
  BY <1>1 DEF Post, LeavesTalksAlone, agentVars, channelVars
<1>2. ASSUME NEW h \in Handlers, Ingest(h) PROVE LeavesTalksAlone /\ UNCHANGED phase
  BY <1>2 DEF Ingest, SetFact, Deliver, LeavesTalksAlone, agentVars, channelVars
<1>3. ASSUME NEW z \in Zones, TakeSample(z) \/ ScanNeighbor(z) \/ Stop(z)
      PROVE  LeavesTalksAlone /\ UNCHANGED phase
  <2>1. pc \in [Zones -> {"select", "scan", "reply", "stopped"}]
    BY DEF TypeInv, TypeOK
  <2>2. UNCHANGED <<talks, log, negotiation, answering, phase>>
    BY <1>3 DEF TakeSample, ScanNeighbor, Stop, channelVars
  <2>3. \A y \in Zones : pc'[y] = "reply" <=> pc[y] = "reply"
    BY <1>3, <2>1 DEF TakeSample, evaluate, ScanNeighbor, Stop
  <2> QED
    BY <2>2, <2>3 DEF LeavesTalksAlone
<1>4. CASE Shutdown \/ Exit
  BY <1>4 DEF Shutdown, Exit, LeavesTalksAlone, agentVars, channelVars
<1>5. CASE UNCHANGED vars
  BY <1>5 DEF vars, LeavesTalksAlone, agentVars, channelVars
<1> QED
  BY <1>1, <1>2, <1>3, <1>4, <1>5 DEF Next, Agent

\* OffersAccountedFor is inductive beside the types.
LEMMA OffersStep == OffersInv /\ [Next]_vars => OffersInv'
<1> SUFFICES ASSUME OffersInv, [Next]_vars PROVE OffersInv'
  OBVIOUS
<1>1. TypeInv /\ TypeInv'
  BY TypeInvStep DEF OffersInv
<1>2. ASSUME NEW z \in Zones, TakeOffer(z) PROVE OffersAccountedFor'
  BY <1>2, OffersTake
<1> QED
  BY <1>1, <1>2, KindsOfStep, OffersQuiet, OffersShed, OffersReply, OffersTalkStep
     DEF OffersInv, LeavesTalksAlone

\* Nothing has been offered when the server starts.
LEMMA OffersInit == Init => OffersInv
<1> SUFFICES ASSUME Init PROVE OffersInv
  OBVIOUS
<1>1. /\ DOMAIN talks = {}
      /\ \A z \in Zones : DOMAIN negotiation[z] = {} /\ pc[z] = "select"
  BY DEF Init
<1> QED
  BY <1>1, TypeInvInit DEF OffersInv, OffersAccountedFor

\* No offer is lost between Negotiate's channel send and the buffered reply,
\* and no offer is answered twice or by a zone it was not addressed to, for
\* any number of talks and any capacity of the channels.
THEOREM NoOfferLost == Spec => []OffersAccountedFor
<1>1. OffersInv => OffersAccountedFor
  BY DEF OffersInv
<1> QED
  BY <1>1, OffersInit, OffersStep, PTL DEF Spec

-----------------------------------------------------------------------------
(* The audit log tells the story of every talk. The invariant follows the   *)
(* verdict instead of the answer: the zone that was asked has changed its   *)
(* signage exactly when its verdict was to absorb, whether or not the asker *)
(* has heard of it, and what the asker has heard is what was replied.       *)

AnswerIsReply ==
    \A i \in DOMAIN talks : talks[i].answer \in Verdicts => talks[i].reply = talks[i].answer

\* What the log holds about a talk between two zones.
StoryTold(i) ==
    /\ talks[i].stage # "done" => ByAsker(i) = {}
    /\ talks[i].stage = "done" => \E k \in DOMAIN log : ByAsker(i) = {k}
    /\ \A j, k \in ByAsked(i) : j = k
    /\ ByAsked(i) # {} <=> Pledged(i) = "absorb"

StoriesTold == \A i \in DOMAIN talks : talks[i].from # talks[i].to => StoryTold(i)

AuditInv == SignageInv /\ OffersAccountedFor /\ AnswerIsReply /\ StoriesTold

\* The invariant implies what the runs check: an answer is a verdict.
LEMMA StoriesMatch == AuditInv => AuditMatchesTalks
<1> SUFFICES ASSUME AuditInv, NEW i \in DOMAIN talks, talks[i].from # talks[i].to
             PROVE  /\ talks[i].stage # "done" => ByAsker(i) = {}
                    /\ talks[i].stage = "done" => \E k \in DOMAIN log : ByAsker(i) = {k}
                    /\ \A j, k \in ByAsked(i) : j = k
                    /\ talks[i].answer = "accepted" => ByAsked(i) # {}
                    /\ talks[i].answer = "rejected" => ByAsked(i) = {}
  BY DEF AuditMatchesTalks
<1>1. StoryTold(i) /\ (talks[i].answer \in Verdicts => talks[i].reply = talks[i].answer)
  BY DEF AuditInv, StoriesTold, AnswerIsReply
<1>2. talks[i].answer = "accepted" => Pledged(i) = "absorb"
  BY <1>1 DEF Pledged, Replied, Verdicts
<1>3. talks[i].answer = "rejected" => Pledged(i) = "refuse"
  BY <1>1 DEF Pledged, Replied, Verdicts
<1> QED
  BY <1>1, <1>2, <1>3 DEF StoryTold

\* A step that leaves the log, a talk's ends and its verdict alone leaves
\* its story alone, unless the talk is done now and was not before.
LEMMA StoryKept ==
    ASSUME NEW i \in DOMAIN talks, StoryTold(i), UNCHANGED log,
           talks'[i].from = talks[i].from, talks'[i].to = talks[i].to,
           talks'[i].stage = "done" <=> talks[i].stage = "done",
           Pledged(i)' = Pledged(i)
    PROVE  StoryTold(i)'
<1>1. ByAsker(i)' = ByAsker(i) /\ ByAsked(i)' = ByAsked(i)
  BY DEF ByAsker, ByAsked
<1> QED
  BY <1>1 DEF StoryTold

\* What a new entry adds to the story of a talk.
LEMMA StoryGrows ==
    ASSUME TypeInv, NEW e \in Intervention, log' = Append(log, e), NEW i \in DOMAIN talks,
           talks'[i].from = talks[i].from, talks'[i].to = talks[i].to
    PROVE  /\ Len(log) + 1 \in DOMAIN log' /\ Len(log) + 1 \notin DOMAIN log
           /\ DOMAIN log \subseteq DOMAIN log'
           /\ ByAsker(i)' = ByAsker(i) \cup
                 (IF e.about = i /\ e.zone = talks[i].from THEN {Len(log) + 1} ELSE {})
           /\ ByAsked(i)' = ByAsked(i) \cup
                 (IF e.about = i /\ e.zone = talks[i].to THEN {Len(log) + 1} ELSE {})
<1>1. PICK n : n = Len(log) + 1
  OBVIOUS
<1>2. /\ DOMAIN log' = DOMAIN log \cup {n} /\ n \notin DOMAIN log /\ log'[n] = e
      /\ \A k \in DOMAIN log : log'[k] = log[k]
  BY <1>1 DEF TypeInv, TypeOK
<1>3. ByAsker(i)' = ByAsker(i) \cup
         (IF e.about = i /\ e.zone = talks[i].from THEN {n} ELSE {})
  BY <1>2 DEF ByAsker
<1>4. ByAsked(i)' = ByAsked(i) \cup
         (IF e.about = i /\ e.zone = talks[i].to THEN {n} ELSE {})
  BY <1>2 DEF ByAsked
<1> QED
  BY <1>1, <1>2, <1>3, <1>4

\* An entry about something else leaves the story of a talk alone.
LEMMA StoryOfAnother ==
    ASSUME TypeInv, NEW e \in Intervention, log' = Append(log, e), NEW i \in DOMAIN talks,
           StoryTold(i), e.about # i,
           talks'[i].from = talks[i].from, talks'[i].to = talks[i].to,
           talks'[i].stage = "done" <=> talks[i].stage = "done",
           Pledged(i)' = Pledged(i)
    PROVE  StoryTold(i)'
<1>1. ByAsker(i)' = ByAsker(i) /\ ByAsked(i)' = ByAsked(i) /\ DOMAIN log \subseteq DOMAIN log'
  BY StoryGrows
<1> QED
  BY <1>1 DEF StoryTold

\* A talk that starts has no story yet.
LEMMA AuditShed ==
    ASSUME AuditInv, NEW z \in Zones, ShedLoad(z) PROVE AnswerIsReply' /\ StoriesTold'
<1> USE DEF AuditInv, SignageInv
<1>1. /\ VerdictsKept
      /\ \A i \in DOMAIN talks' \ DOMAIN talks : Pledged(i)' = "none"
  BY OffersShed DEF OffersInv
<1>2. CASE scan[z].best = NoZone
  <2>1. PICK e : e = Entry(z, "DISPATCH_STAFF", NoZone, 0)
    OBVIOUS
  <2>2. e \in Intervention /\ e.about = 0
    BY <2>1 DEF Entry, Actions, Intervention
  <2>3. log' = Append(log, e) /\ talks' = talks
    BY <1>2, <2>1 DEF ShedLoad
  <2>4. \A i \in DOMAIN talks : i # 0
    BY TalkAt
  <2>5. StoriesTold'
    BY <1>1, <2>2, <2>3, <2>4, StoryOfAnother DEF StoriesTold, VerdictsKept
  <2> QED
    BY <2>3, <2>5 DEF AnswerIsReply
<1>3. CASE scan[z].best # NoZone
  <2>1. PICK t : t = NewTalk(z, scan[z].best, scan[z].overflow)
    OBVIOUS
  <2>2. /\ t \in Talk /\ t.answer = "none" /\ t.stage = "sending"
    BY <1>3, <2>1 DEF NewTalk, Talk, Scan, TypeInv, TypeOK
  <2>3. talks' = Append(talks, t) /\ log' = log
    BY <1>3, <2>1 DEF ShedLoad
  <2>4. PICK n : n = Len(talks) + 1
    OBVIOUS
  <2>5. /\ DOMAIN talks' = DOMAIN talks \cup {n} /\ n \notin DOMAIN talks
        /\ talks'[n] = t
        /\ \A j \in DOMAIN talks : talks'[j] = talks[j]
    BY <2>2, <2>3, <2>4 DEF TypeInv, TypeOK
  <2>6. \A k \in DOMAIN log : log[k].about # n
    <3>1. /\ \A k \in DOMAIN log : log[k] \in Intervention
          /\ Len(talks) \in Nat
      BY DEF TypeInv, TypeOK
    <3>2. \A k \in DOMAIN log : log[k].about \in Nat /\ log[k].about <= Len(talks)
      BY <3>1 DEF Intervention, LogIsAboutTalks
    <3> QED
      BY <2>4, <3>1, <3>2
  <2>7. ByAsker(n)' = {} /\ ByAsked(n)' = {}
    BY <2>3, <2>6 DEF ByAsker, ByAsked
  <2>8. StoryTold(n)'
    BY <1>1, <2>2, <2>5, <2>7 DEF StoryTold
  <2>9. StoriesTold'
    BY <1>1, <2>3, <2>5, <2>8, StoryKept DEF StoriesTold, VerdictsKept
  <2> QED
    BY <2>2, <2>5, <2>9 DEF AnswerIsReply, Verdicts
<1> QED
  BY <1>2, <1>3

\* The zone that was asked changes its signage as it decides to absorb.
LEMMA AuditTake ==
    ASSUME AuditInv, NEW z \in Zones, TakeOffer(z) PROVE AnswerIsReply' /\ StoriesTold'
<1> USE DEF AuditInv, SignageInv
<1>1. PICK i, accept : /\ i = Head(negotiation[z]) /\ accept = CanAbsorb(z, talks[i])
                       /\ talks' = talks /\ log' = log \o SignageChange(z, i, accept)
  BY DEF TakeOffer
<1>2. /\ i \in DOMAIN talks /\ talks[i].to = z
      /\ Pledged(i) = "none"
      /\ Pledged(i)' = IF accept THEN "absorb" ELSE "refuse"
      /\ \A j \in DOMAIN talks \ {i} : Pledged(j)' = Pledged(j)
  BY <1>1, OffersTake DEF OffersInv
<1>3. talks[i] \in Talk /\ i \in Nat
  BY <1>2, TalkAt
<1>4. AnswerIsReply'
  BY <1>1 DEF AnswerIsReply
<1>5. CASE accept
  <2>1. PICK e : e = Entry(z, "SIGNAGE_REROUTE", talks[i].from, i)
    OBVIOUS
  <2>2. e \in Intervention /\ e.about = i /\ e.zone = z
    BY <1>3, <2>1 DEF Entry, Actions, Intervention, Talk, Places
  <2>3. log' = Append(log, e)
    <3>1. log' = log \o <<e>> /\ log \in Seq(Intervention)
      BY <1>1, <1>5, <2>1 DEF SignageChange, TypeInv, TypeOK
    <3> QED
      BY ONLY <2>2, <3>1
  <2>4. ASSUME talks[i].from # talks[i].to PROVE StoryTold(i)'
    <3>1. StoryTold(i)
      BY <1>2, <2>4 DEF StoriesTold
    <3>2. ByAsked(i) = {}
      BY <1>2, <3>1 DEF StoryTold
    <3>3. /\ ByAsker(i)' = ByAsker(i) /\ ByAsked(i)' = {Len(log) + 1}
          /\ DOMAIN log \subseteq DOMAIN log'
      BY <1>1, <1>2, <2>2, <2>3, <2>4, <3>2, StoryGrows
    <3> QED
      BY <1>1, <1>2, <1>5, <3>1, <3>3 DEF StoryTold
  <2>5. StoriesTold'
    BY <1>1, <1>2, <2>2, <2>3, <2>4, StoryOfAnother DEF StoriesTold
  <2> QED
    BY <1>4, <2>5
<1>6. CASE ~accept
  <2>1. log' = log
    BY <1>1, <1>6 DEF SignageChange, TypeInv, TypeOK
  <2>2. ASSUME talks[i].from # talks[i].to PROVE StoryTold(i)'
    <3>1. ByAsker(i)' = ByAsker(i) /\ ByAsked(i)' = ByAsked(i)
      BY <1>1, <2>1 DEF ByAsker, ByAsked
    <3>2. StoryTold(i)
      BY <1>2, <2>2 DEF StoriesTold
    <3> QED
      BY <1>1, <1>2, <1>6, <2>1, <3>1, <3>2 DEF StoryTold
  <2>3. StoriesTold'
    BY <1>1, <1>2, <2>1, <2>2, StoryKept DEF StoriesTold
  <2> QED
    BY <1>4, <2>3
<1>7. accept \in BOOLEAN
  BY <1>1 DEF CanAbsorb
<1> QED
  BY <1>5, <1>6, <1>7

\* A reply is put where there was none, so no answer is about another one.
LEMMA AuditReply ==
    ASSUME AuditInv, NEW z \in Zones, SendReply(z) PROVE AnswerIsReply' /\ StoriesTold'
<1> USE DEF AuditInv, SignageInv
<1>1. PICK i, verdict :
          /\ i = answering[z].talk
          /\ verdict = IF answering[z].accept THEN "accepted" ELSE "rejected"
          /\ talks' = IF talks[i].reply = "empty"
                      THEN [talks EXCEPT ![i].reply = verdict] ELSE talks
          /\ pc[z] = "reply" /\ log' = log
  BY DEF SendReply, PutReply
<1>2. i \in DOMAIN talks /\ \A j \in DOMAIN talks : talks[j] \in Talk
  BY <1>1, OfferTypes
<1>3. /\ DOMAIN talks' = DOMAIN talks
      /\ \A j \in DOMAIN talks : /\ talks'[j].from = talks[j].from
                                 /\ talks'[j].to = talks[j].to
                                 /\ talks'[j].stage = talks[j].stage
                                 /\ talks'[j].answer = talks[j].answer
                                 /\ talks[j].reply # "empty" => talks'[j].reply = talks[j].reply
  BY <1>1, <1>2 DEF Talk
<1>4. AnswerIsReply'
  BY <1>3 DEF AnswerIsReply, Verdicts
<1>5. VerdictsKept
  BY OffersReply DEF OffersInv
<1>6. StoriesTold'
  BY <1>1, <1>3, <1>5, StoryKept DEF StoriesTold, VerdictsKept
<1> QED
  BY <1>4, <1>6

\* A talk that ends enters its consequence; its other steps leave the log alone.
LEMMA AuditTalkStep ==
    ASSUME AuditInv, NEW i \in DOMAIN talks, TalkStep(i) PROVE AnswerIsReply' /\ StoriesTold'
<1> USE DEF AuditInv, SignageInv
<1>1. VerdictsKept
  BY OffersTalkStep DEF OffersInv
<1>2. talks[i] \in Talk /\ talks \in Seq(Talk) /\ i \in Nat
  BY TalkAt DEF TypeInv, TypeOK
<1>3. ASSUME NEW t, talks' = [talks EXCEPT ![i] = t], t.from = talks[i].from,
             t.to = talks[i].to, t.reply = talks[i].reply,
             t.answer \in Verdicts => t.answer = t.reply
      PROVE  /\ AnswerIsReply' /\ DOMAIN talks' = DOMAIN talks
             /\ \A j \in DOMAIN talks : /\ talks'[j] = IF j = i THEN t ELSE talks[j]
                                        /\ talks'[j].from = talks[j].from
                                        /\ talks'[j].to = talks[j].to
  BY <1>2, <1>3 DEF AnswerIsReply
<1>4. ASSUME NEW t, talks' = [talks EXCEPT ![i] = t], t.from = talks[i].from,
             t.to = talks[i].to, t.reply = talks[i].reply,
             t.answer \in Verdicts => t.answer = t.reply,
             t.stage # "done", talks[i].stage # "done", log' = log
      PROVE  AnswerIsReply' /\ StoriesTold'
  BY <1>1, <1>3, <1>4, StoryKept DEF StoriesTold, VerdictsKept
<1>5. ASSUME NEW a \in Answers, Return(i, a), a \in Verdicts => talks[i].reply = a,
             talks[i].stage \in {"sending", "waiting"}
      PROVE  AnswerIsReply' /\ StoriesTold'
  <2>1. PICK t : t = [talks[i] EXCEPT !.stage = "answered", !.answer = a]
    OBVIOUS
  <2>2. /\ t.from = talks[i].from /\ t.to = talks[i].to /\ t.reply = talks[i].reply
        /\ t.answer = a /\ t.stage = "answered"
    BY <1>2, <2>1 DEF Talk
  <2>3. talks' = [talks EXCEPT ![i] = t] /\ log' = log
    BY <1>2, <1>5, <2>1 DEF Return
  <2> QED
    BY <1>4, <1>5, <2>2, <2>3
<1>6. talks[i].answer \in Verdicts => talks[i].answer = talks[i].reply
  BY DEF AnswerIsReply
<1>7. CASE SendOffer(i)
  <2>1. PICK t : t = [talks[i] EXCEPT !.stage = "waiting"]
    OBVIOUS
  <2>2. /\ t.from = talks[i].from /\ t.to = talks[i].to /\ t.reply = talks[i].reply
        /\ t.answer = talks[i].answer /\ t.stage = "waiting"
    BY <1>2, <2>1 DEF Talk
  <2>3. talks' = [talks EXCEPT ![i] = t] /\ log' = log /\ talks[i].stage = "sending"
    BY <1>2, <1>7, <2>1 DEF SendOffer
  <2> QED
    BY <1>4, <1>6, <2>2, <2>3
<1>8. CASE TakeReply(i)
  BY <1>2, <1>5, <1>8 DEF TakeReply, Talk, Answers
<1>9. CASE TimeOut(i)
  BY <1>5, <1>9 DEF TimeOut, Answers, Verdicts
<1>10. CASE Cancel(i)
  BY <1>5, <1>10 DEF Cancel, Answers, Verdicts
<1>11. CASE Decide(i)
  <2>1. PICK c \in Consequences(i) :
            talks' = [talks EXCEPT ![i].stage = "decided",
                                   ![i].action = c[1], ![i].dest = c[2]]
    BY <1>11 DEF Decide
  <2>2. PICK t : t = [talks[i] EXCEPT !.stage = "decided", !.action = c[1], !.dest = c[2]]
    OBVIOUS
  <2>3. /\ t.from = talks[i].from /\ t.to = talks[i].to /\ t.reply = talks[i].reply
        /\ t.answer = talks[i].answer /\ t.stage = "decided"
    BY <1>2, <2>2 DEF Talk
  <2>4. talks' = [talks EXCEPT ![i] = t] /\ log' = log /\ talks[i].stage = "answered"
    BY <1>2, <1>11, <2>1, <2>2 DEF Decide
  <2> QED
    BY <1>4, <1>6, <2>3, <2>4
<1>12. CASE Intervene(i)
  <2>1. PICK t, e : /\ t = [talks[i] EXCEPT !.stage = "done"]
                    /\ e = Entry(talks[i].from, talks[i].action, talks[i].dest, i)
    OBVIOUS
  <2>2. /\ t.from = talks[i].from /\ t.to = talks[i].to /\ t.reply = talks[i].reply
        /\ t.answer = talks[i].answer /\ t.stage = "done"
    BY <1>2, <2>1 DEF Talk
  <2>3. e \in Intervention /\ e.about = i /\ e.zone = talks[i].from
    <3>1. talks[i].action \in Actions
      BY <1>12 DEF Intervene, TypeInv, DecidedTalksAct
    <3> QED
      BY <1>2, <2>1, <3>1 DEF Entry, Intervention, Talk
  <2>4. talks' = [talks EXCEPT ![i] = t] /\ log' = Append(log, e) /\ talks[i].stage = "decided"
    BY <1>2, <1>12, <2>1 DEF Intervene
  <2>5. /\ AnswerIsReply' /\ DOMAIN talks' = DOMAIN talks
        /\ \A j \in DOMAIN talks : /\ talks'[j] = IF j = i THEN t ELSE talks[j]
                                   /\ talks'[j].from = talks[j].from
                                   /\ talks'[j].to = talks[j].to
    BY <1>3, <1>6, <2>2, <2>4
  <2>6. ASSUME talks[i].from # talks[i].to PROVE StoryTold(i)'
    <3>1. StoryTold(i)
      BY <2>6 DEF StoriesTold
    <3>2. ByAsker(i) = {}
      BY <2>4, <3>1 DEF StoryTold
    <3>3. /\ ByAsked(i)' = ByAsked(i) /\ ByAsker(i)' = {Len(log) + 1}
          /\ Len(log) + 1 \in DOMAIN log'
      <4>1. /\ Len(log) + 1 \in DOMAIN log'
            /\ ByAsker(i)' = ByAsker(i) \cup
                  (IF e.about = i /\ e.zone = talks[i].from THEN {Len(log) + 1} ELSE {})
            /\ ByAsked(i)' = ByAsked(i) \cup
                  (IF e.about = i /\ e.zone = talks[i].to THEN {Len(log) + 1} ELSE {})
        BY <2>3, <2>4, <2>5, StoryGrows
      <4> QED
        BY <2>3, <2>6, <3>2, <4>1
    <3> QED
      BY <1>1, <2>2, <2>5, <3>1, <3>3 DEF StoryTold, VerdictsKept
  <2>7. StoriesTold'
    BY <1>1, <2>3, <2>4, <2>5, <2>6, StoryOfAnother DEF StoriesTold, VerdictsKept
  <2> QED
    BY <2>5, <2>7
<1> QED
  BY <1>7, <1>8, <1>9, <1>10, <1>11, <1>12 DEF TalkStep

\* AuditInv is inductive.
LEMMA AuditStep == AuditInv /\ [Next]_vars => AuditInv'
<1> SUFFICES ASSUME AuditInv, [Next]_vars PROVE AuditInv'
  OBVIOUS
<1>1. SignageInv' /\ OffersAccountedFor'
  BY SignageStep, OffersStep DEF AuditInv, SignageInv, OffersInv
<1>2. ASSUME LeavesTalksAlone PROVE AnswerIsReply' /\ StoriesTold'
  <2>1. VerdictsKept
    BY <1>2, OffersQuiet DEF LeavesTalksAlone, AuditInv, SignageInv, OffersInv
  <2> QED
    BY <1>2, <2>1, StoryKept
       DEF LeavesTalksAlone, AuditInv, AnswerIsReply, StoriesTold, VerdictsKept
<1>3. TypeInv
  BY DEF AuditInv, SignageInv
<1>4. AnswerIsReply' /\ StoriesTold'
  BY <1>2, <1>3, KindsOfStep, AuditShed, AuditTake, AuditReply, AuditTalkStep
<1> QED
  BY <1>1, <1>4 DEF AuditInv

\* There is no talk to tell of when the server starts.
LEMMA AuditInit == Init => AuditInv
<1> SUFFICES ASSUME Init PROVE AuditInv
  OBVIOUS
<1>1. DOMAIN talks = {}
  BY DEF Init
<1> QED
  BY <1>1, SignageInit, OffersInit DEF AuditInv, OffersInv, AnswerIsReply, StoriesTold

\* The audit log holds exactly one consequence of every talk that has ended
\* and none of another, at most one signage change of the zone that was
\* asked, one if the asker was told so and none if it was told the contrary,
\* whatever races the two-second timer and the shutdown.
THEOREM AuditTellsTheStory == Spec => []AuditMatchesTalks
<1> QED
  BY StoriesMatch, AuditInit, AuditStep, PTL DEF Spec

-----------------------------------------------------------------------------
(* The network implements LoadShedding, step by step. A talk is open from   *)
(* its start until its consequence is in the audit log; the verdict is the  *)
(* pledge, made as the offer is taken in hand.                              *)

Index == 1..MaxTalks

\* The contract's view of one overflow.
ShedOf(i) == IF Started(i) THEN Outcome(talks[i]) ELSE "none"
PledgeOf(i) == IF Started(i) THEN Pledged(i) ELSE "none"

\* The refinement mapping, overflow by overflow.
LEMMA BarsAreViews ==
    /\ shedBar = [i \in Index |-> ShedOf(i)]
    /\ pledgeBar = [i \in Index |-> PledgeOf(i)]
    /\ shedBar' = [i \in Index |-> ShedOf(i)']
    /\ pledgeBar' = [i \in Index |-> PledgeOf(i)']
BY DEF shedBar, pledgeBar, ShedOf, PledgeOf, Index, MaxTalks

\* A step that changes no overflow is invisible to the contract.
LEMMA Invisible ==
    ASSUME \A i \in Index : ShedOf(i)' = ShedOf(i) /\ PledgeOf(i)' = PledgeOf(i),
           phase' # "gone" <=> phase # "gone"
    PROVE  UNCHANGED Contract!vars
BY BarsAreViews DEF Contract!vars

\* A step that changes the outcome of one overflow, if the contract knows it.
LEMMA ShedChanges ==
    ASSUME NEW n \in Index, NEW v, ShedOf(n)' = v,
           \A i \in Index : PledgeOf(i)' = PledgeOf(i),
           \A i \in Index \ {n} : ShedOf(i)' = ShedOf(i)
    PROVE  shedBar' = [shedBar EXCEPT ![n] = v] /\ pledgeBar' = pledgeBar
BY BarsAreViews

\* A step that makes the pledge for one overflow.
LEMMA PledgeChanges ==
    ASSUME NEW n \in Index, NEW v, PledgeOf(n)' = v,
           \A i \in Index : ShedOf(i)' = ShedOf(i),
           \A i \in Index \ {n} : PledgeOf(i)' = PledgeOf(i)
    PROVE  pledgeBar' = [pledgeBar EXCEPT ![n] = v] /\ shedBar' = shedBar
BY BarsAreViews

\* The start of a talk raises its overflow.
LEMMA ContractShed ==
    ASSUME AuditInv, NEW z \in Zones, ShedLoad(z)
    PROVE  (\E i \in Index : Contract!Raise(i)) \/ UNCHANGED Contract!vars
<1>1. /\ phase # "gone" /\ UNCHANGED phase
      /\ VerdictsKept
      /\ \A i \in DOMAIN talks' \ DOMAIN talks : Pledged(i)' = "none"
      /\ TypeInv
  BY OffersShed DEF ShedLoad, AuditInv, SignageInv, OffersInv
<1>2. CASE scan[z].best = NoZone
  <2>1. talks' = talks
    BY <1>2 DEF ShedLoad
  <2>2. \A i \in Index : ShedOf(i)' = ShedOf(i) /\ PledgeOf(i)' = PledgeOf(i)
    BY <1>1, <2>1 DEF ShedOf, PledgeOf, Started, Outcome, VerdictsKept
  <2> QED
    BY <1>1, <2>2, Invisible
<1>3. CASE scan[z].best # NoZone
  <2>1. PICK t : t = NewTalk(z, scan[z].best, scan[z].overflow)
    OBVIOUS
  <2>2. t \in Talk /\ t.stage = "sending"
    BY <1>1, <1>3, <2>1 DEF NewTalk, Talk, Scan, TypeInv, TypeOK
  <2>3. talks' = Append(talks, t)
    BY <1>3, <2>1 DEF ShedLoad
  <2>4. PICK n : n = Len(talks) + 1
    OBVIOUS
  <2>5. /\ DOMAIN talks' = DOMAIN talks \cup {n} /\ n \notin DOMAIN talks
        /\ talks'[n] = t
        /\ \A j \in DOMAIN talks : talks'[j] = talks[j]
    BY <1>1, <2>2, <2>3, <2>4 DEF TypeInv, TypeOK
  <2>6. /\ \A i \in Index : PledgeOf(i)' = PledgeOf(i)
        /\ \A i \in Index \ {n} : ShedOf(i)' = ShedOf(i)
        /\ ShedOf(n) = "none" /\ ShedOf(n)' = "open"
    BY <1>1, <2>2, <2>5 DEF ShedOf, PledgeOf, Started, Outcome, VerdictsKept
  <2>7. CASE n \in Index
    <3>1. shedBar' = [shedBar EXCEPT ![n] = "open"] /\ pledgeBar' = pledgeBar
      BY <2>6, <2>7, ShedChanges
    <3>2. shedBar[n] = "none"
      BY <2>6, <2>7, BarsAreViews
    <3> QED
      BY <1>1, <2>7, <3>1, <3>2 DEF Contract!Raise
  <2>8. CASE n \notin Index
    BY <1>1, <2>6, <2>8, Invisible
  <2> QED
    BY <2>7, <2>8
<1> QED
  BY <1>2, <1>3

\* Taking an offer in hand makes the pledge, once.
LEMMA ContractTake ==
    ASSUME AuditInv, NEW z \in Zones, TakeOffer(z)
    PROVE  (\E i \in Index : Contract!Pledge(i)) \/ UNCHANGED Contract!vars
<1>1. PICK n, accept : n = Head(negotiation[z]) /\ accept = CanAbsorb(z, talks[n])
  OBVIOUS
<1>2. /\ n \in DOMAIN talks /\ Pledged(n) = "none"
      /\ Pledged(n)' = IF accept THEN "absorb" ELSE "refuse"
      /\ \A j \in DOMAIN talks \ {n} : Pledged(j)' = Pledged(j)
  BY <1>1, OffersTake DEF AuditInv, SignageInv, OffersInv
<1>3. talks' = talks /\ phase # "gone" /\ UNCHANGED phase
  BY DEF TakeOffer
<1>4. /\ \A i \in Index : ShedOf(i)' = ShedOf(i)
      /\ \A i \in Index \ {n} : PledgeOf(i)' = PledgeOf(i)
      /\ PledgeOf(n) = "none" /\ PledgeOf(n)' \in {"absorb", "refuse"}
      /\ ShedOf(n) # "none"
  BY <1>2, <1>3 DEF ShedOf, PledgeOf, Started, Outcome
<1>5. CASE n \in Index
  <2>1. PICK p \in {"absorb", "refuse"} : PledgeOf(n)' = p
    BY <1>4
  <2>2. pledgeBar' = [pledgeBar EXCEPT ![n] = p] /\ shedBar' = shedBar
    BY <1>4, <1>5, <2>1, PledgeChanges
  <2>3. shedBar[n] # "none" /\ pledgeBar[n] = "none"
    BY <1>4, <1>5, BarsAreViews
  <2> QED
    BY <1>3, <1>5, <2>2, <2>3 DEF Contract!Pledge
<1>6. CASE n \notin Index
  BY <1>3, <1>4, <1>6, Invisible
<1> QED
  BY <1>5, <1>6

\* The reply carries a pledge that has been made.
LEMMA ContractReply ==
    ASSUME AuditInv, NEW z \in Zones, SendReply(z) PROVE UNCHANGED Contract!vars
<1>1. VerdictsKept /\ UNCHANGED phase
  BY OffersReply DEF SendReply, AuditInv, SignageInv, OffersInv
<1>2. /\ DOMAIN talks' = DOMAIN talks
      /\ \A j \in DOMAIN talks : /\ talks'[j].stage = talks[j].stage
                                 /\ talks'[j].action = talks[j].action
  <2>1. /\ answering[z].talk \in DOMAIN talks
        /\ \A j \in DOMAIN talks : talks[j] \in Talk
    BY OfferTypes DEF SendReply, AuditInv, SignageInv
  <2> QED
    BY <2>1 DEF SendReply, PutReply, Talk
<1>3. \A i \in Index : ShedOf(i)' = ShedOf(i) /\ PledgeOf(i)' = PledgeOf(i)
  BY <1>1, <1>2 DEF ShedOf, PledgeOf, Started, Outcome, VerdictsKept
<1> QED
  BY <1>1, <1>3, Invisible

\* A talk settles its overflow as it enters its consequence, by a reroute
\* only if the neighbour has pledged to absorb.
LEMMA ContractTalkStep ==
    ASSUME AuditInv, NEW n \in DOMAIN talks, TalkStep(n)
    PROVE  (\E i \in Index : Contract!Settle(i)) \/ UNCHANGED Contract!vars
<1>1. VerdictsKept
  BY OffersTalkStep DEF AuditInv, SignageInv, OffersInv
<1>2. talks[n] \in Talk /\ talks \in Seq(Talk)
  BY DEF AuditInv, SignageInv, TypeInv, TypeOK
<1>3. phase # "gone" /\ UNCHANGED phase
  BY DEF TalkStep, SendOffer, TakeReply, TimeOut, Cancel, Decide, Intervene, Return
<1>4. CASE ~Intervene(n)
  <2>1. /\ DOMAIN talks' = DOMAIN talks
        /\ \A j \in DOMAIN talks : /\ talks'[j].stage = "done" <=> talks[j].stage = "done"
                                   /\ talks[j].stage = "done" => talks'[j].action = talks[j].action
    <3>1. \A a : Return(n, a) /\ talks[n].stage # "done" =>
             /\ DOMAIN talks' = DOMAIN talks /\ talks'[n].stage = "answered"
             /\ \A j \in DOMAIN talks \ {n} : talks'[j] = talks[j]
      BY <1>2 DEF Return, Talk
    <3>2. CASE SendOffer(n)
      BY <1>2, <3>2 DEF SendOffer, Talk
    <3>3. CASE TakeReply(n) \/ TimeOut(n) \/ Cancel(n)
      BY <3>1, <3>3 DEF TakeReply, TimeOut, Cancel
    <3>4. CASE Decide(n)
      BY <1>2, <3>4 DEF Decide, Talk
    <3> QED
      BY <1>4, <3>2, <3>3, <3>4 DEF TalkStep
  <2>2. \A i \in Index : ShedOf(i)' = ShedOf(i) /\ PledgeOf(i)' = PledgeOf(i)
    BY <1>1, <2>1 DEF ShedOf, PledgeOf, Started, Outcome, VerdictsKept
  <2> QED
    BY <1>3, <2>2, Invisible
<1>5. CASE Intervene(n)
  <2>1. PICK t : t = [talks[n] EXCEPT !.stage = "done"]
    OBVIOUS
  <2>2. t.stage = "done" /\ t.action = talks[n].action
    BY <1>2, <2>1 DEF Talk
  <2>3. talks' = [talks EXCEPT ![n] = t] /\ talks[n].stage = "decided"
    BY <1>2, <1>5, <2>1 DEF Intervene
  <2>4. /\ DOMAIN talks' = DOMAIN talks
        /\ \A j \in DOMAIN talks : talks'[j] = IF j = n THEN t ELSE talks[j]
    BY <1>2, <2>3
  <2>5. PICK v : v = IF talks[n].action = "SIGNAGE_REROUTE" THEN "rerouted" ELSE "escalated"
    OBVIOUS
  <2>6. /\ \A i \in Index : PledgeOf(i)' = PledgeOf(i)
        /\ \A i \in Index \ {n} : ShedOf(i)' = ShedOf(i)
        /\ ShedOf(n) = "open" /\ ShedOf(n)' = v
    BY <1>1, <2>2, <2>3, <2>4, <2>5 DEF ShedOf, PledgeOf, Started, Outcome, VerdictsKept
  <2>7. v = "rerouted" => PledgeOf(n) = "absorb"
    <3>1. v = "rerouted" => talks[n].answer = "accepted"
      BY <2>5 DEF AuditInv, SignageInv, RerouteAccepted
    <3>2. talks[n].answer = "accepted" => talks[n].reply = "accepted"
      BY DEF AuditInv, AnswerIsReply, Verdicts
    <3> QED
      BY <3>1, <3>2 DEF PledgeOf, Started, Pledged, Replied
  <2>8. CASE n \in Index
    <3>1. shedBar' = [shedBar EXCEPT ![n] = v] /\ pledgeBar' = pledgeBar
      BY <2>6, <2>8, ShedChanges
    <3>2. shedBar[n] = "open" /\ (v = "rerouted" => pledgeBar[n] = "absorb")
      BY <2>6, <2>7, <2>8, BarsAreViews
    <3>3. Contract!Settle(n)
      BY <1>3, <2>5, <3>1, <3>2 DEF Contract!Settle, Contract!Reroute, Contract!Escalate
    <3> QED
      BY <2>8, <3>3
  <2>9. CASE n \notin Index
    BY <1>3, <2>6, <2>9, Invisible
  <2> QED
    BY <2>8, <2>9
<1> QED
  BY <1>4, <1>5

\* Every step of the network is a step of the contract or invisible to it.
LEMMA ContractStep == AuditInv /\ [Next]_vars => [Contract!Next]_(Contract!vars)
<1> SUFFICES ASSUME AuditInv, [Next]_vars
             PROVE  Contract!Next \/ UNCHANGED Contract!vars
  OBVIOUS
<1>1. CASE LeavesTalksAlone /\ (UNCHANGED phase \/ Shutdown \/ Exit)
  <2>1. VerdictsKept
    BY <1>1, OffersQuiet DEF LeavesTalksAlone, AuditInv, SignageInv, OffersInv
  <2>2. \A i \in Index : ShedOf(i)' = ShedOf(i) /\ PledgeOf(i)' = PledgeOf(i)
    BY <1>1, <2>1
       DEF LeavesTalksAlone, ShedOf, PledgeOf, Started, Outcome, VerdictsKept
  <2>3. CASE UNCHANGED phase \/ Shutdown
    BY <2>2, <2>3, Invisible DEF Shutdown
  <2>4. CASE Exit
    <3>1. shedBar' = shedBar /\ pledgeBar' = pledgeBar
      BY <2>2, BarsAreViews
    <3>2. Contract!Halt
      BY <2>4, <3>1 DEF Exit, Contract!Halt
    <3> QED
      BY <3>2 DEF Contract!Next
  <2> QED
    BY <1>1, <2>3, <2>4
<1>2. TypeInv
  BY DEF AuditInv, SignageInv
<1> QED
  BY <1>1, <1>2, KindsOfStep, ContractShed, ContractTake, ContractReply, ContractTalkStep
     DEF Contract!Next, Index

\* The contract starts without overflows.
LEMMA ContractInit == Init => Contract!Init
<1> SUFFICES ASSUME Init PROVE Contract!Init
  OBVIOUS
<1>1. \A i \in Index : ShedOf(i) = "none" /\ PledgeOf(i) = "none"
  BY DEF Init, ShedOf, PledgeOf, Started
<1>2. phase # "gone"
  BY DEF Init
<1> QED
  BY <1>1, <1>2, BarsAreViews DEF Contract!Init, Index

\* Whatever the agents, channels, timers and the shutdown do, each of their
\* steps is a step of LoadShedding or invisible to it: an overflow is raised,
\* pledged upon and settled at most once each, and rerouted only on a pledge.
THEOREM NetworkRefinesContract == Spec => Contract!Spec
<1> QED
  BY AuditInit, AuditStep, ContractInit, ContractStep, PTL DEF Spec, Contract!Spec
=============================================================================
