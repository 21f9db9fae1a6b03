--------------------------- MODULE OperatorConsole ---------------------------
(***************************************************************************)
(* The operator terminal (app/operate/page.tsx) and its lead zone          *)
(* (components/ZoneLead.tsx): zones and scenario injections, the zone that *)
(* leads, the reroute that takes two presses, its POST, and the banner.    *)
(* The log's list is LivePages and the connection StreamClient.            *)
(*                                                                         *)
(* React works in steps that other events come between: an event updates   *)
(* the state, a render computes the screen from it and commits it, and the *)
(* effects of what was committed run later, when the browser has painted.  *)
(*                                                                         *)
(* Of a metric only congestion and density matter to the lead. Of the list *)
(* of interventions this module keeps whether an injection has put entries *)
(* into it, which never happened.                                          *)
(***************************************************************************)
EXTENDS Integers, Sequences, FiniteSets

CONSTANTS
    ZoneIds,     \* zones that may report
    ZoneOrder,   \* ZONE_ORDER of the page, which need not list them all
    GateA,       \* the zone of the bottleneck injection
    EPier,       \* the zone of the emergency injection
    Readings,    \* per zone: what its metrics say, [congestion, density]
    Answers,     \* the lists that the GET of the zones may bring
    Bottleneck,  \* what the bottleneck injection says (CRITICAL, 1.45)
    Emergency    \* what the emergency injection says (CRITICAL, 2.1)

Congestion == {"LOW", "MODERATE", "HIGH", "CRITICAL"}
Reading == [congestion : Congestion, density : Nat]
ZoneState == [id : ZoneIds, reading : Reading]

\* The backend sends each zone once.
ToldApart(list) == \A j, k \in DOMAIN list : list[j].id = list[k].id => j = k

ASSUME ConsoleAssumption ==
    /\ IsFiniteSet(ZoneIds) /\ "none" \notin ZoneIds
    /\ {GateA, EPier} \subseteq ZoneIds /\ GateA # EPier
    /\ ZoneOrder \in Seq(ZoneIds) /\ \A j, k \in DOMAIN ZoneOrder : ZoneOrder[j] = ZoneOrder[k] => j = k
    /\ Readings \in [ZoneIds -> SUBSET Reading] /\ {Bottleneck, Emergency} \subseteq Reading
    /\ Answers \subseteq Seq(ZoneState)
    /\ \A list \in Answers : ToldApart(list)

VARIABLES
    zones,          \* the latest metric of each zone, in the order the zones first came
    zonesPending,   \* the GET of the zones is under way
    zoneOverrides,  \* zones with an injected reading
    invented,       \* the list of interventions has entries of injections
    displayed,      \* the lead on the screen, or "none"
    effectDue,      \* the effect of the last change of lead has not run
    displaced,      \* history: the lead on the screen before that change
    armed,          \* the button says CONFIRM REROUTE?
    armTimer,       \* the four seconds that end this are running
    armedFor,       \* history: the lead when the button was armed, or "none"
    post,           \* the POST of an override
    banner,         \* the tone of the banner, or "none"
    bannerTimers    \* four-second timers of banners: of this one, of an older one

zoneVars == <<zones, zonesPending, zoneOverrides>>
screenVars == <<displayed, effectDue, displaced>>
buttonVars == <<armed, armTimer, armedFor>>
bannerVars == <<banner, bannerTimers>>
vars == <<zoneVars, invented, screenVars, buttonVars, post, bannerVars>>

NoPost == [at |-> "none", zone |-> "none"]

Init ==
    /\ zones = <<>> /\ zonesPending = TRUE /\ zoneOverrides = {}
    /\ invented = FALSE
    /\ displayed = "none" /\ effectDue = FALSE /\ displaced = "none"
    /\ armed = FALSE /\ armTimer = FALSE /\ armedFor = "none"
    /\ post = NoPost
    /\ banner = "none" /\ bannerTimers = {}

-----------------------------------------------------------------------------
(* What the screen is computed from. *)

SeverityRank == [LOW |-> 0, MODERATE |-> 1, HIGH |-> 2, CRITICAL |-> 3]

Injected(id) == IF id = GateA THEN Bottleneck ELSE Emergency

\* A zone and its reading, the injected one if there is one.
effectiveZones ==
    [k \in DOMAIN zones |->
        IF zones[k].id \in zoneOverrides THEN [zones[k] EXCEPT !.reading = Injected(zones[k].id)]
                                         ELSE zones[k]]

\* Mutant: the density decides.
Takes_ByDensity(b, a) == b.density > a.density
Takes(b, a) ==
    \/ SeverityRank[b.congestion] > SeverityRank[a.congestion]
    \/ SeverityRank[b.congestion] = SeverityRank[a.congestion] /\ b.density > a.density

\* The reduce over Object.values: a zone takes the lead from those before it.
LeadOf(list) ==
    LET best[k \in 1..Len(list)] ==
          IF k = 1 THEN 1
          ELSE IF Takes(list[k].reading, list[best[k - 1]].reading) THEN k ELSE best[k - 1]
    IN IF list = <<>> THEN "none" ELSE list[best[Len(list)]].id

lead == LeadOf(effectiveZones)

\* CONGESTION_STYLE: the accent colour is for what needs attention.
Attention(level) == level \in {"HIGH", "CRITICAL"}

Known == {zones[k].id : k \in DOMAIN zones}

\* The zones of the order that have data, for the top bar and for the field,
\* each by its place in the order.
zoneList == {k \in DOMAIN ZoneOrder : ZoneOrder[k] \in Known}
rows == {k \in zoneList : ZoneOrder[k] # lead}

Count(level) ==
    Cardinality({k \in zoneList : \E j \in DOMAIN zones :
                    zones[j].id = ZoneOrder[k] /\ effectiveZones[j].reading.congestion = level})

-----------------------------------------------------------------------------
(* The banner. *)

\* Mutant: the timer of the banner before goes on.
flash_KeepsTimer(tone) ==
    /\ banner' = tone
    /\ bannerTimers' = {"own"} \cup (IF bannerTimers = {} THEN {} ELSE {"older"})
flash(tone) ==
    /\ banner' = tone
    /\ bannerTimers' = {"own"}

BannerLapses(t) ==
    /\ t \in bannerTimers
    /\ banner' = "none"
    /\ bannerTimers' = bannerTimers \ {t}
    /\ UNCHANGED <<zoneVars, invented, screenVars, buttonVars, post>>

-----------------------------------------------------------------------------
(* Zones. *)

\* A metric of a known zone takes the place of the last.
Metric(id, r) ==
    /\ zones' = IF id \in Known
                THEN [k \in DOMAIN zones |-> IF zones[k].id = id THEN [id |-> id, reading |-> r]
                                                                 ELSE zones[k]]
                ELSE Append(zones, [id |-> id, reading |-> r])
    /\ UNCHANGED <<zonesPending, zoneOverrides, invented, screenVars, buttonVars, post, bannerVars>>

\* The answer to the GET replaces everything, though the stream may have
\* brought newer metrics since, or zones that had none when it was made up.
ZonesFetched(list) ==
    /\ zonesPending
    /\ zonesPending' = FALSE
    /\ zones' = list
    /\ UNCHANGED <<zoneOverrides, invented, screenVars, buttonVars, post, bannerVars>>

ZonesFailed ==
    /\ zonesPending
    /\ zonesPending' = FALSE
    /\ UNCHANGED <<zones, zoneOverrides, invented, screenVars, buttonVars, post, bannerVars>>

\* handleInjectBottleneck, handleInjectEmergencyBlock, handleResetFlow.
Inject(id) ==
    /\ zoneOverrides' = zoneOverrides \cup {id}
    /\ invented' = TRUE
    /\ flash("error")
    /\ UNCHANGED <<zones, zonesPending, screenVars, buttonVars, post>>

ResetFlow ==
    /\ zoneOverrides' = {}
    /\ flash("ok")
    /\ UNCHANGED <<zones, zonesPending, invented, screenVars, buttonVars, post>>

\* The list is fetched after every onopen, and has no injections in it.
ListFetched ==
    /\ invented' = FALSE
    /\ UNCHANGED <<zoneVars, screenVars, buttonVars, post, bannerVars>>

-----------------------------------------------------------------------------
(* The screen. *)

Disarmed == armed' = FALSE /\ armTimer' = FALSE /\ armedFor' = "none"

\* A render commits another lead; effects of the last one run before React
\* renders again. Without a lead there is no ZoneLead and its state is gone.
Commit ==
    /\ ~effectDue
    /\ displayed # lead
    /\ displayed' = lead
    /\ displaced' = displayed
    /\ effectDue' = (lead # "none")
    /\ IF lead = "none" THEN Disarmed ELSE UNCHANGED buttonVars
    /\ UNCHANGED <<zoneVars, invented, post, bannerVars>>

\* The effect of [zone.zone_id]: the cleanup of the last one clears the timer,
\* and the button is disarmed.
\* Mutant: only the cleanup.
LeadEffect_CleanupOnly ==
    /\ effectDue
    /\ effectDue' = FALSE
    /\ armTimer' = FALSE
    /\ UNCHANGED <<zoneVars, invented, displayed, displaced, armed, armedFor, post, bannerVars>>
LeadEffect ==
    /\ effectDue
    /\ effectDue' = FALSE
    /\ Disarmed
    /\ UNCHANGED <<zoneVars, invented, displayed, displaced, post, bannerVars>>

-----------------------------------------------------------------------------
(* The button and its POST. *)

busy == post.at # "none"

Arm ==
    /\ displayed # "none" /\ ~busy /\ ~armed
    /\ armed' = TRUE
    /\ armTimer' = TRUE
    /\ armedFor' = displayed
    /\ UNCHANGED <<zoneVars, invented, screenVars, post, bannerVars>>

\* The second press executes, for the zone that is on the screen.
Confirm ==
    /\ displayed # "none" /\ ~busy /\ armed
    /\ Disarmed
    /\ post' = [at |-> "sent", zone |-> displayed]
    /\ UNCHANGED <<zoneVars, invented, screenVars, bannerVars>>

ArmLapses ==
    /\ armTimer
    /\ Disarmed
    /\ UNCHANGED <<zoneVars, invented, screenVars, post, bannerVars>>

\* fetchWithTimeout: the headers of the answer end the five seconds; its body
\* may take as long as it likes.
PostAnswered ==
    /\ post.at = "sent"
    /\ post' = [post EXCEPT !.at = "answered"]
    /\ UNCHANGED <<zoneVars, invented, screenVars, buttonVars, bannerVars>>

PostDone ==
    /\ post.at = "answered"
    /\ post' = NoPost
    /\ flash("ok")
    /\ UNCHANGED <<zoneVars, invented, screenVars, buttonVars>>

\* The five seconds are over, or the request or its answer breaks.
PostTimeout ==
    /\ post.at = "sent"
    /\ post' = NoPost
    /\ flash("error")
    /\ UNCHANGED <<zoneVars, invented, screenVars, buttonVars>>

PostFails ==
    /\ busy
    /\ post' = NoPost
    /\ flash("error")
    /\ UNCHANGED <<zoneVars, invented, screenVars, buttonVars>>

-----------------------------------------------------------------------------

Zones ==
    \/ \E id \in ZoneIds : \E r \in Readings[id] : Metric(id, r)
    \/ \E list \in Answers : ZonesFetched(list)
    \/ ZonesFailed
Demo == Inject(GateA) \/ Inject(EPier) \/ ResetFlow
Screen == ListFetched \/ Commit \/ LeadEffect
Timers == ArmLapses \/ PostTimeout \/ \E t \in {"own", "older"} : BannerLapses(t)
Button == Arm \/ Confirm \/ PostAnswered \/ PostDone \/ PostFails

Next == Zones \/ Demo \/ Screen \/ Timers \/ Button

Spec == Init /\ [][Next]_vars

\* React renders and runs effects, and timers fire. Nothing is assumed of the
\* backend, the network or the operator.
FairSpec ==
    /\ Spec
    /\ WF_vars(Commit) /\ WF_vars(LeadEffect)
    /\ WF_vars(ArmLapses) /\ WF_vars(PostTimeout)
    /\ WF_vars(BannerLapses("own")) /\ WF_vars(BannerLapses("older"))

-----------------------------------------------------------------------------
(* Properties. *)

Leads == ZoneIds \cup {"none"}

\* A banner has four seconds of its own: the timer of an earlier one never
\* takes it off, and there is one that will.
BannerOwnsTimer == bannerTimers = IF banner = "none" THEN {} ELSE {"own"}

\* Zones are known by their ids, and banners have their timers.
TypeOK ==
    /\ zones \in Seq(ZoneState) /\ ToldApart(zones)
    /\ zonesPending \in BOOLEAN
    /\ zoneOverrides \subseteq {GateA, EPier}
    /\ {displayed, displaced, armedFor} \subseteq Leads
    /\ {invented, effectDue, armed, armTimer} \subseteq BOOLEAN
    /\ post \in [at : {"none", "sent", "answered"}, zone : Leads]
    /\ banner \in {"none", "ok", "error"}
    /\ BannerOwnsTimer

\* The lead is the worst zone: none is more severe, none as severe is denser,
\* and of several alike it is the one that has been known longest, whatever
\* order metrics, lists and injections come in. A calm crowd never hides a
\* CRITICAL zone, however dense it is: the lead is in the accent colour as soon
\* as any zone needs attention, and the top bar counts it. Every other zone with
\* data is in the field, once. (A zone that ZONE_ORDER does not list is seen only
\* while it leads, and never counted.)
LeadIsWorst ==
    /\ lead = "none" <=> zones = <<>>
    /\ \A j, k \in DOMAIN zones : effectiveZones[k].id = lead =>
          LET a == effectiveZones[k].reading
              b == effectiveZones[j].reading IN
          /\ Attention(b.congestion) => Attention(a.congestion)
          /\ SeverityRank[b.congestion] <= SeverityRank[a.congestion]
          /\ b.congestion = a.congestion => b.density <= a.density
          /\ b = a => k <= j
          /\ a.congestion \in {"HIGH", "CRITICAL"} /\ (\E i \in DOMAIN ZoneOrder : ZoneOrder[i] = lead)
                => Count(a.congestion) > 0
    /\ \A id \in Known :
          Cardinality({k \in rows : ZoneOrder[k] = id}) =
              (IF id # lead /\ \E k \in DOMAIN ZoneOrder : ZoneOrder[k] = id THEN 1 ELSE 0)

\* A reroute is for the zone on the screen, and takes two presses on it: if the
\* lead changed after the first, the second does not execute. There is a gap in
\* that: a new lead is on the screen before the effect that disarms the button
\* has run, and a press that falls between the two executes for the new lead on
\* the strength of a press for the old. The gap is no wider: the first press was
\* for the lead that this last change took off the screen, never an earlier one.
SameZoneTwice ==
    [][post.at = "none" /\ post'.at = "sent" =>
          /\ post'.zone = displayed
          /\ armedFor = displayed \/ (effectDue /\ armedFor = displaced)]_vars

\* A button that is armed does not stay so: it is pressed, or it lapses, even
\* if the lead changes and takes the timer with it. And a pressed one is not left
\* hanging by a backend that does not answer.
ButtonSettles == (armed ~> ~armed) /\ (post.at = "sent" ~> post.at # "sent")
=============================================================================
