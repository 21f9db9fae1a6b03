------------------------ MODULE OperatorConsoleProofs ------------------------
(***************************************************************************)
(* Theorems about OperatorConsole, for every set of zones, every reading   *)
(* and every answer of the backend.                                        *)
(*                                                                         *)
(* The lead is computed by a recursive function over the list of zones.    *)
(* That there is one, and that it finds the worst zone, is proved by the   *)
(* least place where it would not be so (Least).                           *)
(***************************************************************************)
EXTENDS OperatorConsole, SequenceTheorems, FiniteSetTheorems, WellFoundedInduction, TLAPS

-----------------------------------------------------------------------------
(* The button and the banner. *)

\* What makes a reroute take two presses on one zone: an armed button is armed
\* for the zone on the screen or, while the effect that disarms it is due, for
\* the one that was there before.
ArmedForDisplayed == armed => armedFor = displayed \/ (effectDue /\ armedFor = displaced)

LEMMA ArmedInit == Init => ArmedForDisplayed
  BY DEF Init, ArmedForDisplayed

\* Actions that leave the button and the screen alone.
LEMMA ArmedQuiet ==
    ASSUME ArmedForDisplayed, UNCHANGED <<screenVars, buttonVars>>
    PROVE  ArmedForDisplayed'
  BY DEF ArmedForDisplayed, screenVars, buttonVars

LEMMA ArmedNext == ArmedForDisplayed /\ [Next]_vars => ArmedForDisplayed'
<1> SUFFICES ASSUME ArmedForDisplayed, [Next]_vars PROVE ArmedForDisplayed'
  OBVIOUS
<1>1. CASE Zones \/ Demo \/ ListFetched \/ UNCHANGED vars
  <2>1. UNCHANGED <<screenVars, buttonVars>>
    BY <1>1 DEF Zones, Demo, Metric, ZonesFetched, ZonesFailed, Inject, ResetFlow, ListFetched, vars
  <2>2. QED
    BY <2>1, ArmedQuiet
<1>2. CASE Commit
  <2>1. CASE lead = "none"
    BY <1>2, <2>1 DEF Commit, Disarmed, ArmedForDisplayed
  <2>2. CASE lead # "none"
    BY <1>2, <2>2 DEF Commit, ArmedForDisplayed, buttonVars
  <2>3. QED
    BY <2>1, <2>2
<1>3. CASE LeadEffect \/ ArmLapses \/ Confirm
  BY <1>3 DEF LeadEffect, ArmLapses, Confirm, Disarmed, ArmedForDisplayed
<1>4. CASE Arm
  BY <1>4 DEF Arm, ArmedForDisplayed, screenVars
<1>5. CASE PostAnswered \/ PostDone \/ PostTimeout \/ PostFails \/ (\E t \in {"own", "older"} : BannerLapses(t))
  <2>1. UNCHANGED <<screenVars, buttonVars>>
    BY <1>5 DEF PostAnswered, PostDone, PostTimeout, PostFails, BannerLapses
  <2>2. QED
    BY <2>1, ArmedQuiet
<1>6. QED
  BY <1>1, <1>2, <1>3, <1>4, <1>5 DEF Next, Screen, Timers, Button

\* A reroute takes two presses on the zone on the screen, whatever metrics and
\* injections come between them, but for a press between the commit of a new
\* lead and its effect, where the first press was for the lead just displaced
\* (handleClick and the effect of ZoneLead, and onOverride, which gets the zone
\* on the screen).
THEOREM SameZoneTwiceHolds == Spec => SameZoneTwice
<1>1. ArmedForDisplayed /\ [Next]_vars =>
          [post.at = "none" /\ post'.at = "sent" =>
              /\ post'.zone = displayed
              /\ armedFor = displayed \/ (effectDue /\ armedFor = displaced)]_vars
  <2> SUFFICES ASSUME ArmedForDisplayed, Next, post.at = "none", post'.at = "sent"
               PROVE  /\ post'.zone = displayed
                      /\ armedFor = displayed \/ (effectDue /\ armedFor = displaced)
    BY DEF vars
  <2>1. CASE Confirm
    <3>1. post' = [at |-> "sent", zone |-> displayed] /\ armed
      BY <2>1 DEF Confirm
    <3>2. QED
      BY <3>1 DEF ArmedForDisplayed
  <2>2. CASE PostAnswered \/ PostDone \/ PostTimeout \/ PostFails
    BY <2>2 DEF PostAnswered, PostDone, PostTimeout, PostFails, NoPost, busy
  <2>3. CASE Zones \/ Demo \/ Screen \/ ArmLapses \/ Arm \/ (\E t \in {"own", "older"} : BannerLapses(t))
    BY <2>3 DEF Zones, Demo, Screen, Metric, ZonesFetched, ZonesFailed, Inject, ResetFlow, ListFetched,
                Commit, LeadEffect, ArmLapses, Arm, BannerLapses
  <2>4. QED
    BY <2>1, <2>2, <2>3 DEF Next, Timers, Button
<1>2. QED
  BY <1>1, ArmedInit, ArmedNext, PTL DEF Spec, SameZoneTwice

\* A banner is never cut short by the timer of the one before it, and the timer
\* that takes it off runs (flash of the terminal, which clears what it replaces).
THEOREM BannerIsItsOwn == Spec => []BannerOwnsTimer
<1>1. Init => BannerOwnsTimer
  BY DEF Init, BannerOwnsTimer
<1>2. BannerOwnsTimer /\ [Next]_vars => BannerOwnsTimer'
  <2> SUFFICES ASSUME BannerOwnsTimer, [Next]_vars PROVE BannerOwnsTimer'
    OBVIOUS
  <2>1. CASE \E t \in {"own", "older"} : BannerLapses(t)
    BY <2>1 DEF BannerLapses, BannerOwnsTimer
  <2>2. CASE Demo \/ PostDone \/ PostTimeout \/ PostFails
    BY <2>2 DEF Demo, Inject, ResetFlow, PostDone, PostTimeout, PostFails, flash, BannerOwnsTimer
  <2>3. CASE UNCHANGED bannerVars
    BY <2>3 DEF bannerVars, BannerOwnsTimer
  <2>4. Zones \/ Screen \/ ArmLapses \/ Arm \/ Confirm \/ PostAnswered \/ UNCHANGED vars => UNCHANGED bannerVars
    BY DEF Zones, Metric, ZonesFetched, ZonesFailed, Screen, ListFetched, Commit, LeadEffect, ArmLapses,
           Arm, Confirm, PostAnswered, vars
  <2>5. QED
    BY <2>1, <2>2, <2>3, <2>4 DEF Next, Timers, Button
<1>3. QED
  BY <1>1, <1>2, PTL DEF Spec

-----------------------------------------------------------------------------
(* Zones. *)

\* At first no zone has reported.
LEMMA ZonesInit == Init => zones \in Seq(ZoneState) /\ ToldApart(zones)
<1>1. <<>> \in Seq(ZoneState) /\ DOMAIN <<>> = {}
  BY EmptySeq
<1>2. QED
  BY <1>1 DEF Init, ToldApart

\* A metric takes the place of the last of its zone, or comes to the end.
LEMMA MetricKeepsApart ==
    ASSUME zones \in Seq(ZoneState), ToldApart(zones), NEW id \in ZoneIds, NEW r \in Readings[id], Metric(id, r)
    PROVE  zones' \in Seq(ZoneState) /\ ToldApart(zones)'
<1> DEFINE n == Len(zones)
           new == [id |-> id, reading |-> r]
<1>1. n \in Nat /\ DOMAIN zones = 1..n /\ zones \in [1..n -> ZoneState]
  BY LenProperties
<1>2. new \in ZoneState /\ new.id = id
  BY ConsoleAssumption DEF ZoneState
<1>3. CASE id \in Known
  <2>1. zones' = [k \in 1..n |-> IF zones[k].id = id THEN new ELSE zones[k]]
    BY <1>1, <1>3 DEF Metric
  <2>2. zones' \in [1..n -> ZoneState]
    BY <1>1, <1>2, <2>1
  <2>3. zones' \in Seq(ZoneState) /\ DOMAIN zones' = 1..n
    BY <1>1, <2>2
  <2>4. \A k \in 1..n : zones'[k].id = zones[k].id
    BY <1>2, <2>1
  <2>5. QED
    BY <1>1, <2>3, <2>4 DEF ToldApart
<1>4. CASE id \notin Known
  <2>1. zones' = Append(zones, new)
    BY <1>4 DEF Metric
  <2>2. /\ zones' \in Seq(ZoneState) /\ Len(zones') = n + 1
        /\ \A k \in 1..n : zones'[k] = zones[k]
        /\ zones'[n + 1] = new
    BY <1>2, <2>1, AppendProperties
  <2>3. DOMAIN zones' = 1..(n + 1)
    BY <2>2, LenProperties
  <2>4. \A k \in 1..n : zones[k].id # id
    BY <1>1, <1>4 DEF Known
  <2>5. ASSUME NEW j \in 1..(n + 1), NEW k \in 1..(n + 1), zones'[j].id = zones'[k].id PROVE j = k
    <3>1. CASE j \in 1..n /\ k \in 1..n
      BY <1>1, <2>2, <2>5, <3>1 DEF ToldApart
    <3>2. CASE j \in 1..n /\ k = n + 1
      BY <1>2, <2>2, <2>4, <2>5, <3>2
    <3>3. CASE j = n + 1 /\ k \in 1..n
      BY <1>2, <2>2, <2>4, <2>5, <3>3
    <3>4. \A i \in 1..(n + 1) : i \in 1..n \/ i = n + 1
      BY <1>1
    <3>5. QED
      BY <3>1, <3>2, <3>3, <3>4
  <2>6. QED
    BY <2>2, <2>3, <2>5 DEF ToldApart
<1>5. QED
  BY <1>3, <1>4

\* Zones are in the list once, and two of them may have an injected reading.
ZonesInv == zones \in Seq(ZoneState) /\ ToldApart(zones) /\ zoneOverrides \subseteq {GateA, EPier}

\* Metrics, the answer to the GET and injections keep it so.
LEMMA ZonesNext == ZonesInv /\ [Next]_vars => ZonesInv'
<1> SUFFICES ASSUME ZonesInv, [Next]_vars PROVE ZonesInv'
  OBVIOUS
<1>1. ASSUME NEW id \in ZoneIds, NEW r \in Readings[id], Metric(id, r) PROVE ZonesInv'
  <2>1. zoneOverrides' = zoneOverrides
    BY <1>1 DEF Metric
  <2>2. QED
    BY <1>1, <2>1, MetricKeepsApart DEF ZonesInv
<1>2. ASSUME NEW list \in Answers, ZonesFetched(list) PROVE ZonesInv'
  BY <1>2, ConsoleAssumption DEF ZonesFetched, ZonesInv, ToldApart
<1>3. CASE UNCHANGED zones /\ zoneOverrides' \subseteq {GateA, EPier}
  BY <1>3 DEF ZonesInv, ToldApart
<1>4. CASE Demo
  <2>1. zones' = zones /\ zoneOverrides' \subseteq {GateA, EPier}
    BY <1>4 DEF Demo, Inject, ResetFlow, ZonesInv
  <2>2. QED
    BY <1>3, <2>1
<1>5. ZonesFailed \/ Screen \/ Timers \/ Button \/ UNCHANGED vars => UNCHANGED <<zones, zoneOverrides>>
  BY DEF ZonesFailed, Screen, ListFetched, Commit, LeadEffect, Timers, ArmLapses, PostTimeout, BannerLapses,
         Button, Arm, Confirm, PostAnswered, PostDone, PostFails, vars, zoneVars
<1>6. QED
  BY <1>1, <1>2, <1>3, <1>4, <1>5 DEF Next, Zones, ZonesInv

\* A zone has its own id and a reading, injected or not.
LEMMA EffectiveFacts ==
    ASSUME ZonesInv
    PROVE  /\ effectiveZones \in Seq(ZoneState) /\ Len(effectiveZones) = Len(zones)
           /\ Len(zones) \in Nat /\ DOMAIN zones = 1..Len(zones)
           /\ \A k \in DOMAIN zones : /\ effectiveZones[k].id = zones[k].id
                                      /\ zones[k].id \in ZoneIds /\ effectiveZones[k].reading \in Reading
<1>1. Len(zones) \in Nat /\ DOMAIN zones = 1..Len(zones) /\ \A k \in DOMAIN zones : zones[k] \in ZoneState
  BY LenProperties, ElementOfSeq DEF ZonesInv
<1>2. \A k \in DOMAIN zones : effectiveZones[k] \in ZoneState /\ effectiveZones[k].id = zones[k].id
  <2> SUFFICES ASSUME NEW k \in DOMAIN zones
               PROVE  effectiveZones[k] \in ZoneState /\ effectiveZones[k].id = zones[k].id
    OBVIOUS
  <2>1. zones[k] \in ZoneState /\ Injected(zones[k].id) \in Reading
    BY <1>1, ConsoleAssumption DEF Injected
  <2>2. [zones[k] EXCEPT !.reading = Injected(zones[k].id)] \in ZoneState
    BY <2>1 DEF ZoneState
  <2>3. [zones[k] EXCEPT !.reading = Injected(zones[k].id)].id = zones[k].id
    BY <2>1 DEF ZoneState
  <2>4. QED
    BY <2>1, <2>2, <2>3 DEF effectiveZones
<1>3. effectiveZones \in [1..Len(zones) -> ZoneState]
  BY <1>1, <1>2 DEF effectiveZones
<1>4. effectiveZones \in Seq(ZoneState) /\ Len(effectiveZones) = Len(zones)
  BY <1>1, <1>3
<1>5. QED
  BY <1>1, <1>2, <1>4 DEF ZoneState

-----------------------------------------------------------------------------
(* The lead. *)

\* A set of numbers has a least one.
LEMMA Least == ASSUME NEW S \in SUBSET Nat, S # {} PROVE \E x \in S : \A y \in S : x <= y
<1>1. PICK x \in S : \A y \in S : ~(<<y, x>> \in OpToRel(<, Nat))
  BY NatLessThanWellFounded, WFMin
<1>2. \A y \in S : ~(y < x)
  BY <1>1 DEF OpToRel
<1>3. QED
  BY <1>2

\* The values of the table.
LEMMA Ranks ==
    /\ SeverityRank["LOW"] = 0 /\ SeverityRank["MODERATE"] = 1
    /\ SeverityRank["HIGH"] = 2 /\ SeverityRank["CRITICAL"] = 3
  BY DEF SeverityRank

\* Takes orders readings, and what does not take the lead from a does not take it
\* from what takes it from a.
LEMMA TakesOrders ==
    ASSUME NEW a \in Reading, NEW b \in Reading, NEW c \in Reading
    PROVE  /\ ~Takes(a, a)
           /\ Takes(b, a) => ~Takes(a, b)
           /\ Takes(b, a) /\ ~Takes(c, a) => Takes(b, c)
<1>1. \A r \in Reading : r.congestion \in Congestion /\ r.density \in Nat
  BY DEF Reading
<1>2. \A level \in Congestion : SeverityRank[level] \in Nat
  BY Ranks DEF Congestion
<1>3. PICK A, B, C \in Nat : A = SeverityRank[a.congestion] /\ B = SeverityRank[b.congestion]
                             /\ C = SeverityRank[c.congestion]
  BY <1>1, <1>2
<1>4. a.density \in Nat /\ b.density \in Nat /\ c.density \in Nat
  BY <1>1
<1>5. /\ Takes(b, a) <=> B > A \/ (B = A /\ b.density > a.density)
      /\ Takes(a, b) <=> A > B \/ (A = B /\ a.density > b.density)
      /\ Takes(c, a) <=> C > A \/ (C = A /\ c.density > a.density)
      /\ Takes(b, c) <=> B > C \/ (B = C /\ b.density > c.density)
      /\ Takes(a, a) <=> A > A \/ (A = A /\ a.density > a.density)
  BY <1>3 DEF Takes
<1>6. QED
  BY <1>3, <1>4, <1>5

\* The reduce of LeadOf, as the function it is.
Step(list, best, k) ==
    IF k = 1 THEN 1 ELSE IF Takes(list[k].reading, list[best[k - 1]].reading) THEN k ELSE best[k - 1]
Best(list) == CHOOSE best : best = [k \in 1..Len(list) |-> Step(list, best, k)]

\* It is: LeadOf expands to it.
LEMMA LeadIsBest ==
    ASSUME NEW list
    PROVE  LeadOf(list) = IF list = <<>> THEN "none" ELSE list[Best(list)[Len(list)]].id
  BY DEF LeadOf, Best, Step

\* There is such a function, since there is no least length without one.
LEMMA BestExists == ASSUME NEW list, NEW n \in Nat PROVE \E best : best = [k \in 1..n |-> Step(list, best, k)]
<1> DEFINE Solved(m) == \E best : best = [k \in 1..m |-> Step(list, best, k)]
           S == {m \in Nat : ~Solved(m)}
<1>1. SUFFICES ASSUME S # {} PROVE FALSE
  OBVIOUS
<1>2. PICK m \in S : \A y \in S : m <= y
  BY <1>1, Least
<1>3. m \in Nat /\ ~Solved(m)
  OBVIOUS
<1>4. Solved(0)
  <2>1. [k \in 1..0 |-> 1] = [k \in 1..0 |-> Step(list, [i \in 1..0 |-> 1], k)]
    <3>1. \A k \in 1..0 : FALSE
      OBVIOUS
    <3>2. QED
      BY <3>1
  <2>2. QED
    BY <2>1
<1> HIDE DEF Solved
<1>5. m # 0 /\ m - 1 \in Nat
  BY <1>3, <1>4
<1>6. Solved(m - 1)
  BY <1>2, <1>5
<1>7. PICK f : f = [k \in 1..(m - 1) |-> Step(list, f, k)]
  BY <1>6 DEF Solved
<1> DEFINE g == [k \in 1..m |-> IF k = m THEN Step(list, f, m) ELSE f[k]]
<1>8. \A k \in 1..m : g[k] = Step(list, g, k)
  <2> SUFFICES ASSUME NEW k \in 1..m PROVE g[k] = Step(list, g, k)
    OBVIOUS
  <2>1. g[k] = Step(list, f, k)
    <3>1. CASE k = m
      BY <3>1
    <3>2. CASE k # m
      <4>1. k \in 1..(m - 1)
        BY <1>3, <3>2
      <4>2. g[k] = f[k]
        BY <3>2
      <4>3. QED
        BY <1>7, <4>1, <4>2
    <3>3. QED
      BY <3>1, <3>2
  <2>2. k # 1 => g[k - 1] = f[k - 1]
    <3>1. k # 1 => k - 1 \in 1..m /\ k - 1 # m
      BY <1>3
    <3>2. QED
      BY <3>1
  <2> HIDE DEF g
  <2>3. Step(list, f, k) = Step(list, g, k)
    BY <2>2 DEF Step
  <2>4. QED
    BY <2>1, <2>3
<1>9. g = [k \in 1..m |-> Step(list, g, k)]
  <2>1. DOMAIN g = 1..m /\ g = [k \in 1..m |-> g[k]]
    OBVIOUS
  <2> HIDE DEF g
  <2>2. [k \in 1..m |-> g[k]] = [k \in 1..m |-> Step(list, g, k)]
    BY <1>8
  <2>3. QED
    BY <2>1, <2>2
<1>10. Solved(m)
  BY <1>9 DEF Solved
<1>11. QED
  BY <1>3, <1>10

\* b leads the first k of a list: none of them takes the lead from it, and it takes
\* the lead from each that comes before it.
Tops(list, b, k) ==
    /\ b \in 1..k
    /\ \A j \in 1..k : ~Takes(list[j].reading, list[b].reading)
    /\ \A j \in 1..k : j < b => Takes(list[b].reading, list[j].reading)

\* The reduce goes on by one zone.
LEMMA NextTops ==
    ASSUME NEW list \in Seq(ZoneState), NEW k \in 1..Len(list), k # 1, NEW b, Tops(list, b, k - 1)
    PROVE  Tops(list, IF Takes(list[k].reading, list[b].reading) THEN k ELSE b, k)
<1>1. Len(list) \in Nat /\ k - 1 \in Nat /\ k \in Nat
  BY LenProperties
<1>2. \A j \in 1..k : list[j].reading \in Reading
  <2>1. \A j \in 1..k : j \in 1..Len(list)
    BY <1>1
  <2>2. \A j \in 1..Len(list) : list[j] \in ZoneState
    BY ElementOfSeq
  <2>3. QED
    BY <2>1, <2>2 DEF ZoneState
<1>3. (\A j \in 1..k : j \in 1..(k - 1) \/ j = k) /\ (\A j \in 1..(k - 1) : j \in 1..k /\ j < k /\ ~(k < j)) /\ k \in 1..k
  BY <1>1
<1>4. b \in 1..(k - 1) /\ b \in 1..k
  BY <1>3 DEF Tops
<1>5. CASE Takes(list[k].reading, list[b].reading)
  <2>1. ASSUME NEW j \in 1..(k - 1) PROVE Takes(list[k].reading, list[j].reading)
    BY <1>2, <1>3, <1>4, <1>5, TakesOrders DEF Tops
  <2>2. ASSUME NEW j \in 1..k PROVE ~Takes(list[j].reading, list[k].reading)
    <3>1. CASE j = k
      BY <1>2, <3>1, TakesOrders
    <3>2. CASE j \in 1..(k - 1)
      BY <1>2, <1>3, <2>1, <3>2, TakesOrders
    <3>3. QED
      BY <1>3, <3>1, <3>2
  <2>3. ASSUME NEW j \in 1..k, j < k PROVE Takes(list[k].reading, list[j].reading)
    BY <1>1, <2>1, <2>3
  <2>4. Tops(list, k, k)
    BY <1>3, <2>2, <2>3 DEF Tops
  <2>5. QED
    BY <1>5, <2>4
<1>6. CASE ~Takes(list[k].reading, list[b].reading)
  <2>1. \A j \in 1..k : ~Takes(list[j].reading, list[b].reading)
    BY <1>3, <1>6 DEF Tops
  <2>2. ASSUME NEW j \in 1..k, j < b PROVE Takes(list[b].reading, list[j].reading)
    <3>1. j \in 1..(k - 1)
      BY <1>1, <1>4, <2>2
    <3>2. QED
      BY <2>2, <3>1 DEF Tops
  <2>3. Tops(list, b, k)
    BY <1>4, <2>1, <2>2 DEF Tops
  <2>4. QED
    BY <1>6, <2>3
<1>7. QED
  BY <1>5, <1>6

\* At each place the reduce has the zone that leads so far: there is no least place
\* where it has not.
LEMMA BestTops ==
    ASSUME NEW list \in Seq(ZoneState), NEW k \in 1..Len(list)
    PROVE  Tops(list, Best(list)[k], k)
<1> DEFINE best == Best(list)
           S == {m \in 1..Len(list) : ~Tops(list, best[m], m)}
<1>1. Len(list) \in Nat
  BY LenProperties
<1>2. best = [m \in 1..Len(list) |-> Step(list, best, m)]
  BY <1>1, BestExists DEF Best
<1> HIDE DEF best
<1>3. SUFFICES ASSUME S # {} PROVE FALSE
  BY DEF best
<1>4. S \in SUBSET Nat
  BY <1>1
<1>5. PICK m \in S : \A y \in S : m <= y
  BY <1>3, <1>4, Least
<1>6. m \in 1..Len(list) /\ m \in Nat /\ ~Tops(list, best[m], m)
  BY <1>4
<1>7. best[m] = Step(list, best, m)
  BY <1>2, <1>6
<1>8. m # 1
  <2>1. 1 \in 1..Len(list) => Tops(list, 1, 1)
    <3>1. SUFFICES ASSUME 1 \in 1..Len(list) PROVE Tops(list, 1, 1)
      OBVIOUS
    <3>2. list[1] \in ZoneState
      BY <3>1, ElementOfSeq
    <3>3. list[1].reading \in Reading
      BY <3>2 DEF ZoneState
    <3>4. \A j \in 1..1 : j = 1 /\ ~(j < 1)
      OBVIOUS
    <3>5. QED
      BY <3>3, <3>4, TakesOrders DEF Tops
  <2>2. m = 1 => best[m] = 1
    BY <1>7 DEF Step
  <2>3. QED
    BY <1>6, <2>1, <2>2
<1>9. m - 1 \in 1..Len(list) /\ ~(m <= m - 1)
  BY <1>1, <1>6, <1>8
<1>10. Tops(list, best[m - 1], m - 1)
  BY <1>5, <1>9
<1>11. best[m] = IF Takes(list[m].reading, list[best[m - 1]].reading) THEN m ELSE best[m - 1]
  BY <1>7, <1>8 DEF Step
<1>12. QED
  BY <1>6, <1>8, <1>10, <1>11, NextTops

\* The lead of the screen, when there is a zone at all.
LEMMA LeadTops ==
    ASSUME ZonesInv
    PROVE  /\ zones = <<>> => lead = "none"
           /\ zones # <<>> => \E b \in DOMAIN zones : lead = zones[b].id /\ Tops(effectiveZones, b, Len(zones))
<1>1. CASE zones = <<>>
  <2>1. Len(effectiveZones) = 0 /\ effectiveZones \in Seq(ZoneState)
    BY <1>1, EffectiveFacts
  <2>2. effectiveZones = <<>>
    BY <2>1, EmptySeq
  <2>3. QED
    BY <1>1, <2>2, LeadIsBest DEF lead
<1>2. CASE zones # <<>>
  <2>1. Len(zones) \in Nat /\ Len(zones) # 0
    BY <1>2, EmptySeq DEF ZonesInv
  <2>2. Len(zones) \in 1..Len(zones)
    BY <2>1
  <2>3. effectiveZones \in Seq(ZoneState) /\ Len(effectiveZones) = Len(zones) /\ effectiveZones # <<>>
    BY <2>1, EffectiveFacts
  <2>4. PICK b : b = Best(effectiveZones)[Len(zones)]
    OBVIOUS
  <2>5. lead = effectiveZones[b].id
    BY <2>3, <2>4, LeadIsBest DEF lead
  <2>6. Tops(effectiveZones, b, Len(zones))
    BY <2>2, <2>3, <2>4, BestTops
  <2>7. b \in DOMAIN zones
    BY <2>6, EffectiveFacts DEF Tops
  <2>8. QED
    BY <1>2, <2>5, <2>6, <2>7, EffectiveFacts
<1>3. QED
  BY <1>1, <1>2

\* A zone of the lead is the one that tops the list.
LEMMA LeadIsOnTop ==
    ASSUME ZonesInv, NEW k \in DOMAIN zones, effectiveZones[k].id = lead
    PROVE  Tops(effectiveZones, k, Len(zones))
<1>1. zones # <<>>
  BY EmptySeq
<1>2. PICK b \in DOMAIN zones : lead = zones[b].id /\ Tops(effectiveZones, b, Len(zones))
  BY <1>1, LeadTops
<1>3. k = b
  BY <1>2, EffectiveFacts DEF ZonesInv, ToldApart
<1>4. QED
  BY <1>2, <1>3

\* A zone of ZONE_ORDER is counted under its congestion.
LEMMA LeadIsCounted ==
    ASSUME ZonesInv, NEW k \in DOMAIN zones, NEW i \in DOMAIN ZoneOrder, ZoneOrder[i] = zones[k].id
    PROVE  Count(effectiveZones[k].reading.congestion) > 0
<1> DEFINE Same == {m \in zoneList : \E j \in DOMAIN zones :
                       zones[j].id = ZoneOrder[m] /\ effectiveZones[j].reading.congestion = effectiveZones[k].reading.congestion}
<1>1. i \in Same
  BY DEF zoneList, Known
<1>2. DOMAIN ZoneOrder = 1..Len(ZoneOrder) /\ Len(ZoneOrder) \in Nat
  BY ConsoleAssumption, LenProperties
<1>3. Same \in SUBSET DOMAIN ZoneOrder
  BY DEF zoneList
<1>4. IsFiniteSet(DOMAIN ZoneOrder)
  BY <1>2, FS_Interval
<1>5. Count(effectiveZones[k].reading.congestion) = Cardinality(Same)
  BY DEF Count
<1> HIDE DEF Same
<1>6. IsFiniteSet(Same)
  BY <1>3, <1>4, FS_Subset
<1>7. Cardinality(Same) \in Nat /\ Cardinality(Same) # 0
  BY <1>1, <1>6, FS_CardinalityType, FS_EmptySet
<1>8. QED
  BY <1>5, <1>7

\* A zone has a place in the field unless it leads, and one place.
LEMMA RowsOnce ==
    ASSUME NEW id \in Known
    PROVE  Cardinality({k \in rows : ZoneOrder[k] = id}) =
              (IF id # lead /\ \E k \in DOMAIN ZoneOrder : ZoneOrder[k] = id THEN 1 ELSE 0)
<1>1. CASE id # lead /\ \E k \in DOMAIN ZoneOrder : ZoneOrder[k] = id
  <2>1. PICK i \in DOMAIN ZoneOrder : ZoneOrder[i] = id
    BY <1>1
  <2>2. {k \in rows : ZoneOrder[k] = id} = {i}
    BY <1>1, <2>1, ConsoleAssumption DEF rows, zoneList
  <2>3. Cardinality({i}) = 1
    BY FS_Singleton
  <2>4. Cardinality({k \in rows : ZoneOrder[k] = id}) = Cardinality({i})
    BY <2>2
  <2>5. QED
    BY <1>1, <2>3, <2>4
<1>2. CASE ~(id # lead /\ \E k \in DOMAIN ZoneOrder : ZoneOrder[k] = id)
  <2>1. {k \in rows : ZoneOrder[k] = id} = {}
    BY <1>2 DEF rows, zoneList
  <2>2. Cardinality({k \in rows : ZoneOrder[k] = id}) = Cardinality({})
    BY <2>1
  <2>3. QED
    BY <1>2, <2>2, FS_EmptySet
<1>3. QED
  BY <1>1, <1>2

\* The conjuncts of LeadIsWorst, one by one.
LEMMA WorstLeads == ZonesInv => LeadIsWorst
<1> SUFFICES ASSUME ZonesInv PROVE LeadIsWorst
  OBVIOUS
<1>1. lead = "none" <=> zones = <<>>
  <2>1. ASSUME NEW b \in DOMAIN zones, lead = zones[b].id PROVE lead # "none"
    BY <2>1, EffectiveFacts, ConsoleAssumption
  <2>2. QED
    BY <2>1, LeadTops
<1>2. ASSUME NEW j \in DOMAIN zones, NEW k \in DOMAIN zones, effectiveZones[k].id = lead
      PROVE  LET a == effectiveZones[k].reading
                 b == effectiveZones[j].reading IN
             /\ Attention(b.congestion) => Attention(a.congestion)
             /\ SeverityRank[b.congestion] <= SeverityRank[a.congestion]
             /\ b.congestion = a.congestion => b.density <= a.density
             /\ b = a => k <= j
             /\ a.congestion \in {"HIGH", "CRITICAL"} /\ (\E i \in DOMAIN ZoneOrder : ZoneOrder[i] = lead)
                   => Count(a.congestion) > 0
  <2>1. PICK a, b \in Reading : a = effectiveZones[k].reading /\ b = effectiveZones[j].reading
    BY EffectiveFacts
  <2>2. /\ a.congestion \in Congestion /\ b.congestion \in Congestion
        /\ a.density \in Nat /\ b.density \in Nat
    BY DEF Reading
  <2>3. ~Takes(b, a) /\ (j < k => Takes(a, b)) /\ j \in Nat /\ k \in Nat
    BY <1>2, <2>1, LeadIsOnTop, EffectiveFacts DEF Tops
  <2>4. SeverityRank[b.congestion] <= SeverityRank[a.congestion]
    BY <2>2, <2>3, Ranks DEF Takes, Congestion
  <2>5. b.congestion = a.congestion => b.density <= a.density
    BY <2>2, <2>3 DEF Takes
  <2>6. Attention(b.congestion) => Attention(a.congestion)
    BY <2>2, <2>4, Ranks DEF Attention, Congestion
  <2>7. b = a => k <= j
    BY <2>3, TakesOrders
  <2>8. (\E i \in DOMAIN ZoneOrder : ZoneOrder[i] = lead) => Count(a.congestion) > 0
    BY <1>2, <2>1, LeadIsCounted, EffectiveFacts
  <2>9. QED
    BY <2>1, <2>4, <2>5, <2>6, <2>7, <2>8
<1>3. QED
  BY <1>1, <1>2, RowsOnce DEF LeadIsWorst

\* The lead is the worst zone, whatever order metrics, lists and injections come
\* in, and every other zone with data has its row (the reduce, zoneList and rows of
\* the terminal, and the counts of TopBar).
THEOREM LeadIsWorstHolds == Spec => []LeadIsWorst
<1>1. Init => ZonesInv
  BY ZonesInit DEF ZonesInv, Init
<1>2. QED
  BY <1>1, ZonesNext, WorstLeads, PTL DEF Spec

-----------------------------------------------------------------------------
(* The rest of the state. *)

\* The lead is a zone, or nobody.
LEMMA LeadType == ZonesInv => lead \in Leads
  BY LeadTops, EffectiveFacts DEF Leads

\* What is on the screen is a zone or nothing.
ScreenTypes ==
    /\ zonesPending \in BOOLEAN /\ invented \in BOOLEAN
    /\ displayed \in Leads /\ effectDue \in BOOLEAN /\ displaced \in Leads
    /\ armed \in BOOLEAN /\ armTimer \in BOOLEAN /\ armedFor \in Leads
    /\ post \in [at : {"none", "sent", "answered"}, zone : Leads]
    /\ banner \in {"none", "ok", "error"}

\* One step per kind of event.
LEMMA ScreenNext == ZonesInv /\ ScreenTypes /\ [Next]_vars => ScreenTypes'
<1> SUFFICES ASSUME ZonesInv, ScreenTypes, [Next]_vars PROVE ScreenTypes'
  OBVIOUS
<1>0. "none" \in Leads
  BY DEF Leads
<1>1. CASE Zones \/ Demo \/ ListFetched
  <2>1. /\ zonesPending' \in BOOLEAN /\ invented' \in BOOLEAN
        /\ UNCHANGED <<screenVars, buttonVars, post>> /\ banner' \in {"none", "ok", "error"}
    BY <1>1 DEF Zones, Metric, ZonesFetched, ZonesFailed, Demo, Inject, ResetFlow, ListFetched, flash,
                zoneVars, bannerVars, ScreenTypes
  <2>2. QED
    BY <2>1 DEF ScreenTypes, screenVars, buttonVars
<1>2. CASE Commit
  <2>1. (lead # "none") \in BOOLEAN
    OBVIOUS
  <2>2. displayed' = lead /\ displaced' = displayed /\ effectDue' = (lead # "none")
        /\ UNCHANGED <<zoneVars, invented, post, bannerVars>>
    BY <1>2 DEF Commit
  <2>3. displayed' \in Leads /\ displaced' \in Leads /\ effectDue' \in BOOLEAN
    BY <2>1, <2>2, LeadType DEF ScreenTypes
  <2>4. armed' \in BOOLEAN /\ armTimer' \in BOOLEAN /\ armedFor' \in Leads
    BY <1>0, <1>2 DEF Commit, Disarmed, buttonVars, ScreenTypes
  <2>5. QED
    BY <2>2, <2>3, <2>4 DEF ScreenTypes, zoneVars, bannerVars
<1>3. CASE LeadEffect \/ ArmLapses
  BY <1>0, <1>3 DEF LeadEffect, ArmLapses, Disarmed, ScreenTypes, screenVars, zoneVars, bannerVars
<1>4. CASE Arm
  BY <1>4 DEF Arm, ScreenTypes, screenVars, zoneVars, bannerVars
<1>5. CASE Confirm
  BY <1>0, <1>5 DEF Confirm, Disarmed, ScreenTypes, screenVars, zoneVars, bannerVars
<1>6. CASE PostAnswered
  BY <1>6 DEF PostAnswered, ScreenTypes, screenVars, zoneVars, buttonVars, bannerVars
<1>7. CASE PostDone \/ PostTimeout \/ PostFails
  BY <1>0, <1>7 DEF PostDone, PostTimeout, PostFails, NoPost, flash, ScreenTypes, screenVars, zoneVars, buttonVars
<1>8. ASSUME NEW t, BannerLapses(t) PROVE ScreenTypes'
  BY <1>8 DEF BannerLapses, ScreenTypes, screenVars, zoneVars, buttonVars
<1>9. CASE UNCHANGED vars
  BY <1>9 DEF vars, ScreenTypes, screenVars, zoneVars, buttonVars, bannerVars
<1>10. QED
  BY <1>1, <1>2, <1>3, <1>4, <1>5, <1>6, <1>7, <1>8, <1>9 DEF Next, Screen, Timers, Button

\* The terminal's state keeps its types: zones are in the list once, whichever of
\* metrics and fetched lists brings them, and what is shown or armed is one of them.
THEOREM ConsoleTypesHold == Spec => []TypeOK
<1>1. Init => ZonesInv /\ ScreenTypes
  <2> SUFFICES ASSUME Init PROVE ZonesInv /\ ScreenTypes
    OBVIOUS
  <2>1. ZonesInv
    BY ZonesInit DEF Init, ZonesInv
  <2>2. ScreenTypes
    BY DEF Init, NoPost, ScreenTypes, Leads
  <2>3. QED
    BY <2>1, <2>2
<1>2. ZonesInv /\ ScreenTypes /\ BannerOwnsTimer => TypeOK
  BY DEF ZonesInv, ScreenTypes, TypeOK
<1>3. QED
  BY <1>1, <1>2, ZonesNext, ScreenNext, BannerIsItsOwn, PTL DEF Spec
=============================================================================
